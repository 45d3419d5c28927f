SPECIFICATION Spec
CONSTANTS
  Nil = Nil
  i1 = i1
  i2 = i2
  name = name
  nick = nick
  ext = ext
  a = a
  b = b
  Procs = {p1, p2}
  Ids = {i1, i2}
  Attrs = {name, nick, ext}
  Values = {a, b}
  UserName = name
  Columns = {name}
  Extensions = {ext}
  Requests <- MCCalls
  Dialect = "postgres"
  FallbackLimit = 1
  PerSecond = 2
  MaxClock = 3
SYMMETRY Symmetry
INVARIANTS TypeOK SameCreated
PROPERTIES ListMatches NotFoundIsTrue GoneForGood
