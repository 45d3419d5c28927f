SPECIFICATION Spec
CONSTANTS
  Nil = Nil
  i1 = i1
  i2 = i2
  name = name
  nick = nick
  ext = ext
  a = a
  b = b
  Procs = {p1, p2}
  Ids = {i1, i2}
  Attrs = {name, nick, ext}
  Values = {a, b}
  UserName = name
  Columns = {name}
  Extensions = {ext}
  Requests <- MCPatches
  Dialect = "postgres"
  FallbackLimit = 2
  PerSecond = 2
  MaxClock = 1
SYMMETRY Symmetry
PROPERTIES PatchAppliesToStored
