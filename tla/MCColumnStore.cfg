SPECIFICATION Spec
CONSTANTS
  Nil = Nil
  i1 = i1
  i2 = i2
  name = name
  first = first
  last = last
  a = a
  b = b
  accounts = accounts
  profiles = profiles
  details = details
  Procs = {p1, p2}
  Ids = {i1, i2}
  Attrs = {name, first, last}
  Values = {a, b}
  UserName = name
  Extensions = {last}
  Requests <- MCCalls
  MaxClock = 1
  Primary = accounts
  Joins <- MCJoins
  DeleteJoin = {profiles, details}
  Home <- MCHome
  PrimaryWritten = TRUE
  Driver = "postgres"
  MaxConns = 2
INVARIANTS TypeOK NoOrphans DeadlocksNeedDeleteOrSwap
PROPERTIES OneRow
