SPECIFICATION FairSpec
CONSTANTS
  Nil = Nil
  i1 = i1
  i2 = i2
  name = name
  first = first
  last = last
  a = a
  b = b
  accounts = accounts
  profiles = profiles
  details = details
  Procs = {p1, p2, p3}
  Ids = {i1}
  Attrs = {name, first}
  Values = {a, b}
  UserName = name
  Extensions = {}
  Requests <- MCShort
  MaxClock = 0
  Primary = accounts
  Joins <- MCOneJoin
  DeleteJoin = {profiles}
  Home <- MCShortHome
  PrimaryWritten = TRUE
  Driver = "postgres"
  MaxConns = 2
INVARIANTS NothingHeld
PROPERTIES EveryCallReturns
