SPECIFICATION FairSpec
CONSTANTS
  Nil = Nil
  User = User
  Group = Group
  i1 = i1
  i2 = i2
  n = n
  N = N
  Procs = {p1, p2, p3}
  Types = {User}
  UserTypes = {User}
  Ids = {i1}
  Names = {n, N}
  Fold <- MCFold
  Refs = {1, 2, 3, 4, 5, 6, 7}
  Requests <- MCReadersWriters
  HookOutcomes = {"return", "reenter"}
  PerSecond = 1
  FirstClock = 0
  MaxClock = 0
PROPERTIES WedgeIsFinal OnlyReentryBlocks
CHECK_DEADLOCK FALSE
