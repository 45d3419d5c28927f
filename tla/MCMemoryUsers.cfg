SPECIFICATION Spec
CONSTANTS
  Nil = Nil
  User = User
  Group = Group
  i1 = i1
  i2 = i2
  n = n
  N = N
  Procs = {p1, p2}
  Types = {User, Group}
  UserTypes = {User}
  Ids = {i1, i2}
  Names = {n, N}
  Fold <- MCFold
  Refs = {1, 2, 3, 4, 5, 6, 7, 8}
  Requests <- MCUsers
  HookOutcomes = {"return"}
  PerSecond = 2
  FirstClock = 0
  MaxClock = 0
SYMMETRY Symmetry
PROPERTIES CreateChecksUserName Linearizable
