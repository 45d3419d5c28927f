SPECIFICATION Spec
CONSTANTS
  Nil = Nil
  User = User
  Group = Group
  i1 = i1
  i2 = i2
  n = n
  N = N
  Procs = {p1, p2}
  Types = {User}
  UserTypes = {User}
  Ids = {i1}
  Names = {n, N}
  Fold <- MCFold
  Refs = {1, 2, 3, 4, 5, 6, 7}
  Requests <- MCOneResource
  HookOutcomes = {"return", "reject", "panic"}
  PerSecond = 2
  FirstClock = 1
  MaxClock = 2
SYMMETRY Symmetry
INVARIANTS TypeOK LockInv NoAliasing
PROPERTIES PublishedImmutable MetaHistory GoneForGood Linearizable
