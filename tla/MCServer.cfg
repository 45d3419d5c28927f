SPECIFICATION FairSpec
CONSTANTS
  Nil = Nil
  Endpoints = {"users", "groups"}
  Unknown = {"things"}
  Procs = {p1, p2}
  Requests <- MCRequests
  MaxBulkOps = 3
  Hooked = TRUE
  Relays = TRUE
  CloseWaits = TRUE
INVARIANTS TypeOK BulkStops AnswerTells AuditTells NoCutOff
PROPERTIES ShutdownEnds
CHECK_DEADLOCK FALSE
