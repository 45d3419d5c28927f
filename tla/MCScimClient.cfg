SPECIFICATION FairSpec
CONSTANTS
  Nil = Nil
  i1 = i1
  v = v
  w = w
  Procs = {p1, p2}
  Ids = {i1}
  Values = {v, w}
  Requests <- MCRequests
  MaxRetries = 3
  MaxCalls = 2
INVARIANTS TypeOK AtMostOnce OutcomeIsTrue
PROPERTIES Forwarded CallEnds
CHECK_DEADLOCK FALSE
