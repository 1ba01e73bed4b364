\* Requests with few and with many iovecs share the slots of the ring.
\* A destroyed queue is at rest, so deadlock is not an error.
SPECIFICATION Spec
CONSTANTS
  WqType = "DIS_SQ"
  WqeMax <- RingForOne
  CqeRoom = 2
  Posters = {app}
  ByteLens = {1}
  Larges = {TRUE, FALSE}
  Addrs = {m1, m2}
  NULL = NULL
  Tso = FALSE
  Killable = FALSE
  Credits = 9
  MaxPosts = 3
INVARIANTS FreesOwnMap
CHECK_DEADLOCK FALSE
