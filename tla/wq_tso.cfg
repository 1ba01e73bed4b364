\* The store to wq_flag may be delayed past the look at the ring (x86).
\* A destroyed queue is at rest, so deadlock is not an error.
SPECIFICATION Spec
CONSTANTS
  WqType = "DIS_SQ"
  WqeMax <- RingForOne
  CqeRoom = 2
  Posters = {app}
  ByteLens = {1}
  Larges = {FALSE}
  Addrs = {}
  NULL = NULL
  Tso = TRUE
  Killable = FALSE
  Credits = 9
  MaxPosts = 2
INVARIANTS NoLostWakeup
CHECK_DEADLOCK FALSE
