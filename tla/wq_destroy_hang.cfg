\* The queue is destroyed before its new thread has run.
\* A destroyed queue is at rest, so deadlock is not an error.
SPECIFICATION FairSpec
CONSTANTS
  WqType = "DIS_SQ"
  WqeMax <- RingForOne
  CqeRoom = 2
  Posters = {app}
  ByteLens = {1}
  Larges = {FALSE}
  Addrs = {}
  NULL = NULL
  Tso = FALSE
  Killable = FALSE
  Credits = 9
  MaxPosts = 1
PROPERTIES DestroyAlwaysReturns
CHECK_DEADLOCK FALSE
