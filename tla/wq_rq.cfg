\* A receive queue whose messages arrive in parts; the application keeps within
\* the room of the completion queue, a fatal signal may end the thread at any
\* time, and stores are not delayed.
\* A destroyed queue is at rest, so deadlock is not an error.
SPECIFICATION FairSpec
CONSTANTS
  WqType = "DIS_RQ"
  WqeMax <- RingForThree
  CqeRoom = 3
  Posters = {app}
  ByteLens = {1, 3}
  Larges = {FALSE}
  Addrs = {}
  NULL = NULL
  Tso = FALSE
  Killable = TRUE
  Credits = 3
  MaxPosts = 4
INVARIANTS CompletionsMatch EachCompleted StopsLiveThread NoLostWakeup
PROPERTIES Served DestroyReturns
CHECK_DEADLOCK FALSE
