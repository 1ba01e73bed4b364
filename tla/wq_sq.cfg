\* A send queue of four entries, every request with a page map of its own,
\* filled and emptied past its end, with a delayed store, a fatal signal and
\* destruction at any time; a completion queue that overflows.
\* A destroyed queue is at rest, so deadlock is not an error.
SPECIFICATION Spec
CONSTANTS
  WqType = "DIS_SQ"
  WqeMax <- RingForThree
  CqeRoom = 2
  Posters = {app}
  ByteLens = {1}
  Larges = {TRUE}
  Addrs = {m1, m2, m3, m4}
  NULL = NULL
  Tso = TRUE
  Killable = TRUE
  Credits = 9
  MaxPosts = 5
SYMMETRY MapSymmetry
INVARIANTS TypeOK RingHoldsRequests ErrorIsLast FullMeansOutstanding FreedIsQuiet MapsLive DrainedLeavesNoMaps
PROPERTIES IsWorkQueue IsWorker
CHECK_DEADLOCK FALSE
