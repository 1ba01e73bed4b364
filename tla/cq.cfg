\* Two work queues and one poller share a ring of four entries.
SPECIFICATION FairSpec
CONSTANTS
  Wqs = {sq, rq}
  Pollers = {app}
  NumWcs = {1, 2}
  CqeMax <- RingForTwo
  MaxCqes = 3
  NoWq = NoWq
INVARIANTS TypeOK NoSharedSlot
PROPERTIES IsFifo PostReturns Delivered
