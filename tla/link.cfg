\* One domain on each node.  The requester creates two queue pairs, one after
\* the other, the responder one.
\* Destroyed queue pairs are at rest, so deadlock is not an error.
SPECIFICATION FairSpec
CONSTANTS
  Nodes = {req, res}
  Initiators = {res}
  Pds = {pd}
  NoWq = NoWq
  QpIni = 100
  QpMax = 102
  MsgMax = 1
  QpStates = {"RESET"}
  MaxQps <- ManyAndOne
  MaxLive = 1
  MaxRtr = 1
  MaxMsgs = 2
INVARIANTS TypeOK Paired ReceivedInOrder DestroyedIsQuiet
PROPERTIES Connects Arrives IsChannel AreWorkers
CHECK_DEADLOCK FALSE
