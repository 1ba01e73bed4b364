\* Two domains on each node with a queue pair each.
SPECIFICATION Spec
CONSTANTS
  Nodes = {req, res}
  Initiators = {res}
  Pds = {pd1, pd2}
  NoWq = NoWq
  QpIni = 100
  QpMax = 101
  MsgMax = 1
  QpStates = {"RESET"}
  MaxQps <- OneEach
  MaxLive = 1
  MaxRtr = 1
  MaxMsgs = 1
INVARIANTS Paired
CHECK_DEADLOCK FALSE
