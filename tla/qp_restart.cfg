\* A queue pair that is moved to RTR twice, with other moves in between or none.
\* Destroyed queue pairs are at rest, so deadlock is not an error.
SPECIFICATION Spec
CONSTANTS
  Nodes = {req, res}
  Initiators = {res}
  Pds = {pd}
  NoWq = NoWq
  QpIni = 100
  QpMax = 101
  MsgMax = 1
  QpStates = {"RESET", "INIT", "RTS"}
  MaxQps <- OneEach
  MaxLive = 1
  MaxRtr = 2
  MaxMsgs = 1
INVARIANTS NothingLeftBehind
CHECK_DEADLOCK FALSE
