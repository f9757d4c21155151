SPECIFICATION SeqSpec
CONSTANTS
  c1 = c1
  c2 = c2
  SeqClients = {c1, c2}
  SeqOps <- MCOps
  Queues <- MCQueues
  Capacity = 4
  PacketCmds = 2
  MAX_SEQ_CALLS = 3
  MAX_SEQ_LOSSES = 1
  NoPort = NoPort
INVARIANTS
  FifoIsThePushes
  ControlAsAsked
  ReturnsAreTrue
CHECK_DEADLOCK FALSE
