SPECIFICATION Spec
CONSTANTS
  na = na
  nb = nb
  nc = nc
  s0 = s0
  s1 = s1
  s2 = s2
  s3 = s3
  NoNbr = NoNbr
  NoPeer = NoPeer
  NoBlock = NoBlock
  Peers = {na, nb}
  Blocks = {1}
  SeqMod = 3
  Cmds = {"ADD", "SIGNAL"}
  Timeslots = {s0, s1, s2}
  SharedSlot = s0
  MaxLinks = 1
  NumCells = 1
  Asks <- BothWays
  Signals <- BothWays
  QueueCap = 2
  RingCap = 2
  AckLoss = FALSE
  Lag = FALSE
  Late = FALSE
SYMMETRY SymSlots
PROPERTIES  NodesAreSixp
CHECK_DEADLOCK FALSE
