SPECIFICATION Spec
CONSTANTS
  na = na
  nb = nb
  nc = nc
  s0 = s0
  s1 = s1
  s2 = s2
  s3 = s3
  NoNbr = NoNbr
  NoPeer = NoPeer
  NoBlock = NoBlock
  Peers = {na, nb, nc}
  Blocks = {1}
  SeqMod = 3
  Cmds = {"ADD", "SIGNAL"}
  Timeslots = {s0, s1, s2, s3}
  SharedSlot = s0
  MaxLinks = 2
  NumCells = 1
  Asks <- Leaves
  Signals = {}
  QueueCap = 2
  RingCap = 2
  AckLoss = FALSE
  Lag = FALSE
  Late = FALSE
SYMMETRY SymLeaves
INVARIANTS TypeOK  
 
CHECK_DEADLOCK FALSE
