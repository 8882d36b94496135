SPECIFICATION Spec
CONSTANTS
  p1 = p1
  p2 = p2
  s1 = s1
  s2 = s2
  Peers = {p1, p2}
  Slots = {s1, s2}
  SeqMod = 3
  Cmds = {"SIGNAL", "CLEAR"}
  QueueCap = 1
  NoNbr = NoNbr
  NoPeer = NoPeer
  NoSlot = NoSlot
SYMMETRY SymBoth
INVARIANTS TypeOK OnePerPeer Armed SeqnoInStep ClearAssert
 
