SPECIFICATION FairSpec
CONSTANTS
  p1 = p1
  p2 = p2
  s1 = s1
  Peers = {p1, p2}
  Slots = {s1}
  SeqMod = 3
  Cmds = {"ADD", "CLEAR", "SIGNAL"}
  QueueCap = 1
  NoNbr = NoNbr
  NoPeer = NoPeer
  NoSlot = NoSlot
PROPERTIES TransEnds
