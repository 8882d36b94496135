SPECIFICATION FairSpec
CONSTANTS
  Unicast = {n1}
  Bcast = bc
  Sends = {n1}
  Timeslots = {s0, s1}
  SharedSlot = s0
  Packets = {p1, p2}
  NbrMax = 2
  LinkMax = 2
  QueueCap = 2
  RingCap = 1
  Retries = 1
  MaxWindow = 2
  CountMod = 4
  MidSlot = FALSE
  None = None
  s0 = s0
  s1 = s1
INVARIANTS TypeOK  RingHasRoom CurrentInSchedule 
PROPERTIES  Served
