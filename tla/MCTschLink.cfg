SPECIFICATION FairSpec
CONSTANTS
  Receivers = {r1, r2}
  Bcast = bc
  SeqMax = 2
  NoNumber = 99
  MaxFrames = 3
  MaxRestarts = 1
  QueueCap = 2
  DequeuedRoom = 1
  InputRoom = 1
  Retries = 1
INVARIANTS TypeOK AckedIsKept HandedOnceInOrder
PROPERTIES Settled
CHECK_DEADLOCK FALSE
