SPECIFICATION Spec
CONSTANTS
  Schedules <- MCSchedules
  Size <- MCSize
  NoLink = NoLink
  Wrap = 16
  Length = 3
  Guard = 0
  Drift = 1
  Work = 1
  MaxSlot = 4
  MaxAsn = 6
INVARIANTS TypeOK InStep ListensIfItCan
PROPERTIES NeverPassedOver
CHECK_DEADLOCK FALSE
