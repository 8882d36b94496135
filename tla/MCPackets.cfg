SPECIFICATION Spec
CONSTANTS
  Kinds <- MCKinds
  Values <- MCValues
  Storage = 24
  Sfid = 240
  Seqnos <- MCSeqnos
  MacSeqnos <- MCMacSeqnos
  Pan = 43981
  OtherPan = 257
  Other <- MCOther
  Answers <- MCAnswers
  Terminated = {TRUE, FALSE}
  Sender <- MCSender
  Receiver <- MCReceiver
  DataPayload <- MCPayload
  Beacons <- MCBeacons
  Drifts <- MCDrifts
  MaxLinks = 4
  MaxHopping = 16
  TimeElements = 12
  LinkaddrSize = 8
  Version = 2
  SuppressSeqno = FALSE
INVARIANTS FieldsArrive HeadersAgree  BeaconArrives CorrectionArrives
CHECK_DEADLOCK FALSE
