SPECIFICATION FairSpec
CONSTANTS
  root = root
  leaf = leaf
  Nodes = {root, leaf}
  Nbrs <- MCNbrs
  Blacklisters = {root}
  sfsb_channels = {13, 15, 22}
  Lifetime = 4
  Interval = 2
  MaxAge = 2
  PrivatePool = 3
  NbrPool = 9
  Room = 5
INVARIANTS TypeOK NeverOutlives FewCopies
PROPERTIES MeetAgain Released
