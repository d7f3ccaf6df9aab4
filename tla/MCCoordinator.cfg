CONSTANTS
  s1 = s1  s2 = s2  b1 = b1  b2 = b2  b3 = b3  p1 = p1  p2 = p2
  Session = {s1, s2}
  Main = main
  Thread = {s1, s2, main}
  File = {1, 2, 3, 4}
  None = none
  Boot = {b1, b2, b3}
  PublisherOf <- TwoPublishers
  MaxEpoch = 2
SPECIFICATION Spec
INVARIANTS TypeOK TrustIsLive NoOrphan
PROPERTIES CleanStopIsDurable
VIEW View
CONSTRAINT Bounds
SYMMETRY Symmetry
CHECK_DEADLOCK FALSE
