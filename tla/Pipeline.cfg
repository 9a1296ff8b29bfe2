SPECIFICATION FairSpec
CONSTANTS
  Instances = {i1, i2}
  BufferSize = 2
  Levels = {"info", "error"}
  MaxMade = 2
  MaxTrouble = 1
CHECK_DEADLOCK FALSE
INVARIANTS TypeOK AtMostOnce WrittenInOrder LogsInOrder LogsFollowTopic NoAmplification
PROPERTIES ImplementsDelivery Delivered Settles
