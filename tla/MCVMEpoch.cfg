SPECIFICATION Spec
CONSTANTS
  NSenders = 2
  NReceivers = 2
  NEpochs = 3
  Programs <- PairAndMesh
  Throttle = 1
  KeepAlloc = {TRUE}
  ExitKeepAlloc = {TRUE, FALSE}
  Padding = {FALSE}
INVARIANTS TypeOK DeliveredInOrder
PROPERTY Completion
