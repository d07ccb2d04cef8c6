SPECIFICATION Spec
CONSTANTS
  NSenders = 1
  NReceivers = 1
  NEpochs = 3
  Programs <- PairPrograms
  Throttle = 1
  KeepAlloc = {TRUE, FALSE}
  ExitKeepAlloc = {TRUE, FALSE}
  Padding = {FALSE}
INVARIANT PostedIntact
