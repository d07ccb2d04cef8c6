SPECIFICATION IpSpec
CONSTANTS
  NThreads = 2
  NAllocs = 3
INVARIANTS IpTypeOK Agreement LiveWhileHeld FreedOnce
PROPERTY NothingLeaks
