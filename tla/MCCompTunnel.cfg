SPECIFICATION Spec
CONSTANTS
    MaxCalls = 4
    MaxConnections = 3
INVARIANT InStep
PROPERTIES Implements CallsReturn
