SPECIFICATION Spec
CONSTANTS
    Addresses = {a1, a2, a3, a4}
    New <- OneOf
    Slots = {s1, s2}
    Requests = {r1, r2, r3}
    NULL = NULL
INVARIANTS TypeOK ListIsOrder NothingLost
PROPERTIES Implements CallsReturn
