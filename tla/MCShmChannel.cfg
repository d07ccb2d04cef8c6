SPECIFICATION Spec
CONSTANT NMsgs = 4
INVARIANTS TypeOK CopyValid BufferExclusive Delivery
PROPERTY Implements
