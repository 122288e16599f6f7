SPECIFICATION Spec
CONSTANT
    MaxEntries = 2
INVARIANTS
    HardwareInOrder
    BuffersSafe
    SqdListExact
PROPERTY
    SendsEnd
