SPECIFICATION FairSpec
CONSTANTS
    Capacities <- MCCapacities
    MaxHeld = 30
    Zero <- MCZero
    MaxId = 3
    MaxAckIds = 2
    Base = 4
    Fields <- MCFields
    Scripts <- MCScripts
    InitialCapacity = 3
    ReadSize = 3
    MaxPacket = 9
INVARIANTS
    BufferHoldsStream
    
    NothingOverlooked

    
CHECK_DEADLOCK FALSE
