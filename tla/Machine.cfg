SPECIFICATION MCSpec
CONSTANTS
    WordMod = 256
    Width = 8
    ByteMod = 4
    Size = 20
    MemorySize = 20
    Word <- MCWord
    MaxCycles = 2
    RegisterNumbers = {}
    RegisterLists = {}
    Data = {}
    Offsets = {}
    Flags = {}
    MsrOperands = {}
    FieldMasks = {}
    BigEndian = FALSE
    Garbage = {0, 170}
    BaseRegisters = {0, 15}
    DataRegisters = {0, 1, 15}
    OffsetRegister = 2
    Amounts = {0, 1, 4}
    Lists <- MCLists
    Starts <- MCStarts
    InitialContents <- MCContents
    Escape = 3
    Flip = 2
    Special = {2, 3}
    Numbers = {1, 10, 13, 15, 25}
    Values = {9}
    Files <- MCFiles
    Places = {0, 19, 20}
    BlocksSent <- MCSent
    Lengths = {0, 2}
    BytesStored = {3}
    Found <- MCFound
    Sent = {4}
    MaxRequests = 4
    ShiftedValues <- MCShifted
    OwnAddresses = {4}
INVARIANTS MachineTypeOK AssertionsHold ShiftsAreIterated
PROPERTIES BlockIsOrdered OutsideIsContained RoundTrip RegistersReadBack BlocksReadBack
           AcknowledgedWhole
CHECK_DEADLOCK FALSE
