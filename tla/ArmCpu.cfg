SPECIFICATION Spec
CONSTANTS
    WordMod = 32
    Word <- MCWord
    RegisterNumbers = {13, 15}
    RegisterLists <- MCLists
    Data = {6}
    Offsets <- MCOffsets
    Flags <- MCFlags
    MsrOperands <- MCMsrOperands
    FieldMasks <- MCFieldMasks
    MemorySize = 16
    Sent = {1, 3}
    MaxCycles = 3
INVARIANTS TypeOK ControlBits
PROPERTIES EntryOnlyByException WritesOwnBank
