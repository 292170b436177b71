SPECIFICATION MCSpec
CONSTANTS
    Word = {0, 1}
    RegisterNumbers = {8, 13}
    ModeArgs <- MCModeArgs
    Status <- MCStatus
    ByteMod = 2
    Size = 5
    Addresses = {1, 2, 4, 5}
    CodeAddress <- MCCodeAddress
    MAX_BREAKPOINTS_NUMBER = 3
INVARIANTS TypeOK TableTypeOK Sorted SearchBracketed
PROPERTIES ImplementsBanks ImplementsFlatMemory ImplementsSet CallsReturn
