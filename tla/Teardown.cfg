SPECIFICATION Spec
CONSTANTS
    Pc <- MCPc
    Entry = 0
    Handler = 4
    Program <- Stopping
    Capacity = 2
    MaxCommands = 3
    MaxInterrupts = 2
INVARIANT FreesAllocatedMemory
