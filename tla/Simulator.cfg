SPECIFICATION Spec
CONSTANTS
    Pc <- MCPc
    Entry = 0
    Handler = 4
    Program <- Stopping
    Capacity = 2
    MaxCommands = 4
    MaxInterrupts = 2
INVARIANTS TypeOK LockDiscipline ContRespectsBreakpoints OneReplyEach
