SPECIFICATION FairSpec
CONSTANTS
    Pc <- MCPc
    Entry = 0
    Handler = 4
    Program <- Stopping
    Capacity = 2
    MaxCommands = 2
    MaxInterrupts = 2
PROPERTIES CommandsReturn InterruptsTaken
