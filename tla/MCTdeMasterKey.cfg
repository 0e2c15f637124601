CONSTANTS
    Backends = {b1, b2}
    Tool = Tool
    Postmaster = Postmaster
    MaxGen = 3
SPECIFICATION MasterSpec
INVARIANTS
    MemoryKeyWasStored
    ToolHandsOverSecret
    ToolKeyDurable
