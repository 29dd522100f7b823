SPECIFICATION Spec
CONSTANTS
    Host = {"h1", "t1"}
    Temp = {"t1"}
    Others = {"global", "tool", "settings"}
    Path <- MCPaths
    InitLists <- MCInitLists
    MaxSteps = 3
INVARIANTS
    SettledListIsSaved
    FoldersHoldTheirHosts
PROPERTIES
    OnlyLoadsOrphanTabs
