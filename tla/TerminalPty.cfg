SPECIFICATION Spec
CONSTANTS
    MaxGen = 3
    Sizes <- MCSizes
INVARIANTS
    LiveShellsRun
    LiveShellsFit
    KeysStayWithTheirShell
PROPERTIES
    ForegroundShellsStay
    StartsEnd
