SPECIFICATION SessionSpec
CONSTANTS
    MaxPanes = 4
    MaxShells = 6
    MaxSaved = 4
    StartFiles <- MCStartFiles
    WritesFail = TRUE
    MaxSteps = 4
INVARIANTS
    SplitsAreSound
    HiddenAreExtraPanes
    ActiveIsATab
    SavedIsRestored
    SavedSplitsAreWhole
PROPERTIES
    WritesLandInOrder
