CONSTANTS
    Unset = Unset
    Lower <- MCLower
    Limits <- MCLimits
    TextOrder <- MCTextOrder
    Binding <- MCBinding
    Target <- MCTarget
    Components <- MCComponents
    Jobs = {j1, j2}
    InitialDisk <- MCInitialDisk
    Edits <- MCEdits
    Catalogs <- MCCatalogs
    Directories <- MCDirectories
    MaxCommands = 3
    MaxEdits = 1
SYMMETRY MCSymmetry
SPECIFICATION Spec
CHECK_DEADLOCK FALSE
INVARIANTS
    LoadedSound
    LocksWhole
    ReportedLocksStay
    CompiledAsLocked
    SelectionKept
    ModelsSuffice
