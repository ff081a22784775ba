SPECIFICATION Spec
CONSTANTS
    p = p
    q = q
    r = r
    Path <- MCPath
    FileSystems <- MCSystems
    MaxParses = 2
    None = None
INVARIANTS
    CompleteOnSuccess
    OneCopy
    NoErrorLost
    OnlyBadFilesFail
PROPERTY
    LoadedIsStable
    Terminates
