SPECIFICATION Spec
CONSTANTS
    z = z
    a = a
    c = c
    x = x
    y = y
    w = w
    v = v
    i = i
    j = j
    m = m
    n = n
    Shapes <- MCShapes
    Names = {m, n}
    Models <- MCAll
    None = None
INVARIANTS
    Complete
    NothingExtra
    InPlace
    FlagIsSource
PROPERTY
    Terminates
