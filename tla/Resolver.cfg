SPECIFICATION Spec
CONSTANTS
    a = a
    b = b
    c = c
    p = p
    q = q
    r = r
    m = m
    n = n
    Shapes <- MCShapes
    Documents <- MCDocuments
    StackLimit = 12
    None = None
INVARIANTS
    Complete
    FailsIfWrong
    LinkedOnce
PROPERTY
    KindStays
    Terminates
