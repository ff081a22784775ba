SPECIFICATION Spec
CONSTANTS
    a = a
    b = b
    c = c
    k1 = k1
    k2 = k2
    k3 = k3
    Shapes <- MCShapes
    Slots <- MCSlots
    Markers = {m1, m2, m3, m4, m5, m6, m7, m8, m9, m10, m11, m12, m13, m14}
    Graphs <- MCAllGraphs
    None = None
INVARIANTS
    FlagIsPath
    WalkedIsCut
    SameShape
    NoCycleLeft
    OnlyCyclesMarked
    OnlyInputFails
PROPERTY
    Terminates
