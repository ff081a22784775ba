SPECIFICATION FairSpec
CONSTANTS
    None = None
    ta = ta
    tb = tb
    tc = tc
    r1 = r1
    r2 = r2
    Shapes <- MCShapes
    Names = {"A", "B", "C", "n"}
    Graphs <- MCGraphs
    Wrapped = TRUE
    MaxConversions = 2
INVARIANTS
    Describes
PROPERTIES
    ReturnedStays
    Terminates
