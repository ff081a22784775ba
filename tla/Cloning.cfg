SPECIFICATION FairSpec
CONSTANTS
    IDs = {1, 2, 3}
    Original = Original
    Shallow = Shallow
    Graphs <- MCGraphs
    MaxCalls = 3
INVARIANTS
    Faithful
    Detached
PROPERTIES
    Untouched
    Terminates
