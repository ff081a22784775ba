CONSTANTS
    g1 = g1
    g2 = g2
    Nil = Nil
    Hook <- MCHook
    Code <- MCCode
    MaxSpare = 1
    MaxOps = 3
    MaxDepth = 2
SPECIFICATION Spec
PROPERTY ListPromise
