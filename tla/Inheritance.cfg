SPECIFICATION Spec
CONSTANTS
    None = None
    p = p
    q = q
    Names = {p, q}
    Documents <- MCDocuments
    Values <- MCValues
    FirstID = 100
INVARIANTS
    MergedIsMeet
    Narrows
    CheckedHasValue
    RejectedForCause
    SchemaAgrees
