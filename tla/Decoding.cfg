CONSTANTS
    Documents <- MCDocuments
    Resolved <- MCResolved
SPECIFICATION Spec
INVARIANTS
    DecodedAsSaid
