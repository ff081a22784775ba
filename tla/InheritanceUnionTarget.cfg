SPECIFICATION Spec
CONSTANTS
    None = None
    p = p
    q = q
    Names = {p, q}
    Documents <- MCUnionTargets
    Values <- MCValues
    FirstID = 100
INVARIANT UnionMembersChecked
