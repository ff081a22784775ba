CONSTANTS
    l1 = l1  l2 = l2  dt = dt  ta = ta  tb = tb  tp = tp  tq = tq  td = td
    nA = nA  nB = nB  nP = nP  nQ = nQ  nD = nD  mB = mB  lA = lA
    None = None
    Locations <- MCLocations
    FacetNames <- MCFacetNames
    Types <- MCTypes
    Names <- MCNames
    Models <- MCModels
    MaxCalls = 3
SPECIFICATION Spec
INVARIANTS
    ReportsWhatIsWrong
    UnwrapFindsClashes
    DefinedByKept
