CONSTANTS
    Gates <- AllGates
    Unreliable <- Failing
SPECIFICATION Spec
INVARIANTS
    VerdictExact
    OwnAnswer
    ChecksSeeAll
PROPERTY SessionEnds
