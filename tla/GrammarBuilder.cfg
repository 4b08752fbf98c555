CONSTANT Sites <- MCSites
SPECIFICATION Spec
INVARIANTS
    FirstIsExact
    EofAndFollowAreExact
PROPERTY Terminates
