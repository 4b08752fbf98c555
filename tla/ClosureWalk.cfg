CONSTANT Walks <- MCWalks
SPECIFICATION Spec
INVARIANT VisitsExactlyTheClosure
