\* Three overlapping searches; two failures open the circuit.
CONSTANTS
    Callers = {c1, c2, c3}
    Threshold = 2
    Recovery = 2
    Attempts = 2
SPECIFICATION FairSpec
INVARIANTS TypeOK ClosedBelowThreshold
PROPERTIES RecoversWithCluster
