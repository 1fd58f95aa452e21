\* liveness is checked, so no symmetry reduction
CONSTANTS
    Workers = {w1, w2, w3, w4}
    Conns = {c1, c2}
    None = None
SPECIFICATION PoolSpec
INVARIANTS PoolTypeOK HoldersInUse ConnsExclusive ConnsConserved NeverPopsEmpty NoLostWakeup
PROPERTIES ImplementsResourcePool EveryoneServed
