CONSTANTS
    Workers = {w1, w2}
    Conns = {c1, c2}
    None = None
    Names = {n1}
    Emails = {e1, e2}
    MaxId = 2
INIT Init
NEXT Next
SYMMETRY Symmetry
INVARIANTS TypeOK CreateAnswersOwnId
