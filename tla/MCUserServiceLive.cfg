CONSTANTS
    Workers = {w1, w2}
    Conns = {c1}
    None = None
    Names = {n1}
    Emails = {e1}
    MaxId = 1
SPECIFICATION Spec
PROPERTIES EveryRequestAnswered
