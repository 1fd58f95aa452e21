\* one table, nothing fails, entries expire
CONSTANTS
    Tables = {kv}
    DefaultTable = kv
    Keys = {k1, k2}
    Values = {v1, v2}
    Ttls = {TRUE}
    None = None
SPECIFICATION CalmSpec
INVARIANTS CoherentBetweenRequests
PROPERTIES TransparentCache
