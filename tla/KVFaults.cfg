\* two tables that share the cache, every failure, bad ttls
CONSTANTS
    Tables = {kv, other}
    DefaultTable = kv
    Keys = {k1}
    Values = {v1, v2}
    Ttls = {TRUE, FALSE}
    None = None
SPECIFICATION Spec
INVARIANTS TypeOK StaleOnlyIfMissed
PROPERTIES CacheSettles
