\* one table, one key, nothing fails but SETEX
CONSTANTS
    Tables = {kv}
    DefaultTable = kv
    Keys = {k1}
    Values = {v1, v2}
    Ttls = {TRUE}
    None = None
SPECIFICATION RefreshFaultSpec
PROPERTIES ReadsSeeWrites
