---------------------------- MODULE MCRedisShare ----------------------------
(* Ttls: none, one that fits an int of four bits, one that becomes         *)
(* negative by the cast.                                                   *)
EXTENDS RedisShare

TtlValues == {0, 3, 9}
=============================================================================
