----------------------------- MODULE MCConnPool -----------------------------
(* Four workers compete for two connections: enough for two pushes to race *)
(* with two sleepers, or with a sleeper and a newcomer.                    *)
EXTENDS ConnPool
=============================================================================
