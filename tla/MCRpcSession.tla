--------------------------- MODULE MCRpcSession -----------------------------
(* Small sets of peers; the cfgs choose them.                              *)
EXTENDS RpcSession
=============================================================================
