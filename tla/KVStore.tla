------------------------------ MODULE KVStore -------------------------------
(***************************************************************************)
(* What a client of the key-value service expects when it thinks of one    *)
(* store and of no cache: requests are served one at a time, a write takes *)
(* effect once, a read answers what the last write left.                   *)
(***************************************************************************)
CONSTANTS Keys, Values, None

VARIABLES
    store,    \* the value of every key, or None
    request,  \* the request being served, or None
    written,  \* the effect of the request has taken place
    reply     \* the answer to the last request

storeVars == <<store, request, written, reply>>

StoreRequests ==
    [op : {"get", "del"}, key : Keys] \cup [op : {"put"}, key : Keys, value : Values]

Init ==
    /\ store \in [Keys -> Values \cup {None}]
    /\ request = None
    /\ written = FALSE
    /\ reply = None

Invoke(r) ==
    /\ request = None
    /\ request' = r
    /\ UNCHANGED <<store, written, reply>>

Write ==
    /\ request # None
    /\ request.op \in {"put", "del"}
    /\ ~written
    /\ written' = TRUE
    /\ store' = [store EXCEPT ![request.key] =
                   IF request.op = "put" THEN request.value ELSE None]
    /\ UNCHANGED <<request, reply>>

Acknowledge ==
    /\ written
    /\ written' = FALSE
    /\ request' = None
    /\ reply' = [status |-> "ok", value |-> None]
    /\ UNCHANGED store

Read ==
    /\ request # None
    /\ request.op = "get"
    /\ reply' = [status |-> IF store[request.key] = None THEN "not_found" ELSE "ok",
                 value |-> store[request.key]]
    /\ request' = None
    /\ UNCHANGED <<store, written>>

Serve == Write \/ Acknowledge \/ Read

Next == Serve \/ \E r \in StoreRequests : Invoke(r)

(* Every request is answered.                                              *)
Spec == Init /\ [][Next]_storeVars /\ WF_storeVars(Serve)
=============================================================================
