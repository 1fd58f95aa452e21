------------------------------ MODULE RpcCalls ------------------------------
(***************************************************************************)
(* What a remote procedure call promises: a call returns what the one      *)
(* evaluation of it has answered, or fails, and then it has been evaluated *)
(* at most once.  RpcSession implements this specification.                *)
(***************************************************************************)
CONSTANTS Callers, Methods, Statuses, NoCall

VARIABLES
    calling,  \* the method each caller waits for, or NoCall
    ran,      \* what the evaluation of that call answered, or NoCall
    last      \* the outcome of each caller's last call

callVars == <<calling, ran, last>>

Init ==
    /\ calling = [c \in Callers |-> NoCall]
    /\ ran = [c \in Callers |-> NoCall]
    /\ last = [c \in Callers |-> NoCall]

Invoke(c, m) ==
    /\ calling[c] = NoCall
    /\ calling' = [calling EXCEPT ![c] = m]
    /\ UNCHANGED <<ran, last>>

Evaluate(c, s) ==
    /\ calling[c] # NoCall
    /\ ran[c] = NoCall
    /\ ran' = [ran EXCEPT ![c] = <<calling[c], s>>]
    /\ UNCHANGED <<calling, last>>

Ends(c, outcome) ==
    /\ calling[c] # NoCall
    /\ calling' = [calling EXCEPT ![c] = NoCall]
    /\ ran' = [ran EXCEPT ![c] = NoCall]
    /\ last' = [last EXCEPT ![c] = outcome]

Return(c) == ran[c] # NoCall /\ Ends(c, ran[c])

Fail(c) == Ends(c, <<"failed">>)

Finish(c) == Return(c) \/ Fail(c)

Next == \E c \in Callers :
    \/ \E m \in Methods : Invoke(c, m)
    \/ \E s \in Statuses : Evaluate(c, s)
    \/ Finish(c)

(* Every call ends.                                                        *)
Spec == Init /\ [][Next]_callVars /\ \A c \in Callers : WF_callVars(Finish(c))
=============================================================================
