---------------------------- MODULE ResourcePool ----------------------------
(***************************************************************************)
(* What a connection pool promises its users, without saying how: a        *)
(* resource is free, owned by one user, or lost; a user who asks for a     *)
(* resource is granted a free one.  ConnPool implements this specification *)
(* with a mutex, a condition variable and a queue.                         *)
(***************************************************************************)
CONSTANTS Users, Resources, Nobody

VARIABLES
    asking,  \* the users whose request for a resource is pending
    free,    \* the resources anyone may be granted
    owner    \* who holds a resource; Nobody when it is free or lost

poolVars == <<asking, free, owner>>

Idle(u) == u \notin asking /\ \A r \in Resources : owner[r] # u

Init ==
    /\ asking = {}
    /\ free = Resources
    /\ owner = [r \in Resources |-> Nobody]

Ask(u) ==
    /\ Idle(u)
    /\ asking' = asking \cup {u}
    /\ UNCHANGED <<free, owner>>

Grant(u, r) ==
    /\ u \in asking
    /\ r \in free
    /\ asking' = asking \ {u}
    /\ free' = free \ {r}
    /\ owner' = [owner EXCEPT ![r] = u]

Return(u, r) ==
    /\ owner[r] = u
    /\ free' = free \cup {r}
    /\ owner' = [owner EXCEPT ![r] = Nobody]
    /\ UNCHANGED asking

Lose(u, r) ==
    /\ owner[r] = u
    /\ owner' = [owner EXCEPT ![r] = Nobody]
    /\ UNCHANGED <<asking, free>>

SomeGrant == \E u \in Users, r \in Resources : Grant(u, r)

Next ==
    \/ \E u \in Users : Ask(u)
    \/ SomeGrant
    \/ \E u \in Users, r \in Resources : Return(u, r) \/ Lose(u, r)

(***************************************************************************)
(* A free resource does not stay free for ever while someone asks for one. *)
(***************************************************************************)
Spec == Init /\ [][Next]_poolVars /\ WF_poolVars(SomeGrant)
=============================================================================
