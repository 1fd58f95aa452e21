---------------------------- MODULE FrameChannel ----------------------------
(***************************************************************************)
(* What send_frame and recv_frame promise to those who call them: frames   *)
(* come out decoded, whole, once and in order, each in one step; a frame   *)
(* that the end of its sender has cut off never comes out; and the         *)
(* receiver is told of the end only when it has all that was sent whole.   *)
(* RpcWire implements this specification, and the connections of           *)
(* RpcSession are such channels.                                           *)
(***************************************************************************)
EXTENDS Naturals, Sequences

CONSTANTS
    Frames,    \* what may be sent
    Decode(_)  \* the set of what a frame is decoded to: one thing, or none if
               \* it is refused

VARIABLES
    posted,  \* the frames sent
    got,     \* what recv_frame has returned
    sender,  \* "open", "closed" or "broken": ended within its last frame
    stopped  \* recv_frame has returned nullopt or has thrown

chanVars == <<posted, got, sender, stopped>>

Init ==
    /\ posted = <<>>
    /\ got = <<>>
    /\ sender = "open"
    /\ stopped = FALSE

Post ==
    /\ sender = "open"
    /\ UNCHANGED <<got, sender, stopped>>
    /\ \E f \in Frames : posted' = Append(posted, f)

Close ==
    /\ sender = "open"
    /\ \/ sender' = "closed"
       \/ Len(got) < Len(posted) /\ sender' = "broken"
    /\ UNCHANGED <<posted, got, stopped>>

Whole == IF sender = "broken" THEN Len(posted) - 1 ELSE Len(posted)

Waiting == ~stopped /\ Len(got) < Whole

NextDecoded == Decode(posted[Len(got) + 1])

Deliver ==
    /\ Waiting
    /\ UNCHANGED <<posted, sender, stopped>>
    /\ \E x \in NextDecoded : got' = Append(got, x)

Refuse ==
    /\ Waiting
    /\ UNCHANGED <<posted, got, sender>>
    /\ NextDecoded = {}
    /\ stopped' = TRUE

NoMore ==
    /\ ~stopped
    /\ sender # "open"
    /\ Len(got) = Whole
    /\ stopped' = TRUE
    /\ UNCHANGED <<posted, got, sender>>

Receive == Deliver \/ Refuse \/ NoMore

Next == Post \/ Close \/ Receive

(* What has been sent is received, and so is the end.                      *)
Spec == Init /\ [][Next]_chanVars /\ WF_chanVars(Receive)
=============================================================================
