----------------------------- MODULE MCChatRoom -----------------------------
(* Users who type empty lines.  The clients are interchangeable: what one  *)
(* of them is promised, all are.                                           *)
EXTENDS ChatRoom

Short == {<<>>}

Remains == {<<>>}

Someone == CHOOSE p \in Peers : TRUE

(* Every complete line of a client that stays connected is broadcast,      *)
(* unless the server dies.                                                 *)
LinesGetThrough == GetsThrough(Someone)

(* A process whose user has left ends as soon as it hears anything, or     *)
(* loses the server.                                                       *)
LeaverGetsOut == GetsOut(Someone)

(* The server forgets a client that has ended, and frees its descriptor.   *)
LeaversForgotten == Forgotten(Someone)
=============================================================================
