--------------------------- MODULE MCChatServer -----------------------------
(* Small chat rooms; the cfg chooses how many peers, descriptors and       *)
(* characters there are.                                                   *)
EXTENDS ChatServer, TLC

Symmetry == Permutations(Peers)

Remains == {<<CHOOSE c \in Chars : TRUE>>}
=============================================================================
