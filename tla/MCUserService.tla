---------------------------- MODULE MCUserService ---------------------------
(* Two workers, two connections, two e-mail addresses and two ids: two     *)
(* inserts can overlap, and a row can be deleted between them.             *)
EXTENDS UserService, TLC

Symmetry == Permutations(Workers) \cup Permutations(Conns) \cup Permutations(Emails)
=============================================================================
