--------------------------- MODULE MCProjectsMaker ---------------------------
(* Instances of the maker by itself for TLC. *)
EXTENDS ProjectsMaker, TLC

CONSTANTS u1, u2, u3, a1, a2, a3

(* Every user has a name of its own, which is also its clean name. *)
MCCleanupName == [n \in Names |-> n]
MCCleanupLogin == [a \in Accounts |-> a]
=============================================================================
