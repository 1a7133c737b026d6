------------------------------ MODULE MCPipelines ------------------------------
(* Instances of Pipelines for TLC. *)
EXTENDS Pipelines, TLC

CONSTANTS p1, p2, p3, q1, q2, t1, t2

(* All pipelines in one project; another project has none. *)
MCProjectOf == [p \in Pipelines |-> q1]

(* One pipeline lives, fails and is retried; the others only come to be. *)
MCMaxVersion == [p \in Pipelines |-> IF p = p1 THEN 6 ELSE 1]
MCShortLives == [p \in Pipelines |-> IF p = p1 THEN 3 ELSE 1]

Symmetry == Permutations(Tickets) \cup Permutations(Pipelines \ Reported)
=============================================================================
