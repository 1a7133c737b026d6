------------------------------- MODULE MCCrashme -------------------------------
(* Instances of Crashme for TLC. *)
EXTENDS Crashme

CONSTANTS c1, c2, f1, f2, u1, u2

(* Two tasks, one of them typed in two ways, of which the deadlines have one. *)
MCBinary == [name \in Names |-> IF name = "ctf/stack" THEN "ctf_stack" ELSE "ctf_heap"]
=============================================================================
