------------------------------- MODULE MCWebsite -------------------------------
(* Instances of Website for TLC. *)
EXTENDS Website

CONSTANTS g1, g2, g3, t1, t2, u1

MCConfigGroups == <<g1, g2>>
=============================================================================
