----------------------------- MODULE MCOnboarding -----------------------------
(* Instances of Onboarding for TLC. *)
EXTENDS Onboarding, TLC

CONSTANTS u1, u2, b1, b2, a1, a2

(* Hyphens and apostrophes are removed: different names may collide. *)
MCCleanupName == [n \in Names |-> "clean"]
MCCleanNames == {"clean"}

(* Logins without "__". *)
MCCleanupLogin == [a \in Accounts |-> a]
MCCleanLogins == Accounts

Symmetry == Permutations(UserIds) \cup Permutations(Browsers)
=============================================================================
