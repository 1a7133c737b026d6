------------------------------ MODULE StatusTable ------------------------------
(***************************************************************************)
(* What the "pipelines" table promises its readers, whoever writes it and   *)
(* however late: a row holds a status GitLab has had for that pipeline, is  *)
(* never deleted, and, unless the poller runs beside the fresh loop, is     *)
(* never older than what the row held before.                               *)
(***************************************************************************)
EXTENDS Naturals, FiniteSets

CONSTANTS Pipelines, Statuses, Nothing

VARIABLES
    shown,      \* the statuses GitLab has had, numbered in their order
    stored,     \* the row of every pipeline, or Nothing
    enabled     \* the poller runs

Init ==
    /\ shown = [p \in Pipelines |-> {}]
    /\ stored = [p \in Pipelines |-> Nothing]
    /\ enabled \in BOOLEAN

Change(p) ==
    /\ \E s \in Statuses :
          shown' = [shown EXCEPT ![p] = @ \cup {[status |-> s, ver |-> Cardinality(@) + 1]}]
    /\ UNCHANGED <<stored, enabled>>

Store(p) ==
    /\ \E seen \in shown[p] :
          /\ enabled \/ stored[p] = Nothing \/ seen.ver >= stored[p].ver
          /\ stored' = [stored EXCEPT ![p] = seen]
    /\ UNCHANGED <<shown, enabled>>

Next == \E p \in Pipelines : Change(p) \/ Store(p)

Spec == Init /\ [][Next]_<<shown, stored, enabled>>
=============================================================================
