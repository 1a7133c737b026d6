------------------------------- MODULE MCScoring -------------------------------
(* Instances of Scoring for TLC. *)
EXTENDS Scoring

CONSTANTS p1, p2, f1

Symmetry == Permutations(PipelineIds) \cup Permutations(FlagIds)

MCTask(name, score, crashme) == [task |-> name, score |-> score, crashme |-> crashme]

(* Times: 0 is in time, 2 late for all but one task group, 3 after the final deadline. *)
MCDecay == [late \in 0..3 |-> <<100, 60, 36, 21>>[late + 1]]

MCPolicies == [hard |-> [kind |-> "linear", after |-> 2, multiplier |-> 0],
               soft |-> [kind |-> "exp", threshold |-> 30]]

(* Two task groups share a scoring group whose maximum is derived; a third  *)
(* has a group with a maximum of its own and a crashme task; the scoring    *)
(* group of the fourth is not in the sheet.                                 *)
MCSheet ==
    [assignments |-> <<
       [title |-> "one", group |-> "", deadline |-> 1, tasks |-> <<MCTask("a", 7, FALSE)>>],
       [title |-> "two", group |-> "", deadline |-> 2, tasks |-> <<MCTask("b", 3, FALSE)>>],
       [title |-> "ctf", group |-> "bonus", deadline |-> 1, tasks |-> <<MCTask("c", 5, TRUE)>>],
       [title |-> "new", group |-> "gone", deadline |-> 1, tasks |-> <<MCTask("d", 2, FALSE)>>]>>,
     policies |-> MCPolicies,
     groups |-> [weekly |-> [weight |-> 4, maxScore |-> 0, policy |-> "soft"],
                 bonus |-> [weight |-> 2, maxScore |-> 5, policy |-> "hard"]],
     defaultGroup |-> "weekly",
     finalDeadline |-> {2},
     retakePenalty |-> 50]

MCOverrides == {[task |-> "a", score |-> 9, status |-> "failed"]}

MCHasRetake == [u \in Logins |-> u = 2]
=============================================================================
