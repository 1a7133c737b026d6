------------------------------ MODULE MCScoreboard ------------------------------
(* Instances of Scoreboard for TLC. *)
EXTENDS Scoreboard

CONSTANTS g1, r1, r2, p1

MCOneGroup == <<g1>>

MCDecay == [late \in 0..3 |-> <<100, 60, 36, 21>>[late + 1]]

(* A task group with one task and one that has none yet; the second version *)
(* of the sheet swaps them and moves a deadline.                            *)
MCGroup(title, deadline, tasks) ==
    [title |-> title, group |-> "", deadline |-> deadline, tasks |-> tasks]

MCTask == [task |-> "a", score |-> 10, crashme |-> FALSE]

MCSheet ==
    [assignments |-> <<MCGroup("one", 1, <<MCTask>>), MCGroup("two", 1, <<>>)>>,
     policies |-> [soft |-> [kind |-> "exp", threshold |-> 30]],
     groups |-> [weekly |-> [weight |-> 1, maxScore |-> 0, policy |-> "soft"]],
     defaultGroup |-> "weekly", finalDeadline |-> {}, retakePenalty |-> 0]

MCPublished ==
    <<MCSheet,
      [MCSheet EXCEPT !.assignments = <<MCGroup("two", 1, <<>>), MCGroup("one", 2, <<MCTask>>)>>]>>

(* The one student is on the standings page and not on the retakes page. *)
MCHasRetake == [u \in Logins |-> FALSE]
MCOverrides == {[task |-> "a", score |-> 9, status |-> "failed"]}

Symmetry == Permutations(Requests)
=============================================================================
