------------------------------- MODULE RowLoops -------------------------------
(***************************************************************************)
(* What the loops of loadUserPipelines and loadUserFlags (scorer.go:84-93,  *)
(* 103-111) end with, for any comparison of two rows that is a strict       *)
(* order: the best row of every task, in whatever order the rows come.      *)
(***************************************************************************)
EXTENDS Sequences, SequenceTheorems, Induction

CONSTANT Better(_, _)

(* One round, and the whole loop, as BestByTask of Scoring has them. *)
Take(prev, r) ==
    IF r.task \notin DOMAIN prev \/ Better(r, prev[r.task])
      THEN [t \in DOMAIN prev \cup {r.task} |-> IF t = r.task THEN r ELSE prev[t]]
      ELSE prev

Loop(best, rows, n) ==
    best = [i \in 0..n |-> IF i = 0 THEN <<>> ELSE Take(best[i - 1], rows[i])]

(* b has a best row of S for every task in S. *)
Picks(b, S) ==
    /\ \A t : t \in DOMAIN b <=> \E r \in S : r.task = t
    /\ \A t \in DOMAIN b : /\ b[t] \in S /\ b[t].task = t
                           /\ \A r \in S : r.task = t => ~Better(r, b[t])

(* There is such a loop, for every number of rows. *)
LEMMA LoopRuns ==
    ASSUME NEW n \in Nat, NEW rows
    PROVE  \E best : Loop(best, rows, n)
<1> DEFINE Runs(k) == \E best : Loop(best, rows, k)
           S == {k \in 0..n : Runs(k)}
<1>1. Runs(0)
  <2> DEFINE b == [i \in 0..0 |-> <<>>]
  <2>1. Loop(b, rows, 0)
    BY DEF Loop
  <2> QED BY <2>1
<1>2. ASSUME NEW k \in 1..n, Runs(k - 1)
      PROVE  Runs(k)
  <2>1. PICK b : Loop(b, rows, k - 1)
    BY <1>2
  <2> DEFINE c == [i \in 0..k |-> IF i = k THEN Take(b[k - 1], rows[k]) ELSE b[i]]
  <2>2. ASSUME NEW i \in 0..k
        PROVE  c[i] = IF i = 0 THEN <<>> ELSE Take(c[i - 1], rows[i])
    BY <2>1 DEF Loop
  <2>3. Loop(c, rows, k)
    BY <2>2 DEF Loop
  <2> HIDE DEF c
  <2> QED BY <2>3
<1>3. 0 \in S /\ \A i \in 1..n : i - 1 \in S => i \in S
  BY <1>1, <1>2
<1> HIDE DEF S
<1>4. n \in S
  BY <1>3, AllRounds
<1> QED BY <1>4 DEF S

(* One round keeps the best. *)
LEMMA RoundPicks ==
    ASSUME NEW R, NEW S \in SUBSET R, NEW r \in R, NEW b, Picks(b, S),
           \A x \in R : ~Better(x, x),
           \A x, y, z \in R : Better(x, y) /\ Better(y, z) => Better(x, z)
    PROVE  Picks(Take(b, r), S \cup {r})
<1>1. CASE r.task \notin DOMAIN b \/ Better(r, b[r.task])
  <2> DEFINE c == [t \in DOMAIN b \cup {r.task} |-> IF t = r.task THEN r ELSE b[t]]
  <2>1. Take(b, r) = c
    BY <1>1 DEF Take
  <2>2. \A t : t \in DOMAIN c <=> \E q \in S \cup {r} : q.task = t
    BY DEF Picks
  <2>3. ASSUME NEW t \in DOMAIN c
        PROVE  /\ c[t] \in S \cup {r} /\ c[t].task = t
               /\ \A q \in S \cup {r} : q.task = t => ~Better(q, c[t])
    <3>1. CASE t = r.task
      <4>1. c[t] = r
        BY <3>1
      <4>2. ASSUME NEW q \in S, q.task = t
            PROVE  ~Better(q, r)
        <5>1. t \in DOMAIN b /\ b[t] \in R /\ ~Better(q, b[t])
          BY <4>2 DEF Picks
        <5> QED BY <1>1, <3>1, <5>1
      <4> QED BY <3>1, <4>1, <4>2
    <3>2. CASE t # r.task
      BY <3>2 DEF Picks
    <3> QED BY <3>1, <3>2
  <2> HIDE DEF c
  <2> QED BY <2>1, <2>2, <2>3 DEF Picks
<1>2. CASE ~(r.task \notin DOMAIN b \/ Better(r, b[r.task]))
  <2>1. Take(b, r) = b
    BY <1>2 DEF Take
  <2> QED BY <1>2, <2>1 DEF Picks
<1> QED BY <1>1, <1>2

(* The loop ends with the best rows of the list. *)
LEMMA LoopPicks ==
    ASSUME NEW R, NEW rows \in Seq(R), NEW best, Loop(best, rows, Len(rows)),
           \A x \in R : ~Better(x, x),
           \A x, y, z \in R : Better(x, y) /\ Better(y, z) => Better(x, z)
    PROVE  Picks(best[Len(rows)], {rows[i] : i \in DOMAIN rows})
<1>0. Len(rows) \in Nat /\ DOMAIN rows = 1..Len(rows) /\ \A i \in 1..Len(rows) : rows[i] \in R
  BY LenProperties, ElementOfSeq
<1> DEFINE n == Len(rows)
           Upto(k) == {rows[i] : i \in 1..k}
           S == {k \in 0..n : Picks(best[k], Upto(k))}
<1>1. 0 \in S
  <2>1. best[0] = <<>> /\ DOMAIN best[0] = {}
    BY <1>0 DEF Loop
  <2>2. Upto(0) = {}
    OBVIOUS
  <2>3. Picks(best[0], {})
    BY <2>1 DEF Picks
  <2>4. 0 \in 0..n
    BY <1>0
  <2> HIDE DEF Upto
  <2> QED BY <2>2, <2>3, <2>4
<1>2. ASSUME NEW k \in 1..n, k - 1 \in S
      PROVE  k \in S
  <2>1. best[k] = Take(best[k - 1], rows[k])
    BY <1>0 DEF Loop
  <2>2. Upto(k) = Upto(k - 1) \cup {rows[k]}
    <3>1. 1..k = 1..(k - 1) \cup {k}
      BY <1>0
    <3> QED BY <3>1
  <2>3. Upto(k - 1) \in SUBSET R /\ rows[k] \in R /\ k \in 0..n
    BY <1>0
  <2>4. Picks(best[k - 1], Upto(k - 1))
    BY <1>2
  <2> HIDE DEF Upto
  <2>5. Picks(Take(best[k - 1], rows[k]), Upto(k - 1) \cup {rows[k]})
    BY <2>3, <2>4, RoundPicks
  <2>6. Picks(best[k], Upto(k))
    BY <2>1, <2>2, <2>5
  <2> QED BY <2>3, <2>6
<1>3. n \in S
  <2>1. n \in Nat /\ n \in 0..n
    BY <1>0
  <2> HIDE DEF S, n
  <2>2. \A k \in 0..n : k \in S
    BY <1>1, <1>2, <2>1, AllRounds
  <2> QED BY <2>1, <2>2
<1> QED BY <1>0, <1>3
=============================================================================
