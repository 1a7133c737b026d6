----------------------------- MODULE Scoring_proof -----------------------------
(***************************************************************************)
(* Proofs about Scoring, for every sheet in order, any number of users and  *)
(* rows, and every order in which the database returns them.                *)
(***************************************************************************)
EXTENDS Scoring, Induction, SequenceTheorems, FiniteSetTheorems

ByStatus == INSTANCE RowLoops WITH Better <- PipelineLess
Earlier(f, g) == f.at < g.at
ByTime == INSTANCE RowLoops WITH Better <- Earlier
-----------------------------------------------------------------------------
(* Sums *)

(* The loop that adds up the numbers of a list. *)
Adding(sum, s, n) == sum = [i \in 0..n |-> IF i = 0 THEN 0 ELSE sum[i - 1] + s[i]]

(* There is such a loop, for every number of rounds. *)
LEMMA AddingRuns ==
    ASSUME NEW n \in Nat, NEW s
    PROVE  \E sum : Adding(sum, s, n)
<1> DEFINE Runs(k) == \E sum : Adding(sum, s, k)
           S == {k \in 0..n : Runs(k)}
<1>1. Runs(0)
  <2> DEFINE b == [i \in 0..0 |-> 0]
  <2>1. Adding(b, s, 0)
    BY DEF Adding
  <2> QED BY <2>1
<1>2. ASSUME NEW k \in 1..n, Runs(k - 1)
      PROVE  Runs(k)
  <2>1. PICK b : Adding(b, s, k - 1)
    BY <1>2
  <2> DEFINE c == [i \in 0..k |-> IF i = k THEN b[k - 1] + s[k] ELSE b[i]]
  <2>2. ASSUME NEW i \in 0..k
        PROVE  c[i] = IF i = 0 THEN 0 ELSE c[i - 1] + s[i]
    BY <2>1 DEF Adding
  <2>3. Adding(c, s, k)
    BY <2>2 DEF Adding
  <2> HIDE DEF c
  <2> QED BY <2>3
<1>3. 0 \in S /\ \A i \in 1..n : i - 1 \in S => i \in S
  BY <1>1, <1>2
<1> HIDE DEF S
<1>4. n \in S
  BY <1>3, AllRounds
<1> QED BY <1>4 DEF S

(* Total is what the loop ends with. *)
LEMMA TotalRuns ==
    ASSUME NEW s, Len(s) \in Nat
    PROVE  \E sum : Adding(sum, s, Len(s)) /\ Total(s) = sum[Len(s)]
<1> DEFINE n == Len(s)
           sum == CHOOSE f : f = [i \in 0..n |-> IF i = 0 THEN 0 ELSE f[i - 1] + s[i]]
<1>1. \E f : f = [i \in 0..n |-> IF i = 0 THEN 0 ELSE f[i - 1] + s[i]]
  BY AddingRuns DEF Adding
<1>2. sum = [i \in 0..n |-> IF i = 0 THEN 0 ELSE sum[i - 1] + s[i]]
  BY <1>1, Zenon
<1>3. Total(s) = sum[n]
  BY Zenon DEF Total
<1> HIDE DEF sum
<1>4. Adding(sum, s, n)
  BY <1>2 DEF Adding
<1> QED BY <1>3, <1>4

(* A sum of points is a number of points. *)
LEMMA TotalType ==
    ASSUME NEW T, T = Int \/ T = Nat, NEW n \in Nat, NEW s \in [1..n -> T]
    PROVE  Total(s) \in T
<1>0. Len(s) = n
  OBVIOUS
<1>1. PICK sum : Adding(sum, s, n) /\ Total(s) = sum[n]
  BY <1>0, TotalRuns
<1> DEFINE S == {k \in 0..n : sum[k] \in T}
<1>2. sum[0] = 0 /\ \A i \in 1..n : sum[i] = sum[i - 1] + s[i]
  BY <1>1 DEF Adding
<1>3. 0 \in S /\ \A i \in 1..n : i - 1 \in S => i \in S
  <2>1. CASE T = Int
    BY <1>2, <2>1
  <2>2. CASE T = Nat
    BY <1>2, <2>2
  <2> QED BY <2>1, <2>2
<1> HIDE DEF S
<1>4. \A i \in 0..n : i \in S
  BY <1>3, AllRounds
<1> QED BY <1>1, <1>4 DEF S

(* More for every part is more in sum. *)
LEMMA TotalGrows ==
    ASSUME NEW n \in Nat, NEW s \in [1..n -> Int], NEW t \in [1..n -> Int],
           \A i \in 1..n : s[i] =< t[i]
    PROVE  Total(s) =< Total(t)
<1>0. Len(s) = n /\ Len(t) = n
  OBVIOUS
<1>1. PICK x : Adding(x, s, n) /\ Total(s) = x[n]
  BY <1>0, TotalRuns
<1>2. PICK y : Adding(y, t, n) /\ Total(t) = y[n]
  BY <1>0, TotalRuns
<1> DEFINE S == {k \in 0..n : x[k] \in Int /\ y[k] \in Int /\ x[k] =< y[k]}
<1>3. x[0] = 0 /\ \A i \in 1..n : x[i] = x[i - 1] + s[i]
  BY <1>1 DEF Adding
<1>4. y[0] = 0 /\ \A i \in 1..n : y[i] = y[i - 1] + t[i]
  BY <1>2 DEF Adding
<1>5. 0 \in S
  BY <1>3, <1>4
<1>6. ASSUME NEW i \in 1..n, i - 1 \in S
      PROVE  i \in S
  <2>1. x[i - 1] \in Int /\ y[i - 1] \in Int /\ x[i - 1] =< y[i - 1]
    BY <1>6
  <2>2. s[i] \in Int /\ t[i] \in Int /\ s[i] =< t[i]
    OBVIOUS
  <2>3. x[i] = x[i - 1] + s[i] /\ y[i] = y[i - 1] + t[i]
    BY <1>3, <1>4
  <2>4. x[i] \in Int /\ y[i] \in Int /\ x[i] =< y[i]
    BY <2>1, <2>2, <2>3
  <2> QED BY <2>4
<1> HIDE DEF S
<1>7. \A i \in 0..n : i \in S
  BY <1>5, <1>6, AllRounds
<1> QED BY <1>1, <1>2, <1>7 DEF S
-----------------------------------------------------------------------------
(* The best submissions *)

(* The rank of a status tells the classes apart, and success is the highest. *)
LEMMA Ranks ==
    ASSUME NEW status
    PROVE  /\ Rank(status) \in 1..5
           /\ TaskStatuses[Rank(status)] = ClassifyPipelineStatus(status)
           /\ Rank(status) = 5 <=> status = "success"
<1>1. /\ ClassifyPipelineStatus(status)
            \in {"banned", "assigned", "failed", "checking", "success"}
      /\ ClassifyPipelineStatus(status) = "success" <=> status = "success"
  BY DEF ClassifyPipelineStatus
<1>2. /\ DOMAIN TaskStatuses = 1..5
      /\ TaskStatuses[1] = "banned" /\ TaskStatuses[2] = "assigned"
      /\ TaskStatuses[3] = "failed" /\ TaskStatuses[4] = "checking"
      /\ TaskStatuses[5] = "success"
  BY DEF TaskStatuses
<1>3. \E i \in DOMAIN TaskStatuses : TaskStatuses[i] = ClassifyPipelineStatus(status)
  BY <1>1, <1>2
<1>4. Rank(status) \in DOMAIN TaskStatuses
      /\ TaskStatuses[Rank(status)] = ClassifyPipelineStatus(status)
  BY <1>3 DEF Rank
<1> QED BY <1>1, <1>2, <1>4

(* Rows with a time. *)
Timed(S) == \A r \in S : r.at \in Nat

(* pipelineLess is a strict order, as the comparison of flags is. *)
LEMMA StatusOrder ==
    ASSUME NEW R, Timed(R)
    PROVE  /\ \A x \in R : ~PipelineLess(x, x)
           /\ \A x, y, z \in R : PipelineLess(x, y) /\ PipelineLess(y, z) => PipelineLess(x, z)
<1>1. \A x \in R : Rank(x.status) \in Nat /\ x.at \in Nat
  BY Ranks DEF Timed
<1> QED BY <1>1 DEF PipelineLess

(* The loop over a user's pipelines, in any order, picks the best. *)
LEMMA PipelinesPicked ==
    ASSUME NEW R, Timed(R), NEW rows \in Seq(R)
    PROVE  ByStatus!Picks(LoadUserPipelines(rows), {rows[i] : i \in DOMAIN rows})
<1> DEFINE n == Len(rows)
           best == CHOOSE f : f = [i \in 0..n |->
                     IF i = 0 THEN <<>>
                     ELSE IF rows[i].task \notin DOMAIN f[i - 1]
                             \/ PipelineLess(rows[i], f[i - 1][rows[i].task])
                            THEN [t \in DOMAIN f[i - 1] \cup {rows[i].task} |->
                                    IF t = rows[i].task THEN rows[i] ELSE f[i - 1][t]]
                            ELSE f[i - 1]]
<1>0. n \in Nat
  BY LenProperties
<1>1. \E f : ByStatus!Loop(f, rows, n)
  BY <1>0, ByStatus!LoopRuns
<1>2. ByStatus!Loop(best, rows, n)
  BY <1>1, Zenon DEF ByStatus!Loop, ByStatus!Take
<1>3. LoadUserPipelines(rows) = best[n]
  BY Zenon DEF LoadUserPipelines, BestByTask
<1> HIDE DEF best
<1>4. /\ \A x \in R : ~PipelineLess(x, x)
      /\ \A x, y, z \in R : PipelineLess(x, y) /\ PipelineLess(y, z) => PipelineLess(x, z)
  BY StatusOrder
<1>5. ByStatus!Picks(best[n], {rows[i] : i \in DOMAIN rows})
  BY <1>2, <1>4, ByStatus!LoopPicks
<1> QED BY <1>3, <1>5

(* So does the loop over a user's flags. *)
LEMMA FlagsPicked ==
    ASSUME NEW R, Timed(R), NEW rows \in Seq(R)
    PROVE  ByTime!Picks(LoadUserFlags(rows), {rows[i] : i \in DOMAIN rows})
<1> DEFINE n == Len(rows)
           best == CHOOSE f : f = [i \in 0..n |->
                     IF i = 0 THEN <<>>
                     ELSE IF rows[i].task \notin DOMAIN f[i - 1]
                             \/ rows[i].at < f[i - 1][rows[i].task].at
                            THEN [t \in DOMAIN f[i - 1] \cup {rows[i].task} |->
                                    IF t = rows[i].task THEN rows[i] ELSE f[i - 1][t]]
                            ELSE f[i - 1]]
<1>0. n \in Nat
  BY LenProperties
<1>1. \E f : ByTime!Loop(f, rows, n)
  BY <1>0, ByTime!LoopRuns
<1>2. ByTime!Loop(best, rows, n)
  BY <1>1, Zenon DEF ByTime!Loop, ByTime!Take, Earlier
<1>3. LoadUserFlags(rows) = best[n]
  BY Zenon DEF LoadUserFlags, BestByTask
<1> HIDE DEF best
<1>4. /\ \A x \in R : ~Earlier(x, x)
      /\ \A x, y, z \in R : Earlier(x, y) /\ Earlier(y, z) => Earlier(x, z)
  BY DEF Timed, Earlier
<1>5. ByTime!Picks(best[n], {rows[i] : i \in DOMAIN rows})
  BY <1>2, <1>4, ByTime!LoopPicks
<1> QED BY <1>3, <1>5
-----------------------------------------------------------------------------
(* The tables *)

(* Rows keep their types and stand at their keys.  (Overrides are looked up *)
(* by the login and the task that the row itself names.)                    *)
OverridesKeyed ==
    \A k \in Logins \X Tasks :
      overrides[k] # NoRow => overrides[k].login = k[1] /\ overrides[k].task = k[2]

TInv == TypeOK /\ OverridesKeyed

(* What an override that is posted names. *)
LEMMA OverrideTypes ==
    \A row \in OverrideRow : row.login \in Logins /\ row.task \in Tasks /\ row.score \in Int
  BY ScoringAssumption DEF OverrideRow

(* Every step keeps the tables in order. *)
LEMMA TablesStep ==
    ASSUME TInv, [Next]_tables
    PROVE  TInv'
<1> USE DEF TInv, TypeOK
<1>1. ASSUME NEW i \in PipelineIds, NEW row \in PipelineRow, AddPipeline(i, row)
      PROVE  TInv'
  <2>1. CASE pipelines[i] = NoRow /\ pipelines' = [pipelines EXCEPT ![i] = row]
    BY <1>1, <2>1 DEF AddPipeline, OverridesKeyed
  <2>2. CASE pipelines[i] # NoRow /\ pipelines' = [pipelines EXCEPT ![i].status = row.status]
    <3>1. pipelines[i] \in PipelineRow /\ row.status \in Statuses
      BY <2>2 DEF PipelineRow
    <3>2. [pipelines[i] EXCEPT !.status = row.status] \in PipelineRow
      BY <3>1 DEF PipelineRow
    <3>3. pipelines' \in [PipelineIds -> PipelineRow \cup {NoRow}]
      BY <2>2, <3>2
    <3> QED BY <1>1, <3>3 DEF AddPipeline, OverridesKeyed
  <2> QED BY <1>1, <2>1, <2>2 DEF AddPipeline
<1>2. ASSUME NEW i \in FlagIds, NEW row \in FlagRow, SubmitFlag(i, row)
      PROVE  TInv'
  BY <1>2 DEF SubmitFlag, OverridesKeyed
<1>3. ASSUME NEW row \in OverrideRow, AddOverride(row)
      PROVE  TInv'
  <2> DEFINE k == <<row.login, row.task>>
  <2>1. k \in Logins \X Tasks /\ k[1] = row.login /\ k[2] = row.task
    BY OverrideTypes
  <2>2. overrides' = [overrides EXCEPT ![k] = row] /\ UNCHANGED <<pipelines, flags>>
    BY <1>3 DEF AddOverride
  <2> HIDE DEF k
  <2> QED BY <2>1, <2>2 DEF OverridesKeyed
<1>4. CASE UNCHANGED tables
  BY <1>4 DEF tables, OverridesKeyed
<1> QED BY <1>1, <1>2, <1>3, <1>4 DEF Next

(* The tables start in order. *)
LEMMA TablesInit == Init => TInv
  BY DEF Init, TInv, TypeOK, OverridesKeyed

(* They stay in order. *)
LEMMA TablesInvariance == Spec => []TInv
<1>1. TInv /\ [Next]_tables => TInv'
  BY TablesStep
<1> QED BY <1>1, TablesInit, PTL DEF Spec

(* The rows of the tables keep their types, whatever is reported, submitted *)
(* or overridden (database.go:191-196, 252-326).                            *)
THEOREM TypeCorrect == Spec => []TypeOK
<1>1. TInv => TypeOK
  BY DEF TInv
<1> QED BY <1>1, TablesInvariance, PTL

(* Every order of a finite set of rows has all of them. *)
LEMMA OrdersComplete ==
    ASSUME NEW S, IsFiniteSet(S), NEW s \in SetToSeqs(S)
    PROVE  s \in Seq(S) /\ S = {s[i] : i \in DOMAIN s}
<1> DEFINE n == Cardinality(S)
<1>1. n \in Nat /\ IsFiniteSet(1..n) /\ Cardinality(1..n) = n
  BY FS_CardinalityType, FS_Interval
<1>2. s \in [1..n -> S] /\ \A i, j \in 1..n : i # j => s[i] # s[j]
  BY DEF SetToSeqs
<1>3. s \in Injection(1..n, S)
  BY <1>2 DEF Injection, IsInjective
<1>4. s \in Surjection(1..n, S)
  BY <1>1, <1>3, FS_Injection
<1>5. s \in Seq(S)
  BY <1>1, <1>2
<1> QED BY <1>2, <1>4, <1>5 DEF Surjection

(* SetToSeq is one of them. *)
LEMMA SomeOrder ==
    ASSUME NEW S, IsFiniteSet(S)
    PROVE  SetToSeq(S) \in SetToSeqs(S)
<1> DEFINE n == Cardinality(S)
<1>1. n \in Nat /\ ExistsBijection(1..n, S)
  BY FS_CardinalityType
<1>2. PICK f : f \in Bijection(1..n, S)
  BY <1>1 DEF ExistsBijection
<1>3. f \in [1..n -> S] /\ IsInjective(f)
  BY <1>2 DEF Bijection, Injection, IsInjective
<1>4. SetToSeq(S) \in [1..n -> S] /\ IsInjective(SetToSeq(S))
  BY <1>3 DEF SetToSeq
<1> QED BY <1>4 DEF IsInjective, SetToSeqs

(* A table's rows are finitely many, and of their types. *)
LEMMA TableRows ==
    ASSUME TInv
    PROVE  /\ IsFiniteSet(Rows(pipelines)) /\ Rows(pipelines) \subseteq PipelineRow
           /\ IsFiniteSet(Rows(flags)) /\ Rows(flags) \subseteq FlagRow
<1>1. ASSUME NEW I, IsFiniteSet(I), NEW T, NEW f \in [I -> T \cup {NoRow}]
      PROVE  IsFiniteSet(Rows(f)) /\ Rows(f) \subseteq T
  <2> DEFINE U == {f[i] : i \in DOMAIN f}
  <2>1. f \in Surjection(I, U)
    BY DEF Surjection
  <2>2. IsFiniteSet(U)
    BY <1>1, <2>1, FS_Surjection
  <2>3. Rows(f) = U \ {NoRow}
    BY DEF Rows
  <2>4. U \subseteq T \cup {NoRow}
    OBVIOUS
  <2> HIDE DEF U
  <2>5. Rows(f) \in SUBSET U
    BY <2>3
  <2>6. IsFiniteSet(Rows(f))
    BY <2>2, <2>5, FS_Subset
  <2> QED BY <2>3, <2>4, <2>6
<1> QED BY <1>1, ScoringAssumption DEF TInv, TypeOK

(* Submissions are timed. *)
LEMMA RowTypes ==
    /\ \A r \in PipelineRow :
         r.at \in Nat /\ r.at \in Times /\ r.task \in Tasks /\ r.login \in Logins
    /\ \A r \in FlagRow :
         r.at \in Nat /\ r.at \in Times /\ r.task \in FlagTasks /\ r.login \in Logins
  BY ScoringAssumption DEF PipelineRow, FlagRow

(* The rows of one user. *)
LEMMA UserRows ==
    ASSUME NEW S, IsFiniteSet(S), NEW u
    PROVE  IsFiniteSet(RowsOf(S, u)) /\ RowsOf(S, u) \subseteq S
<1>1. RowsOf(S, u) \in SUBSET S
  BY DEF RowsOf
<1> QED BY <1>1, FS_Subset

(* Whatever order the database returns a user's pipelines in, the loop of   *)
(* loadUserPipelines ends with the earliest of the best ones for every task *)
(* - for any number of rows and any statuses (scorer.go:63-93).             *)
THEOREM BestIsPicked == Spec => []BestPipeline
<1>1. ASSUME TInv
      PROVE  BestPipeline
  <2> SUFFICES ASSUME NEW u \in Logins, NEW rows \in SetToSeqs(RowsOf(Rows(pipelines), u))
               PROVE  LET best == LoadUserPipelines(rows) IN
                      /\ DOMAIN best = {rows[i].task : i \in DOMAIN rows}
                      /\ \A t \in DOMAIN best :
                           LET mine == {rows[i] : i \in {j \in DOMAIN rows : rows[j].task = t}}
                               top == {r \in mine : \A q \in mine :
                                                      Rank(r.status) >= Rank(q.status)}
                           IN  best[t] \in top /\ \A r \in top : best[t].at =< r.at
    BY DEF BestPipeline
  <2> DEFINE S == RowsOf(Rows(pipelines), u)
             best == LoadUserPipelines(rows)
             listed == {rows[i] : i \in DOMAIN rows}
  <2>1. IsFiniteSet(S) /\ Timed(S)
    BY <1>1, TableRows, UserRows, RowTypes DEF Timed
  <2>2. rows \in Seq(S) /\ S = listed
    BY <2>1, OrdersComplete
  <2>3. ByStatus!Picks(best, listed)
    BY <2>1, <2>2, PipelinesPicked
  <2>4. /\ \A t : t \in DOMAIN best <=> \E r \in listed : r.task = t
        /\ \A t \in DOMAIN best :
             /\ best[t] \in listed /\ best[t].task = t
             /\ \A r \in listed : r.task = t => ~PipelineLess(r, best[t])
    BY <2>3 DEF ByStatus!Picks
  <2>5. \A r \in listed : r.at \in Nat /\ Rank(r.status) \in Nat
    BY <2>1, <2>2, Ranks DEF Timed
  <2> HIDE DEF best
  <2>6. DOMAIN best = {rows[i].task : i \in DOMAIN rows}
    BY <2>4
  <2>7. ASSUME NEW t \in DOMAIN best
        PROVE  LET mine == {rows[i] : i \in {j \in DOMAIN rows : rows[j].task = t}}
                   top == {r \in mine : \A q \in mine : Rank(r.status) >= Rank(q.status)}
               IN  best[t] \in top /\ \A r \in top : best[t].at =< r.at
    <3> DEFINE mine == {rows[i] : i \in {j \in DOMAIN rows : rows[j].task = t}}
    <3>1. \A r : r \in mine <=> r \in listed /\ r.task = t
      OBVIOUS
    <3>2. best[t] \in mine
      BY <2>4, <3>1
    <3>3. \A q \in mine : /\ q.at \in Nat /\ Rank(q.status) \in Nat
                          /\ ~PipelineLess(q, best[t])
      BY <2>4, <2>5, <3>1
    <3> HIDE DEF mine
    <3>4. \A q \in mine : /\ Rank(best[t].status) >= Rank(q.status)
                          /\ Rank(best[t].status) = Rank(q.status) => best[t].at =< q.at
      BY <3>2, <3>3 DEF PipelineLess
    <3>5. ASSUME NEW r \in mine, \A q \in mine : Rank(r.status) >= Rank(q.status)
          PROVE  best[t].at =< r.at
      BY <3>2, <3>3, <3>4, <3>5
    <3> QED BY <3>2, <3>4, <3>5 DEF mine
  <2> QED BY <2>6, <2>7 DEF best
<1> QED BY <1>1, TablesInvariance, PTL
-----------------------------------------------------------------------------
(* What a policy leaves of a score *)

(* Products and quotients keep the order. *)
LEMMA Products ==
    ASSUME NEW a \in Nat, NEW x \in Int, NEW y \in Int, x =< y
    PROVE  a * x =< a * y
  OBVIOUS

(* A lower bound of a quotient. *)
LEMMA QuotientAtLeast ==
    ASSUME NEW n \in Nat \ {0}, NEW x \in Int, NEW q \in Int, n * q =< x
    PROVE  q =< x \div n
  OBVIOUS

(* An upper bound. *)
LEMMA QuotientAtMost ==
    ASSUME NEW n \in Nat \ {0}, NEW x \in Int, NEW q \in Int, x =< n * q
    PROVE  x \div n =< q
  OBVIOUS

(* A larger number has a larger quotient. *)
LEMMA Quotients ==
    ASSUME NEW n \in Nat \ {0}, NEW x \in Int, NEW y \in Int, x =< y
    PROVE  x \div n \in Int /\ x \div n =< y \div n
<1>1. PICK q \in Int : q = x \div n
  OBVIOUS
<1>2. n * q =< x
  BY <1>1
<1>3. n * q =< y
  BY <1>2
<1> QED BY <1>1, <1>3, QuotientAtLeast

(* A part of a score is no more than the score, and grows with the part. *)
LEMMA Part ==
    ASSUME NEW max \in Nat, NEW n \in Nat \ {0}, NEW x \in 0..n
    PROVE  (max * x) \div n \in 0..max
<1>1. max * x \in Nat /\ max * x =< max * n
  BY Products
<1>2. max * n = n * max
  OBVIOUS
<1>3. (max * x) \div n =< max
  BY <1>1, <1>2, QuotientAtMost
<1>4. 0 =< (max * x) \div n
  <2>1. n * 0 =< max * x
    BY <1>1
  <2> QED BY <1>1, <2>1, QuotientAtLeast
<1> QED BY <1>1, <1>3, <1>4, Quotients

(* A larger part of a score is a larger number of points. *)
LEMMA PartGrows ==
    ASSUME NEW max \in Nat, NEW n \in Nat \ {0}, NEW x \in Int, NEW y \in Int, x =< y
    PROVE  (max * x) \div n =< (max * y) \div n
  BY Products, Quotients

(* Parts of a hundred and finer parts compare. *)
LEMMA PartScaled ==
    ASSUME NEW max \in Nat, NEW m \in Nat, NEW A \in Nat \ {0}, NEW y \in Int, A * m =< y
    PROVE  (max * m) \div 100 =< (max * y) \div (100 * A)
<1>1. PICK q \in Int : q = (max * m) \div 100
  OBVIOUS
<1>2. 100 * q =< max * m
  BY <1>1
<1>3. A * (100 * q) =< A * (max * m)
  BY <1>2, Products
<1>4. max * (A * m) =< max * y
  BY Products
<1>5. (100 * A) * q = A * (100 * q) /\ max * (A * m) = A * (max * m)
  OBVIOUS
<1>6. (100 * A) * q =< max * y
  BY <1>3, <1>4, <1>5
<1> QED BY <1>1, <1>6, QuotientAtLeast

(* The better of a threshold and a decayed share. *)
LEMMA MaxOfTwo ==
    ASSUME NEW a \in Nat, NEW b \in Nat
    PROVE  Max({a, b}) = IF a >= b THEN a ELSE b
<1>1. \E x \in {a, b} : \A y \in {a, b} : x >= y
  OBVIOUS
<1>2. Max({a, b}) \in {a, b} /\ \A y \in {a, b} : Max({a, b}) >= y
  BY <1>1 DEF Max
<1> QED BY <1>2

(* The better of a threshold and a share grows with the share. *)
LEMMA BetterShare ==
    ASSUME NEW t \in 0..100, NEW a \in 0..100, NEW b \in 0..100, b =< a
    PROVE  /\ Max({t, a}) \in 0..100 /\ Max({t, b}) \in 0..100
           /\ Max({t, b}) =< Max({t, a})
<1>1. t \in Nat /\ a \in Nat /\ b \in Nat
  OBVIOUS
<1>2. Max({t, a}) = IF t >= a THEN t ELSE a
  BY <1>1, MaxOfTwo
<1>3. Max({t, b}) = IF t >= b THEN t ELSE b
  BY <1>1, MaxOfTwo
<1> QED BY <1>2, <1>3

(* A lateness the sheet's policies know. *)
Dated(deadline, at) ==
    deadline \in Nat /\ at \in Nat /\ (at >= deadline => at - deadline \in DOMAIN Decay)

(* LinearScore: the share of a late submission, in units of 100 * after. *)
LEMMA LinearShare ==
    ASSUME NEW A \in Nat \ {0}, NEW m \in 0..100, NEW late \in 0..(A - 1)
    PROVE  /\ 100 * A - late * (100 - m) \in 0..(100 * A)
           /\ A * m =< 100 * A - late * (100 - m)
           /\ \A l \in 0..late : 100 * A - late * (100 - m) =< 100 * A - l * (100 - m)
<1>1. 100 - m \in Nat
  OBVIOUS
<1>2. \A l \in 0..late : (100 - m) * l =< (100 - m) * late
  BY <1>1, Products
<1>3. (100 - m) * late =< (100 - m) * A
  BY <1>1, Products
<1>4. \A l \in 0..late : (100 - m) * l = l * (100 - m) /\ l * (100 - m) \in Nat
  BY <1>1
<1>5. (100 - m) * A = 100 * A - A * m /\ A * m \in Nat
  OBVIOUS
<1>6. late * (100 - m) =< 100 * A - A * m
  BY <1>3, <1>4, <1>5
<1> QED BY <1>2, <1>4, <1>5, <1>6

(* A policy gives a part of the score. *)
LEMMA PolicyBounds ==
    ASSUME NEW p, PolicyInOrder(p), NEW max \in Nat, NEW deadline, NEW at, Dated(deadline, at)
    PROVE  PolicyScore(p, max, deadline, at) \in 0..max
<1>0. deadline \in Nat /\ at \in Nat
  BY DEF Dated
<1>1. CASE at < deadline
  BY <1>1 DEF PolicyScore, LinearScore, ExponentialScore
<1>2. CASE at >= deadline /\ p.kind = "linear"
  <2>1. p.after \in Nat /\ p.multiplier \in 0..100
    BY <1>2 DEF PolicyInOrder
  <2>2. PICK late \in Nat : late = at - deadline
    BY <1>0, <1>2
  <2>3. CASE late < p.after
    <3> DEFINE x == 100 * p.after - late * (100 - p.multiplier)
    <3>1. PolicyScore(p, max, deadline, at) = (max * x) \div (100 * p.after)
      BY <1>0, <1>2, <2>2, <2>3 DEF PolicyScore, LinearScore
    <3>2. p.after \in Nat \ {0} /\ late \in 0..(p.after - 1) /\ 100 * p.after \in Nat \ {0}
      BY <2>1, <2>3
    <3>3. x \in 0..(100 * p.after)
      BY <2>1, <3>2, LinearShare
    <3>4. PICK n \in Nat \ {0} : n = 100 * p.after
      BY <3>2
    <3>5. PICK y \in 0..n : y = x
      BY <3>3, <3>4
    <3>6. (max * y) \div n \in 0..max
      BY Part
    <3> QED BY <3>1, <3>4, <3>5, <3>6
  <2>4. CASE ~(late < p.after)
    <3>1. PolicyScore(p, max, deadline, at) = (max * p.multiplier) \div 100
      BY <1>0, <1>2, <2>2, <2>4 DEF PolicyScore, LinearScore
    <3>2. PICK x \in 0..100 : x = p.multiplier
      BY <2>1
    <3>3. 100 \in Nat \ {0}
      OBVIOUS
    <3>4. (max * x) \div 100 \in 0..max
      BY <3>3, Part
    <3> QED BY <3>1, <3>2, <3>4
  <2> QED BY <2>3, <2>4
<1>3. CASE at >= deadline /\ p.kind # "linear"
  <2>1. p.threshold \in 0..100 /\ Decay[at - deadline] \in 0..100
    BY <1>3, ScoringAssumption DEF PolicyInOrder, Dated
  <2>2. PICK x \in 0..100 : x = Max({p.threshold, Decay[at - deadline]})
    <3> DEFINE x == Max({p.threshold, Decay[at - deadline]})
    <3>1. Decay[at - deadline] =< Decay[at - deadline]
      BY <2>1
    <3>2. x \in 0..100
      BY <2>1, <3>1, BetterShare
    <3> HIDE DEF x
    <3> QED BY <3>2 DEF x
  <2>3. PolicyScore(p, max, deadline, at) = (max * x) \div 100
    BY <1>0, <1>3, <2>2 DEF PolicyScore, ExponentialScore
  <2>4. (max * x) \div 100 \in 0..max
    <3>1. 100 \in Nat \ {0}
      OBVIOUS
    <3> QED BY <3>1, Part
  <2> QED BY <2>3, <2>4
<1> QED BY <1>0, <1>1, <1>2, <1>3

(* A later submission is worth no more. *)
LEMMA PolicyFalls ==
    ASSUME NEW p, PolicyInOrder(p), NEW max \in Nat, NEW deadline, NEW at, NEW later,
           Dated(deadline, at), Dated(deadline, later), at =< later
    PROVE  PolicyScore(p, max, deadline, later) =< PolicyScore(p, max, deadline, at)
<1>0. deadline \in Nat /\ at \in Nat /\ later \in Nat
  BY DEF Dated
<1>1. CASE at < deadline
  <2>1. PolicyScore(p, max, deadline, at) = max
    BY <1>1 DEF PolicyScore, LinearScore, ExponentialScore
  <2> QED BY <2>1, PolicyBounds
<1>2. CASE at >= deadline /\ p.kind = "linear"
  <2>1. p.after \in Nat /\ p.multiplier \in 0..100
    BY <1>2 DEF PolicyInOrder
  <2>2. PICK l \in Nat : l = at - deadline
    BY <1>0, <1>2
  <2>3. PICK k \in Nat : k = later - deadline /\ l =< k
    BY <1>0, <1>2, <2>2
  <2> DEFINE X(i) == 100 * p.after - i * (100 - p.multiplier)
  <2>4. PolicyScore(p, max, deadline, at)
          = IF l < p.after THEN (max * X(l)) \div (100 * p.after)
                           ELSE (max * p.multiplier) \div 100
    BY <1>0, <1>2, <2>2 DEF PolicyScore, LinearScore
  <2>5. PolicyScore(p, max, deadline, later)
          = IF k < p.after THEN (max * X(k)) \div (100 * p.after)
                           ELSE (max * p.multiplier) \div 100
    BY <1>0, <1>2, <2>3 DEF PolicyScore, LinearScore
  <2>6. CASE ~(l < p.after)
    <3>1. ~(k < p.after)
      BY <2>1, <2>3, <2>6
    <3>2. PolicyScore(p, max, deadline, later) = PolicyScore(p, max, deadline, at)
      BY <2>4, <2>5, <2>6, <3>1
    <3> QED BY <3>2, PolicyBounds
  <2>7. CASE l < p.after
    <3>1. p.after \in Nat \ {0} /\ l \in 0..(p.after - 1) /\ 100 * p.after \in Nat \ {0}
      BY <2>1, <2>7
    <3>2. X(l) \in 0..(100 * p.after) /\ p.after * p.multiplier =< X(l)
      BY <2>1, <3>1, LinearShare
    <3>3. CASE k < p.after
      <4>1. k \in 0..(p.after - 1) /\ l \in 0..k
        BY <2>1, <2>3, <3>3
      <4>2. X(k) \in 0..(100 * p.after) /\ X(k) =< X(l)
        BY <2>1, <3>1, <4>1, LinearShare
      <4>3. PICK n \in Nat \ {0} : n = 100 * p.after
        BY <3>1
      <4>4. PICK x \in Int : x = X(k)
        BY <4>2
      <4>5. PICK y \in Int : y = X(l)
        BY <3>2
      <4>6. x =< y
        BY <4>2, <4>4, <4>5
      <4>7. (max * x) \div n =< (max * y) \div n
        BY <4>6, PartGrows
      <4> HIDE DEF X
      <4> QED BY <2>4, <2>5, <2>7, <3>3, <4>3, <4>4, <4>5, <4>7
    <3>4. CASE ~(k < p.after)
      <4>1. PICK A \in Nat \ {0} : A = p.after
        BY <3>1
      <4>2. PICK m \in Nat : m = p.multiplier
        BY <2>1
      <4>3. PICK y \in Int : y = X(l)
        BY <3>2
      <4>4. A * m =< y
        BY <3>2, <4>1, <4>2, <4>3
      <4>5. (max * m) \div 100 =< (max * y) \div (100 * A)
        BY <4>4, PartScaled
      <4> HIDE DEF X
      <4> QED BY <2>4, <2>5, <2>7, <3>4, <4>1, <4>2, <4>3, <4>5
    <3> QED BY <3>3, <3>4
  <2> QED BY <2>6, <2>7
<1>3. CASE at >= deadline /\ p.kind # "linear"
  <2>1. p.threshold \in 0..100 /\ Decay[at - deadline] \in 0..100 /\ Decay[later - deadline] \in 0..100
    BY <1>0, <1>3, ScoringAssumption DEF PolicyInOrder, Dated
  <2>2. Decay[later - deadline] =< Decay[at - deadline]
    <3>1. at - deadline \in DOMAIN Decay /\ later - deadline \in DOMAIN Decay
      BY <1>0, <1>3 DEF Dated
    <3>2. at - deadline =< later - deadline
      BY <1>0
    <3> QED BY <2>1, <3>1, <3>2, ScoringAssumption
  <2> DEFINE x == Max({p.threshold, Decay[at - deadline]})
             y == Max({p.threshold, Decay[later - deadline]})
  <2>3. x \in 0..100 /\ y \in 0..100 /\ y =< x
    BY <2>1, <2>2, BetterShare
  <2>6. PolicyScore(p, max, deadline, at) = (max * x) \div 100
    BY <1>0, <1>3 DEF PolicyScore, ExponentialScore
  <2>7. PolicyScore(p, max, deadline, later) = (max * y) \div 100
    BY <1>0, <1>3 DEF PolicyScore, ExponentialScore
  <2> HIDE DEF x, y
  <2>8. x \in Int /\ y \in Int
    BY <2>3
  <2>9. (max * y) \div 100 =< (max * x) \div 100
    BY <2>3, <2>8, PartGrows
  <2> QED BY <2>6, <2>7, <2>9
<1> QED BY <1>0, <1>1, <1>2, <1>3
-----------------------------------------------------------------------------
(* What a submission is worth *)

(* A sheet's policies are in order, and a missing one is none of them. *)
LEMMA PolicyKnown ==
    ASSUME NEW d, SheetInOrder(d), NEW a, GetScoringPolicy(d, a) # NoPolicy
    PROVE  PolicyInOrder(GetScoringPolicy(d, a))
  BY DEF SheetInOrder, GetScoringPolicy

(* A submission of a task of the sheet. *)
LEMMA Submitted ==
    ASSUME NEW a, TaskGroupInOrder(a), NEW at \in Times
    PROVE  Dated(a.deadline, at)
  BY ScoringAssumption DEF TaskGroupInOrder, Dated

(* The score before retakes are looked at. *)
Raw(d, a, task, at) ==
    IF \E t \in d.finalDeadline : at > t THEN 0
    ELSE PolicyScore(GetScoringPolicy(d, a), task.score, a.deadline, at)

(* It is between nothing and the score of the task. *)
LEMMA RawBounds ==
    ASSUME NEW d, SheetInOrder(d), NEW a, TaskGroupInOrder(a), GetScoringPolicy(d, a) # NoPolicy,
           NEW task, task.score \in Nat, NEW at \in Times
    PROVE  Raw(d, a, task, at) \in 0..task.score
  BY PolicyKnown, Submitted, PolicyBounds DEF Raw

(* It is no more for a later submission. *)
LEMMA RawFalls ==
    ASSUME NEW d, SheetInOrder(d), NEW a, TaskGroupInOrder(a), GetScoringPolicy(d, a) # NoPolicy,
           NEW task, task.score \in Nat, NEW at \in Times, NEW later \in Times, at =< later
    PROVE  Raw(d, a, task, later) =< Raw(d, a, task, at)
<1>0. at \in Nat /\ later \in Nat /\ d.finalDeadline \subseteq Nat
  BY ScoringAssumption DEF SheetInOrder
<1>1. CASE \E t \in d.finalDeadline : later > t
  <2>1. Raw(d, a, task, later) = 0
    BY <1>1 DEF Raw
  <2> QED BY <2>1, RawBounds
<1>2. CASE ~\E t \in d.finalDeadline : later > t
  <2>1. ~\E t \in d.finalDeadline : at > t
    BY <1>0, <1>2
  <2> QED BY <1>2, <2>1, PolicyKnown, Submitted, PolicyFalls DEF Raw
<1> QED BY <1>1, <1>2

(* What a retake leaves at least. *)
LEMMA RetakeShare ==
    ASSUME NEW d, SheetInOrder(d), NEW max \in Nat
    PROVE  (max * d.retakePenalty) \div 100 \in 0..max
<1>1. PICK x \in 0..100 : x = d.retakePenalty
  BY DEF SheetInOrder
<1>2. 100 \in Nat \ {0}
  OBVIOUS
<1>3. (max * x) \div 100 \in 0..max
  BY <1>2, Part
<1> QED BY <1>1, <1>3

(* scorePipeline stays between nothing and the task's score. *)
LEMMA ScoreBounds ==
    ASSUME NEW d, SheetInOrder(d), NEW a, TaskGroupInOrder(a), NEW u \in Logins,
           NEW task, task.score \in Nat, NEW p, p.at \in Times
    PROVE  LET score == ScorePipeline(d, u, a, task, p) IN
           /\ score \in Int /\ score =< task.score
           /\ score >= IF GetScoringPolicy(d, a) = NoPolicy THEN -1 ELSE 0
           /\ (\E t \in d.finalDeadline : p.at > t) =>
                score =< IF HasRetake[u] THEN (task.score * d.retakePenalty) \div 100 ELSE 0
           /\ p.status # "success" => score = 0
<1> DEFINE score == ScorePipeline(d, u, a, task, p)
           least == (task.score * d.retakePenalty) \div 100
<1>1. least \in 0..task.score
  BY RetakeShare
<1>2. CASE p.status # "success"
  <2>1. score = 0
    BY <1>2 DEF ScorePipeline
  <2> QED BY <1>1, <1>2, <2>1
<1>3. CASE p.status = "success" /\ GetScoringPolicy(d, a) = NoPolicy
  <2>1. score = -1
    BY <1>3 DEF ScorePipeline
  <2> QED BY <1>1, <1>3, <2>1
<1>4. CASE p.status = "success" /\ GetScoringPolicy(d, a) # NoPolicy
  <2>1. score = IF HasRetake[u] /\ least > Raw(d, a, task, p.at) THEN least
                ELSE Raw(d, a, task, p.at)
    BY <1>4 DEF ScorePipeline, Raw
  <2>2. Raw(d, a, task, p.at) \in 0..task.score
    BY <1>4, RawBounds
  <2>3. (\E t \in d.finalDeadline : p.at > t) => Raw(d, a, task, p.at) = 0
    BY DEF Raw
  <2> HIDE DEF score, least
  <2>4. score \in 0..task.score
    BY <1>1, <2>1, <2>2
  <2>5. ASSUME \E t \in d.finalDeadline : p.at > t
        PROVE  score =< IF HasRetake[u] THEN least ELSE 0
    BY <1>1, <2>1, <2>3, <2>5
  <2> QED BY <1>4, <2>4, <2>5 DEF score, least
<1> QED BY <1>2, <1>3, <1>4

(* A success that is not later is worth at least as much. *)
LEMMA ScoreFalls ==
    ASSUME NEW d, SheetInOrder(d), NEW a, TaskGroupInOrder(a), GetScoringPolicy(d, a) # NoPolicy,
           NEW u \in Logins, NEW task, task.score \in Nat,
           NEW p, p.at \in Times, NEW q, q.at \in Times,
           q.status = "success" => p.status = "success" /\ p.at =< q.at
    PROVE  ScorePipeline(d, u, a, task, q) =< ScorePipeline(d, u, a, task, p)
<1>1. CASE q.status # "success"
  <2>1. ScorePipeline(d, u, a, task, q) = 0
    BY <1>1 DEF ScorePipeline
  <2>2. ScorePipeline(d, u, a, task, p) \in Int /\ ScorePipeline(d, u, a, task, p) >= 0
    BY ScoreBounds
  <2> QED BY <2>1, <2>2
<1>2. CASE q.status = "success"
  <2> DEFINE least == (task.score * d.retakePenalty) \div 100
  <2>1. least \in 0..task.score
    BY RetakeShare
  <2>2. ScorePipeline(d, u, a, task, p)
          = IF HasRetake[u] /\ least > Raw(d, a, task, p.at) THEN least ELSE Raw(d, a, task, p.at)
    BY <1>2 DEF ScorePipeline, Raw
  <2>3. ScorePipeline(d, u, a, task, q)
          = IF HasRetake[u] /\ least > Raw(d, a, task, q.at) THEN least ELSE Raw(d, a, task, q.at)
    BY <1>2 DEF ScorePipeline, Raw
  <2>4. Raw(d, a, task, p.at) \in 0..task.score /\ Raw(d, a, task, q.at) \in 0..task.score
    BY RawBounds
  <2>5. Raw(d, a, task, q.at) =< Raw(d, a, task, p.at)
    BY <1>2, RawFalls
  <2> HIDE DEF least
  <2> QED BY <2>1, <2>2, <2>3, <2>4, <2>5
<1> QED BY <1>1, <1>2
-----------------------------------------------------------------------------
(* What a task is worth *)

(* Overrides are found by their login and task. *)
LEMMA OverridesParsed ==
    ASSUME NEW O, NEW u, NEW t
    PROVE  LET k == <<u, t>>
               over == ParseOverrides(O)
           IN  /\ k \in DOMAIN over <=> \E r \in O : r.login = u /\ r.task = t
               /\ k \in DOMAIN over => over[k] \in O /\ over[k].login = u /\ over[k].task = t
<1> DEFINE k == <<u, t>>
           over == ParseOverrides(O)
<1>1. k \in DOMAIN over <=> \E r \in O : r.login = u /\ r.task = t
  BY DEF ParseOverrides
<1>2. ASSUME k \in DOMAIN over
      PROVE  over[k] \in O /\ over[k].login = u /\ over[k].task = t
  <2>1. \E r \in O : r.login = k[1] /\ r.task = k[2]
    BY <1>1, <1>2
  <2>2. over[k] = CHOOSE r \in O : r.login = k[1] /\ r.task = k[2]
    BY <1>2 DEF ParseOverrides
  <2> QED BY <2>1, <2>2
<1> QED BY <1>1, <1>2

(* The submissions of a user that a score is made of. *)
Chosen(best, flag, P, F) ==
    /\ P \subseteq PipelineRow /\ F \subseteq FlagRow
    /\ ByStatus!Picks(best, P) /\ ByTime!Picks(flag, F)

(* The submission that counts for a task, if any. *)
Counts(task, best, flag) ==
    IF task.task \in DOMAIN flag THEN {[status |-> "success", at |-> flag[task.task].at]}
    ELSE IF ~task.crashme /\ task.task \in DOMAIN best THEN {best[task.task]}
    ELSE {}

(* Without an override a task is worth what that submission is worth. *)
LEMMA TaskWorth ==
    ASSUME NEW d, NEW u, NEW a, NEW task, NEW best, NEW flag, NEW over,
           <<u, task.task>> \notin DOMAIN over
    PROVE  LET scored == ScoreTask(d, u, a, task, best, flag, over) IN
           /\ Counts(task, best, flag) = {} => scored = [status |-> "assigned", score |-> 0]
           /\ \A p \in Counts(task, best, flag) :
                scored = [status |-> ClassifyPipelineStatus(p.status),
                          score |-> ScorePipeline(d, u, a, task, p)]
<1>1. ClassifyPipelineStatus("success") = "success"
  BY DEF ClassifyPipelineStatus
<1>2. CASE task.task \in DOMAIN flag
  BY <1>1, <1>2 DEF Counts, ScoreTask
<1>3. CASE task.task \notin DOMAIN flag /\ ~task.crashme /\ task.task \in DOMAIN best
  BY <1>3 DEF Counts, ScoreTask
<1>4. CASE task.task \notin DOMAIN flag /\ ~(~task.crashme /\ task.task \in DOMAIN best)
  BY <1>4 DEF Counts, ScoreTask
<1> QED BY <1>2, <1>3, <1>4

(* It is one of the user's. *)
LEMMA CountsTyped ==
    ASSUME NEW best, NEW flag, NEW P, NEW F, Chosen(best, flag, P, F), NEW task,
           NEW p \in Counts(task, best, flag)
    PROVE  p.at \in Times /\ \E r \in P \cup F : r.task = task.task /\ r.at = p.at
<1>1. CASE task.task \in DOMAIN flag
  <2>1. flag[task.task] \in F /\ flag[task.task].task = task.task /\ p.at = flag[task.task].at
    BY <1>1 DEF Chosen, Counts, ByTime!Picks
  <2> QED BY <2>1, RowTypes DEF Chosen
<1>2. CASE task.task \notin DOMAIN flag
  <2>1. task.task \in DOMAIN best /\ p = best[task.task]
    BY <1>2 DEF Counts
  <2>2. p \in P /\ p.task = task.task
    BY <2>1 DEF Chosen, ByStatus!Picks
  <2> QED BY <2>2, RowTypes DEF Chosen
<1> QED BY <1>1, <1>2

(* With more submissions to choose from, nothing worse is chosen. *)
LEMMA CountsImprove ==
    ASSUME NEW best, NEW flag, NEW P, NEW F, Chosen(best, flag, P, F),
           NEW best2, NEW flag2, NEW P2, NEW F2, Chosen(best2, flag2, P2, F2),
           P2 \subseteq P, F2 \subseteq F, NEW task, task.task \in FlagTasks => task.crashme,
           NEW q \in Counts(task, best2, flag2)
    PROVE  \E p \in Counts(task, best, flag) :
             /\ Rank(q.status) =< Rank(p.status)
             /\ Rank(p.status) = Rank(q.status) => p.at =< q.at
<1>0. /\ \A r \in F : r.at \in Nat /\ r.task \in FlagTasks
      /\ \A r \in P : r.at \in Nat /\ Rank(r.status) \in Nat
      /\ Rank("success") \in Nat
  BY RowTypes, Ranks DEF Chosen
<1>1. CASE task.task \in DOMAIN flag2
  <2>1. flag2[task.task] \in F /\ flag2[task.task].task = task.task
    BY <1>1 DEF Chosen, ByTime!Picks
  <2>2. /\ task.task \in DOMAIN flag /\ flag[task.task] \in F
        /\ ~Earlier(flag2[task.task], flag[task.task])
    BY <2>1 DEF Chosen, ByTime!Picks
  <2>3. flag[task.task].at =< flag2[task.task].at
    BY <1>0, <2>1, <2>2 DEF Earlier
  <2> DEFINE p == [status |-> "success", at |-> flag[task.task].at]
  <2>4. p \in Counts(task, best, flag)
    BY <2>2 DEF Counts
  <2>5. q.status = "success" /\ q.at = flag2[task.task].at
    BY <1>1 DEF Counts
  <2>6. Rank(q.status) =< Rank(p.status) /\ p.at =< q.at
    BY <1>0, <2>3, <2>5
  <2> HIDE DEF p
  <2> QED BY <2>4, <2>6
<1>2. CASE task.task \notin DOMAIN flag2
  <2>1. ~task.crashme /\ task.task \in DOMAIN best2 /\ q = best2[task.task]
    BY <1>2 DEF Counts
  <2>2. q \in P /\ q.task = task.task
    BY <2>1 DEF Chosen, ByStatus!Picks
  <2>3. /\ task.task \in DOMAIN best /\ best[task.task] \in P
        /\ ~PipelineLess(q, best[task.task])
    BY <2>2 DEF Chosen, ByStatus!Picks
  <2>4. task.task \notin DOMAIN flag
    BY <1>0, <2>1 DEF Chosen, ByTime!Picks
  <2>5. best[task.task] \in Counts(task, best, flag)
    BY <2>1, <2>3, <2>4 DEF Counts
  <2>6. /\ Rank(q.status) =< Rank(best[task.task].status)
        /\ Rank(best[task.task].status) = Rank(q.status) => best[task.task].at =< q.at
    BY <1>0, <2>2, <2>3 DEF PipelineLess
  <2> QED BY <2>5, <2>6
<1> QED BY <1>1, <1>2
-----------------------------------------------------------------------------
(* The scores of a user *)

(* Listing leaves a list as it is. *)
LEMMA ListedAll ==
    ASSUME NEW n \in Nat, NEW s, DOMAIN s = 1..n, s = [i \in 1..n |-> s[i]]
    PROVE  Listed(s) = s
<1> DEFINE T == {s[i] : i \in 1..n}
<1>1. s \in Seq(T)
  OBVIOUS
<1> HIDE DEF T
<1> QED BY <1>1, ConcatEmptySeq DEF Listed

(* What a task group is worth. *)
LEMMA MaxScoreType ==
    ASSUME NEW a, TaskGroupInOrder(a)
    PROVE  MaxScoreOf(a) \in Nat
<1> DEFINE m == Len(a.tasks)
           t == [j \in 1..m |-> a.tasks[j].score]
<1>1. /\ a.tasks \in Seq(ToSet(a.tasks))
      /\ \A j \in DOMAIN a.tasks : a.tasks[j].score \in Nat
  BY DEF TaskGroupInOrder
<1>2. m \in Nat /\ DOMAIN a.tasks = 1..m
  BY <1>1
<1>3. t \in [1..m -> Nat]
  BY <1>1, <1>2
<1>4. MaxScoreOf(a) = Total(t)
  BY <1>2 DEF MaxScoreOf
<1> HIDE DEF t, m
<1>5. Total(t) \in Nat
  BY <1>2, <1>3, TotalType
<1> QED BY <1>4, <1>5

(* buildScoringGroups keeps the task groups, and a sheet in order. *)
LEMMA SheetBuilt ==
    ASSUME NEW d, SheetInOrder(d)
    PROVE  /\ SheetInOrder(BuildScoringGroups(d))
           /\ BuildScoringGroups(d).assignments = d.assignments
<1> DEFINE built == BuildScoringGroups(d)
           groups == [g \in DOMAIN d.groups |->
                        IF d.groups[g].maxScore # 0 THEN d.groups[g]
                        ELSE [d.groups[g] EXCEPT !.maxScore = MaxScoresOf(d, g)]]
<1>1. /\ d \in [assignments: Seq(ToSet(d.assignments)), policies: {d.policies},
                groups: {d.groups}, defaultGroup: {d.defaultGroup},
                finalDeadline: SUBSET Nat, retakePenalty: 0..100]
      /\ \A i \in DOMAIN d.assignments : TaskGroupInOrder(d.assignments[i])
      /\ \A p \in DOMAIN d.policies : PolicyInOrder(d.policies[p])
      /\ IsFiniteSet(DOMAIN d.groups)
      /\ \A g \in DOMAIN d.groups :
           d.groups[g] \in [weight: Nat, maxScore: Nat, policy: {d.groups[g].policy}]
  BY DEF SheetInOrder
<1>2. built = [d EXCEPT !.groups = groups]
  BY DEF BuildScoringGroups
<1>3. /\ built.assignments = d.assignments /\ built.policies = d.policies
      /\ built.groups = groups /\ DOMAIN groups = DOMAIN d.groups
      /\ built \in [assignments: Seq(ToSet(d.assignments)), policies: {d.policies},
                    groups: {groups}, defaultGroup: {d.defaultGroup},
                    finalDeadline: SUBSET Nat, retakePenalty: 0..100]
      /\ built.defaultGroup = d.defaultGroup
  BY <1>1, <1>2
<1>4. ASSUME NEW g \in DOMAIN groups
      PROVE  groups[g] \in [weight: Nat, maxScore: Nat, policy: {groups[g].policy}]
  <2>1. d.groups[g] \in [weight: Nat, maxScore: Nat, policy: {d.groups[g].policy}]
    BY <1>1
  <2>2. MaxScoresOf(d, g) \in Nat
    <3> DEFINE n == Len(d.assignments)
               s == [i \in 1..n |->
                       IF ScoringGroupName(d, d.assignments[i]) = g THEN MaxScoreOf(d.assignments[i])
                                                                   ELSE 0]
    <3>1. n \in Nat /\ DOMAIN d.assignments = 1..n
      BY <1>1
    <3>2. \A i \in 1..n : MaxScoreOf(d.assignments[i]) \in Nat
      BY <1>1, <3>1, MaxScoreType
    <3>3. s \in [1..n -> Nat]
      BY <3>2
    <3>4. MaxScoresOf(d, g) = Total(s)
      BY <3>1 DEF MaxScoresOf
    <3> HIDE DEF s
    <3> QED BY <3>1, <3>3, <3>4, TotalType
  <2>3. [d.groups[g] EXCEPT !.maxScore = MaxScoresOf(d, g)]
          \in [weight: Nat, maxScore: Nat, policy: {d.groups[g].policy}]
    BY <2>1, <2>2
  <2>4. groups[g] \in [weight: Nat, maxScore: Nat, policy: {d.groups[g].policy}]
    BY <2>1, <2>3
  <2> HIDE DEF groups
  <2> QED BY <2>4
<1> HIDE DEF groups, built
<1>5. SheetInOrder(built)
  BY <1>1, <1>3, <1>4 DEF SheetInOrder
<1> QED BY <1>3, <1>5 DEF built

(* A sheet as the scorer reads it. *)
LEMMA SheetRead ==
    ASSUME NEW d, SheetInOrder(d)
    PROVE  /\ Len(d.assignments) \in Nat
           /\ DOMAIN d.assignments = 1..Len(d.assignments)
           /\ \A i \in DOMAIN d.assignments :
                LET a == d.assignments[i] IN
                /\ TaskGroupInOrder(a)
                /\ Len(a.tasks) \in Nat /\ DOMAIN a.tasks = 1..Len(a.tasks)
                /\ \A j \in DOMAIN a.tasks :
                     /\ a.tasks[j].score \in Nat
                     /\ a.tasks[j].task \in FlagTasks => a.tasks[j].crashme
<1>1. d.assignments \in Seq(ToSet(d.assignments))
  BY DEF SheetInOrder
<1>2. /\ Len(d.assignments) \in Nat
      /\ DOMAIN d.assignments = 1..Len(d.assignments)
  BY <1>1
<1>3. ASSUME NEW i \in DOMAIN d.assignments
      PROVE  LET a == d.assignments[i] IN
             /\ TaskGroupInOrder(a)
             /\ Len(a.tasks) \in Nat /\ DOMAIN a.tasks = 1..Len(a.tasks)
             /\ \A j \in DOMAIN a.tasks : /\ a.tasks[j].score \in Nat
                                          /\ a.tasks[j].task \in FlagTasks => a.tasks[j].crashme
  <2> DEFINE a == d.assignments[i]
  <2>1. TaskGroupInOrder(a)
    BY DEF SheetInOrder
  <2>2. /\ a.tasks \in Seq(ToSet(a.tasks))
        /\ \A j \in DOMAIN a.tasks : /\ a.tasks[j].score \in Nat
                                     /\ a.tasks[j].task \in FlagTasks => a.tasks[j].crashme
    BY <2>1 DEF TaskGroupInOrder
  <2>3. Len(a.tasks) \in Nat /\ DOMAIN a.tasks = 1..Len(a.tasks)
    BY <2>2
  <2> QED BY <2>1, <2>2, <2>3
<1> QED BY <1>2, <1>3

(* The sheet in use is in order, and its tasks have a place in the tables. *)
LEMMA DeadlinesRead ==
    /\ SheetInOrder(Deadlines)
    /\ \A i \in DOMAIN Deadlines.assignments : \A j \in DOMAIN Deadlines.assignments[i].tasks :
         Deadlines.assignments[i].tasks[j].task \in Tasks
<1>1. SheetInOrder(Sheet)
  BY ScoringAssumption
<1>2. SheetInOrder(Deadlines) /\ Deadlines.assignments = Sheet.assignments
  BY <1>1, SheetBuilt DEF Deadlines
<1> QED BY <1>2 DEF Tasks

(* What the score of a task group consists of. *)
LEMMA GroupTasks ==
    ASSUME NEW d, NEW u, NEW a, NEW best, NEW flag, NEW over,
           Len(a.tasks) \in Nat, DOMAIN a.tasks = 1..Len(a.tasks)
    PROVE  ScoreGroup(d, u, a, best, flag, over).tasks
             = [j \in 1..Len(a.tasks) |-> ScoreTask(d, u, a, a.tasks[j], best, flag, over)]
<1> DEFINE g == ScoreGroup(d, u, a, best, flag, over)
           m == Len(a.tasks)
           tasks == [j \in 1..m |-> ScoreTask(d, u, a, a.tasks[j], best, flag, over)]
<1>1. g.tasks = Listed(tasks)
  BY DEF ScoreGroup
<1>2. DOMAIN tasks = 1..m /\ tasks = [j \in 1..m |-> tasks[j]]
  OBVIOUS
<1> HIDE DEF tasks, g
<1>3. g.tasks = tasks
  BY <1>1, <1>2, ListedAll
<1> QED BY <1>3 DEF tasks, g

(* The score of a task group adds up the ones of its tasks. *)
LEMMA GroupScore ==
    ASSUME NEW d, NEW u, NEW a, NEW best, NEW flag, NEW over,
           Len(a.tasks) \in Nat, DOMAIN a.tasks = 1..Len(a.tasks)
    PROVE  LET g == ScoreGroup(d, u, a, best, flag, over) IN
           g.score = Total([j \in 1..Len(a.tasks) |-> g.tasks[j].score])
<1> DEFINE g == ScoreGroup(d, u, a, best, flag, over)
<1>1. g.score = Total([j \in DOMAIN g.tasks |-> g.tasks[j].score])
  BY DEF ScoreGroup
<1>2. g.tasks = [j \in 1..Len(a.tasks) |-> ScoreTask(d, u, a, a.tasks[j], best, flag, over)]
  BY GroupTasks
<1> HIDE DEF g
<1>3. DOMAIN g.tasks = 1..Len(a.tasks)
  BY <1>2
<1> QED BY <1>1, <1>3 DEF g

(* What the scores of a user consist of. *)
LEMMA UserGroups ==
    ASSUME NEW d, SheetInOrder(d), NEW u, NEW rows, NEW flagRows, NEW overrideRows
    PROVE  LET s == CalcUserScoresImpl(d, u, rows, flagRows, overrideRows)
           IN  s.groups = [i \in 1..Len(d.assignments) |->
                     ScoreGroup(d, u, d.assignments[i], LoadUserPipelines(rows),
                                LoadUserFlags(flagRows), ParseOverrides(overrideRows))]
<1> DEFINE s == CalcUserScoresImpl(d, u, rows, flagRows, overrideRows)
           n == Len(d.assignments)
           groups == [i \in 1..n |->
                        ScoreGroup(d, u, d.assignments[i], LoadUserPipelines(rows),
                                   LoadUserFlags(flagRows), ParseOverrides(overrideRows))]
<1>1. n \in Nat /\ DOMAIN d.assignments = 1..n
  BY SheetRead
<1>2. s.groups = Listed(groups)
  BY <1>1 DEF CalcUserScoresImpl
<1>3. DOMAIN groups = 1..n /\ groups = [i \in 1..n |-> groups[i]]
  OBVIOUS
<1> HIDE DEF groups, s
<1>4. s.groups = groups
  BY <1>1, <1>2, <1>3, ListedAll
<1> QED BY <1>4 DEF groups, s

(* The mark adds up what the task groups are worth. *)
LEMMA UserMark ==
    ASSUME NEW d, SheetInOrder(d), NEW u, NEW rows, NEW flagRows, NEW overrideRows
    PROVE  LET s == CalcUserScoresImpl(d, u, rows, flagRows, overrideRows)
           IN  s.finalMark = Total([i \in 1..Len(d.assignments) |->
                                      MarkOf(d, d.assignments[i], s.groups[i].score)])
<1> DEFINE s == CalcUserScoresImpl(d, u, rows, flagRows, overrideRows)
<1>1. s.finalMark = Total([i \in DOMAIN s.groups |->
                            MarkOf(d, d.assignments[i], s.groups[i].score)])
  BY DEF CalcUserScoresImpl
<1>2. s.groups = [i \in 1..Len(d.assignments) |->
                    ScoreGroup(d, u, d.assignments[i], LoadUserPipelines(rows),
                               LoadUserFlags(flagRows), ParseOverrides(overrideRows))]
  BY UserGroups
<1> HIDE DEF s
<1>3. DOMAIN s.groups = 1..Len(d.assignments)
  BY <1>2
<1> QED BY <1>1, <1>3 DEF s

(* Task by task. *)
LEMMA TasksOf ==
    ASSUME NEW d, SheetInOrder(d), NEW u, NEW rows, NEW flagRows, NEW overrideRows,
           NEW i \in DOMAIN d.assignments
    PROVE  LET a == d.assignments[i]
               g == CalcUserScoresImpl(d, u, rows, flagRows, overrideRows).groups[i]
           IN  g.tasks = [j \in 1..Len(a.tasks) |->
                               ScoreTask(d, u, a, a.tasks[j], LoadUserPipelines(rows),
                                         LoadUserFlags(flagRows), ParseOverrides(overrideRows))]
<1> DEFINE a == d.assignments[i]
           s == CalcUserScoresImpl(d, u, rows, flagRows, overrideRows)
           best == LoadUserPipelines(rows)
           flag == LoadUserFlags(flagRows)
           over == ParseOverrides(overrideRows)
<1>1. Len(a.tasks) \in Nat /\ DOMAIN a.tasks = 1..Len(a.tasks) /\ i \in 1..Len(d.assignments)
  BY SheetRead
<1>2. s.groups = [k \in 1..Len(d.assignments) |->
                    ScoreGroup(d, u, d.assignments[k], best, flag, over)]
  BY UserGroups
<1>3. s.groups[i] = ScoreGroup(d, u, a, best, flag, over)
  BY <1>1, <1>2
<1> HIDE DEF s, best, flag, over
<1>4. ScoreGroup(d, u, a, best, flag, over).tasks
        = [j \in 1..Len(a.tasks) |-> ScoreTask(d, u, a, a.tasks[j], best, flag, over)]
  BY <1>1, GroupTasks
<1> QED BY <1>3, <1>4 DEF s, best, flag, over

(* And task group by task group. *)
LEMMA GroupsOf ==
    ASSUME NEW d, SheetInOrder(d), NEW u, NEW rows, NEW flagRows, NEW overrideRows,
           NEW i \in DOMAIN d.assignments
    PROVE  LET a == d.assignments[i]
               s == CalcUserScoresImpl(d, u, rows, flagRows, overrideRows)
           IN  s.groups[i].score = Total([j \in 1..Len(a.tasks) |-> TaskScore(s, i, j)])
<1> DEFINE a == d.assignments[i]
           s == CalcUserScoresImpl(d, u, rows, flagRows, overrideRows)
           best == LoadUserPipelines(rows)
           flag == LoadUserFlags(flagRows)
           over == ParseOverrides(overrideRows)
<1>1. Len(a.tasks) \in Nat /\ DOMAIN a.tasks = 1..Len(a.tasks) /\ i \in 1..Len(d.assignments)
  BY SheetRead
<1>2. s.groups = [k \in 1..Len(d.assignments) |->
                    ScoreGroup(d, u, d.assignments[k], best, flag, over)]
  BY UserGroups
<1>3. s.groups[i] = ScoreGroup(d, u, a, best, flag, over)
  BY <1>1, <1>2
<1> HIDE DEF s, best, flag, over
<1>4. ScoreGroup(d, u, a, best, flag, over).score
        = Total([j \in 1..Len(a.tasks) |->
                   ScoreGroup(d, u, a, best, flag, over).tasks[j].score])
  BY <1>1, GroupScore
<1> QED BY <1>3, <1>4 DEF s, TaskScore

(* Rows that are listed, all of them, are what is chosen from. *)
LEMMA ListedChosen ==
    ASSUME NEW P, P \subseteq PipelineRow, NEW rows \in Seq(P), P = {rows[i] : i \in DOMAIN rows},
           NEW F, F \subseteq FlagRow, NEW flagRows \in Seq(F),
           F = {flagRows[i] : i \in DOMAIN flagRows}
    PROVE  Chosen(LoadUserPipelines(rows), LoadUserFlags(flagRows), P, F)
<1>1. Timed(P) /\ Timed(F)
  BY RowTypes DEF Timed
<1>2. ByStatus!Picks(LoadUserPipelines(rows), P)
  BY <1>1, PipelinesPicked
<1>3. ByTime!Picks(LoadUserFlags(flagRows), F)
  BY <1>1, FlagsPicked
<1> QED BY <1>2, <1>3 DEF Chosen

(* The home page chooses from the rows of the user. *)
LEMMA HomeChosen ==
    ASSUME NEW S, IsFiniteSet(S), S \subseteq PipelineRow,
           NEW T, IsFiniteSet(T), T \subseteq FlagRow, NEW u
    PROVE  Chosen(LoadUserPipelines(SetToSeq(RowsOf(S, u))), LoadUserFlags(SetToSeq(RowsOf(T, u))),
                  RowsOf(S, u), RowsOf(T, u))
<1> DEFINE P == RowsOf(S, u)
           F == RowsOf(T, u)
<1>1. IsFiniteSet(P) /\ P \subseteq PipelineRow
  BY UserRows
<1>2. IsFiniteSet(F) /\ F \subseteq FlagRow
  BY UserRows
<1> HIDE DEF P, F
<1>3. SetToSeq(P) \in Seq(P) /\ P = {SetToSeq(P)[i] : i \in DOMAIN SetToSeq(P)}
  BY <1>1, SomeOrder, OrdersComplete
<1>4. SetToSeq(F) \in Seq(F) /\ F = {SetToSeq(F)[i] : i \in DOMAIN SetToSeq(F)}
  BY <1>2, SomeOrder, OrdersComplete
<1>5. Chosen(LoadUserPipelines(SetToSeq(P)), LoadUserFlags(SetToSeq(F)), P, F)
  BY <1>1, <1>2, <1>3, <1>4, ListedChosen
<1> QED BY <1>5 DEF P, F

(* Rows of overrides, one for a user and a task. *)
OverridesIn(O) ==
    /\ O \subseteq OverrideRow
    /\ \A r, q \in O : r.login = q.login /\ r.task = q.task => r = q

(* Those of the table are such rows, as are a user's. *)
LEMMA OverridesListed ==
    ASSUME TInv
    PROVE  /\ OverridesIn(Rows(overrides))
           /\ \A u \in Logins, t \in Tasks :
                (\E r \in Rows(overrides) : r.login = u /\ r.task = t)
                  <=> overrides[<<u, t>>] # NoRow
<1>0. DOMAIN overrides = Logins \X Tasks
  BY DEF TInv, TypeOK
<1>1. ASSUME NEW r \in Rows(overrides)
      PROVE  /\ r \in OverrideRow /\ r # NoRow /\ r.login \in Logins /\ r.task \in Tasks
             /\ r = overrides[<<r.login, r.task>>]
  <2>1. PICK l \in Logins \X Tasks : r = overrides[l] /\ r # NoRow
    BY <1>0 DEF Rows
  <2>2. r.login = l[1] /\ r.task = l[2]
    BY <2>1 DEF TInv, OverridesKeyed
  <2>3. l = <<r.login, r.task>>
    BY <2>2
  <2> QED BY <2>1, <2>2, <2>3 DEF TInv, TypeOK
<1>2. OverridesIn(Rows(overrides))
  BY <1>1 DEF OverridesIn
<1>3. ASSUME NEW u \in Logins, NEW t \in Tasks
      PROVE  (\E r \in Rows(overrides) : r.login = u /\ r.task = t)
               <=> overrides[<<u, t>>] # NoRow
  <2>1. ASSUME overrides[<<u, t>>] # NoRow
        PROVE  \E r \in Rows(overrides) : r.login = u /\ r.task = t
    <3>1. <<u, t>> \in Logins \X Tasks /\ <<u, t>>[1] = u /\ <<u, t>>[2] = t
      OBVIOUS
    <3>2. overrides[<<u, t>>].login = u /\ overrides[<<u, t>>].task = t
      BY <2>1, <3>1 DEF TInv, OverridesKeyed
    <3> QED BY <1>0, <2>1, <3>1, <3>2 DEF Rows
  <2> QED BY <1>1, <2>1
<1> QED BY <1>2, <1>3

(* A user's overrides among them, and what is found in either. *)
LEMMA OverridesFound ==
    ASSUME NEW O, OverridesIn(O), NEW u, NEW t
    PROVE  LET k == <<u, t>>
               over == ParseOverrides(O)
               mine == ParseOverrides(RowsOf(O, u))
           IN  /\ OverridesIn(RowsOf(O, u))
               /\ k \in DOMAIN over => over[k].score \in Int
               /\ k \in DOMAIN over <=> k \in DOMAIN mine
               /\ k \in DOMAIN over => over[k] = mine[k]
<1> DEFINE k == <<u, t>>
           over == ParseOverrides(O)
           mine == ParseOverrides(RowsOf(O, u))
<1>1. /\ k \in DOMAIN over <=> \E r \in O : r.login = u /\ r.task = t
      /\ k \in DOMAIN over => over[k] \in O /\ over[k].login = u /\ over[k].task = t
  BY OverridesParsed
<1>2. /\ k \in DOMAIN mine <=> \E r \in RowsOf(O, u) : r.login = u /\ r.task = t
      /\ k \in DOMAIN mine => mine[k] \in RowsOf(O, u) /\ mine[k].login = u /\ mine[k].task = t
  BY OverridesParsed
<1>3. \A r : r \in RowsOf(O, u) <=> r \in O /\ r.login = u
  BY DEF RowsOf
<1> HIDE DEF over, mine, k
<1>4. OverridesIn(RowsOf(O, u))
  BY <1>3 DEF OverridesIn
<1>5. k \in DOMAIN over <=> k \in DOMAIN mine
  BY <1>1, <1>2, <1>3
<1>6. k \in DOMAIN over => over[k] = mine[k] /\ over[k].score \in Int
  BY <1>1, <1>2, <1>3, <1>5, OverrideTypes DEF OverridesIn
<1> QED BY <1>4, <1>5, <1>6 DEF over, mine, k

(* Task by task, whatever the tables hold. *)
LEMMA TasksWithin == TInv => TasksBounded
<1>1. ASSUME TInv
      PROVE  TasksBounded
  <2> DEFINE d == Deadlines
             S == Rows(pipelines)
             T == Rows(flags)
             s(u) == CalcUserScores(d, u, S, T, Rows(overrides))
             late(u, task) == \A t \in d.finalDeadline :
                                \A r \in RowsOf(S \cup T, u) : r.task = task.task => r.at > t
  <2>0. IsFiniteSet(S) /\ S \subseteq PipelineRow /\ IsFiniteSet(T) /\ T \subseteq FlagRow
    BY <1>1, TableRows
  <2>1. ASSUME NEW u \in Logins, NEW i \in DOMAIN d.assignments,
               NEW j \in DOMAIN d.assignments[i].tasks,
               overrides[<<u, d.assignments[i].tasks[j].task>>] = NoRow
        PROVE  LET a == d.assignments[i]
                   task == a.tasks[j]
               IN  /\ TaskScore(s(u), i, j) =< task.score
                   /\ TaskScore(s(u), i, j) >= IF GetScoringPolicy(d, a) = NoPolicy THEN -1 ELSE 0
                   /\ d.finalDeadline # {} /\ late(u, task) =>
                        TaskScore(s(u), i, j) =<
                          IF HasRetake[u] THEN (task.score * d.retakePenalty) \div 100 ELSE 0
    <3> DEFINE a == d.assignments[i]
               task == a.tasks[j]
               P == RowsOf(S, u)
               F == RowsOf(T, u)
               O == RowsOf(Rows(overrides), u)
               best == LoadUserPipelines(SetToSeq(P))
               flag == LoadUserFlags(SetToSeq(F))
               over == ParseOverrides(O)
               score == TaskScore(s(u), i, j)
               least == (task.score * d.retakePenalty) \div 100
    <3>1. Chosen(best, flag, P, F)
      BY <2>0, HomeChosen
    <3>2. TaskGroupInOrder(a) /\ task.score \in Nat /\ task.task \in Tasks
      BY DeadlinesRead, SheetRead
    <3>3. SheetInOrder(d)
      BY DeadlinesRead
    <3>4. <<u, task.task>> \notin DOMAIN over
      <4>1. ~\E r \in Rows(overrides) : r.login = u /\ r.task = task.task
        BY <1>1, <2>1, <3>2, OverridesListed
      <4>2. ~\E r \in O : r.login = u /\ r.task = task.task
        BY <4>1 DEF RowsOf
      <4> QED BY <4>2, OverridesParsed
    <3>5. score = ScoreTask(d, u, a, task, best, flag, over).score
      <4>1. s(u) = CalcUserScoresImpl(d, u, SetToSeq(P), SetToSeq(F), O)
        BY DEF CalcUserScores
      <4>2. s(u).groups[i].tasks
              = [k \in 1..Len(a.tasks) |-> ScoreTask(d, u, a, a.tasks[k], best, flag, over)]
        BY <3>3, <4>1, TasksOf
      <4>3. j \in 1..Len(a.tasks)
        BY <3>3, SheetRead
      <4> QED BY <4>2, <4>3 DEF TaskScore
    <3>6. least \in 0..task.score
      BY <3>2, <3>3, RetakeShare
    <3>7. /\ Counts(task, best, flag) = {} => score = 0
          /\ \A p \in Counts(task, best, flag) : score = ScorePipeline(d, u, a, task, p)
      BY <3>4, <3>5, TaskWorth
    <3> HIDE DEF best, flag, over, score
    <3>8. CASE Counts(task, best, flag) = {}
      BY <3>2, <3>6, <3>7, <3>8 DEF score
    <3>9. ASSUME NEW p \in Counts(task, best, flag)
          PROVE  /\ score =< task.score
                 /\ score >= IF GetScoringPolicy(d, a) = NoPolicy THEN -1 ELSE 0
                 /\ d.finalDeadline # {} /\ late(u, task) =>
                      score =< IF HasRetake[u] THEN least ELSE 0
      <4>1. p.at \in Times /\ \E r \in P \cup F : r.task = task.task /\ r.at = p.at
        BY <3>1, CountsTyped
      <4>2. score = ScorePipeline(d, u, a, task, p)
        BY <3>7
      <4>3. /\ score =< task.score
            /\ score >= IF GetScoringPolicy(d, a) = NoPolicy THEN -1 ELSE 0
            /\ (\E t \in d.finalDeadline : p.at > t) => score =< IF HasRetake[u] THEN least ELSE 0
        BY <3>2, <3>3, <4>1, <4>2, ScoreBounds
      <4>4. ASSUME d.finalDeadline # {}, late(u, task)
            PROVE  \E t \in d.finalDeadline : p.at > t
        <5>1. PICK r \in P \cup F : r.task = task.task /\ r.at = p.at
          BY <4>1
        <5>2. r \in RowsOf(S \cup T, u)
          BY DEF RowsOf
        <5> QED BY <4>4, <5>1, <5>2
      <4> QED BY <4>3, <4>4
    <3> QED BY <3>8, <3>9 DEF score
  <2> QED BY <2>1 DEF TasksBounded
<1> QED BY <1>1

(* A task that is not overridden is worth between nothing and its score,    *)
(* -1 where a solved task has no known policy, and nothing after the final  *)
(* deadline except a retake's share - for every sheet in order and every    *)
(* table of submissions (scorer.go:300-318, 371-404, scoring.go:41-70).     *)
THEOREM TasksAreBounded == Spec => []TasksBounded
  BY TasksWithin, TablesInvariance, PTL
-----------------------------------------------------------------------------
(* Submitting again *)

(* A score is a number of points, overridden or not. *)
LEMMA TaskScored ==
    ASSUME NEW d, SheetInOrder(d), NEW u \in Logins, NEW a, TaskGroupInOrder(a),
           NEW task, task.score \in Nat,
           NEW best, NEW flag, NEW P, NEW F, Chosen(best, flag, P, F),
           NEW over, <<u, task.task>> \in DOMAIN over => over[<<u, task.task>>].score \in Int
    PROVE  ScoreTask(d, u, a, task, best, flag, over).score \in Int
<1>1. CASE <<u, task.task>> \in DOMAIN over
  BY <1>1 DEF ScoreTask
<1>2. CASE <<u, task.task>> \notin DOMAIN over /\ Counts(task, best, flag) = {}
  <2>1. ScoreTask(d, u, a, task, best, flag, over) = [status |-> "assigned", score |-> 0]
    BY <1>2, TaskWorth
  <2> QED BY <2>1
<1>3. ASSUME <<u, task.task>> \notin DOMAIN over, NEW p \in Counts(task, best, flag)
      PROVE  ScoreTask(d, u, a, task, best, flag, over).score \in Int
  <2>1. ScoreTask(d, u, a, task, best, flag, over)
          = [status |-> ClassifyPipelineStatus(p.status),
             score |-> ScorePipeline(d, u, a, task, p)]
    BY <1>3, TaskWorth
  <2>2. p.at \in Times
    BY CountsTyped
  <2>3. ScorePipeline(d, u, a, task, p) \in Int
    BY <2>2, ScoreBounds
  <2> QED BY <2>1, <2>3
<1> QED BY <1>1, <1>2, <1>3

(* The solutions among some pipelines. *)
Solved(P) == {r \in P : r.status = "success"}

(* As long as they stay, so does a success, or an earlier one counts. *)
LEMMA CountsKept ==
    ASSUME NEW best, NEW flag, NEW P, NEW F, Chosen(best, flag, P, F),
           NEW best2, NEW flag2, NEW P2, NEW F2, Chosen(best2, flag2, P2, F2),
           Solved(P2) \subseteq P, F2 \subseteq F,
           NEW task, task.task \in FlagTasks => task.crashme,
           NEW q \in Counts(task, best2, flag2), q.status = "success"
    PROVE  \E p \in Counts(task, best, flag) : p.status = "success" /\ p.at =< q.at
<1>0. /\ \A r \in F : r.at \in Nat /\ r.task \in FlagTasks
      /\ \A r \in P : r.at \in Nat
  BY RowTypes DEF Chosen
<1>1. CASE task.task \in DOMAIN flag2
  <2>1. flag2[task.task] \in F /\ flag2[task.task].task = task.task
    BY <1>1 DEF Chosen, ByTime!Picks
  <2>2. /\ task.task \in DOMAIN flag /\ flag[task.task] \in F
        /\ ~Earlier(flag2[task.task], flag[task.task])
    BY <2>1 DEF Chosen, ByTime!Picks
  <2>3. flag[task.task].at =< flag2[task.task].at
    BY <1>0, <2>1, <2>2 DEF Earlier
  <2> DEFINE p == [status |-> "success", at |-> flag[task.task].at]
  <2>4. p \in Counts(task, best, flag)
    BY <2>2 DEF Counts
  <2>5. q.at = flag2[task.task].at
    BY <1>1 DEF Counts
  <2>6. p.status = "success" /\ p.at =< q.at
    BY <2>3, <2>5
  <2> HIDE DEF p
  <2> QED BY <2>4, <2>6
<1>2. CASE task.task \notin DOMAIN flag2
  <2>1. ~task.crashme /\ task.task \in DOMAIN best2 /\ q = best2[task.task]
    BY <1>2 DEF Counts
  <2>2. q \in P /\ q.task = task.task
    BY <2>1 DEF Chosen, ByStatus!Picks, Solved
  <2>3. /\ task.task \in DOMAIN best /\ best[task.task] \in P
        /\ ~PipelineLess(q, best[task.task])
    BY <2>2 DEF Chosen, ByStatus!Picks
  <2>4. task.task \notin DOMAIN flag
    BY <1>0, <2>1 DEF Chosen, ByTime!Picks
  <2>5. best[task.task] \in Counts(task, best, flag)
    BY <2>1, <2>3, <2>4 DEF Counts
  <2>6. /\ Rank(q.status) = 5 /\ Rank(best[task.task].status) \in 1..5
        /\ Rank(best[task.task].status) = 5 <=> best[task.task].status = "success"
    BY Ranks
  <2>7. best[task.task].status = "success" /\ best[task.task].at =< q.at
    BY <1>0, <2>2, <2>3, <2>6 DEF PipelineLess
  <2> QED BY <2>5, <2>7
<1> QED BY <1>1, <1>2

(* With more to choose from, a task with a policy is worth no less. *)
LEMMA TaskGrows ==
    ASSUME NEW d, SheetInOrder(d), NEW u \in Logins, NEW a, TaskGroupInOrder(a),
           NEW task, task.score \in Nat,
           task.task \in FlagTasks => task.crashme, GetScoringPolicy(d, a) # NoPolicy,
           NEW best, NEW flag, NEW P, NEW F, Chosen(best, flag, P, F),
           NEW best2, NEW flag2, NEW P2, NEW F2, Chosen(best2, flag2, P2, F2),
           Solved(P2) \subseteq P, F2 \subseteq F,
           NEW over, <<u, task.task>> \in DOMAIN over => over[<<u, task.task>>].score \in Int
    PROVE  ScoreTask(d, u, a, task, best2, flag2, over).score
             =< ScoreTask(d, u, a, task, best, flag, over).score
<1> DEFINE s == ScoreTask(d, u, a, task, best, flag, over)
           s2 == ScoreTask(d, u, a, task, best2, flag2, over)
<1>1. CASE <<u, task.task>> \in DOMAIN over
  <2>1. s.score = over[<<u, task.task>>].score /\ s2.score = over[<<u, task.task>>].score
    BY <1>1 DEF ScoreTask
  <2> QED BY <1>1, <2>1
<1>2. ASSUME <<u, task.task>> \notin DOMAIN over
      PROVE  s2.score =< s.score
  <2>1. /\ Counts(task, best, flag) = {} => s.score = 0
        /\ \A p \in Counts(task, best, flag) : s.score = ScorePipeline(d, u, a, task, p)
    BY <1>2, TaskWorth
  <2>2. /\ Counts(task, best2, flag2) = {} => s2.score = 0
        /\ \A q \in Counts(task, best2, flag2) : s2.score = ScorePipeline(d, u, a, task, q)
    BY <1>2, TaskWorth
  <2> HIDE DEF s, s2
  <2>3. CASE \A q \in Counts(task, best2, flag2) : q.status # "success"
    <3>0. s2.score = 0
      BY <2>2, <2>3 DEF ScorePipeline
    <3>1. ASSUME NEW p \in Counts(task, best, flag)
          PROVE  s.score \in Int /\ s.score >= 0
      <4>1. p.at \in Times
        BY CountsTyped
      <4>2. /\ ScorePipeline(d, u, a, task, p) \in Int
            /\ ScorePipeline(d, u, a, task, p) >= 0
        BY <4>1, ScoreBounds
      <4> QED BY <2>1, <4>2
    <3> QED BY <2>1, <3>0, <3>1
  <2>4. ASSUME NEW q \in Counts(task, best2, flag2), q.status = "success"
        PROVE  s2.score =< s.score
    <3>1. PICK p \in Counts(task, best, flag) : p.status = "success" /\ p.at =< q.at
      BY <2>4, CountsKept
    <3>2. p.at \in Times /\ q.at \in Times
      BY CountsTyped
    <3>3. ScorePipeline(d, u, a, task, q) =< ScorePipeline(d, u, a, task, p)
      BY <3>1, <3>2, ScoreFalls
    <3> QED BY <2>1, <2>2, <3>3
  <2> QED BY <2>3, <2>4
<1> QED BY <1>1, <1>2

(* A task group that scores no less adds no less to the mark. *)
LEMMA MarkGrows ==
    ASSUME NEW d, SheetInOrder(d), NEW a, NEW x \in Int, NEW y \in Int,
           HasScoringGroup(d, a) => x =< y
    PROVE  /\ MarkOf(d, a, x) \in Int /\ MarkOf(d, a, y) \in Int
           /\ MarkOf(d, a, x) =< MarkOf(d, a, y)
<1>1. CASE ~(HasScoringGroup(d, a) /\ GetScoringGroup(d, a).maxScore > 0)
  BY <1>1 DEF MarkOf
<1>2. CASE HasScoringGroup(d, a) /\ GetScoringGroup(d, a).maxScore > 0
  <2>1. GetScoringGroup(d, a).weight \in Nat /\ GetScoringGroup(d, a).maxScore \in Nat
    BY <1>2 DEF SheetInOrder, HasScoringGroup, GetScoringGroup
  <2>2. PICK w \in Nat : w = GetScoringGroup(d, a).weight
    BY <2>1
  <2>3. PICK n \in Nat \ {0} : n = GetScoringGroup(d, a).maxScore
    BY <1>2, <2>1
  <2>4. Scale \in Nat
    BY ScoringAssumption
  <2>5. w * x \in Int /\ w * y \in Int /\ w * x =< w * y
    BY <1>2, Products
  <2>6. PICK p \in Int : p = w * x
    BY <2>5
  <2>7. PICK q \in Int : q = w * y
    BY <2>5
  <2>8. p * Scale \in Int /\ q * Scale \in Int /\ p * Scale =< q * Scale
    <3>1. Scale * p =< Scale * q
      BY <2>4, <2>5, <2>6, <2>7, Products
    <3>2. Scale * p = p * Scale /\ Scale * q = q * Scale
      BY <2>4
    <3> QED BY <2>4, <3>1, <3>2
  <2>9. PICK i \in Int : i = p * Scale
    BY <2>8
  <2>10. PICK j \in Int : j = q * Scale
    BY <2>8
  <2>11. i \div n \in Int /\ j \div n \in Int /\ i \div n =< j \div n
    BY <2>8, <2>9, <2>10, Quotients
  <2>12. MarkOf(d, a, x) = i \div n /\ MarkOf(d, a, y) = j \div n
    BY <1>2, <2>2, <2>3, <2>6, <2>7, <2>9, <2>10 DEF MarkOf
  <2> QED BY <2>11, <2>12
<1> QED BY <1>1, <1>2

(* The scores the home page shows, task by task and in sum. *)
LEMMA HomeScored ==
    ASSUME NEW d, SheetInOrder(d), NEW O, OverridesIn(O),
           NEW u \in Logins, NEW S, IsFiniteSet(S), S \subseteq PipelineRow,
           NEW T, IsFiniteSet(T), T \subseteq FlagRow,
           NEW i \in DOMAIN d.assignments
    PROVE  LET a == d.assignments[i]
               s == CalcUserScores(d, u, S, T, O)
           IN  /\ DOMAIN s.groups[i].tasks = 1..Len(a.tasks)
               /\ s.groups[i].score \in Int
               /\ \A j \in 1..Len(a.tasks) :
                    /\ TaskScore(s, i, j) \in Int
                    /\ TaskScore(s, i, j)
                         = ScoreTask(d, u, a, a.tasks[j],
                                     LoadUserPipelines(SetToSeq(RowsOf(S, u))),
                                     LoadUserFlags(SetToSeq(RowsOf(T, u))),
                                     ParseOverrides(RowsOf(O, u))).score
<1> DEFINE a == d.assignments[i]
           P == RowsOf(S, u)
           F == RowsOf(T, u)
           s == CalcUserScores(d, u, S, T, O)
           rows == SetToSeq(P)
           flagRows == SetToSeq(F)
           mine == RowsOf(O, u)
           best == LoadUserPipelines(rows)
           flag == LoadUserFlags(flagRows)
           over == ParseOverrides(mine)
           n == Len(a.tasks)
           scores == [j \in 1..n |-> TaskScore(s, i, j)]
<1>1. s = CalcUserScoresImpl(d, u, rows, flagRows, mine)
  BY DEF CalcUserScores
<1> HIDE DEF s, mine, flagRows, rows
<1>2. s.groups[i].tasks = [j \in 1..n |-> ScoreTask(d, u, a, a.tasks[j], best, flag, over)]
  BY <1>1, TasksOf
<1>3. s.groups[i].score = Total(scores)
  BY <1>1, GroupsOf
<1>4. Chosen(best, flag, P, F)
  BY HomeChosen DEF rows, flagRows
<1>5. n \in Nat /\ DOMAIN a.tasks = 1..n
  BY SheetRead
<1>6. ASSUME NEW j \in 1..n
      PROVE  /\ TaskScore(s, i, j) = ScoreTask(d, u, a, a.tasks[j], best, flag, over).score
             /\ TaskScore(s, i, j) \in Int
  <2> DEFINE task == a.tasks[j]
  <2>1. TaskGroupInOrder(a) /\ task.score \in Nat
    BY <1>5, SheetRead
  <2>2. OverridesIn(mine)
    BY OverridesFound DEF mine
  <2>3. <<u, task.task>> \in DOMAIN over => over[<<u, task.task>>].score \in Int
    BY <2>2, OverridesFound
  <2>4. TaskScore(s, i, j) = ScoreTask(d, u, a, task, best, flag, over).score
    BY <1>2 DEF TaskScore
  <2> HIDE DEF task, over, best, flag
  <2>5. ScoreTask(d, u, a, task, best, flag, over).score \in Int
    BY <1>4, <2>1, <2>3, TaskScored
  <2> QED BY <2>4, <2>5 DEF task
<1> HIDE DEF best, flag, over
<1>7. scores \in [1..n -> Int]
  BY <1>6
<1> HIDE DEF scores
<1>8. Total(scores) \in Int
  BY <1>5, <1>7, TotalType
<1>9. DOMAIN s.groups[i].tasks = 1..n
  BY <1>2
<1> QED BY <1>3, <1>6, <1>8, <1>9 DEF s, best, flag, over, rows, flagRows, mine

(* Whoever has submitted more has no less. *)
LEMMA MoreIsNoLess ==
    ASSUME NEW d, SheetInOrder(d), NEW O, OverridesIn(O),
           NEW u \in Logins, NEW S, IsFiniteSet(S), S \subseteq PipelineRow,
           NEW T, IsFiniteSet(T), T \subseteq FlagRow,
           NEW S2, IsFiniteSet(S2), S2 \subseteq PipelineRow, Solved(S2) \subseteq S,
           NEW T2 \in SUBSET T
    PROVE  LET with == CalcUserScores(d, u, S, T, O)
               without == CalcUserScores(d, u, S2, T2, O)
               priced == {i \in DOMAIN d.assignments :
                            GetScoringPolicy(d, d.assignments[i]) # NoPolicy}
               counted == {i \in DOMAIN d.assignments : HasScoringGroup(d, d.assignments[i])}
           IN  /\ counted \subseteq priced => without.finalMark =< with.finalMark
               /\ \A i \in priced : \A j \in DOMAIN with.groups[i].tasks :
                    TaskScore(without, i, j) =< TaskScore(with, i, j)
<1> DEFINE with == CalcUserScores(d, u, S, T, O)
           without == CalcUserScores(d, u, S2, T2, O)
           priced == {i \in DOMAIN d.assignments :
                        GetScoringPolicy(d, d.assignments[i]) # NoPolicy}
           counted == {i \in DOMAIN d.assignments : HasScoringGroup(d, d.assignments[i])}
           best == LoadUserPipelines(SetToSeq(RowsOf(S, u)))
           flag == LoadUserFlags(SetToSeq(RowsOf(T, u)))
           best2 == LoadUserPipelines(SetToSeq(RowsOf(S2, u)))
           flag2 == LoadUserFlags(SetToSeq(RowsOf(T2, u)))
           over == ParseOverrides(RowsOf(O, u))
<1>0. IsFiniteSet(S2) /\ S2 \subseteq PipelineRow /\ IsFiniteSet(T2) /\ T2 \subseteq FlagRow
  BY FS_Subset
<1>1. Chosen(best, flag, RowsOf(S, u), RowsOf(T, u))
  BY HomeChosen
<1>2. Chosen(best2, flag2, RowsOf(S2, u), RowsOf(T2, u))
  BY <1>0, HomeChosen
<1>3. Solved(RowsOf(S2, u)) \subseteq RowsOf(S, u) /\ RowsOf(T2, u) \subseteq RowsOf(T, u)
  BY DEF RowsOf, Solved
<1>4. ASSUME NEW i \in DOMAIN d.assignments
      PROVE  LET n == Len(d.assignments[i].tasks) IN
             /\ with.groups[i].score \in Int /\ without.groups[i].score \in Int
             /\ DOMAIN with.groups[i].tasks = 1..n
             /\ \A j \in 1..n : TaskScore(with, i, j) \in Int /\ TaskScore(without, i, j) \in Int
  BY <1>0, HomeScored
<1>5. ASSUME NEW i \in priced, NEW j \in 1..Len(d.assignments[i].tasks)
      PROVE  TaskScore(without, i, j) =< TaskScore(with, i, j)
  <2> DEFINE a == d.assignments[i]
             task == a.tasks[j]
  <2>1. /\ TaskGroupInOrder(a) /\ task.score \in Nat
        /\ task.task \in FlagTasks => task.crashme
        /\ GetScoringPolicy(d, a) # NoPolicy
    BY SheetRead
  <2>2. TaskScore(with, i, j) = ScoreTask(d, u, a, task, best, flag, over).score
    BY HomeScored
  <2>3. TaskScore(without, i, j) = ScoreTask(d, u, a, task, best2, flag2, over).score
    BY <1>0, HomeScored
  <2>4. <<u, task.task>> \in DOMAIN over => over[<<u, task.task>>].score \in Int
    <3>1. OverridesIn(RowsOf(O, u))
      BY OverridesFound
    <3> QED BY <3>1, OverridesFound
  <2> HIDE DEF a, task, best, flag, best2, flag2, over, with, without
  <2>5. ScoreTask(d, u, a, task, best2, flag2, over).score
          =< ScoreTask(d, u, a, task, best, flag, over).score
    BY <1>1, <1>2, <1>3, <2>1, <2>4, TaskGrows
  <2> QED BY <2>2, <2>3, <2>5
<1> HIDE DEF best, flag, best2, flag2, over
<1>6. ASSUME NEW i \in priced
      PROVE  without.groups[i].score =< with.groups[i].score
  <2> DEFINE n == Len(d.assignments[i].tasks)
             x == [j \in 1..n |-> TaskScore(without, i, j)]
             y == [j \in 1..n |-> TaskScore(with, i, j)]
  <2>1. n \in Nat
    BY SheetRead
  <2>2. without.groups[i].score = Total(x)
    BY GroupsOf DEF CalcUserScores
  <2>3. with.groups[i].score = Total(y)
    BY GroupsOf DEF CalcUserScores
  <2> HIDE DEF with, without
  <2>4. x \in [1..n -> Int] /\ y \in [1..n -> Int] /\ \A j \in 1..n : x[j] =< y[j]
    BY <1>4, <1>5
  <2> HIDE DEF x, y, n
  <2>5. Total(x) =< Total(y)
    BY <2>1, <2>4, TotalGrows
  <2> QED BY <2>2, <2>3, <2>5
<1>7. ASSUME counted \subseteq priced
      PROVE  without.finalMark =< with.finalMark
  <2> DEFINE n == Len(d.assignments)
             x == [i \in 1..n |-> MarkOf(d, d.assignments[i], without.groups[i].score)]
             y == [i \in 1..n |-> MarkOf(d, d.assignments[i], with.groups[i].score)]
  <2>1. n \in Nat /\ DOMAIN d.assignments = 1..n
    BY SheetRead
  <2>2. without.finalMark = Total(x)
    BY UserMark DEF CalcUserScores
  <2>3. with.finalMark = Total(y)
    BY UserMark DEF CalcUserScores
  <2> HIDE DEF with, without
  <2>4. ASSUME NEW i \in 1..n
        PROVE  x[i] \in Int /\ y[i] \in Int /\ x[i] =< y[i]
    <3>1. with.groups[i].score \in Int /\ without.groups[i].score \in Int
      BY <1>4, <2>1
    <3>2. HasScoringGroup(d, d.assignments[i]) =>
            without.groups[i].score =< with.groups[i].score
      BY <1>6, <1>7, <2>1
    <3> QED BY <3>1, <3>2, MarkGrows
  <2>5. x \in [1..n -> Int] /\ y \in [1..n -> Int] /\ \A i \in 1..n : x[i] =< y[i]
    BY <2>4
  <2> HIDE DEF x, y, n
  <2>6. Total(x) =< Total(y)
    BY <2>1, <2>5, TotalGrows
  <2> QED BY <2>2, <2>3, <2>6
<1>8. ASSUME NEW i \in priced, NEW j \in DOMAIN with.groups[i].tasks
      PROVE  TaskScore(without, i, j) =< TaskScore(with, i, j)
  BY <1>4, <1>5
<1> QED BY <1>7, <1>8

(* Submitting again never costs points: whatever is taken away from what a  *)
(* user has submitted, no task with a policy is worth more, and no mark is  *)
(* higher if all that counts for it has a policy - for every sheet in order *)
(* (scorer.go:63-113, 300-342, 371-404, scoring.go:41-70).                  *)
THEOREM SubmissionsNeverCost == Spec => []SubmittingNeverCosts
<1>1. ASSUME TInv
      PROVE  SubmittingNeverCosts
  <2> DEFINE S == Rows(pipelines)
             T == Rows(flags)
  <2>1. IsFiniteSet(S) /\ S \subseteq PipelineRow /\ IsFiniteSet(T) /\ T \subseteq FlagRow
    BY <1>1, TableRows
  <2>2. ASSUME NEW r
        PROVE  /\ IsFiniteSet(S \ {r}) /\ S \ {r} \subseteq PipelineRow
               /\ Solved(S \ {r}) \subseteq S /\ T \ {r} \in SUBSET T
    <3>1. S \ {r} \in SUBSET S
      OBVIOUS
    <3> QED BY <2>1, <3>1, FS_Subset DEF Solved
  <2> HIDE DEF S, T
  <2>3. ASSUME NEW u \in Logins, NEW r
        PROVE  LET d == Deadlines
                   with == CalcUserScores(d, u, S, T, Rows(overrides))
                   without == CalcUserScores(d, u, S \ {r}, T \ {r}, Rows(overrides))
                   priced == {i \in DOMAIN d.assignments :
                                GetScoringPolicy(d, d.assignments[i]) # NoPolicy}
                   counted == {i \in DOMAIN d.assignments : HasScoringGroup(d, d.assignments[i])}
               IN  /\ counted \subseteq priced => without.finalMark =< with.finalMark
                   /\ \A i \in priced : \A j \in DOMAIN with.groups[i].tasks :
                        TaskScore(without, i, j) =< TaskScore(with, i, j)
    BY <1>1, <2>1, <2>2, DeadlinesRead, OverridesListed, MoreIsNoLess
  <2> QED BY <2>3 DEF SubmittingNeverCosts, S, T
<1> QED BY <1>1, TablesInvariance, PTL
-----------------------------------------------------------------------------
(* The scoreboard *)

(* The loop that splits the rows by user. *)
Extended(prev, row, u) == IF row.login = u THEN Append(prev, row) ELSE prev
Splitting(mine, all, u, n) ==
    mine = [i \in 0..n |-> IF i = 0 THEN <<>> ELSE Extended(mine[i - 1], all[i], u)]

(* There is such a loop, for every number of rounds. *)
LEMMA SplittingRuns ==
    ASSUME NEW n \in Nat, NEW all, NEW u
    PROVE  \E mine : Splitting(mine, all, u, n)
<1> DEFINE Runs(k) == \E mine : Splitting(mine, all, u, k)
           S == {k \in 0..n : Runs(k)}
<1>1. Runs(0)
  <2> DEFINE b == [i \in 0..0 |-> <<>>]
  <2>1. Splitting(b, all, u, 0)
    BY DEF Splitting
  <2> QED BY <2>1
<1>2. ASSUME NEW k \in 1..n, Runs(k - 1)
      PROVE  Runs(k)
  <2>1. PICK b : Splitting(b, all, u, k - 1)
    BY <1>2
  <2> DEFINE c == [i \in 0..k |-> IF i = k THEN Extended(b[k - 1], all[k], u) ELSE b[i]]
  <2>2. ASSUME NEW i \in 0..k
        PROVE  c[i] = IF i = 0 THEN <<>> ELSE Extended(c[i - 1], all[i], u)
    BY <2>1 DEF Splitting
  <2>3. Splitting(c, all, u, k)
    BY <2>2 DEF Splitting
  <2> HIDE DEF c
  <2> QED BY <2>3
<1>3. 0 \in S /\ \A i \in 1..n : i - 1 \in S => i \in S
  BY <1>1, <1>2
<1> HIDE DEF S
<1>4. n \in S
  BY <1>3, AllRounds
<1> QED BY <1>4 DEF S

(* A list with one element more. *)
LEMMA Appended ==
    ASSUME NEW T, NEW s \in Seq(T), NEW x \in T
    PROVE  /\ Append(s, x) \in Seq(T)
           /\ \A y : (\E i \in DOMAIN Append(s, x) : Append(s, x)[i] = y)
                       <=> y = x \/ \E i \in DOMAIN s : s[i] = y
<1> DEFINE n == Len(s)
           t == Append(s, x)
<1>1. /\ t \in Seq(T) /\ Len(t) = n + 1 /\ t[n + 1] = x
      /\ \A i \in 1..n : t[i] = s[i]
  BY AppendProperties
<1>2. n \in Nat /\ DOMAIN s = 1..n /\ DOMAIN t = 1..(n + 1)
  BY <1>1, LenProperties
<1>3. \A i : i \in 1..(n + 1) <=> i \in 1..n \/ i = n + 1
  BY <1>2
<1> HIDE DEF t, n
<1>4. \A y : (\E i \in DOMAIN t : t[i] = y) <=> y = x \/ \E i \in DOMAIN s : s[i] = y
  BY <1>1, <1>2, <1>3
<1> QED BY <1>1, <1>4 DEF t

(* Splitting lists exactly the rows of the user. *)
LEMMA CachedListed ==
    ASSUME NEW R, IsFiniteSet(R), NEW u
    PROVE  LET mine == Cached(R, u) IN
           mine \in Seq(RowsOf(R, u)) /\ RowsOf(R, u) = {mine[i] : i \in DOMAIN mine}
<1> DEFINE all == SetToSeq(R)
           n == Len(all)
           T == RowsOf(R, u)
           loop == CHOOSE f : f = [i \in 0..n |->
                     IF i = 0 THEN <<>>
                     ELSE IF all[i].login = u THEN Append(f[i - 1], all[i]) ELSE f[i - 1]]
<1>1. all \in Seq(R) /\ R = {all[i] : i \in DOMAIN all}
  BY SomeOrder, OrdersComplete
<1>2. Cached(R, u) = loop[n]
  BY Zenon DEF Cached
<1> HIDE DEF all
<1>3. n \in Nat /\ DOMAIN all = 1..n
  BY <1>1
<1>4. \E f : Splitting(f, all, u, n)
  BY <1>3, SplittingRuns
<1>5. Splitting(loop, all, u, n)
  BY <1>4, Zenon DEF Splitting, Extended
<1> HIDE DEF loop
<1>6. loop[0] = <<>> /\ \A i \in 1..n : loop[i] = Extended(loop[i - 1], all[i], u)
  BY <1>3, <1>5 DEF Splitting
<1> DEFINE Has(s, y) == \E i \in DOMAIN s : s[i] = y
           Good(k) == /\ loop[k] \in Seq(T)
                      /\ \A y : Has(loop[k], y) <=> \E i \in 1..k : all[i] = y /\ y.login = u
           S == {k \in 0..n : Good(k)}
<1>7. Good(0)
  BY <1>6
<1>8. ASSUME NEW k \in 1..n, Good(k - 1)
      PROVE  Good(k)
  <2>0. all[k] \in R
    BY <1>1, <1>3
  <2>1. CASE all[k].login = u
    <3>1. all[k] \in T
      BY <2>0, <2>1 DEF RowsOf
    <3>2. loop[k] = Append(loop[k - 1], all[k])
      BY <1>6, <2>1 DEF Extended
    <3>3. loop[k - 1] \in Seq(T)
      BY <1>8
    <3> HIDE DEF T
    <3>4. loop[k] \in Seq(T) /\ \A y : Has(loop[k], y) <=> y = all[k] \/ Has(loop[k - 1], y)
      <4>1. PICK s \in Seq(T), x \in T : s = loop[k - 1] /\ x = all[k]
        BY <3>1, <3>3
      <4>2. Append(s, x) \in Seq(T) /\ \A y : Has(Append(s, x), y) <=> y = x \/ Has(s, y)
        BY Appended
      <4> HIDE DEF Has
      <4> QED BY <3>2, <4>1, <4>2
    <3>5. \A y : Has(loop[k - 1], y) <=> \E i \in 1..(k - 1) : all[i] = y /\ y.login = u
      BY <1>8
    <3> HIDE DEF Has
    <3>6. ASSUME NEW y
          PROVE  Has(loop[k], y) <=> \E i \in 1..k : all[i] = y /\ y.login = u
      <4>1. \A i : i \in 1..k <=> i \in 1..(k - 1) \/ i = k
        OBVIOUS
      <4>2. (\E i \in 1..k : all[i] = y /\ y.login = u)
              <=> (y = all[k] /\ y.login = u) \/ \E i \in 1..(k - 1) : all[i] = y /\ y.login = u
        BY <4>1
      <4>3. (\E i \in 1..k : all[i] = y /\ y.login = u) <=> y = all[k] \/ Has(loop[k - 1], y)
        BY <2>1, <3>5, <4>2
      <4> QED BY <3>4, <4>3
    <3> QED BY <3>4, <3>6
  <2>2. CASE all[k].login # u
    <3>1. loop[k] = loop[k - 1]
      BY <1>6, <2>2 DEF Extended
    <3>2. \A i : i \in 1..k <=> i \in 1..(k - 1) \/ i = k
      OBVIOUS
    <3>3. /\ loop[k - 1] \in Seq(T)
          /\ \A y : Has(loop[k - 1], y) <=> \E i \in 1..(k - 1) : all[i] = y /\ y.login = u
      BY <1>8
    <3> HIDE DEF Has, T
    <3> QED BY <2>2, <3>1, <3>2, <3>3
  <2> QED BY <2>1, <2>2
<1> HIDE DEF Good
<1>9. 0 \in S /\ \A k \in 1..n : k - 1 \in S => k \in S
  BY <1>3, <1>7, <1>8
<1> HIDE DEF S, n
<1>10. \A i \in 0..n : i \in S
  BY <1>3, <1>9, AllRounds
<1>11. Good(n)
  BY <1>3, <1>10 DEF S
<1>12. /\ loop[n] \in Seq(T)
       /\ \A y : Has(loop[n], y) <=> \E i \in 1..n : all[i] = y /\ y.login = u
  BY <1>11 DEF Good
<1>13. \A y : y \in T <=> \E i \in 1..n : all[i] = y /\ y.login = u
  BY <1>1, <1>3 DEF RowsOf
<1> HIDE DEF T
<1>14. T = {loop[n][i] : i \in DOMAIN loop[n]}
  BY <1>12, <1>13
<1> QED BY <1>2, <1>12, <1>14 DEF T

(* A finite set in a strict total order can be listed in that order: each   *)
(* element at the place that the number of those ahead of it gives.         *)
LEMMA SomeSortedOrder ==
    ASSUME NEW X, IsFiniteSet(X), \A x \in X : ~Ahead(x, x),
           \A x, y, z \in X : Ahead(x, y) /\ Ahead(y, z) => Ahead(x, z),
           \A x, y \in X : x # y => Ahead(x, y) \/ Ahead(y, x)
    PROVE  \E s \in SetToSeqs(X) : \A i, j \in DOMAIN s : i < j => Ahead(s[i], s[j])
<1> DEFINE n == Cardinality(X)
           Before(x) == {y \in X : Ahead(y, x)}
           place == [x \in X |-> Cardinality(Before(x)) + 1]
<1>1. n \in Nat /\ IsFiniteSet(1..n) /\ Cardinality(1..n) = n
  BY FS_CardinalityType, FS_Interval
<1>2. ASSUME NEW x \in X
      PROVE  /\ IsFiniteSet(Before(x)) /\ Cardinality(Before(x)) \in Nat
             /\ Cardinality(Before(x)) < n
  <2>1. Before(x) \in SUBSET X /\ Before(x) # X
    OBVIOUS
  <2> HIDE DEF Before
  <2>2. IsFiniteSet(Before(x)) /\ Cardinality(Before(x)) =< n /\ Cardinality(Before(x)) # n
    BY <2>1, FS_Subset
  <2> QED BY <1>1, <2>2, FS_CardinalityType
<1>3. ASSUME NEW x \in X, NEW y \in X, Ahead(x, y)
      PROVE  place[x] < place[y]
  <2>1. Before(x) \in SUBSET Before(y) /\ Before(x) # Before(y)
    BY <1>3
  <2>2. IsFiniteSet(Before(x)) /\ IsFiniteSet(Before(y))
        /\ Cardinality(Before(x)) \in Nat /\ Cardinality(Before(y)) \in Nat
    BY <1>2
  <2> HIDE DEF Before
  <2>3. Cardinality(Before(x)) =< Cardinality(Before(y))
        /\ Cardinality(Before(x)) # Cardinality(Before(y))
    BY <2>1, <2>2, FS_Subset
  <2> QED BY <2>2, <2>3
<1>4. place \in [X -> 1..n]
  <2> HIDE DEF Before
  <2> QED BY <1>1, <1>2
<1> HIDE DEF place, Before
<1>5. \A x, y \in X : place[x] = place[y] => x = y
  BY <1>3, <1>4
<1>6. place \in Injection(X, 1..n)
  BY <1>4, <1>5 DEF Injection, IsInjective
<1>7. place \in Surjection(X, 1..n)
  BY <1>1, <1>6, FS_Injection
<1>8. \A i \in 1..n : \E x \in X : place[x] = i
  BY <1>7 DEF Surjection
<1> DEFINE s == [i \in 1..n |-> CHOOSE x \in X : place[x] = i]
<1>9. \A i \in 1..n : s[i] \in X /\ place[s[i]] = i
  BY <1>8
<1>10. s \in [1..n -> X] /\ DOMAIN s = 1..n
  BY <1>9
<1> HIDE DEF s
<1>11. s \in SetToSeqs(X)
  <2>1. \A i, j \in 1..n : i # j => s[i] # s[j]
    BY <1>9
  <2> QED BY <1>10, <2>1 DEF SetToSeqs
<1>12. ASSUME NEW i \in DOMAIN s, NEW j \in DOMAIN s, i < j
       PROVE  Ahead(s[i], s[j])
  <2>1. s[i] \in X /\ s[j] \in X /\ place[s[i]] = i /\ place[s[j]] = j /\ i \in Nat /\ j \in Nat
    BY <1>1, <1>9, <1>10
  <2>2. s[i] # s[j]
    BY <1>12, <2>1
  <2>3. ~Ahead(s[j], s[i])
    <3>1. Ahead(s[j], s[i]) => j < i
      BY <1>3, <2>1
    <3> QED BY <1>12, <2>1, <3>1
  <2> QED BY <2>1, <2>2, <2>3
<1> QED BY <1>11, <1>12

(* Two lists of the same submissions, in whatever order, make the same      *)
(* scores.                                                                  *)
LEMMA SameChoice ==
    ASSUME NEW d, SheetInOrder(d), NEW u \in Logins, NEW a, TaskGroupInOrder(a),
           NEW task, task.score \in Nat,
           task.task \in FlagTasks => task.crashme, NEW P, NEW F,
           NEW best, NEW flag, Chosen(best, flag, P, F),
           NEW best2, NEW flag2, Chosen(best2, flag2, P, F),
           NEW over, NEW over2, LET k == <<u, task.task>> IN
             (k \in DOMAIN over <=> k \in DOMAIN over2) /\ (k \in DOMAIN over => over[k] = over2[k])
    PROVE  ScoreTask(d, u, a, task, best, flag, over)
             = ScoreTask(d, u, a, task, best2, flag2, over2)
<1> DEFINE C == Counts(task, best, flag)
           C2 == Counts(task, best2, flag2)
<1>1. CASE <<u, task.task>> \in DOMAIN over
  BY <1>1 DEF ScoreTask
<1>2. ASSUME <<u, task.task>> \notin DOMAIN over
      PROVE  ScoreTask(d, u, a, task, best, flag, over)
               = ScoreTask(d, u, a, task, best2, flag2, over2)
  <2>1. /\ C = {} => ScoreTask(d, u, a, task, best, flag, over)
                       = [status |-> "assigned", score |-> 0]
        /\ \A p \in C : ScoreTask(d, u, a, task, best, flag, over)
                          = [status |-> ClassifyPipelineStatus(p.status),
                             score |-> ScorePipeline(d, u, a, task, p)]
    BY <1>2, TaskWorth
  <2>2. /\ C2 = {} => ScoreTask(d, u, a, task, best2, flag2, over2)
                        = [status |-> "assigned", score |-> 0]
        /\ \A p \in C2 : ScoreTask(d, u, a, task, best2, flag2, over2)
                           = [status |-> ClassifyPipelineStatus(p.status),
                              score |-> ScorePipeline(d, u, a, task, p)]
    BY <1>2, TaskWorth
  <2>3. P \subseteq P /\ F \subseteq F
    OBVIOUS
  <2>4. \A q \in C2 : \E p \in C : /\ Rank(q.status) =< Rank(p.status)
                                   /\ Rank(p.status) = Rank(q.status) => p.at =< q.at
    BY <2>3, CountsImprove
  <2>5. \A p \in C : \E q \in C2 : /\ Rank(p.status) =< Rank(q.status)
                                   /\ Rank(q.status) = Rank(p.status) => q.at =< p.at
    BY <2>3, CountsImprove
  <2>6. \A p, q \in C2 : p = q
    BY DEF Counts
  <2>7. CASE C = {}
    BY <2>1, <2>2, <2>4, <2>7
  <2>8. ASSUME NEW p \in C
        PROVE  ScoreTask(d, u, a, task, best, flag, over)
                 = ScoreTask(d, u, a, task, best2, flag2, over2)
    <3>1. PICK q \in C2 : /\ Rank(p.status) =< Rank(q.status)
                          /\ Rank(q.status) = Rank(p.status) => q.at =< p.at
      BY <2>5
    <3>2. \A r, t \in C : r = t
      BY DEF Counts
    <3>3. /\ Rank(q.status) =< Rank(p.status)
          /\ Rank(p.status) = Rank(q.status) => p.at =< q.at
      BY <2>4, <3>2
    <3>4. p.at \in Nat /\ q.at \in Nat
      BY CountsTyped, ScoringAssumption
    <3>5. /\ Rank(p.status) \in 1..5 /\ Rank(q.status) \in 1..5
          /\ TaskStatuses[Rank(p.status)] = ClassifyPipelineStatus(p.status)
          /\ TaskStatuses[Rank(q.status)] = ClassifyPipelineStatus(q.status)
          /\ Rank(p.status) = 5 <=> p.status = "success"
          /\ Rank(q.status) = 5 <=> q.status = "success"
      BY Ranks
    <3>6. Rank(p.status) = Rank(q.status) /\ p.at = q.at
      BY <3>1, <3>3, <3>4, <3>5
    <3>7. /\ ClassifyPipelineStatus(p.status) = ClassifyPipelineStatus(q.status)
          /\ p.status = "success" <=> q.status = "success"
      BY <3>5, <3>6
    <3>8. ScorePipeline(d, u, a, task, p) = ScorePipeline(d, u, a, task, q)
      BY <3>6, <3>7 DEF ScorePipeline
    <3>9. ScoreTask(d, u, a, task, best, flag, over)
            = [status |-> ClassifyPipelineStatus(p.status),
               score |-> ScorePipeline(d, u, a, task, p)]
      BY <2>1
    <3>10. ScoreTask(d, u, a, task, best2, flag2, over2)
             = [status |-> ClassifyPipelineStatus(q.status),
                score |-> ScorePipeline(d, u, a, task, q)]
      BY <2>2
    <3> QED BY <3>7, <3>8, <3>9, <3>10
  <2> QED BY <2>7, <2>8
<1> QED BY <1>1, <1>2

(* The scores of a user follow from the scores of the tasks. *)
LEMMA SameScores ==
    ASSUME NEW d, SheetInOrder(d), NEW u, NEW rows, NEW flagRows, NEW overrideRows,
           NEW rows2, NEW flagRows2, NEW overrideRows2,
           \A i \in DOMAIN d.assignments :
             LET a == d.assignments[i] IN
             \A j \in DOMAIN a.tasks :
               ScoreTask(d, u, a, a.tasks[j], LoadUserPipelines(rows),
                         LoadUserFlags(flagRows), ParseOverrides(overrideRows))
               = ScoreTask(d, u, a, a.tasks[j], LoadUserPipelines(rows2),
                           LoadUserFlags(flagRows2), ParseOverrides(overrideRows2))
    PROVE  CalcUserScoresImpl(d, u, rows, flagRows, overrideRows)
             = CalcUserScoresImpl(d, u, rows2, flagRows2, overrideRows2)
<1> DEFINE best == LoadUserPipelines(rows)
           flag == LoadUserFlags(flagRows)
           over == ParseOverrides(overrideRows)
           best2 == LoadUserPipelines(rows2)
           flag2 == LoadUserFlags(flagRows2)
           over2 == ParseOverrides(overrideRows2)
           G == [i \in DOMAIN d.assignments |-> ScoreGroup(d, u, d.assignments[i], best, flag, over)]
           G2 == [i \in DOMAIN d.assignments |->
                    ScoreGroup(d, u, d.assignments[i], best2, flag2, over2)]
           Scores(groups) ==
             [login |-> u, groups |-> groups,
              score |-> Total([i \in DOMAIN groups |-> groups[i].score]),
              maxScore |-> Total([i \in DOMAIN groups |-> groups[i].maxScore]),
              finalMark |-> Total([i \in DOMAIN groups |->
                                     MarkOf(d, d.assignments[i], groups[i].score)])]
<1>1. CalcUserScoresImpl(d, u, rows, flagRows, overrideRows) = Scores(Listed(G))
  BY DEF CalcUserScoresImpl
<1>2. CalcUserScoresImpl(d, u, rows2, flagRows2, overrideRows2) = Scores(Listed(G2))
  BY DEF CalcUserScoresImpl
<1> HIDE DEF best, flag, over, best2, flag2, over2
<1>3. ASSUME NEW i \in DOMAIN d.assignments
      PROVE  ScoreGroup(d, u, d.assignments[i], best, flag, over)
               = ScoreGroup(d, u, d.assignments[i], best2, flag2, over2)
  <2> DEFINE a == d.assignments[i]
             t == [j \in DOMAIN a.tasks |-> ScoreTask(d, u, a, a.tasks[j], best, flag, over)]
             t2 == [j \in DOMAIN a.tasks |-> ScoreTask(d, u, a, a.tasks[j], best2, flag2, over2)]
             Group(tasks) == [title |-> a.title, tasks |-> tasks, maxScore |-> MaxScoreOf(a),
                              score |-> Total([j \in DOMAIN tasks |-> tasks[j].score])]
  <2>1. ScoreGroup(d, u, a, best, flag, over) = Group(Listed(t))
    BY DEF ScoreGroup
  <2>2. ScoreGroup(d, u, a, best2, flag2, over2) = Group(Listed(t2))
    BY DEF ScoreGroup
  <2>3. t = t2
    BY DEF best, flag, over, best2, flag2, over2
  <2> HIDE DEF t, t2, Group
  <2> QED BY <2>1, <2>2, <2>3
<1>4. G = G2
  BY <1>3
<1> HIDE DEF G, G2, Scores
<1> QED BY <1>1, <1>2, <1>4

(* Everything listed and split, or the user's rows alone: the same scores. *)
LEMMA BoardAndHome ==
    ASSUME NEW d, SheetInOrder(d), NEW O, OverridesIn(O),
           NEW u \in Logins, NEW S, IsFiniteSet(S), S \subseteq PipelineRow,
           NEW T, IsFiniteSet(T), T \subseteq FlagRow
    PROVE  CalcUserScoresImpl(d, u, Cached(S, u), Cached(T, u), O)
             = CalcUserScores(d, u, S, T, O)
<1> DEFINE P == RowsOf(S, u)
           F == RowsOf(T, u)
           best == LoadUserPipelines(Cached(S, u))
           flag == LoadUserFlags(Cached(T, u))
           over == ParseOverrides(O)
           best2 == LoadUserPipelines(SetToSeq(P))
           flag2 == LoadUserFlags(SetToSeq(F))
           over2 == ParseOverrides(RowsOf(O, u))
<1>1. Chosen(best, flag, P, F)
  <2>1. Cached(S, u) \in Seq(P) /\ P = {Cached(S, u)[i] : i \in DOMAIN Cached(S, u)}
    BY CachedListed
  <2>2. Cached(T, u) \in Seq(F) /\ F = {Cached(T, u)[i] : i \in DOMAIN Cached(T, u)}
    BY CachedListed
  <2>3. P \subseteq PipelineRow /\ F \subseteq FlagRow
    BY DEF RowsOf
  <2> HIDE DEF P, F
  <2> QED BY <2>1, <2>2, <2>3, ListedChosen
<1>2. Chosen(best2, flag2, P, F)
  BY HomeChosen
<1>3. ASSUME NEW i \in DOMAIN d.assignments, NEW j \in DOMAIN d.assignments[i].tasks
      PROVE  ScoreTask(d, u, d.assignments[i], d.assignments[i].tasks[j], best, flag, over)
               = ScoreTask(d, u, d.assignments[i], d.assignments[i].tasks[j], best2, flag2, over2)
  <2> DEFINE a == d.assignments[i]
             task == a.tasks[j]
             k == <<u, task.task>>
  <2>1. /\ TaskGroupInOrder(a) /\ task.score \in Nat
        /\ task.task \in FlagTasks => task.crashme
    BY SheetRead
  <2>5. (k \in DOMAIN over <=> k \in DOMAIN over2) /\ (k \in DOMAIN over => over[k] = over2[k])
    BY OverridesFound
  <2> HIDE DEF a, task, best, flag, best2, flag2, over, over2, P, F
  <2>6. ScoreTask(d, u, a, task, best, flag, over) = ScoreTask(d, u, a, task, best2, flag2, over2)
    BY <1>1, <1>2, <2>1, <2>5, SameChoice
  <2> QED BY <2>6 DEF a, task
<1>4. CalcUserScoresImpl(d, u, Cached(S, u), Cached(T, u), O)
        = CalcUserScoresImpl(d, u, SetToSeq(P), SetToSeq(F), RowsOf(O, u))
  BY <1>3, SameScores
<1> QED BY <1>4 DEF CalcUserScores

(* A mark is a number, and the scores are the user's. *)
LEMMA HomeMark ==
    ASSUME NEW d, SheetInOrder(d), NEW O, OverridesIn(O),
           NEW u \in Logins, NEW S, IsFiniteSet(S), S \subseteq PipelineRow,
           NEW T, IsFiniteSet(T), T \subseteq FlagRow
    PROVE  LET s == CalcUserScores(d, u, S, T, O) IN
           s.login = u /\ s.finalMark \in Int
<1> DEFINE s == CalcUserScores(d, u, S, T, O)
           n == Len(d.assignments)
           x == [i \in 1..n |-> MarkOf(d, d.assignments[i], s.groups[i].score)]
<1>1. s.login = u
  BY DEF CalcUserScores, CalcUserScoresImpl
<1>2. n \in Nat /\ DOMAIN d.assignments = 1..n
  BY SheetRead
<1>3. s.finalMark = Total(x)
  BY UserMark DEF CalcUserScores
<1>4. \A i \in 1..n : s.groups[i].score \in Int
  BY <1>2, HomeScored
<1> HIDE DEF s
<1>5. \A i \in 1..n : MarkOf(d, d.assignments[i], s.groups[i].score) \in Int
  <2>1. \A i \in 1..n : s.groups[i].score =< s.groups[i].score
    BY <1>4
  <2> QED BY <1>4, <2>1, MarkGrows
<1>6. x \in [1..n -> Int]
  BY <1>5
<1> HIDE DEF x, n
<1>7. Total(x) \in Int
  BY <1>2, <1>6, TotalType
<1> QED BY <1>1, <1>3, <1>7 DEF s

(* The scores of some users. *)
ScoresOf(d, us, S, T, O) == {CalcUserScores(d, u, S, T, O) : u \in us}

(* The board lists every user once, in order. *)
LEMMA BoardListed ==
    ASSUME NEW d, SheetInOrder(d), NEW O, OverridesIn(O),
           NEW us \in SUBSET Logins, NEW S, IsFiniteSet(S), S \subseteq PipelineRow,
           NEW T, IsFiniteSet(T), T \subseteq FlagRow
    PROVE  LET board == CalcScoreboard(d, us, S, T, O)
               X == ScoresOf(d, us, S, T, O)
           IN  /\ IsFiniteSet(X) /\ board \in SetToSeqs(X)
               /\ \A i, j \in DOMAIN board : i < j => Ahead(board[i], board[j])
<1> DEFINE f == [u \in us |-> CalcUserScores(d, u, S, T, O)]
           X == {CalcUserScores(d, u, S, T, O) : u \in us}
           Y == {CalcUserScoresImpl(d, u, Cached(S, u), Cached(T, u), O) : u \in us}
           board == CalcScoreboard(d, us, S, T, O)
<1>1. \A u \in us : CalcUserScoresImpl(d, u, Cached(S, u), Cached(T, u), O)
                      = CalcUserScores(d, u, S, T, O)
  BY BoardAndHome
<1>2. Y = X
  BY <1>1
<1>3. board = CHOOSE s \in SetToSeqs(Y) : \A i, j \in DOMAIN s : i < j => Ahead(s[i], s[j])
  BY DEF CalcScoreboard
<1>4. IsFiniteSet(X)
  <2>1. IsFiniteSet(us)
    BY ScoringAssumption, FS_Subset
  <2>2. f \in Surjection(us, X)
    BY DEF Surjection
  <2> HIDE DEF f, X
  <2> QED BY <2>1, <2>2, FS_Surjection
<1>5. \A u \in us : CalcUserScores(d, u, S, T, O).login = u
                    /\ CalcUserScores(d, u, S, T, O).finalMark \in Int
  BY HomeMark
<1>6. \A x \in X : x.finalMark \in Int /\ x.login \in Nat
  BY <1>5, ScoringAssumption
<1>7. \A x, y \in X : x # y => x.login # y.login
  BY <1>5
<1> HIDE DEF X, Y, board
<1>8. /\ \A x \in X : ~Ahead(x, x)
      /\ \A x, y, z \in X : Ahead(x, y) /\ Ahead(y, z) => Ahead(x, z)
      /\ \A x, y \in X : x # y => Ahead(x, y) \/ Ahead(y, x)
  BY <1>6, <1>7 DEF Ahead
<1>9. \E s \in SetToSeqs(X) : \A i, j \in DOMAIN s : i < j => Ahead(s[i], s[j])
  BY <1>4, <1>8, SomeSortedOrder
<1>10. /\ board \in SetToSeqs(X)
       /\ \A i, j \in DOMAIN board : i < j => Ahead(board[i], board[j])
  BY <1>2, <1>3, <1>9, Zenon
<1> QED BY <1>4, <1>10 DEF X, board, ScoresOf

(* The home page and the scoreboard give a user the same scores, though one *)
(* reads the user's rows and the other splits the whole tables, and both    *)
(* get them in any order - for every sheet in order (scorer.go:115-237).    *)
THEOREM HomeAndBoardAgree == Spec => []HomeAgrees
<1>1. ASSUME TInv
      PROVE  HomeAgrees
  <2> DEFINE S == Rows(pipelines)
             T == Rows(flags)
             O == Rows(overrides)
             board == CalcScoreboard(Deadlines, Logins, S, T, O)
             X == {CalcUserScores(Deadlines, u, S, T, O) : u \in Logins}
  <2>1. IsFiniteSet(S) /\ S \subseteq PipelineRow /\ IsFiniteSet(T) /\ T \subseteq FlagRow
    BY <1>1, TableRows
  <2>2. IsFiniteSet(X) /\ board \in SetToSeqs(X)
    <3>1. OverridesIn(O) /\ SheetInOrder(Deadlines) /\ Logins \in SUBSET Logins
      BY <1>1, OverridesListed, DeadlinesRead
    <3> HIDE DEF S, T, O
    <3> QED BY <2>1, <3>1, BoardListed DEF ScoresOf
  <2>3. X = {board[i] : i \in DOMAIN board}
    BY <2>2, OrdersComplete
  <2>4. \A u \in Logins : CalcUserScores(Deadlines, u, S, T, O).login = u
    BY <1>1, <2>1, DeadlinesRead, OverridesListed, HomeMark
  <2> HIDE DEF S, T, O, board
  <2>5. ASSUME NEW i \in DOMAIN board
        PROVE  board[i] = CalcUserScores(Deadlines, board[i].login, S, T, O)
    <3>1. PICK u \in Logins : board[i] = CalcUserScores(Deadlines, u, S, T, O)
      BY <2>3
    <3> QED BY <2>4, <3>1
  <2> QED BY <2>5 DEF HomeAgrees, board, S, T, O
<1> QED BY <1>1, TablesInvariance, PTL
-----------------------------------------------------------------------------
(* Marks *)

(* The partial sums of a list. *)
Sums(s) == CHOOSE sum : Adding(sum, s, Len(s))

(* They start with nothing, grow by one part after the other, and end with  *)
(* the total.                                                               *)
LEMMA PartialSums ==
    ASSUME NEW n \in Nat, NEW s \in [1..n -> Int]
    PROVE  /\ Sums(s)[0] = 0 /\ Sums(s)[n] = Total(s)
           /\ \A i \in 1..n : Sums(s)[i] = Sums(s)[i - 1] + s[i]
           /\ \A i \in 0..n : Sums(s)[i] \in Int
<1>0. Len(s) = n
  OBVIOUS
<1>1. Adding(Sums(s), s, Len(s))
  <2>1. \E sum : Adding(sum, s, Len(s))
    BY <1>0, AddingRuns
  <2> QED BY <2>1, Zenon DEF Sums
<1>2. Total(s) = Sums(s)[Len(s)]
  BY Zenon DEF Total, Sums, Adding
<1>3. Sums(s)[0] = 0 /\ \A i \in 1..n : Sums(s)[i] = Sums(s)[i - 1] + s[i]
  BY <1>0, <1>1 DEF Adding
<1> DEFINE S == {k \in 0..n : Sums(s)[k] \in Int}
<1>4. 0 \in S
  BY <1>3
<1>5. ASSUME NEW i \in 1..n, i - 1 \in S
      PROVE  i \in S
  <2>1. Sums(s)[i - 1] \in Int /\ s[i] \in Int
    BY <1>5
  <2>2. Sums(s)[i] \in Int
    BY <1>3, <2>1
  <2> QED BY <2>2
<1> HIDE DEF S
<1>6. \A i \in 0..n : i \in S
  BY <1>4, <1>5, AllRounds
<1> QED BY <1>0, <1>2, <1>3, <1>6 DEF S

(* Lists added place by place add up to both totals. *)
LEMMA TotalPlus ==
    ASSUME NEW n \in Nat, NEW s \in [1..n -> Int], NEW t \in [1..n -> Int],
           NEW u \in [1..n -> Int], \A i \in 1..n : u[i] = s[i] + t[i]
    PROVE  Total(u) = Total(s) + Total(t)
<1> DEFINE x == Sums(s)
           y == Sums(t)
           z == Sums(u)
           S == {k \in 0..n : z[k] = x[k] + y[k]}
<1>1. x[0] = 0 /\ x[n] = Total(s) /\ \A i \in 1..n : x[i] = x[i - 1] + s[i]
  BY PartialSums
<1>2. y[0] = 0 /\ y[n] = Total(t) /\ \A i \in 1..n : y[i] = y[i - 1] + t[i]
  BY PartialSums
<1>3. z[0] = 0 /\ z[n] = Total(u) /\ \A i \in 1..n : z[i] = z[i - 1] + u[i]
  BY PartialSums
<1>4. \A i \in 0..n : x[i] \in Int /\ y[i] \in Int
  BY PartialSums
<1> HIDE DEF x, y, z
<1>5. 0 \in S
  BY <1>1, <1>2, <1>3
<1>6. ASSUME NEW i \in 1..n, i - 1 \in S
      PROVE  i \in S
  <2>1. i - 1 \in 0..n /\ i \in 0..n
    OBVIOUS
  <2>2. z[i - 1] = x[i - 1] + y[i - 1] /\ x[i - 1] \in Int /\ y[i - 1] \in Int
    BY <1>4, <1>6, <2>1
  <2>3. s[i] \in Int /\ t[i] \in Int /\ u[i] = s[i] + t[i]
    OBVIOUS
  <2>4. z[i] = x[i] + y[i]
    BY <1>1, <1>2, <1>3, <2>2, <2>3
  <2> QED BY <2>1, <2>4
<1> HIDE DEF S
<1>7. \A i \in 0..n : i \in S
  BY <1>5, <1>6, AllRounds
<1>8. z[n] = x[n] + y[n]
  BY <1>7 DEF S
<1> QED BY <1>1, <1>2, <1>3, <1>8

(* Nothing adds up to nothing. *)
LEMMA TotalZero ==
    ASSUME NEW n \in Nat, NEW s \in [1..n -> Int], \A i \in 1..n : s[i] = 0
    PROVE  Total(s) = 0
<1>1. \A i \in 1..n : s[i] = s[i] + s[i]
  OBVIOUS
<1>2. Total(s) = Total(s) + Total(s)
  BY <1>1, TotalPlus
<1>3. Total(s) \in Int
  BY TotalType
<1> QED BY <1>2, <1>3

(* No part is more than the whole. *)
LEMMA TotalCovers ==
    ASSUME NEW n \in Nat, NEW s \in [1..n -> Nat], NEW k \in 1..n
    PROVE  s[k] =< Total(s)
<1> DEFINE x == Sums(s)
           S == {i \in 0..n : x[i] >= 0 /\ (i >= k => x[i] >= s[k])}
<1>0. s \in [1..n -> Int]
  OBVIOUS
<1>1. x[0] = 0 /\ x[n] = Total(s) /\ \A i \in 1..n : x[i] = x[i - 1] + s[i]
  BY <1>0, PartialSums
<1>2. \A i \in 0..n : x[i] \in Int
  BY <1>0, PartialSums
<1> HIDE DEF x
<1>3. 0 \in S
  BY <1>1
<1>4. ASSUME NEW i \in 1..n, i - 1 \in S
      PROVE  i \in S
  <2>1. i - 1 \in 0..n /\ i \in 0..n /\ x[i - 1] \in Int
    BY <1>2
  <2>2. x[i - 1] >= 0 /\ (i - 1 >= k => x[i - 1] >= s[k])
    BY <1>4
  <2>3. s[i] \in Nat /\ s[k] \in Nat /\ x[i] = x[i - 1] + s[i]
    BY <1>1
  <2>4. x[i] >= 0
    BY <2>1, <2>2, <2>3
  <2>5. CASE i = k
    BY <2>1, <2>2, <2>3, <2>4, <2>5
  <2>6. CASE i # k
    <3>1. i >= k => i - 1 >= k
      BY <2>6
    <3>2. i >= k => x[i] >= s[k]
      BY <2>1, <2>2, <2>3, <3>1
    <3> QED BY <2>1, <2>4, <3>2
  <2> QED BY <2>5, <2>6
<1> HIDE DEF S
<1>5. \A i \in 0..n : i \in S
  BY <1>3, <1>4, AllRounds
<1>6. n >= k => x[n] >= s[k]
  BY <1>5 DEF S
<1> QED BY <1>1, <1>2, <1>6

(* What holds for the parts, scaled, holds for the totals. *)
LEMMA TotalScaled ==
    ASSUME NEW n \in Nat, NEW s \in [1..n -> Int], NEW q \in [1..n -> Int],
           NEW a \in Nat, NEW c \in Nat, \A i \in 1..n : a * s[i] =< c * q[i]
    PROVE  a * Total(s) =< c * Total(q)
<1> DEFINE x == Sums(s)
           y == Sums(q)
           S == {k \in 0..n : a * x[k] =< c * y[k]}
<1>1. x[0] = 0 /\ x[n] = Total(s) /\ \A i \in 1..n : x[i] = x[i - 1] + s[i]
  BY PartialSums
<1>2. y[0] = 0 /\ y[n] = Total(q) /\ \A i \in 1..n : y[i] = y[i - 1] + q[i]
  BY PartialSums
<1>3. \A i \in 0..n : x[i] \in Int /\ y[i] \in Int
  BY PartialSums
<1> HIDE DEF x, y
<1>4. 0 \in S
  BY <1>1, <1>2
<1>5. ASSUME NEW i \in 1..n, i - 1 \in S
      PROVE  i \in S
  <2>1. i - 1 \in 0..n /\ i \in 0..n
    OBVIOUS
  <2>2. PICK e \in Int : e = x[i - 1]
    BY <1>3, <2>1
  <2>3. PICK f \in Int : f = y[i - 1]
    BY <1>3, <2>1
  <2>4. PICK g \in Int : g = s[i]
    OBVIOUS
  <2>5. PICK h \in Int : h = q[i]
    OBVIOUS
  <2>6. a * e =< c * f /\ a * g =< c * h
    BY <1>5, <2>2, <2>3, <2>4, <2>5
  <2>7. a * (e + g) = a * e + a * g /\ c * (f + h) = c * f + c * h
    OBVIOUS
  <2>8. a * (e + g) =< c * (f + h)
    BY <2>6, <2>7
  <2>9. x[i] = e + g /\ y[i] = f + h
    BY <1>1, <1>2, <2>2, <2>3, <2>4, <2>5
  <2> QED BY <2>1, <2>8, <2>9
<1> HIDE DEF S
<1>6. \A i \in 0..n : i \in S
  BY <1>4, <1>5, AllRounds
<1>7. a * x[n] =< c * y[n]
  BY <1>6 DEF S
<1> QED BY <1>1, <1>2, <1>7

(* A table of n rows and k columns, and what each of them adds up to. *)
Table(n, k, m, rows, cols, sums) ==
    /\ n \in Nat /\ k \in Nat
    /\ m \in [1..n -> [1..k -> Int]] /\ cols \in [1..k -> [1..n -> Int]]
    /\ \A i \in 1..n : \A j \in 1..k : cols[j][i] = m[i][j]
    /\ rows \in [1..n -> Int] /\ \A i \in 1..n : rows[i] = Total(m[i])
    /\ sums \in [1..k -> Int] /\ \A j \in 1..k : sums[j] = Total(cols[j])

(* It adds up to the same by rows and by columns. *)
LEMMA RowsAndColumns ==
    ASSUME NEW n, NEW k, NEW m, NEW rows, NEW cols, NEW sums, Table(n, k, m, rows, cols, sums)
    PROVE  Total(rows) = Total(sums)
<1> USE DEF Table
<1> DEFINE x == Sums(rows)
           Upto(p) == [j \in 1..k |-> Sums(cols[j])[p]]
           S == {p \in 0..n : x[p] = Total(Upto(p))}
<1>1. x[0] = 0 /\ x[n] = Total(rows) /\ \A i \in 1..n : x[i] = x[i - 1] + rows[i]
  BY PartialSums
<1>2. ASSUME NEW j \in 1..k
      PROVE  /\ Sums(cols[j])[0] = 0 /\ Sums(cols[j])[n] = sums[j]
             /\ \A i \in 1..n : Sums(cols[j])[i] = Sums(cols[j])[i - 1] + m[i][j]
             /\ \A i \in 0..n : Sums(cols[j])[i] \in Int
  <2>1. cols[j] \in [1..n -> Int]
    OBVIOUS
  <2> QED BY <2>1, PartialSums
<1> HIDE DEF x
<1>3. \A p \in 0..n : Upto(p) \in [1..k -> Int]
  BY <1>2
<1>4. \A p \in 0..n : \A j \in 1..k : Upto(p)[j] = Sums(cols[j])[p]
  OBVIOUS
<1>5. Upto(n) = sums
  BY <1>2
<1> HIDE DEF Upto
<1>6. 0 \in S
  <2>0. 0 \in 0..n
    OBVIOUS
  <2>1. \A j \in 1..k : Upto(0)[j] = 0
    BY <1>2, <1>4, <2>0
  <2>2. Upto(0) \in [1..k -> Int]
    BY <1>3
  <2>3. Total(Upto(0)) = 0
    BY <2>1, <2>2, TotalZero
  <2> QED BY <1>1, <2>3
<1>7. ASSUME NEW i \in 1..n, i - 1 \in S
      PROVE  i \in S
  <2>1. i - 1 \in 0..n /\ i \in 0..n
    OBVIOUS
  <2>2. Upto(i - 1) \in [1..k -> Int] /\ Upto(i) \in [1..k -> Int] /\ m[i] \in [1..k -> Int]
    BY <1>3, <2>1
  <2>3. \A j \in 1..k : Upto(i)[j] = Upto(i - 1)[j] + m[i][j]
    BY <1>2, <1>4, <2>1
  <2>4. Total(Upto(i)) = Total(Upto(i - 1)) + Total(m[i])
    BY <2>2, <2>3, TotalPlus
  <2>5. x[i - 1] = Total(Upto(i - 1))
    BY <1>7
  <2>6. x[i] = Total(Upto(i))
    BY <1>1, <2>4, <2>5
  <2> QED BY <2>1, <2>6
<1> HIDE DEF S
<1>8. \A p \in 0..n : p \in S
  BY <1>6, <1>7, AllRounds
<1>9. x[n] = Total(Upto(n))
  BY <1>8 DEF S
<1> QED BY <1>1, <1>5, <1>9

(* What is derived of a whole is no more than the whole's share. *)
LEMMA ShareBounded ==
    ASSUME NEW n \in Nat, NEW s \in [1..n -> Int], NEW q \in [1..n -> Int],
           NEW max \in Nat \ {0}, NEW c \in Nat,
           \A i \in 1..n : max * s[i] =< c * q[i], Total(q) =< max
    PROVE  Total(s) =< c
<1>1. Total(s) \in Int /\ Total(q) \in Int
  BY TotalType
<1>2. PICK x \in Int : x = Total(s)
  BY <1>1
<1>3. PICK y \in Int : y = Total(q)
  BY <1>1
<1>4. max * x =< c * y
  BY <1>2, <1>3, TotalScaled
<1>5. c * y =< c * max
  BY <1>3, Products
<1>6. max * x =< max * c
  <2>1. c * max = max * c
    OBVIOUS
  <2> QED BY <1>4, <1>5, <2>1
<1>7. x =< c
  <2>1. SUFFICES ASSUME x >= c + 1 PROVE FALSE
    OBVIOUS
  <2>2. max * (c + 1) =< max * x
    BY <2>1, Products
  <2>3. max * (c + 1) = max * c + max
    OBVIOUS
  <2> QED BY <1>6, <2>2, <2>3
<1> QED BY <1>2, <1>7

(* What a task group adds to the mark at most, as a part of a scoring group. *)
Worth(d, g, i) ==
    IF ScoringGroupName(d, d.assignments[i]) = g
      THEN MarkOf(d, d.assignments[i], MaxScoreOf(d.assignments[i]))
      ELSE 0

(* A task group's part is what its maximum score is of the scoring group's. *)
LEMMA WorthBounded ==
    ASSUME NEW d, SheetInOrder(d), NEW g \in DOMAIN d.groups, NEW i \in DOMAIN d.assignments
    PROVE  LET a == d.assignments[i]
               max == d.groups[g].maxScore
               q == IF ScoringGroupName(d, a) = g THEN MaxScoreOf(a) ELSE 0
           IN  /\ Worth(d, g, i) \in Nat /\ q \in Nat
               /\ max = 0 => Worth(d, g, i) = 0
               /\ max # 0 => max * Worth(d, g, i) =< (d.groups[g].weight * Scale) * q
<1> DEFINE a == d.assignments[i]
           max == d.groups[g].maxScore
           w == d.groups[g].weight
<1>1. max \in Nat /\ w \in Nat /\ Scale \in Nat
  BY ScoringAssumption DEF SheetInOrder
<1>2. MaxScoreOf(a) \in Nat
  BY MaxScoreType DEF SheetInOrder
<1>3. CASE ScoringGroupName(d, a) # g
  <2>1. Worth(d, g, i) = 0
    BY <1>3 DEF Worth
  <2> HIDE DEF max, w
  <2> QED BY <1>1, <1>3, <2>1 DEF max, w
<1>4. CASE ScoringGroupName(d, a) = g
  <2>1. Worth(d, g, i) = MarkOf(d, a, MaxScoreOf(a))
    BY <1>4 DEF Worth
  <2>2. HasScoringGroup(d, a) /\ GetScoringGroup(d, a) = d.groups[g]
    BY <1>4 DEF HasScoringGroup, GetScoringGroup
  <2>3. PICK q \in Nat : q = MaxScoreOf(a)
    BY <1>2
  <2>4. MarkOf(d, a, q) = IF max > 0 THEN (w * q * Scale) \div max ELSE 0
    BY <2>2 DEF MarkOf
  <2> HIDE DEF max, w
  <2>5. CASE max = 0
    <3>1. Worth(d, g, i) = 0
      BY <2>1, <2>3, <2>4, <2>5
    <3> QED BY <1>4, <2>3, <2>5, <3>1 DEF max, w
  <2>6. CASE max # 0
    <3>1. max \in Nat \ {0} /\ max > 0
      BY <1>1, <2>6
    <3>2. w * q * Scale \in Nat /\ w * q * Scale = (w * Scale) * q
      BY <1>1
    <3>3. PICK x \in Nat : x = w * q * Scale
      BY <3>2
    <3>4. x \div max \in Int /\ max * (x \div max) =< x
      BY <3>1
    <3>5. 0 =< x \div max
      <4>1. max * 0 =< x
        BY <3>1
      <4> QED BY <3>1, <4>1, QuotientAtLeast
    <3>6. Worth(d, g, i) = x \div max
      BY <2>1, <2>3, <2>4, <3>1, <3>3
    <3>7. Worth(d, g, i) \in Nat
      BY <3>4, <3>5, <3>6
    <3>8. max * Worth(d, g, i) =< (w * Scale) * q
      BY <3>2, <3>3, <3>4, <3>6
    <3> QED BY <1>4, <2>3, <2>6, <3>7, <3>8 DEF max, w
  <2> QED BY <2>5, <2>6
<1> QED BY <1>3, <1>4

(* All task groups of a scoring group together add no more than its weight, *)
(* if its maximum is no less than what they are worth.                      *)
LEMMA WeightBounds ==
    ASSUME NEW d, SheetInOrder(d), NEW g \in DOMAIN d.groups,
           MaxScoresOf(d, g) =< d.groups[g].maxScore,
           NEW s, s = [i \in 1..Len(d.assignments) |-> Worth(d, g, i)]
    PROVE  /\ s \in [1..Len(d.assignments) -> Int]
           /\ Total(s) \in Int /\ Total(s) =< Scale * d.groups[g].weight
<1> DEFINE n == Len(d.assignments)
           max == d.groups[g].maxScore
           w == d.groups[g].weight
           q == [i \in 1..n |->
                   IF ScoringGroupName(d, d.assignments[i]) = g THEN MaxScoreOf(d.assignments[i])
                                                               ELSE 0]
<1>1. max \in Nat /\ w \in Nat /\ Scale \in Nat
  BY ScoringAssumption DEF SheetInOrder
<1>2. n \in Nat /\ DOMAIN d.assignments = 1..n
  BY SheetRead
<1>3. MaxScoresOf(d, g) = Total(q)
  BY <1>2 DEF MaxScoresOf
<1>4. ASSUME NEW i \in 1..n
      PROVE  /\ s[i] \in Nat /\ q[i] \in Nat
             /\ max = 0 => s[i] = 0
             /\ max # 0 => max * s[i] =< (w * Scale) * q[i]
  <2>1. s[i] = Worth(d, g, i)
    OBVIOUS
  <2>2. i \in DOMAIN d.assignments
    BY <1>2
  <2> QED BY <2>1, <2>2, WorthBounded
<1>5. q = [i \in 1..n |-> q[i]] /\ s = [i \in 1..n |-> s[i]]
  OBVIOUS
<1> HIDE DEF q, n, max, w
<1>6. q \in [1..n -> Int] /\ s \in [1..n -> Int]
  <2>1. \A i \in 1..n : q[i] \in Int /\ s[i] \in Int
    BY <1>4
  <2> QED BY <1>5, <2>1
<1>7. Total(s) \in Int
  BY <1>2, <1>6, TotalType
<1>8. w * Scale \in Nat /\ w * Scale = Scale * w
  BY <1>1
<1>9. CASE max = 0
  <2>1. \A i \in 1..n : s[i] = 0
    BY <1>4, <1>9
  <2>2. Total(s) = 0
    BY <1>2, <1>6, <2>1, TotalZero
  <2> QED BY <1>6, <1>8, <2>2 DEF n, w
<1>10. CASE max # 0
  <2>1. max \in Nat \ {0}
    BY <1>1, <1>10
  <2>2. PICK c \in Nat : c = w * Scale
    BY <1>8
  <2>3. \A i \in 1..n : max * s[i] =< c * q[i]
    BY <1>4, <1>10, <2>2
  <2>4. Total(q) =< max
    BY <1>3 DEF max
  <2>5. Total(s) =< c
    BY <1>2, <1>6, <2>1, <2>3, <2>4, ShareBounded
  <2> QED BY <1>6, <1>7, <1>8, <2>2, <2>5 DEF n, w
<1> QED BY <1>9, <1>10

(* A task group adds to the mark no more than its parts of the scoring      *)
(* groups are together: it belongs to one of them at most.                  *)
LEMMA MarkCovered ==
    ASSUME NEW d, SheetInOrder(d), NEW i \in DOMAIN d.assignments,
           NEW score \in Int, score =< MaxScoreOf(d.assignments[i]),
           NEW names \in Seq(DOMAIN d.groups),
           \A g \in DOMAIN d.groups : \E k \in DOMAIN names : names[k] = g,
           NEW m, m = [k \in 1..Len(names) |-> Worth(d, names[k], i)]
    PROVE  /\ m \in [1..Len(names) -> Int]
           /\ MarkOf(d, d.assignments[i], score) \in Int /\ Total(m) \in Int
           /\ MarkOf(d, d.assignments[i], score) =< Total(m)
<1> DEFINE a == d.assignments[i]
           n == Len(names)
<1>1. n \in Nat /\ DOMAIN names = 1..n /\ \A k \in 1..n : names[k] \in DOMAIN d.groups
  OBVIOUS
<1>2. \A k \in 1..n : m[k] = Worth(d, names[k], i) /\ m[k] \in Nat
  BY <1>1, WorthBounded
<1>3. m \in [1..n -> Nat] /\ m \in [1..n -> Int]
  BY <1>2
<1>4. MaxScoreOf(a) \in Nat
  BY MaxScoreType DEF SheetInOrder
<1> HIDE DEF n
<1>5. Total(m) \in Nat
  BY <1>1, <1>3, TotalType
<1>6. /\ MarkOf(d, a, score) \in Int
      /\ MarkOf(d, a, score) =< MarkOf(d, a, MaxScoreOf(a))
  <2>1. MaxScoreOf(a) \in Int
    BY <1>4
  <2> QED BY <2>1, MarkGrows
<1>7. CASE HasScoringGroup(d, a)
  <2>1. PICK k \in 1..n : names[k] = ScoringGroupName(d, a)
    BY <1>1, <1>7 DEF HasScoringGroup
  <2>2. m[k] = MarkOf(d, a, MaxScoreOf(a))
    BY <1>2, <2>1 DEF Worth
  <2>3. m[k] =< Total(m)
    BY <1>1, <1>3, TotalCovers
  <2>4. m[k] \in Nat
    BY <1>2
  <2> QED BY <1>3, <1>5, <1>6, <2>2, <2>3, <2>4 DEF n
<1>8. CASE ~HasScoringGroup(d, a)
  <2>1. MarkOf(d, a, score) = 0
    BY <1>8 DEF MarkOf
  <2> QED BY <1>3, <1>5, <2>1 DEF n
<1> QED BY <1>7, <1>8

(* Once the maxima are built, each is no less than what its task groups are *)
(* worth.                                                                   *)
LEMMA MaximaBuilt ==
    ASSUME MaximaCover, NEW g \in DOMAIN Deadlines.groups
    PROVE  MaxScoresOf(Deadlines, g) =< Deadlines.groups[g].maxScore
<1> DEFINE d == Sheet
           built == BuildScoringGroups(d)
           groups == [h \in DOMAIN d.groups |->
                        IF d.groups[h].maxScore # 0 THEN d.groups[h]
                        ELSE [d.groups[h] EXCEPT !.maxScore = MaxScoresOf(d, h)]]
<1>1. SheetInOrder(d) /\ Deadlines = built
  BY ScoringAssumption DEF Deadlines
<1>2. d \in [assignments: Seq(ToSet(d.assignments)), policies: {d.policies},
             groups: {d.groups}, defaultGroup: {d.defaultGroup},
             finalDeadline: SUBSET Nat, retakePenalty: 0..100]
  BY <1>1 DEF SheetInOrder
<1>3. built = [d EXCEPT !.groups = groups]
  BY DEF BuildScoringGroups
<1>4. /\ built.assignments = d.assignments /\ built.defaultGroup = d.defaultGroup
      /\ built.groups = groups
  BY <1>2, <1>3
<1>5. g \in DOMAIN d.groups
  BY <1>1, <1>4
<1>6. MaxScoresOf(built, g) = MaxScoresOf(d, g)
  BY <1>4 DEF MaxScoresOf, ScoringGroupName
<1>7. SheetInOrder(built)
  BY <1>1, SheetBuilt
<1>8. built.groups[g].maxScore \in Nat /\ d.groups[g].maxScore \in Nat
  BY <1>1, <1>5, <1>7 DEF SheetInOrder
<1>9. CASE d.groups[g].maxScore # 0
  BY <1>1, <1>4, <1>5, <1>6, <1>9 DEF MaximaCover
<1>10. CASE d.groups[g].maxScore = 0
  <2>1. d.groups[g] \in [weight: Nat, maxScore: Nat, policy: {d.groups[g].policy}]
    BY <1>1, <1>5 DEF SheetInOrder
  <2>2. built.groups[g].maxScore = MaxScoresOf(d, g)
    BY <1>4, <1>5, <1>10, <2>1
  <2> QED BY <1>1, <1>6, <1>8, <2>2
<1> QED BY <1>9, <1>10

(* Together, the task groups add no more to the mark than the weights of    *)
(* all scoring groups.                                                      *)
LEMMA MarkWithin ==
    ASSUME NEW d, SheetInOrder(d),
           \A g \in DOMAIN d.groups : MaxScoresOf(d, g) =< d.groups[g].maxScore,
           NEW scores \in [1..Len(d.assignments) -> Int],
           \A i \in 1..Len(d.assignments) : scores[i] =< MaxScoreOf(d.assignments[i]),
           NEW names \in Seq(DOMAIN d.groups),
           \A g \in DOMAIN d.groups : \E k \in DOMAIN names : names[k] = g
    PROVE  Total([i \in 1..Len(d.assignments) |-> MarkOf(d, d.assignments[i], scores[i])])
             =< Scale * Total([k \in DOMAIN names |-> d.groups[names[k]].weight])
<1> DEFINE n == Len(d.assignments)
           K == Len(names)
           marks == [i \in 1..n |-> MarkOf(d, d.assignments[i], scores[i])]
           weights == [k \in 1..K |-> d.groups[names[k]].weight]
           m == [i \in 1..n |-> [k \in 1..K |-> Worth(d, names[k], i)]]
           rows == [i \in 1..n |-> Total(m[i])]
           cols == [k \in 1..K |-> [i \in 1..n |-> Worth(d, names[k], i)]]
           sums == [k \in 1..K |-> Total(cols[k])]
<1>1. n \in Nat /\ DOMAIN d.assignments = 1..n
  BY SheetRead
<1>2. K \in Nat /\ DOMAIN names = 1..K /\ \A k \in 1..K : names[k] \in DOMAIN d.groups
  OBVIOUS
<1>3. ASSUME NEW i \in 1..n
      PROVE  /\ m[i] \in [1..K -> Int] /\ Total(m[i]) \in Int
             /\ MarkOf(d, d.assignments[i], scores[i]) \in Int
             /\ MarkOf(d, d.assignments[i], scores[i]) =< Total(m[i])
  <2>1. i \in DOMAIN d.assignments /\ scores[i] \in Int /\ scores[i] =< MaxScoreOf(d.assignments[i])
    BY <1>1
  <2>2. m[i] = [k \in 1..K |-> Worth(d, names[k], i)]
    OBVIOUS
  <2> HIDE DEF m
  <2> QED BY <2>1, <2>2, MarkCovered
<1>4. ASSUME NEW k \in 1..K
      PROVE  /\ cols[k] \in [1..n -> Int] /\ Total(cols[k]) \in Int
             /\ weights[k] \in Int
             /\ Total(cols[k]) =< Scale * weights[k]
  <2>1. PICK g \in DOMAIN d.groups : g = names[k]
    BY <1>2
  <2>2. cols[k] = [i \in 1..n |-> Worth(d, g, i)] /\ weights[k] = d.groups[g].weight
    BY <2>1
  <2>3. weights[k] \in Int
    BY <2>2 DEF SheetInOrder
  <2> HIDE DEF cols, weights
  <2> QED BY <2>2, <2>3, WeightBounds
<1>5. \A i \in 1..n : \A k \in 1..K : cols[k][i] = m[i][k]
  OBVIOUS
<1>6. /\ m = [i \in 1..n |-> m[i]] /\ cols = [k \in 1..K |-> cols[k]]
      /\ weights = [k \in 1..K |-> weights[k]]
      /\ marks = [i \in 1..n |-> marks[i]]
      /\ \A i \in 1..n : marks[i] = MarkOf(d, d.assignments[i], scores[i])
  OBVIOUS
<1> HIDE DEF m, cols, weights, marks, n, K
<1>7. rows \in [1..n -> Int] /\ \A i \in 1..n : rows[i] = Total(m[i])
  BY <1>3
<1>8. sums \in [1..K -> Int] /\ \A k \in 1..K : sums[k] = Total(cols[k])
  BY <1>4
<1>9. m \in [1..n -> [1..K -> Int]] /\ cols \in [1..K -> [1..n -> Int]]
  BY <1>3, <1>4, <1>6
<1>10. weights \in [1..K -> Int] /\ marks \in [1..n -> Int]
  BY <1>3, <1>4, <1>6
<1> HIDE DEF rows, sums
<1>11. Total(marks) =< Total(rows)
  <2>1. \A i \in 1..n : marks[i] =< rows[i]
    BY <1>3, <1>6, <1>7
  <2> QED BY <1>1, <1>7, <1>10, <2>1, TotalGrows
<1>12. Total(rows) = Total(sums)
  <2>1. Table(n, K, m, rows, cols, sums)
    BY <1>1, <1>2, <1>5, <1>7, <1>8, <1>9 DEF Table
  <2> QED BY <2>1, RowsAndColumns
<1>13. 1 * Total(sums) =< Scale * Total(weights)
  <2>1. \A k \in 1..K : 1 * sums[k] =< Scale * weights[k]
    BY <1>4, <1>8
  <2>2. Scale \in Nat /\ 1 \in Nat
    BY ScoringAssumption
  <2> QED BY <1>2, <1>8, <1>10, <2>1, <2>2, TotalScaled
<1>14. Total(marks) \in Int /\ Total(sums) \in Int /\ Total(weights) \in Int /\ Scale \in Int
  <2>1. Total(marks) \in Int
    BY <1>1, <1>10, TotalType
  <2>2. Total(sums) \in Int /\ Total(weights) \in Int
    BY <1>2, <1>8, <1>10, TotalType
  <2>3. Scale \in Int
    BY ScoringAssumption
  <2> QED BY <2>1, <2>2, <2>3
<1>15. Total(marks) =< Scale * Total(weights)
  BY <1>11, <1>12, <1>13, <1>14
<1> QED BY <1>2, <1>15 DEF marks, weights, n, K

(* A user without overrides scores no more than a task group is worth. *)
LEMMA GroupWithin ==
    ASSUME TInv, NEW u \in Logins, \A t \in Tasks : overrides[<<u, t>>] = NoRow,
           NEW i \in DOMAIN Deadlines.assignments
    PROVE  LET s == CalcUserScores(Deadlines, u, Rows(pipelines), Rows(flags), Rows(overrides))
           IN  /\ s.groups[i].score \in Int
               /\ s.groups[i].score =< MaxScoreOf(Deadlines.assignments[i])
<1> DEFINE d == Deadlines
           a == d.assignments[i]
           s == CalcUserScores(d, u, Rows(pipelines), Rows(flags), Rows(overrides))
           n == Len(a.tasks)
           scores == [j \in 1..n |-> TaskScore(s, i, j)]
           most == [j \in 1..n |-> a.tasks[j].score]
<1>1. SheetInOrder(d) /\ OverridesIn(Rows(overrides))
  BY DeadlinesRead, OverridesListed
<1>2. /\ IsFiniteSet(Rows(pipelines)) /\ Rows(pipelines) \subseteq PipelineRow
      /\ IsFiniteSet(Rows(flags)) /\ Rows(flags) \subseteq FlagRow
  BY TableRows
<1>3. /\ n \in Nat /\ DOMAIN a.tasks = 1..n
      /\ \A j \in 1..n : a.tasks[j].score \in Nat /\ a.tasks[j].task \in Tasks
  BY <1>1, SheetRead, DeadlinesRead
<1>4. s.groups[i].score \in Int /\ \A j \in 1..n : TaskScore(s, i, j) \in Int
  BY <1>1, <1>2, HomeScored
<1>5. s.groups[i].score = Total(scores)
  BY <1>1, GroupsOf DEF CalcUserScores
<1>6. MaxScoreOf(a) = Total(most)
  BY <1>3 DEF MaxScoreOf
<1>7. \A j \in 1..n : TaskScore(s, i, j) =< a.tasks[j].score
  <2>1. TasksBounded
    BY TasksWithin
  <2> QED BY <1>3, <2>1 DEF TasksBounded
<1> HIDE DEF s, n
<1>8. /\ scores \in [1..n -> Int] /\ most \in [1..n -> Int]
      /\ \A j \in 1..n : scores[j] =< most[j]
  BY <1>3, <1>4, <1>7
<1> HIDE DEF scores, most
<1>9. Total(scores) =< Total(most)
  BY <1>3, <1>8, TotalGrows
<1> QED BY <1>4, <1>5, <1>6, <1>9 DEF s

(* The mark of a user without overrides never exceeds the weights of the    *)
(* scoring groups, for every sheet in order whose maxima, where they are    *)
(* set by hand, are no less than what the task groups are worth, and for    *)
(* every table of submissions (deadlines.go:103-118, scorer.go:340-342).    *)
THEOREM MarksAreBounded == Spec => []MarksBounded
<1>1. ASSUME TInv, MaximaCover, NEW u \in Logins, \A t \in Tasks : overrides[<<u, t>>] = NoRow
      PROVE  LET names == SetToSeq(DOMAIN Deadlines.groups) IN
             CalcUserScores(Deadlines, u, Rows(pipelines), Rows(flags), Rows(overrides)).finalMark
               =< Scale * Total([k \in DOMAIN names |-> Deadlines.groups[names[k]].weight])
  <2> DEFINE d == Deadlines
             n == Len(d.assignments)
             s == CalcUserScores(d, u, Rows(pipelines), Rows(flags), Rows(overrides))
             names == SetToSeq(DOMAIN d.groups)
             scores == [i \in 1..n |-> s.groups[i].score]
  <2>1. SheetInOrder(d) /\ n \in Nat /\ DOMAIN d.assignments = 1..n
    BY DeadlinesRead, SheetRead
  <2>2. \A g \in DOMAIN d.groups : MaxScoresOf(d, g) =< d.groups[g].maxScore
    BY <1>1, MaximaBuilt
  <2>3. /\ names \in Seq(DOMAIN d.groups)
        /\ \A g \in DOMAIN d.groups : \E k \in DOMAIN names : names[k] = g
    <3>1. IsFiniteSet(DOMAIN d.groups)
      BY <2>1 DEF SheetInOrder
    <3>2. names \in SetToSeqs(DOMAIN d.groups)
      BY <3>1, SomeOrder
    <3> HIDE DEF names
    <3>3. names \in Seq(DOMAIN d.groups) /\ DOMAIN d.groups = {names[k] : k \in DOMAIN names}
      BY <3>1, <3>2, OrdersComplete
    <3> QED BY <3>3
  <2>4. s.finalMark = Total([i \in 1..n |-> MarkOf(d, d.assignments[i], s.groups[i].score)])
    BY <2>1, UserMark DEF CalcUserScores
  <2>5. \A i \in 1..n : /\ s.groups[i].score \in Int
                        /\ s.groups[i].score =< MaxScoreOf(d.assignments[i])
    BY <1>1, <2>1, GroupWithin
  <2> HIDE DEF s, names, d
  <2>6. /\ scores \in [1..n -> Int]
        /\ \A i \in 1..n : /\ scores[i] = s.groups[i].score
                           /\ scores[i] =< MaxScoreOf(d.assignments[i])
    BY <2>5
  <2>7. s.finalMark = Total([i \in 1..n |-> MarkOf(d, d.assignments[i], scores[i])])
    BY <2>4, <2>6
  <2> HIDE DEF scores
  <2>8. Total([i \in 1..n |-> MarkOf(d, d.assignments[i], scores[i])])
          =< Scale * Total([k \in DOMAIN names |-> d.groups[names[k]].weight])
    BY <2>1, <2>2, <2>3, <2>6, MarkWithin
  <2> QED BY <2>7, <2>8 DEF s, names, d
<1>2. ASSUME TInv PROVE MarksBounded
  BY <1>1, <1>2 DEF MarksBounded
<1> QED BY <1>2, TablesInvariance, PTL
=============================================================================
