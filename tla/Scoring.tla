-------------------------------- MODULE Scoring --------------------------------
(***************************************************************************)
(* internal/scorer/scorer.go and internal/deadlines: what a student's       *)
(* submissions are worth.                                                   *)
(*                                                                          *)
(* The scores are a function of four tables (pipelines, flags, overrides,   *)
(* users) and of the deadlines sheet of the group.  The operators below are *)
(* that function; the state machine lets the tables grow in every order.    *)
(*                                                                          *)
(* Times, percentages and scores are integers: float64 rounding is left     *)
(* out, the truncation of int(...) is kept.                                 *)
(***************************************************************************)
EXTENDS Integers, Sequences, SequencesExt, FiniteSets, FiniteSetsExt

CONSTANTS
    Logins,        \* users of one group, with a repository, numbered in the
                   \* order of their full names
    HasRetake,     \* users.has_retake, set by hand
    PipelineIds, FlagIds,
    Times,         \* points in time
    Statuses,      \* what GitLab reports of a pipeline
    Sheet,         \* the deadlines sheet, as yaml.Unmarshal returns it
    FlagTasks,     \* tasks the crashme service has a binary for
    Overrides,     \* what is posted to the override endpoint: [task, score, status]
    Decay,         \* 100 / e^(late / multiplier), in percent, for a lateness
    Scale,         \* a common multiple of the maximum scores: unit of marks
    NoRow

VARIABLES
    pipelines,     \* the pipelines table: a row, or NoRow, for every id
    flags,         \* the flags somebody has submitted
    overrides      \* the overridden_scores table, by login and task

tables == <<pipelines, flags, overrides>>

NoPolicy == [kind |-> "none"]

(* A list that a loop appends to, and what a loop adds up.  (With <<>> at   *)
(* its end, TLC evaluates the elements once.)                               *)
Listed(s) == s \o <<>>
Total(s) ==
    LET sum[i \in 0..Len(s)] == IF i = 0 THEN 0 ELSE sum[i - 1] + s[i]
    IN  sum[Len(s)]
-----------------------------------------------------------------------------
(* internal/deadlines *)

(* The scoring group a task group belongs to, if the sheet has it. *)
ScoringGroupName(d, a) == IF a.group = "" THEN d.defaultGroup ELSE a.group
HasScoringGroup(d, a) == ScoringGroupName(d, a) \in DOMAIN d.groups
GetScoringGroup(d, a) == d.groups[ScoringGroupName(d, a)]

GetScoringPolicy(d, a) ==
    IF HasScoringGroup(d, a) /\ GetScoringGroup(d, a).policy \in DOMAIN d.policies
      THEN d.policies[GetScoringGroup(d, a).policy]
      ELSE NoPolicy

MaxScoreOf(a) == Total([j \in DOMAIN a.tasks |-> a.tasks[j].score])

(* Mutant: the last task group of a scoring group counts alone. *)
MaxScoresOfLast(d, g) ==
    LET mine == {i \in DOMAIN d.assignments : ScoringGroupName(d, d.assignments[i]) = g}
    IN  IF mine = {} THEN 0 ELSE MaxScoreOf(d.assignments[Max(mine)])

(* What the task groups of a scoring group are worth. *)
MaxScoresOf(d, g) ==
    Total([i \in DOMAIN d.assignments |->
             IF ScoringGroupName(d, d.assignments[i]) = g THEN MaxScoreOf(d.assignments[i])
                                                         ELSE 0])

(* buildScoringGroups: a scoring group without a maximum gets the sum of    *)
(* its task groups.                                                         *)
BuildScoringGroups(d) ==
    [d EXCEPT !.groups =
       [g \in DOMAIN d.groups |->
          IF d.groups[g].maxScore # 0 THEN d.groups[g]
          ELSE [d.groups[g] EXCEPT !.maxScore = MaxScoresOf(d, g)]]]

LinearScore(p, max, deadline, at) ==
    LET late == at - deadline IN
    IF at < deadline THEN max
    ELSE IF late < p.after
      THEN (max * (100 * p.after - late * (100 - p.multiplier))) \div (100 * p.after)
      ELSE (max * p.multiplier) \div 100

ExponentialScore(p, max, deadline, at) ==
    IF at < deadline THEN max
    ELSE (max * Max({p.threshold, Decay[at - deadline]})) \div 100

PolicyScore(p, max, deadline, at) ==
    IF p.kind = "linear" THEN LinearScore(p, max, deadline, at)
                         ELSE ExponentialScore(p, max, deadline, at)
-----------------------------------------------------------------------------
(* internal/scorer *)

(* classifyPipelineStatus, and its twin that names the status. *)
ClassifyPipelineStatus(status) ==
    CASE status = "banned"                  -> "banned"
      [] status \in {"failed", "canceled"}  -> "failed"
      [] status \in {"pending", "running"}  -> "checking"
      [] status = "success"                 -> "success"
      [] OTHER                              -> "assigned"

TaskStatuses == <<"banned", "assigned", "failed", "checking", "success">>
Rank(status) == CHOOSE i \in DOMAIN TaskStatuses :
                   TaskStatuses[i] = ClassifyPipelineStatus(status)

(* Mutant: the newer of two equally good pipelines wins. *)
PipelineLessNewer(left, right) ==
    IF Rank(left.status) = Rank(right.status) THEN left.at > right.at
                                              ELSE Rank(left.status) > Rank(right.status)

PipelineLess(left, right) ==
    IF Rank(left.status) = Rank(right.status) THEN left.at < right.at
                                              ELSE Rank(left.status) > Rank(right.status)

(* Keeping the best row of every task, in the order the rows come. *)
BestByTask(rows, Better(_, _)) ==
    LET best[i \in 0..Len(rows)] ==
          IF i = 0 THEN <<>>
          ELSE LET r == rows[i]
                   prev == best[i - 1]
               IN  IF r.task \notin DOMAIN prev \/ Better(r, prev[r.task])
                     THEN [t \in DOMAIN prev \cup {r.task} |-> IF t = r.task THEN r ELSE prev[t]]
                     ELSE prev
    IN  best[Len(rows)]

LoadUserPipelines(rows) == BestByTask(rows, PipelineLess)
LoadUserFlags(rows) == BestByTask(rows, LAMBDA f, g : f.at < g.at)

(* Mutant: the final deadline is not looked at. *)
ScorePipelineNoFinal(d, u, a, task, p) ==
    LET policy == GetScoringPolicy(d, a) IN
    IF p.status # "success" THEN 0
    ELSE IF policy = NoPolicy THEN -1
    ELSE PolicyScore(policy, task.score, a.deadline, p.at)

(* scorePipeline.  finalDeadline is a set of at most one time. *)
ScorePipeline(d, u, a, task, p) ==
    LET policy == GetScoringPolicy(d, a)
        minScore == (task.score * d.retakePenalty) \div 100
        score == IF \E t \in d.finalDeadline : p.at > t THEN 0
                 ELSE PolicyScore(policy, task.score, a.deadline, p.at)
    IN  IF p.status # "success" THEN 0
        ELSE IF policy = NoPolicy THEN -1
        ELSE IF HasRetake[u] /\ minScore > score THEN minScore ELSE score

(* Mutant: overrides are looked up by task alone. *)
ParseOverridesByTask(rows) ==
    [k \in {<<v, r.task>> : v \in Logins, r \in rows} |->
       CHOOSE r \in rows : r.task = k[2]]

ParseOverrides(rows) ==
    [k \in {<<r.login, r.task>> : r \in rows} |->
       CHOOSE r \in rows : r.login = k[1] /\ r.task = k[2]]

(* One task of calcUserScoresImpl: a flag, else a pipeline (crashme tasks   *)
(* have none), and an override over both.                                   *)
ScoreTask(d, u, a, task, best, flag, over) ==
    LET scored ==
          IF task.task \in DOMAIN flag
            THEN [status |-> "success",
                  score |-> ScorePipeline(d, u, a, task,
                              [status |-> "success", at |-> flag[task.task].at])]
          ELSE IF ~task.crashme /\ task.task \in DOMAIN best
            THEN [status |-> ClassifyPipelineStatus(best[task.task].status),
                  score |-> ScorePipeline(d, u, a, task, best[task.task])]
          ELSE [status |-> "assigned", score |-> 0]
        key == <<u, task.task>>
    IN  IF key \in DOMAIN over
          THEN [status |-> ClassifyPipelineStatus(over[key].status), score |-> over[key].score]
          ELSE scored

(* calcUserScoresImpl.  d went through buildScoringGroups. *)
ScoreGroup(d, u, a, best, flag, over) ==
    LET tasks == Listed([j \in DOMAIN a.tasks |->
                           ScoreTask(d, u, a, a.tasks[j], best, flag, over)])
    IN  [title |-> a.title, tasks |-> tasks, maxScore |-> MaxScoreOf(a),
         score |-> Total([j \in DOMAIN tasks |-> tasks[j].score])]

(* What a task group adds to the final mark. *)
MarkOf(d, a, score) ==
    IF HasScoringGroup(d, a) /\ GetScoringGroup(d, a).maxScore > 0
      THEN (GetScoringGroup(d, a).weight * score * Scale) \div GetScoringGroup(d, a).maxScore
      ELSE 0

CalcUserScoresImpl(d, u, pipelineRows, flagRows, overrideRows) ==
    LET best == LoadUserPipelines(pipelineRows)
        flag == LoadUserFlags(flagRows)
        over == ParseOverrides(overrideRows)
        groups == Listed([i \in DOMAIN d.assignments |->
                            ScoreGroup(d, u, d.assignments[i], best, flag, over)])
    IN  [login |-> u, groups |-> groups,
         score |-> Total([i \in DOMAIN groups |-> groups[i].score]),
         maxScore |-> Total([i \in DOMAIN groups |-> groups[i].maxScore]),
         finalMark |-> Total([i \in DOMAIN groups |->
                                MarkOf(d, d.assignments[i], groups[i].score)])]

(* The SELECTs, in some order: the queries do not ask for one.  A project   *)
(* belongs to one user; a row keeps its user's login for it.                *)
Rows(table) == {table[i] : i \in DOMAIN table} \ {NoRow}
RowsOf(rows, u) == {r \in rows : r.login = u}

(* The providers of a scoreboard: everything is listed once, then split. *)
Cached(rows, u) ==
    LET all == SetToSeq(rows)
        mine[i \in 0..Len(all)] ==
          IF i = 0 THEN <<>>
          ELSE IF all[i].login = u THEN Append(mine[i - 1], all[i]) ELSE mine[i - 1]
    IN  mine[Len(all)]

(* The home page: CalcUserScores, from the rows of the user alone. *)
CalcUserScores(d, u, pipelineRows, flagRows, overrideRows) ==
    CalcUserScoresImpl(d, u, SetToSeq(RowsOf(pipelineRows, u)), SetToSeq(RowsOf(flagRows, u)),
                       RowsOf(overrideRows, u))

(* The order of a scoreboard: a mark, then a name. *)
Ahead(x, y) == \/ x.finalMark > y.finalMark
               \/ x.finalMark = y.finalMark /\ x.login < y.login

(* CalcScoreboardWithFilter, for rows read earlier. *)
CalcScoreboard(d, us, pipelineRows, flagRows, overrideRows) ==
    LET scores == {CalcUserScoresImpl(d, u, Cached(pipelineRows, u), Cached(flagRows, u),
                                      overrideRows) : u \in us}
    IN  CHOOSE s \in SetToSeqs(scores) : \A i, j \in DOMAIN s : i < j => Ahead(s[i], s[j])
-----------------------------------------------------------------------------
(* The tables grow *)

Deadlines == BuildScoringGroups(Sheet)

Tasks == UNION {{a.tasks[j].task : j \in DOMAIN a.tasks} :
                a \in {Sheet.assignments[i] : i \in DOMAIN Sheet.assignments}}

PipelineRow == [login: Logins, task: Tasks, status: Statuses, at: Times]
FlagRow == [login: Logins, task: FlagTasks, at: Times]
OverrideRow == {[login |-> u, task |-> o.task, score |-> o.score, status |-> o.status] :
                u \in Logins, o \in Overrides}

(* What the scorer trusts a sheet with: nothing is worth less than nothing, *)
(* policies only ever take points away, and tasks that flags are given for  *)
(* are marked as such.                                                      *)
PolicyInOrder(p) ==
    \/ p.kind = "linear" /\ p.after \in Nat /\ p.multiplier \in 0..100
    \/ p.kind = "exp" /\ p.threshold \in 0..100

TaskGroupInOrder(a) ==
    /\ a.deadline \in Nat
    /\ \A t \in Times : t >= a.deadline => t - a.deadline \in DOMAIN Decay
    /\ a.tasks \in Seq(ToSet(a.tasks))
    /\ \A j \in DOMAIN a.tasks : /\ a.tasks[j].score \in Nat
                                 /\ a.tasks[j].task \in FlagTasks => a.tasks[j].crashme

SheetInOrder(d) ==
    /\ d \in [assignments: Seq(ToSet(d.assignments)), policies: {d.policies},
              groups: {d.groups}, defaultGroup: {d.defaultGroup},
              finalDeadline: SUBSET Nat, retakePenalty: 0..100]
    /\ \A i \in DOMAIN d.assignments : TaskGroupInOrder(d.assignments[i])
    /\ \A p \in DOMAIN d.policies : PolicyInOrder(d.policies[p])
    /\ IsFiniteSet(DOMAIN d.groups)
    /\ \A g \in DOMAIN d.groups :
         d.groups[g] \in [weight: Nat, maxScore: Nat, policy: {d.groups[g].policy}]

ASSUME ScoringAssumption ==
    /\ Logins \subseteq Nat /\ IsFiniteSet(Logins)
    /\ HasRetake \in [Logins -> BOOLEAN]
    /\ Times \subseteq Nat
    /\ IsFiniteSet(PipelineIds) /\ IsFiniteSet(FlagIds)
    /\ \A x, y \in DOMAIN Decay : /\ Decay[x] \in 0..100
                                  /\ x =< y => Decay[x] >= Decay[y]
    /\ FlagTasks \subseteq Tasks
    /\ \A o \in Overrides : o.task \in Tasks /\ o.score \in Int
    /\ NoRow \notin OverrideRow
    /\ Scale \in Nat
    /\ SheetInOrder(Sheet)

TypeOK ==
    /\ pipelines \in [PipelineIds -> PipelineRow \cup {NoRow}]
    /\ flags \in [FlagIds -> FlagRow \cup {NoRow}]
    /\ overrides \in [Logins \X Tasks -> OverrideRow \cup {NoRow}]

Init ==
    /\ pipelines = [i \in PipelineIds |-> NoRow]
    /\ flags = [i \in FlagIds |-> NoRow]
    /\ overrides = [k \in Logins \X Tasks |-> NoRow]

(* DataBase.AddPipeline: an id the table has keeps all but its status.  A   *)
(* pipeline keeps its project, branch and creation time in GitLab; its      *)
(* status may be any, for a stale poll puts back an older one.              *)
AddPipeline(i, row) ==
    /\ \/ pipelines[i] = NoRow /\ pipelines' = [pipelines EXCEPT ![i] = row]
       \/ /\ pipelines[i] # NoRow
          /\ row = [pipelines[i] EXCEPT !.status = row.status]
          /\ pipelines' = [pipelines EXCEPT ![i].status = row.status]
    /\ UNCHANGED <<flags, overrides>>

(* Mutant: the row is marked as submitted by nobody. *)
SubmitFlagNobody(i, row) ==
    /\ flags[i] = NoRow
    /\ flags' = [flags EXCEPT ![i] = [row EXCEPT !.login = 0]]
    /\ UNCHANGED <<pipelines, overrides>>

(* A flag, created at some time, is submitted (DataBase.SubmitFlag). *)
SubmitFlag(i, row) ==
    /\ flags[i] = NoRow
    /\ flags' = [flags EXCEPT ![i] = row]
    /\ UNCHANGED <<pipelines, overrides>>

(* The override endpoint and DataBase.AddOverride: insert or replace. *)
AddOverride(row) ==
    /\ overrides' = [overrides EXCEPT ![<<row.login, row.task>>] = row]
    /\ UNCHANGED <<pipelines, flags>>

Next ==
    \/ \E i \in PipelineIds, row \in PipelineRow : AddPipeline(i, row)
    \/ \E i \in FlagIds, row \in FlagRow : SubmitFlag(i, row)
    \/ \E row \in OverrideRow : AddOverride(row)

Spec == Init /\ [][Next]_tables
-----------------------------------------------------------------------------
(* Whatever order the database returns a user's pipelines in, the loop of   *)
(* loadUserPipelines (scorer.go:85-92) ends with the earliest of the best   *)
(* ones for every task: success before checking before failed.              *)
BestPipeline ==
    \A u \in Logins : \A rows \in SetToSeqs(RowsOf(Rows(pipelines), u)) :
      LET best == LoadUserPipelines(rows) IN
      /\ DOMAIN best = {rows[i].task : i \in DOMAIN rows}
      /\ \A t \in DOMAIN best :
           LET mine == {rows[i] : i \in {j \in DOMAIN rows : rows[j].task = t}}
               top == {r \in mine : \A q \in mine : Rank(r.status) >= Rank(q.status)}
           IN  best[t] \in top /\ \A r \in top : best[t].at =< r.at

(* The score of one task, as calcUserScoresImpl has it. *)
TaskScore(scores, i, j) == scores.groups[i].tasks[j].score

(* Submitting again never costs points: with any one pipeline or flag taken *)
(* away, early or late, good or bad, and whatever else was submitted before *)
(* or after it, no mark and no task's score would be higher (scorer.go:88,  *)
(* 106, 300-318; scoring.go:41-70).  Task groups without a policy are left  *)
(* out: there a solved task counts -1 (scorer.go:383), which lowers a mark  *)
(* when the group counts for it.                                            *)
SubmittingNeverCosts ==
    \A u \in Logins : \A r \in RowsOf(Rows(pipelines) \cup Rows(flags), u) :
      LET priced == {i \in DOMAIN Deadlines.assignments :
                       GetScoringPolicy(Deadlines, Deadlines.assignments[i]) # NoPolicy}
          counted == {i \in DOMAIN Deadlines.assignments :
                        HasScoringGroup(Deadlines, Deadlines.assignments[i])}
          with == CalcUserScores(Deadlines, u, Rows(pipelines), Rows(flags), Rows(overrides))
          without == CalcUserScores(Deadlines, u, Rows(pipelines) \ {r}, Rows(flags) \ {r},
                                    Rows(overrides))
      IN  /\ counted \subseteq priced => without.finalMark =< with.finalMark
          /\ \A i \in priced : \A j \in DOMAIN with.groups[i].tasks :
               TaskScore(without, i, j) =< TaskScore(with, i, j)

(* A task that is not overridden is worth between nothing and its score (-1 *)
(* marks a solved task whose scoring group has no known policy), and        *)
(* nothing after the final deadline except a retake's share                 *)
(* (scorer.go:371-404, scoring.go:41-70).                                   *)
TasksBounded ==
    \A u \in Logins :
      LET d == Deadlines
          s == CalcUserScores(d, u, Rows(pipelines), Rows(flags), Rows(overrides))
          late(task) == \A t \in d.finalDeadline :
                          \A r \in RowsOf(Rows(pipelines) \cup Rows(flags), u) :
                            r.task = task.task => r.at > t
      IN  \A i \in DOMAIN d.assignments : \A j \in DOMAIN d.assignments[i].tasks :
            LET a == d.assignments[i]
                task == a.tasks[j]
            IN  overrides[<<u, task.task>>] = NoRow =>
                  /\ TaskScore(s, i, j) =< task.score
                  /\ TaskScore(s, i, j) >= IF GetScoringPolicy(d, a) = NoPolicy THEN -1 ELSE 0
                  /\ d.finalDeadline # {} /\ late(task) =>
                       TaskScore(s, i, j) =<
                         IF HasRetake[u] THEN (task.score * d.retakePenalty) \div 100 ELSE 0

(* No maximum set by hand is less than what the task groups are worth. *)
MaximaCover ==
    \A g \in DOMAIN Sheet.groups :
      Sheet.groups[g].maxScore = 0 \/ Sheet.groups[g].maxScore >= MaxScoresOf(Sheet, g)

(* A mark without overrides never exceeds the weights of the scoring        *)
(* groups: their maxima are derived by buildScoringGroups from all their    *)
(* task groups, or set by hand to no less (deadlines.go:103-118,            *)
(* scorer.go:340-342).                                                      *)
MarksBounded ==
    MaximaCover => \A u \in Logins : (\A t \in Tasks : overrides[<<u, t>>] = NoRow) =>
      LET names == SetToSeq(DOMAIN Deadlines.groups)
      IN  CalcUserScores(Deadlines, u, Rows(pipelines), Rows(flags), Rows(overrides)).finalMark
            =< Scale * Total([k \in DOMAIN names |-> Deadlines.groups[names[k]].weight])

(* The home page and the scoreboard, which read the tables by different     *)
(* queries (scorer.go:183-237), give a user the same scores.                *)
HomeAgrees ==
    LET board == CalcScoreboard(Deadlines, Logins, Rows(pipelines), Rows(flags),
                                Rows(overrides))
    IN  \A i \in DOMAIN board :
          board[i] = CalcUserScores(Deadlines, board[i].login, Rows(pipelines), Rows(flags),
                                    Rows(overrides))
=============================================================================
