------------------------------- MODULE Pipelines -------------------------------
(***************************************************************************)
(* internal/gitlab/pipelines.go: how the status of a student's pipelines    *)
(* gets from GitLab into the "pipelines" table.  Two goroutines write it:   *)
(* the poller (Run), which lists every project's pipelines at an interval,  *)
(* page by page, and the fresh loop (RunFresh), which once a second fetches *)
(* the pipelines graders have reported to the API until they stop running.  *)
(*                                                                          *)
(* Reading a status from GitLab and storing it are separate steps.          *)
(***************************************************************************)
EXTENDS Naturals, FiniteSets

CONSTANTS
    Pipelines,
    Projects,
    ProjectOf,       \* the project of every pipeline
    Tickets,         \* tells reports about one pipeline apart: in the code the
                     \* address of a qualifiedPipelineID, fresh for every report
    PageSize,        \* GitLab's page size
    Reported,        \* the pipelines whose graders report them
    Faults,          \* "fail": a call fails; "crash": the process restarts
    MaxVersion,      \* bound: how often every pipeline changes its status
    Nothing

ASSUME PipelinesAssumption ==
    /\ IsFiniteSet(Pipelines)
    /\ ProjectOf \in [Pipelines -> Projects]
    /\ PageSize \in Nat \ {0}
    /\ Reported \subseteq Pipelines
    /\ Faults \subseteq {"fail", "crash"}
    /\ MaxVersion \in [Pipelines -> Nat]

(* A status and the number of changes it took to get there; the number is   *)
(* history that neither GitLab nor the code keeps.                          *)
Status == {"absent", "pending", "running", "success", "failed"}
Seen == [status: Status, ver: Nat]
Entry == Reported \X Tickets
Cursor == [project: Projects, page: Nat \ {0}]

ASSUME NothingAssumption ==
    /\ Nothing \notin Seen
    /\ Nothing \notin [entry: Entry, seen: Seen]
    /\ Nothing \notin Cursor

VARIABLES
    remote,      \* GitLab: the status of every pipeline
    born,        \* GitLab: the order of creation; 0 before it
    shown,       \* history: the statuses it has had since then
    stored,      \* the table: what was last written, or Nothing
    enabled,     \* pullIntervals.pipelines is configured
    pollTodo,    \* projects the poller's round has still to list
    pollAt,      \* the project being listed and its next page, or Nothing
    pollBatch,   \* what the last page held and is not stored yet
    owed,        \* history: pipelines older than the listing and not listed yet
    fresh,       \* the keys of p.fresh
    ranging,     \* fresh.Range is running
    freshTodo,   \* the keys it has still to visit
    got,         \* what fetch has read from GitLab and not stored yet
    removed,     \* keys to delete when it ends
    due,         \* history: pipelines with a report not followed up yet
    restarted    \* history: the process has been restarted

gitlabVars == <<remote, born, shown>>
pollVars == <<enabled, pollTodo, pollAt, pollBatch, owed>>
freshVars == <<fresh, ranging, freshTodo, got, removed>>
vars == <<gitlabVars, stored, pollVars, freshVars, due, restarted>>

TypeOK ==
    /\ remote \in [Pipelines -> Seen]
    /\ born \in [Pipelines -> Nat]
    /\ shown \in [Pipelines -> SUBSET Seen]
    /\ stored \in [Pipelines -> Seen \cup {Nothing}]
    /\ enabled \in BOOLEAN
    /\ pollTodo \subseteq Projects
    /\ pollAt \in Cursor \cup {Nothing}
    /\ owed \subseteq Pipelines
    /\ pollBatch \subseteq Pipelines \X Seen
    /\ fresh \subseteq Entry
    /\ ranging \in BOOLEAN
    /\ freshTodo \subseteq fresh
    /\ got \in [entry: Entry, seen: Seen] \cup {Nothing}
    /\ removed \subseteq fresh
    /\ due \subseteq Pipelines
    /\ restarted \in BOOLEAN

Init ==
    /\ remote = [p \in Pipelines |-> [status |-> "absent", ver |-> 0]]
    /\ born = [p \in Pipelines |-> 0]
    /\ shown = [p \in Pipelines |-> {}]
    /\ stored = [p \in Pipelines |-> Nothing]
    /\ enabled \in BOOLEAN
    /\ pollTodo = {}
    /\ pollAt = Nothing
    /\ owed = {}
    /\ pollBatch = {}
    /\ fresh = {}
    /\ ranging = FALSE
    /\ freshTodo = {}
    /\ got = Nothing
    /\ removed = {}
    /\ due = {}
    /\ restarted = FALSE

Exists(p) == remote[p].status # "absent"

(* DataBase.AddPipeline: insert, or update the status of the row. *)
AddPipeline(p, seen) == stored' = [stored EXCEPT ![p] = seen]
-----------------------------------------------------------------------------
(* GitLab and the graders, as the code sees them *)

(* A pipeline is created, starts, ends, and may be retried when it failed. *)
Successor(status) ==
    CASE status = "absent"  -> {"pending"}
      [] status = "pending" -> {"running"}
      [] status = "running" -> {"success", "failed"}
      [] status = "failed"  -> {"pending"}
      [] status = "success" -> {}

PipelineChanges(p) ==
    /\ remote[p].ver < MaxVersion[p]
    /\ \E s \in Successor(remote[p].status) :
          LET now == [status |-> s, ver |-> remote[p].ver + 1] IN
            /\ remote' = [remote EXCEPT ![p] = now]
            /\ shown' = [shown EXCEPT ![p] = @ \cup {now}]
    /\ born' = IF Exists(p) THEN born
                ELSE [born EXCEPT ![p] = Cardinality({r \in Pipelines : Exists(r)}) + 1]
    /\ UNCHANGED <<stored, pollVars, freshVars, due, restarted>>

(* The listing of a project: newest first, so a new pipeline moves all the  *)
(* others towards the end.                                                  *)
Listed(q) == {p \in Pipelines : ProjectOf[p] = q /\ Exists(p)}
Page(q, page) ==
    {p \in Listed(q) :
       Cardinality({r \in Listed(q) : born[r] > born[p]}) \div PageSize = page - 1}
TotalPages(q) == (Cardinality(Listed(q)) + PageSize - 1) \div PageSize

(* Mutant: the report is keyed by its value, as a comparable struct would be. *)
ReportByValue(p) ==
    /\ p \in Reported /\ Exists(p)
    /\ LET t == CHOOSE t \in Tickets : TRUE IN fresh' = fresh \cup {<<p, t>>}
    /\ due' = due \cup {p}
    /\ UNCHANGED <<gitlabVars, stored, pollVars, ranging, freshTodo, got, removed, restarted>>

(* The report endpoint and AddFresh.  A report may be late or repeated.     *)
(* sync.Map lets a running Range visit a new key or not.                    *)
Report(p) ==
    /\ p \in Reported /\ Exists(p)
    /\ \E t \in Tickets :
          /\ <<p, t>> \notin fresh
          /\ fresh' = fresh \cup {<<p, t>>}
          /\ \/ UNCHANGED freshTodo
             \/ ranging /\ freshTodo' = freshTodo \cup {<<p, t>>}
    /\ due' = due \cup {p}
    /\ UNCHANGED <<gitlabVars, stored, pollVars, ranging, got, removed, restarted>>
-----------------------------------------------------------------------------
(* The poller: fetchAllPipelines and forEachProject *)

BetweenRounds == pollTodo = {} /\ pollAt = Nothing /\ pollBatch = {}

(* Mutant: Run does not return when no interval is configured. *)
PollTickAlways ==
    /\ BetweenRounds
    /\ pollTodo' = Projects
    /\ UNCHANGED <<gitlabVars, stored, enabled, pollAt, pollBatch, owed, freshVars, due, restarted>>

(* The ticker fires between two rounds and the group's projects are listed. *)
PollTick ==
    /\ enabled
    /\ BetweenRounds
    /\ pollTodo' = Projects
    /\ UNCHANGED <<gitlabVars, stored, enabled, pollAt, pollBatch, owed, freshVars, due, restarted>>

(* The page to ask for: the next one, or the first one of a project. *)
Asks(q, page) ==
    \/ pollAt = Nothing /\ q \in pollTodo /\ page = 1
    \/ pollAt # Nothing /\ q = pollAt.project /\ page = pollAt.page

(* Mutant: the last page is taken for the one after the last. *)
PollPageNotLast(q, page) ==
    /\ pollBatch = {} /\ Asks(q, page)
    /\ pollTodo' = pollTodo \ {q}
    /\ pollBatch' = {<<p, remote[p]>> : p \in Page(q, page)}
    /\ pollAt' = IF page + 1 >= TotalPages(q) THEN Nothing
                                              ELSE [project |-> q, page |-> page + 1]
    /\ owed' = (IF page = 1 THEN Listed(q) ELSE owed) \ Page(q, page)
    /\ UNCHANGED <<gitlabVars, stored, enabled, freshVars, due, restarted>>

(* A page of a project's pipelines is read.  It is stored pipeline by       *)
(* pipeline before the next one is asked for, while GitLab and the fresh    *)
(* loop go on; what is the last page is told by the latest answer.          *)
PollPage(q, page) ==
    /\ pollBatch = {} /\ Asks(q, page)
    /\ pollTodo' = pollTodo \ {q}
    /\ pollBatch' = {<<p, remote[p]>> : p \in Page(q, page)}
    /\ pollAt' = IF page >= TotalPages(q) THEN Nothing
                                          ELSE [project |-> q, page |-> page + 1]
    /\ owed' = (IF page = 1 THEN Listed(q) ELSE owed) \ Page(q, page)
    /\ UNCHANGED <<gitlabVars, stored, enabled, freshVars, due, restarted>>

(* Listing fails, at any page: the callback's error ends the round for this *)
(* project and the ones that have not been listed yet.                      *)
PollPageFails ==
    /\ "fail" \in Faults
    /\ pollTodo # {} \/ pollAt # Nothing
    /\ pollBatch = {}
    /\ pollTodo' = {} /\ pollAt' = Nothing /\ owed' = {}
    /\ UNCHANGED <<gitlabVars, stored, enabled, pollBatch, freshVars, due, restarted>>

(* Mutant: addPipeline only for pipelines the table does not have. *)
PollStoreNew(p) ==
    /\ \E b \in pollBatch :
          /\ b[1] = p
          /\ pollBatch' = pollBatch \ {b}
          /\ IF stored[p] = Nothing THEN AddPipeline(p, b[2]) ELSE UNCHANGED stored
    /\ UNCHANGED <<gitlabVars, enabled, pollTodo, pollAt, owed, freshVars, due, restarted>>

PollStore(p) ==
    /\ \E b \in pollBatch :
          /\ b[1] = p
          /\ pollBatch' = pollBatch \ {b}
          /\ AddPipeline(p, b[2])
    /\ UNCHANGED <<gitlabVars, enabled, pollTodo, pollAt, owed, freshVars, due, restarted>>

(* Storing fails: logged, and the next pipeline is taken. *)
PollStoreFails ==
    /\ "fail" \in Faults
    /\ \E e \in pollBatch : pollBatch' = pollBatch \ {e}
    /\ UNCHANGED <<gitlabVars, stored, enabled, pollTodo, pollAt, owed, freshVars, due, restarted>>
-----------------------------------------------------------------------------
(* The fresh loop: fetchFreshPipelines and fetch *)

RangeStart ==
    /\ ~ranging
    /\ fresh # {}
    /\ ranging' = TRUE
    /\ freshTodo' = fresh
    /\ UNCHANGED <<gitlabVars, stored, pollVars, fresh, got, removed, due, restarted>>

(* fetch has read the pipeline from GitLab. *)
FreshGet(e) ==
    /\ got = Nothing
    /\ e \in freshTodo
    /\ freshTodo' = freshTodo \ {e}
    /\ got' = [entry |-> e, seen |-> remote[e[1]]]
    /\ due' = IF remote[e[1]].status = "running" THEN due ELSE due \ {e[1]}
    /\ UNCHANGED <<gitlabVars, stored, pollVars, fresh, ranging, removed, restarted>>

(* Mutant: every entry that was fetched is deleted. *)
FreshStoreOnce(e) ==
    /\ got # Nothing
    /\ got.entry = e
    /\ AddPipeline(e[1], got.seen)
    /\ removed' = removed \cup {e}
    /\ got' = Nothing
    /\ UNCHANGED <<gitlabVars, pollVars, fresh, ranging, freshTodo, due, restarted>>

(* fetch stores it; an entry that is not running any more is to be deleted. *)
FreshStore(e) ==
    /\ got # Nothing
    /\ got.entry = e
    /\ AddPipeline(e[1], got.seen)
    /\ removed' = IF got.seen.status = "running" THEN removed ELSE removed \cup {e}
    /\ got' = Nothing
    /\ UNCHANGED <<gitlabVars, pollVars, fresh, ranging, freshTodo, due, restarted>>

(* One of fetch's two calls fails: the entry stays for the next round. *)
FreshFails ==
    /\ "fail" \in Faults
    /\ \/ /\ got = Nothing
          /\ \E e \in freshTodo : freshTodo' = freshTodo \ {e}
          /\ UNCHANGED got
       \/ /\ got # Nothing
          /\ got' = Nothing
          /\ UNCHANGED freshTodo
    /\ UNCHANGED <<gitlabVars, stored, pollVars, fresh, ranging, removed, due, restarted>>

(* Mutant: the list of removed keys outlives the round. *)
RangeEndKeepsRemoved ==
    /\ ranging
    /\ freshTodo = {} /\ got = Nothing
    /\ fresh' = fresh \ removed
    /\ ranging' = FALSE
    /\ UNCHANGED <<gitlabVars, stored, pollVars, freshTodo, got, removed, due, restarted>>

RangeEnd ==
    /\ ranging
    /\ freshTodo = {} /\ got = Nothing
    /\ fresh' = fresh \ removed
    /\ removed' = {}
    /\ ranging' = FALSE
    /\ UNCHANGED <<gitlabVars, stored, pollVars, freshTodo, got, due, restarted>>
-----------------------------------------------------------------------------
(* The process is restarted: what was only in memory is gone. *)
Restart ==
    /\ "crash" \in Faults
    /\ pollTodo' = {} /\ pollAt' = Nothing /\ pollBatch' = {} /\ owed' = {}
    /\ fresh' = {} /\ freshTodo' = {} /\ removed' = {}
    /\ ranging' = FALSE
    /\ got' = Nothing
    /\ due' = {}
    /\ restarted' = TRUE
    /\ UNCHANGED <<gitlabVars, stored, enabled>>

(* Bound: no listing has more pages than there are pipelines. *)
PageNumbers == 1..Cardinality(Pipelines)

Next ==
    \/ \E p \in Pipelines : PipelineChanges(p) \/ Report(p)
    \/ PollTick \/ PollPageFails \/ PollStoreFails
    \/ \E q \in Projects, page \in PageNumbers : PollPage(q, page)
    \/ \E p \in Pipelines : PollStore(p)
    \/ \E e \in Entry : FreshGet(e) \/ FreshStore(e)
    \/ RangeStart \/ FreshFails \/ RangeEnd
    \/ Restart

Spec == Init /\ [][Next]_vars

(* The loops of both goroutines run, a call they make again and again is    *)
(* answered at some point (every page, every entry), and GitLab ends a      *)
(* running pipeline.                                                        *)
FairSpec ==
    /\ Spec
    /\ WF_vars(PollTick)
    /\ \A q \in Projects, page \in PageNumbers : SF_vars(PollPage(q, page))
    /\ \A p \in Pipelines : SF_vars(PollStore(p))
    /\ WF_vars(RangeStart) /\ WF_vars(RangeEnd)
    /\ \A e \in Entry : SF_vars(FreshGet(e)) /\ SF_vars(FreshStore(e))
    /\ \A p \in Pipelines : WF_vars(remote[p].status = "running" /\ PipelineChanges(p))
-----------------------------------------------------------------------------
(* No report is swallowed: from the moment a grader reports a pipeline to   *)
(* the moment a later fetch reads that it is not running any more, the      *)
(* fresh loop has an entry for it that it is not about to delete            *)
(* (pipelines.go:75, 185, 191) - also when the report arrives between the   *)
(* fetch of an older report's entry and that entry's deletion.              *)
ReportsKept == \A p \in due : \E e \in fresh \ removed : e[1] = p

(* The table keeps the promise of StatusTable.  Every status stored is one  *)
(* GitLab has had, however long it was on its way between the call and the  *)
(* row; and without the poller the table never goes back in time, since the *)
(* fresh loop reads and stores one pipeline after the other                 *)
(* (pipelines.go:79-132, database.go:191-196).                              *)
Table == INSTANCE StatusTable WITH Statuses <- Status
KeepsTable == Table!Spec

(* The pages of a listing are read one by one while pipelines are created   *)
(* at its front (pipelines.go:120-140).  When the loop leaves a project     *)
(* without an error, every pipeline the project had when the listing began  *)
(* has been on one of the pages it read: a new pipeline makes it meet       *)
(* another one twice, and never skip one.                                   *)
NothingSkipped == pollAt = Nothing => owed = {}

(* With the poller an older status can overwrite a newer one (listed before *)
(* the fresh loop stored, stored after), but not for good: once a pipeline  *)
(* rests, the table has its status and keeps it, through failed calls and   *)
(* restarts.  (A pipeline rests after at most MaxVersion changes.)          *)
Converges ==
    enabled => \A p \in Pipelines : <>[](Exists(p) => stored[p] = remote[p])

(* With or without the poller, what a grader reported arrives: some time    *)
(* after a report the table has the pipeline with a status at least as new  *)
(* as the one it had then, and that is not "running" (pipelines.go:177-193) *)
(* - through failed calls, unless a restart forgets the report.             *)
ReportSettles ==
    \A p \in Reported : \A n \in 1..MaxVersion[p] :
      (p \in due /\ remote[p].ver = n)
        ~> \/ restarted
           \/ /\ stored[p] # Nothing
              /\ stored[p].ver >= n
              /\ stored[p].status # "running"
=============================================================================
