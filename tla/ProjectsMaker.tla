---------------------------- MODULE ProjectsMaker ----------------------------
(***************************************************************************)
(* internal/gitlab/projects.go and the calls Client.InitializeProject makes *)
(* (internal/gitlab/gitlab.go): the one goroutine that gives every linked   *)
(* user a GitLab project.  Users reach it through a bounded channel, filled *)
(* by login handlers, and through sweeps of the database: one when the      *)
(* goroutine starts and one when its timer fires.                           *)
(*                                                                          *)
(* Every remote call is one step.  It may answer, fail without an effect    *)
(* ("fail" in Faults) or take effect and lose its answer ("lost").          *)
(***************************************************************************)
EXTENDS UserTable, Naturals, Sequences

CONSTANTS
    Capacity,    \* buffer of the channel; 4 in NewProjectsMaker
    Faults,      \* which faults may happen
    NoSnapshot

ASSUME ProjectsMakerAssumption ==
    /\ Capacity \in Nat \ {0}
    /\ Faults \subseteq {"fail", "lost", "crash"}
    /\ NoSnapshot \notin Snapshot

VARIABLES
    queue,       \* the channel p.users
    sending,     \* users whose handler is inside AsyncPrepareProject
    pc,          \* the maker's next step
    sweeping,    \* is it inside initializeMissingProjects?
    todo,        \* the rest of the slice a sweep iterates over
    current,     \* the user inside maybeInitializeProject
    timer,       \* the time.Timer of Run
    projects     \* GitLab's projects

makerVars == <<queue, sending, pc, sweeping, todo, current, timer, projects>>

(* The steps of maybeInitializeProject, and the blocked send of Run. *)
CallSteps == {"get", "create", "readme", "protect", "members", "add", "setrepo"}
BusySteps == CallSteps \cup {"requeue"}

Project == [exists: BOOLEAN, readme: BOOLEAN, protected: BOOLEAN,
            members: SUBSET Accounts]

MakerTypeOK ==
    /\ queue \in Seq(Snapshot)
    /\ sending \subseteq Snapshot
    /\ pc \in BusySteps \cup {"list", "next", "select"}
    /\ sweeping \in BOOLEAN
    /\ todo \subseteq Snapshot
    /\ current \in Snapshot \cup {NoSnapshot}
    /\ timer \in {"unset", "armed", "fired"}
    /\ projects \in [ProjectNames -> Project]

MakerInit ==
    /\ queue = <<>>
    /\ sending = {}
    /\ pc = "list"
    /\ sweeping = TRUE
    /\ todo = {}
    /\ current = NoSnapshot
    /\ timer = "unset"
    /\ projects = [p \in ProjectNames |->
                     [exists |-> FALSE, readme |-> FALSE,
                      protected |-> FALSE, members |-> {}]]
-----------------------------------------------------------------------------
(* Where maybeInitializeProject returns to. *)
AfterSuccess == IF sweeping THEN "next" ELSE "select"

(* Mutant: Run does not put back a user it failed on. *)
AfterFailureForgets == AfterSuccess

AfterFailure == IF sweeping THEN "next" ELSE "requeue"

CurrentProject == MakeProjectName(current)

(* maybeInitializeProject is called with s: the nil check on the account. *)
Begin(s) ==
    IF s.account = NoAccount
      THEN /\ pc' = AfterFailure
           /\ current' = IF sweeping THEN NoSnapshot ELSE s
      ELSE /\ pc' = "get"
           /\ current' = s

(* maybeInitializeProject returns false. *)
GiveUp == /\ pc' = AfterFailure
          /\ current' = IF sweeping THEN NoSnapshot ELSE current

(* A remote call is answered and the next step is `step', or its answer is  *)
(* lost after it took effect.                                               *)
Answered(step) == pc' = step /\ UNCHANGED current
Reply(step) == \/ Answered(step)
               \/ "lost" \in Faults /\ GiveUp
-----------------------------------------------------------------------------
(* Run and initializeMissingProjects *)

(* The sweep reads its slice of users; an error ends the sweep. *)
ListMissing ==
    /\ pc = "list"
    /\ pc' = "next"
    /\ \/ todo' = ListUsersWithoutRepos
       \/ "fail" \in Faults /\ todo' = {}
    /\ UNCHANGED <<users, queue, sending, sweeping, current, timer, projects>>

(* The sweep takes its next user. *)
NextMissing ==
    /\ pc = "next"
    /\ \E s \in todo : /\ Begin(s)
                       /\ todo' = todo \ {s}
    /\ UNCHANGED <<users, queue, sending, sweeping, timer, projects>>

(* The sweep ends.  After the first one Run creates its timer. *)
EndSweep ==
    /\ pc = "next"
    /\ todo = {}
    /\ pc' = "select"
    /\ sweeping' = FALSE
    /\ timer' = IF timer = "unset" THEN "armed" ELSE timer
    /\ UNCHANGED <<users, queue, sending, todo, current, projects>>

(* case user := <-p.users *)
Receive ==
    /\ pc = "select"
    /\ queue # <<>>
    /\ queue' = Tail(queue)
    /\ Begin(Head(queue))
    /\ UNCHANGED <<users, sending, sweeping, todo, timer, projects>>

(* case <-tick.C: a time.Timer fires once and is never reset. *)
Tick ==
    /\ pc = "select"
    /\ timer = "armed"
    /\ timer' = "fired"
    /\ pc' = "list"
    /\ sweeping' = TRUE
    /\ UNCHANGED <<users, queue, sending, todo, current, projects>>

(* Run puts the user it failed on back: p.users <- user blocks while the    *)
(* buffer is full, and Run is the channel's only reader.                    *)
Requeue ==
    /\ pc = "requeue"
    /\ Len(queue) < Capacity
    /\ queue' = Append(queue, current)
    /\ pc' = "select"
    /\ current' = NoSnapshot
    /\ UNCHANGED <<users, sending, sweeping, todo, timer, projects>>

(* AsyncPrepareProject: a handler's blocking send gets through. *)
AsyncPrepareProject ==
    /\ Len(queue) < Capacity
    /\ \E s \in sending : /\ queue' = Append(queue, s)
                          /\ sending' = sending \ {s}
    /\ UNCHANGED <<users, pc, sweeping, todo, current, timer, projects>>
-----------------------------------------------------------------------------
(* maybeInitializeProject and InitializeProject, one action per call *)

(* Mutant: a project that exists is taken for a finished one. *)
GetProjectFinished ==
    /\ pc = "get"
    /\ Answered(IF projects[CurrentProject].exists THEN "setrepo" ELSE "create")
    /\ UNCHANGED <<users, queue, sending, sweeping, todo, timer, projects>>

GetProject ==
    /\ pc = "get"
    /\ Answered(IF projects[CurrentProject].exists THEN "readme" ELSE "create")
    /\ UNCHANGED <<users, queue, sending, sweeping, todo, timer, projects>>

CreateProject ==
    /\ pc = "create"
    /\ projects' = [projects EXCEPT ![CurrentProject].exists = TRUE]
    /\ Reply("readme")
    /\ UNCHANGED <<users, queue, sending, sweeping, todo, timer>>

(* Mutant: any failure of the commit is tolerated. *)
CreateReadmeTolerant ==
    /\ pc = "readme"
    /\ \/ UNCHANGED projects
       \/ projects' = [projects EXCEPT ![CurrentProject].readme = TRUE]
    /\ Reply("protect")
    /\ UNCHANGED <<users, queue, sending, sweeping, todo, timer>>

(* Committing README.md.  GitLab refuses when the file is there or when     *)
(* master is protected, and both refusals are taken for success.            *)
CreateReadme ==
    /\ pc = "readme"
    /\ IF projects[CurrentProject].protected
         THEN UNCHANGED projects
         ELSE projects' = [projects EXCEPT ![CurrentProject].readme = TRUE]
    /\ Reply("protect")
    /\ UNCHANGED <<users, queue, sending, sweeping, todo, timer>>

(* Protecting master; "already exists" is taken for success. *)
ProtectMaster ==
    /\ pc = "protect"
    /\ projects' = [projects EXCEPT ![CurrentProject].protected = TRUE]
    /\ Reply("members")
    /\ UNCHANGED <<users, queue, sending, sweeping, todo, timer>>

ListMembers ==
    /\ pc = "members"
    /\ Answered(IF current.account \in projects[CurrentProject].members
                  THEN "setrepo" ELSE "add")
    /\ UNCHANGED <<users, queue, sending, sweeping, todo, timer, projects>>

AddMember ==
    /\ pc = "add"
    /\ projects' = [projects EXCEPT ![CurrentProject].members =
                      @ \cup {current.account}]
    /\ Reply("setrepo")
    /\ UNCHANGED <<users, queue, sending, sweeping, todo, timer>>

(* The last step: the project's URL is stored in the user's row. *)
Done == pc' = AfterSuccess /\ current' = NoSnapshot

SetRepository ==
    /\ pc = "setrepo"
    /\ SetUserRepository(current.id, CurrentProject)
    /\ Done \/ ("lost" \in Faults /\ GiveUp)
    /\ UNCHANGED <<queue, sending, sweeping, todo, timer, projects>>

(* Any of the calls fails without an effect. *)
CallFails ==
    /\ "fail" \in Faults
    /\ pc \in CallSteps
    /\ GiveUp
    /\ UNCHANGED <<users, queue, sending, sweeping, todo, timer, projects>>

MakerNext ==
    \/ ListMissing \/ NextMissing \/ EndSweep \/ Receive \/ Tick \/ Requeue
    \/ AsyncPrepareProject
    \/ GetProject \/ CreateProject \/ CreateReadme \/ ProtectMaster
    \/ ListMembers \/ AddMember \/ SetRepository \/ CallFails
-----------------------------------------------------------------------------
(***************************************************************************)
(* The maker by itself.  Its environment is a login handler that has just   *)
(* linked a user (login.go:282-299): the row appears and its user is sent.  *)
(***************************************************************************)
Enroll(u, n, g, a) ==
    /\ users[u] = NoRow
    /\ FindUserByName(n, g) = {}
    /\ FindUserByAccount(a) = {}
    /\ users' = [users EXCEPT ![u] = [name |-> n, group |-> g,
                                      account |-> a, repo |-> NoRepo]]
    /\ sending' = sending \cup {[id |-> u, name |-> n, group |-> g, account |-> a]}
    /\ UNCHANGED <<queue, pc, sweeping, todo, current, timer, projects>>

EmptyTableInit == UsersInit /\ MakerInit

MakerSpec ==
    /\ EmptyTableInit
    /\ [][\/ MakerNext
          \/ \E u \in UserIds, n \in Names, g \in Groups, a \in Accounts :
                Enroll(u, n, g, a)]_<<users, makerVars>>

(* The call of a step is answered: the maker goes on to the step after it. *)
CallAnswered(step) ==
    CASE step = "get"     -> GetProject
      [] step = "create"  -> CreateProject /\ pc' = "readme"
      [] step = "readme"  -> CreateReadme /\ pc' = "protect"
      [] step = "protect" -> ProtectMaster /\ pc' = "members"
      [] step = "members" -> ListMembers
      [] step = "add"     -> AddMember /\ pc' = "setrepo"
      [] step = "setrepo" -> SetRepository /\ pc' = AfterSuccess

(* The goroutine of Run and the blocked senders run when they can (the Go   *)
(* scheduler; select picks among ready cases at random), and a call that is *)
(* made again and again is answered at some point.                          *)
MakerFairSpec ==
    /\ MakerSpec
    /\ WF_<<users, makerVars>>(AsyncPrepareProject)
    /\ WF_<<users, makerVars>>(ListMissing \/ NextMissing \/ EndSweep)
    /\ WF_<<users, makerVars>>(Receive)
    /\ WF_<<users, makerVars>>(Requeue)
    /\ \A step \in CallSteps : SF_<<users, makerVars>>(CallAnswered(step))

HasRepo(u) == Registered(u) /\ users[u].repo # NoRepo

(* The maker is holding a user it took from the channel. *)
HoldsTicket == ~sweeping /\ pc \in BusySteps

HasTicket(u) ==
    \/ \E i \in DOMAIN queue : queue[i].id = u
    \/ \E s \in sending : s.id = u
    \/ HoldsTicket /\ current.id = u

(* A user sent to the maker ends up with a repository, whatever fails on    *)
(* the way, as long as the process lives and the channel has room for       *)
(* everybody: a failed attempt is put back and repeated (projects.go:43-45).*)
TicketsServed == \A u \in UserIds : HasTicket(u) ~> HasRepo(u)

(* A failed attempt is followed by another one (projects.go:90: a backoff,  *)
(* not an end): the maker comes back from putting the user into the channel.*)
RetryReturns == pc = "requeue" ~> pc = "select"
=============================================================================
