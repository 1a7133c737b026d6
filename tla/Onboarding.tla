------------------------------ MODULE Onboarding ------------------------------
(***************************************************************************)
(* How a student gets a repository: the login handlers, the projects maker, *)
(* the group-change endpoint of the API and restarts of the process, over   *)
(* one users table and one GitLab.                                          *)
(***************************************************************************)
EXTENDS LoginService

(* History variables: the program does not have them. *)
VARIABLES
    moved,      \* users whose group the API has changed
    dropped     \* linked users whose ticket to the maker a fault swallowed

vars == <<users, makerVars, loginVars, moved, dropped>>

Init ==
    /\ UsersInit
    /\ MakerInit
    /\ LoginInit
    /\ moved = {}
    /\ dropped = {}

Waiting == {u \in UserIds : Linked(u) /\ users[u].repo = NoRepo}

(* A commit whose answer is lost links a user nobody sends to the maker. *)
LinkedUnsent == {u \in UserIds : ~Linked(u) /\ users'[u] # users[u]
                                 /\ users'[u].account # NoAccount
                                 /\ sending' = sending}

MakerStep == MakerNext /\ UNCHANGED <<loginVars, moved, dropped>>

LoginStep == /\ LoginNext
             /\ dropped' = dropped \cup LinkedUnsent
             /\ UNCHANGED moved

(* changeGroup of internal/web/api.go, for the user of account a. *)
ChangeGroup(a, g) ==
    /\ \E u \in FindUserByAccount(a) :
          /\ g # users[u].group
          /\ SetUserGroupName(u, g)
          /\ moved' = moved \cup {u}
    /\ UNCHANGED <<makerVars, loginVars, dropped>>

(* The process dies and is started again: handlers, channel and maker start *)
(* from nothing, the database, GitLab and the cookies stay.                 *)
Restart ==
    /\ "crash" \in Faults
    /\ queue' = <<>>
    /\ sending' = {}
    /\ pc' = "list"
    /\ sweeping' = TRUE
    /\ todo' = {}
    /\ current' = NoSnapshot
    /\ timer' = "unset"
    /\ req' = [b \in Browsers |-> Idle]
    /\ dropped' = dropped \cup Waiting
    /\ UNCHANGED <<users, projects, cookie, moved>>

Next ==
    \/ MakerStep
    \/ LoginStep
    \/ \E a \in Accounts, g \in Groups : ChangeGroup(a, g)
    \/ Restart

Spec == Init /\ [][Next]_vars
-----------------------------------------------------------------------------
(* Type invariant. *)
TypeOK ==
    /\ UsersTypeOK
    /\ MakerTypeOK
    /\ LoginTypeOK
    /\ moved \subseteq UserIds
    /\ dropped \subseteq UserIds

(* Every copy of a user the maker holds or is about to be sent. *)
Held == {queue[i] : i \in DOMAIN queue} \cup sending \cup todo
        \cup (IF current = NoSnapshot THEN {} ELSE {current})

(* The maker works on copies of rows read earlier (projects.go:44, 66; the  *)
(* channel).  A copy never disagrees with its row about who the user is:    *)
(* the row is still linked, to the same account, under the same name; only  *)
(* the group may have been changed under it.  So no nil login reaches       *)
(* MakeProjectName and no repository is made for somebody else's account.   *)
SnapshotsCurrent ==
    \A s \in Held :
      /\ Linked(s.id)
      /\ users[s.id].account = s.account
      /\ users[s.id].name = s.name
      /\ s.id \in moved \/ users[s.id].group = s.group

(* A user is sent to the maker once: over the channel, the senders blocked  *)
(* on it and the maker's own retry (projects.go:25, 38, 44) there is at     *)
(* most one ticket per user, however logins of several browsers race.       *)
OneTicket ==
    /\ \A i, j \in DOMAIN queue : queue[i].id = queue[j].id => i = j
    /\ \A i \in DOMAIN queue, s \in sending : queue[i].id # s.id
    /\ \A s, t \in sending : s.id = t.id => s = t
    /\ HoldsTicket => /\ \A i \in DOMAIN queue : queue[i].id # current.id
                      /\ \A s \in sending : s.id # current.id

(* Nobody is forgotten: a linked user without a repository is in the        *)
(* channel, at its door or in the maker's hands, through every failure and  *)
(* lost answer of GitLab and of SetUserRepository, unless a crash or a lost *)
(* answer to SetUserGitlabAccount swallowed the ticket (login.go:282-299).  *)
NobodyForgotten == \A u \in UserIds : u \in Waiting => u \in dropped \/ HasTicket(u)

(* GitLab answers 403 to the README commit when master is protected, and    *)
(* InitializeProject takes that for success (gitlab.go:107).  It is right   *)
(* to: whatever attempt was cut short, a protected master has its README.   *)
ProtectedHasReadme ==
    \A p \in ProjectNames :
      /\ projects[p].protected => projects[p].readme
      /\ projects[p].readme \/ projects[p].members # {} => projects[p].exists

(* A repository in the database is a finished one: the project exists, has  *)
(* its README, master is protected and the user is a member, although every *)
(* one of these calls may fail, be repeated or lose its answer.  It bears   *)
(* the user's own name and login, and the user's group unless the API has   *)
(* moved the user: the scorer looks for pipelines under MakeProjectName of  *)
(* the row (scorer.go:79), so this is what makes submissions count.         *)
RepoReady ==
    \A u \in UserIds :
      Registered(u) /\ users[u].repo # NoRepo =>
        LET r == users[u] IN
        /\ r.account # NoAccount
        /\ projects[r.repo].exists
        /\ projects[r.repo].readme
        /\ projects[r.repo].protected
        /\ r.account \in projects[r.repo].members
        /\ r.repo.name = CleanupName[r.name]
        /\ r.repo.login = CleanupLogin[r.account]
        /\ u \in moved \/ r.repo = MakeProjectName(r)

(* What the maker has already achieved for the user in its hands, and which  *)
(* loop it is in.                                                           *)
MakerProgress ==
    /\ pc \in {"list", "next"} => sweeping
    /\ pc \in {"select", "requeue"} => ~sweeping
    /\ pc \in BusySteps => current # NoSnapshot
    /\ pc \in {"readme", "protect", "members", "add", "setrepo"} =>
          projects[CurrentProject].exists
    /\ pc \in {"protect", "members", "add", "setrepo"} =>
          projects[CurrentProject].readme
    /\ pc \in {"members", "add", "setrepo"} => projects[CurrentProject].protected
    /\ pc = "setrepo" => current.account \in projects[CurrentProject].members

(* The copy of a row a login handler works with: still the row's name, and  *)
(* its group unless the API has changed it.  A token names a registered     *)
(* user.                                                                    *)
RequestsCurrent ==
    /\ \A b \in Browsers : cookie[b].token # NoUser => Registered(cookie[b].token)
    /\ \A b \in Browsers :
         req[b].phase \in {"exchange", "commit"} /\ req[b].user # NoSnapshot =>
           LET s == req[b].user IN
           /\ Registered(s.id)
           /\ users[s.id].name = s.name
           /\ s.id \in moved \/ users[s.id].group = s.group
           /\ req[b].phase = "commit" => s.account # NoAccount

(* The inductive invariant: the properties above are not inductive one by   *)
(* one (a finished repository needs the progress of the maker, the progress *)
(* needs current copies, the copies need what the handlers hold).           *)
IInv ==
    /\ TypeOK
    /\ RequestsCurrent
    /\ SnapshotsCurrent
    /\ OneTicket
    /\ NobodyForgotten
    /\ ProtectedHasReadme
    /\ MakerProgress
    /\ RepoReady

(* Onboarding keeps the promise of Enrollment: linking is exclusive and     *)
(* final, also when two browsers race for one user or for one account, and  *)
(* a repository is only ever that of the linked account and never vanishes. *)
Promise == INSTANCE Enrollment WITH
    Homes <- ProjectNames,
    HomesOf <- [a \in Accounts |->
                  {p \in ProjectNames : p.login = CleanupLogin[a]}],
    NoHome <- NoRepo,
    roll <- {u \in UserIds : Registered(u)},
    account <- [u \in UserIds |-> IF Linked(u) THEN users[u].account
                                              ELSE NoAccount],
    home <- [u \in UserIds |-> IF Registered(u) THEN users[u].repo ELSE NoRepo]

KeepsPromise == Promise!EnrollmentSpec
-----------------------------------------------------------------------------
(* Fairness is that of the maker; browsers owe nothing. *)
FairSpec ==
    /\ Spec
    /\ WF_vars(AsyncPrepareProject /\ MakerStep)
    /\ WF_vars((ListMissing \/ NextMissing \/ EndSweep) /\ MakerStep)
    /\ WF_vars(Receive /\ MakerStep)
    /\ WF_vars(Tick /\ MakerStep)
    /\ WF_vars(Requeue /\ MakerStep)
    /\ \A step \in CallSteps : SF_vars(CallAnswered(step) /\ MakerStep)

(* Every linked user ends up with a repository, because the maker looks for *)
(* missing ones at the interval pullIntervals.projects (projects.go:35, 46).*)
LinkedServed == \A u \in UserIds : u \in Waiting ~> HasRepo(u)
=============================================================================
