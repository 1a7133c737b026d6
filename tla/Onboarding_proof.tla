--------------------------- MODULE Onboarding_proof ---------------------------
(***************************************************************************)
(* Proofs about Onboarding, for every choice of its constants: any number   *)
(* of users, browsers, accounts and groups, any capacity of the channel and *)
(* any set of faults.                                                       *)
(***************************************************************************)
EXTENDS Onboarding, SequenceTheorems, TLAPS

USE UserTableAssumption, ProjectsMakerAssumption
-----------------------------------------------------------------------------
(* Facts about the data *)

(* A registered user's columns have their types, and so has its snapshot. *)
LEMMA RowTypes ==
    ASSUME UsersTypeOK, NEW u \in UserIds, Registered(u)
    PROVE  users[u] \in Row /\ SnapshotOf(u) \in Snapshot
  BY DEF UsersTypeOK, Registered, SnapshotOf, Row, Snapshot

(* A snapshot with an account names a project. *)
LEMMA ProjectNameTypes ==
    ASSUME NEW s \in Snapshot, s.account # NoAccount
    PROVE  MakeProjectName(s) \in ProjectNames
  BY DEF MakeProjectName, ProjectNames, Snapshot

(* Updating one column of one row. *)
LEMMA AccountColumn ==
    ASSUME UsersTypeOK, NEW u \in UserIds, users[u] \in Row,
           NEW x \in Accounts, NEW T, T = [users EXCEPT ![u].account = x]
    PROVE  /\ T \in [UserIds -> Row \cup {NoRow}]
           /\ T[u] \in Row /\ T[u] # NoRow
           /\ \A v \in UserIds \ {u} : T[v] = users[v]
           /\ T[u].account = x
           /\ T[u].name = users[u].name /\ T[u].group = users[u].group /\ T[u].repo = users[u].repo
<1>1. /\ DOMAIN T = UserIds
      /\ \A v \in UserIds \ {u} : T[v] = users[v]
      /\ T[u] = [users[u] EXCEPT !.account = x]
  BY DEF UsersTypeOK
<1>2. \A r \in Row : LET t == [r EXCEPT !.account = x] IN
        /\ t \in Row /\ t.account = x
        /\ t.name = r.name /\ t.group = r.group /\ t.repo = r.repo
  BY DEF Row
<1>3. T = [v \in UserIds |-> T[v]]
  BY DEF UsersTypeOK
<1> QED BY <1>1, <1>2, <1>3 DEF UsersTypeOK

(* Storing a repository in one row keeps the other columns and rows. *)
LEMMA RepoColumn ==
    ASSUME UsersTypeOK, NEW u \in UserIds, users[u] \in Row,
           NEW x \in ProjectNames, NEW T, T = [users EXCEPT ![u].repo = x]
    PROVE  /\ T \in [UserIds -> Row \cup {NoRow}]
           /\ T[u] \in Row /\ T[u] # NoRow
           /\ \A v \in UserIds \ {u} : T[v] = users[v]
           /\ T[u].repo = x
           /\ T[u].name = users[u].name /\ T[u].group = users[u].group /\ T[u].account = users[u].account
<1>1. /\ DOMAIN T = UserIds
      /\ \A v \in UserIds \ {u} : T[v] = users[v]
      /\ T[u] = [users[u] EXCEPT !.repo = x]
  BY DEF UsersTypeOK
<1>2. \A r \in Row : LET t == [r EXCEPT !.repo = x] IN
        /\ t \in Row /\ t.repo = x
        /\ t.name = r.name /\ t.group = r.group /\ t.account = r.account
  BY DEF Row
<1>3. T = [v \in UserIds |-> T[v]]
  BY DEF UsersTypeOK
<1> QED BY <1>1, <1>2, <1>3 DEF UsersTypeOK

(* Changing the group of one row keeps the other columns and rows. *)
LEMMA GroupColumn ==
    ASSUME UsersTypeOK, NEW u \in UserIds, users[u] \in Row,
           NEW x \in Groups, NEW T, T = [users EXCEPT ![u].group = x]
    PROVE  /\ T \in [UserIds -> Row \cup {NoRow}]
           /\ T[u] \in Row /\ T[u] # NoRow
           /\ \A v \in UserIds \ {u} : T[v] = users[v]
           /\ T[u].group = x
           /\ T[u].name = users[u].name /\ T[u].account = users[u].account /\ T[u].repo = users[u].repo
<1>1. /\ DOMAIN T = UserIds
      /\ \A v \in UserIds \ {u} : T[v] = users[v]
      /\ T[u] = [users[u] EXCEPT !.group = x]
  BY DEF UsersTypeOK
<1>2. \A r \in Row : LET t == [r EXCEPT !.group = x] IN
        /\ t \in Row /\ t.group = x
        /\ t.name = r.name /\ t.account = r.account /\ t.repo = r.repo
  BY DEF Row
<1>3. T = [v \in UserIds |-> T[v]]
  BY DEF UsersTypeOK
<1> QED BY <1>1, <1>2, <1>3 DEF UsersTypeOK

(* Receiving from the channel and sending to it. *)
LEMMA QueueTail ==
    ASSUME NEW S, NEW q \in Seq(S), q # <<>>
    PROVE  /\ Tail(q) \in Seq(S) /\ Head(q) \in S
           /\ 1 \in DOMAIN q /\ Head(q) = q[1]
           /\ \A i \in DOMAIN Tail(q) : i + 1 \in DOMAIN q /\ Tail(q)[i] = q[i + 1]
           /\ \A i \in DOMAIN q : i = 1 \/ (i - 1 \in DOMAIN Tail(q) /\ q[i] = Tail(q)[i - 1])
           /\ DOMAIN q \subseteq Nat /\ DOMAIN Tail(q) \subseteq Nat
  BY HeadTailProperties, LenProperties

(* Sending appends one element and keeps the others. *)
LEMMA QueueAppend ==
    ASSUME NEW S, NEW q \in Seq(S), NEW e \in S
    PROVE  /\ Append(q, e) \in Seq(S)
           /\ DOMAIN Append(q, e) = DOMAIN q \cup {Len(q) + 1}
           /\ Len(q) + 1 \notin DOMAIN q
           /\ Append(q, e)[Len(q) + 1] = e
           /\ \A i \in DOMAIN q : Append(q, e)[i] = q[i]
  BY AppendProperties, LenProperties
-----------------------------------------------------------------------------
(* Type correctness *)

(* The user in the maker's hands is linked, and has a project name. *)
LEMMA CurrentFacts ==
    ASSUME IInv, pc \in BusySteps
    PROVE  /\ current \in Snapshot
           /\ current \in Held
           /\ Linked(current.id)
           /\ current.id \in UserIds
           /\ users[current.id] \in Row
           /\ users[current.id].account = current.account
           /\ users[current.id].name = current.name
           /\ current.id \in moved \/ users[current.id].group = current.group
           /\ current.account \in Accounts
           /\ CurrentProject \in ProjectNames
<1>1. current \in Snapshot /\ current \in Held
  BY DEF IInv, TypeOK, MakerTypeOK, MakerProgress, Held
<1>2. /\ Linked(current.id)
      /\ users[current.id].account = current.account
      /\ users[current.id].name = current.name
      /\ current.id \in moved \/ users[current.id].group = current.group
  BY <1>1 DEF IInv, SnapshotsCurrent
<1>3. current.id \in UserIds /\ current.account \in Accounts
  BY <1>1, <1>2 DEF Linked, Snapshot
<1>4. users[current.id] \in Row
  BY <1>2, <1>3, RowTypes DEF Linked, IInv, TypeOK
<1>5. CurrentProject \in ProjectNames
  BY <1>1, <1>3, ProjectNameTypes DEF CurrentProject
<1> QED BY <1>1, <1>2, <1>3, <1>4, <1>5

(* Setting a field of a project leaves a project. *)
LEMMA ProjectFields ==
    ASSUME NEW ps \in [ProjectNames -> Project], NEW n \in ProjectNames, NEW a \in Accounts
    PROVE  /\ [ps EXCEPT ![n].exists = TRUE] \in [ProjectNames -> Project]
           /\ [ps EXCEPT ![n].readme = TRUE] \in [ProjectNames -> Project]
           /\ [ps EXCEPT ![n].protected = TRUE] \in [ProjectNames -> Project]
           /\ [ps EXCEPT ![n].members = @ \cup {a}] \in [ProjectNames -> Project]
<1>1. ps[n] \in Project
  OBVIOUS
<1>2. ASSUME NEW r \in Project
      PROVE  [ps EXCEPT ![n] = r] \in [ProjectNames -> Project]
  OBVIOUS
<1>3. /\ [ps[n] EXCEPT !.exists = TRUE] \in Project
      /\ [ps[n] EXCEPT !.readme = TRUE] \in Project
      /\ [ps[n] EXCEPT !.protected = TRUE] \in Project
  BY <1>1 DEF Project
<1>4. [ps[n] EXCEPT !.members = @ \cup {a}] \in Project
  BY <1>1 DEF Project
<1> QED BY <1>2, <1>3, <1>4

(* Every step of the maker keeps the types. *)
LEMMA MakerTypes ==
    ASSUME IInv, MakerStep
    PROVE  TypeOK'
<1> USE DEF TypeOK, UsersTypeOK, MakerTypeOK, LoginTypeOK, loginVars, BusySteps, CallSteps
<1> TypeOK
  BY DEF IInv
<1>1. UNCHANGED <<cookie, req, moved, dropped>>
  BY DEF MakerStep
<1>2. CASE ListMissing
  <2>1. ListUsersWithoutRepos \subseteq Snapshot
    BY RowTypes DEF ListUsersWithoutRepos, Linked
  <2> QED BY <1>1, <1>2, <2>1 DEF ListMissing
<1>3. CASE NextMissing
  BY <1>1, <1>3 DEF NextMissing, Begin, AfterFailure
<1>4. CASE EndSweep
  BY <1>1, <1>4 DEF EndSweep
<1>5. CASE Receive
  BY <1>1, <1>5, QueueTail DEF Receive, Begin, AfterFailure
<1>6. CASE Tick
  BY <1>1, <1>6 DEF Tick
<1>7. CASE Requeue
  <2>1. current \in Snapshot
    BY <1>7, CurrentFacts DEF Requeue
  <2> QED BY <1>1, <1>7, <2>1, QueueAppend DEF Requeue
<1>8. CASE AsyncPrepareProject
  BY <1>1, <1>8, QueueAppend DEF AsyncPrepareProject
<1>9. CASE GetProject
  BY <1>1, <1>9 DEF GetProject, Answered
<1>10. CASE CreateProject
  <2>1. CurrentProject \in ProjectNames /\ current.account \in Accounts
    BY <1>10, CurrentFacts DEF CreateProject
  <2>2. projects' \in [ProjectNames -> Project]
    BY <1>10, <2>1, ProjectFields DEF CreateProject
  <2> QED BY <1>1, <1>10, <2>2 DEF CreateProject, Reply, Answered, GiveUp, AfterFailure
<1>11. CASE CreateReadme
  <2>1. CurrentProject \in ProjectNames /\ current.account \in Accounts
    BY <1>11, CurrentFacts DEF CreateReadme
  <2>2. projects' \in [ProjectNames -> Project]
    <3>1. CASE projects' = projects
      BY <3>1
    <3>2. CASE projects' = [projects EXCEPT ![CurrentProject].readme = TRUE]
      BY <3>2, <2>1, ProjectFields
    <3> QED BY <1>11, <3>1, <3>2 DEF CreateReadme
  <2> QED BY <1>1, <1>11, <2>2 DEF CreateReadme, Reply, Answered, GiveUp, AfterFailure
<1>12. CASE ProtectMaster
  <2>1. CurrentProject \in ProjectNames /\ current.account \in Accounts
    BY <1>12, CurrentFacts DEF ProtectMaster
  <2>2. projects' \in [ProjectNames -> Project]
    BY <1>12, <2>1, ProjectFields DEF ProtectMaster
  <2> QED BY <1>1, <1>12, <2>2 DEF ProtectMaster, Reply, Answered, GiveUp, AfterFailure
<1>13. CASE ListMembers
  BY <1>1, <1>13 DEF ListMembers, Answered
<1>14. CASE AddMember
  <2>1. CurrentProject \in ProjectNames /\ current.account \in Accounts
    BY <1>14, CurrentFacts DEF AddMember
  <2>2. projects' \in [ProjectNames -> Project]
    BY <1>14, <2>1, ProjectFields DEF AddMember
  <2> QED BY <1>1, <1>14, <2>2 DEF AddMember, Reply, Answered, GiveUp, AfterFailure
<1>15. CASE SetRepository
  <2>1. /\ current.id \in UserIds /\ CurrentProject \in ProjectNames
        /\ users[current.id] \in Row
    BY <1>15, CurrentFacts DEF SetRepository
  <2>2. users' \in [UserIds -> Row \cup {NoRow}]
    BY <1>15, <2>1 DEF SetRepository, SetUserRepository, Row
  <2> QED BY <1>1, <1>15, <2>2 DEF SetRepository, Done, GiveUp, AfterFailure, AfterSuccess
<1>16. CASE CallFails
  BY <1>1, <1>16 DEF CallFails, GiveUp, AfterFailure
<1> QED
  BY <1>2, <1>3, <1>4, <1>5, <1>6, <1>7, <1>8, <1>9, <1>10, <1>11, <1>12, <1>13,
     <1>14, <1>15, <1>16 DEF MakerStep, MakerNext

(* Every step of a login handler keeps the types. *)
LEMMA LoginTypes ==
    ASSUME IInv, LoginStep
    PROVE  TypeOK'
<1> USE DEF TypeOK, UsersTypeOK, LoginTypeOK
<1> TypeOK
  BY DEF IInv
<1>1. moved' = moved /\ dropped' \subseteq UserIds
  BY DEF LoginStep, LinkedUnsent
<1>2. PICK b \in Browsers :
        \/ \E n \in Names, g \in Groups : SignupForm(b, n, g)
        \/ SignupInsert(b) \/ Login(b) \/ Logout(b) \/ Oauth(b)
        \/ \E a \in Accounts : OauthResolve(b, a)
        \/ OauthCommit(b) \/ RequestFails(b)
  BY DEF LoginStep, LoginNext
<1>3. req[b] \in Request /\ Idle \in Request
  BY DEF Request
<1>4. ASSUME NEW u \in UserIds \cup {NoUser}, FillSession(b, u)
      PROVE  LoginTypeOK'
  BY <1>3, <1>4 DEF FillSession
<1>5. ASSUME RedirectToSignup(b)
      PROVE  LoginTypeOK'
  BY <1>4, <1>5 DEF RedirectToSignup
<1>6. ASSUME NEW n \in Names, NEW g \in Groups, SignupForm(b, n, g)
      PROVE  TypeOK'
  <2>1. UNCHANGED <<users, makerVars>>
    BY <1>6 DEF SignupForm
  <2>2. [phase |-> "insert", name |-> n, group |-> g] \in Request
    BY DEF Request
  <2>3. LoginTypeOK'
    BY <1>4, <1>5, <1>6, <2>2 DEF SignupForm, FindUserByName
  <2> QED BY <1>1, <2>1, <2>3 DEF makerVars, MakerTypeOK
<1>7. CASE SignupInsert(b)
  <2>1. UNCHANGED makerVars
    BY <1>7 DEF SignupInsert
  <2>2. req[b].name \in Names /\ req[b].group \in Groups
    BY <1>3, <1>7 DEF SignupInsert, Request, Idle
  <2>3. UsersTypeOK'
    BY <1>7, <2>2 DEF SignupInsert, InsertUser, Row
  <2>4. LoginTypeOK'
    BY <1>4, <1>5, <1>7 DEF SignupInsert
  <2> QED BY <1>1, <2>1, <2>3, <2>4 DEF makerVars, MakerTypeOK
<1>8. CASE Login(b)
  BY <1>1, <1>8 DEF Login, makerVars, MakerTypeOK
<1>9. CASE Logout(b)
  BY <1>1, <1>5, <1>9 DEF Logout, makerVars, MakerTypeOK
<1>10. CASE Oauth(b)
  <2>1. cookie[b].token # NoUser =>
           cookie[b].token \in UserIds /\ Registered(cookie[b].token)
    BY DEF IInv, RequestsCurrent
  <2>2. cookie[b].token # NoUser => SnapshotOf(cookie[b].token) \in Snapshot
    BY <2>1, RowTypes
  <2>3. LoginTypeOK'
    BY <1>10, <2>2 DEF Oauth, Request
  <2> QED BY <1>1, <1>10, <2>3 DEF Oauth, makerVars, MakerTypeOK
<1>11. ASSUME NEW a \in Accounts, OauthResolve(b, a)
       PROVE  TypeOK'
  <2>1. req[b].user \in Snapshot \cup {NoSnapshot}
    BY <1>3, <1>11 DEF OauthResolve, Request, Idle
  <2>2. req[b].user # NoSnapshot => req[b].user.id \in UserIds
                                    /\ [req[b].user EXCEPT !.account = a] \in Snapshot
    BY <2>1 DEF Snapshot
  <2>3. LoginTypeOK'
    <3>1. CASE \E u \in UserIds : FillSession(b, u)
      BY <1>4, <3>1
    <3>2. CASE RedirectToSignup(b)
      BY <1>5, <3>2
    <3>3. CASE /\ req[b].user # NoSnapshot /\ UNCHANGED cookie
               /\ req' = [req EXCEPT ![b] = [phase |-> "commit",
                                             user |-> [req[b].user EXCEPT !.account = a]]]
      <4>1. [phase |-> "commit", user |-> [req[b].user EXCEPT !.account = a]] \in Request
        BY <2>2, <3>3 DEF Request
      <4> QED BY <3>3, <4>1
    <3> QED BY <1>11, <2>2, <3>1, <3>2, <3>3 DEF OauthResolve, FindUserByAccount
  <2> QED BY <1>1, <1>11, <2>3 DEF OauthResolve, makerVars, MakerTypeOK
<1>12. CASE OauthCommit(b)
  <2>1. /\ req[b].user \in Snapshot
        /\ users[req[b].user.id] \in Row
        /\ req[b].user.id \in UserIds
        /\ req[b].user.account \in Accounts
    <3>1. req[b].user \in Snapshot
      BY <1>3, <1>12 DEF OauthCommit, Request, Idle
    <3>2. Registered(req[b].user.id) /\ req[b].user.account # NoAccount
      BY <1>12, <3>1 DEF OauthCommit, IInv, RequestsCurrent
    <3> QED BY <3>1, <3>2, RowTypes DEF Snapshot
  <2>2. UsersTypeOK'
    BY <1>12, <2>1 DEF OauthCommit, SetUserGitlabAccount, Row
  <2>3. LoginTypeOK'
    BY <1>3, <1>5, <1>12 DEF OauthCommit
  <2>4. MakerTypeOK'
    BY <1>12, <2>1 DEF OauthCommit, MakerTypeOK
  <2> QED BY <1>1, <2>2, <2>3, <2>4
<1>13. CASE RequestFails(b)
  BY <1>1, <1>5, <1>13 DEF RequestFails, makerVars, MakerTypeOK
<1> QED
  BY <1>2, <1>6, <1>7, <1>8, <1>9, <1>10, <1>11, <1>12, <1>13

(* A change of group and a restart keep the types. *)
LEMMA OtherTypes ==
    ASSUME IInv,
           Restart \/ \E a \in Accounts, g \in Groups : ChangeGroup(a, g)
    PROVE  TypeOK'
<1> USE DEF TypeOK, UsersTypeOK, LoginTypeOK, MakerTypeOK
<1> TypeOK
  BY DEF IInv
<1>1. CASE Restart
  BY <1>1, EmptySeq DEF Restart, Request, BusySteps, CallSteps, Waiting
<1>2. ASSUME NEW a \in Accounts, NEW g \in Groups, ChangeGroup(a, g)
      PROVE  TypeOK'
  <2>1. PICK u \in FindUserByAccount(a) : SetUserGroupName(u, g) /\ moved' = moved \cup {u}
    BY <1>2 DEF ChangeGroup
  <2>2. u \in UserIds /\ users[u] \in Row
    BY RowTypes DEF FindUserByAccount, Linked
  <2>3. UsersTypeOK'
    BY <2>1, <2>2 DEF SetUserGroupName, Row
  <2> QED BY <1>2, <2>1, <2>2, <2>3 DEF ChangeGroup, makerVars, loginVars
<1> QED BY <1>1, <1>2
-----------------------------------------------------------------------------
(* What a step may do to a row, and so to the copies made of it *)

(* A registered user stays registered under its name, an account once       *)
(* linked stays, and a group changes only when the API moves the user.      *)
RowKept(u) ==
    Registered(u) =>
      /\ Registered(u)'
      /\ users'[u].name = users[u].name
      /\ users[u].account # NoAccount => users'[u].account = users[u].account
      /\ u \in moved' \/ users'[u].group = users[u].group

(* The maker only writes the repository column of a linked row. *)
LEMMA MakerRows ==
    ASSUME IInv, MakerStep
    PROVE  /\ moved' = moved
           /\ \/ users' = users
              \/ SetRepository
  BY DEF MakerStep, MakerNext, ListMissing, NextMissing, EndSweep, Receive, Tick,
         Requeue, AsyncPrepareProject, GetProject, CreateProject, CreateReadme,
         ProtectMaster, ListMembers, AddMember, CallFails

(* A login handler only inserts rows and links unlinked ones. *)
LEMMA LoginRows ==
    ASSUME IInv, LoginStep
    PROVE  /\ moved' = moved
           /\ \/ users' = users
              \/ \E b \in Browsers : SignupInsert(b)
              \/ \E b \in Browsers : OauthCommit(b)
  BY DEF LoginStep, LoginNext, SignupForm, Login, Logout, Oauth, OauthResolve,
         RequestFails

(* The copy a handler is about to commit belongs to a registered user. *)
LEMMA CommitFacts ==
    ASSUME IInv, NEW b \in Browsers, req[b].phase = "commit"
    PROVE  /\ req[b].user \in Snapshot
           /\ req[b].user.id \in UserIds
           /\ req[b].user.account \in Accounts
           /\ Registered(req[b].user.id)
           /\ users[req[b].user.id] \in Row
           /\ users[req[b].user.id].name = req[b].user.name
           /\ req[b].user.id \in moved
              \/ users[req[b].user.id].group = req[b].user.group
<1>1. req[b] \in Request
  BY DEF IInv, TypeOK, LoginTypeOK
<1>2. req[b].user \in Snapshot
  BY <1>1 DEF Request, Idle
<1>3. /\ Registered(req[b].user.id) /\ req[b].user.account # NoAccount
      /\ users[req[b].user.id].name = req[b].user.name
      /\ req[b].user.id \in moved
         \/ users[req[b].user.id].group = req[b].user.group
  BY <1>2 DEF IInv, RequestsCurrent
<1> QED BY <1>2, <1>3, RowTypes DEF Snapshot, IInv, TypeOK

(* No step unregisters or relinks a user, renames it or moves it unseen. *)
LEMMA RowsKept ==
    ASSUME IInv, Next
    PROVE  moved \subseteq moved' /\ \A u \in UserIds : RowKept(u)
<1> USE DEF RowKept, Registered
<1>0. UsersTypeOK
  BY DEF IInv, TypeOK
<1>1. CASE users' = users /\ moved' = moved
  BY <1>1
<1>2. CASE moved' = moved /\ SetRepository
  <2>1. current.id \in UserIds /\ users[current.id] \in Row
    BY <1>2, CurrentFacts DEF SetRepository, BusySteps, CallSteps
  <2>2. users' = [users EXCEPT ![current.id].repo = CurrentProject]
    BY <1>2 DEF SetRepository, SetUserRepository
  <2>3. CurrentProject \in ProjectNames
    BY <1>2, CurrentFacts DEF SetRepository, BusySteps, CallSteps
  <2> QED BY <1>0, <1>2, <2>1, <2>2, <2>3, RepoColumn
<1>3. ASSUME NEW b \in Browsers, SignupInsert(b), moved' = moved
      PROVE  \A u \in UserIds : RowKept(u)
  BY <1>0, <1>3 DEF SignupInsert, InsertUser, UsersTypeOK, Row
<1>4. ASSUME NEW b \in Browsers, OauthCommit(b), moved' = moved
      PROVE  \A u \in UserIds : RowKept(u)
  <2>1. CASE users' = users
    BY <1>4, <2>1
  <2>2. CASE /\ GitlabAccountFree(req[b].user.id, req[b].user.account)
             /\ SetUserGitlabAccount(req[b].user.id, req[b].user.account)
    <3>1. /\ req[b].user.id \in UserIds /\ users[req[b].user.id] \in Row
          /\ req[b].user.account \in Accounts
      BY <1>4, CommitFacts DEF OauthCommit
    <3>2. users[req[b].user.id].account = NoAccount
      BY <2>2, <3>1 DEF GitlabAccountFree, Linked
    <3> QED BY <1>0, <1>4, <2>2, <3>1, <3>2, AccountColumn DEF SetUserGitlabAccount
  <2> QED BY <1>4, <2>1, <2>2 DEF OauthCommit
<1>5. ASSUME NEW a \in Accounts, NEW g \in Groups, ChangeGroup(a, g)
      PROVE  moved \subseteq moved' /\ \A u \in UserIds : RowKept(u)
  <2>1. PICK v \in FindUserByAccount(a) : SetUserGroupName(v, g) /\ moved' = moved \cup {v}
    BY <1>5 DEF ChangeGroup
  <2>2. v \in UserIds /\ users[v] \in Row
    BY <1>0, RowTypes DEF FindUserByAccount, Linked
  <2> QED BY <1>0, <2>1, <2>2, GroupColumn DEF SetUserGroupName
<1>6. CASE Restart
  BY <1>1, <1>6 DEF Restart
<1> QED
  BY <1>1, <1>2, <1>3, <1>4, <1>5, <1>6, MakerRows, LoginRows DEF Next

(* A copy that agrees with its row about name and group goes on doing so. *)
CopyKept(s) ==
    /\ Registered(s.id)
    /\ users[s.id].name = s.name
    /\ s.id \in moved \/ users[s.id].group = s.group

(* A copy that agrees with its row agrees with it after any step. *)
LEMMA CopiesKept ==
    ASSUME IInv, Next, NEW s \in Snapshot, CopyKept(s)
    PROVE  CopyKept(s)' /\ (Linked(s.id) => Linked(s.id)'
                                            /\ users'[s.id].account = users[s.id].account)
  BY RowsKept DEF CopyKept, RowKept, Linked, Snapshot

(* What RequestsCurrent says of one browser. *)
TokenKnown(b) == cookie[b].token # NoUser => Registered(cookie[b].token)
RequestCurrent(b) ==
    req[b].phase \in {"exchange", "commit"} /\ req[b].user # NoSnapshot =>
      /\ CopyKept(req[b].user)
      /\ req[b].phase = "commit" => req[b].user.account # NoAccount

(* RequestsCurrent, browser by browser. *)
LEMMA RequestsCurrentParts ==
    RequestsCurrent <=> \A b \in Browsers : TokenKnown(b) /\ RequestCurrent(b)
  BY DEF RequestsCurrent, TokenKnown, RequestCurrent, CopyKept

(* A browser whose cookie and request a step leaves alone stays current. *)
LEMMA BrowserUntouched ==
    ASSUME IInv, Next, NEW b \in Browsers
    PROVE  /\ cookie'[b] = cookie[b] => TokenKnown(b)'
           /\ req'[b] = req[b] => RequestCurrent(b)'
           /\ req'[b] = Idle => RequestCurrent(b)'
<1> TokenKnown(b) /\ RequestCurrent(b)
  BY RequestsCurrentParts DEF IInv
<1>1. ASSUME cookie'[b] = cookie[b]
      PROVE  TokenKnown(b)'
  <2>1. cookie[b].token \in UserIds \cup {NoUser}
    BY DEF IInv, TypeOK, LoginTypeOK
  <2> QED BY <1>1, <2>1, RowsKept DEF TokenKnown, RowKept
<1>2. ASSUME req'[b] = req[b]
      PROVE  RequestCurrent(b)'
  <2>1. req[b].phase \in {"exchange", "commit"} /\ req[b].user # NoSnapshot
          => req[b].user \in Snapshot
    BY DEF IInv, TypeOK, LoginTypeOK, Request, Idle
  <2> QED BY <1>2, <2>1, CopiesKept DEF RequestCurrent, CopyKept
<1>3. ASSUME req'[b] = Idle
      PROVE  RequestCurrent(b)'
  BY <1>3 DEF RequestCurrent, Idle
<1> QED BY <1>1, <1>2, <1>3

(* Every step keeps RequestsCurrent. *)
LEMMA RequestsStep ==
    ASSUME IInv, Next
    PROVE  RequestsCurrent'
<1> SUFFICES ASSUME NEW c \in Browsers
             PROVE  TokenKnown(c)' /\ RequestCurrent(c)'
  BY DEF RequestsCurrent, TokenKnown, RequestCurrent, CopyKept
<1>1. CASE MakerStep
  BY <1>1, BrowserUntouched DEF MakerStep, loginVars
<1>2. CASE \E a \in Accounts, g \in Groups : ChangeGroup(a, g)
  BY <1>2, BrowserUntouched DEF ChangeGroup, loginVars
<1>3. CASE Restart
  BY <1>3, BrowserUntouched DEF Restart
<1>4. CASE LoginStep
  <2> USE DEF TypeOK, LoginTypeOK
  <2> TypeOK /\ RequestsCurrent
    BY DEF IInv
  <2>1. PICK b \in Browsers :
          \/ \E n \in Names, g \in Groups : SignupForm(b, n, g)
          \/ SignupInsert(b) \/ Login(b) \/ Logout(b) \/ Oauth(b)
          \/ \E a \in Accounts : OauthResolve(b, a)
          \/ OauthCommit(b) \/ RequestFails(b)
    BY <1>4 DEF LoginStep, LoginNext
  <2>2. ASSUME NEW u, FillSession(b, u), u = NoUser \/ Registered(u)'
        PROVE  TokenKnown(c)' /\ RequestCurrent(c)'
    <3>1. CASE c = b
      <4>1. cookie'[b].token = u /\ req'[b] = Idle
        BY <2>2 DEF FillSession
      <4> QED BY <2>2, <3>1, <4>1, BrowserUntouched DEF TokenKnown
    <3>2. CASE c # b
      BY <2>2, <3>2, BrowserUntouched DEF FillSession
    <3> QED BY <3>1, <3>2
  <2>3. ASSUME RedirectToSignup(b)
        PROVE  TokenKnown(c)' /\ RequestCurrent(c)'
    BY <2>2, <2>3 DEF RedirectToSignup
  <2>4. ASSUME NEW u \in UserIds, FillSession(b, u), Registered(u)
        PROVE  TokenKnown(c)' /\ RequestCurrent(c)'
    BY <2>2, <2>4, RowsKept DEF RowKept
  <2>5. ASSUME NEW r, req' = [req EXCEPT ![b] = r], UNCHANGED cookie,
               r.phase \in {"exchange", "commit"} /\ r.user # NoSnapshot =>
                 /\ CopyKept(r.user) /\ r.user \in Snapshot
                 /\ r.phase = "commit" => r.user.account # NoAccount
        PROVE  TokenKnown(c)' /\ RequestCurrent(c)'
    <3>1. CASE c = b
      <4>1. req'[b] = r
        BY <2>5
      <4> QED BY <2>5, <3>1, <4>1, BrowserUntouched, CopiesKept DEF RequestCurrent, CopyKept
    <3>2. CASE c # b
      BY <2>5, <3>2, BrowserUntouched
    <3> QED BY <3>1, <3>2
  <2>6. ASSUME NEW n \in Names, NEW g \in Groups, SignupForm(b, n, g)
        PROVE  TokenKnown(c)' /\ RequestCurrent(c)'
    <3>1. CASE /\ req' = [req EXCEPT ![b] = [phase |-> "insert", name |-> n, group |-> g]]
               /\ UNCHANGED cookie
      BY <2>5, <3>1
    <3>2. CASE \E u \in FindUserByName(n, g) :
                 IF Linked(u) THEN RedirectToSignup(b) ELSE FillSession(b, u)
      BY <2>3, <2>4, <3>2 DEF FindUserByName
    <3> QED BY <2>6, <3>1, <3>2 DEF SignupForm
  <2>7. CASE SignupInsert(b)
    <3>1. CASE RedirectToSignup(b)
      BY <2>3, <3>1
    <3>2. ASSUME NEW u \in UserIds, InsertUser(u, req[b].name, req[b].group), FillSession(b, u)
          PROVE  TokenKnown(c)' /\ RequestCurrent(c)'
      <4>1. req[b].name \in Names /\ req[b].group \in Groups
        BY <2>7 DEF SignupInsert, Request, Idle
      <4>2. Registered(u)'
        BY <3>2, <4>1 DEF InsertUser, Registered, UsersTypeOK, Row
      <4> QED BY <2>2, <3>2, <4>2
    <3> QED BY <2>7, <3>1, <3>2 DEF SignupInsert
  <2>8. CASE Login(b)
    <3>1. /\ \A d \in Browsers : req'[d] = req[d]
          /\ cookie'[c].token = cookie[c].token
      BY <2>8 DEF Login
    <3>2. cookie[c].token \in UserIds \cup {NoUser}
      OBVIOUS
    <3> QED BY <3>1, <3>2, BrowserUntouched, RowsKept, RequestsCurrentParts DEF TokenKnown, RowKept
  <2>9. CASE Logout(b)
    BY <2>3, <2>9 DEF Logout
  <2>10. CASE Oauth(b)
    <3> DEFINE s == IF cookie[b].token = NoUser THEN NoSnapshot ELSE SnapshotOf(cookie[b].token)
    <3>1. s # NoSnapshot => CopyKept(s) /\ s \in Snapshot
      <4>1. CASE cookie[b].token # NoUser
        <5>1. cookie[b].token \in UserIds /\ Registered(cookie[b].token)
          BY <4>1, RequestsCurrentParts DEF TokenKnown
        <5> QED BY <4>1, <5>1, RowTypes DEF SnapshotOf, CopyKept
      <4> QED BY <4>1
    <3>2. /\ req' = [req EXCEPT ![b] = [phase |-> "exchange", user |-> s]]
          /\ UNCHANGED cookie
      BY <2>10 DEF Oauth
    <3> QED BY <2>5, <3>1, <3>2
  <2>11. ASSUME NEW a \in Accounts, OauthResolve(b, a)
         PROVE  TokenKnown(c)' /\ RequestCurrent(c)'
    <3>1. /\ req[b].phase = "exchange"
          /\ req[b].user \in Snapshot \cup {NoSnapshot}
      BY <2>11 DEF OauthResolve, Request, Idle
    <3>2. req[b].user # NoSnapshot =>
             CopyKept(req[b].user) /\ req[b].user.id \in UserIds /\ Registered(req[b].user.id)
      BY <3>1, RequestsCurrentParts DEF RequestCurrent, CopyKept, Snapshot
    <3>3. CASE RedirectToSignup(b)
      BY <2>3, <3>3
    <3>4. CASE \E u \in FindUserByAccount(a) : FillSession(b, u)
      BY <2>4, <3>4 DEF FindUserByAccount, Linked
    <3>5. CASE req[b].user # NoSnapshot /\ FillSession(b, req[b].user.id)
      BY <2>4, <3>2, <3>5
    <3>6. CASE /\ req[b].user # NoSnapshot
               /\ req' = [req EXCEPT ![b] = [phase |-> "commit",
                                             user |-> [req[b].user EXCEPT !.account = a]]]
               /\ UNCHANGED cookie
      <4> DEFINE s == [req[b].user EXCEPT !.account = a]
      <4>1. /\ s \in Snapshot /\ s.account = a
            /\ s.id = req[b].user.id /\ s.name = req[b].user.name
            /\ s.group = req[b].user.group
        BY <3>1, <3>6 DEF Snapshot
      <4>2. CopyKept(s)
        BY <3>2, <3>6, <4>1 DEF CopyKept
      <4> HIDE DEF s
      <4>3. req' = [req EXCEPT ![b] = [phase |-> "commit", user |-> s]]
        BY <3>6 DEF s
      <4> QED BY <2>5, <3>6, <4>1, <4>2, <4>3
    <3> QED BY <2>11, <3>3, <3>4, <3>5, <3>6 DEF OauthResolve
  <2>12. CASE OauthCommit(b)
    <3>1. CASE RedirectToSignup(b)
      BY <2>3, <3>1
    <3>2. CASE req' = [req EXCEPT ![b] = Idle] /\ UNCHANGED cookie
      BY <2>5, <3>2 DEF Idle
    <3> QED BY <2>12, <3>1, <3>2 DEF OauthCommit
  <2>13. CASE RequestFails(b)
    BY <2>3, <2>13 DEF RequestFails
  <2> QED
    BY <2>1, <2>6, <2>7, <2>8, <2>9, <2>10, <2>11, <2>12, <2>13
<1> QED BY <1>1, <1>2, <1>3, <1>4 DEF Next
-----------------------------------------------------------------------------
(* The maker's copies *)

Current(s) == CopyKept(s) /\ Linked(s.id) /\ users[s.id].account = s.account

(* A copy of a linked row stays a copy of a linked row. *)
LEMMA CurrentKept ==
    ASSUME IInv, Next, NEW s \in Snapshot, Current(s)
    PROVE  Current(s)'
  BY CopiesKept DEF Current

(* A copy read from the table now is current. *)
LEMMA ListedCurrent ==
    ASSUME IInv, NEW s \in ListUsersWithoutRepos
    PROVE  s \in Snapshot /\ Current(s)
<1>1. PICK u \in UserIds : Linked(u) /\ s = SnapshotOf(u)
  BY DEF ListUsersWithoutRepos
<1>2. SnapshotOf(u) \in Snapshot
  BY <1>1, RowTypes DEF IInv, TypeOK, Linked
<1> QED BY <1>1, <1>2 DEF Current, CopyKept, SnapshotOf, Linked

(* SnapshotsCurrent says that every copy held is current. *)
LEMMA HeldCurrent ==
    ASSUME IInv, NEW s \in Held
    PROVE  s \in Snapshot /\ Current(s)
<1>1. s \in Snapshot
  BY ElementOfSeq, LenProperties DEF IInv, TypeOK, MakerTypeOK, Held
<1> QED BY <1>1 DEF IInv, SnapshotsCurrent, Current, CopyKept, Linked

(* A maker step adds copies only by listing the table. *)
LEMMA MakerHeld ==
    ASSUME IInv, MakerStep
    PROVE  Held' \subseteq Held \cup ListUsersWithoutRepos
<1> USE DEF Held
<1>0. /\ queue \in Seq(Snapshot) /\ TypeOK
      /\ pc \in BusySteps => current \in Snapshot
  BY CurrentFacts DEF IInv, TypeOK, MakerTypeOK
<1>1. CASE ListMissing
  BY <1>1 DEF ListMissing
<1>2. CASE NextMissing
  BY <1>2 DEF NextMissing, Begin
<1>3. CASE EndSweep \/ Tick
  BY <1>3 DEF EndSweep, Tick
<1>4. CASE Receive
  BY <1>0, <1>4, QueueTail DEF Receive, Begin
<1>5. CASE Requeue
  BY <1>0, <1>5, QueueAppend DEF Requeue, BusySteps
<1>6. CASE AsyncPrepareProject
  BY <1>0, <1>6, QueueAppend DEF AsyncPrepareProject, TypeOK, MakerTypeOK
<1>7. CASE \/ GetProject \/ CreateProject \/ CreateReadme \/ ProtectMaster
           \/ ListMembers \/ AddMember \/ SetRepository \/ CallFails
  <2>1. /\ UNCHANGED <<queue, sending, todo>>
        /\ current' \in {current, NoSnapshot}
    BY <1>7 DEF GetProject, CreateProject, CreateReadme, ProtectMaster, ListMembers,
                AddMember, SetRepository, CallFails, Answered, Reply, GiveUp, Done
  <2> QED BY <2>1
<1> QED
  BY <1>1, <1>2, <1>3, <1>4, <1>5, <1>6, <1>7 DEF MakerStep, MakerNext

(* The copy a handler sends after a commit is current from then on. *)
LEMMA CommitCurrent ==
    ASSUME IInv, NEW b \in Browsers, OauthCommit(b), moved' = moved, users' # users,
           NEW s, s = req[b].user
    PROVE  /\ s \in Snapshot /\ s.id \in UserIds
           /\ Current(s)'
           /\ ~Linked(s.id) /\ Registered(s.id)
           /\ sending' \subseteq sending \cup {s}
           /\ \A v \in UserIds \ {s.id} : users'[v] = users[v]
           /\ users'[s.id].repo = users[s.id].repo
<1>1. /\ s \in Snapshot /\ s.id \in UserIds /\ s.account \in Accounts
      /\ Registered(s.id) /\ users[s.id] \in Row /\ CopyKept(s)
  BY CommitFacts DEF OauthCommit, CopyKept
<1>2. /\ ~Linked(s.id)
      /\ users' = [users EXCEPT ![s.id].account = s.account]
      /\ sending' \subseteq sending \cup {s}
  BY DEF OauthCommit, GitlabAccountFree, SetUserGitlabAccount
<1>3. /\ users'[s.id] # NoRow /\ users'[s.id].account = s.account
      /\ users'[s.id].name = users[s.id].name
      /\ users'[s.id].group = users[s.id].group
      /\ users'[s.id].repo = users[s.id].repo
      /\ \A v \in UserIds \ {s.id} : users'[v] = users[v]
  BY <1>1, <1>2, AccountColumn DEF IInv, TypeOK
<1>4. Current(s)'
  BY <1>1, <1>3 DEF Current, CopyKept, Linked, Registered
<1> QED BY <1>1, <1>2, <1>3, <1>4

(* Every step keeps SnapshotsCurrent. *)
LEMMA SnapshotsStep ==
    ASSUME IInv, Next
    PROVE  SnapshotsCurrent'
<1> SUFFICES ASSUME NEW s \in Held' PROVE Current(s)'
  BY DEF SnapshotsCurrent, Current, CopyKept
<1>1. CASE MakerStep
  BY <1>1, MakerHeld, HeldCurrent, ListedCurrent, CurrentKept
<1>2. CASE LoginStep
  <2>1. PICK b \in Browsers :
          \/ \E n \in Names, g \in Groups : SignupForm(b, n, g)
          \/ SignupInsert(b) \/ Login(b) \/ Logout(b) \/ Oauth(b)
          \/ \E a \in Accounts : OauthResolve(b, a)
          \/ OauthCommit(b) \/ RequestFails(b)
    BY <1>2 DEF LoginStep, LoginNext
  <2>2. CASE UNCHANGED makerVars
    BY <2>2, HeldCurrent, CurrentKept DEF makerVars, Held
  <2>3. CASE OauthCommit(b)
    <3>1. moved' = moved /\ UNCHANGED <<queue, todo, current>>
      BY <1>2, <2>3 DEF LoginStep, OauthCommit
    <3>2. CASE s \in Held
      BY <3>2, HeldCurrent, CurrentKept
    <3>3. CASE s \notin Held
      <4>1. sending' # sending
        BY <3>1, <3>3 DEF Held
      <4>2. users' # users
        <5>1. ~Linked(req[b].user.id) /\ users' = [users EXCEPT ![req[b].user.id].account = req[b].user.account]
          BY <2>3, <4>1 DEF OauthCommit, GitlabAccountFree, SetUserGitlabAccount
        <5>2. req[b].user.id \in UserIds /\ users[req[b].user.id] \in Row /\ req[b].user.account \in Accounts
               /\ Registered(req[b].user.id)
          BY <2>3, CommitFacts DEF OauthCommit
        <5> QED BY <5>1, <5>2, AccountColumn DEF IInv, TypeOK, Linked
      <4> QED BY <2>3, <3>1, <3>3, <4>2, CommitCurrent DEF Held
    <3> QED BY <3>2, <3>3
  <2> QED
    BY <2>1, <2>2, <2>3 DEF SignupForm, SignupInsert, Login, Logout, Oauth, OauthResolve,
                            RequestFails
<1>3. CASE \E a \in Accounts, g \in Groups : ChangeGroup(a, g)
  BY <1>3, HeldCurrent, CurrentKept DEF ChangeGroup, makerVars, Held
<1>4. CASE Restart
  BY <1>4 DEF Restart, Held
<1> QED BY <1>1, <1>2, <1>3, <1>4 DEF Next
-----------------------------------------------------------------------------
(* Tickets *)

(* What a call of maybeInitializeProject leaves alone, and how it ends. *)
LEMMA CallEffect ==
    ASSUME \/ GetProject \/ CreateProject \/ CreateReadme \/ ProtectMaster
           \/ ListMembers \/ AddMember \/ SetRepository \/ CallFails
    PROVE  /\ UNCHANGED <<queue, sending, sweeping, todo, timer>>
           /\ pc \in CallSteps
           /\ \/ current' = current
              \/ sweeping
              \/ SetRepository /\ Done
           /\ ~sweeping => pc' \in CallSteps \cup {"requeue", "select"}
           /\ sweeping => pc' \in CallSteps \cup {"next"}
           /\ ~sweeping /\ pc' = "select" => SetRepository /\ Done
<1> USE DEF Answered, Reply, GiveUp, Done, AfterSuccess, AfterFailure, CallSteps
<1>1. CASE GetProject
  BY <1>1 DEF GetProject
<1>2. CASE CreateProject
  BY <1>2 DEF CreateProject
<1>3. CASE CreateReadme
  BY <1>3 DEF CreateReadme
<1>4. CASE ProtectMaster
  BY <1>4 DEF ProtectMaster
<1>5. CASE ListMembers
  BY <1>5 DEF ListMembers
<1>6. CASE AddMember
  BY <1>6 DEF AddMember
<1>7. CASE SetRepository
  BY <1>7 DEF SetRepository
<1>8. CASE CallFails
  BY <1>8 DEF CallFails
<1> QED BY <1>1, <1>2, <1>3, <1>4, <1>5, <1>6, <1>7, <1>8

(* Receiving a ticket makes it the one the maker holds. *)
LEMMA ReceiveEffect ==
    ASSUME IInv, Receive
    PROVE  /\ pc' = "get" /\ current' = Head(queue) /\ ~sweeping
           /\ queue' = Tail(queue)
           /\ UNCHANGED <<users, sending, sweeping>>
<1>1. queue \in Seq(Snapshot) /\ queue # <<>> /\ ~sweeping
  BY DEF Receive, IInv, TypeOK, MakerTypeOK, MakerProgress
<1>2. Head(queue) \in Held
  BY <1>1, QueueTail DEF Held
<1>3. Head(queue).account # NoAccount
  BY <1>2, HeldCurrent DEF Current, Linked
<1> QED BY <1>1, <1>3 DEF Receive, Begin

(* Every step keeps OneTicket. *)
LEMMA TicketsStep ==
    ASSUME IInv, Next
    PROVE  OneTicket'
<1> USE DEF HoldsTicket, BusySteps
<1>0. /\ OneTicket /\ MakerProgress
      /\ queue \in Seq(Snapshot) /\ sending \subseteq Snapshot
  BY DEF IInv, TypeOK, MakerTypeOK
<1>1. ASSUME UNCHANGED <<queue, sending>>, sweeping' \/ pc' \notin BusySteps
      PROVE  OneTicket'
  BY <1>0, <1>1 DEF OneTicket
<1>2. ASSUME UNCHANGED <<queue, sending, sweeping, current>>, pc \in BusySteps
      PROVE  OneTicket'
  BY <1>0, <1>2 DEF OneTicket
<1>3. CASE MakerStep
  <2>1. CASE ListMissing \/ EndSweep \/ Tick
    BY <1>1, <2>1 DEF ListMissing, EndSweep, Tick, CallSteps
  <2>2. CASE NextMissing
    BY <1>0, <1>1, <2>2 DEF NextMissing, MakerProgress
  <2>3. CASE Receive
    BY <1>0, <2>3, ReceiveEffect, QueueTail DEF OneTicket, Receive, CallSteps
  <2>4. CASE Requeue
    <3>1. current \in Snapshot
      BY <2>4, CurrentFacts DEF Requeue
    <3>2. HoldsTicket
      BY <1>0, <2>4 DEF Requeue, MakerProgress
    <3>3. /\ queue' = Append(queue, current) /\ sending' = sending
          /\ ~HoldsTicket'
      BY <2>4 DEF Requeue, CallSteps
    <3> QED BY <1>0, <3>1, <3>2, <3>3, QueueAppend DEF OneTicket
  <2>5. CASE AsyncPrepareProject
    <3>1. PICK s \in sending : queue' = Append(queue, s) /\ sending' = sending \ {s}
      BY <2>5 DEF AsyncPrepareProject
    <3>2. HoldsTicket' = HoldsTicket /\ current' = current
      BY <2>5 DEF AsyncPrepareProject
    <3> QED BY <1>0, <3>1, <3>2, QueueAppend DEF OneTicket
  <2>6. CASE \/ GetProject \/ CreateProject \/ CreateReadme \/ ProtectMaster
             \/ ListMembers \/ AddMember \/ SetRepository \/ CallFails
    <3>1. CASE current' = current
      BY <1>2, <2>6, <3>1, CallEffect
    <3>2. CASE sweeping
      BY <1>1, <2>6, <3>2, CallEffect
    <3>3. CASE SetRepository /\ Done
      BY <1>1, <2>6, <3>3, CallEffect DEF Done, AfterSuccess, CallSteps
    <3> QED BY <2>6, <3>1, <3>2, <3>3, CallEffect
  <2> QED
    BY <1>3, <2>1, <2>2, <2>3, <2>4, <2>5, <2>6 DEF MakerStep, MakerNext
<1>4. CASE LoginStep
  <2>1. UNCHANGED <<queue, pc, sweeping, todo, current>> /\ moved' = moved
    BY <1>4 DEF LoginStep, LoginNext, makerVars, SignupForm, SignupInsert, Login, Logout,
                Oauth, OauthResolve, OauthCommit, RequestFails
  <2>2. CASE sending' = sending
    BY <1>0, <2>1, <2>2 DEF OneTicket
  <2>3. CASE sending' # sending
    <3>1. PICK b \in Browsers : OauthCommit(b)
      BY <1>4, <2>3 DEF LoginStep, LoginNext, makerVars, SignupForm, SignupInsert, Login,
                        Logout, Oauth, OauthResolve, RequestFails
    <3>2. users' # users
      <4>1. /\ ~Linked(req[b].user.id)
            /\ users' = [users EXCEPT ![req[b].user.id].account = req[b].user.account]
        BY <2>3, <3>1 DEF OauthCommit, GitlabAccountFree, SetUserGitlabAccount
      <4>2. /\ req[b].user.id \in UserIds /\ users[req[b].user.id] \in Row
            /\ req[b].user.account \in Accounts /\ Registered(req[b].user.id)
        BY <3>1, CommitFacts DEF OauthCommit
      <4> QED BY <4>1, <4>2, AccountColumn DEF IInv, TypeOK, Linked
    <3>3. PICK s : s = req[b].user
      OBVIOUS
    <3>4. ~Linked(s.id) /\ sending' \subseteq sending \cup {s}
      BY <2>1, <3>1, <3>2, <3>3, CommitCurrent
    <3>5. \A t \in Held : t.id # s.id
      BY <3>4, HeldCurrent DEF Current
    <3>6. HoldsTicket => current \in Held
      BY CurrentFacts
    <3> QED BY <1>0, <2>1, <3>4, <3>5, <3>6 DEF OneTicket, Held
  <2> QED BY <2>2, <2>3
<1>5. CASE \E a \in Accounts, g \in Groups : ChangeGroup(a, g)
  BY <1>0, <1>5 DEF ChangeGroup, makerVars, OneTicket
<1>6. CASE Restart
  BY <1>6 DEF Restart, OneTicket, CallSteps
<1> QED BY <1>3, <1>4, <1>5, <1>6 DEF Next

(* A maker step keeps the ticket of every user it does not finish. *)
LEMMA MakerKeepsTickets ==
    ASSUME IInv, MakerStep, NEW u \in UserIds, HasTicket(u)
    PROVE  HasTicket(u)' \/ (SetRepository /\ u = current.id)
<1> USE DEF HoldsTicket, BusySteps
<1>0. /\ MakerProgress
      /\ queue \in Seq(Snapshot) /\ sending \subseteq Snapshot
  BY DEF IInv, TypeOK, MakerTypeOK
<1>1. CASE ListMissing \/ EndSweep \/ Tick
  <2>1. UNCHANGED <<queue, sending>> /\ ~HoldsTicket
    BY <1>0, <1>1 DEF ListMissing, EndSweep, Tick, MakerProgress, CallSteps
  <2> QED BY <2>1 DEF HasTicket
<1>2. CASE NextMissing
  <2>1. UNCHANGED <<queue, sending>> /\ ~HoldsTicket
    BY <1>0, <1>2 DEF NextMissing, MakerProgress
  <2> QED BY <2>1 DEF HasTicket
<1>3. CASE Receive
  <2>1. /\ ~HoldsTicket /\ HoldsTicket' /\ current' = Head(queue)
        /\ queue' = Tail(queue) /\ sending' = sending /\ queue # <<>>
    BY <1>0, <1>3, ReceiveEffect DEF Receive, CallSteps
  <2>2. CASE \E t \in sending : t.id = u
    BY <2>1, <2>2 DEF HasTicket
  <2>3. CASE \E i \in DOMAIN queue : queue[i].id = u
    <3>1. PICK i \in DOMAIN queue : queue[i].id = u
      BY <2>3
    <3>2. CASE i = 1
      <4>1. current'.id = u
        BY <1>0, <2>1, <3>1, <3>2, QueueTail
      <4> QED BY <2>1, <4>1 DEF HasTicket
    <3>3. CASE i # 1
      <4>1. i - 1 \in DOMAIN queue' /\ queue'[i - 1].id = u
        BY <1>0, <2>1, <3>1, <3>3, QueueTail
      <4> QED BY <4>1 DEF HasTicket
    <3> QED BY <3>2, <3>3
  <2> QED BY <2>1, <2>2, <2>3 DEF HasTicket
<1>4. CASE Requeue
  <2>1. current \in Snapshot
    BY <1>4, CurrentFacts DEF Requeue
  <2>2. queue' = Append(queue, current) /\ sending' = sending
    BY <1>4 DEF Requeue
  <2> QED BY <1>0, <2>1, <2>2, QueueAppend DEF HasTicket
<1>5. CASE AsyncPrepareProject
  <2>1. PICK s \in sending : queue' = Append(queue, s) /\ sending' = sending \ {s}
    BY <1>5 DEF AsyncPrepareProject
  <2>2. HoldsTicket' = HoldsTicket /\ current' = current
    BY <1>5 DEF AsyncPrepareProject
  <2>3. s \in Snapshot
    BY <1>0
  <2>4. CASE \E i \in DOMAIN queue : queue[i].id = u
    BY <1>0, <2>1, <2>3, <2>4, QueueAppend DEF HasTicket
  <2>5. CASE s.id = u
    BY <1>0, <2>1, <2>3, <2>5, QueueAppend DEF HasTicket
  <2>6. CASE \E t \in sending \ {s} : t.id = u
    BY <2>1, <2>6 DEF HasTicket
  <2>7. CASE HoldsTicket /\ current.id = u
    BY <2>2, <2>7 DEF HasTicket
  <2> QED BY <2>4, <2>5, <2>6, <2>7 DEF HasTicket
<1>6. CASE \/ GetProject \/ CreateProject \/ CreateReadme \/ ProtectMaster
           \/ ListMembers \/ AddMember \/ SetRepository \/ CallFails
  <2>1. UNCHANGED <<queue, sending, sweeping>>
    BY <1>6, CallEffect
  <2>2. CASE ~HoldsTicket
    BY <2>1, <2>2 DEF HasTicket
  <2>3. CASE HoldsTicket /\ ~(SetRepository /\ Done)
    <3>1. current' = current /\ pc' \in BusySteps
      BY <1>6, <2>3, CallEffect
    <3> QED BY <2>1, <2>3, <3>1 DEF HasTicket
  <2>4. CASE SetRepository /\ Done
    BY <2>1, <2>4 DEF HasTicket
  <2> QED BY <2>2, <2>3, <2>4
<1> QED
  BY <1>1, <1>2, <1>3, <1>4, <1>5, <1>6 DEF MakerStep, MakerNext

(* Every step keeps NobodyForgotten. *)
LEMMA ForgottenStep ==
    ASSUME IInv, Next
    PROVE  NobodyForgotten'
<1> SUFFICES ASSUME NEW u \in UserIds, u \in Waiting'
             PROVE  u \in dropped' \/ HasTicket(u)'
  BY DEF NobodyForgotten
<1>0. NobodyForgotten /\ UsersTypeOK
  BY DEF IInv, TypeOK
<1>1. CASE MakerStep
  <2>1. dropped' = dropped
    BY <1>1 DEF MakerStep
  <2>2. CASE users' = users
    <3>1. u \in Waiting /\ (HasTicket(u)' \/ ~HasTicket(u) \/ SetRepository)
      BY <1>1, <2>2, MakerKeepsTickets DEF Waiting, Linked, Registered
    <3>2. CASE SetRepository /\ u = current.id
      <4>1. current.id \in UserIds /\ users[current.id] \in Row /\ CurrentProject \in ProjectNames
        BY <3>2, CurrentFacts DEF SetRepository, BusySteps, CallSteps
      <4>2. users'[u].repo = CurrentProject
        BY <1>0, <3>2, <4>1, RepoColumn DEF SetRepository, SetUserRepository
      <4> QED BY <4>1, <4>2 DEF Waiting
    <3> QED BY <1>0, <1>1, <2>1, <3>1, <3>2, MakerKeepsTickets DEF NobodyForgotten
  <2>3. CASE SetRepository
    <3>1. /\ current.id \in UserIds /\ users[current.id] \in Row
          /\ CurrentProject \in ProjectNames
      BY <2>3, CurrentFacts DEF SetRepository, BusySteps, CallSteps
    <3>2. /\ users'[current.id].repo = CurrentProject
          /\ \A v \in UserIds \ {current.id} : users'[v] = users[v]
      BY <1>0, <2>3, <3>1, RepoColumn DEF SetRepository, SetUserRepository
    <3>3. u # current.id
      BY <3>1, <3>2 DEF Waiting
    <3>4. u \in Waiting
      BY <3>2, <3>3 DEF Waiting, Linked, Registered
    <3> QED BY <1>0, <1>1, <2>1, <3>3, <3>4, MakerKeepsTickets DEF NobodyForgotten
  <2> QED BY <1>1, <2>2, <2>3, MakerRows
<1>2. CASE LoginStep
  <2>1. /\ dropped' = dropped \cup LinkedUnsent
        /\ UNCHANGED <<queue, pc, sweeping, todo, current, moved>>
        /\ sending \subseteq sending'
    BY <1>2 DEF LoginStep, LoginNext, makerVars, SignupForm, SignupInsert, Login, Logout,
                Oauth, OauthResolve, OauthCommit, RequestFails
  <2>2. CASE u \in Waiting
    BY <1>0, <2>1, <2>2 DEF NobodyForgotten, HasTicket, HoldsTicket
  <2>3. CASE u \notin Waiting
    <3>1. ~Linked(u) /\ users'[u] # users[u] /\ users'[u].account # NoAccount
      <4>1. users'[u] # users[u]
        BY <2>3 DEF Waiting, Linked, Registered
      <4>2. PICK b \in Browsers : SignupInsert(b) \/ OauthCommit(b)
        BY <1>2, <4>1, LoginRows
      <4>3. CASE SignupInsert(b)
        BY <1>0, <4>1, <4>3 DEF SignupInsert, InsertUser, Waiting, Linked, Registered, UsersTypeOK
      <4>4. CASE OauthCommit(b)
        <5>1. PICK s : s = req[b].user
          OBVIOUS
        <5>2. ~Linked(s.id) /\ \A v \in UserIds \ {s.id} : users'[v] = users[v]
          BY <2>1, <4>1, <4>4, <5>1, CommitCurrent
        <5> QED BY <4>1, <5>2 DEF Waiting, Linked
      <4> QED BY <4>2, <4>3, <4>4
    <3>2. CASE sending' = sending
      BY <2>1, <3>1, <3>2 DEF LinkedUnsent
    <3>3. CASE sending' # sending
      <4>1. PICK b \in Browsers : OauthCommit(b)
        BY <1>2, <3>3 DEF LoginStep, LoginNext, makerVars, SignupForm, SignupInsert, Login,
                          Logout, Oauth, OauthResolve, RequestFails
      <4>2. PICK s : s = req[b].user
        OBVIOUS
      <4>3. /\ \A v \in UserIds \ {s.id} : users'[v] = users[v]
            /\ sending' \subseteq sending \cup {s}
        BY <2>1, <3>1, <4>1, <4>2, CommitCurrent
      <4>4. s.id = u /\ s \in sending'
        BY <2>1, <3>1, <3>3, <4>3
      <4> QED BY <4>4 DEF HasTicket
    <3> QED BY <3>2, <3>3
  <2> QED BY <2>2, <2>3
<1>3. ASSUME NEW a \in Accounts, NEW g \in Groups, ChangeGroup(a, g)
      PROVE  u \in dropped' \/ HasTicket(u)'
  <2>1. PICK v \in FindUserByAccount(a) : SetUserGroupName(v, g)
    BY <1>3 DEF ChangeGroup
  <2>2. v \in UserIds /\ users[v] \in Row /\ Linked(v)
    BY <1>0, RowTypes DEF FindUserByAccount, Linked
  <2>3. /\ \A w \in UserIds \ {v} : users'[w] = users[w]
        /\ users'[v].repo = users[v].repo
    BY <1>0, <2>1, <2>2, GroupColumn DEF SetUserGroupName
  <2>4. u \in Waiting
    BY <2>2, <2>3 DEF Waiting, Linked, Registered
  <2> QED BY <1>0, <1>3, <2>4 DEF NobodyForgotten, ChangeGroup, makerVars, HasTicket, HoldsTicket
<1>4. CASE Restart
  BY <1>4 DEF Restart, Waiting, Linked, Registered
<1> QED BY <1>1, <1>2, <1>3, <1>4 DEF Next
-----------------------------------------------------------------------------
(* What a step may do to GitLab *)

(* A project never loses anything the service gave it. *)
ProjectKept(p) ==
    /\ projects[p].exists => projects'[p].exists
    /\ projects[p].readme => projects'[p].readme
    /\ projects[p].protected => projects'[p].protected
    /\ projects[p].members \subseteq projects'[p].members

ProjectSound(p) ==
    /\ projects[p].protected => projects[p].readme
    /\ projects[p].readme \/ projects[p].members # {} => projects[p].exists

(* Only the calls that write touch GitLab, and only the current project. *)
LEMMA ProjectsUntouched ==
    ASSUME Next
    PROVE  projects' = projects \/ CreateProject \/ CreateReadme \/ ProtectMaster \/ AddMember
<1>1. CASE MakerStep
  BY <1>1 DEF MakerStep, MakerNext, ListMissing, NextMissing, EndSweep, Receive, Tick,
         Requeue, AsyncPrepareProject, GetProject, ListMembers, SetRepository, CallFails
<1>2. CASE LoginStep
  BY <1>2 DEF LoginStep, LoginNext, makerVars, SignupForm, SignupInsert, Login, Logout,
              Oauth, OauthResolve, OauthCommit, RequestFails
<1>3. CASE \E a \in Accounts, g \in Groups : ChangeGroup(a, g)
  BY <1>3 DEF ChangeGroup, makerVars
<1>4. CASE Restart
  BY <1>4 DEF Restart
<1> QED BY <1>1, <1>2, <1>3, <1>4 DEF Next

(* A step adds to a project and takes nothing from it. *)
LEMMA ProjectStep ==
    ASSUME IInv, Next, NEW p \in ProjectNames
    PROVE  ProjectKept(p) /\ ProjectSound(p)'
<1> USE DEF ProjectKept, ProjectSound
<1>0. /\ projects \in [ProjectNames -> Project] /\ projects[p] \in Project
      /\ ProjectSound(p)
  BY DEF IInv, TypeOK, MakerTypeOK, ProtectedHasReadme
<1>1. CASE projects' = projects
  BY <1>0, <1>1
<1>2. CASE CreateProject
  <2>1. projects'[p] = projects[p] \/ projects'[p] = [projects[p] EXCEPT !.exists = TRUE]
    BY <1>0, <1>2 DEF CreateProject
  <2> QED BY <1>0, <2>1 DEF Project
<1>3. CASE CreateReadme
  <2>1. CurrentProject \in ProjectNames /\ projects[CurrentProject].exists
    BY <1>3, CurrentFacts DEF CreateReadme, IInv, MakerProgress, BusySteps, CallSteps
  <2>2. CASE p # CurrentProject
    BY <1>0, <1>3, <2>1, <2>2 DEF CreateReadme
  <2>3. CASE p = CurrentProject
    <3>1. \/ projects'[p] = projects[p]
          \/ projects'[p] = [projects[p] EXCEPT !.readme = TRUE]
      BY <1>0, <1>3, <2>1, <2>3 DEF CreateReadme
    <3> QED BY <1>0, <2>1, <2>3, <3>1 DEF Project
  <2> QED BY <2>2, <2>3
<1>4. CASE ProtectMaster
  <2>1. CurrentProject \in ProjectNames /\ projects[CurrentProject].readme
    BY <1>4, CurrentFacts DEF ProtectMaster, IInv, MakerProgress, BusySteps, CallSteps
  <2>2. CASE p # CurrentProject
    BY <1>0, <1>4, <2>1, <2>2 DEF ProtectMaster
  <2>3. CASE p = CurrentProject
    <3>1. \/ projects'[p] = projects[p]
          \/ projects'[p] = [projects[p] EXCEPT !.protected = TRUE]
      BY <1>0, <1>4, <2>1, <2>3 DEF ProtectMaster
    <3> QED BY <1>0, <2>1, <2>3, <3>1 DEF Project
  <2> QED BY <2>2, <2>3
<1>5. CASE AddMember
  <2>1. CurrentProject \in ProjectNames /\ projects[CurrentProject].exists
    BY <1>5, CurrentFacts DEF AddMember, IInv, MakerProgress, BusySteps, CallSteps
  <2>2. CASE p # CurrentProject
    BY <1>0, <1>5, <2>1, <2>2 DEF AddMember
  <2>3. CASE p = CurrentProject
    <3>1. projects'[p] = [projects[p] EXCEPT !.members = @ \cup {current.account}]
      BY <1>0, <1>5, <2>1, <2>3 DEF AddMember
    <3> QED BY <1>0, <2>1, <2>3, <3>1 DEF Project
  <2> QED BY <2>2, <2>3
<1> QED BY <1>1, <1>2, <1>3, <1>4, <1>5, ProjectsUntouched

(* Every step keeps ProtectedHasReadme. *)
LEMMA GitLabStep ==
    ASSUME IInv, Next
    PROVE  ProtectedHasReadme'
  BY ProjectStep DEF ProtectedHasReadme, ProjectSound

(* What is achieved for the current user stays achieved when the maker goes *)
(* on with the same user.                                                   *)
LEMMA ProgressKept ==
    ASSUME IInv, Next, pc \in BusySteps, current' = current
    PROVE  /\ CurrentProject' = CurrentProject
           /\ ProjectKept(CurrentProject)
  BY CurrentFacts, ProjectStep DEF CurrentProject, MakeProjectName

(* How a remote call of the maker ends. *)
LEMMA CallOutcomes ==
    ASSUME \/ GetProject \/ CreateProject \/ CreateReadme \/ ProtectMaster
           \/ ListMembers \/ AddMember \/ SetRepository \/ CallFails
    PROVE  /\ UNCHANGED sweeping
           /\ pc \in CallSteps
           /\ \/ GiveUp
              \/ SetRepository /\ Done
              \/ /\ current' = current
                 /\ pc' \in CallSteps
                 /\ \/ GetProject /\ (pc' = "readme" => projects[CurrentProject].exists)
                    \/ CreateProject /\ pc' = "readme"
                    \/ CreateReadme /\ pc' = "protect"
                    \/ ProtectMaster /\ pc' = "members"
                    \/ ListMembers /\ pc' = (IF current.account \in
                                                   projects[CurrentProject].members
                                                THEN "setrepo" ELSE "add")
                    \/ AddMember /\ pc' = "setrepo"
<1> USE DEF Answered, Reply, CallSteps
<1>1. CASE GetProject
  BY <1>1 DEF GetProject
<1>2. CASE CreateProject
  BY <1>2 DEF CreateProject
<1>3. CASE CreateReadme
  BY <1>3 DEF CreateReadme
<1>4. CASE ProtectMaster
  BY <1>4 DEF ProtectMaster
<1>5. CASE ListMembers
  BY <1>5 DEF ListMembers
<1>6. CASE AddMember
  BY <1>6 DEF AddMember
<1>7. CASE SetRepository
  BY <1>7 DEF SetRepository
<1>8. CASE CallFails
  BY <1>8 DEF CallFails
<1> QED BY <1>1, <1>2, <1>3, <1>4, <1>5, <1>6, <1>7, <1>8

(* Every step keeps MakerProgress. *)
LEMMA ProgressStep ==
    ASSUME IInv, Next
    PROVE  MakerProgress'
<1> USE DEF BusySteps, CallSteps
<1>0. /\ MakerProgress
      /\ projects \in [ProjectNames -> Project]
      /\ NoSnapshot \notin Snapshot
  BY DEF IInv, TypeOK, MakerTypeOK
<1>1. CASE LoginStep \/ \E a \in Accounts, g \in Groups : ChangeGroup(a, g)
  <2>1. UNCHANGED <<pc, sweeping, current, projects>>
    BY <1>1 DEF LoginStep, LoginNext, makerVars, SignupForm, SignupInsert, Login, Logout,
                Oauth, OauthResolve, OauthCommit, RequestFails, ChangeGroup
  <2> QED BY <1>0, <2>1 DEF MakerProgress, CurrentProject, MakeProjectName
<1>2. CASE Restart
  BY <1>2 DEF Restart, MakerProgress
<1>3. CASE MakerStep
  <2>1. CASE ListMissing \/ EndSweep \/ Tick \/ Requeue
    BY <1>0, <2>1 DEF MakerProgress, ListMissing, EndSweep, Tick, Requeue
  <2>2. CASE NextMissing
    <3>1. PICK s \in todo : Begin(s)
      BY <2>2 DEF NextMissing
    <3>2. s \in Held
      BY DEF Held
    <3>3. s.account # NoAccount /\ s # NoSnapshot
      BY <1>0, <3>2, HeldCurrent DEF Current, Linked
    <3> QED BY <1>0, <2>2, <3>1, <3>3 DEF NextMissing, Begin, MakerProgress
  <2>3. CASE Receive
    <3>1. Head(queue) \in Held
      BY <2>3, QueueTail DEF Receive, Held, IInv, TypeOK, MakerTypeOK
    <3>2. Head(queue) # NoSnapshot
      BY <1>0, <3>1, HeldCurrent
    <3> QED BY <1>0, <2>3, <3>2, ReceiveEffect DEF MakerProgress
  <2>4. CASE AsyncPrepareProject
    BY <1>0, <2>4 DEF AsyncPrepareProject, MakerProgress, CurrentProject, MakeProjectName
  <2>5. CASE GiveUp /\ UNCHANGED sweeping /\ pc \in CallSteps
    BY <1>0, <2>5 DEF GiveUp, AfterFailure, MakerProgress
  <2>6. CASE SetRepository /\ Done
    BY <1>0, <2>6 DEF SetRepository, Done, AfterSuccess, MakerProgress
  <2>7. CASE /\ current' = current /\ UNCHANGED sweeping
             /\ pc \in CallSteps /\ pc' \in CallSteps
             /\ \/ GetProject /\ (pc' = "readme" => projects[CurrentProject].exists)
                \/ CreateProject /\ pc' = "readme"
                \/ CreateReadme /\ pc' = "protect"
                \/ ProtectMaster /\ pc' = "members"
                \/ ListMembers /\ pc' = (IF current.account \in
                                               projects[CurrentProject].members
                                            THEN "setrepo" ELSE "add")
                \/ AddMember /\ pc' = "setrepo"
    <3>1. /\ CurrentProject' = CurrentProject /\ ProjectKept(CurrentProject)
          /\ CurrentProject \in ProjectNames
      BY <2>7, ProgressKept, CurrentFacts
    <3>2. PICK p \in ProjectNames : p = CurrentProject
      BY <3>1
    <3>3. /\ p = CurrentProject' /\ ProjectKept(p) /\ projects[p] \in Project
          /\ current' # NoSnapshot
      BY <1>0, <2>7, <3>1, <3>2 DEF MakerProgress
    <3>4. CASE GetProject /\ (pc' = "readme" => projects[CurrentProject].exists)
      BY <1>0, <2>7, <3>2, <3>3, <3>4
      DEF GetProject, Answered, MakerProgress
    <3>5. CASE CreateProject /\ pc' = "readme"
      <4>1. projects'[p].exists
        BY <1>0, <3>2, <3>3, <3>5 DEF CreateProject, Project
      <4> QED BY <2>7, <3>3, <3>5, <4>1 DEF MakerProgress, CreateProject
    <3>6. CASE CreateReadme /\ pc' = "protect"
      <4>1. projects[p].exists
        BY <1>0, <3>2, <3>6 DEF CreateReadme, MakerProgress
      <4>2. projects'[p].readme
        <5>1. CASE projects[p].protected
          BY <3>3, <5>1 DEF ProjectKept, IInv, ProtectedHasReadme
        <5>2. CASE ~projects[p].protected
          BY <1>0, <3>2, <3>3, <3>6, <5>2 DEF CreateReadme, Project
        <5> QED BY <5>1, <5>2
      <4> QED BY <2>7, <3>3, <3>6, <4>1, <4>2 DEF MakerProgress, CreateReadme, ProjectKept
    <3>7. CASE ProtectMaster /\ pc' = "members"
      <4>1. projects[p].exists /\ projects[p].readme
        BY <1>0, <3>2, <3>7 DEF ProtectMaster, MakerProgress
      <4>2. projects'[p].protected
        BY <1>0, <3>2, <3>3, <3>7 DEF ProtectMaster, Project
      <4> QED BY <2>7, <3>3, <3>7, <4>1, <4>2 DEF MakerProgress, ProtectMaster, ProjectKept
    <3>8. CASE ListMembers /\ pc' = (IF current.account \in projects[p].members
                                     THEN "setrepo" ELSE "add")
      <4>1. projects[p].exists /\ projects[p].readme /\ projects[p].protected
        BY <1>0, <3>2, <3>8 DEF ListMembers, MakerProgress
      <4> QED BY <2>7, <3>3, <3>8, <4>1 DEF MakerProgress, ListMembers, ProjectKept
    <3>9. CASE AddMember /\ pc' = "setrepo"
      <4>1. projects[p].exists /\ projects[p].readme /\ projects[p].protected
        BY <1>0, <3>2, <3>9 DEF AddMember, MakerProgress
      <4>2. current.account \in projects'[p].members
        BY <1>0, <3>2, <3>3, <3>9 DEF AddMember, Project
      <4> QED BY <2>7, <3>3, <3>9, <4>1, <4>2 DEF MakerProgress, AddMember, ProjectKept
    <3> QED BY <2>7, <3>2, <3>4, <3>5, <3>6, <3>7, <3>8, <3>9
  <2>8. CASE \/ GetProject \/ CreateProject \/ CreateReadme \/ ProtectMaster
             \/ ListMembers \/ AddMember \/ SetRepository \/ CallFails
    BY <2>5, <2>6, <2>7, <2>8, CallOutcomes
  <2> QED BY <1>3, <2>1, <2>2, <2>3, <2>4, <2>8 DEF MakerStep, MakerNext
<1> QED BY <1>1, <1>2, <1>3 DEF Next
-----------------------------------------------------------------------------
(* Finished repositories *)

RepoReadyOf(r, u) ==
    /\ r.account # NoAccount
    /\ projects[r.repo].exists
    /\ projects[r.repo].readme
    /\ projects[r.repo].protected
    /\ r.account \in projects[r.repo].members
    /\ r.repo.name = CleanupName[r.name]
    /\ r.repo.login = CleanupLogin[r.account]
    /\ u \in moved \/ r.repo = MakeProjectName(r)

(* A finished repository that a step leaves in its row stays finished. *)
LEMMA RepoKept ==
    ASSUME IInv, Next, NEW u \in UserIds, Registered(u), users[u].repo # NoRepo,
           users'[u].repo = users[u].repo
    PROVE  RepoReadyOf(users[u], u)'
<1>1. /\ RepoReadyOf(users[u], u) /\ users[u] \in Row
      /\ users[u].repo \in ProjectNames
  <2>1. users[u] \in Row
    BY RowTypes DEF IInv, TypeOK
  <2>2. RepoReadyOf(users[u], u)
    BY DEF IInv, RepoReady, RepoReadyOf
  <2> QED BY <2>1, <2>2 DEF Row
<1>2. /\ moved \subseteq moved'
      /\ users'[u].name = users[u].name
      /\ users'[u].account = users[u].account
      /\ u \in moved' \/ users'[u].group = users[u].group
  BY <1>1, RowsKept DEF RowKept, RepoReadyOf
<1>3. ProjectKept(users[u].repo)
  BY <1>1, ProjectStep
<1>4. PICK r : r = users'[u]
  OBVIOUS
<1>5. /\ projects'[r.repo].exists /\ projects'[r.repo].readme /\ projects'[r.repo].protected
      /\ r.account \in projects'[r.repo].members
  BY <1>1, <1>2, <1>3, <1>4 DEF ProjectKept, RepoReadyOf
<1>6. u \in moved' \/ r.repo = MakeProjectName(r)
  BY <1>1, <1>2, <1>4 DEF RepoReadyOf, MakeProjectName
<1> QED BY <1>1, <1>2, <1>4, <1>5, <1>6 DEF RepoReadyOf, MakeProjectName

(* Every step keeps RepoReady. *)
LEMMA RepoStep ==
    ASSUME IInv, Next
    PROVE  RepoReady'
<1> SUFFICES ASSUME NEW u \in UserIds, Registered(u)', users'[u].repo # NoRepo
             PROVE  RepoReadyOf(users[u], u)'
  BY DEF RepoReady, RepoReadyOf
<1>0. UsersTypeOK
  BY DEF IInv, TypeOK
<1>1. CASE users'[u] = users[u]
  BY <1>1, RepoKept DEF Registered
<1>2. CASE MakerStep /\ SetRepository
  <2>1. pc \in BusySteps /\ pc = "setrepo"
    BY <1>2 DEF SetRepository, BusySteps, CallSteps
  <2>2. users' = [users EXCEPT ![current.id].repo = CurrentProject]
    BY <1>2 DEF SetRepository, SetUserRepository
  <2>3. /\ users'[current.id].repo = CurrentProject
        /\ users'[current.id].name = users[current.id].name
        /\ users'[current.id].group = users[current.id].group
        /\ users'[current.id].account = users[current.id].account
        /\ \A v \in UserIds \ {current.id} : users'[v] = users[v]
    BY <1>0, <2>1, <2>2, CurrentFacts, RepoColumn
  <2>4. CASE u = current.id
    <3>1. PICK r : r = users'[u]
      OBVIOUS
    <3>2. /\ r.repo = CurrentProject /\ r.name = current.name /\ r.account = current.account
          /\ r.account # NoAccount
          /\ u \in moved \/ r.group = current.group
      BY <2>1, <2>3, <2>4, <3>1, CurrentFacts DEF Linked
    <3>3. projects' = projects /\ moved' = moved
      BY <1>2 DEF SetRepository, MakerStep
    <3>4. /\ projects[CurrentProject].exists
          /\ projects[CurrentProject].readme
          /\ projects[CurrentProject].protected
          /\ current.account \in projects[CurrentProject].members
      BY <2>1 DEF IInv, MakerProgress
    <3>5. /\ CurrentProject.name = CleanupName[current.name]
          /\ CurrentProject.login = CleanupLogin[current.account]
          /\ CurrentProject.group = current.group
          /\ CurrentProject = MakeProjectName(current)
      BY DEF CurrentProject, MakeProjectName
    <3>6. u \in moved' \/ r.repo = MakeProjectName(r)
      BY <3>2, <3>3, <3>5 DEF MakeProjectName
    <3> QED BY <3>1, <3>2, <3>3, <3>4, <3>5, <3>6 DEF RepoReadyOf, MakeProjectName
  <2> QED BY <1>1, <2>3, <2>4
<1>3. CASE LoginStep /\ users'[u] # users[u]
  <2>1. PICK b \in Browsers : SignupInsert(b) \/ OauthCommit(b)
    BY <1>3, LoginRows
  <2>2. CASE SignupInsert(b)
    BY <1>0, <1>3, <2>2 DEF SignupInsert, InsertUser, UsersTypeOK
  <2>3. CASE OauthCommit(b)
    <3>1. PICK s : s = req[b].user
      OBVIOUS
    <3>2. /\ s.id \in UserIds /\ users[s.id] \in Row /\ s.account \in Accounts
          /\ users' = [users EXCEPT ![s.id].account = s.account]
      BY <1>3, <2>3, <3>1, CommitFacts DEF OauthCommit, SetUserGitlabAccount
    <3>3. u = s.id /\ users'[u].repo = users[u].repo
      BY <1>0, <1>3, <3>2, AccountColumn
    <3> QED BY <3>2, <3>3, RepoKept DEF Registered
  <2> QED BY <2>1, <2>2, <2>3
<1>4. ASSUME NEW a \in Accounts, NEW g \in Groups, ChangeGroup(a, g)
      PROVE  RepoReadyOf(users[u], u)'
  <2>1. PICK v \in FindUserByAccount(a) : SetUserGroupName(v, g)
    BY <1>4 DEF ChangeGroup
  <2>2. v \in UserIds /\ users[v] \in Row /\ Registered(v)
    BY <1>0, RowTypes DEF FindUserByAccount, Linked
  <2>3. /\ \A w \in UserIds \ {v} : users'[w] = users[w]
        /\ users'[v].repo = users[v].repo
    BY <1>0, <2>1, <2>2, GroupColumn DEF SetUserGroupName
  <2> QED BY <1>1, <2>2, <2>3, RepoKept
<1>5. CASE Restart
  BY <1>1, <1>5 DEF Restart
<1> QED BY <1>1, <1>2, <1>3, <1>4, <1>5, MakerRows DEF Next
-----------------------------------------------------------------------------
(* The invariant *)

(* The inductive invariant holds initially. *)
LEMMA Initially ==
    ASSUME Init
    PROVE  IInv
<1> USE DEF Init, UsersInit, MakerInit, LoginInit
<1>1. TypeOK
  BY EmptySeq DEF TypeOK, UsersTypeOK, MakerTypeOK, LoginTypeOK, Request, Project,
                  BusySteps, CallSteps
<1>2. RequestsCurrent
  BY DEF RequestsCurrent, Idle
<1>3. SnapshotsCurrent
  BY DEF SnapshotsCurrent, Held
<1>4. OneTicket
  BY DEF OneTicket, HoldsTicket
<1>5. NobodyForgotten
  BY DEF NobodyForgotten, Waiting, Linked, Registered
<1>6. ProtectedHasReadme
  BY DEF ProtectedHasReadme
<1>7. MakerProgress
  BY DEF MakerProgress, BusySteps, CallSteps
<1>8. RepoReady
  BY DEF RepoReady, Registered
<1> QED BY <1>1, <1>2, <1>3, <1>4, <1>5, <1>6, <1>7, <1>8 DEF IInv

(* A step that changes nothing keeps the inductive invariant. *)
LEMMA Stuttering ==
    ASSUME IInv, UNCHANGED vars
    PROVE  IInv'
<1> USE DEF vars, makerVars, loginVars
<1>1. TypeOK'
  BY DEF IInv, TypeOK, UsersTypeOK, MakerTypeOK, LoginTypeOK
<1>2. RequestsCurrent' /\ SnapshotsCurrent'
  BY DEF IInv, RequestsCurrent, SnapshotsCurrent, Held, Registered, Linked
<1>3. OneTicket' /\ NobodyForgotten'
  BY DEF IInv, OneTicket, HoldsTicket, NobodyForgotten, HasTicket, Waiting, Registered, Linked
<1>4. ProtectedHasReadme' /\ MakerProgress' /\ RepoReady'
  BY DEF IInv, ProtectedHasReadme, MakerProgress, CurrentProject, RepoReady, Registered,
         Linked, MakeProjectName
<1> QED BY <1>1, <1>2, <1>3, <1>4 DEF IInv

(* Every step keeps the inductive invariant. *)
LEMMA Inductive ==
    ASSUME IInv, Next
    PROVE  IInv'
  BY MakerTypes, LoginTypes, OtherTypes, RequestsStep, SnapshotsStep, TicketsStep,
     ForgottenStep, GitLabStep, ProgressStep, RepoStep DEF IInv, Next

(* The inductive invariant holds in every reachable state. *)
THEOREM Invariance == Spec => []IInv
<1>1. Init => IInv
  BY Initially
<1>2. IInv /\ [Next]_vars => IInv'
  BY Inductive, Stuttering
<1> QED BY <1>1, <1>2, PTL DEF Spec

(* The table, the channel, the maker, the handlers and GitLab keep their    *)
(* types: in particular a row never names a project that cannot exist.      *)
THEOREM TypeCorrect == Spec => []TypeOK
<1>1. IInv => TypeOK
  BY DEF IInv
<1> QED BY <1>1, Invariance, PTL

(* Copies of rows that the maker works on (projects.go:38, 66) never        *)
(* disagree with their row about the account or the name.                   *)
THEOREM CopiesCurrent == Spec => []SnapshotsCurrent
<1>1. IInv => SnapshotsCurrent
  BY DEF IInv
<1> QED BY <1>1, Invariance, PTL

(* At most one ticket per user is on its way to the maker.                  *)
THEOREM TicketsUnique == Spec => []OneTicket
<1>1. IInv => OneTicket
  BY DEF IInv
<1> QED BY <1>1, Invariance, PTL

(* A linked user without a repository has a ticket, unless a crash or the   *)
(* lost answer of SetUserGitlabAccount took it (login.go:282-299).          *)
THEOREM NoneForgotten == Spec => []NobodyForgotten
<1>1. IInv => NobodyForgotten
  BY DEF IInv
<1> QED BY <1>1, Invariance, PTL

(* A protected master has its README: the 403 that InitializeProject takes  *)
(* for success (gitlab.go:107) never hides a missing one.                   *)
THEOREM ReadmeFirst == Spec => []ProtectedHasReadme
<1>1. IInv => ProtectedHasReadme
  BY DEF IInv
<1> QED BY <1>1, Invariance, PTL

(* A repository stored in a row is complete and is the user's own.          *)
THEOREM RepositoriesReady == Spec => []RepoReady
<1>1. IInv => RepoReady
  BY DEF IInv
<1> QED BY <1>1, Invariance, PTL
-----------------------------------------------------------------------------
(* Onboarding implements Enrollment *)

(* The abstract state of Promise, under names of its own. *)
Roll == {u \in UserIds : Registered(u)}
Account == [u \in UserIds |-> IF Linked(u) THEN users[u].account ELSE NoAccount]
Home == [u \in UserIds |-> IF Registered(u) THEN users[u].repo ELSE NoRepo]

(* The initial states of Onboarding are initial states of Enrollment. *)
LEMMA PromiseInit ==
    ASSUME Init
    PROVE  Promise!EnrollmentInit
  BY DEF Init, UsersInit, Promise!EnrollmentInit, Registered, Linked

(* Inserting a row registers its user. *)
LEMMA InsertRegisters ==
    ASSUME UsersTypeOK, NEW u \in UserIds, NEW n \in Names, NEW g \in Groups,
           InsertUser(u, n, g)
    PROVE  Promise!Register(u)
<1>1. /\ users[u] = NoRow /\ users'[u].account = NoAccount /\ users'[u].repo = NoRepo
      /\ \A v \in UserIds \ {u} : users'[v] = users[v]
  BY DEF InsertUser, UsersTypeOK
<1>2. users'[u] # NoRow
  BY DEF InsertUser, UsersTypeOK, Row
<1>3. Roll' = Roll \cup {u} /\ u \notin Roll
  BY <1>1, <1>2 DEF Roll, Registered
<1>4. Account' = Account
  BY <1>1 DEF Account, Linked, Registered
<1>5. Home' = Home
  BY <1>1 DEF Home, Registered
<1> QED BY <1>3, <1>4, <1>5 DEF Promise!Register, Roll, Account, Home

(* A commit of SetUserGitlabAccount links its user. *)
LEMMA CommitLinks ==
    ASSUME IInv, NEW b \in Browsers, OauthCommit(b), users' # users,
           NEW s, s = req[b].user
    PROVE  s.id \in UserIds /\ s.account \in Accounts /\ Promise!Link(s.id, s.account)
<1>1. /\ s.id \in UserIds /\ users[s.id] \in Row /\ s.account \in Accounts
      /\ Registered(s.id) /\ ~Linked(s.id) /\ FindUserByAccount(s.account) = {}
      /\ users' = [users EXCEPT ![s.id].account = s.account]
  BY CommitFacts DEF OauthCommit, GitlabAccountFree, SetUserGitlabAccount
<1>2. /\ users'[s.id] # NoRow /\ users'[s.id].account = s.account
      /\ users'[s.id].repo = users[s.id].repo
      /\ \A v \in UserIds \ {s.id} : users'[v] = users[v]
  BY <1>1, AccountColumn DEF IInv, TypeOK
<1>3. Roll' = Roll /\ s.id \in Roll
  BY <1>1, <1>2 DEF Roll, Registered
<1>4. /\ Account[s.id] = NoAccount
      /\ \A v \in UserIds : Account[v] # s.account
  BY <1>1 DEF Account, FindUserByAccount
<1>5. Account' = [Account EXCEPT ![s.id] = s.account]
  <2>1. \A v \in UserIds : Account'[v] = IF v = s.id THEN s.account ELSE Account[v]
    <3>1. s.account # NoAccount => Linked(s.id)'
      BY <1>2 DEF Linked, Registered
    <3>2. \A v \in UserIds \ {s.id} : Linked(v)' <=> Linked(v)
      BY <1>2 DEF Linked, Registered
    <3>3. Account'[s.id] = s.account
      BY <1>1, <1>2, <3>1 DEF Account, Linked
    <3>4. \A v \in UserIds \ {s.id} : Account'[v] = Account[v]
      BY <1>2, <3>2 DEF Account
    <3> HIDE DEF Account
    <3> QED BY <3>3, <3>4
  <2>2. Account' = [v \in UserIds |-> Account'[v]] /\ DOMAIN Account = UserIds
    BY DEF Account
  <2> QED BY <2>1, <2>2
<1>6. Home' = Home
  <2>1. \A v \in UserIds : /\ Registered(v)' <=> Registered(v)
                           /\ Registered(v) => users'[v].repo = users[v].repo
    BY <1>1, <1>2 DEF Registered
  <2>2. \A v \in UserIds : Home'[v] = Home[v]
    BY <2>1 DEF Home
  <2>3. Home' = [v \in UserIds |-> Home'[v]] /\ Home = [v \in UserIds |-> Home[v]]
    BY DEF Home
  <2> HIDE DEF Home
  <2> QED BY <2>2, <2>3
<1> QED BY <1>1, <1>3, <1>4, <1>5, <1>6 DEF Promise!Link, Roll, Account, Home

(* Storing a repository settles its user. *)
LEMMA SetRepositorySettles ==
    ASSUME IInv, SetRepository, NEW u, u = current.id, NEW p, p = CurrentProject
    PROVE  u \in UserIds /\ p \in ProjectNames /\ Promise!Settle(u, p)
<1>1. /\ u \in UserIds /\ users[u] \in Row /\ Linked(u) /\ users[u].account \in Accounts
      /\ p \in ProjectNames /\ p.login = CleanupLogin[users[u].account]
      /\ users' = [users EXCEPT ![u].repo = p]
  <2>1. p.login = CleanupLogin[current.account]
    BY DEF CurrentProject, MakeProjectName
  <2> QED BY <2>1, CurrentFacts DEF SetRepository, SetUserRepository, BusySteps, CallSteps
<1>2. /\ users'[u] # NoRow /\ users'[u].repo = p
      /\ users'[u].account = users[u].account
      /\ \A v \in UserIds \ {u} : users'[v] = users[v]
  BY <1>1, RepoColumn DEF IInv, TypeOK
<1>3. Roll' = Roll
  BY <1>1, <1>2 DEF Roll, Registered, Linked
<1>4. /\ Account' = Account /\ Account[u] = users[u].account
      /\ Account[u] # NoAccount
  BY <1>1, <1>2 DEF Account, Linked, Registered
<1>5. Home' = [Home EXCEPT ![u] = p]
  <2>1. \A v \in UserIds : Home'[v] = IF v = u THEN p ELSE Home[v]
    BY <1>1, <1>2 DEF Home, Registered
  <2>2. Home' = [v \in UserIds |-> Home'[v]] /\ DOMAIN Home = UserIds
    BY DEF Home
  <2> QED BY <2>1, <2>2
<1> QED BY <1>1, <1>3, <1>4, <1>5 DEF Promise!Settle, Roll, Account, Home

(* A step that leaves the three mapped values alone is a stutter. *)
LEMMA PromiseStutters ==
    ASSUME Roll' = Roll, Account' = Account, Home' = Home
    PROVE  UNCHANGED Promise!EnrollmentVars
  BY DEF Promise!EnrollmentVars, Roll, Account, Home

(* Every step of Onboarding is a step or a stutter of Enrollment. *)
LEMMA PromiseStep ==
    ASSUME IInv, [Next]_vars
    PROVE  [Promise!EnrollmentNext]_Promise!EnrollmentVars
<1>0. UsersTypeOK
  BY DEF IInv, TypeOK
<1>1. CASE users' = users
  BY <1>1, PromiseStutters DEF Roll, Account, Home, Registered, Linked
<1>2. CASE SetRepository
  <2>1. PICK u, p : u = current.id /\ p = CurrentProject
    OBVIOUS
  <2>2. u \in UserIds /\ p \in ProjectNames /\ Promise!Settle(u, p)
    BY <1>2, <2>1, SetRepositorySettles
  <2> QED BY <2>2 DEF Promise!EnrollmentNext
<1>3. ASSUME users' # users, NEW b \in Browsers, SignupInsert(b) \/ OauthCommit(b)
      PROVE  Promise!EnrollmentNext
  <2>1. CASE SignupInsert(b)
    <3>1. PICK u \in UserIds : InsertUser(u, req[b].name, req[b].group)
      BY <1>3, <2>1 DEF SignupInsert
    <3>2. PICK n \in Names, g \in Groups : n = req[b].name /\ g = req[b].group
      BY <2>1 DEF SignupInsert, IInv, TypeOK, LoginTypeOK, Request, Idle
    <3>3. InsertUser(u, n, g)
      BY <3>1, <3>2 DEF InsertUser
    <3>4. Promise!Register(u)
      BY <1>0, <3>3, InsertRegisters
    <3> QED BY <3>4 DEF Promise!EnrollmentNext
  <2>2. CASE OauthCommit(b)
    <3>1. PICK s : s = req[b].user
      OBVIOUS
    <3>2. s.id \in UserIds /\ s.account \in Accounts /\ Promise!Link(s.id, s.account)
      BY <1>3, <2>2, <3>1, CommitLinks
    <3> QED BY <3>2 DEF Promise!EnrollmentNext
  <2> QED BY <1>3, <2>1, <2>2
<1>4. ASSUME NEW a \in Accounts, NEW g \in Groups, ChangeGroup(a, g)
      PROVE  UNCHANGED Promise!EnrollmentVars
  <2>1. PICK v \in FindUserByAccount(a) : SetUserGroupName(v, g)
    BY <1>4 DEF ChangeGroup
  <2>2. v \in UserIds /\ users[v] \in Row /\ Registered(v)
    BY <1>0, RowTypes DEF FindUserByAccount, Linked
  <2>3. /\ \A w \in UserIds \ {v} : users'[w] = users[w]
        /\ users'[v] # NoRow
        /\ users'[v].repo = users[v].repo /\ users'[v].account = users[v].account
    BY <1>0, <2>1, <2>2, GroupColumn DEF SetUserGroupName
  <2>4. Roll' = Roll
    BY <2>2, <2>3 DEF Roll, Registered
  <2>5. Account' = Account
    BY <2>2, <2>3 DEF Account, Linked, Registered
  <2>6. Home' = Home
    BY <2>2, <2>3 DEF Home, Registered
  <2> QED BY <2>4, <2>5, <2>6, PromiseStutters
<1>5. CASE UNCHANGED vars \/ Restart
  BY <1>1, <1>5 DEF vars, Restart
<1> QED BY <1>1, <1>2, <1>3, <1>4, <1>5, MakerRows, LoginRows DEF Next

(* Onboarding implements Enrollment: linking is exclusive and final, and a  *)
(* repository is only ever one of the linked account (login.go:277-301,     *)
(* projects.go:98, database.go:137-167).                                    *)
THEOREM PromiseKept == Spec => KeepsPromise
<1>1. Init => Promise!EnrollmentInit
  BY PromiseInit
<1>2. IInv /\ [Next]_vars => [Promise!EnrollmentNext]_Promise!EnrollmentVars
  BY PromiseStep
<1> QED BY <1>1, <1>2, Invariance, PTL DEF Spec, KeepsPromise, Promise!EnrollmentSpec
=============================================================================
