----------------------------- MODULE LoginService -----------------------------
(***************************************************************************)
(* internal/web/login.go: signing up, the OAuth dance with GitLab and       *)
(* logging out.  A browser keeps a cookie; its session token stands for the *)
(* user its row in "sessions" names (sessions are never changed or deleted, *)
(* so a token always leads to the same user).                               *)
(*                                                                          *)
(* A handler that waits for the database or for GitLab is a request in      *)
(* flight: requests of different browsers interleave between those waits.   *)
(* A browser has one request in flight; the exception is a handler that is  *)
(* blocked in AsyncPrepareProject, which ProjectsMaker keeps in `sending'.  *)
(***************************************************************************)
EXTENDS ProjectsMaker

CONSTANT Browsers

VARIABLES
    cookie,     \* [token, oauth] of every browser
    req         \* the request a browser has in flight

loginVars == <<cookie, req>>

Idle == [phase |-> "idle"]

(* "insert": between the SELECT and the INSERT of AddUser.                  *)
(* "exchange": oauth has read its user and talks to GitLab.                 *)
(* "commit": oauth is about to call SetUserGitlabAccount.                   *)
Request == {Idle}
           \cup [phase: {"insert"}, name: Names, group: Groups]
           \cup [phase: {"exchange"}, user: Snapshot \cup {NoSnapshot}]
           \cup [phase: {"commit"}, user: Snapshot]

LoginTypeOK ==
    /\ cookie \in [Browsers -> [token: UserIds \cup {NoUser}, oauth: BOOLEAN]]
    /\ req \in [Browsers -> Request]

LoginInit ==
    /\ cookie = [b \in Browsers |-> [token |-> NoUser, oauth |-> FALSE]]
    /\ req = [b \in Browsers |-> Idle]
-----------------------------------------------------------------------------
(* fillSessionForUser, the last call of a handler that succeeds. *)
FillSession(b, u) == /\ cookie' = [cookie EXCEPT ![b].token = u]
                     /\ req' = [req EXCEPT ![b] = Idle]

(* RedirectToSignup: clearSession drops the token, the OAuth state stays. *)
RedirectToSignup(b) == FillSession(b, NoUser)

(* signupForm up to the SELECT of AddUser.  A refused form is a Logout. *)
SignupForm(b, n, g) ==
    /\ req[b] = Idle
    /\ \/ /\ FindUserByName(n, g) = {}
          /\ req' = [req EXCEPT ![b] = [phase |-> "insert", name |-> n, group |-> g]]
          /\ UNCHANGED cookie
       \/ \E u \in FindUserByName(n, g) :
             IF Linked(u) THEN RedirectToSignup(b) ELSE FillSession(b, u)
    /\ UNCHANGED <<users, makerVars>>

(* The INSERT of AddUser.  A handler that lost the race on the unique index *)
(* is refused.                                                              *)
SignupInsert(b) ==
    /\ req[b].phase = "insert"
    /\ \/ /\ FindUserByName(req[b].name, req[b].group) # {}
          /\ RedirectToSignup(b)
          /\ UNCHANGED users
       \/ \E u \in UserIds :
             /\ InsertUser(u, req[b].name, req[b].group)
             /\ FillSession(b, u) \/ ("lost" \in Faults /\ RedirectToSignup(b))
    /\ UNCHANGED makerVars

(* login: a new OAuth state is put into the cookie. *)
Login(b) ==
    /\ req[b] = Idle
    /\ cookie' = [cookie EXCEPT ![b].oauth = TRUE]
    /\ UNCHANGED <<req, users, makerVars>>

(* logout, and every handler that refuses its input before it has done      *)
(* anything: a malformed signup form, an OAuth state that does not match.   *)
Logout(b) ==
    /\ req[b] = Idle
    /\ RedirectToSignup(b)
    /\ UNCHANGED <<users, makerVars>>

(* oauth up to tryFindUserByToken. *)
Oauth(b) ==
    /\ req[b] = Idle
    /\ cookie[b].oauth
    /\ req' = [req EXCEPT ![b] = [phase |-> "exchange",
                 user |-> IF cookie[b].token = NoUser THEN NoSnapshot
                                                      ELSE SnapshotOf(cookie[b].token)]]
    /\ UNCHANGED <<cookie, users, makerVars>>

(* GitLab has named the account a: without a token it leads to the user;    *)
(* with one, a linked user gets a new session and any other is to be linked.*)
OauthResolve(b, a) ==
    /\ req[b].phase = "exchange"
    /\ LET s == req[b].user IN
         \/ s = NoSnapshot /\ FindUserByAccount(a) = {} /\ RedirectToSignup(b)
         \/ s = NoSnapshot /\ \E u \in FindUserByAccount(a) : FillSession(b, u)
         \/ s # NoSnapshot /\ s.account # NoAccount /\ FillSession(b, s.id)
         \/ /\ s # NoSnapshot /\ s.account = NoAccount
            /\ req' = [req EXCEPT ![b] = [phase |-> "commit",
                                          user |-> [s EXCEPT !.account = a]]]
            /\ UNCHANGED cookie
    /\ UNCHANGED <<users, makerVars>>

(* Mutant: the handler sends its user before it looks at the error. *)
OauthCommitSendsFirst(b) ==
    /\ req[b].phase = "commit"
    /\ LET s == req[b].user IN
         /\ sending' = sending \cup {s}
         /\ \/ /\ GitlabAccountFree(s.id, s.account)
               /\ SetUserGitlabAccount(s.id, s.account)
               /\ req' = [req EXCEPT ![b] = Idle]
               /\ UNCHANGED cookie
            \/ /\ ~GitlabAccountFree(s.id, s.account)
               /\ RedirectToSignup(b)
               /\ UNCHANGED users
    /\ UNCHANGED <<queue, pc, sweeping, todo, current, timer, projects>>

(* SetUserGitlabAccount, and the start of AsyncPrepareProject.  Refused for *)
(* an account or a user that is taken.  When the answer is lost the row is  *)
(* linked but its user is not sent to the maker.                            *)
OauthCommit(b) ==
    /\ req[b].phase = "commit"
    /\ LET s == req[b].user IN
         \/ /\ GitlabAccountFree(s.id, s.account)
            /\ SetUserGitlabAccount(s.id, s.account)
            /\ \/ /\ sending' = sending \cup {s}
                  /\ req' = [req EXCEPT ![b] = Idle]
                  /\ UNCHANGED cookie
               \/ /\ "lost" \in Faults
                  /\ RedirectToSignup(b)
                  /\ UNCHANGED sending
         \/ /\ ~GitlabAccountFree(s.id, s.account)
            /\ RedirectToSignup(b)
            /\ UNCHANGED <<users, sending>>
    /\ UNCHANGED <<queue, pc, sweeping, todo, current, timer, projects>>

(* The database or GitLab fails a handler. *)
RequestFails(b) ==
    /\ "fail" \in Faults
    /\ req[b] # Idle
    /\ RedirectToSignup(b)
    /\ UNCHANGED <<users, makerVars>>

LoginNext ==
    \E b \in Browsers :
      \/ \E n \in Names, g \in Groups : SignupForm(b, n, g)
      \/ SignupInsert(b) \/ Login(b) \/ Logout(b) \/ Oauth(b)
      \/ \E a \in Accounts : OauthResolve(b, a)
      \/ OauthCommit(b) \/ RequestFails(b)
=============================================================================
