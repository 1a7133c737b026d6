------------------------------ MODULE UserTable ------------------------------
(***************************************************************************)
(* The "users" table of the course service: internal/models/user.go and    *)
(* the user queries of internal/database/database.go.                      *)
(*                                                                         *)
(* A row keeps what the onboarding logic tells apart.  First and last name *)
(* form one value; GitlabID and GitlabLogin, which are only ever written   *)
(* together, form one value `account'; the two unique indexes are          *)
(* (name, group) and account.  Rows are never deleted.                     *)
(***************************************************************************)
CONSTANTS
    UserIds,       \* primary keys of the table
    Names,         \* normalised (first name, last name) pairs
    Groups,        \* course groups of the configuration
    Accounts,      \* GitLab accounts
    CleanNames,    \* what cleanupName can return for a name pair
    CleanLogins,   \* what cleanupLogin can return
    CleanupName,   \* Client.cleanupName on both names (not injective)
    CleanupLogin,  \* Client.cleanupLogin on the login (not injective)
    NoRow, NoAccount, NoRepo, NoUser

VARIABLE users     \* the table: a row, or NoRow, for every primary key

ProjectNames == [group: Groups, name: CleanNames, login: CleanLogins]

Row == [name: Names, group: Groups,
        account: Accounts \cup {NoAccount},
        repo: ProjectNames \cup {NoRepo}]

(* A *models.User in memory: a copy of the columns the maker uses. *)
Snapshot == [id: UserIds, name: Names, group: Groups,
             account: Accounts \cup {NoAccount}]

ASSUME UserTableAssumption ==
    /\ CleanupName \in [Names -> CleanNames]
    /\ CleanupLogin \in [Accounts -> CleanLogins]
    /\ NoRow \notin Row
    /\ NoAccount \notin Accounts
    /\ NoRepo \notin ProjectNames
    /\ NoUser \notin UserIds

UsersTypeOK == users \in [UserIds -> Row \cup {NoRow}]

UsersInit == users = [u \in UserIds |-> NoRow]
-----------------------------------------------------------------------------
Registered(u) == users[u] # NoRow

Linked(u) == Registered(u) /\ users[u].account # NoAccount

(* The record a query scans into. *)
SnapshotOf(u) == [id |-> u, name |-> users[u].name,
                  group |-> users[u].group, account |-> users[u].account]

(* The SELECT of gorm's FirstOrCreate: the row with these names and group. *)
FindUserByName(n, g) ==
    {u \in UserIds : Registered(u) /\ users[u].name = n /\ users[u].group = g}

(* FindUserByGitlabID and FindUserByGitlabLogin. *)
FindUserByAccount(a) == {u \in UserIds : Linked(u) /\ users[u].account = a}

ListUsersWithoutRepos ==
    {SnapshotOf(u) : u \in {v \in UserIds : Linked(v) /\ users[v].repo = NoRepo}}

(* Mutant: the group of a new row is left empty. *)
InsertUserNoGroup(u, n, g) ==
    /\ users[u] = NoRow
    /\ FindUserByName(n, g) = {}
    /\ users' = [users EXCEPT ![u] = [name |-> n, group |-> "",
                                      account |-> NoAccount, repo |-> NoRepo]]

(* The INSERT of FirstOrCreate; the unique index idx_name is the guard. *)
InsertUser(u, n, g) ==
    /\ users[u] = NoRow
    /\ FindUserByName(n, g) = {}
    /\ users' = [users EXCEPT ![u] = [name |-> n, group |-> g,
                                      account |-> NoAccount, repo |-> NoRepo]]

(* Mutant: the UPDATE without its WHERE on the account columns. *)
GitlabAccountFreeNoWhere(u, a) == FindUserByAccount(a) = {}

(* Whether the UPDATE of SetUserGitlabAccount finds its row, and whether   *)
(* the unique indexes on the account columns let it through.               *)
GitlabAccountFree(u, a) == ~Linked(u) /\ FindUserByAccount(a) = {}

SetUserGitlabAccount(u, a) == users' = [users EXCEPT ![u].account = a]

SetUserRepository(u, p) == users' = [users EXCEPT ![u].repo = p]

SetUserGroupName(u, g) ==
    /\ FindUserByName(users[u].name, g) \subseteq {u}
    /\ users' = [users EXCEPT ![u].group = g]

(* Client.MakeProjectName: group, cleaned names and cleaned login. *)
MakeProjectName(s) == [group |-> s.group, name |-> CleanupName[s.name],
                       login |-> CleanupLogin[s.account]]
=============================================================================
