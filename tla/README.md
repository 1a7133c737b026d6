# A TLA+ model of notmanytask

notmanytask runs a programming course: students sign up with a GitLab account, get a GitLab
project, push solutions that pipelines grade, crash "crashme" binaries for flags, and read their
scores and the standings on a web page. This directory models the service in TLA+, checks it with
TLC and, for every value of the constants, proves the safety properties of every part with TLAPS.

## The system: components, state, operations

| component | source | state | operations | hard because |
|---|---|---|---|---|
| users table | `internal/database/database.go`, `internal/models` | rows with two unique indexes: (names, group) and the GitLab account | find, insert, link, set repository, set group | check-then-act without transactions |
| login service | `internal/web/login.go` | a session cookie and an OAuth state per browser | signup, login, oauth, logout; session check, Telegram login | several browsers, GitLab calls between a read and a write, lost answers; tabs that share a cookie, redirects that depend on one another |
| projects maker | `internal/gitlab/projects.go`, `gitlab.go` | channel of 4 users, one timer, the user being worked on | sweep, receive, tick, requeue, seven remote calls | partial failure, retries, copies of rows, a goroutine that sends to itself |
| pipelines fetcher | `internal/gitlab/pipelines.go` | fresh reports in memory, the poller's round, project and page | tick, list page by page, store, report, range over reports | two goroutines write one table, reads and writes apart, listings that shift while they are read |
| deadlines fetcher | `internal/deadlines/fetcher.go` | one atomic pointer to the sheets of all groups | reload, swap | one of several fetches fails |
| deadlines, scorer | `internal/deadlines`, `internal/scorer` | none: a function of four tables and a sheet | score a task, a user, a group | order of rows, boundaries, overrides |
| standings pages | `internal/web/render.go`, `api.go` | a cache of ten seconds, requests in flight | compute, reverse, cache, render | tables read one after the other, a slice shared by all requests |
| crashme | `cmd/crashme/main.go` | semaphore, connections, an error budget; three pipes and copying goroutines per command | accept, queue, run, copy, fetch a flag | queues, retries, panics; students who hang up while copies are stuck |
| flags | `api.go`, `render.go`, `database.go` | the flags table | create, submit | late and repeated requests, two submitters |

Handlers call the database and GitLab directly. Login handlers send users to the maker over the
channel; graders report pipelines to the fresh loop through the API; the scorer reads what the
pipelines fetcher, the flag handlers and the override endpoint have written, under the sheet the
deadlines fetcher has swapped in; crashme asks the web service for flags over HTTP.

What makes each part correct: a student is linked to one account for good and gets one complete
project; redirects end at a page and the home page has a sheet to show; a report is not swallowed,
a listing skips nothing and the table ends up with GitLab's status; no order of submissions costs
points; a scoreboard is consistent in itself; flags are earned by crashes and have one owner; permits
come back, also from students who are gone. `PROJECT.json` lists the hazards line by line.

## Modules

| module | models | composed of |
|---|---|---|
| `UserTable` | the users table and its queries; SQL conditions are guards | |
| `ProjectsMaker` | `Run`, `initializeMissingProjects`, `maybeInitializeProject`, every call of `InitializeProject` | `UserTable` |
| `LoginService` | `signupForm`, `login`, `oauth`, `logout`; a request in flight is a record with a phase | `ProjectsMaker` |
| `Onboarding` | the three together, `changeGroup` of the API, restarts | `LoginService` |
| `Enrollment` | abstract: register, link, settle | |
| `Onboarding_proof` | theorems about `Onboarding` | `Onboarding` |
| `Pipelines` | `Run`, `fetchAllPipelines` page by page, `RunFresh`, `AddFresh`, `fetch`, GitLab's side of a pipeline | |
| `StatusTable` | abstract: a table of statuses that GitLab has had | |
| `Scoring` | `internal/scorer` and `internal/deadlines` as operators; the tables and how their rows come and change | |
| `DeadlinesFetcher` | `Fetcher.Run`, `reload` | |
| `Scoreboard` | page and API requests step by step, shared slices, the cache | `Scoring`, `DeadlinesFetcher` |
| `Website` | `validateSession`, the redirects, the Telegram login, the home page, for tabs that share a cookie | `DeadlinesFetcher` |
| `CommandProxy` | `commandProxy`: three copies, the binary, the student's end of the connection | |
| `Crashme` | the rest of `cmd/crashme`, `createFlag`, `handleFlagSubmit` | `CommandProxy` |
| `Pipelines_proof`, `Website_proof`, `Crashme_proof`, `Scoring_proof` | theorems about the module each is named after; `Website_proof` also about `DeadlinesFetcher` | that module |
| `Scoreboard_proof` | theorems about `Scoreboard` | `Scoreboard`, `Scoring_proof` |
| `Induction` | induction over the rounds of a loop | |
| `RowLoops` | what the loop that keeps the best row of every task ends with, for any strict order | `Induction` |

`MC*` modules hold the constants of the instances. Definitions whose comment starts with "Mutant"
are deliberate mistakes: `PROJECT.json` says which property each of them breaks.

How state and actions correspond to the code: a remote call or a query is one action, since other
goroutines run between two of them; what a handler does between two such calls belongs to the
action before it. A call may fail without an effect (`"fail"` in `Faults`) or take effect and lose
its answer (`"lost"`); `"crash"` restarts the process, which forgets everything in memory. History
variables (`moved`, `dropped`, `due`, `owed`, `shown`, `restarted`, `accepted`, the `moments` of a scoreboard
request, the version numbers of statuses) are read by properties only.

## Abstractions

- First and last name are one value, GitLab id and login are one value `account` (they are written
  together). `cleanupName` and `cleanupLogin` are arbitrary functions, not assumed injective; in
  the instances all names collide.
- Scores are integers; `int(float64)` is a truncating division, the exponential a table that falls.
  Marks are in units of `1/Scale` and rounded down.
- The loops of the scorer are recursive functions over the rows in the order the database returned them
  (`SetToSeq`: some order); a scoreboard is the order of its users that is sorted, which is unique since
  the names differ.
- A sheet is trusted as the scorer trusts it (`SheetInOrder`): scores, weights and maxima are not
  negative, policies take between nothing and everything away, a retake is worth between 0 and 100
  percent, tasks with flags are marked crashme. Nothing in the code validates a sheet; a sheet out of
  order is out of the model.
- A pipeline or flag keeps its task and time; branch parsing (`ParseTaskFromBranch`) is left out. Its
  status may be overwritten by any other, a success by a stale "running" included: `AddPipeline` updates
  whatever row it finds, and the poller does store older statuses (see `Pipelines`).
- In `Pipelines` GitLab lists a project's pipelines newest first, tells the number of pages with every
  page and deletes no pipelines; the pipelines of a page are stored in any order. The list of projects is
  read at the tick: a project that appears later waits for the next round, and the pages of that list
  shift the same way.
- In `Website` linking an account is one step (`LoginService` has its steps): `Oauth` reads and writes the
  cookie at once, while the code asks GitLab in between. The browser comes back from GitLab, and Telegram
  is configured. The pages for flags and retakes have the session check of the home page and are visited
  as that. Any query of `CalcUserScores` may fail, and a home page that gets no scores panics in
  `reverseScores` (gin recovers and answers 500), although its template has an error field: `"failed"`.
- In `Scoreboard` the users of the group are fixed and an entry of the cache may expire at any time. The
  pages look into the cache first; the endpoint calls `CalcScoreboard` directly and always computes.
  A reload that finds an unchanged sheet keeps its slice; in the code it makes an equal new one.
- In `CommandProxy` a binary either reads its input to the end or writes without reading. One that does
  neither for ever keeps its permit for ever, student or no student: the code sets no limit. That
  `Wait` may close the pipes before the copies have drained them only cuts output short. In `Crashme`
  what is typed after the task's name and the submit files are left out.
  `FlagTasks` of `Scoring` are crashme tasks: only those have binaries. A flag for an ordinary task
  would replace an earlier pipeline, since a flag is looked at first.

## Runs

| run | shows | bounds |
|---|---|---|
| `onboarding_races` | `TypeOK`, `SnapshotsCurrent`, `OneTicket`, and `KeepsPromise`: `Onboarding` implements `Enrollment` | 2 users, 2 browsers, 2 accounts, channel of 1, restarts: both browsers race for one user and for one account, and a sender blocks |
| `onboarding_moves` | the inductive invariant `IInv`, `NobodyForgotten`, `ProtectedHasReadme`, `RepoReady` | 1 browser, 2 groups, every fault, a group change at any step |
| `onboarding_sweep` | *violated*: `LinkedServed` | the timer of `Run` fires once |
| `maker_served` | `TicketsServed` (liveness) | channel with room for all users |
| `maker_stuck` | *violated*: `RetryReturns` | channel of 1; the code's 4 needs four blocked users more |
| `pipelines_reports` | `TypeOK`, `ReportsKept`, `NothingSkipped`, and `KeepsTable`: `Pipelines` implements `StatusTable` | 3 pipelines of one project on pages of 1, another project without any; 2 reports at a time, 6 status changes of the reported one (one retry of a failed pipeline), with and without the poller, failures and restarts |
| `pipelines_converge` | `Converges`, `ReportSettles` (liveness) | 2 pipelines, poller and fresh loop together and the fresh loop alone, with failures and restarts |
| `scoring` | `TypeOK`, `BestPipeline`, `SubmittingNeverCosts`, `TasksBounded`, `MarksBounded`, `HomeAgrees` | 2 pipelines with 3 statuses that follow one another in any order and a flag, of 2 users, one with a retake; an override; times before the deadlines, at one of them and after the final one; a scoring group the sheet lacks |
| `website` | `FetcherTypeOK`, `SheetsKept`, `SiteTypeOK`, `HomeHasSheet`, `SheetsArrive`, `RedirectsEnd` (liveness) | 1 student, 2 tabs, 2 groups and a third that is only asked for, 2 publications of each sheet |
| `scoreboard` | `HeaderMatches`, `PageOfItsOwn`, `DueAtSomeRead` | 2 requests for the standings or the retakes page, which share the cache, and a student who is on the first only; 2 versions of the sheet, the second with its task groups swapped and a deadline moved; a pipeline whose status changes both ways and an override, which appear meanwhile |
| `crashme` | `TypeOK`, `PermitsAccounted`, `FlagsEarned`, `OneOwner`, `OnlyCrashesFetch`, `Answered`, `GoneReleases` (liveness) | 2 connections for 1 permit, 2 requests for a flag each, 2 flags, 2 students, 2 tasks, one whose binary reads and one whose binary writes, one of them typed in two ways |
| `crashme_accept` | *violated*: `AcceptErrorsTolerated` | the budget of 10 of the code |

The bounds are small, but each hazard needs at most two of everything: two handlers and one row,
two writers and one status, two requests and one slice. Deadlock is checked where the system never
stops; the other instances stop because their tables, connections or users run out.

What the three violations show. (1) `time.NewTimer` where an interval is configured: users whose
ticket was lost after the only tick wait for the next restart. (2) `p.users <- user` inside the only
reader of the channel: with a full buffer the maker stops for good. (3) After a failed `Accept` the
loop starts a handler with a nil connection, which panics, so the budget of ten errors is never used.

`RedirectsEnd` is checked for one student: with two names, somebody who signs up as one and the other
in turn in one tab, for ever, can keep the redirects of another tab going, which is his own doing.
`ReportSettles` promises a status that is not "running", as the code does: a reported pipeline that was
still pending when it was fetched is dropped from the fresh set, and its end is left to the poller
(`Converges`) or to the next report.

`SubmittingNeverCosts` leaves out task groups whose scoring group has no policy: there
`scorePipeline` returns -1 for a solved task, which is less than nothing; `TasksBounded`
allows it.

`DueAtSomeRead` says what a board computed without a transaction is still worth: no bound by what was due
when the request began or ended, since a stale "running" may be stored over a success and taken back while
it reads, but every single task as it was due at some moment the request read a table. It takes the order of
the reads: a task has an override at the end, or had none at any of the reads before (nothing removes one:
`RemoveOverride`, `database.go:328`, has no caller); it has a flag at the second read, or had none at the first (flags
are never withdrawn). Whoever listed the overrides first would show tasks as they never were. The run
leaves out flags and the endpoint, which has no cache and stops before the reversal: with them it has
several times the states. The theorem covers both.

`HomeHasSheet` is about the sheet alone: a failing query still ends a home page.

The runs of the onboarding split the faults: restarts with two browsers, every fault with one. The
proofs below cover both at once.

## Fairness

Goroutines run when they can (weak fairness of local steps, of receiving and of blocked sends: Go's
scheduler, and `select`, which picks among ready cases at random). A remote call that is made again
and again is answered at some time (strong fairness of each call's success), which is an assumption
about GitLab, not about the code. Tickers tick; the timer of the projects maker once. Students,
graders and the staff owe nothing. GitLab ends a running pipeline. Browsers follow redirects and
come back from GitLab's login. In `Crashme` a request ends with an answer or an error, the waiting
minute and the ten seconds of the backoff pass; a connected student and his binary owe nothing, but
once he is gone reads from his connection end, writes to it fail, a binary that reads ends with its
input and one that writes goes on writing.

## Proofs

Every invariant, action property and refinement of a passing run is proved for every value of the
constants that satisfies the named assumptions. The safety part of each
specification (`Spec`, `WebSpec`, `BoardSpec`) stands apart from its fairness (`FairSpec`, `WebFairSpec`), and
the theorems are about the safety part.

| module | theorems |
|---|---|
| `Onboarding_proof` | `TypeOK`, `SnapshotsCurrent`, `OneTicket`, `NobodyForgotten`, `ProtectedHasReadme`, `RepoReady`, `IInv`; `Onboarding` implements `Enrollment` |
| `Website_proof` | `FetcherTypeOK`, `SheetsKept`, `SiteTypeOK`, `HomeHasSheet` |
| `Pipelines_proof` | `TypeOK`, `ReportsKept`, `NothingSkipped`; `Pipelines` implements `StatusTable` |
| `Crashme_proof` | `TypeOK`, `PermitsAccounted`, `OnlyCrashesFetch`, `OneOwner`, `FlagsEarned` |
| `Scoring_proof` | `TypeOK`, `BestPipeline`, `TasksBounded`, `MarksBounded`, `SubmittingNeverCosts`, `HomeAgrees` |
| `Scoreboard_proof` | `PageOfItsOwn`, `HeaderMatches`, `DueAtSomeRead` |

**Assumptions.** They are in the modules that declare the constants, and TLC evaluates them in every
run. "No value" constants are none of the values (`NoUser`, `NoTab`, `NoFlag`, `NoRow`, `Nothing`, and the
string `"none"`, which is no task and no file); functions have their types; capacities, page sizes,
concurrency and the number of attempts are positive. Pipelines, users and row ids are finitely many,
since the code counts or lists them, and so are the scoring groups of a sheet. `ScoringAssumption` asks for a sheet in order and for an
exponential that falls with the lateness; `ScoreboardAssumption` for such a sheet in every version, with
tasks that `Sheet` names too (the tables' types are made from it).

**Onboarding.** The properties are not inductive by themselves. A repository in a row is complete
because the maker had got through its calls (`MakerProgress`); that is about the project of the user it
holds, so the copy it holds must agree with the row (`SnapshotsCurrent`); a copy was made by a login
handler from a row it read before talking to GitLab (`RequestsCurrent`); and `SetRepository` keeps
`NobodyForgotten` only since a ticket it completes is the user's only one (`OneTicket`). `IInv` is the
conjunction; TLC checks it in `onboarding_moves`. The proof has one lemma per conjunct and step class,
rests on two frame lemmas (`RowsKept`: no step unlinks, renames or relinks a row; `ProjectStep`: a step only
adds to a project) and ends in `Inductive` and `Invariance`.

**Website.** A reload that fails half-way is harmless because the map it fills is its own and complete
at the swap: `FInv` says which groups a reload has fetched at each position, and that versions grow from
use to reload to publication. `HomeHasSheet` needs that whoever has a session is in a configured group,
and that the group a page in the making has read is one (`GroupsKnown`): both survive `changeGroup`, which
checks the group, and every reload, which keeps every group's sheet.

**Pipelines.** `RangeSound` is what a `range` over a map with deletions after it relies on: an entry is to
be visited, in hand, or to be deleted, never two of these. `ReportsKept` becomes inductive with
`ReportedAgain`: a pipeline read as ended has another entry if it was reported since. `NothingSkipped`
follows from `OwedAhead`: what a listing still owes has at least (page - 1) * size newer pipelines before
it, which creations can only increase; the rest is division by the page size. The refinement needs that
whatever is in a page, in hand or in the table was shown by GitLab (`OnlyShown`), and that without the
poller what the fresh loop has in hand is no older than the row (`OneWriter`).

**Crashme.** `SemaphoreSound` ties permits, queue and phases together (the holders are finitely many,
which counting them needs); `ProxySound` says that a binary's output fails only after the student is gone,
which is why a hang-up is no crash; `MailSound` and `FlagsSound` say that an answer's flag is in the table,
for the task of its connection, shown to nobody and carried by no other answer. With these a flag is
shown once even if requests are repeated and answers arrive late.

**Scoring.** What the loops compute for every input is proved by induction over their rounds. The
library's induction theorems take an operator as a parameter, which the provers cannot use, so
`Induction` states the principle for sets (`AllRounds`: the set of rounds after which the loop's invariant
holds), and `RowLoops` takes the comparison as a constant operator and is instantiated for pipelines and
for flags. From there: the best row does not depend on the order of the rows (`PipelinesPicked`,
`FlagsPicked`); a later submission is worth no more (`PolicyFalls`, `ScoreFalls`); of more rows the one that
counts is no later (`CountsKept`), so no task and no mark falls (`TaskGrows`, `MarkGrows`, `MoreIsNoLess`); a
board has a sorted order (`SomeSortedOrder`) and every row of it is a home page (`BoardAndHome`). These
lemmas hold for any sheet in order and any sets of rows, which is what the scoreboard needs.

`MarksBounded` is a matter of sums. Without overrides a task group scores no more than its maximum
(`GroupWithin`, from `TasksBounded`), so it adds at most its part of the scoring group's weight, rounded
down (`WorthBounded`). The mark adds these parts up by task group; added up by scoring group instead
(`RowsAndColumns`: a table has one total) they are at most the group's weight each (`WeightBounds`), since
`buildScoringGroups` made the maximum no less than the sum of its task groups (`MaximaBuilt`). That is where
`MaximaCover` is needed: a sheet may set a maximum by hand below what its tasks are worth, as for bonus
tasks, and then a mark exceeds its weight, as the code has it. Groups whose maximum is 0 add nothing.

**Scoreboard.** The inductive invariant `BInv` says how what a request has read relates to the present: each
of its moments lies in the past, from which no flag and no override has been taken away (`Past`, `TablesGrow`),
though the status of a pipeline may have changed either way; its pipelines are those of one moment, its
flags those of another that is no earlier (`FlagsRead`). A task is decided by the override if there is one,
else by the flag, else by the pipelines (`TaskDecided`), so each of the three cases has its moment (`TaskDue`).
Standings in a request or in the cache are the scoreboard of some rows under the sheet of their version,
with header and columns turned together or not at all (`Sound`), and no sheet's slice was ever touched
(`SlicesKept`). The theorems follow with the lemmas of `Scoring_proof`.

**Only model-checked.** All liveness properties (`TicketsServed`, `Converges`, `ReportSettles`, `SheetsArrive`,
`RedirectsEnd`, `Answered`, `GoneReleases`): fairness and ENABLED are outside the prover's reach.

## Not modelled

- The telegram bot reads one user per message and replies; it keeps no state.
- The command line client sends single requests. `override` repeats a request that failed, and an
  attempt delayed in the network may land after a newer override; both are an `AddOverride` of
  `Scoring` in some order, which its run enumerates.
- `cmd/fuzz` drives external programs. `FetchSubmits` passes an address where `LoadStandings` wants a
  group name, the server answers that it has no deadlines for it, and nothing after that is reached.
- Code nobody calls: `RemoveOverride`, `RenderCheaterPage`, `RenderStandingsCheaterPage`,
  `fillUserFromQuery`.
- `pkg/targz`, configuration, logging, templates, YAML and date parsing, deployment: no state.
- The files of submissions: two of one task within a millisecond share a name (`main.go:243`).
- The list of users of a board is fixed in `Scoreboard`. A student who is moved keeps the project in
  his row, while his pipelines are looked up under the name the new group gives the project
  (`MakeProjectName`): a property of `changeGroup` that nothing in the repository speaks against.
- Sessions are never changed or deleted, so a token stands for its user.

## Plan

Done: all components above with their runs, and the theorems above, which state every safety property
of the runs. Left for later: the list of users of a board as a table of its own, so that signups and
group changes during a computation are covered.
