------------------------------- MODULE Scoreboard -------------------------------
(***************************************************************************)
(* The standings pages (internal/web/render.go) and the standings endpoint  *)
(* (internal/web/api.go): requests that compute a scoreboard step by step   *)
(* while the tables change and the deadlines are reloaded under them.         *)
(*                                                                          *)
(* CalcScoreboardWithFilter reads the sheet's pointer, the pipelines, the   *)
(* flags and the overrides one after the other, without a transaction.  The *)
(* Assignments slice of a sheet is shared by all who hold the sheet;        *)
(* render.go reverses the slice of its own standings in place.  The pages   *)
(* cache what they computed, the endpoint does not.                         *)
(***************************************************************************)
EXTENDS Scoring, DeadlinesFetcher

CONSTANTS
    Requests,     \* requests in flight at a time
    Pages,        \* of "standings", "retakes" (pages) and "api"
    Published,    \* the sheet of every version, as yaml.Unmarshal returns it
    BoardGroup,   \* the group the requests ask for
    NoStandings

VARIABLES
    slices,       \* the Assignments slice of every version's sheet
    request,      \* what every request has read so far
    cache         \* ccache, by page

(* Every version of the sheet is in order, and Sheet names all its tasks.   *)
ASSUME ScoreboardAssumption ==
    /\ BoardGroup \in Groups
    /\ \A v \in Versions :
         /\ SheetInOrder(Published[v])
         /\ \A i \in DOMAIN Published[v].assignments :
            \A j \in DOMAIN Published[v].assignments[i].tasks :
              Published[v].assignments[i].tasks[j].task \in Tasks

boardVars == <<tables, fetcherVars, slices, request, cache>>

(* A sheet as its holders see it, and a snapshot of the tables. *)
SheetAt(v) == [BuildScoringGroups(Published[v]) EXCEPT !.assignments = slices[v]]
AllRows == [pipelines |-> Rows(pipelines), flags |-> Rows(flags), overrides |-> Rows(overrides)]

(* The pages that are cached; the endpoint is not. *)
CachedPages == Pages \ {"api"}

Idle == [phase |-> "idle", page |-> "none", version |-> 0,
         moments |-> {}, read |-> [pipelines |-> {}, flags |-> {}], standings |-> NoStandings]

(* RenderRetakesPage's filter. *)
Filtered(page) == IF page = "retakes" THEN {u \in Logins : HasRetake[u]} ELSE Logins

BoardInit ==
    /\ Init
    /\ FetcherInit
    /\ slices = [v \in Versions |-> Published[v].assignments]
    /\ request = [r \in Requests |-> Idle]
    /\ cache = [p \in CachedPages |-> NoStandings]

Holds(r, phase, page, standings) ==
    request' = [request EXCEPT ![r] = [Idle EXCEPT !.phase = phase, !.page = page,
                                                   !.standings = standings]]

(* Mutant: everything about a group has one key. *)
CacheKeyGroup(page) == CHOOSE p \in CachedPages : TRUE

(* The key of the cache: "scores/<group>/<page>". *)
CacheKey(page) == page

Hit(page) == page \in CachedPages /\ cache[CacheKey(page)] # NoStandings

(* A page looks into the cache: a hit is rendered, a miss is computed, by   *)
(* everybody who missed.  The endpoint always computes.  GroupDeadlines is  *)
(* read first.                                                              *)
Begin(r, page) ==
    /\ request[r].phase = "idle"
    /\ \/ Hit(page) /\ Holds(r, "render", page, cache[CacheKey(page)])
       \/ /\ ~Hit(page)
          /\ HasSheet(BoardGroup)
          /\ request' = [request EXCEPT ![r] = [Idle EXCEPT
                            !.phase = "pipelines", !.page = page, !.version = GroupDeadlines(BoardGroup)]]
    /\ UNCHANGED <<tables, fetcherVars, slices, cache>>

(* makeCachedPipelinesProvider, makeCachedFlagsProvider.  What the other    *)
(* tables hold meanwhile goes into moments, for DueAtSomeRead alone.        *)
ReadPipelines(r) ==
    /\ request[r].phase = "pipelines"
    /\ request' = [request EXCEPT ![r].phase = "flags",
                                  ![r].read.pipelines = Rows(pipelines),
                                  ![r].moments = @ \cup {AllRows}]
    /\ UNCHANGED <<tables, fetcherVars, slices, cache>>

ReadFlags(r) ==
    /\ request[r].phase = "flags"
    /\ request' = [request EXCEPT ![r].phase = "overrides", ![r].read.flags = Rows(flags),
                                  ![r].moments = @ \cup {AllRows}]
    /\ UNCHANGED <<tables, fetcherVars, slices, cache>>

(* Mutant: the standings refer to the sheet itself. *)
CopyDeadlinesShares(v) == [shared |-> TRUE, slice |-> <<>>]

(* copyDeadlines: a slice of its own. *)
CopyDeadlines(v) == [shared |-> FALSE, slice |-> slices[v]]

(* Mutant: the overrides are listed before the pipelines. *)
CalcBoardOverridesFirst(r) ==
    LET first == CHOOSE m \in request[r].moments : m.pipelines = request[r].read.pipelines
    IN  [version |-> request[r].version, deadlines |-> CopyDeadlines(request[r].version),
         users |-> CalcScoreboard(SheetAt(request[r].version), Filtered(request[r].page),
                                  Rows(pipelines), request[r].read.flags, first.overrides)]

(* The end of CalcScoreboardWithFilter: ListOverrides and the scores. *)
CalcBoard(r) ==
    [version |-> request[r].version,
     deadlines |-> CopyDeadlines(request[r].version),
     users |-> CalcScoreboard(SheetAt(request[r].version), Filtered(request[r].page),
                              request[r].read.pipelines, request[r].read.flags,
                              Rows(overrides))]

Compute(r) ==
    /\ request[r].phase = "overrides"
    /\ Holds(r, IF request[r].page = "api" THEN "render" ELSE "reverse", request[r].page,
             CalcBoard(r))
    /\ UNCHANGED <<tables, fetcherVars, slices, cache>>

(* reverseScoreboardGroups, in place, and the cache's Set. *)
ReverseGroups(r) ==
    /\ request[r].phase = "reverse"
    /\ LET s == request[r].standings
           reversed == [s EXCEPT !.deadlines.slice = Reverse(@),
                                 !.users = [i \in DOMAIN @ |->
                                     [s.users[i] EXCEPT !.groups = Reverse(@)]]]
       IN  /\ slices' = IF s.deadlines.shared
                          THEN [slices EXCEPT ![s.version] = Reverse(@)] ELSE slices
           /\ Holds(r, "render", request[r].page, reversed)
           /\ cache' = [cache EXCEPT ![CacheKey(request[r].page)] = reversed]
    /\ UNCHANGED <<tables, fetcherVars>>

(* The page or the answer is written out, or a query has failed: an error   *)
(* (or, on the pages, a panic gin recovers from) ends the request.          *)
Finish(r) ==
    /\ request[r].phase # "idle"
    /\ request' = [request EXCEPT ![r] = Idle]
    /\ UNCHANGED <<tables, fetcherVars, slices, cache>>

(* Ten seconds have passed. *)
Expire(page) ==
    /\ cache[page] # NoStandings
    /\ cache' = [cache EXCEPT ![page] = NoStandings]
    /\ UNCHANGED <<tables, fetcherVars, slices, request>>

BoardNext ==
    \/ \E r \in Requests :
         \/ \E page \in Pages : Begin(r, page)
         \/ ReadPipelines(r)
         \/ ReadFlags(r)
         \/ Compute(r)
         \/ ReverseGroups(r)
         \/ Finish(r)
    \/ \E page \in CachedPages : Expire(page)
    \/ Next /\ UNCHANGED <<fetcherVars, slices, request, cache>>
    \/ FetcherNext /\ UNCHANGED <<tables, slices, request, cache>>

BoardSpec == BoardInit /\ [][BoardNext]_boardVars
-----------------------------------------------------------------------------
(* What a browser or the cache holds *)
Shown ==
    ({cache[p] : p \in CachedPages} \ {NoStandings})
      \cup {request[r].standings : r \in {q \in Requests : request[q].phase = "render"}}

Header(s) == IF s.deadlines.shared THEN slices[s.version] ELSE s.deadlines.slice

(* However requests overlap with each other and with a reload, the column   *)
(* titles of a page are those of its scores, in the same order, and no page *)
(* disturbs the order of a sheet others read (scorer.go:114-119, 180;       *)
(* render.go:139-144).                                                      *)
HeaderMatches ==
    /\ \A s \in Shown : \A i \in DOMAIN s.users :
         /\ Len(s.users[i].groups) = Len(Header(s))
         /\ \A j \in DOMAIN Header(s) : s.users[i].groups[j].title = Header(s)[j].title
    /\ \A v \in Versions : slices[v] = Published[v].assignments

(* The retakes page, the standings page and the endpoint, which share the   *)
(* scorer and a cache and are computed by overlapping requests, each list   *)
(* their own users, once each (render.go:159-183, api.go:339).              *)
PageOfItsOwn ==
    \A r \in Requests : request[r].phase = "render" =>
      LET users == request[r].standings.users IN
      /\ {users[i].login : i \in DOMAIN users} = Filtered(request[r].page)
      /\ Len(users) = Cardinality(Filtered(request[r].page))

(* The tables are read one after the other, without a transaction, while    *)
(* pipelines change status both ways, flags are submitted, overrides are    *)
(* put over them and the sheet is replaced.  Yet every task of a board that *)
(* is computed has the status and the score that were due, under the sheet  *)
(* the request began with, at one of the moments it read a table            *)
(* (scorer.go:128-161, 183-223, 300-327): no mixture of moments is shown.   *)
DueAtSomeRead ==
    [][\A r \in Requests :
         request[r].phase = "overrides" /\ request'[r].phase \in {"reverse", "render"} =>
           LET d == SheetAt(request[r].version)
               users == request'[r].standings.users
               due(u, m) == CalcUserScores(d, u, m.pipelines, m.flags, m.overrides)
           IN  \A i \in DOMAIN users : \A g \in DOMAIN d.assignments :
               \A j \in DOMAIN d.assignments[g].tasks :
               \E m \in request[r].moments \cup {AllRows} :
                 users[i].groups[g].tasks[j] = due(users[i].login, m).groups[g].tasks[j]
      ]_boardVars
=============================================================================
