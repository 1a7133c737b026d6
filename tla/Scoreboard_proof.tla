---------------------------- MODULE Scoreboard_proof ----------------------------
(***************************************************************************)
(* Proofs about Scoreboard, for any number of requests, pages, users, rows  *)
(* and versions of a sheet in order.                                        *)
(***************************************************************************)
EXTENDS Scoreboard, Scoring_proof

(* The sheet of a version, as everybody should see it. *)
SheetOf(v) == BuildScoringGroups(Published[v])

(* The users and tasks with an override. *)
Overridden == {k \in Logins \X Tasks : overrides[k] # NoRow}

(* Rows that the three tables may hold. *)
RowsRead(S, T, O) ==
    /\ IsFiniteSet(S) /\ S \subseteq PipelineRow
    /\ IsFiniteSet(T) /\ T \subseteq FlagRow
    /\ OverridesIn(O)

(* Standings come from such rows; their slice is their own and goes with    *)
(* their columns, both turned or neither.                                   *)
Turned(board) == [i \in DOMAIN board |-> [board[i] EXCEPT !.groups = Reverse(@)]]

StandingsShape(s) ==
    s \in [version: {s.version}, users: {s.users},
           deadlines: [shared: {FALSE}, slice: {s.deadlines.slice}]]

Sound(s, page, turned) ==
    /\ StandingsShape(s)
    /\ s.version \in Versions
    /\ \E S, T, O :
         /\ RowsRead(S, T, O)
         /\ LET board == CalcScoreboard(SheetOf(s.version), Filtered(page), S, T, O)
                slice == SheetOf(s.version).assignments
            IN  /\ s.users = IF turned THEN Turned(board) ELSE board
                /\ s.deadlines.slice = IF turned THEN Reverse(slice) ELSE slice

(* A moment of the past: no flag and no override has been taken away since, *)
(* where F are the flags and K the overridden tasks by now.  The status of  *)
(* a pipeline may have changed either way.                                  *)
Past(m, F, K) ==
    /\ RowsRead(m.pipelines, m.flags, m.overrides)
    /\ m.flags \subseteq F
    /\ \A o \in m.overrides : <<o.login, o.task>> \in K

(* What a request has read so far was in the tables at moments of the past, *)
(* the pipelines no later than the flags.                                   *)
RequestShape(q) ==
    q \in [phase: {"idle", "pipelines", "flags", "overrides", "reverse", "render"},
           page: {q.page}, version: {q.version}, moments: {q.moments},
           read: [pipelines: {q.read.pipelines}, flags: {q.read.flags}],
           standings: {q.standings}]

Reading(q, F, K) ==
    /\ q.version \in Versions /\ q.page \in Pages
    /\ \A m \in q.moments : Past(m, F, K)

PipelinesRead(q) == \E m \in q.moments : m.pipelines = q.read.pipelines

FlagsRead(q) ==
    /\ \E m \in q.moments : m.pipelines = q.read.pipelines /\ m.flags \subseteq q.read.flags
    /\ \E m \in q.moments : m.flags = q.read.flags

RequestSound(q, F, K) ==
    /\ q.phase \in {"pipelines", "flags", "overrides"} => Reading(q, F, K)
    /\ q.phase = "flags" => PipelinesRead(q)
    /\ q.phase = "overrides" => FlagsRead(q)
    /\ q.phase = "reverse" => q.page \in CachedPages /\ Sound(q.standings, q.page, FALSE)
    /\ q.phase = "render" =>
         q.page \in Pages /\ \E turned \in BOOLEAN : Sound(q.standings, q.page, turned)

(* The fetcher knows only versions there are, and nobody has touched a      *)
(* sheet's slice.                                                           *)
SheetsKnown ==
    /\ \A g \in DOMAIN current : current[g] \in Versions
    /\ \A g \in DOMAIN fetched : fetched[g] \in Versions
    /\ published \in [Groups -> Versions]

SlicesKept == slices = [v \in Versions |-> Published[v].assignments]

Requested(F, K) ==
    /\ DOMAIN request = Requests /\ request = [r \in Requests |-> request[r]]
    /\ \A r \in Requests : RequestShape(request[r]) /\ RequestSound(request[r], F, K)

CacheSound ==
    /\ DOMAIN cache = CachedPages /\ cache = [p \in CachedPages |-> cache[p]]
    /\ \A p \in CachedPages : cache[p] # NoStandings =>
         \E turned \in BOOLEAN : Sound(cache[p], p, turned)

(* The inductive invariant. *)
BInv ==
    /\ TInv /\ SheetsKnown /\ SlicesKept
    /\ Requested(Rows(flags), Overridden)
    /\ CacheSound
-----------------------------------------------------------------------------
(* Tables that change *)

(* No step of the tables takes a flag or an override away. *)
LEMMA TablesGrow ==
    ASSUME TInv, [Next]_tables
    PROVE  /\ Rows(flags) \subseteq Rows(flags)'
           /\ Overridden \subseteq Overridden'
<1> USE DEF TInv, TypeOK
<1>1. ASSUME NEW i \in PipelineIds, NEW row \in PipelineRow, AddPipeline(i, row)
      PROVE  UNCHANGED <<flags, overrides>>
  BY <1>1 DEF AddPipeline
<1>2. ASSUME NEW i \in FlagIds, NEW row \in FlagRow, SubmitFlag(i, row)
      PROVE  Rows(flags) \subseteq Rows(flags)' /\ UNCHANGED overrides
  <2>1. UNCHANGED overrides
    BY <1>2 DEF SubmitFlag
  <2>2. ASSUME NEW x \in Rows(flags)
        PROVE  x \in Rows(flags)'
    <3>1. PICK k \in FlagIds : x = flags[k] /\ x # NoRow
      BY DEF Rows
    <3>2. flags'[k] = x /\ k \in DOMAIN flags'
      BY <1>2, <3>1 DEF SubmitFlag
    <3> QED BY <3>1, <3>2 DEF Rows
  <2> QED BY <2>1, <2>2
<1>3. ASSUME NEW row \in OverrideRow, AddOverride(row)
      PROVE  Overridden \subseteq Overridden' /\ UNCHANGED flags
  <2>1. row # NoRow
    BY ScoringAssumption
  <2> QED BY <1>3, <2>1 DEF AddOverride, Overridden
<1>4. UNCHANGED flags => Rows(flags)' = Rows(flags)
  BY DEF Rows
<1>5. UNCHANGED overrides => Overridden' = Overridden
  BY DEF Overridden
<1>6. CASE UNCHANGED tables
  BY <1>4, <1>5, <1>6 DEF tables
<1> QED BY <1>1, <1>2, <1>3, <1>4, <1>5, <1>6 DEF Next

(* Requests that were in order stay so while the tables change. *)
LEMMA RequestStays ==
    ASSUME NEW F, NEW K, NEW F2, NEW K2, F \subseteq F2, K \subseteq K2,
           NEW q, RequestSound(q, F, K)
    PROVE  RequestSound(q, F2, K2)
<1>1. \A m : Past(m, F, K) => Past(m, F2, K2)
  BY DEF Past
<1>2. Reading(q, F, K) => Reading(q, F2, K2)
  BY <1>1 DEF Reading
<1> QED BY <1>2 DEF RequestSound

(* The present is a moment of the past, too. *)
LEMMA PresentPast ==
    ASSUME TInv
    PROVE  /\ Past(AllRows, Rows(flags), Overridden)
           /\ AllRows.pipelines = Rows(pipelines) /\ AllRows.flags = Rows(flags)
           /\ AllRows.overrides = Rows(overrides)
<1>1. RowsRead(Rows(pipelines), Rows(flags), Rows(overrides))
  BY TableRows, OverridesListed DEF RowsRead
<1>2. ASSUME NEW o \in Rows(overrides)
      PROVE  <<o.login, o.task>> \in Overridden
  <2>1. o.login \in Logins /\ o.task \in Tasks
    BY OverridesListed, OverrideTypes DEF OverridesIn
  <2>2. overrides[<<o.login, o.task>>] # NoRow
    BY <2>1, OverridesListed
  <2> QED BY <2>1, <2>2 DEF Overridden
<1>3. /\ AllRows.pipelines = Rows(pipelines) /\ AllRows.flags = Rows(flags)
      /\ AllRows.overrides = Rows(overrides)
  BY DEF AllRows
<1> QED BY <1>1, <1>2, <1>3 DEF Past
-----------------------------------------------------------------------------
(* Requests *)

(* With its slice untouched, a sheet is what was published. *)
LEMMA SheetSeen ==
    ASSUME SlicesKept, NEW v \in Versions
    PROVE  SheetAt(v) = SheetOf(v) /\ slices[v] = SheetOf(v).assignments
           /\ SheetInOrder(SheetOf(v))
<1>1. SheetInOrder(Published[v])
  BY ScoreboardAssumption
<1>2. SheetInOrder(SheetOf(v)) /\ SheetOf(v).assignments = Published[v].assignments
  BY <1>1, SheetBuilt DEF SheetOf
<1>3. slices[v] = SheetOf(v).assignments
  BY <1>2 DEF SlicesKept
<1>4. SheetAt(v) = [SheetOf(v) EXCEPT !.assignments = slices[v]]
  BY DEF SheetAt, SheetOf
<1>5. PICK d : d = SheetOf(v)
  OBVIOUS
<1>6. d \in [assignments: Seq(ToSet(d.assignments)), policies: {d.policies},
             groups: {d.groups}, defaultGroup: {d.defaultGroup},
             finalDeadline: SUBSET Nat, retakePenalty: 0..100]
  BY <1>2, <1>5 DEF SheetInOrder
<1>7. [d EXCEPT !.assignments = d.assignments] = d
  BY <1>6
<1> QED BY <1>2, <1>3, <1>4, <1>5, <1>7

(* A step of one request leaves the others as they are. *)
LEMMA OneRequest ==
    ASSUME BInv, UNCHANGED <<tables, fetcherVars, slices>>, NEW r \in Requests, NEW q,
           request' = [request EXCEPT ![r] = q], RequestShape(q),
           RequestSound(q, Rows(flags), Overridden), CacheSound'
    PROVE  BInv'
<1>1. Rows(flags)' = Rows(flags) /\ Overridden' = Overridden
  BY DEF tables, Rows, Overridden
<1>2. TInv' /\ SheetsKnown' /\ SlicesKept'
  BY DEF BInv, TInv, TypeOK, OverridesKeyed, SheetsKnown, SlicesKept, tables, fetcherVars
<1>3. \A s \in Requests : request'[s] = IF s = r THEN q ELSE request[s]
  BY DEF BInv, Requested
<1>4. DOMAIN request' = Requests /\ request' = [s \in Requests |-> request'[s]]
  BY DEF BInv, Requested
<1>5. \A s \in Requests : /\ RequestShape(request'[s])
                          /\ RequestSound(request'[s], Rows(flags), Overridden)
  BY <1>3 DEF BInv, Requested
<1>6. Requested(Rows(flags), Overridden)'
  BY <1>1, <1>4, <1>5 DEF Requested
<1> QED BY <1>2, <1>6 DEF BInv

(* A cache that nobody touches stays sound. *)
LEMMA CacheStays ==
    ASSUME BInv, UNCHANGED cache
    PROVE  CacheSound'
  BY DEF BInv, CacheSound

(* The records of a request. *)
LEMMA IdleShape ==
    /\ RequestShape(Idle)
    /\ \A F, K : RequestSound(Idle, F, K)
  BY DEF Idle, RequestShape, RequestSound

(* A request that hits the cache serves its page's standings; one that      *)
(* misses, or that does not ask the cache, notes the sheet in use.          *)
LEMMA BeginStep ==
    ASSUME BInv, NEW r \in Requests, NEW page \in Pages, Begin(r, page)
    PROVE  BInv'
<1> DEFINE F == Rows(flags)
           K == Overridden
<1>1. UNCHANGED <<tables, fetcherVars, slices, cache>>
  BY DEF Begin
<1>2. CacheSound'
  BY <1>1, CacheStays
<1>3. CASE Hit(page) /\ Holds(r, "render", page, cache[CacheKey(page)])
  <2> DEFINE q == [Idle EXCEPT !.phase = "render", !.page = page, !.standings = cache[page]]
  <2>1. request' = [request EXCEPT ![r] = q]
    BY <1>3 DEF Holds, CacheKey
  <2>2. \E turned \in BOOLEAN : Sound(cache[page], page, turned)
    BY <1>3 DEF BInv, CacheSound, CacheKey, Hit
  <2>3. RequestShape(q) /\ q.phase = "render" /\ q.page = page /\ q.standings = cache[page]
    BY DEF Idle, RequestShape
  <2> HIDE DEF q
  <2>4. RequestSound(q, F, K)
    BY <2>2, <2>3 DEF RequestSound
  <2> QED BY <1>1, <1>2, <2>1, <2>3, <2>4, OneRequest
<1>4. ASSUME HasSheet(BoardGroup),
             request' = [request EXCEPT ![r] = [Idle EXCEPT
                            !.phase = "pipelines", !.page = page,
                            !.version = GroupDeadlines(BoardGroup)]]
      PROVE  BInv'
  <2> DEFINE q == [Idle EXCEPT !.phase = "pipelines", !.page = page,
                               !.version = GroupDeadlines(BoardGroup)]
  <2>1. /\ RequestShape(q) /\ q.phase = "pipelines" /\ q.page = page
        /\ q.version = GroupDeadlines(BoardGroup) /\ q.moments = {}
    BY DEF Idle, RequestShape
  <2>2. GroupDeadlines(BoardGroup) \in Versions
    BY <1>4 DEF BInv, SheetsKnown, HasSheet, GroupDeadlines
  <2> HIDE DEF q
  <2>3. RequestSound(q, F, K)
    BY <2>1, <2>2 DEF RequestSound, Reading
  <2> QED BY <1>1, <1>2, <1>4, <2>1, <2>3, OneRequest DEF q
<1> QED BY <1>3, <1>4 DEF Begin

(* A request that reads the pipelines keeps the moment it did so. *)
LEMMA ReadPipelinesStep ==
    ASSUME BInv, NEW r \in Requests, ReadPipelines(r)
    PROVE  BInv'
<1> DEFINE F == Rows(flags)
           K == Overridden
           o == request[r]
           q == [o EXCEPT !.phase = "flags", !.read.pipelines = Rows(pipelines),
                          !.moments = @ \cup {AllRows}]
<1>1. UNCHANGED <<tables, fetcherVars, slices, cache>> /\ o.phase = "pipelines"
  BY DEF ReadPipelines
<1>2. CacheSound'
  BY <1>1, CacheStays
<1>3. RequestShape(o) /\ RequestSound(o, F, K) /\ DOMAIN request = Requests
  BY DEF BInv, Requested
<1>4. request' = [request EXCEPT ![r] = q]
  BY DEF ReadPipelines
<1>5. PICK now, P : now = AllRows /\ P = Rows(pipelines)
  OBVIOUS
<1>6. /\ RequestShape(q) /\ q.phase = "flags" /\ q.page = o.page /\ q.version = o.version
      /\ q.moments = o.moments \cup {now} /\ q.read.pipelines = P
  BY <1>3, <1>5 DEF RequestShape
<1>7. Past(now, F, K) /\ now.pipelines = P
  BY <1>5, PresentPast DEF BInv
<1> HIDE DEF q, o
<1>8. Reading(q, F, K)
  BY <1>1, <1>3, <1>6, <1>7 DEF RequestSound, Reading
<1>9. PipelinesRead(q)
  BY <1>6, <1>7 DEF PipelinesRead
<1>10. RequestSound(q, F, K)
  BY <1>6, <1>8, <1>9 DEF RequestSound
<1> QED BY <1>1, <1>2, <1>4, <1>6, <1>10, OneRequest

(* The same for the flags, of which there are no fewer by then. *)
LEMMA ReadFlagsStep ==
    ASSUME BInv, NEW r \in Requests, ReadFlags(r)
    PROVE  BInv'
<1> DEFINE F == Rows(flags)
           K == Overridden
           o == request[r]
           q == [o EXCEPT !.phase = "overrides", !.read.flags = F, !.moments = @ \cup {AllRows}]
<1>1. UNCHANGED <<tables, fetcherVars, slices, cache>> /\ o.phase = "flags"
  BY DEF ReadFlags
<1>2. CacheSound'
  BY <1>1, CacheStays
<1>3. RequestShape(o) /\ RequestSound(o, F, K) /\ DOMAIN request = Requests
  BY DEF BInv, Requested
<1>4. request' = [request EXCEPT ![r] = q]
  BY DEF ReadFlags
<1>5. PICK now : now = AllRows
  OBVIOUS
<1>6. /\ RequestShape(q) /\ q.phase = "overrides" /\ q.page = o.page /\ q.version = o.version
      /\ q.moments = o.moments \cup {now}
      /\ q.read.pipelines = o.read.pipelines /\ q.read.flags = F
  BY <1>3, <1>5 DEF RequestShape
<1>7. Past(now, F, K) /\ now.flags = F
  BY <1>5, PresentPast DEF BInv
<1> HIDE DEF q, o, F
<1>8. Reading(o, F, K) /\ PipelinesRead(o)
  BY <1>1, <1>3 DEF RequestSound
<1>9. Reading(q, F, K)
  BY <1>6, <1>7, <1>8 DEF Reading
<1>10. PICK m \in o.moments : m.pipelines = o.read.pipelines
  BY <1>8 DEF PipelinesRead
<1>11. m.flags \subseteq F
  BY <1>8, <1>10 DEF Reading, Past
<1>12. FlagsRead(q)
  BY <1>6, <1>7, <1>10, <1>11 DEF FlagsRead
<1>13. RequestSound(q, F, K)
  BY <1>6, <1>9, <1>12 DEF RequestSound
<1> QED BY <1>1, <1>2, <1>4, <1>6, <1>13, OneRequest DEF F

(* What was read are rows that the tables may hold. *)
LEMMA ReadRows ==
    ASSUME NEW q, NEW F, NEW K, Reading(q, F, K), FlagsRead(q), TInv
    PROVE  RowsRead(q.read.pipelines, q.read.flags, Rows(overrides))
<1>1. PICK m \in q.moments : m.pipelines = q.read.pipelines
  BY DEF FlagsRead
<1>2. PICK k \in q.moments : k.flags = q.read.flags
  BY DEF FlagsRead
<1>3. RowsRead(m.pipelines, m.flags, m.overrides) /\ RowsRead(k.pipelines, k.flags, k.overrides)
  BY <1>1, <1>2 DEF Reading, Past
<1>4. OverridesIn(Rows(overrides))
  BY OverridesListed
<1> QED BY <1>1, <1>2, <1>3, <1>4 DEF RowsRead

(* Standings as they are computed are in order, their slice a copy. *)
LEMMA ComputeStep ==
    ASSUME BInv, NEW r \in Requests, Compute(r)
    PROVE  BInv'
<1> DEFINE F == Rows(flags)
           K == Overridden
           o == request[r]
           s == CalcBoard(r)
           next == IF o.page = "api" THEN "render" ELSE "reverse"
           q == [Idle EXCEPT !.phase = next, !.page = o.page, !.standings = s]
<1>1. UNCHANGED <<tables, fetcherVars, slices, cache>> /\ o.phase = "overrides"
  BY DEF Compute
<1>2. CacheSound'
  BY <1>1, CacheStays
<1>3. RequestSound(o, F, K)
  BY DEF BInv, Requested
<1>4. request' = [request EXCEPT ![r] = q]
  BY DEF Compute, Holds
<1>5. Reading(o, F, K) /\ FlagsRead(o)
  BY <1>1, <1>3 DEF RequestSound
<1>6. /\ StandingsShape(s) /\ s.version = o.version
      /\ s.deadlines.slice = slices[o.version]
      /\ s.users = CalcScoreboard(SheetAt(o.version), Filtered(o.page), o.read.pipelines,
                                  o.read.flags, Rows(overrides))
  BY DEF CalcBoard, CopyDeadlines, StandingsShape
<1>7. SheetAt(o.version) = SheetOf(o.version) /\ slices[o.version] = SheetOf(o.version).assignments
  BY <1>5, SheetSeen DEF BInv, Reading
<1>8. RowsRead(o.read.pipelines, o.read.flags, Rows(overrides))
  BY <1>5, ReadRows DEF BInv
<1>9. RequestShape(q) /\ q.phase = next /\ q.page = o.page /\ q.standings = s
  <2>1. next \in {"render", "reverse"}
    OBVIOUS
  <2> HIDE DEF s, o, next
  <2> QED BY <2>1 DEF Idle, RequestShape
<1> HIDE DEF s, o, q
<1>10. Sound(s, o.page, FALSE)
  BY <1>5, <1>6, <1>7, <1>8 DEF Sound, Reading
<1>11. o.page \in Pages /\ (next = "reverse" => o.page \in CachedPages)
  BY <1>5 DEF Reading, CachedPages
<1>12. RequestSound(q, F, K)
  BY <1>9, <1>10, <1>11 DEF RequestSound
<1> QED BY <1>1, <1>2, <1>4, <1>9, <1>12, OneRequest

(* Standings that are turned for a page are turned as a whole: the header   *)
(* with the columns of every user, in a slice that is nobody else's.        *)
LEMMA ReverseStep ==
    ASSUME BInv, NEW r \in Requests, ReverseGroups(r)
    PROVE  BInv'
<1> DEFINE o == request[r]
           s == o.standings
           reversed == [s EXCEPT !.deadlines.slice = Reverse(@),
                                 !.users = [i \in DOMAIN @ |->
                                     [s.users[i] EXCEPT !.groups = Reverse(@)]]]
           q == [Idle EXCEPT !.phase = "render", !.page = o.page, !.standings = reversed]
<1>1. /\ o.phase = "reverse" /\ UNCHANGED <<tables, fetcherVars>>
      /\ slices' = IF s.deadlines.shared THEN [slices EXCEPT ![s.version] = Reverse(@)] ELSE slices
      /\ request' = [request EXCEPT ![r] = q]
      /\ cache' = [cache EXCEPT ![o.page] = reversed]
  BY DEF ReverseGroups, Holds, CacheKey
<1>2. o.page \in CachedPages /\ Sound(s, o.page, FALSE)
  BY <1>1 DEF BInv, Requested, RequestSound
<1>3. StandingsShape(s)
  BY <1>2 DEF Sound
<1>4. ~s.deadlines.shared
  BY <1>3 DEF StandingsShape
<1>5. /\ StandingsShape(reversed) /\ reversed.version = s.version
      /\ reversed.deadlines.slice = Reverse(s.deadlines.slice)
      /\ reversed.users = Turned(s.users)
  <2> HIDE DEF s
  <2>1. PICK turned : turned = Turned(s.users)
    OBVIOUS
  <2>2. PICK slice : slice = Reverse(s.deadlines.slice)
    OBVIOUS
  <2>3. reversed = [s EXCEPT !.deadlines.slice = slice, !.users = turned]
    BY <2>1, <2>2 DEF Turned
  <2> HIDE DEF reversed
  <2> QED BY <1>3, <2>1, <2>2, <2>3 DEF StandingsShape
<1>6. RequestShape(q) /\ q.phase = "render" /\ q.page = o.page /\ q.standings = reversed
  <2> HIDE DEF reversed, o
  <2> QED BY DEF Idle, RequestShape
<1> HIDE DEF reversed, q, s, o
<1>7. Sound(reversed, o.page, TRUE)
  BY <1>2, <1>5 DEF Sound
<1>8. RequestSound(q, Rows(flags), Overridden)
  BY <1>2, <1>6, <1>7 DEF RequestSound, CachedPages
<1>9. CacheSound'
  <2>1. \A p \in CachedPages : cache'[p] = IF p = o.page THEN reversed ELSE cache[p]
    BY <1>1, <1>2 DEF BInv, CacheSound
  <2>2. DOMAIN cache' = CachedPages /\ cache' = [p \in CachedPages |-> cache'[p]]
    BY <1>1 DEF BInv, CacheSound
  <2>3. \A p \in CachedPages : cache'[p] # NoStandings =>
          \E turned \in BOOLEAN : Sound(cache'[p], p, turned)
    BY <1>7, <2>1 DEF BInv, CacheSound
  <2> QED BY <2>2, <2>3 DEF CacheSound
<1> QED BY <1>1, <1>4, <1>6, <1>8, <1>9, OneRequest

(* A request that ends leaves nothing behind. *)
LEMMA FinishStep ==
    ASSUME BInv, NEW r \in Requests, Finish(r)
    PROVE  BInv'
<1>1. UNCHANGED <<tables, fetcherVars, slices, cache>> /\ request' = [request EXCEPT ![r] = Idle]
  BY DEF Finish
<1> QED BY <1>1, IdleShape, OneRequest, CacheStays

(* Nor does an entry of the cache that has expired. *)
LEMMA ExpireStep ==
    ASSUME BInv, NEW page \in CachedPages, Expire(page)
    PROVE  BInv'
<1>1. UNCHANGED <<tables, fetcherVars, slices, request>>
      /\ cache' = [cache EXCEPT ![page] = NoStandings]
  BY DEF Expire
<1>2. Rows(flags)' = Rows(flags) /\ Overridden' = Overridden
  BY <1>1 DEF tables, Rows, Overridden
<1>3. TInv' /\ SheetsKnown' /\ SlicesKept'
  BY <1>1 DEF BInv, TInv, TypeOK, OverridesKeyed, SheetsKnown, SlicesKept, tables, fetcherVars
<1>4. Requested(Rows(flags), Overridden)'
  BY <1>1, <1>2 DEF BInv, Requested
<1>5. \A p \in CachedPages : cache'[p] = IF p = page THEN NoStandings ELSE cache[p]
  BY <1>1 DEF BInv, CacheSound
<1>6. CacheSound'
  BY <1>1, <1>5 DEF BInv, CacheSound
<1> QED BY <1>3, <1>4, <1>6 DEF BInv
-----------------------------------------------------------------------------
(* The tables and the fetcher *)

(* What requests hold stays in order while the tables change. *)
LEMMA ChangeStep ==
    ASSUME BInv, Next, UNCHANGED <<fetcherVars, slices, request, cache>>
    PROVE  BInv'
<1> DEFINE F == Rows(flags)
           K == Overridden
<1>1. TInv'
  BY TablesStep DEF BInv
<1>2. F \subseteq F' /\ K \subseteq K'
  BY TablesGrow DEF BInv
<1>3. SheetsKnown' /\ SlicesKept'
  BY DEF BInv, SheetsKnown, SlicesKept, fetcherVars
<1>4. PICK F2, K2 : F2 = F' /\ K2 = K'
  OBVIOUS
<1>5. \A x \in Requests : /\ RequestShape(request'[x])
                          /\ RequestSound(request'[x], F2, K2)
  BY <1>2, <1>4, RequestStays DEF BInv, Requested
<1>6. Requested(F, K)'
  BY <1>4, <1>5 DEF BInv, Requested
<1> QED BY <1>1, <1>3, <1>6, CacheStays DEF BInv

(* The fetcher hands out versions that were published; requests keep the    *)
(* version they began with.                                                 *)
LEMMA ReloadStep ==
    ASSUME BInv, FetcherNext, UNCHANGED <<tables, slices, request, cache>>
    PROVE  BInv'
<1>1. Rows(flags)' = Rows(flags) /\ Overridden' = Overridden
  BY DEF tables, Rows, Overridden
<1>2. TInv' /\ SlicesKept'
  BY DEF BInv, TInv, TypeOK, OverridesKeyed, SlicesKept, tables
<1>3. Requested(Rows(flags), Overridden)'
  BY <1>1 DEF BInv, Requested
<1>4. CacheSound'
  BY CacheStays
<1>5. SheetsKnown'
  <2> USE DEF BInv, SheetsKnown
  <2>1. \A g \in DOMAIN NoSheets : FALSE
    BY DEF NoSheets
  <2>2. ASSUME NEW g \in Groups, Publish(g)
        PROVE  SheetsKnown'
    <3>1. published[g] + 1 \in Versions
      BY <2>2, FetcherAssumption DEF Publish, Versions
    <3> QED BY <2>2, <3>1 DEF Publish
  <2>3. CASE ReloadTick
    BY <2>1, <2>3 DEF ReloadTick
  <2>4. CASE FetchGroup
    <3>1. ConfigGroups[position] \in Groups
      BY <2>4 DEF FetchGroup, Groups, Range
    <3>2. published[ConfigGroups[position]] \in Versions
      BY <3>1
    <3> QED BY <2>4, <3>2 DEF FetchGroup
  <2>5. CASE FetchFails
    BY <2>1, <2>5 DEF FetchFails
  <2>6. CASE Swap
    BY <2>1, <2>6 DEF Swap
  <2> QED BY <2>2, <2>3, <2>4, <2>5, <2>6 DEF FetcherNext
<1> QED BY <1>2, <1>3, <1>4, <1>5 DEF BInv

(* The invariant holds when the process starts. *)
LEMMA BoardStarts ==
    BoardInit => BInv
<1> SUFFICES ASSUME BoardInit PROVE BInv
  OBVIOUS
<1> USE DEF BoardInit
<1>1. TInv
  BY TablesInit
<1>2. SheetsKnown
  BY FetcherAssumption DEF SheetsKnown, FetcherInit, NoSheets, Versions
<1>3. Requested(Rows(flags), Overridden)
  <2>1. \A r \in Requests : request[r] = Idle
    OBVIOUS
  <2>2. DOMAIN request = Requests /\ request = [r \in Requests |-> request[r]]
    OBVIOUS
  <2> QED BY <2>1, <2>2, IdleShape DEF Requested
<1>4. CacheSound
  BY DEF CacheSound
<1> QED BY <1>1, <1>2, <1>3, <1>4 DEF BInv, SlicesKept

(* Every step keeps it. *)
LEMMA BoardStep ==
    BInv /\ [BoardNext]_boardVars => BInv'
<1> SUFFICES ASSUME BInv, [BoardNext]_boardVars PROVE BInv'
  OBVIOUS
<1>1. CASE UNCHANGED boardVars
  <2>1. UNCHANGED <<tables, fetcherVars, slices, request, cache>>
    BY <1>1 DEF boardVars
  <2>2. TInv' /\ SheetsKnown' /\ SlicesKept'
    BY <2>1 DEF BInv, TInv, TypeOK, OverridesKeyed, SheetsKnown, SlicesKept, tables, fetcherVars
  <2>3. Rows(flags)' = Rows(flags) /\ Overridden' = Overridden
    BY <2>1 DEF tables, Rows, Overridden
  <2>4. Requested(Rows(flags), Overridden)'
    BY <2>1, <2>3 DEF BInv, Requested
  <2> QED BY <2>1, <2>2, <2>4, CacheStays DEF BInv
<1> QED BY <1>1, BeginStep, ReadPipelinesStep, ReadFlagsStep, ComputeStep, ReverseStep, FinishStep,
           ExpireStep, ChangeStep, ReloadStep DEF BoardNext

(* So it always holds. *)
LEMMA BoardInvariance ==
    BoardSpec => []BInv
  BY BoardStarts, BoardStep, PTL DEF BoardSpec
-----------------------------------------------------------------------------
(* What is shown *)

(* A board lists the users of its page, each once, with the scores their    *)
(* home pages would show for the same rows.                                 *)
LEMMA BoardUsers ==
    ASSUME NEW d, SheetInOrder(d), NEW page, NEW S, NEW T, NEW O, RowsRead(S, T, O)
    PROVE  LET board == CalcScoreboard(d, Filtered(page), S, T, O)
               n == Cardinality(Filtered(page))
           IN  /\ n \in Nat /\ DOMAIN board = 1..n /\ Len(board) = n
               /\ {board[i].login : i \in DOMAIN board} = Filtered(page)
               /\ \A i \in DOMAIN board :
                    /\ board[i].login \in Logins
                    /\ board[i] = CalcUserScores(d, board[i].login, S, T, O)
<1> DEFINE us == Filtered(page)
           board == CalcScoreboard(d, us, S, T, O)
           X == {CalcUserScores(d, u, S, T, O) : u \in us}
           f == [u \in us |-> CalcUserScores(d, u, S, T, O)]
<1>0. /\ IsFiniteSet(S) /\ S \subseteq PipelineRow /\ IsFiniteSet(T) /\ T \subseteq FlagRow
      /\ OverridesIn(O)
  BY DEF RowsRead
<1>1. us \in SUBSET Logins
  BY DEF Filtered
<1>2. \A u \in us : CalcUserScores(d, u, S, T, O).login = u
  BY <1>0, <1>1, HomeMark
<1> HIDE DEF us
<1>3. IsFiniteSet(X) /\ board \in SetToSeqs(X)
  <2>1. /\ IsFiniteSet(ScoresOf(d, us, S, T, O))
        /\ board \in SetToSeqs(ScoresOf(d, us, S, T, O))
    BY <1>0, <1>1, BoardListed
  <2>2. X = ScoresOf(d, us, S, T, O)
    BY DEF ScoresOf
  <2> HIDE DEF X
  <2> QED BY <2>1, <2>2
<1>4. IsFiniteSet(us)
  BY <1>1, ScoringAssumption, FS_Subset
<1>5. f \in Bijection(us, X)
  <2>1. f \in Surjection(us, X)
    BY DEF Surjection
  <2>2. \A u, w \in us : f[u] = f[w] => u = w
    BY <1>2
  <2> HIDE DEF X
  <2>3. f \in Injection(us, X)
    BY <2>1, <2>2 DEF Injection, IsInjective, Surjection
  <2> QED BY <2>1, <2>3 DEF Bijection
<1> HIDE DEF f
<1>6. Cardinality(X) = Cardinality(us) /\ Cardinality(us) \in Nat
  <2> HIDE DEF X
  <2> QED BY <1>4, <1>5, FS_Bijection, FS_CardinalityType DEF ExistsBijection
<1>7. X = {board[i] : i \in DOMAIN board}
  BY <1>3, OrdersComplete
<1> HIDE DEF board
<1>8. DOMAIN board = 1..Cardinality(us) /\ Len(board) = Cardinality(us)
  <2> HIDE DEF X
  <2>1. board \in [1..Cardinality(us) -> X]
    BY <1>3, <1>6 DEF SetToSeqs
  <2> QED BY <1>6, <2>1
<1>9. ASSUME NEW i \in DOMAIN board
      PROVE  /\ board[i].login \in us
             /\ board[i] = CalcUserScores(d, board[i].login, S, T, O)
  <2>1. PICK u \in us : board[i] = CalcUserScores(d, u, S, T, O)
    BY <1>7
  <2> QED BY <1>2, <2>1
<1>10. ASSUME NEW u \in us
       PROVE  \E i \in DOMAIN board : board[i].login = u
  <2>1. CalcUserScores(d, u, S, T, O) \in X
    OBVIOUS
  <2>2. PICK i \in DOMAIN board : board[i] = CalcUserScores(d, u, S, T, O)
    BY <1>7, <2>1
  <2> QED BY <1>2, <2>2
<1> QED BY <1>1, <1>6, <1>8, <1>9, <1>10 DEF us, board

(* The columns of a user's scores are the task groups of the sheet. *)
LEMMA UserColumns ==
    ASSUME NEW d, SheetInOrder(d), NEW u, NEW S, NEW T, NEW O
    PROVE  LET c == CalcUserScores(d, u, S, T, O)
               n == Len(d.assignments)
           IN  /\ n \in Nat /\ DOMAIN d.assignments = 1..n
               /\ DOMAIN c.groups = 1..n /\ Len(c.groups) = n
               /\ \A i \in 1..n : c.groups[i].title = d.assignments[i].title
               /\ \A groups : /\ [c EXCEPT !.groups = groups].groups = groups
                              /\ [c EXCEPT !.groups = groups].login = c.login
<1> DEFINE c == CalcUserScores(d, u, S, T, O)
           n == Len(d.assignments)
           rows == SetToSeq(RowsOf(S, u))
           flagRows == SetToSeq(RowsOf(T, u))
           mine == RowsOf(O, u)
           best == LoadUserPipelines(rows)
           flag == LoadUserFlags(flagRows)
           over == ParseOverrides(mine)
<1>1. n \in Nat /\ DOMAIN d.assignments = 1..n
  BY SheetRead
<1>2. c.groups = [i \in 1..n |-> ScoreGroup(d, u, d.assignments[i], best, flag, over)]
  <2>1. c = CalcUserScoresImpl(d, u, rows, flagRows, mine)
    BY DEF CalcUserScores
  <2> HIDE DEF c, rows, flagRows, mine
  <2> QED BY <2>1, UserGroups
<1>3. \A i \in 1..n : c.groups[i].title = d.assignments[i].title
  <2> HIDE DEF c, best, flag, over
  <2>1. \A a : ScoreGroup(d, u, a, best, flag, over).title = a.title
    BY Zenon DEF ScoreGroup
  <2> QED BY <1>2, <2>1
<1>4. DOMAIN c.groups = 1..n /\ Len(c.groups) = n
  <2> HIDE DEF c, best, flag, over, n
  <2> QED BY <1>1, <1>2
<1>5. c \in [login: {c.login}, groups: {c.groups}, score: {c.score}, maxScore: {c.maxScore},
             finalMark: {c.finalMark}]
  <2> HIDE DEF rows, flagRows, mine
  <2>1. \A x1, x2, x3, x4, x5 :
          LET x == [login |-> x1, groups |-> x2, score |-> x3, maxScore |-> x4, finalMark |-> x5]
          IN  x \in [login: {x.login}, groups: {x.groups}, score: {x.score},
                     maxScore: {x.maxScore}, finalMark: {x.finalMark}]
    OBVIOUS
  <2>2. \E x1, x2, x3, x4, x5 :
          c = [login |-> x1, groups |-> x2, score |-> x3, maxScore |-> x4, finalMark |-> x5]
    BY Zenon DEF CalcUserScores, CalcUserScoresImpl
  <2> HIDE DEF c
  <2> QED BY <2>1, <2>2
<1> HIDE DEF c
<1>6. \A groups : /\ [c EXCEPT !.groups = groups].groups = groups
                  /\ [c EXCEPT !.groups = groups].login = c.login
  BY <1>5
<1> QED BY <1>1, <1>3, <1>4, <1>6 DEF c

(* The columns of one user of standings, for the rows they come from. *)
ColumnsOf(s, i, turned, S, T, O) ==
    LET c == CalcUserScores(SheetOf(s.version), s.users[i].login, S, T, O)
    IN  s.users[i].groups = IF turned THEN Reverse(c.groups) ELSE c.groups

(* Sound standings list the users of their page, once each, with such       *)
(* columns.                                                                 *)
LEMMA SoundUsers ==
    ASSUME NEW s, NEW page, NEW turned, Sound(s, page, turned)
    PROVE  /\ {s.users[i].login : i \in DOMAIN s.users} = Filtered(page)
           /\ Len(s.users) = Cardinality(Filtered(page))
           /\ \E S, T, O :
                /\ RowsRead(S, T, O)
                /\ \A i \in DOMAIN s.users : ColumnsOf(s, i, turned, S, T, O)
<1> DEFINE d == SheetOf(s.version)
           n == Cardinality(Filtered(page))
<1>1. SheetInOrder(d)
  BY ScoreboardAssumption, SheetBuilt DEF Sound, SheetOf
<1>2. PICK S, T, O :
         /\ RowsRead(S, T, O)
         /\ LET board == CalcScoreboard(d, Filtered(page), S, T, O)
            IN  s.users = IF turned THEN Turned(board) ELSE board
  BY DEF Sound
<1> DEFINE board == CalcScoreboard(d, Filtered(page), S, T, O)
<1> HIDE DEF d
<1>3. /\ n \in Nat /\ DOMAIN board = 1..n /\ Len(board) = n
      /\ {board[i].login : i \in DOMAIN board} = Filtered(page)
      /\ \A i \in DOMAIN board : /\ board[i].login \in Logins
                                 /\ board[i] = CalcUserScores(d, board[i].login, S, T, O)
  BY <1>1, <1>2, BoardUsers
<1>4. s.users = IF turned THEN Turned(board) ELSE board
  BY <1>2
<1> HIDE DEF board, n
<1>5. ASSUME NEW i \in DOMAIN board
      PROVE  LET b == [board[i] EXCEPT !.groups = Reverse(@)]
             IN  b.login = board[i].login /\ b.groups = Reverse(board[i].groups)
  <2>1. PICK u : board[i] = CalcUserScores(d, u, S, T, O)
    BY <1>3
  <2>2. PICK groups : groups = Reverse(board[i].groups)
    OBVIOUS
  <2>3. [board[i] EXCEPT !.groups = groups].groups = groups
        /\ [board[i] EXCEPT !.groups = groups].login = board[i].login
    BY <1>1, <2>1, UserColumns
  <2> QED BY <2>2, <2>3
<1>6. /\ DOMAIN s.users = DOMAIN board /\ Len(s.users) = n
      /\ \A i \in DOMAIN board :
           /\ s.users[i].login = board[i].login
           /\ s.users[i].groups = IF turned THEN Reverse(board[i].groups) ELSE board[i].groups
  <2>1. CASE turned
    <3>1. s.users = [i \in 1..n |-> [board[i] EXCEPT !.groups = Reverse(@)]]
      BY <1>3, <1>4, <2>1 DEF Turned
    <3>2. DOMAIN s.users = 1..n /\ Len(s.users) = n
      BY <1>3, <3>1
    <3> QED BY <1>3, <1>5, <2>1, <3>1, <3>2
  <2>2. CASE ~turned
    BY <1>3, <1>4, <2>2
  <2> QED BY <2>1, <2>2
<1>7. \A i \in DOMAIN s.users : ColumnsOf(s, i, turned, S, T, O)
  BY <1>3, <1>6 DEF ColumnsOf, d
<1>8. {s.users[i].login : i \in DOMAIN s.users} = Filtered(page)
  BY <1>3, <1>6
<1> QED BY <1>2, <1>6, <1>7, <1>8 DEF n

(* What browsers and the cache hold is sound. *)
LEMMA ShownSound ==
    ASSUME BInv, NEW s \in Shown
    PROVE  \E page \in Pages, turned \in BOOLEAN :
             Sound(s, page, turned)
<1>1. CASE \E p \in CachedPages : s = cache[p] /\ s # NoStandings
  BY <1>1 DEF BInv, CacheSound, CachedPages
<1>2. CASE \E r \in Requests : s = request[r].standings /\ request[r].phase = "render"
  BY <1>2 DEF BInv, Requested, RequestSound
<1> QED BY <1>1, <1>2 DEF Shown

(* The retakes page, the standings page and the endpoint, computed by       *)
(* overlapping requests and kept in one cache, list their own users, once   *)
(* each, for any number of requests (render.go:159-183, api.go:339).        *)
THEOREM PagesKeepTheirOwn == BoardSpec => []PageOfItsOwn
<1>1. BInv => PageOfItsOwn
  <2> SUFFICES ASSUME BInv, NEW r \in Requests, request[r].phase = "render"
               PROVE  LET users == request[r].standings.users IN
                      /\ {users[i].login : i \in DOMAIN users} = Filtered(request[r].page)
                      /\ Len(users) = Cardinality(Filtered(request[r].page))
    BY DEF PageOfItsOwn
  <2>1. PICK turned \in BOOLEAN :
          Sound(request[r].standings, request[r].page, turned)
    BY DEF BInv, Requested, RequestSound
  <2>2. PICK s, page : s = request[r].standings /\ page = request[r].page
    OBVIOUS
  <2>3. /\ {s.users[i].login : i \in DOMAIN s.users} = Filtered(page)
        /\ Len(s.users) = Cardinality(Filtered(page))
    BY <2>1, <2>2, SoundUsers
  <2> QED BY <2>2, <2>3
<1> QED BY <1>1, BoardInvariance, PTL

(* The place in the sheet of a column, and the columns as they are shown:   *)
(* header and scores are turned alike.                                      *)
Place(n, h, turned) == IF turned THEN n - h + 1 ELSE h

(* The header of sound standings, column by column. *)
LEMMA SoundHeader ==
    ASSUME NEW s, NEW page, NEW turned \in BOOLEAN, Sound(s, page, turned)
    PROVE  LET d == SheetOf(s.version)
               n == Len(d.assignments)
           IN  /\ n \in Nat /\ DOMAIN d.assignments = 1..n
               /\ Len(Header(s)) = n /\ DOMAIN Header(s) = 1..n
               /\ \A h \in 1..n : /\ Place(n, h, turned) \in 1..n
                                  /\ Header(s)[h] = d.assignments[Place(n, h, turned)]
<1> DEFINE slice == SheetOf(s.version).assignments
           n == Len(slice)
<1>1. n \in Nat /\ DOMAIN slice = 1..n
  BY ScoreboardAssumption, SheetBuilt, SheetRead DEF Sound, SheetOf
<1>2. Header(s) = s.deadlines.slice
  BY DEF Sound, StandingsShape, Header
<1>3. s.deadlines.slice = IF turned THEN Reverse(slice) ELSE slice
  BY DEF Sound
<1> HIDE DEF slice
<1>4. CASE turned
  <2>1. Header(s) = [h \in 1..n |-> slice[n - h + 1]]
    BY <1>2, <1>3, <1>4 DEF Reverse
  <2>2. Len(Header(s)) = n /\ DOMAIN Header(s) = 1..n
    BY <1>1, <2>1
  <2>3. \A h \in 1..n : n - h + 1 \in 1..n /\ Header(s)[h] = slice[n - h + 1]
    BY <1>1, <2>1
  <2> QED BY <1>1, <1>4, <2>2, <2>3 DEF Place, slice
<1>5. CASE ~turned
  BY <1>1, <1>2, <1>3, <1>5 DEF Place, slice
<1> QED BY <1>4, <1>5

(* The scores of a user, column by column. *)
ColumnsPlaced(s, i, turned, S, T, O) ==
    LET d == SheetOf(s.version)
        n == Len(d.assignments)
        c == CalcUserScores(d, s.users[i].login, S, T, O)
        groups == s.users[i].groups
    IN  /\ Len(groups) = n
        /\ \A h \in 1..n : groups[h] = c.groups[Place(n, h, turned)]
        /\ \A g \in 1..n : c.groups[g].title = d.assignments[g].title

(* They are placed as the header is. *)
LEMMA SoundColumns ==
    ASSUME NEW s, NEW page, NEW turned \in BOOLEAN, Sound(s, page, turned), NEW i \in DOMAIN s.users,
           NEW S, NEW T, NEW O, ColumnsOf(s, i, turned, S, T, O)
    PROVE  ColumnsPlaced(s, i, turned, S, T, O)
<1> DEFINE d == SheetOf(s.version)
           n == Len(d.assignments)
           c == CalcUserScores(d, s.users[i].login, S, T, O)
           groups == s.users[i].groups
<1>1. SheetInOrder(d)
  BY ScoreboardAssumption, SheetBuilt DEF Sound, SheetOf
<1>2. groups = IF turned THEN Reverse(c.groups) ELSE c.groups
  BY DEF ColumnsOf
<1> HIDE DEF d, groups
<1>3. /\ n \in Nat /\ DOMAIN c.groups = 1..n /\ Len(c.groups) = n
      /\ \A g \in 1..n : c.groups[g].title = d.assignments[g].title
  BY <1>1, UserColumns
<1> HIDE DEF c, n
<1>4. Len(groups) = n /\ \A h \in 1..n : groups[h] = c.groups[Place(n, h, turned)]
  <2>1. CASE turned
    <3>1. groups = [h \in 1..n |-> c.groups[n - h + 1]]
      BY <1>2, <1>3, <2>1 DEF Reverse
    <3>2. Len(groups) = n
      BY <1>3, <3>1
    <3> QED BY <2>1, <3>1, <3>2 DEF Place
  <2>2. CASE ~turned
    BY <1>2, <1>3, <2>2 DEF Place
  <2> QED BY <2>1, <2>2
<1> QED BY <1>3, <1>4 DEF c, n, d, groups, ColumnsPlaced

(* The titles over a page's columns are those of its scores, in the same    *)
(* order, for any number of overlapping requests, pages and reloads, and no *)
(* sheet that others read is ever turned (scorer.go:114-119, 180;           *)
(* render.go:139-144).                                                      *)
THEOREM HeadersMatch == BoardSpec => []HeaderMatches
<1>1. ASSUME BInv PROVE HeaderMatches
  <2>1. \A v \in Versions : slices[v] = Published[v].assignments
    BY <1>1 DEF BInv, SlicesKept
  <2>2. ASSUME NEW s \in Shown, NEW i \in DOMAIN s.users
        PROVE  /\ Len(s.users[i].groups) = Len(Header(s))
               /\ \A j \in DOMAIN Header(s) : s.users[i].groups[j].title = Header(s)[j].title
    <3> DEFINE d == SheetOf(s.version)
               n == Len(d.assignments)
    <3>1. PICK page \in Pages, turned \in BOOLEAN : Sound(s, page, turned)
      BY <1>1, ShownSound
    <3>2. PICK S, T, O : ColumnsOf(s, i, turned, S, T, O)
      BY <3>1, SoundUsers
    <3> DEFINE c == CalcUserScores(d, s.users[i].login, S, T, O)
    <3>3. /\ Len(s.users[i].groups) = n
          /\ \A h \in 1..n : s.users[i].groups[h] = c.groups[Place(n, h, turned)]
          /\ \A g \in 1..n : c.groups[g].title = d.assignments[g].title
      <4>1. ColumnsPlaced(s, i, turned, S, T, O)
        BY <3>1, <3>2, SoundColumns
      <4> QED BY <4>1 DEF ColumnsPlaced
    <3>4. /\ Len(Header(s)) = n /\ DOMAIN Header(s) = 1..n
          /\ \A h \in 1..n : /\ Place(n, h, turned) \in 1..n
                             /\ Header(s)[h] = d.assignments[Place(n, h, turned)]
      BY <3>1, SoundHeader
    <3> HIDE DEF c, n, d
    <3>5. ASSUME NEW j \in 1..n
          PROVE  s.users[i].groups[j].title = Header(s)[j].title
      <4>1. PICK g \in 1..n : g = Place(n, j, turned)
        BY <3>4
      <4>2. s.users[i].groups[j] = c.groups[g] /\ Header(s)[j] = d.assignments[g]
        BY <3>3, <3>4, <4>1
      <4> QED BY <3>3, <4>2
    <3> QED BY <3>3, <3>4, <3>5
  <2> QED BY <2>1, <2>2 DEF HeaderMatches
<1> QED BY <1>1, BoardInvariance, PTL

-----------------------------------------------------------------------------
(* What a task was worth when *)

(* One task of a user's scores. *)
LEMMA TaskAt ==
    ASSUME NEW d, SheetInOrder(d), NEW u, NEW S, NEW T, NEW O,
           NEW g \in DOMAIN d.assignments, NEW j \in DOMAIN d.assignments[g].tasks
    PROVE  LET a == d.assignments[g]
           IN  CalcUserScores(d, u, S, T, O).groups[g].tasks[j]
                 = ScoreTask(d, u, a, a.tasks[j], LoadUserPipelines(SetToSeq(RowsOf(S, u))),
                             LoadUserFlags(SetToSeq(RowsOf(T, u))), ParseOverrides(RowsOf(O, u)))
<1> DEFINE a == d.assignments[g]
           rows == SetToSeq(RowsOf(S, u))
           flagRows == SetToSeq(RowsOf(T, u))
           mine == RowsOf(O, u)
           c == CalcUserScores(d, u, S, T, O)
<1>1. c = CalcUserScoresImpl(d, u, rows, flagRows, mine)
  BY DEF CalcUserScores
<1>2. j \in 1..Len(a.tasks)
  BY SheetRead
<1> HIDE DEF c, rows, flagRows, mine
<1>3. c.groups[g].tasks = [k \in 1..Len(a.tasks) |->
        ScoreTask(d, u, a, a.tasks[k], LoadUserPipelines(rows), LoadUserFlags(flagRows),
                  ParseOverrides(mine))]
  BY <1>1, TasksOf
<1> QED BY <1>2, <1>3 DEF c, rows, flagRows, mine

(* A task without an override is decided by its flag, if it has one, else   *)
(* by its pipelines; with one by the override alone.                        *)
LEMMA TaskDecided ==
    ASSUME NEW d, NEW u, NEW a, NEW task, NEW best, NEW flag, NEW over,
           NEW best2, NEW flag2, NEW over2,
           LET k == <<u, task.task>> IN
           \/ k \in DOMAIN over /\ over2 = over
           \/ /\ k \notin DOMAIN over /\ k \notin DOMAIN over2
              /\ \/ task.task \in DOMAIN flag /\ flag2 = flag
                 \/ task.task \notin DOMAIN flag /\ task.task \notin DOMAIN flag2 /\ best2 = best
    PROVE  ScoreTask(d, u, a, task, best, flag, over)
             = ScoreTask(d, u, a, task, best2, flag2, over2)
  BY DEF ScoreTask

(* The tasks that a user has flags for, among some rows. *)
LEMMA FlagsFound ==
    ASSUME NEW S, NEW T, NEW O, RowsRead(S, T, O), NEW u, NEW t
    PROVE  t \in DOMAIN LoadUserFlags(SetToSeq(RowsOf(T, u)))
             <=> \E r \in T : r.login = u /\ r.task = t
<1> DEFINE best == LoadUserPipelines(SetToSeq(RowsOf(S, u)))
           flag == LoadUserFlags(SetToSeq(RowsOf(T, u)))
<1>1. Chosen(best, flag, RowsOf(S, u), RowsOf(T, u))
  BY HomeChosen DEF RowsRead
<1> HIDE DEF best, flag
<1>2. t \in DOMAIN flag <=> \E r \in RowsOf(T, u) : r.task = t
  BY <1>1 DEF Chosen, ByTime!Picks
<1> QED BY <1>2 DEF RowsOf, flag

(* Rows with an override for each of some users and tasks. *)
Listing(O, K) == \A k \in K : \E o \in O : <<o.login, o.task>> = k

(* One task that a request has scored is what was due at some moment. *)
WasDue(d, u, q, now, g, j) ==
    \E m \in q.moments \cup {now} :
      CalcUserScores(d, u, q.read.pipelines, q.read.flags, now.overrides).groups[g].tasks[j]
        = CalcUserScores(d, u, m.pipelines, m.flags, m.overrides).groups[g].tasks[j]

(* A task of a board is as it was when the overrides were read, if it is    *)
(* overridden; when the flags were read, if it has a flag; and when the     *)
(* pipelines were read, if it has neither: it had neither then.             *)
LEMMA TaskDue ==
    ASSUME NEW d, SheetInOrder(d), NEW u, NEW q, NEW F, NEW K, Reading(q, F, K), FlagsRead(q),
           NEW now, Listing(now.overrides, K),
           NEW g \in DOMAIN d.assignments, NEW j \in DOMAIN d.assignments[g].tasks
    PROVE  WasDue(d, u, q, now, g, j)
<1> DEFINE a == d.assignments[g]
           task == a.tasks[j]
           k == <<u, task.task>>
           Best(S) == LoadUserPipelines(SetToSeq(RowsOf(S, u)))
           Flag(T) == LoadUserFlags(SetToSeq(RowsOf(T, u)))
           Over(O) == ParseOverrides(RowsOf(O, u))
           S == q.read.pipelines
           T == q.read.flags
           O == now.overrides
           Task(x, y, z) == CalcUserScores(d, u, x, y, z).groups[g].tasks[j]
           Scored(x, y, z) == ScoreTask(d, u, a, task, x, y, z)
<1>1. \A x, y, z : Task(x, y, z) = Scored(Best(x), Flag(y), Over(z))
  BY TaskAt
<1>2. \A x, y, z, x2, y2, z2 :
         \/ k \in DOMAIN z /\ z2 = z
         \/ /\ k \notin DOMAIN z /\ k \notin DOMAIN z2
            /\ \/ task.task \in DOMAIN y /\ y2 = y
               \/ task.task \notin DOMAIN y /\ task.task \notin DOMAIN y2 /\ x2 = x
         => Scored(x, y, z) = Scored(x2, y2, z2)
  <2> HIDE DEF a, task
  <2> QED BY TaskDecided
<1>3. \A X : k \in DOMAIN Over(X) <=> \E o \in X : o.login = u /\ o.task = task.task
  <2> HIDE DEF task
  <2>1. \A X : k \in DOMAIN Over(X) <=> \E o \in RowsOf(X, u) : o.login = u /\ o.task = task.task
    BY OverridesParsed
  <2> QED BY <2>1 DEF RowsOf
<1>4. PICK m1 \in q.moments : m1.pipelines = S /\ m1.flags \subseteq T
  BY DEF FlagsRead
<1>5. PICK m2 \in q.moments : m2.flags = T
  BY DEF FlagsRead
<1>6. Past(m1, F, K) /\ Past(m2, F, K)
  BY <1>4, <1>5 DEF Reading
<1>7. task.task \in DOMAIN Flag(m1.flags) => task.task \in DOMAIN Flag(T)
  <2>1. \A t : t \in DOMAIN Flag(m1.flags) <=> \E r \in m1.flags : r.login = u /\ r.task = t
    BY <1>6, FlagsFound DEF Past
  <2>2. \A t : t \in DOMAIN Flag(T) <=> \E r \in T : r.login = u /\ r.task = t
    BY <1>5, <1>6, FlagsFound DEF Past
  <2> HIDE DEF Flag, task
  <2> QED BY <1>4, <2>1, <2>2
<1> HIDE DEF Best, Flag, Over, Task, Scored, task
<1>8. CASE k \in DOMAIN Over(O)
  <2>1. Task(S, T, O) = Task(now.pipelines, now.flags, now.overrides)
    BY <1>1, <1>2, <1>8
  <2> QED BY <2>1 DEF Task, WasDue
<1>9. CASE k \notin DOMAIN Over(O)
  <2>1. k \notin K
    <3>1. ~ \E o \in now.overrides : o.login = u /\ o.task = task.task
      BY <1>3, <1>9
    <3> QED BY <3>1 DEF Listing
  <2>2. k \notin DOMAIN Over(m1.overrides) /\ k \notin DOMAIN Over(m2.overrides)
    BY <1>3, <1>6, <2>1 DEF Past
  <2>3. CASE task.task \in DOMAIN Flag(T)
    <3>1. Task(S, T, O) = Task(m2.pipelines, m2.flags, m2.overrides)
      BY <1>1, <1>2, <1>5, <1>9, <2>2, <2>3
    <3> QED BY <1>5, <3>1 DEF Task, WasDue
  <2>4. CASE task.task \notin DOMAIN Flag(T)
    <3>1. Task(S, T, O) = Task(m1.pipelines, m1.flags, m1.overrides)
      BY <1>1, <1>2, <1>4, <1>7, <1>9, <2>2, <2>4
    <3> QED BY <1>4, <3>1 DEF Task, WasDue
  <2> QED BY <2>3, <2>4
<1> QED BY <1>8, <1>9

(* The step that turns what a request has read into standings. *)
LEMMA ComputesAlone ==
    ASSUME BInv, [BoardNext]_boardVars, NEW r \in Requests,
           request[r].phase = "overrides", request'[r].phase \in {"reverse", "render"}
    PROVE  Compute(r)
<1>1. DOMAIN request = Requests
  BY DEF BInv, Requested
<1>2. request'[r] # request[r]
  OBVIOUS
<1>3. PICK x \in Requests :
        \/ \E page \in Pages : Begin(x, page)
        \/ ReadPipelines(x) \/ ReadFlags(x) \/ Compute(x) \/ ReverseGroups(x) \/ Finish(x)
  BY <1>2 DEF BoardNext, boardVars, Expire
<1>4. x = r
  <2>1. CASE \E page \in Pages : Begin(x, page)
    BY <1>1, <1>2, <2>1 DEF Begin, Holds
  <2>2. CASE ReadPipelines(x) \/ ReadFlags(x)
    BY <1>1, <1>2, <2>2 DEF ReadPipelines, ReadFlags
  <2>3. CASE Compute(x)
    BY <1>1, <1>2, <2>3 DEF Compute, Holds
  <2>4. CASE ReverseGroups(x) \/ Finish(x)
    BY <1>1, <1>2, <2>4 DEF ReverseGroups, Holds, Finish
  <2> QED BY <1>3, <2>1, <2>2, <2>3, <2>4
<1>5. CASE Finish(x)
  BY <1>1, <1>4, <1>5 DEF Finish, Idle
<1> QED BY <1>3, <1>4, <1>5 DEF Begin, ReadPipelines, ReadFlags, ReverseGroups

(* Every task of every board is as it was due, under the sheet the request  *)
(* began with, at one of the moments the request read a table - for any     *)
(* number of users, requests, rows and sheets in order, though the tables   *)
(* are read one after the other while statuses change either way, flags and *)
(* overrides come and the sheet is replaced (scorer.go:128-161, 183-223,    *)
(* 300-327).                                                                *)
THEOREM BoardsWereDue == BoardSpec => DueAtSomeRead
<1>1. ASSUME BInv, [BoardNext]_boardVars, NEW r \in Requests,
             request[r].phase = "overrides", request'[r].phase \in {"reverse", "render"},
             NEW i \in DOMAIN request'[r].standings.users,
             NEW g \in DOMAIN SheetAt(request[r].version).assignments,
             NEW j \in DOMAIN SheetAt(request[r].version).assignments[g].tasks
      PROVE  LET d == SheetAt(request[r].version)
                 users == request'[r].standings.users
             IN  \E m \in request[r].moments \cup {AllRows} :
                   users[i].groups[g].tasks[j]
                     = CalcUserScores(d, users[i].login, m.pipelines, m.flags, m.overrides)
                         .groups[g].tasks[j]
  <2> DEFINE q == request[r]
             F == Rows(flags)
             K == Overridden
             d == SheetAt(q.version)
             users == request'[r].standings.users
             O == Rows(overrides)
  <2>1. Reading(q, F, K) /\ FlagsRead(q)
    BY <1>1 DEF BInv, Requested, RequestSound
  <2>2. SheetInOrder(d)
    BY <1>1, <2>1, SheetSeen DEF BInv, Reading
  <2>3. users = CalcScoreboard(d, Filtered(q.page), q.read.pipelines, q.read.flags, O)
    <3>1. Compute(r)
      BY <1>1, ComputesAlone
    <3>2. DOMAIN request = Requests
      BY <1>1 DEF BInv, Requested
    <3>3. request'[r].standings = CalcBoard(r)
      <4>1. \E phase, page : request'[r] = [Idle EXCEPT !.phase = phase, !.page = page,
                                                         !.standings = CalcBoard(r)]
        BY <3>1, <3>2 DEF Compute, Holds
      <4>2. PICK s : s = CalcBoard(r)
        OBVIOUS
      <4> QED BY <4>1, <4>2 DEF Idle
    <3> QED BY <3>3 DEF CalcBoard
  <2>4. RowsRead(q.read.pipelines, q.read.flags, O)
    BY <1>1, <2>1, ReadRows DEF BInv
  <2>5. PICK now : now = AllRows
    OBVIOUS
  <2>6. now.overrides = O
    BY <2>5 DEF AllRows
  <2>7. Listing(now.overrides, K)
    <3>1. ASSUME NEW k \in K
          PROVE  \E o \in O : <<o.login, o.task>> = k
      <4>1. PICK u \in Logins, t \in Tasks : k = <<u, t>> /\ overrides[<<u, t>>] # NoRow
        BY DEF Overridden
      <4>2. \E o \in O : o.login = u /\ o.task = t
        BY <1>1, <4>1, OverridesListed DEF BInv
      <4> QED BY <4>1, <4>2
    <3> QED BY <2>6, <3>1 DEF Listing
  <2> HIDE DEF q, F, K, O, users, d
  <2>8. users[i] = CalcUserScores(d, users[i].login, q.read.pipelines, q.read.flags, O)
    <3>1. \A x \in DOMAIN users :
            users[x] = CalcUserScores(d, users[x].login, q.read.pipelines, q.read.flags, O)
      BY <2>2, <2>3, <2>4, BoardUsers
    <3>2. i \in DOMAIN users
      BY <1>1 DEF users
    <3> QED BY <3>1, <3>2
  <2>9. PICK u : u = users[i].login
    OBVIOUS
  <2>10. g \in DOMAIN d.assignments /\ j \in DOMAIN d.assignments[g].tasks
    BY <1>1 DEF d, q
  <2>11. WasDue(d, u, q, now, g, j)
    BY <2>1, <2>2, <2>7, <2>10, TaskDue
  <2>12. \E m \in q.moments \cup {now} :
           users[i].groups[g].tasks[j]
             = CalcUserScores(d, users[i].login, m.pipelines, m.flags, m.overrides)
                 .groups[g].tasks[j]
    BY <2>6, <2>8, <2>9, <2>11 DEF WasDue
  <2> QED BY <2>5, <2>12 DEF q, d, users
<1>2. BInv /\ [BoardNext]_boardVars =>
        [\A r \in Requests :
           request[r].phase = "overrides" /\ request'[r].phase \in {"reverse", "render"} =>
             LET d == SheetAt(request[r].version)
                 users == request'[r].standings.users
                 due(u, m) == CalcUserScores(d, u, m.pipelines, m.flags, m.overrides)
             IN  \A i \in DOMAIN users : \A g \in DOMAIN d.assignments :
                 \A j \in DOMAIN d.assignments[g].tasks :
                 \E m \in request[r].moments \cup {AllRows} :
                   users[i].groups[g].tasks[j] = due(users[i].login, m).groups[g].tasks[j]
        ]_boardVars
  BY <1>1
<1> QED BY <1>2, BoardInvariance, PTL DEF BoardSpec, DueAtSomeRead
=============================================================================
