---------------------------- MODULE Pipelines_proof ----------------------------
(***************************************************************************)
(* Proofs about Pipelines, for any finite number of pipelines, any number   *)
(* of projects and reports, every page size and every choice of faults.     *)
(***************************************************************************)
EXTENDS Pipelines, FiniteSetTheorems, TLAPS

(* Division: a number between two multiples. *)
LEMMA OnPage ==
    ASSUME NEW P \in Nat \ {0}, NEW k \in Nat, NEW n \in Nat, k >= n * P, k < (n + 1) * P
    PROVE  k \div P = n
  OBVIOUS

USE PipelinesAssumption, NothingAssumption
-----------------------------------------------------------------------------
(* Types *)

(* The pipelines GitLab has can be counted. *)
LEMMA ListedFinite ==
    ASSUME NEW q
    PROVE  /\ IsFiniteSet(Listed(q)) /\ Cardinality(Listed(q)) \in Nat
           /\ IsFiniteSet({r \in Pipelines : Exists(r)})
           /\ Cardinality({r \in Pipelines : Exists(r)}) \in Nat
<1>1. IsFiniteSet(Listed(q)) /\ IsFiniteSet({r \in Pipelines : Exists(r)})
  BY FS_Subset DEF Listed
<1> QED BY <1>1, FS_CardinalityType

(* A change of a pipeline's status, spelled out. *)
LEMMA ChangeFacts ==
    ASSUME TypeOK, NEW p \in Pipelines, PipelineChanges(p)
    PROVE  \E now \in Seen :
             /\ now.ver = remote[p].ver + 1 /\ now.status # "absent"
             /\ remote' = [remote EXCEPT ![p] = now]
             /\ shown' = [shown EXCEPT ![p] = @ \cup {now}]
<1>1. remote[p] \in Seen /\ remote[p].ver \in Nat /\ remote[p].status \in Status
  BY DEF TypeOK, Seen
<1>2. \A s \in Successor(remote[p].status) : s \in Status /\ s # "absent"
  BY <1>1 DEF Successor, Status
<1>3. PICK s \in Successor(remote[p].status) :
           LET now == [status |-> s, ver |-> remote[p].ver + 1] IN
             /\ remote' = [remote EXCEPT ![p] = now]
             /\ shown' = [shown EXCEPT ![p] = @ \cup {now}]
  BY DEF PipelineChanges
<1>4. [status |-> s, ver |-> remote[p].ver + 1] \in Seen
  BY <1>1, <1>2 DEF Seen
<1> QED BY <1>2, <1>3, <1>4

(* What a round of the fresh loop has before and behind it: an entry is to  *)
(* be visited, in hand, or to be deleted, and between rounds nothing is.    *)
RangeSound ==
    /\ ~ranging => freshTodo = {} /\ got = Nothing /\ removed = {}
    /\ freshTodo \cap removed = {}
    /\ got # Nothing => got.entry \in fresh /\ got.entry \notin removed /\ got.entry \notin freshTodo

(* A step keeps every variable in its type. *)
LEMMA TypeStep ==
    ASSUME TypeOK, RangeSound, [Next]_vars
    PROVE  TypeOK'
<1> USE DEF TypeOK
<1>1. ASSUME NEW p \in Pipelines, PipelineChanges(p)
      PROVE  TypeOK'
  <2>1. PICK now \in Seen : /\ remote' = [remote EXCEPT ![p] = now]
                           /\ shown' = [shown EXCEPT ![p] = @ \cup {now}]
    BY <1>1, ChangeFacts
  <2>2. remote' \in [Pipelines -> Seen] /\ shown' \in [Pipelines -> SUBSET Seen]
    BY <2>1
  <2>3. born' \in [Pipelines -> Nat]
    <3>1. Cardinality({r \in Pipelines : Exists(r)}) + 1 \in Nat
      BY ListedFinite
    <3> QED BY <1>1, <3>1 DEF PipelineChanges
  <2> QED BY <1>1, <2>2, <2>3 DEF PipelineChanges, pollVars, freshVars
<1>2. ASSUME NEW p \in Pipelines, Report(p)
      PROVE  TypeOK'
  BY <1>2 DEF Report, gitlabVars, pollVars, Entry
<1>3. CASE PollTick
  BY <1>3 DEF PollTick, gitlabVars, freshVars
<1>4. CASE PollPageFails
  BY <1>4 DEF PollPageFails, gitlabVars, freshVars
<1>5. CASE PollStoreFails
  BY <1>5 DEF PollStoreFails, gitlabVars, freshVars
<1>6. ASSUME NEW q \in Projects, NEW page \in PageNumbers, PollPage(q, page)
      PROVE  TypeOK'
  <2>1. page \in Nat \ {0}
    BY FS_CardinalityType DEF PageNumbers
  <2>2. pollAt' \in Cursor \cup {Nothing}
    BY <1>6, <2>1 DEF PollPage, Cursor
  <2>3. Page(q, page) \subseteq Pipelines /\ Listed(q) \subseteq Pipelines
    BY DEF Page, Listed
  <2>4. pollBatch' \subseteq Pipelines \X Seen
    BY <1>6, <2>3 DEF PollPage
  <2>5. owed' \subseteq Pipelines /\ pollTodo' \subseteq Projects
    BY <1>6, <2>3 DEF PollPage
  <2> QED BY <1>6, <2>2, <2>4, <2>5 DEF PollPage, gitlabVars, freshVars
<1>7. ASSUME NEW p \in Pipelines, PollStore(p)
      PROVE  TypeOK'
  BY <1>7 DEF PollStore, AddPipeline, gitlabVars, freshVars
<1>8. CASE RangeStart
  BY <1>8 DEF RangeStart, gitlabVars, pollVars
<1>9. ASSUME NEW e \in Entry, FreshGet(e)
      PROVE  TypeOK'
  <2>1. e[1] \in Pipelines
    BY DEF Entry
  <2>2. got' \in [entry: Entry, seen: Seen]
    BY <1>9, <2>1 DEF FreshGet
  <2> QED BY <1>9, <2>2 DEF FreshGet, gitlabVars, pollVars
<1>10. ASSUME NEW e \in Entry, FreshStore(e)
       PROVE  TypeOK'
  <2>1. e[1] \in Pipelines /\ got.seen \in Seen
    BY <1>10 DEF FreshStore, Entry
  <2>2. stored' \in [Pipelines -> Seen \cup {Nothing}]
    BY <1>10, <2>1 DEF FreshStore, AddPipeline
  <2>3. removed' \subseteq fresh
    BY <1>10 DEF FreshStore, RangeSound
  <2> QED BY <1>10, <2>2, <2>3 DEF FreshStore, gitlabVars, pollVars
<1>11. CASE FreshFails
  BY <1>11 DEF FreshFails, gitlabVars, pollVars
<1>12. CASE RangeEnd
  BY <1>12 DEF RangeEnd, gitlabVars, pollVars
<1>13. CASE Restart
  BY <1>13 DEF Restart, gitlabVars
<1>14. CASE UNCHANGED vars
  BY <1>14 DEF vars, gitlabVars, pollVars, freshVars
<1> QED BY <1>1, <1>2, <1>3, <1>4, <1>5, <1>6, <1>7, <1>8, <1>9, <1>10, <1>11, <1>12, <1>13,
           <1>14 DEF Next

(* The steps that the fresh loop and the reports take. *)
LEMMA FreshSteps ==
    ASSUME [Next]_vars
    PROVE  \/ \E p \in Pipelines : Report(p)
           \/ RangeStart
           \/ \E e \in Entry : FreshGet(e) \/ FreshStore(e)
           \/ FreshFails
           \/ RangeEnd
           \/ Restart
           \/ UNCHANGED <<freshVars, due>>
  BY DEF Next, PipelineChanges, PollTick, PollPageFails, PollStoreFails, PollPage, PollStore, vars

(* The fresh loop's rounds stay in order. *)
LEMMA RangeStep ==
    ASSUME TypeOK, RangeSound, [Next]_vars
    PROVE  RangeSound'
<1> USE DEF RangeSound
<1>1. ASSUME NEW p \in Pipelines, Report(p)
      PROVE  RangeSound'
  BY <1>1 DEF Report, TypeOK
<1>2. CASE RangeStart
  BY <1>2 DEF RangeStart
<1>3. ASSUME NEW e \in Entry, FreshGet(e)
      PROVE  RangeSound'
  BY <1>3 DEF FreshGet, TypeOK
<1>4. ASSUME NEW e \in Entry, FreshStore(e)
      PROVE  RangeSound'
  BY <1>4 DEF FreshStore, TypeOK
<1>5. CASE FreshFails
  BY <1>5 DEF FreshFails
<1>6. CASE RangeEnd
  BY <1>6 DEF RangeEnd
<1>7. CASE Restart
  BY <1>7 DEF Restart
<1>8. CASE UNCHANGED <<freshVars, due>>
  BY <1>8 DEF freshVars
<1> QED BY <1>1, <1>2, <1>3, <1>4, <1>5, <1>6, <1>7, <1>8, FreshSteps

(* Types and rounds hold together: neither is inductive without the other.  *)
LEMMA TypeInvariance == Spec => [](TypeOK /\ RangeSound)
<1>1. Init => TypeOK
  <2>1. [status |-> "absent", ver |-> 0] \in Seen
    BY DEF Seen, Status
  <2>2. Init => /\ remote \in [Pipelines -> Seen] /\ born \in [Pipelines -> Nat]
                /\ shown \in [Pipelines -> SUBSET Seen]
                /\ stored \in [Pipelines -> Seen \cup {Nothing}]
    BY <2>1 DEF Init
  <2> QED BY <2>2 DEF Init, TypeOK
<1>2. Init => RangeSound
  BY DEF Init, RangeSound
<1>3. TypeOK /\ RangeSound /\ [Next]_vars => TypeOK' /\ RangeSound'
  BY TypeStep, RangeStep
<1> QED BY <1>1, <1>2, <1>3, PTL DEF Spec

(* Every variable keeps its type, and what the fresh loop has still to      *)
(* visit or to delete is in the map, whatever is reported meanwhile and     *)
(* whatever call fails (pipelines.go:177-193).                              *)
THEOREM TypeCorrect == Spec => []TypeOK
  BY TypeInvariance, PTL
-----------------------------------------------------------------------------
(* Reports *)

(* A pipeline that was read as ended, and is about to lose the entry it was *)
(* read for, has another one if it has been reported again since.           *)
ReportedAgain ==
    got # Nothing /\ got.seen.status # "running" =>
      (got.entry[1] \in due =>
         \E e \in fresh \ removed : e # got.entry /\ e[1] = got.entry[1])

(* Both stay true whatever is reported, fetched, stored or deleted. *)
LEMMA ReportsStep ==
    ASSUME TypeOK, RangeSound, ReportsKept, ReportedAgain, [Next]_vars
    PROVE  ReportsKept' /\ ReportedAgain'
<1>1. ASSUME NEW p \in Pipelines, Report(p)
      PROVE  ReportsKept' /\ ReportedAgain'
  <2>1. PICK t \in Tickets : <<p, t>> \notin fresh /\ fresh' = fresh \cup {<<p, t>>}
    BY <1>1 DEF Report
  <2>2. <<p, t>> \in fresh' \ removed' /\ fresh \ removed \subseteq fresh' \ removed'
    BY <1>1, <2>1 DEF Report, TypeOK
  <2>3. due' = due \cup {p} /\ got' = got
    BY <1>1 DEF Report
  <2>4. ReportsKept'
    BY <2>2, <2>3 DEF ReportsKept
  <2>5. ReportedAgain'
    <3>1. got # Nothing => got.entry # <<p, t>>
      BY <2>1 DEF RangeSound
    <3> QED BY <2>2, <2>3, <3>1 DEF ReportedAgain
  <2> QED BY <2>4, <2>5
<1>2. CASE RangeStart
  BY <1>2 DEF RangeStart, ReportsKept, ReportedAgain
<1>3. ASSUME NEW e \in Entry, FreshGet(e)
      PROVE  ReportsKept' /\ ReportedAgain'
  <2>1. got'.seen.status = remote[e[1]].status /\ got'.entry = e
    BY <1>3 DEF FreshGet
  <2>2. got'.seen.status # "running" => got'.entry[1] \notin due'
    BY <1>3, <2>1 DEF FreshGet
  <2>3. due' \subseteq due /\ UNCHANGED <<fresh, removed>>
    BY <1>3 DEF FreshGet
  <2> QED BY <2>2, <2>3 DEF ReportsKept, ReportedAgain
<1>4. ASSUME NEW e \in Entry, FreshStore(e)
      PROVE  ReportsKept' /\ ReportedAgain'
  <2>1. got' = Nothing /\ got # Nothing /\ got.entry = e /\ UNCHANGED <<fresh, due>>
    BY <1>4 DEF FreshStore
  <2>2. CASE got.seen.status = "running"
    BY <1>4, <2>1, <2>2 DEF FreshStore, ReportsKept, ReportedAgain
  <2>3. CASE got.seen.status # "running"
    <3>1. removed' = removed \cup {e}
      BY <1>4, <2>3 DEF FreshStore
    <3>2. e[1] \in due => \E d \in fresh \ removed : d # e /\ d[1] = e[1]
      BY <2>1, <2>3 DEF ReportedAgain
    <3>3. ASSUME NEW p \in due
          PROVE  \E d \in fresh \ removed' : d[1] = p
      <4>1. PICK d \in fresh \ removed : d[1] = p
        BY DEF ReportsKept
      <4>2. CASE d # e
        BY <3>1, <4>1, <4>2
      <4>3. CASE d = e
        BY <3>1, <3>2, <4>1, <4>3
      <4> QED BY <4>2, <4>3
    <3> QED BY <2>1, <3>3 DEF ReportsKept, ReportedAgain
  <2> QED BY <2>2, <2>3
<1>5. CASE FreshFails
  BY <1>5 DEF FreshFails, ReportsKept, ReportedAgain
<1>6. CASE RangeEnd
  BY <1>6 DEF RangeEnd, ReportsKept, ReportedAgain
<1>7. CASE Restart
  BY <1>7 DEF Restart, ReportsKept, ReportedAgain
<1>8. CASE UNCHANGED <<freshVars, due>>
  BY <1>8 DEF freshVars, ReportsKept, ReportedAgain
<1> QED BY <1>1, <1>2, <1>3, <1>4, <1>5, <1>6, <1>7, <1>8, FreshSteps

(* No report is swallowed, however many arrive while older ones are fetched *)
(* and deleted (pipelines.go:75, 185, 191).                                 *)
THEOREM NoReportSwallowed == Spec => []ReportsKept
<1>1. Init => ReportsKept /\ ReportedAgain
  BY DEF Init, ReportsKept, ReportedAgain
<1>2. TypeOK /\ RangeSound /\ ReportsKept /\ ReportedAgain /\ [Next]_vars
        => ReportsKept' /\ ReportedAgain'
  BY ReportsStep
<1> QED BY <1>1, <1>2, TypeInvariance, PTL DEF Spec
-----------------------------------------------------------------------------
(* Listings *)

(* How many pipelines a project's listing has before this one. *)
Newer(q, p) == {r \in Listed(q) : born[r] > born[p]}

(* While a project is listed, the pipelines it is still owed are at or      *)
(* behind the next page, however many have been created since it began.     *)
OwedAhead ==
    \A q \in Projects : pollAt # Nothing /\ pollAt.project = q =>
      \A p \in owed :
        /\ p \in Listed(q)
        /\ Cardinality(Newer(q, p)) >= (pollAt.page - 1) * PageSize

(* Division by the page size: what is at or behind page n, counted from 0,  *)
(* and not on it is behind it; and TotalPages pages hold everything.        *)
LEMMA BehindPage ==
    ASSUME NEW k \in Nat, NEW n \in Nat, k >= n * PageSize, k \div PageSize # n
    PROVE  k >= (n + 1) * PageSize
<1>1. PICK m \in Nat : m = (n + 1) * PageSize
  OBVIOUS
<1>2. ~(k < m)
  BY <1>1, OnPage
<1> QED BY <1>1, <1>2

(* As many pages as the listing says hold all of it. *)
LEMMA EnoughPages ==
    ASSUME NEW k \in Nat, NEW n \in Nat, n >= (k + PageSize - 1) \div PageSize
    PROVE  n * PageSize >= k
<1>1. PICK x \in Nat : x = k + PageSize - 1
  OBVIOUS
<1>2. PICK d \in Nat : d = x \div PageSize
  OBVIOUS
<1>3. x < PageSize * d + PageSize
  BY <1>2
<1>4. d * PageSize =< n * PageSize
  BY <1>1, <1>2
<1>5. k =< PageSize * d
  BY <1>1, <1>3
<1> QED BY <1>4, <1>5

(* A pipeline's place in the listing is counted, and before the end. *)
LEMMA NewerFinite ==
    ASSUME NEW q, NEW p \in Listed(q), TypeOK
    PROVE  /\ IsFiniteSet(Newer(q, p))
           /\ Cardinality(Newer(q, p)) \in Nat
           /\ Cardinality(Newer(q, p)) < Cardinality(Listed(q))
<1>1. IsFiniteSet(Listed(q)) /\ Newer(q, p) \subseteq Listed(q)
  BY ListedFinite DEF Newer
<1>2. p \notin Newer(q, p)
  BY DEF Newer, TypeOK, Listed
<1>3. Newer(q, p) # Listed(q)
  BY <1>2
<1>4. IsFiniteSet(Newer(q, p)) /\ Cardinality(Newer(q, p)) =< Cardinality(Listed(q))
  BY <1>1, FS_Subset
<1>5. Cardinality(Newer(q, p)) # Cardinality(Listed(q))
  BY <1>1, <1>3, FS_Subset
<1>6. Cardinality(Newer(q, p)) \in Nat /\ Cardinality(Listed(q)) \in Nat
  BY <1>4, FS_CardinalityType, ListedFinite
<1> QED BY <1>4, <1>5, <1>6

(* A page is read: what stays owed is behind it, and nothing is left behind *)
(* the last page.                                                           *)
LEMMA PageStep ==
    ASSUME TypeOK, NothingSkipped, OwedAhead,
           NEW q \in Projects, NEW page \in PageNumbers, PollPage(q, page)
    PROVE  NothingSkipped' /\ OwedAhead'
<1>1. page \in Nat \ {0}
  BY FS_CardinalityType DEF PageNumbers
<1>2. UNCHANGED gitlabVars
  BY DEF PollPage
<1>3. ASSUME NEW p \in owed'
      PROVE  /\ p \in Listed(q)
             /\ Cardinality(Newer(q, p)) >= page * PageSize
  <2>1. p \notin Page(q, page) /\ p \in (IF page = 1 THEN Listed(q) ELSE owed)
    BY <1>3 DEF PollPage
  <2>2. p \in Listed(q) /\ (page # 1 => Cardinality(Newer(q, p)) >= (page - 1) * PageSize)
    <3>1. CASE page = 1
      BY <2>1, <3>1
    <3>2. CASE page # 1
      <4>1. pollAt # Nothing /\ q = pollAt.project /\ page = pollAt.page
        BY <3>2 DEF PollPage, Asks
      <4> QED BY <2>1, <3>2, <4>1 DEF OwedAhead
    <3> QED BY <3>1, <3>2
  <2>3. PICK k \in Nat : k = Cardinality(Newer(q, p))
    BY <2>2, NewerFinite
  <2>4. k >= (page - 1) * PageSize
    <3>1. CASE page = 1
      BY <3>1
    <3>2. CASE page # 1
      BY <2>2, <2>3, <3>2
    <3> QED BY <3>1, <3>2
  <2>5. k \div PageSize # page - 1
    BY <2>1, <2>2, <2>3 DEF Page, Newer
  <2>6. PICK n \in Nat : n = page - 1 /\ n + 1 = page
    BY <1>1
  <2>7. k >= (n + 1) * PageSize
    BY <2>4, <2>5, <2>6, BehindPage
  <2> QED BY <2>2, <2>3, <2>6, <2>7
<1>4. CASE page >= TotalPages(q)
  <2>1. pollAt' = Nothing
    BY <1>4 DEF PollPage
  <2>2. PICK k \in Nat : k = Cardinality(Listed(q))
    BY ListedFinite
  <2>3. page * PageSize >= k
    BY <1>1, <1>4, <2>2, EnoughPages DEF TotalPages
  <2>4. owed' = {}
    <3> SUFFICES ASSUME NEW p \in owed'
                 PROVE  FALSE
      OBVIOUS
    <3>1. PICK i \in Nat : i = Cardinality(Newer(q, p)) /\ i < k
      BY <1>3, <2>2, NewerFinite
    <3>2. i >= page * PageSize
      BY <1>3, <3>1
    <3>3. page * PageSize \in Nat
      BY <1>1
    <3> QED BY <2>3, <3>1, <3>2, <3>3
  <2> QED BY <2>1, <2>4 DEF NothingSkipped, OwedAhead
<1>5. CASE ~(page >= TotalPages(q))
  <2>1. pollAt' = [project |-> q, page |-> page + 1]
    BY <1>5 DEF PollPage
  <2>2. pollAt' # Nothing
    BY <1>1, <2>1 DEF Cursor
  <2>3. pollAt'.project = q /\ pollAt'.page - 1 = page
    BY <1>1, <2>1
  <2>4. \A p : Listed(q)' = Listed(q) /\ Newer(q, p)' = Newer(q, p)
    BY <1>2 DEF gitlabVars, Listed, Newer, Exists
  <2>5. \A p \in owed' : /\ p \in Listed(q)'
                        /\ Cardinality(Newer(q, p)') >= (pollAt'.page - 1) * PageSize
    BY <1>3, <2>3, <2>4
  <2> QED BY <2>2, <2>3, <2>5 DEF NothingSkipped, OwedAhead
<1> QED BY <1>4, <1>5

(* A pipeline that is created, anywhere, moves no other one forward. *)
LEMMA ListingGrows ==
    ASSUME TypeOK, NothingSkipped, OwedAhead, NEW p \in Pipelines, PipelineChanges(p)
    PROVE  NothingSkipped' /\ OwedAhead'
<1>1. PICK now \in Seen : now.status # "absent" /\ remote' = [remote EXCEPT ![p] = now]
  BY ChangeFacts
<1>2. \A r \in Pipelines : Exists(r) => Exists(r)'
  BY <1>1 DEF Exists, TypeOK
<1>3. \A r \in Pipelines : Exists(r) => born'[r] = born[r]
  BY DEF PipelineChanges, TypeOK
<1>4. \A q : Listed(q) \subseteq Listed(q)'
  BY <1>2 DEF Listed
<1>5. UNCHANGED <<pollAt, owed>>
  BY DEF PipelineChanges, pollVars
<1>6. ASSUME NEW q \in Projects, pollAt # Nothing, pollAt.project = q, NEW r \in owed
      PROVE  /\ r \in Listed(q)'
             /\ Cardinality(Newer(q, r)') >= (pollAt.page - 1) * PageSize
  <2>2. r \in Listed(q) /\ Cardinality(Newer(q, r)) >= (pollAt.page - 1) * PageSize
    BY <1>6 DEF OwedAhead
  <2>3. Newer(q, r) \subseteq Newer(q, r)'
    BY <1>3, <1>4, <2>2 DEF Newer, Listed
  <2>4. IsFiniteSet(Listed(q)')
    BY FS_Subset DEF Listed
  <2>5. IsFiniteSet(Newer(q, r)')
    BY <2>4, FS_Subset DEF Newer
  <2>6. Cardinality(Newer(q, r)) =< Cardinality(Newer(q, r)')
    BY <2>3, <2>5, FS_Subset
  <2>7. Cardinality(Newer(q, r)) \in Nat /\ Cardinality(Newer(q, r)') \in Nat
    BY <2>2, <2>5, NewerFinite, FS_CardinalityType
  <2>8. pollAt.page \in Nat \ {0}
    BY <1>6 DEF TypeOK, Cursor
  <2>9. (pollAt.page - 1) * PageSize \in Nat
    BY <2>8
  <2> QED BY <1>4, <2>2, <2>6, <2>7, <2>9
<1> QED BY <1>5, <1>6 DEF NothingSkipped, OwedAhead

(* Both stay true whatever GitLab, the poller and the fresh loop do. *)
LEMMA ListingStep ==
    ASSUME TypeOK, NothingSkipped, OwedAhead, [Next]_vars
    PROVE  NothingSkipped' /\ OwedAhead'
<1>1. ASSUME UNCHANGED gitlabVars,
             UNCHANGED <<pollAt, owed>> \/ (pollAt' = Nothing /\ owed' = {})
      PROVE  NothingSkipped' /\ OwedAhead'
  <2>1. \A q, p : Listed(q)' = Listed(q) /\ Newer(q, p)' = Newer(q, p)
    BY <1>1 DEF gitlabVars, Listed, Newer, Exists
  <2> QED BY <1>1, <2>1 DEF NothingSkipped, OwedAhead
<1>2. \/ \E p \in Pipelines : PipelineChanges(p)
      \/ \E q \in Projects, page \in PageNumbers : PollPage(q, page)
      \/ /\ UNCHANGED gitlabVars
         /\ UNCHANGED <<pollAt, owed>> \/ (pollAt' = Nothing /\ owed' = {})
  BY DEF Next, vars, pollVars, Report, PollTick, PollPageFails, PollStoreFails, PollStore,
         FreshGet, FreshStore, RangeStart, FreshFails, RangeEnd, Restart
<1> QED BY <1>1, <1>2, PageStep, ListingGrows

(* A listing that ends without an error has had every pipeline the project  *)
(* had when it began on one of its pages, for every page size and however   *)
(* many pipelines are created meanwhile (pipelines.go:120-140).             *)
THEOREM ListingsComplete == Spec => []NothingSkipped
<1>1. Init => NothingSkipped /\ OwedAhead
  BY DEF Init, NothingSkipped, OwedAhead
<1>2. TypeOK /\ NothingSkipped /\ OwedAhead /\ [Next]_vars => NothingSkipped' /\ OwedAhead'
  BY ListingStep
<1> QED BY <1>1, <1>2, TypeInvariance, PTL DEF Spec
-----------------------------------------------------------------------------
(* The table *)

(* The statuses a pipeline has had are numbered without a gap, and the last *)
(* of them is the one it has.                                               *)
ShownNumbered ==
    \A p \in Pipelines :
      /\ IsFiniteSet(shown[p])
      /\ Cardinality(shown[p]) = remote[p].ver
      /\ \A seen \in shown[p] : seen.ver =< remote[p].ver
      /\ Exists(p) => remote[p] \in shown[p]

(* Whatever is on its way to the table, or in it, GitLab has shown. *)
OnlyShown ==
    /\ \A e \in fresh : Exists(e[1])
    /\ \A b \in pollBatch : b[2] \in shown[b[1]]
    /\ got # Nothing => got.seen \in shown[got.entry[1]]
    /\ \A p \in Pipelines : stored[p] # Nothing => stored[p] \in shown[p]

(* Without an interval the poller does nothing, and what the fresh loop has *)
(* in hand is as new as the row.                                            *)
OneWriter ==
    ~enabled =>
      /\ BetweenRounds
      /\ got # Nothing => \A p \in Pipelines : p = got.entry[1] =>
           (stored[p] # Nothing => got.seen.ver >= stored[p].ver)

TableInv == ShownNumbered /\ OnlyShown /\ OneWriter

(* The entry in hand is about a pipeline. *)
LEMMA GotFacts ==
    ASSUME TypeOK, got # Nothing
    PROVE  got.entry \in Entry /\ got.entry[1] \in Pipelines /\ got.seen \in Seen
  BY DEF TypeOK, Entry

(* GitLab changes a status: it gets the next number, and nothing shown      *)
(* before is taken back.                                                    *)
LEMMA ChangeNumbers ==
    ASSUME TypeOK, TableInv, NEW p \in Pipelines, PipelineChanges(p)
    PROVE  TableInv' /\ Table!Change(p)
<1>1. PICK now \in Seen : /\ now.ver = remote[p].ver + 1 /\ now.status # "absent"
                         /\ remote' = [remote EXCEPT ![p] = now]
                         /\ shown' = [shown EXCEPT ![p] = @ \cup {now}]
  BY ChangeFacts
<1>2. /\ remote[p].ver \in Nat
      /\ \A seen \in shown[p] : seen.ver \in Nat /\ seen.ver =< remote[p].ver
  BY DEF TypeOK, Seen, TableInv, ShownNumbered
<1>3. now \notin shown[p]
  BY <1>1, <1>2
<1>4. /\ IsFiniteSet(shown[p] \cup {now})
      /\ Cardinality(shown[p] \cup {now}) = remote[p].ver + 1
  BY <1>3, FS_AddElement DEF TableInv, ShownNumbered
<1>5. /\ remote'[p] = now /\ shown'[p] = shown[p] \cup {now}
      /\ \A r \in Pipelines \ {p} : remote'[r] = remote[r] /\ shown'[r] = shown[r]
      /\ \A r \in Pipelines : shown[r] \subseteq shown'[r]
      /\ \A r \in Pipelines : Exists(r) => Exists(r)'
  BY <1>1 DEF TypeOK, Exists
<1>6. ShownNumbered'
  <2> SUFFICES ASSUME NEW r \in Pipelines
               PROVE  /\ IsFiniteSet(shown'[r])
                      /\ Cardinality(shown'[r]) = remote'[r].ver
                      /\ \A seen \in shown'[r] : seen.ver =< remote'[r].ver
                      /\ Exists(r)' => remote'[r] \in shown'[r]
    BY DEF ShownNumbered
  <2>1. CASE r = p
    <3>1. /\ IsFiniteSet(shown'[p]) /\ Cardinality(shown'[p]) = remote'[p].ver
          /\ remote'[p] \in shown'[p]
      BY <1>1, <1>4, <1>5
    <3>2. \A seen \in shown'[p] : seen.ver =< remote'[p].ver
      BY <1>1, <1>2, <1>5
    <3> QED BY <2>1, <3>1, <3>2
  <2>2. CASE r # p
    BY <1>5, <2>2 DEF TableInv, ShownNumbered, Exists
  <2> QED BY <2>1, <2>2
<1>7. UNCHANGED <<stored, enabled, pollTodo, pollAt, pollBatch, fresh, got>>
  BY DEF PipelineChanges, pollVars, freshVars
<1>8. OnlyShown'
  <2>1. \A e \in fresh : e[1] \in Pipelines
    BY DEF TypeOK, Entry
  <2>2. \A b \in pollBatch : b[1] \in Pipelines
    BY DEF TypeOK
  <2> QED BY <1>5, <1>7, <2>1, <2>2, GotFacts DEF TableInv, OnlyShown
<1>9. OneWriter'
  BY <1>7 DEF TableInv, OneWriter, BetweenRounds
<1>10. Table!Change(p)
  <2>1. now = [status |-> now.status, ver |-> Cardinality(shown[p]) + 1] /\ now.status \in Status
    BY <1>1 DEF Seen, TableInv, ShownNumbered
  <2>2. Cardinality(shown[p]) = Table!Cardinality(shown[p])
    BY DEF Cardinality, Table!Cardinality
  <2> QED BY <1>1, <1>7, <2>1, <2>2 DEF Table!Change
<1> QED BY <1>6, <1>8, <1>9, <1>10 DEF TableInv

(* What is read from GitLab, or was shown already, may be stored. *)
LEMMA StoreKeeps ==
    ASSUME TypeOK, TableInv, NEW p \in Pipelines, NEW seen \in shown[p], AddPipeline(p, seen),
           UNCHANGED <<remote, shown, enabled, fresh>>, pollBatch' \subseteq pollBatch,
           got' = got \/ got' = Nothing, enabled \/ got' = Nothing,
           enabled \/ UNCHANGED <<pollTodo, pollAt, pollBatch>>,
           enabled \/ stored[p] = Nothing \/ seen.ver >= stored[p].ver
    PROVE  TableInv' /\ Table!Store(p)
<1>1. stored'[p] = seen /\ \A r \in Pipelines \ {p} : stored'[r] = stored[r]
  BY DEF AddPipeline, TypeOK
<1>2. ShownNumbered'
  BY DEF TableInv, ShownNumbered, Exists
<1>3. OnlyShown'
  BY <1>1 DEF TableInv, OnlyShown, Exists
<1>4. OneWriter'
  BY DEF TableInv, OneWriter, BetweenRounds
<1>5. Table!Store(p)
  BY DEF Table!Store, AddPipeline
<1> QED BY <1>2, <1>3, <1>4, <1>5 DEF TableInv

(* Every step changes or stores one status, as StatusTable allows, or       *)
(* leaves the table alone.                                                  *)
LEMMA TableStep ==
    ASSUME TypeOK, TableInv, [Next]_vars
    PROVE  TableInv' /\ [Table!Next]_<<shown, stored, enabled>>
<1>1. ASSUME UNCHANGED <<remote, shown, stored, enabled>>, OnlyShown', OneWriter'
      PROVE  TableInv' /\ [Table!Next]_<<shown, stored, enabled>>
  BY <1>1 DEF TableInv, ShownNumbered, Exists
<1>2. ASSUME NEW p \in Pipelines, PipelineChanges(p)
      PROVE  TableInv' /\ [Table!Next]_<<shown, stored, enabled>>
  BY <1>2, ChangeNumbers DEF Table!Next
<1>3. ASSUME NEW p \in Pipelines, Report(p)
      PROVE  TableInv' /\ [Table!Next]_<<shown, stored, enabled>>
  <2>1. PICK t : fresh' = fresh \cup {<<p, t>>}
    BY <1>3 DEF Report
  <2>2. /\ UNCHANGED <<remote, shown, stored, enabled>> /\ UNCHANGED <<pollTodo, pollAt, pollBatch, got>>
        /\ Exists(p)
    BY <1>3 DEF Report, gitlabVars, pollVars
  <2>3. OnlyShown' /\ OneWriter'
    BY <2>1, <2>2 DEF TableInv, OnlyShown, OneWriter, BetweenRounds, Exists
  <2> QED BY <1>1, <2>2, <2>3
<1>4. CASE PollTick \/ PollPageFails \/ PollStoreFails
  <2>1. /\ UNCHANGED <<remote, shown, stored, enabled, fresh, got>>
        /\ pollBatch' \subseteq pollBatch /\ (enabled \/ BetweenRounds')
    <3>1. CASE PollTick
      BY <3>1 DEF PollTick, gitlabVars, freshVars
    <3>2. CASE PollPageFails
      BY <3>2 DEF PollPageFails, gitlabVars, freshVars, BetweenRounds
    <3>3. CASE PollStoreFails
      BY <3>3 DEF PollStoreFails, gitlabVars, freshVars, TableInv, OneWriter, BetweenRounds
    <3> QED BY <1>4, <3>1, <3>2, <3>3
  <2>2. OnlyShown' /\ OneWriter'
    BY <2>1 DEF TableInv, OnlyShown, OneWriter, Exists
  <2> QED BY <1>1, <2>1, <2>2
<1>5. ASSUME NEW q \in Projects, NEW page \in PageNumbers, PollPage(q, page)
      PROVE  TableInv' /\ [Table!Next]_<<shown, stored, enabled>>
  <2>1. UNCHANGED <<remote, shown, stored, enabled, fresh, got>>
    BY <1>5 DEF PollPage, gitlabVars, freshVars
  <2>2. enabled
    BY <1>5 DEF PollPage, Asks, TableInv, OneWriter, BetweenRounds
  <2>3. \A b \in pollBatch' : b[2] \in shown[b[1]]
    <3>1. \A p \in Page(q, page) : remote[p] \in shown[p]
      BY DEF Page, Listed, TableInv, ShownNumbered
    <3> QED BY <1>5, <3>1 DEF PollPage
  <2>4. OnlyShown' /\ OneWriter'
    BY <2>1, <2>2, <2>3 DEF TableInv, OnlyShown, OneWriter, Exists
  <2> QED BY <1>1, <2>1, <2>4
<1>6. ASSUME NEW p \in Pipelines, PollStore(p)
      PROVE  TableInv' /\ [Table!Next]_<<shown, stored, enabled>>
  <2>1. PICK b \in pollBatch : b[1] = p /\ pollBatch' = pollBatch \ {b} /\ AddPipeline(p, b[2])
    BY <1>6 DEF PollStore
  <2>2. enabled /\ b[2] \in shown[p]
    BY <2>1 DEF TableInv, OnlyShown, OneWriter, BetweenRounds
  <2>3. UNCHANGED <<remote, shown, enabled, fresh, got>>
    BY <1>6 DEF PollStore, gitlabVars, freshVars
  <2>4. TableInv' /\ Table!Store(p)
    BY <2>1, <2>2, <2>3, StoreKeeps
  <2> QED BY <2>4 DEF Table!Next
<1>7. ASSUME NEW e \in Entry, FreshGet(e)
      PROVE  TableInv' /\ [Table!Next]_<<shown, stored, enabled>>
  <2>1. PICK p \in Pipelines : p = e[1]
    BY DEF Entry
  <2>2. /\ UNCHANGED <<remote, shown, stored, enabled, fresh>>
        /\ UNCHANGED <<pollTodo, pollAt, pollBatch>>
    BY <1>7 DEF FreshGet, gitlabVars, pollVars
  <2>3. got'.entry[1] = p /\ got'.seen = remote[p]
    BY <1>7, <2>1 DEF FreshGet
  <2>4. remote[p] \in shown[p]
    BY <1>7, <2>1 DEF FreshGet, TypeOK, TableInv, OnlyShown, ShownNumbered
  <2>5. stored[p] # Nothing => remote[p].ver >= stored[p].ver
    <3>1. remote[p].ver \in Nat /\ (stored[p] # Nothing => stored[p].ver \in Nat)
      BY DEF TypeOK, Seen
    <3>2. stored[p] # Nothing => stored[p].ver =< remote[p].ver
      BY DEF TableInv, OnlyShown, ShownNumbered
    <3> QED BY <3>1, <3>2
  <2>6. OnlyShown'
    BY <2>2, <2>3, <2>4 DEF TableInv, OnlyShown, Exists
  <2>7. OneWriter'
    BY <2>2, <2>3, <2>5 DEF TableInv, OneWriter, BetweenRounds
  <2> QED BY <1>1, <2>2, <2>6, <2>7
<1>8. ASSUME NEW e \in Entry, FreshStore(e)
      PROVE  TableInv' /\ [Table!Next]_<<shown, stored, enabled>>
  <2>1. PICK p \in Pipelines : p = e[1]
    BY DEF Entry
  <2>2. got # Nothing /\ got.entry = e /\ got' = Nothing /\ AddPipeline(p, got.seen)
    BY <1>8, <2>1 DEF FreshStore
  <2>3. /\ UNCHANGED <<remote, shown, enabled, fresh>>
        /\ UNCHANGED <<pollTodo, pollAt, pollBatch>>
    BY <1>8 DEF FreshStore, gitlabVars, pollVars
  <2>4. got.seen \in shown[p] /\ (enabled \/ stored[p] = Nothing \/ got.seen.ver >= stored[p].ver)
    BY <2>1, <2>2 DEF TableInv, OnlyShown, OneWriter
  <2>5. TableInv' /\ Table!Store(p)
    BY <2>2, <2>3, <2>4, StoreKeeps
  <2> QED BY <2>5 DEF Table!Next
<1>9. CASE RangeStart \/ FreshFails \/ RangeEnd \/ Restart \/ UNCHANGED vars
  <2>1. /\ UNCHANGED <<remote, shown, stored, enabled>>
        /\ fresh' \subseteq fresh /\ (got' = got \/ got' = Nothing)
        /\ UNCHANGED <<pollTodo, pollAt, pollBatch>> \/ BetweenRounds'
        /\ pollBatch' \subseteq pollBatch
    BY <1>9 DEF RangeStart, FreshFails, RangeEnd, Restart, vars, gitlabVars, pollVars, freshVars,
                BetweenRounds
  <2>2. OnlyShown' /\ OneWriter'
    BY <2>1 DEF TableInv, OnlyShown, OneWriter, Exists, BetweenRounds
  <2> QED BY <1>1, <2>1, <2>2
<1> QED BY <1>2, <1>3, <1>4, <1>5, <1>6, <1>7, <1>8, <1>9 DEF Next

(* Pipelines implements StatusTable: however late it is written, a row      *)
(* holds a status GitLab has had, and without the poller it never goes back *)
(* in time (pipelines.go:79-132, database.go:191-196).                      *)
THEOREM TableKept == Spec => KeepsTable
<1>1. Init => TableInv
  <2> SUFFICES ASSUME Init
               PROVE  TableInv
    OBVIOUS
  <2>1. \A p \in Pipelines : /\ shown[p] = {} /\ remote[p] = [status |-> "absent", ver |-> 0]
                            /\ stored[p] = Nothing
    BY DEF Init
  <2>2. ShownNumbered
    BY <2>1, FS_EmptySet DEF ShownNumbered, Exists
  <2>3. OnlyShown /\ OneWriter
    BY <2>1 DEF Init, OnlyShown, OneWriter, BetweenRounds
  <2> QED BY <2>2, <2>3 DEF TableInv
<1>2. Init => Table!Init
  BY DEF Init, Table!Init
<1>3. TypeOK /\ TableInv /\ [Next]_vars
        => TableInv' /\ [Table!Next]_<<shown, stored, enabled>>
  BY TableStep
<1> QED BY <1>1, <1>2, <1>3, TypeInvariance, PTL DEF Spec, KeepsTable, Table!Spec
=============================================================================
