----------------------------- MODULE Website_proof -----------------------------
(***************************************************************************)
(* Proofs about DeadlinesFetcher and Website, for every configuration of    *)
(* groups and any number of students, tabs and publications.                *)
(***************************************************************************)
EXTENDS Website, SequenceTheorems, TLAPS

USE FetcherAssumption, WebsiteAssumption
-----------------------------------------------------------------------------
(* The fetcher *)

(* Every group has a sheet, and sheets grow newer from use to reload to     *)
(* publication.                                                             *)
SheetsOrdered ==
    /\ DOMAIN current = Groups
    /\ \A g \in Groups : current[g] =< published[g]
    /\ \A g \in DOMAIN fetched : current[g] =< fetched[g] /\ fetched[g] =< published[g]

FInv == FetcherTypeOK /\ SheetsOrdered

(* The groups are those at the positions of the configuration. *)
LEMMA GroupsByPosition ==
    /\ Len(ConfigGroups) \in Nat
    /\ DOMAIN ConfigGroups = 1..Len(ConfigGroups)
    /\ Groups = {ConfigGroups[i] : i \in 1..Len(ConfigGroups)}
    /\ \A i \in DOMAIN ConfigGroups : ConfigGroups[i] \in Groups
<1>1. Len(ConfigGroups) \in Nat /\ DOMAIN ConfigGroups = 1..Len(ConfigGroups)
  BY LenProperties
<1> QED BY <1>1 DEF Groups, Range

(* The groups a reload has fetched: those before its position. *)
FetchedGroups == {ConfigGroups[i] : i \in 1..(position - 1)}

(* Types and order, spelled out. *)
LEMMA FetcherTypes ==
    ASSUME FInv
    PROVE  /\ published \in [Groups -> Versions]
           /\ current \in [Groups -> Versions]
           /\ position \in Nat /\ position =< Len(ConfigGroups) + 1 /\ Len(ConfigGroups) \in Nat
           /\ fetched \in [FetchedGroups -> Versions]
           /\ DOMAIN fetched \subseteq Groups
           /\ \A g \in Groups : published[g] \in Nat /\ current[g] \in Nat
           /\ \A g \in DOMAIN fetched : fetched[g] \in Nat
           /\ \A g \in Groups : current[g] =< published[g]
           /\ \A g \in DOMAIN fetched : current[g] =< fetched[g] /\ fetched[g] =< published[g]
<1>1. current \in [Groups -> Versions]
  BY DEF FInv, FetcherTypeOK, SheetsOrdered
<1>2. /\ published \in [Groups -> Versions]
      /\ fetched \in [FetchedGroups -> Versions]
  BY DEF FInv, FetcherTypeOK, FetchedGroups
<1>3. position \in Nat /\ position =< Len(ConfigGroups) + 1 /\ Len(ConfigGroups) \in Nat
  BY GroupsByPosition DEF FInv, FetcherTypeOK
<1>4. FetchedGroups \subseteq Groups
  BY <1>3, GroupsByPosition DEF FetchedGroups
<1>5. Versions \subseteq Nat
  BY DEF Versions
<1>6. SheetsOrdered
  BY DEF FInv
<1>7. \A g \in Groups : published[g] \in Nat /\ current[g] \in Nat
  BY <1>1, <1>2, <1>5
<1>8. \A g \in DOMAIN fetched : fetched[g] \in Nat
  BY <1>2, <1>5
<1> QED BY <1>1, <1>2, <1>3, <1>4, <1>6, <1>7, <1>8 DEF SheetsOrdered

(* The invariant from its parts. *)
LEMMA FetcherParts ==
    ASSUME published \in [Groups -> Versions],
           current \in [Groups -> Versions],
           position \in 0..(Len(ConfigGroups) + 1),
           fetched \in [FetchedGroups -> Versions],
           \A g \in Groups : current[g] =< published[g],
           \A g \in DOMAIN fetched : current[g] =< fetched[g] /\ fetched[g] =< published[g]
    PROVE  FInv
<1>1. FetcherTypeOK
  BY DEF FetcherTypeOK, FetchedGroups
<1> QED BY <1>1 DEF FInv, SheetsOrdered

(* NewFetcher leaves a complete set of sheets. *)
LEMMA FetcherStarts ==
    ASSUME FetcherInit
    PROVE  FInv
<1>1. 1 \in Versions
  BY DEF Versions
<1>2. current \in [Groups -> Versions] /\ published \in [Groups -> Versions]
  BY <1>1 DEF FetcherInit
<1>3. FetchedGroups = {}
  BY DEF FetcherInit, FetchedGroups
<1>4. fetched \in [FetchedGroups -> Versions] /\ DOMAIN fetched = {}
  BY <1>3 DEF FetcherInit, NoSheets
<1>5. position \in 0..(Len(ConfigGroups) + 1)
  BY GroupsByPosition DEF FetcherInit
<1>6. \A g \in Groups : current[g] =< published[g]
  BY <1>2 DEF FetcherInit, Versions
<1> QED BY <1>2, <1>4, <1>5, <1>6, FetcherParts

(* Every step of the fetcher keeps its invariant. *)
LEMMA FetcherStep ==
    ASSUME FInv, [FetcherNext]_fetcherVars
    PROVE  FInv'
<1> USE FetcherTypes
<1>1. ASSUME published' \in [Groups -> Versions],
             current' \in [Groups -> Versions],
             position' \in 0..(Len(ConfigGroups) + 1),
             fetched' \in [FetchedGroups' -> Versions],
             \A g \in Groups : current'[g] =< published'[g],
             \A g \in DOMAIN fetched' : current'[g] =< fetched'[g] /\ fetched'[g] =< published'[g]
      PROVE  FInv'
  <2>1. FetcherTypeOK'
    BY <1>1 DEF FetcherTypeOK, FetchedGroups
  <2> QED BY <1>1, <2>1 DEF FInv, SheetsOrdered
<1>2. ASSUME position' = 0, fetched' = NoSheets
      PROVE  fetched' \in [FetchedGroups' -> Versions] /\ DOMAIN fetched' = {}
  <2>1. FetchedGroups' = {}
    BY <1>2 DEF FetchedGroups
  <2> QED BY <1>2, <2>1 DEF NoSheets
<1>3. ASSUME NEW g \in Groups, Publish(g)
      PROVE  FInv'
  <2>1. published' \in [Groups -> Versions]
    BY <1>3 DEF Publish, Versions
  <2>2. \A h \in Groups : published'[h] \in Nat
    BY <2>1 DEF Versions
  <2>3. \A h \in Groups : published[h] =< published'[h]
    BY <1>3 DEF Publish
  <2>4. \A h \in Groups : current[h] =< published'[h]
    BY <2>2, <2>3
  <2>5. \A h \in DOMAIN fetched : fetched[h] =< published'[h]
    BY <2>2, <2>3
  <2>6. FetchedGroups' = FetchedGroups
    BY <1>3 DEF Publish, FetchedGroups
  <2> QED BY <1>1, <1>3, <2>1, <2>4, <2>5, <2>6 DEF Publish
<1>4. CASE ReloadTick
  <2>1. FetchedGroups' = {}
    BY <1>4 DEF ReloadTick, FetchedGroups
  <2>2. fetched' \in [FetchedGroups' -> Versions] /\ DOMAIN fetched' = {}
    BY <1>4, <2>1 DEF ReloadTick, NoSheets
  <2> QED BY <1>1, <1>4, <2>2 DEF ReloadTick
<1>5. CASE FetchGroup
  <2>1. PICK g \in Groups : g = ConfigGroups[position] /\ position \in 1..Len(ConfigGroups)
    BY <1>5, GroupsByPosition DEF FetchGroup
  <2>2. /\ DOMAIN fetched' = DOMAIN fetched \cup {g}
        /\ fetched' = [h \in DOMAIN fetched' |-> fetched'[h]]
        /\ fetched'[g] = published[g]
        /\ \A h \in DOMAIN fetched \ {g} : fetched'[h] = fetched[h]
        /\ position' = position + 1 /\ UNCHANGED <<published, current>>
    BY <1>5, <2>1 DEF FetchGroup
  <2>3. FetchedGroups' = FetchedGroups \cup {g}
    <3>1. 1..(position' - 1) = 1..(position - 1) \cup {position}
      <4>1. position \in Nat \ {0} /\ position' - 1 = position
        BY <2>1, <2>2
      <4> QED BY <4>1
    <3>2. \A x : x \in FetchedGroups' <=> \E i \in 1..(position' - 1) : x = ConfigGroups[i]
      BY DEF FetchedGroups
    <3>3. \A x : x \in FetchedGroups <=> \E i \in 1..(position - 1) : x = ConfigGroups[i]
      BY DEF FetchedGroups
    <3>4. \A x : x \in FetchedGroups' <=> x \in FetchedGroups \cup {g}
      BY <2>1, <3>1, <3>2, <3>3
    <3> QED BY <3>4
  <2>4. \A h \in DOMAIN fetched' : fetched'[h] \in Versions
    BY <2>2
  <2>5. fetched' \in [FetchedGroups' -> Versions]
    BY <2>2, <2>3, <2>4
  <2>6. \A h \in DOMAIN fetched' : current'[h] =< fetched'[h] /\ fetched'[h] =< published'[h]
    <3> TAKE h \in DOMAIN fetched'
    <3>1. CASE h = g
      BY <2>2, <3>1
    <3>2. CASE h # g
      BY <2>2, <3>2
    <3> QED BY <3>1, <3>2
  <2> QED BY <1>1, <2>1, <2>2, <2>5, <2>6
<1>6. CASE FetchFails
  BY <1>1, <1>2, <1>6 DEF FetchFails
<1>7. CASE Swap
  <2>1. FetchedGroups = Groups
    BY <1>7, GroupsByPosition DEF Swap, FetchedGroups
  <2> QED BY <1>1, <1>2, <1>7, <2>1 DEF Swap
<1>8. CASE UNCHANGED fetcherVars
  <2>1. FetchedGroups' = FetchedGroups
    BY <1>8 DEF fetcherVars, FetchedGroups
  <2> QED BY <1>1, <1>8, <2>1 DEF fetcherVars
<1> QED BY <1>3, <1>4, <1>5, <1>6, <1>7, <1>8 DEF FetcherNext

(* A step of the fetcher takes no sheet away and brings no older one back. *)
LEMMA SheetsKeptStep ==
    ASSUME FInv, [FetcherNext]_fetcherVars, NEW g \in Groups
    PROVE  HasSheet(g)' /\ GroupDeadlines(g)' >= GroupDeadlines(g)
<1>1. FInv'
  BY FetcherStep
<1>2. current[g] \in Nat
  BY FetcherTypes
<1>3. HasSheet(g)'
  BY <1>1 DEF FInv, SheetsOrdered, HasSheet
<1>4. CASE Swap
  <2>1. DOMAIN fetched = Groups
    BY <1>4, FetcherTypes, GroupsByPosition DEF Swap, FetchedGroups
  <2>2. fetched[g] \in Nat
    BY <2>1, FetcherTypes
  <2> QED BY <1>2, <1>3, <1>4, <2>1, <2>2, FetcherTypes DEF Swap, GroupDeadlines
<1>5. CASE current' = current
  BY <1>2, <1>3, <1>5 DEF GroupDeadlines
<1>6. Swap \/ current' = current
  BY DEF FetcherNext, Publish, ReloadTick, FetchGroup, FetchFails, fetcherVars
<1> QED BY <1>4, <1>5, <1>6

(* The fetcher's part of a step of the whole. *)
LEMMA FetcherPart ==
    ASSUME [WebNext]_webVars
    PROVE  [FetcherNext]_fetcherVars
  BY DEF WebNext, webVars

(* Sheets, positions and what a reload has fetched keep their types, and    *)
(* the sheets in use stay complete and in order.                            *)
LEMMA FetcherInvariance == WebSpec => []FInv
<1>1. WebInit => FInv
  BY FetcherStarts DEF WebInit
<1>2. FInv /\ [WebNext]_webVars => FInv'
  BY FetcherStep, FetcherPart
<1> QED BY <1>1, <1>2, PTL DEF WebSpec

(* Sheets, the position of a reload and what it has fetched keep their      *)
(* types: in the middle of a reload exactly the groups before its position  *)
(* have been fetched (fetcher.go:137-149).                                  *)
THEOREM FetcherTypeCorrect == WebSpec => []FetcherTypeOK
<1>1. FInv => FetcherTypeOK
  BY DEF FInv
<1> QED BY <1>1, FetcherInvariance, PTL

(* No reload, whatever fails in it, takes a group's sheet away or brings an *)
(* older one back (fetcher.go:137-153).                                     *)
THEOREM SheetsAreKept == WebSpec => SheetsKept
<1>1. FInv /\ [WebNext]_webVars
        => [\A g \in Groups : HasSheet(g) => HasSheet(g)' /\ GroupDeadlines(g)' >= GroupDeadlines(g)]_fetcherVars
  BY FetcherPart, SheetsKeptStep
<1> QED BY <1>1, FetcherInvariance, PTL DEF WebSpec, SheetsKept
-----------------------------------------------------------------------------
(* The pages *)

(* Whoever has a session has a configured group, and so has a home page     *)
(* that is being made.                                                      *)
GroupsKnown ==
    /\ token # NoUser => row[token].group \in Groups
    /\ \A t \in Tabs : At(t, "render") => tab[t].group \in Groups

SInv == SiteTypeOK /\ GroupsKnown

(* Giving one user's row another group. *)
LEMMA GroupUpdate ==
    ASSUME SiteTypeOK, NEW u \in Users, NEW g \in RequestedGroups
    PROVE  LET r == [row EXCEPT ![u].group = g] IN
           /\ r \in [Users -> Row]
           /\ r[u].group = g /\ r[u].linked = row[u].linked /\ r[u].telegram = row[u].telegram
           /\ \A v \in Users \ {u} : r[v] = row[v]
<1>1. row \in [Users -> Row] /\ row[u] \in Row
  BY DEF SiteTypeOK
<1>2. [row[u] EXCEPT !.group = g] \in Row
  BY <1>1 DEF Row
<1> QED BY <1>1, <1>2 DEF Row

(* Linking one user's row to an account or to a chat. *)
LEMMA RowUpdates ==
    ASSUME SiteTypeOK, NEW u \in Users
    PROVE  /\ row[u] \in Row
           /\ LET r == [row EXCEPT ![u].linked = TRUE] IN
                /\ r \in [Users -> Row]
                /\ r[u].group = row[u].group /\ r[u].linked /\ r[u].telegram = row[u].telegram
                /\ \A v \in Users \ {u} : r[v] = row[v]
           /\ LET r == [row EXCEPT ![u].telegram = TRUE] IN
                /\ r \in [Users -> Row]
                /\ r[u].group = row[u].group /\ r[u].linked = row[u].linked
                /\ \A v \in Users \ {u} : r[v] = row[v]
<1>1. row \in [Users -> Row] /\ row[u] \in Row
  BY DEF SiteTypeOK
<1>2. /\ [row[u] EXCEPT !.linked = TRUE] \in Row
      /\ [row[u] EXCEPT !.telegram = TRUE] \in Row
  BY <1>1 DEF Row
<1> QED BY <1>1, <1>2 DEF Row

(* Nobody is signed up, and no tab shows more than a page. *)
LEMMA SiteStarts ==
    ASSUME WebInit
    PROVE  SInv
  BY DEF WebInit, SInv, SiteTypeOK, GroupsKnown, Row, Shown, At

(* A tab that goes anywhere but to the home page's making. *)
LEMMA TabGoes ==
    ASSUME SInv, NEW t \in Tabs, NEW place \in (Routes \cup Shown) \ {"render"},
           Goes(t, place)
    PROVE  /\ tab' \in [Tabs -> [at: Routes \cup Shown, group: RequestedGroups \cup {NoGroup}]]
           /\ \A q \in Tabs : At(q, "render")' => tab'[q].group \in Groups
<1>1. /\ tab'[t] = [at |-> place, group |-> NoGroup]
      /\ \A q \in Tabs \ {t} : tab'[q] = tab[q]
  BY DEF Goes, SInv, SiteTypeOK
<1>2. tab' \in [Tabs -> [at: Routes \cup Shown, group: RequestedGroups \cup {NoGroup}]]
  BY DEF Goes, SInv, SiteTypeOK
<1>3. \A q \in Tabs : At(q, "render")' => tab'[q].group \in Groups
  BY <1>1 DEF SInv, GroupsKnown, At
<1> QED BY <1>2, <1>3

(* The users of a session, and what the table says about them, after a step *)
(* that changes neither. *)
LEMMA UsersStay ==
    ASSUME SInv, UNCHANGED row, token' \in {token, NoUser}
    PROVE  /\ row' \in [Users -> Row]
           /\ \A u \in Users : /\ row'[u].telegram => row'[u].linked
                              /\ row'[u].linked => row'[u].group \in Groups
           /\ token' \in Users \cup {NoUser}
           /\ token' # NoUser => row'[token'].group \in Groups
  BY DEF SInv, SiteTypeOK, GroupsKnown

(* The invariant after a step, from its parts. *)
LEMMA SiteParts ==
    ASSUME row' \in [Users -> Row],
           \A u \in Users : /\ row'[u].telegram => row'[u].linked
                           /\ row'[u].linked => row'[u].group \in Groups,
           token' \in Users \cup {NoUser},
           token' # NoUser => row'[token'].group \in Groups,
           oauth' \in Tabs \cup {NoTab},
           tab' \in [Tabs -> [at: Routes \cup Shown, group: RequestedGroups \cup {NoGroup}]],
           \A q \in Tabs : At(q, "render")' => tab'[q].group \in Groups
    PROVE  SInv'
  BY DEF SInv, SiteTypeOK, GroupsKnown

(* A tab goes on while no row changes and nobody gets a session. *)
LEMMA TabMoves ==
    ASSUME SInv, NEW t \in Tabs, NEW place \in (Routes \cup Shown) \ {"render"},
           Goes(t, place), UNCHANGED row, token' \in {token, NoUser},
           oauth' \in Tabs \cup {NoTab}
    PROVE  SInv'
  BY TabGoes, UsersStay, SiteParts

(* A redirect by validateSession. *)
LEMMA RedirectStep ==
    ASSUME SInv, NEW t \in Tabs, NEW verify \in BOOLEAN, Redirected(t, verify)
    PROVE  SInv'
<1>1. ValidateSession(verify) \in (Routes \cup Shown) \ {"render"}
  BY DEF Redirected, ValidateSession, Routes, Shown
<1>2. oauth' \in Tabs \cup {NoTab} /\ UNCHANGED <<row, token>> /\ Goes(t, ValidateSession(verify))
  BY DEF Redirected, SInv, SiteTypeOK
<1> QED BY <1>1, <1>2, TabMoves

(* A handler past the check works for a linked user of a known group. *)
LEMMA HandlerFacts ==
    ASSUME SInv, NEW verify, ValidateSession(verify) = "handler"
    PROVE  /\ token \in Users /\ row[token].linked /\ row[token].group \in Groups
           /\ row[token].group \in RequestedGroups
<1>1. token # NoUser
  BY DEF ValidateSession
<1>2. token \in Users
  BY <1>1 DEF SInv, SiteTypeOK
<1>3. row[token].linked
  BY <1>1 DEF ValidateSession
<1> QED BY <1>2, <1>3 DEF SInv, SiteTypeOK

(* The session is cleared and the signup page shown, whatever else has      *)
(* become of the user's row.                                                *)
LEMMA SignupStep ==
    ASSUME SInv, NEW t \in Tabs, RedirectToSignup(t),
           row' \in [Users -> Row],
           \A u \in Users : /\ row'[u].telegram => row'[u].linked
                           /\ row'[u].linked => row'[u].group \in Groups
    PROVE  SInv'
<1>1. /\ token' = NoUser /\ oauth' \in Tabs \cup {NoTab} /\ Goes(t, "page")
      /\ "page" \in (Routes \cup Shown) \ {"render"}
  BY DEF RedirectToSignup, SInv, SiteTypeOK, Shown
<1> QED BY <1>1, TabGoes, SiteParts

(* The signup form puts the user in a configured group before a session of  *)
(* theirs begins (login.go: signup).                                        *)
LEMMA SignupFormStep ==
    ASSUME SInv, NEW t \in Tabs, NEW u \in Users, NEW g \in Groups, SignupForm(t, u, g)
    PROVE  SInv'
<1>1. CASE UNCHANGED row /\ RedirectToSignup(t)
  BY <1>1, SignupStep DEF SInv, SiteTypeOK
<1>2. CASE /\ ~row[u].linked
           /\ row' = [row EXCEPT ![u].group = g]
           /\ \/ token' = u /\ Goes(t, "login") /\ UNCHANGED oauth
              \/ RedirectToSignup(t)
  <2>1. SiteTypeOK /\ g \in RequestedGroups /\ row' = [row EXCEPT ![u].group = g]
    BY <1>2 DEF SInv
  <2>2. /\ row' \in [Users -> Row]
        /\ row'[u].group = g /\ row'[u].linked = row[u].linked /\ row'[u].telegram = row[u].telegram
        /\ \A v \in Users \ {u} : row'[v] = row[v]
    BY <2>1, GroupUpdate
  <2>3. \A v \in Users : /\ row'[v].telegram => row'[v].linked
                        /\ row'[v].linked => row'[v].group \in Groups
    BY <1>2, <2>1, <2>2 DEF SiteTypeOK
  <2>4. CASE RedirectToSignup(t)
    BY <2>2, <2>3, <2>4, SignupStep
  <2>5. CASE token' = u /\ Goes(t, "login") /\ UNCHANGED oauth
    <3>1. /\ "login" \in (Routes \cup Shown) \ {"render"}
          /\ oauth' \in Tabs \cup {NoTab}
          /\ token' \in Users /\ row'[token'].group \in Groups
      BY <2>1, <2>2, <2>5 DEF Routes, SiteTypeOK
    <3> QED BY <2>2, <2>3, <2>5, <3>1, TabGoes, SiteParts
  <2> QED BY <1>2, <2>4, <2>5
<1> QED BY <1>1, <1>2 DEF SignupForm

(* The home page is made for the group of a linked user, read at the check. *)
LEMMA HomeStep ==
    ASSUME SInv, NEW t \in Tabs, Home(t)
    PROVE  SInv'
<1>1. CASE Redirected(t, TRUE)
  BY <1>1, RedirectStep
<1>2. CASE /\ ValidateSession(TRUE) = "handler"
           /\ tab' = [tab EXCEPT ![t] = [at |-> "render", group |-> row[token].group]]
           /\ UNCHANGED <<row, token, oauth>>
  <2>1. row[token].group \in Groups /\ row[token].group \in RequestedGroups
    BY <1>2, HandlerFacts
  <2>2. "render" \in Routes
    BY DEF Routes
  <2>3. /\ tab'[t] = [at |-> "render", group |-> row[token].group]
        /\ \A q \in Tabs \ {t} : tab'[q] = tab[q]
    BY <1>2 DEF SInv, SiteTypeOK
  <2>4. tab' \in [Tabs -> [at: Routes \cup Shown, group: RequestedGroups \cup {NoGroup}]]
    BY <1>2, <2>1, <2>2 DEF SInv, SiteTypeOK
  <2>5. \A q \in Tabs : At(q, "render")' => tab'[q].group \in Groups
    BY <2>1, <2>3 DEF SInv, GroupsKnown, At
  <2>6. oauth' \in Tabs \cup {NoTab} /\ token' \in {token, NoUser} /\ UNCHANGED row
    BY <1>2 DEF SInv, SiteTypeOK
  <2> QED BY <2>4, <2>5, <2>6, UsersStay, SiteParts
<1> QED BY <1>1, <1>2 DEF Home

(* RenderHomePage ends at the page or fails; neither needs a group. *)
LEMMA RenderStep ==
    ASSUME SInv, NEW t \in Tabs, RenderHomePage(t)
    PROVE  SInv'
<1>1. PICK place \in {"page", "failed"} : Goes(t, place)
  BY DEF RenderHomePage
<1>2. place \in (Routes \cup Shown) \ {"render"}
  BY DEF Shown
<1>3. UNCHANGED <<row, token>> /\ oauth' \in Tabs \cup {NoTab}
  BY DEF RenderHomePage, SInv, SiteTypeOK
<1> QED BY <1>1, <1>2, <1>3, TabMoves

(* The Telegram id is stored for a user who has a GitLab account already.   *)
LEMMA TelegramCallbackStep ==
    ASSUME SInv, NEW t \in Tabs, TelegramCallback(t)
    PROVE  SInv'
<1>1. CASE Redirected(t, FALSE)
  BY <1>1, RedirectStep
<1>2. ASSUME ~Redirected(t, FALSE)
      PROVE  /\ ValidateSession(FALSE) = "handler"
             /\ \/ row' = [row EXCEPT ![token].telegram = TRUE]
                \/ UNCHANGED row
             /\ \E place \in {"home", "telegramLogin"} : Goes(t, place)
             /\ UNCHANGED <<token, oauth>>
  BY <1>2 DEF TelegramCallback
<1>3. CASE ~Redirected(t, FALSE)
  <2>1. PICK place \in {"home", "telegramLogin"} : Goes(t, place)
    BY <1>2, <1>3
  <2>2. place \in (Routes \cup Shown) \ {"render"}
    BY DEF Routes
  <2>3. oauth' \in Tabs \cup {NoTab} /\ token' = token
    BY <1>2, <1>3 DEF SInv, SiteTypeOK
  <2>4. CASE UNCHANGED row
    BY <2>1, <2>2, <2>3, <2>4, TabMoves
  <2>5. CASE row' = [row EXCEPT ![token].telegram = TRUE]
    <3>1. /\ token \in Users /\ row[token].linked /\ row[token].group \in Groups
          /\ row[token].group \in RequestedGroups
      BY <1>2, <1>3, HandlerFacts
    <3>2. /\ row' \in [Users -> Row]
          /\ row'[token].group = row[token].group /\ row'[token].linked = row[token].linked
          /\ \A v \in Users \ {token} : row'[v] = row[v]
      BY <2>5, <3>1, RowUpdates DEF SInv
    <3>3. \A v \in Users : /\ row'[v].telegram => row'[v].linked
                          /\ row'[v].linked => row'[v].group \in Groups
      BY <3>1, <3>2 DEF SInv, SiteTypeOK
    <3>4. token' \in Users /\ row'[token'].group \in Groups
      BY <2>3, <3>1, <3>2
    <3> QED BY <2>1, <2>2, <2>3, <3>2, <3>3, <3>4, TabGoes, SiteParts
  <2> QED BY <1>2, <1>3, <2>4, <2>5
<1> QED BY <1>1, <1>3

(* The account is linked to the session's user, who has a group since the   *)
(* signup form; or to nobody, and the account's owner gets the session.     *)
LEMMA OauthStep ==
    ASSUME SInv, NEW t \in Tabs, Oauth(t)
    PROVE  SInv'
<1>1. CASE RedirectToSignup(t) /\ UNCHANGED row
  BY <1>1, SignupStep DEF SInv, SiteTypeOK
<1>2. ASSUME NEW u \in Users,
             u = token \/ (token = NoUser /\ row[u].linked),
             row' = [row EXCEPT ![u].linked = TRUE],
             \/ token' = u /\ Goes(t, "home") /\ UNCHANGED oauth
             \/ RedirectToSignup(t)
      PROVE  SInv'
  <2>1. row[u].group \in Groups /\ row[u].group \in RequestedGroups
    BY <1>2 DEF SInv, SiteTypeOK, GroupsKnown
  <2>2. /\ row' \in [Users -> Row]
        /\ row'[u].group = row[u].group /\ row'[u].linked
        /\ \A v \in Users \ {u} : row'[v] = row[v]
    BY <1>2, <2>1, RowUpdates DEF SInv
  <2>3. \A v \in Users : /\ row'[v].telegram => row'[v].linked
                        /\ row'[v].linked => row'[v].group \in Groups
    BY <2>1, <2>2 DEF SInv, SiteTypeOK
  <2>4. CASE RedirectToSignup(t)
    BY <2>2, <2>3, <2>4, SignupStep
  <2>5. CASE token' = u /\ Goes(t, "home") /\ UNCHANGED oauth
    <3>1. /\ "home" \in (Routes \cup Shown) \ {"render"}
          /\ oauth' \in Tabs \cup {NoTab}
          /\ token' \in Users /\ row'[token'].group \in Groups
      BY <2>1, <2>2, <2>5 DEF Routes, SInv, SiteTypeOK
    <3> QED BY <2>2, <2>3, <2>5, <3>1, TabGoes, SiteParts
  <2> QED BY <1>2, <2>4, <2>5
<1> QED BY <1>1, <1>2 DEF Oauth

(* changeGroup takes a configured group only. *)
LEMMA ChangeGroupStep ==
    ASSUME SInv, NEW u \in Users, NEW g \in RequestedGroups, ChangeGroup(u, g)
    PROVE  SInv'
<1>1. g \in Groups /\ UNCHANGED <<token, oauth, tab>>
  BY DEF ChangeGroup
<1>2. /\ row' \in [Users -> Row]
      /\ row'[u].group = g /\ row'[u].linked = row[u].linked /\ row'[u].telegram = row[u].telegram
      /\ \A v \in Users \ {u} : row'[v] = row[v]
  <2>1. SiteTypeOK /\ row' = [row EXCEPT ![u].group = g]
    BY DEF ChangeGroup, SInv
  <2> QED BY <2>1, GroupUpdate
<1>3. \A v \in Users : /\ row'[v].telegram => row'[v].linked
                      /\ row'[v].linked => row'[v].group \in Groups
  BY <1>1, <1>2 DEF SInv, SiteTypeOK
<1>4. token' \in Users \cup {NoUser} /\ (token' # NoUser => row'[token'].group \in Groups)
  BY <1>1, <1>2 DEF SInv, SiteTypeOK, GroupsKnown
<1>5. /\ oauth' \in Tabs \cup {NoTab}
      /\ tab' \in [Tabs -> [at: Routes \cup Shown, group: RequestedGroups \cup {NoGroup}]]
      /\ \A q \in Tabs : At(q, "render")' => tab'[q].group \in Groups
  BY <1>1 DEF SInv, SiteTypeOK, GroupsKnown, At
<1> QED BY <1>2, <1>3, <1>4, <1>5, SiteParts

(* Every request of a browser, and every move by the staff, keeps the       *)
(* pages' invariant.                                                        *)
LEMMA SiteStep ==
    ASSUME SInv, SiteNext
    PROVE  SInv'
<1>1. ASSUME NEW t \in Tabs, Visit(t) \/ Confirm(t) \/ SessionFails(t)
      PROVE  SInv'
  <2>1. PICK place \in {"home", "login", "telegramCallback", "page"} : Goes(t, place)
    BY <1>1 DEF Visit, Confirm, SessionFails
  <2>2. place \in (Routes \cup Shown) \ {"render"}
    BY DEF Routes, Shown
  <2>3. UNCHANGED <<row, token, oauth>>
    BY <1>1 DEF Visit, Confirm, SessionFails
  <2> QED BY <2>1, <2>2, <2>3, TabMoves DEF SInv, SiteTypeOK
<1>2. ASSUME NEW t \in Tabs, Logout(t)
      PROVE  SInv'
  BY <1>2, SignupStep DEF Logout, SInv, SiteTypeOK
<1>3. ASSUME NEW t \in Tabs, TelegramLogin(t)
      PROVE  SInv'
  <2>1. CASE Redirected(t, FALSE)
    BY <2>1, RedirectStep
  <2>2. CASE Goes(t, "telegramPage") /\ UNCHANGED <<row, token, oauth>>
    <3>1. "telegramPage" \in (Routes \cup Shown) \ {"render"}
      BY DEF Shown
    <3> QED BY <2>2, <3>1, TabMoves DEF SInv, SiteTypeOK
  <2> QED BY <1>3, <2>1, <2>2 DEF TelegramLogin
<1>4. ASSUME NEW t \in Tabs, Login(t)
      PROVE  SInv'
  <2>1. "oauth" \in (Routes \cup Shown) \ {"render"}
    BY DEF Routes
  <2> QED BY <1>4, <2>1, TabMoves DEF Login
<1>5. ASSUME NEW t \in Tabs, Serve(t)
      PROVE  SInv'
  BY <1>3, <1>4, <1>5, HomeStep, RenderStep, TelegramCallbackStep, OauthStep DEF Serve
<1> QED BY <1>1, <1>2, <1>5, SignupFormStep, ChangeGroupStep DEF SiteNext

(* The pages keep their invariant, whatever the fetcher does beside them. *)
LEMMA SiteInvariance == WebSpec => []SInv
<1>1. WebInit => SInv
  BY SiteStarts
<1>2. SInv /\ [WebNext]_webVars => SInv'
  <2> SUFFICES ASSUME SInv, [WebNext]_webVars
               PROVE  SInv'
    OBVIOUS
  <2>1. CASE SiteNext
    BY <2>1, SiteStep
  <2>2. CASE UNCHANGED siteVars
    BY <2>2 DEF siteVars, SInv, SiteTypeOK, GroupsKnown, At
  <2> QED BY <2>1, <2>2 DEF WebNext, webVars
<1> QED BY <1>1, <1>2, PTL DEF WebSpec

(* Only who has a GitLab account gets a Telegram id, and only who is in a   *)
(* configured group gets either (login.go:275-394, api.go:226-237).         *)
THEOREM SiteTypeCorrect == WebSpec => []SiteTypeOK
<1>1. SInv => SiteTypeOK
  BY DEF SInv
<1> QED BY <1>1, SiteInvariance, PTL

(* The home page never fails for want of a sheet, for any number of tabs    *)
(* and students and whatever the staff and the fetcher do between reading   *)
(* the group and reading the sheet: the group was a configured one, and the *)
(* sheets in use are complete whatever a reload is doing (render.go:105-108,*)
(* scorer.go:231-234, api.go:226-237, fetcher.go:137-153).                  *)
THEOREM HomePageHasSheet == WebSpec => []HomeHasSheet
<1>1. SInv /\ FInv => HomeHasSheet
  BY DEF SInv, FInv, GroupsKnown, SheetsOrdered, HasSheet, HomeHasSheet
<1> QED BY <1>1, SiteInvariance, FetcherInvariance, PTL
=============================================================================
