---------------------------- MODULE DeadlinesFetcher ----------------------------
(***************************************************************************)
(* internal/deadlines/fetcher.go: the deadlines sheets of all groups, kept  *)
(* in memory behind one atomic pointer and reloaded at an interval.         *)
(*                                                                          *)
(* A sheet is the number of its publication.  Parsing is left out: a sheet  *)
(* that does not parse is a fetch that fails.                               *)
(***************************************************************************)
EXTENDS Naturals, Sequences, Functions

CONSTANTS
    ConfigGroups,   \* the groups of the configuration, in its order
    MaxVersion      \* bound: publications of a group's sheet

Groups == Range(ConfigGroups)
Versions == 1..MaxVersion

ASSUME FetcherAssumption ==
    /\ ConfigGroups \in Seq(Groups) /\ ConfigGroups # <<>>
    /\ MaxVersion \in Nat \ {0}

VARIABLES
    published,   \* the sheet behind every group's URL
    current,     \* Fetcher.current: the sheets in use, by group
    position,    \* the group reload is at; 0 when it is not running
    fetched      \* reload's groupDeadlines

fetcherVars == <<published, current, position, fetched>>

FetcherTypeOK ==
    /\ published \in [Groups -> Versions]
    /\ \E S \in SUBSET Groups : current \in [S -> Versions]
    /\ position \in 0..(Len(ConfigGroups) + 1)
    /\ fetched \in [{ConfigGroups[i] : i \in 1..(position - 1)} -> Versions]

NoSheets == [g \in {} |-> 0]

(* NewFetcher has reloaded once; the process does not start otherwise. *)
FetcherInit ==
    /\ published = [g \in Groups |-> 1]
    /\ current = published
    /\ position = 0
    /\ fetched = NoSheets

(* The staff publish a new sheet. *)
Publish(g) ==
    /\ published[g] < MaxVersion
    /\ published' = [published EXCEPT ![g] = @ + 1]
    /\ UNCHANGED <<current, position, fetched>>

(* The ticker of Run fires. *)
ReloadTick ==
    /\ position = 0
    /\ position' = 1
    /\ fetched' = NoSheets
    /\ UNCHANGED <<published, current>>

FetchGroup ==
    /\ position \in DOMAIN ConfigGroups
    /\ LET g == ConfigGroups[position] IN
         fetched' = [h \in DOMAIN fetched \cup {g} |-> IF h = g THEN published[g] ELSE fetched[h]]
    /\ position' = position + 1
    /\ UNCHANGED <<published, current>>

(* Mutant: what was fetched before the failure is put to use. *)
FetchFailsSwaps ==
    /\ position \in DOMAIN ConfigGroups
    /\ position' = 0
    /\ fetched' = NoSheets
    /\ current' = fetched
    /\ UNCHANGED published

(* Mutant: the group is skipped and the round goes on. *)
FetchFailsSkips ==
    /\ position \in DOMAIN ConfigGroups
    /\ position' = position + 1
    /\ UNCHANGED <<published, current, fetched>>

(* One group's sheet cannot be fetched or parsed: the whole round is given  *)
(* up.                                                                      *)
FetchFails ==
    /\ position \in DOMAIN ConfigGroups
    /\ position' = 0
    /\ fetched' = NoSheets
    /\ UNCHANGED <<published, current>>

(* Mutant: the sheets are compared by the first group's alone. *)
SwapIfFirstDiffers ==
    /\ position = Len(ConfigGroups) + 1
    /\ current' = IF fetched[ConfigGroups[1]] = current[ConfigGroups[1]] THEN current ELSE fetched
    /\ position' = 0
    /\ fetched' = NoSheets
    /\ UNCHANGED published

Swap ==
    /\ position = Len(ConfigGroups) + 1
    /\ current' = fetched
    /\ position' = 0
    /\ fetched' = NoSheets
    /\ UNCHANGED published

FetcherNext ==
    \/ \E g \in Groups : Publish(g)
    \/ ReloadTick
    \/ FetchGroup
    \/ FetchFails
    \/ Swap

FetcherSpec == FetcherInit /\ [][FetcherNext]_fetcherVars
-----------------------------------------------------------------------------
(* What GroupDeadlines and AnyGroupHasTask return *)

HasSheet(g) == g \in DOMAIN current
GroupDeadlines(g) == current[g]

(* A reload that fails half-way takes no group's sheet away and brings no   *)
(* older one back (fetcher.go:137-153): GroupDeadlines never turns nil,     *)
(* which the home page would not survive (render.go:107-108).               *)
SheetsKept ==
    [][\A g \in Groups : HasSheet(g) => HasSheet(g)' /\ GroupDeadlines(g)' >= GroupDeadlines(g)
      ]_fetcherVars

(* A sheet that stays published comes into use, for every group, although   *)
(* any group's failure gives the whole round up.                            *)
SheetsArrive ==
    \A g \in Groups : \A v \in Versions :
       (published[g] = v) ~> (current[g] = v \/ published[g] > v)
=============================================================================
