----------------------------- MODULE Crashme_proof -----------------------------
(***************************************************************************)
(* Proofs about Crashme, for any number of connections, students, flags and *)
(* tasks, every concurrency level and every budget of accept errors.        *)
(***************************************************************************)
EXTENDS Crashme, SequenceTheorems, FiniteSetTheorems, TLAPS
-----------------------------------------------------------------------------
(* Queues whose elements differ *)

(* Joining a queue one is not in. *)
LEMMA QueueJoined ==
    ASSUME NEW S, NEW s \in Seq(S), NEW c \in S, c \notin ToSet(s), IsInjective(s)
    PROVE  /\ Append(s, c) \in Seq(S) /\ Append(s, c) # <<>>
           /\ ToSet(Append(s, c)) = ToSet(s) \cup {c}
           /\ IsInjective(Append(s, c))
<1>1. /\ Append(s, c) \in Seq(S) /\ Len(s) \in Nat /\ Len(Append(s, c)) = Len(s) + 1
      /\ \A i \in 1..Len(s) : Append(s, c)[i] = s[i]
      /\ Append(s, c)[Len(s) + 1] = c
      /\ DOMAIN s = 1..Len(s) /\ DOMAIN Append(s, c) = 1..(Len(s) + 1)
  BY AppendProperties, LenProperties
<1>2. Append(s, c) # <<>>
  BY <1>1
<1>3. 1..(Len(s) + 1) = 1..Len(s) \cup {Len(s) + 1}
  BY <1>1
<1>4. ToSet(Append(s, c)) = ToSet(s) \cup {c}
  BY <1>1, <1>3 DEF ToSet
<1>5. \A i \in 1..Len(s) : s[i] # c
  BY <1>1 DEF ToSet
<1>6. IsInjective(Append(s, c))
  BY <1>1, <1>3, <1>5 DEF IsInjective
<1> QED BY <1>1, <1>2, <1>4, <1>6

(* The first leaves. *)
LEMMA QueueServed ==
    ASSUME NEW S, NEW s \in Seq(S), s # <<>>, IsInjective(s)
    PROVE  /\ Head(s) \in S /\ Head(s) \in ToSet(s)
           /\ Tail(s) \in Seq(S)
           /\ ToSet(Tail(s)) = ToSet(s) \ {Head(s)}
           /\ IsInjective(Tail(s))
<1>1. /\ Head(s) \in S /\ Head(s) = s[1] /\ Tail(s) \in Seq(S)
      /\ Len(s) \in Nat /\ Len(s) >= 1 /\ Len(Tail(s)) = Len(s) - 1
      /\ \A i \in 1..Len(Tail(s)) : Tail(s)[i] = s[i + 1]
      /\ DOMAIN s = 1..Len(s) /\ DOMAIN Tail(s) = 1..(Len(s) - 1)
  BY HeadTailProperties, LenProperties, EmptySeq
<1>2. Head(s) \in ToSet(s)
  BY <1>1 DEF ToSet
<1>3. \A i, j \in 1..Len(s) : s[i] = s[j] => i = j
  BY <1>1 DEF IsInjective
<1>4. IsInjective(Tail(s))
  BY <1>1, <1>3 DEF IsInjective
<1>5. ASSUME NEW i \in 1..(Len(s) - 1)
      PROVE  Tail(s)[i] \in ToSet(s) \ {Head(s)}
  BY <1>1, <1>3 DEF ToSet
<1>6. ASSUME NEW i \in 1..Len(s), s[i] # Head(s)
      PROVE  s[i] \in ToSet(Tail(s))
  <2>1. i - 1 \in 1..(Len(s) - 1) /\ Tail(s)[i - 1] = s[i]
    BY <1>1, <1>6
  <2> QED BY <1>1, <2>1 DEF ToSet
<1>7. ToSet(Tail(s)) = ToSet(s) \ {Head(s)}
  BY <1>1, <1>5, <1>6 DEF ToSet
<1> QED BY <1>1, <1>2, <1>4, <1>7

(* One in the middle leaves. *)
LEMMA QueueLeft ==
    ASSUME NEW S, NEW s \in Seq(S), NEW i \in DOMAIN s, IsInjective(s)
    PROVE  /\ RemoveAt(s, i) \in Seq(S)
           /\ ToSet(RemoveAt(s, i)) = ToSet(s) \ {s[i]}
           /\ IsInjective(RemoveAt(s, i))
<1>1. DOMAIN s = 1..Len(s) /\ Len(s) \in Nat /\ i \in 1..Len(s)
  BY LenProperties
<1> DEFINE r == RemoveAt(s, i)
           a == SubSeq(s, 1, i - 1)
           b == SubSeq(s, i + 1, Len(s))
<1>2. a \in Seq(S) /\ Len(a) = i - 1 /\ \A k \in 1..(i - 1) : a[k] = s[k]
  BY <1>1, SubSeqProperties
<1>3. b \in Seq(S) /\ Len(b) = Len(s) - i /\ \A k \in 1..(Len(s) - i) : b[k] = s[i + k]
  BY <1>1, SubSeqProperties
<1>4. /\ r \in Seq(S) /\ Len(r) = Len(s) - 1
      /\ \A k \in 1..(Len(s) - 1) : r[k] = IF k < i THEN s[k] ELSE s[k + 1]
  <2>1. r = a \o b
    BY DEF RemoveAt
  <2> HIDE DEF r, a, b
  <2>2. /\ r \in Seq(S) /\ Len(r) = Len(a) + Len(b)
        /\ \A k \in 1..(Len(a) + Len(b)) : r[k] = IF k =< Len(a) THEN a[k] ELSE b[k - Len(a)]
    BY <1>2, <1>3, <2>1, ConcatProperties
  <2>3. Len(r) = Len(s) - 1
    BY <1>1, <1>2, <1>3, <2>2
  <2>4. ASSUME NEW k \in 1..(Len(s) - 1)
        PROVE  r[k] = IF k < i THEN s[k] ELSE s[k + 1]
    <3>1. CASE k < i
      BY <1>1, <1>2, <1>3, <2>2, <3>1
    <3>2. CASE ~(k < i)
      <4>1. k - (i - 1) \in 1..(Len(s) - i) /\ i + (k - (i - 1)) = k + 1
        BY <1>1, <3>2
      <4>2. k \in 1..(Len(a) + Len(b)) /\ ~(k =< Len(a)) /\ k - Len(a) = k - (i - 1)
        BY <1>1, <1>2, <1>3, <3>2
      <4>3. r[k] = b[k - (i - 1)]
        BY <2>2, <4>2
      <4>4. b[k - (i - 1)] = s[k + 1]
        BY <1>3, <4>1
      <4> QED BY <3>2, <4>3, <4>4
    <3> QED BY <3>1, <3>2
  <2> QED BY <2>2, <2>3, <2>4
<1>5. DOMAIN r = 1..(Len(s) - 1)
  BY <1>4, LenProperties
<1> HIDE DEF r, a, b
<1>6. \A j, k \in 1..Len(s) : s[j] = s[k] => j = k
  BY <1>1 DEF IsInjective
<1>7. IsInjective(r)
  BY <1>1, <1>4, <1>5, <1>6 DEF IsInjective
<1>8. ASSUME NEW k \in 1..(Len(s) - 1)
      PROVE  r[k] \in ToSet(s) \ {s[i]}
  BY <1>1, <1>4, <1>6 DEF ToSet
<1>9. ASSUME NEW k \in 1..Len(s), k # i
      PROVE  s[k] \in ToSet(r)
  <2>1. CASE k < i
    BY <1>1, <1>4, <1>5, <2>1 DEF ToSet
  <2>2. CASE k > i
    <3>1. k - 1 \in 1..(Len(s) - 1) /\ r[k - 1] = s[k]
      BY <1>1, <1>4, <2>2
    <3> QED BY <1>5, <3>1 DEF ToSet
  <2> QED BY <1>1, <1>9, <2>1, <2>2
<1>10. ToSet(r) = ToSet(s) \ {s[i]}
  BY <1>1, <1>5, <1>8, <1>9 DEF ToSet
<1> QED BY <1>4, <1>7, <1>10 DEF r
-----------------------------------------------------------------------------
(* The semaphore *)

USE CrashmeAssumption, ProxyAssumption

Handler == [phase: Phase, task: Names \cup {"none"}, attempt: 0..MaxAttempts,
            flag: Flags \cup {NoFlag}]
Answer == [conn: Conns, attempt: 1..MaxAttempts, flag: Flags \cup {NoFlag}]
HoldingPhases == {"name", "running", "fetching", "posted"}

Holders == {c \in Conns : Holding(c)}
Queued == {c \in Conns : conn[c].phase = "waiting"}

(* The permits, the queue and the handlers agree, and the handlers that     *)
(* hold a permit can be counted.                                            *)
SemaphoreSound ==
    /\ conn \in [Conns -> Handler]
    /\ permits \in 0..Concurrency
    /\ waiters \in Seq(Conns)
    /\ IsFiniteSet(Holders)
    /\ PermitsAccounted

(* The parts of the invariant after a step. *)
LEMMA SemaphoreParts ==
    ASSUME conn' \in [Conns -> Handler], permits' \in 0..Concurrency, waiters' \in Seq(Conns),
           IsFiniteSet(Holders'), permits' = Cardinality(Holders'),
           ToSet(waiters') = Queued', IsInjective(waiters'),
           waiters' # <<>> => permits' = Concurrency
    PROVE  SemaphoreSound'
  BY DEF SemaphoreSound, PermitsAccounted, Holders, Queued

(* And before it. *)
LEMMA SemaphoreFacts ==
    ASSUME SemaphoreSound
    PROVE  /\ conn \in [Conns -> Handler] /\ permits \in 0..Concurrency /\ waiters \in Seq(Conns)
           /\ IsFiniteSet(Holders) /\ permits = Cardinality(Holders)
           /\ ToSet(waiters) = Queued /\ IsInjective(waiters)
           /\ waiters # <<>> => permits = Concurrency
           /\ Concurrency \in Nat \ {0}
  BY DEF SemaphoreSound, PermitsAccounted, Holders, Queued

(* Who holds and who waits after one handler has moved. *)
LEMMA PhaseMoves ==
    ASSUME NEW c \in Conns, \A d \in Conns \ {c} : conn'[d].phase = conn[d].phase
    PROVE  /\ Holders' = IF conn'[c].phase \in HoldingPhases THEN Holders \cup {c} ELSE Holders \ {c}
           /\ Queued' = IF conn'[c].phase = "waiting" THEN Queued \cup {c} ELSE Queued \ {c}
           /\ c \in Holders <=> conn[c].phase \in HoldingPhases
           /\ c \in Queued <=> conn[c].phase = "waiting"
           /\ (conn[c].phase \in HoldingPhases <=> conn'[c].phase \in HoldingPhases) => Holders' = Holders
           /\ (conn[c].phase = "waiting" <=> conn'[c].phase = "waiting") => Queued' = Queued
  BY DEF Holders, Queued, Holding, HoldingPhases

(* A handler's phase changes. *)
LEMMA PhaseUpdate ==
    ASSUME conn \in [Conns -> Handler], NEW c \in Conns, NEW phase \in Phase
    PROVE  LET h == [conn EXCEPT ![c].phase = phase] IN
           /\ h \in [Conns -> Handler]
           /\ h[c].phase = phase /\ h[c].task = conn[c].task
           /\ h[c].attempt = conn[c].attempt /\ h[c].flag = conn[c].flag
           /\ \A d \in Conns \ {c} : h[d] = conn[d]
<1>1. conn[c] \in Handler /\ [conn[c] EXCEPT !.phase = phase] \in Handler
  BY DEF Handler
<1> QED BY <1>1 DEF Handler

(* A handler moves on and neither takes nor gives back a permit. *)
LEMMA SemaphoreStays ==
    ASSUME SemaphoreSound, NEW c \in Conns, conn' \in [Conns -> Handler],
           \A d \in Conns \ {c} : conn'[d].phase = conn[d].phase,
           conn[c].phase \in HoldingPhases <=> conn'[c].phase \in HoldingPhases,
           conn[c].phase # "waiting", conn'[c].phase # "waiting",
           UNCHANGED <<permits, waiters>>
    PROVE  SemaphoreSound'
<1>1. Holders' = Holders /\ Queued' = Queued
  BY PhaseMoves
<1> QED BY <1>1, SemaphoreFacts, SemaphoreParts

(* A handler takes a free permit. *)
LEMMA PermitTaken ==
    ASSUME SemaphoreSound, NEW c \in Conns, conn' \in [Conns -> Handler],
           \A d \in Conns \ {c} : conn'[d].phase = conn[d].phase,
           conn[c].phase \notin HoldingPhases, conn[c].phase # "waiting",
           conn'[c].phase = "name", Free, permits' = permits + 1, UNCHANGED waiters
    PROVE  SemaphoreSound'
<1>1. Holders' = Holders \cup {c} /\ Queued' = Queued /\ c \notin Holders
  BY PhaseMoves DEF HoldingPhases
<1>2. IsFiniteSet(Holders') /\ Cardinality(Holders') = Cardinality(Holders) + 1
  BY <1>1, FS_AddElement, SemaphoreFacts
<1>3. permits \in 0..Concurrency /\ Concurrency \in Nat /\ permits = Cardinality(Holders)
  BY SemaphoreFacts
<1>4. permits' \in 0..Concurrency /\ waiters' = <<>> /\ permits' = Cardinality(Holders')
  BY <1>2, <1>3 DEF Free
<1> QED BY <1>1, <1>2, <1>4, SemaphoreFacts, SemaphoreParts

(* A handler queues: no permit is free, or somebody is first. *)
LEMMA HandlerQueues ==
    ASSUME SemaphoreSound, NEW c \in Conns, conn' \in [Conns -> Handler],
           \A d \in Conns \ {c} : conn'[d].phase = conn[d].phase,
           conn[c].phase \notin HoldingPhases, conn[c].phase # "waiting",
           conn'[c].phase = "waiting", ~Free, waiters' = Append(waiters, c), UNCHANGED permits
    PROVE  SemaphoreSound'
<1>0. conn'[c].phase \notin HoldingPhases
  BY DEF HoldingPhases
<1>1. Holders' = Holders /\ Queued' = Queued \cup {c} /\ c \notin Queued
  BY <1>0, PhaseMoves
<1>2. permits = Concurrency
  BY SemaphoreFacts DEF Free
<1>3. waiters' \in Seq(Conns) /\ ToSet(waiters') = Queued' /\ IsInjective(waiters')
  BY <1>1, SemaphoreFacts, QueueJoined
<1> QED BY <1>1, <1>2, <1>3, SemaphoreFacts, SemaphoreParts

(* A handler is tired of waiting. *)
LEMMA HandlerLeaves ==
    ASSUME SemaphoreSound, NEW c \in Conns, conn' \in [Conns -> Handler],
           \A d \in Conns \ {c} : conn'[d].phase = conn[d].phase,
           conn[c].phase = "waiting", conn'[c].phase = "closed",
           NEW i \in DOMAIN waiters, waiters[i] = c, waiters' = RemoveAt(waiters, i),
           UNCHANGED permits
    PROVE  SemaphoreSound'
<1>1. Holders' = Holders /\ Queued' = Queued \ {c}
  BY PhaseMoves DEF HoldingPhases
<1>2. waiters' \in Seq(Conns) /\ ToSet(waiters') = Queued' /\ IsInjective(waiters')
  BY <1>1, SemaphoreFacts, QueueLeft
<1>3. waiters # <<>>
  BY EmptySeq, SemaphoreFacts
<1> QED BY <1>1, <1>2, <1>3, SemaphoreFacts, SemaphoreParts

(* A handler returns: its permit goes to the first in the queue, or is free. *)
LEMMA HandlerCloses ==
    ASSUME SemaphoreSound, NEW c \in Conns, conn[c].phase \in HoldingPhases,
           NEW flag \in Flags \cup {NoFlag}, Close(c, flag)
    PROVE  /\ SemaphoreSound'
           /\ conn'[c].phase = "closed" /\ conn'[c].task = conn[c].task
           /\ conn'[c].flag \in {flag, NoFlag}
           /\ \A d \in Conns \ {c} :
                /\ conn'[d].task = conn[d].task /\ conn'[d].flag = conn[d].flag
                /\ \/ conn'[d] = conn[d]
                   \/ conn[d].phase = "waiting" /\ conn'[d].phase = "name"
<1> DEFINE last == IF Gone(c) THEN NoFlag ELSE flag
           closed == [conn EXCEPT ![c].phase = "closed", ![c].flag = last]
<1>1. last \in Flags \cup {NoFlag} /\ last \in {flag, NoFlag} /\ "closed" \in Phase /\ "name" \in Phase
  BY DEF Phase
<1>2. /\ IF waiters = <<>>
           THEN conn' = closed /\ permits' = permits - 1 /\ UNCHANGED waiters
           ELSE /\ conn' = [closed EXCEPT ![Head(waiters)].phase = "name"]
                /\ waiters' = Tail(waiters)
                /\ UNCHANGED permits
  BY DEF Close
<1>3. /\ closed \in [Conns -> Handler]
      /\ closed[c].phase = "closed" /\ closed[c].task = conn[c].task /\ closed[c].flag = last
      /\ \A d \in Conns \ {c} : closed[d] = conn[d]
  <2> HIDE DEF last
  <2>1. conn \in [Conns -> Handler]
    BY SemaphoreFacts
  <2>2. conn[c] \in Handler /\ [conn[c] EXCEPT !.phase = "closed", !.flag = last] \in Handler
    BY <1>1, <2>1 DEF Handler
  <2> QED BY <2>1, <2>2 DEF Handler
<1> HIDE DEF last, closed
<1>4. c \in Holders /\ c \notin Queued
  BY DEF Holders, Queued, Holding, HoldingPhases
<1>5. permits >= 1
  BY <1>4, SemaphoreFacts, FS_EmptySet
<1>6. CASE waiters = <<>>
  <2>1. conn' = closed /\ permits' = permits - 1 /\ UNCHANGED waiters
    BY <1>2, <1>6
  <2>2. conn'[c].phase \notin HoldingPhases
    BY <1>3, <2>1 DEF HoldingPhases
  <2>3. Holders' = Holders \ {c} /\ Queued' = Queued
    BY <1>3, <1>4, <2>1, <2>2, PhaseMoves
  <2>4. IsFiniteSet(Holders') /\ Cardinality(Holders') = Cardinality(Holders) - 1
    BY <1>4, <2>3, SemaphoreFacts, FS_RemoveElement
  <2>5. permits \in 0..Concurrency /\ permits = Cardinality(Holders) /\ Concurrency \in Nat
    BY SemaphoreFacts
  <2>6. permits' \in 0..Concurrency /\ permits' = Cardinality(Holders')
    BY <1>5, <2>1, <2>4, <2>5
  <2>7. SemaphoreSound'
    BY <1>3, <1>6, <2>1, <2>3, <2>4, <2>6, SemaphoreFacts, SemaphoreParts
  <2> QED BY <1>1, <1>3, <2>1, <2>7
<1>7. CASE waiters # <<>>
  <2>1. /\ conn' = [closed EXCEPT ![Head(waiters)].phase = "name"]
        /\ waiters' = Tail(waiters) /\ UNCHANGED permits
    BY <1>2, <1>7
  <2>2. PICK h \in Conns : /\ h = Head(waiters) /\ h \in Queued
                          /\ waiters' \in Seq(Conns) /\ IsInjective(waiters')
                          /\ ToSet(waiters') = Queued \ {h}
    BY <1>7, <2>1, SemaphoreFacts, QueueServed
  <2>3. h # c /\ conn[h].phase = "waiting" /\ closed[h] = conn[h] /\ h \notin Holders
    BY <1>3, <1>4, <2>2 DEF Queued, Holders, Holding
  <2>4. /\ conn' \in [Conns -> Handler]
        /\ conn'[h].phase = "name" /\ conn'[h].task = conn[h].task /\ conn'[h].flag = conn[h].flag
        /\ conn'[c] = closed[c]
        /\ \A d \in Conns \ {c, h} : conn'[d] = conn[d]
    <3>1. [closed[h] EXCEPT !.phase = "name"] \in Handler
      BY <1>1, <1>3 DEF Handler
    <3> QED BY <1>3, <2>1, <2>2, <2>3, <3>1 DEF Handler
  <2>5. Holders' = (Holders \ {c}) \cup {h}
    BY <1>3, <2>3, <2>4 DEF Holders, Holding
  <2>6. Queued' = Queued \ {h}
    BY <1>3, <1>4, <2>3, <2>4 DEF Queued
  <2>7. IsFiniteSet(Holders \ {c}) /\ Cardinality(Holders \ {c}) = Cardinality(Holders) - 1
    BY <1>4, SemaphoreFacts, FS_RemoveElement
  <2>8. IsFiniteSet(Holders') /\ Cardinality(Holders') = (Cardinality(Holders) - 1) + 1
    BY <2>3, <2>5, <2>7, FS_AddElement
  <2>9. permits' = Cardinality(Holders') /\ permits' = Concurrency /\ permits' \in 0..Concurrency
    <3>1. permits = Cardinality(Holders) /\ permits \in Nat /\ permits = Concurrency
      BY <1>7, SemaphoreFacts
    <3> QED BY <2>1, <2>8, <3>1
  <2>10. SemaphoreSound'
    BY <2>2, <2>4, <2>6, <2>8, <2>9, SemaphoreParts
  <2>11. conn'[c].phase = "closed" /\ conn'[c].task = conn[c].task /\ conn'[c].flag \in {flag, NoFlag}
    BY <1>1, <1>3, <2>4
  <2> QED BY <2>3, <2>4, <2>10, <2>11
<1> QED BY <1>6, <1>7

(* The steps at which a handler returns with its permit. *)
LEMMA ClosingSteps ==
    ASSUME SemaphoreSound, answers \subseteq Answer, NEW c \in Conns,
           \/ Refuse(c) \/ GiveUp(c) \/ Receive(c)
           \/ CommandEnded(c) /\ conn'[c].phase # "fetching"
    PROVE  /\ conn[c].phase \in HoldingPhases
           /\ \E flag \in Flags \cup {NoFlag} :
                /\ Close(c, flag)
                /\ \/ flag = NoFlag /\ UNCHANGED answers
                   \/ \E m \in answers : /\ m.conn = c /\ m.flag = flag
                                         /\ answers' = answers \ {m}
           /\ UNCHANGED <<alive, budget, posts, flags, accepted>>
<1>1. conn[c].phase \in HoldingPhases
  BY DEF Refuse, GiveUp, Receive, CommandEnded, At, HoldingPhases
<1>2. UNCHANGED <<alive, budget, posts, flags, accepted>>
  BY DEF Refuse, GiveUp, Receive, CommandEnded, flagVars
<1>3. CASE Receive(c)
  <2>1. PICK m \in answers : m.conn = c /\ answers' = answers \ {m} /\ Close(c, m.flag)
    BY <1>3 DEF Receive
  <2>2. m.flag \in Flags \cup {NoFlag}
    BY DEF Answer
  <2> QED BY <1>1, <1>2, <2>1, <2>2
<1>4. CASE Refuse(c) \/ GiveUp(c)
  BY <1>1, <1>2, <1>4 DEF Refuse, GiveUp
<1>5. CASE CommandEnded(c) /\ conn'[c].phase # "fetching"
  <2>1. conn' # [conn EXCEPT ![c].phase = "fetching"]
    <3>1. conn \in [Conns -> Handler] /\ "fetching" \in Phase
      BY SemaphoreFacts DEF Phase
    <3>2. [conn EXCEPT ![c].phase = "fetching"][c].phase = "fetching"
      BY <3>1, PhaseUpdate
    <3> QED BY <1>5, <3>2
  <2> QED BY <1>1, <1>2, <1>5, <2>1 DEF CommandEnded
<1> QED BY <1>3, <1>4, <1>5

(* The life of a handler: the phases that may follow each other while the   *)
(* task and the flag stay what they are; the task is named before the       *)
(* binary runs, and a flag is only written at the end.                      *)
Follows(from, to) ==
    \/ from = "none" /\ to \in {"new", "nil"}
    \/ from = "new" /\ to \in {"name", "acquire"}
    \/ from = "acquire" /\ to \in {"name", "waiting"}
    \/ from = "waiting" /\ to = "name"
    \/ from \in {"running", "posted"} /\ to = "fetching"
    \/ from = "fetching" /\ to = "posted"
    \/ to = "closed"

Evolves(c) ==
    \/ conn'[c] = conn[c]
    \/ /\ conn[c].phase = "name" /\ conn'[c].phase = "running"
       /\ conn'[c].task \in Names /\ conn'[c].flag = conn[c].flag
    \/ /\ Follows(conn[c].phase, conn'[c].phase)
       /\ conn'[c].task = conn[c].task
       /\ \/ conn'[c].flag = conn[c].flag
          \/ conn[c].phase \in HoldingPhases /\ conn'[c].phase = "closed"
       /\ conn[c].phase = "running" /\ conn'[c].phase = "fetching" => CommandEnded(c)

(* Every step keeps the semaphore sound and lets every handler live its life. *)
LEMMA SemaphoreStep ==
    ASSUME SemaphoreSound, answers \subseteq Answer, [Next]_vars
    PROVE  SemaphoreSound' /\ \A d \in Conns : Evolves(d)
<1>0. conn \in [Conns -> Handler]
  BY SemaphoreFacts
<1>1. ASSUME UNCHANGED <<conn, permits, waiters>>
      PROVE  SemaphoreSound' /\ \A d \in Conns : Evolves(d)
  BY <1>1 DEF SemaphoreSound, PermitsAccounted, Holders, Holding, Evolves
<1>2. ASSUME NEW c \in Conns, Accept(c) \/ AcceptFails(c), conn' # conn
      PROVE  SemaphoreSound' /\ \A d \in Conns : Evolves(d)
  <2>1. PICK phase \in {"new", "nil"} : conn' = [conn EXCEPT ![c].phase = phase]
    BY <1>2 DEF Accept, AcceptFails
  <2>2. phase \in Phase /\ phase \notin HoldingPhases /\ phase # "waiting"
    BY DEF Phase, HoldingPhases
  <2>3. conn[c].phase = "none" /\ UNCHANGED <<permits, waiters>>
    BY <1>2 DEF Accept, AcceptFails, At
  <2>4. conn[c].phase \notin HoldingPhases
    BY <2>3 DEF HoldingPhases
  <2>5. /\ conn' \in [Conns -> Handler]
        /\ conn'[c].phase = phase /\ conn'[c].task = conn[c].task /\ conn'[c].flag = conn[c].flag
        /\ \A d \in Conns \ {c} : conn'[d] = conn[d]
    BY <1>0, <2>1, <2>2, PhaseUpdate
  <2>6. SemaphoreSound'
    BY <2>2, <2>3, <2>4, <2>5, SemaphoreStays
  <2>7. \A d \in Conns : Evolves(d)
    BY <2>3, <2>5 DEF Evolves, Follows
  <2> QED BY <2>6, <2>7
<1>3. ASSUME NEW c \in Conns, TryAcquire(c) \/ Acquire(c)
      PROVE  SemaphoreSound' /\ \A d \in Conns : Evolves(d)
  <2>1. PICK phase : /\ conn' = [conn EXCEPT ![c].phase = phase]
                     /\ phase = IF Free THEN "name" ELSE
                                IF conn[c].phase = "new" THEN "acquire" ELSE "waiting"
    BY <1>3 DEF TryAcquire, Acquire, At
  <2>2. phase \in Phase
    BY <2>1 DEF Phase
  <2>3. /\ conn' \in [Conns -> Handler]
        /\ conn'[c].phase = phase /\ conn'[c].task = conn[c].task /\ conn'[c].flag = conn[c].flag
        /\ \A d \in Conns \ {c} : conn'[d] = conn[d]
    BY <1>0, <2>1, <2>2, PhaseUpdate
  <2>4. conn[c].phase \notin HoldingPhases /\ conn[c].phase # "waiting"
    BY <1>3 DEF TryAcquire, Acquire, At, HoldingPhases
  <2>5. ASSUME Free
        PROVE  SemaphoreSound'
    <3>1. conn'[c].phase = "name" /\ permits' = permits + 1 /\ UNCHANGED waiters
      BY <1>3, <2>1, <2>3, <2>5 DEF TryAcquire, Acquire
    <3> QED BY <2>3, <2>4, <2>5, <3>1, PermitTaken
  <2>6. ASSUME ~Free, conn[c].phase = "new"
        PROVE  SemaphoreSound'
    <3>1. conn'[c].phase = "acquire" /\ UNCHANGED <<permits, waiters>>
      BY <1>3, <2>1, <2>3, <2>6 DEF TryAcquire, Acquire, At
    <3>2. conn'[c].phase \notin HoldingPhases /\ conn'[c].phase # "waiting"
      BY <3>1 DEF HoldingPhases
    <3> QED BY <2>3, <2>4, <3>1, <3>2, SemaphoreStays
  <2>7. ASSUME ~Free, conn[c].phase # "new"
        PROVE  SemaphoreSound'
    <3>1. conn'[c].phase = "waiting" /\ UNCHANGED permits /\ waiters' = Append(waiters, c)
      BY <1>3, <2>1, <2>3, <2>7 DEF TryAcquire, Acquire, At
    <3> QED BY <2>3, <2>4, <2>7, <3>1, HandlerQueues
  <2>8. Follows(conn[c].phase, conn'[c].phase)
    BY <1>3, <2>1, <2>3 DEF TryAcquire, Acquire, At, Follows
  <2>9. \A d \in Conns : Evolves(d)
    <3>1. conn[c].phase # "running"
      BY <2>4 DEF HoldingPhases
    <3> QED BY <2>3, <2>8, <3>1 DEF Evolves
  <2> QED BY <2>5, <2>6, <2>7, <2>9
<1>4. ASSUME NEW c \in Conns, WaitTimeout(c)
      PROVE  SemaphoreSound' /\ \A d \in Conns : Evolves(d)
  <2>1. /\ conn[c].phase = "waiting" /\ UNCHANGED permits
        /\ conn' = [conn EXCEPT ![c].phase = "closed"]
    BY <1>4 DEF WaitTimeout, At
  <2>2. /\ conn' \in [Conns -> Handler]
        /\ conn'[c].phase = "closed" /\ conn'[c].task = conn[c].task /\ conn'[c].flag = conn[c].flag
        /\ \A d \in Conns \ {c} : conn'[d] = conn[d]
    <3>1. "closed" \in Phase
      BY DEF Phase
    <3> QED BY <1>0, <2>1, <3>1, PhaseUpdate
  <2>3. PICK i \in DOMAIN waiters : waiters[i] = c /\ waiters' = RemoveAt(waiters, i)
    BY <1>4 DEF WaitTimeout
  <2>4. SemaphoreSound'
    BY <2>1, <2>2, <2>3, HandlerLeaves
  <2>5. \A d \in Conns : Evolves(d)
    BY <2>2 DEF Evolves, Follows
  <2> QED BY <2>4, <2>5
<1>5. ASSUME NEW c \in Conns, NEW name \in Names, StartTask(c, name)
      PROVE  SemaphoreSound' /\ \A d \in Conns : Evolves(d)
  <2>1. /\ conn[c].phase = "name" /\ UNCHANGED <<permits, waiters>>
        /\ conn' = [conn EXCEPT ![c].phase = "running", ![c].task = name]
    BY <1>5 DEF StartTask, At
  <2>2. /\ conn' \in [Conns -> Handler]
        /\ conn'[c].phase = "running" /\ conn'[c].task = name /\ conn'[c].flag = conn[c].flag
        /\ \A d \in Conns \ {c} : conn'[d] = conn[d]
    <3>1. conn[c] \in Handler /\ [conn[c] EXCEPT !.phase = "running", !.task = name] \in Handler
      BY <1>0 DEF Handler, Phase
    <3> QED BY <1>0, <2>1, <3>1 DEF Handler
  <2>3. SemaphoreSound'
    <3>1. conn[c].phase \in HoldingPhases /\ conn'[c].phase \in HoldingPhases
      BY <2>1, <2>2 DEF HoldingPhases
    <3> QED BY <2>1, <2>2, <3>1, SemaphoreStays
  <2>4. \A d \in Conns : Evolves(d)
    BY <2>1, <2>2 DEF Evolves
  <2> QED BY <2>3, <2>4
<1>6. ASSUME NEW c \in Conns, Post(c) \/ PostFails(c) \/ (CommandEnded(c) /\ conn'[c].phase = "fetching")
      PROVE  SemaphoreSound' /\ \A d \in Conns : Evolves(d)
  <2>1. /\ conn' \in [Conns -> Handler]
        /\ conn[c].phase \in HoldingPhases /\ conn'[c].phase \in {"fetching", "posted"}
        /\ Follows(conn[c].phase, conn'[c].phase)
        /\ conn[c].phase = "running" /\ conn'[c].phase = "fetching" => CommandEnded(c)
        /\ conn'[c].task = conn[c].task /\ conn'[c].flag = conn[c].flag
        /\ \A d \in Conns \ {c} : conn'[d] = conn[d]
        /\ UNCHANGED <<permits, waiters>>
    <3>1. CASE Post(c)
      <4>1. /\ conn[c].attempt < MaxAttempts /\ conn[c].phase = "fetching"
            /\ UNCHANGED <<permits, waiters>>
        BY <3>1 DEF Post, At
      <4>2. PICK a : /\ a = conn[c].attempt + 1
                     /\ conn' = [conn EXCEPT ![c].phase = "posted", ![c].attempt = a]
        BY <3>1 DEF Post
      <4>3. conn[c] \in Handler /\ a \in 0..MaxAttempts
        BY <1>0, <4>1, <4>2 DEF Handler
      <4>4. [conn[c] EXCEPT !.phase = "posted", !.attempt = a] \in Handler
        BY <4>3 DEF Handler, Phase
      <4>5. /\ conn' \in [Conns -> Handler] /\ conn'[c].phase = "posted"
            /\ conn'[c].task = conn[c].task /\ conn'[c].flag = conn[c].flag
            /\ \A d \in Conns \ {c} : conn'[d] = conn[d]
        BY <1>0, <4>2, <4>3, <4>4 DEF Handler
      <4> QED BY <4>1, <4>5 DEF Follows, HoldingPhases
    <3>2. CASE PostFails(c)
      <4>1. /\ conn' = [conn EXCEPT ![c].phase = "fetching"] /\ conn[c].phase = "posted"
            /\ UNCHANGED <<permits, waiters>>
        BY <3>2 DEF PostFails, At
      <4>2. /\ conn' \in [Conns -> Handler] /\ conn'[c].phase = "fetching"
            /\ conn'[c].task = conn[c].task /\ conn'[c].flag = conn[c].flag
            /\ \A d \in Conns \ {c} : conn'[d] = conn[d]
        <5>1. "fetching" \in Phase
          BY DEF Phase
        <5> QED BY <1>0, <4>1, <5>1, PhaseUpdate
      <4> QED BY <4>1, <4>2 DEF Follows, HoldingPhases
    <3>3. CASE CommandEnded(c) /\ conn'[c].phase = "fetching"
      <4>1. conn[c].phase \in HoldingPhases /\ conn[c].phase = "running" /\ NoFlag \in Flags \cup {NoFlag}
        BY <3>3 DEF CommandEnded, At, HoldingPhases
      <4>2. ~Close(c, NoFlag)
        BY <3>3, <4>1, HandlerCloses
      <4>3. conn' = [conn EXCEPT ![c].phase = "fetching"] /\ UNCHANGED <<permits, waiters>>
        BY <3>3, <4>2 DEF CommandEnded
      <4>4. /\ conn' \in [Conns -> Handler] /\ conn'[c].phase = "fetching"
            /\ conn'[c].task = conn[c].task /\ conn'[c].flag = conn[c].flag
            /\ \A d \in Conns \ {c} : conn'[d] = conn[d]
        <5>1. "fetching" \in Phase
          BY DEF Phase
        <5> QED BY <1>0, <4>3, <5>1, PhaseUpdate
      <4> QED BY <3>3, <4>1, <4>3, <4>4 DEF Follows
    <3> QED BY <1>6, <3>1, <3>2, <3>3
  <2>2. /\ conn[c].phase \in HoldingPhases /\ conn'[c].phase \in HoldingPhases
        /\ conn[c].phase # "waiting" /\ conn'[c].phase # "waiting"
    BY <2>1 DEF HoldingPhases
  <2>3. SemaphoreSound'
    BY <2>1, <2>2, SemaphoreStays
  <2>4. \A d \in Conns : Evolves(d)
    BY <2>1 DEF Evolves
  <2> QED BY <2>3, <2>4
<1>7. ASSUME NEW c \in Conns,
             \/ Refuse(c) \/ GiveUp(c) \/ Receive(c)
             \/ CommandEnded(c) /\ conn'[c].phase # "fetching"
      PROVE  SemaphoreSound' /\ \A d \in Conns : Evolves(d)
  <2>1. conn[c].phase \in HoldingPhases
    BY <1>7, ClosingSteps
  <2>2. PICK flag \in Flags \cup {NoFlag} : Close(c, flag)
    BY <1>7, ClosingSteps
  <2>3. /\ SemaphoreSound'
        /\ conn'[c].phase = "closed" /\ conn'[c].task = conn[c].task
        /\ \A d \in Conns \ {c} :
             /\ conn'[d].task = conn[d].task /\ conn'[d].flag = conn[d].flag
             /\ \/ conn'[d] = conn[d]
                \/ conn[d].phase = "waiting" /\ conn'[d].phase = "name"
    BY <2>1, <2>2, HandlerCloses
  <2>4. \A d \in Conns : Evolves(d)
    <3>1. Follows("waiting", "name") /\ Follows(conn[c].phase, "closed")
      BY DEF Follows
    <3>2. Evolves(c)
      BY <2>1, <2>3, <3>1 DEF Evolves
    <3>3. ASSUME NEW d \in Conns \ {c}
          PROVE  Evolves(d)
      <4>1. conn'[d].task = conn[d].task /\ conn'[d].flag = conn[d].flag
        BY <2>3
      <4>2. CASE conn[d].phase = "waiting" /\ conn'[d].phase = "name"
        BY <3>1, <4>1, <4>2 DEF Evolves
      <4>3. CASE conn'[d] = conn[d]
        BY <4>3 DEF Evolves
      <4> QED BY <2>3, <4>2, <4>3
    <3> QED BY <3>2, <3>3
  <2> QED BY <2>3, <2>4
<1>8. CASE Restart
  <2>1. /\ conn' \in [Conns -> Handler]
        /\ \A d \in Conns :
             \/ conn[d].phase = "none" /\ conn'[d] = conn[d]
             \/ /\ conn'[d].phase = "closed"
                /\ conn'[d].task = conn[d].task /\ conn'[d].flag = conn[d].flag
    <3>1. \A d \in Conns : [conn[d] EXCEPT !.phase = "closed"] \in Handler
      BY <1>0 DEF Handler, Phase
    <3> QED BY <1>0, <1>8, <3>1 DEF Restart, Handler
  <2>2. Holders' = {} /\ Queued' = {}
    <3>1. \A d \in Conns : conn'[d].phase \in {"none", "closed"}
      BY <2>1
    <3>2. \A d \in Conns : ~Holding(d)' /\ conn'[d].phase # "waiting"
      BY <3>1 DEF Holding
    <3> QED BY <3>2 DEF Holders, Queued
  <2>3. permits' = 0 /\ waiters' = <<>>
    BY <1>8 DEF Restart
  <2>4. waiters' \in Seq(Conns) /\ ToSet(waiters') = {} /\ IsInjective(waiters')
    BY <2>3 DEF ToSet, IsInjective
  <2>5. permits' \in 0..Concurrency
    BY <2>3
  <2>6. SemaphoreSound'
    BY <2>1, <2>2, <2>3, <2>4, <2>5, FS_EmptySet, SemaphoreParts
  <2>7. \A d \in Conns : Evolves(d)
    BY <2>1 DEF Evolves, Follows
  <2> QED BY <2>6, <2>7
<1>9. ASSUME NEW m \in posts, CreateFlag(m) \/ LosePost(m)
      PROVE  SemaphoreSound' /\ \A d \in Conns : Evolves(d)
  BY <1>1, <1>9 DEF CreateFlag, LosePost, handlerVars
<1>10. ASSUME NEW u \in Users, NEW f \in Flags, SubmitFlag(u, f)
       PROVE  SemaphoreSound' /\ \A d \in Conns : Evolves(d)
  BY <1>1, <1>10 DEF SubmitFlag, handlerVars
<1>11. ASSUME NEW c \in Conns, HandleNil(c) \/ StudentStep(c) \/ ProxyStep(c)
       PROVE  SemaphoreSound' /\ \A d \in Conns : Evolves(d)
  BY <1>1, <1>11 DEF HandleNil, StudentStep, ProxyStep
<1>12. ASSUME NEW c \in Conns, Accept(c) \/ AcceptFails(c), conn' = conn
       PROVE  SemaphoreSound' /\ \A d \in Conns : Evolves(d)
  BY <1>1, <1>12 DEF Accept, AcceptFails
<1>13. CASE UNCHANGED vars
  BY <1>1, <1>13 DEF vars, handlerVars
<1> QED BY <1>2, <1>3, <1>4, <1>5, <1>6, <1>7, <1>8, <1>9, <1>10, <1>11, <1>12, <1>13
        DEF Next, Handle
-----------------------------------------------------------------------------
(* Types *)

Request == [conn: Conns, attempt: 1..MaxAttempts, task: Names]
FlagRow == [task: Names, owner: Users \cup {NoUser}]

(* Requests, answers and the flags table. *)
MailTypes ==
    /\ posts \subseteq Request
    /\ answers \subseteq Answer
    /\ flags \in [Flags -> FlagRow \cup {NoRow}]
    /\ accepted \subseteq Users \X Flags

(* A handler that runs a binary, or asks for a flag, has a task. *)
TasksNamed ==
    \A c \in Conns : conn[c].phase \in {"running", "fetching", "posted"} => conn[c].task \in Names

CInv == SemaphoreSound /\ MailTypes /\ TasksNamed

(* A flag's row is no missing row. *)
LEMMA RowsAreRows == NoRow \notin FlagRow
  BY DEF NoRow, FlagRow

(* The steps that send, answer or lose a request, or change the table. *)
LEMMA MailSteps ==
    ASSUME [Next]_vars
    PROVE  \/ \E c \in Conns : Post(c) \/ Receive(c)
           \/ \E m \in posts : CreateFlag(m) \/ LosePost(m)
           \/ \E u \in Users, f \in Flags : SubmitFlag(u, f)
           \/ UNCHANGED <<posts, answers, flags, accepted>>
<1>1. ASSUME NEW c \in Conns
      PROVE  /\ Accept(c) \/ AcceptFails(c) \/ HandleNil(c) \/ TryAcquire(c) \/ Acquire(c)
                => UNCHANGED <<posts, answers, flags, accepted>>
             /\ WaitTimeout(c) \/ GiveUp(c) \/ Refuse(c) \/ CommandEnded(c)
                => UNCHANGED <<posts, answers, flags, accepted>>
             /\ StudentStep(c) \/ ProxyStep(c) \/ PostFails(c)
                => UNCHANGED <<posts, answers, flags, accepted>>
             /\ \A name : StartTask(c, name) => UNCHANGED <<posts, answers, flags, accepted>>
  BY DEF Accept, AcceptFails, HandleNil, TryAcquire, Acquire, WaitTimeout, GiveUp, Refuse,
         CommandEnded, StudentStep, ProxyStep, PostFails, StartTask, flagVars
<1>2. Restart \/ UNCHANGED vars => UNCHANGED <<posts, answers, flags, accepted>>
  BY DEF Restart, vars, flagVars
<1> QED BY <1>1, <1>2 DEF Next, Handle

(* Sending a request. *)
LEMMA PostFacts ==
    ASSUME SemaphoreSound, TasksNamed, NEW c \in Conns, Post(c)
    PROVE  /\ UNCHANGED <<answers, flags, accepted>>
           /\ conn[c].phase = "fetching"
           /\ \E m \in Request : m.conn = c /\ m.task = conn[c].task /\ posts' = posts \cup {m}
<1>1. conn[c] \in Handler /\ conn[c].phase = "fetching" /\ conn[c].attempt < MaxAttempts
  BY SemaphoreFacts DEF Post, At
<1>2. conn[c].task \in Names /\ conn[c].attempt + 1 \in 1..MaxAttempts
  BY <1>1 DEF TasksNamed, Handler
<1>3. [conn |-> c, attempt |-> conn[c].attempt + 1, task |-> conn[c].task] \in Request
  BY <1>2 DEF Request
<1> QED BY <1>1, <1>3 DEF Post, flagVars

(* A request is answered with a new row, or refused. *)
LEMMA CreateFacts ==
    ASSUME MailTypes, NEW m \in posts, CreateFlag(m)
    PROVE  /\ UNCHANGED <<conn, accepted, peer, proxy>> /\ posts' = posts \ {m}
           /\ \E n \in Answer :
                /\ n.conn = m.conn /\ answers' = answers \cup {n}
                /\ \/ n.flag = NoFlag /\ UNCHANGED flags
                   \/ /\ n.flag \in Flags /\ flags[n.flag] = NoRow
                      /\ flags' = [flags EXCEPT ![n.flag] = [task |-> m.task, owner |-> NoUser]]
<1>1. m.conn \in Conns /\ m.attempt \in 1..MaxAttempts
  BY DEF MailTypes, Request
<1>2. \A f \in Flags \cup {NoFlag} : [conn |-> m.conn, attempt |-> m.attempt, flag |-> f] \in Answer
  BY <1>1 DEF Answer
<1>3. UNCHANGED <<conn, accepted, peer, proxy>> /\ posts' = posts \ {m}
  BY DEF CreateFlag, handlerVars, proxyVars
<1>4. CASE answers' = answers \cup {[conn |-> m.conn, attempt |-> m.attempt, flag |-> NoFlag]}
           /\ UNCHANGED flags
  <2>1. PICK n : n = [conn |-> m.conn, attempt |-> m.attempt, flag |-> NoFlag]
    OBVIOUS
  <2>2. n \in Answer /\ n.conn = m.conn /\ n.flag = NoFlag
    BY <1>2, <2>1
  <2> QED BY <1>3, <1>4, <2>1, <2>2
<1>5. ASSUME NEW f \in Flags, flags[f] = NoRow,
             flags' = [flags EXCEPT ![f] = [task |-> m.task, owner |-> NoUser]],
             answers' = answers \cup {[conn |-> m.conn, attempt |-> m.attempt, flag |-> f]}
      PROVE  \E n \in Answer :
                /\ n.conn = m.conn /\ answers' = answers \cup {n}
                /\ \/ n.flag = NoFlag /\ UNCHANGED flags
                   \/ /\ n.flag \in Flags /\ flags[n.flag] = NoRow
                      /\ flags' = [flags EXCEPT ![n.flag] = [task |-> m.task, owner |-> NoUser]]
  <2>1. PICK n : n = [conn |-> m.conn, attempt |-> m.attempt, flag |-> f]
    OBVIOUS
  <2>2. n \in Answer /\ n.conn = m.conn /\ n.flag = f
    BY <1>2, <2>1
  <2> QED BY <1>5, <2>1, <2>2
<1> QED BY <1>3, <1>4, <1>5 DEF CreateFlag

(* A submission names the owner of a row that had none. *)
LEMMA SubmitFacts ==
    ASSUME MailTypes, NEW u \in Users, NEW f \in Flags, SubmitFlag(u, f)
    PROVE  /\ UNCHANGED <<conn, posts, answers, peer, proxy>>
           /\ accepted' = accepted \cup {<<u, f>>}
           /\ flags[f].owner = NoUser
           /\ flags' \in [Flags -> FlagRow \cup {NoRow}]
           /\ flags'[f] \in FlagRow /\ flags'[f].owner = u /\ flags'[f].task = flags[f].task
           /\ \A g \in Flags \ {f} : flags'[g] = flags[g]
<1>1. flags[f] \in FlagRow
  BY DEF SubmitFlag, MailTypes
<1>2. [flags[f] EXCEPT !.owner = u] \in FlagRow
  BY <1>1 DEF FlagRow
<1>3. flags' = [flags EXCEPT ![f].owner = u] /\ flags[f].owner = NoUser
  BY DEF SubmitFlag
<1>4. /\ flags' \in [Flags -> FlagRow \cup {NoRow}]
      /\ flags'[f] \in FlagRow /\ flags'[f].owner = u /\ flags'[f].task = flags[f].task
      /\ \A g \in Flags \ {f} : flags'[g] = flags[g]
  BY <1>1, <1>2, <1>3 DEF MailTypes, FlagRow
<1> QED BY <1>3, <1>4 DEF SubmitFlag, handlerVars, proxyVars

(* Requests, answers and rows keep their types. *)
LEMMA MailStep ==
    ASSUME CInv, [Next]_vars
    PROVE  MailTypes'
<1> USE DEF CInv
<1>1. ASSUME NEW c \in Conns, Post(c)
      PROVE  MailTypes'
  BY <1>1, PostFacts DEF MailTypes
<1>2. ASSUME NEW c \in Conns, Receive(c)
      PROVE  MailTypes'
  BY <1>2 DEF MailTypes, Receive, flagVars
<1>3. ASSUME NEW m \in posts, CreateFlag(m)
      PROVE  MailTypes'
  <2>1. [task |-> m.task, owner |-> NoUser] \in FlagRow
    BY DEF MailTypes, Request, FlagRow
  <2>2. PICK n \in Answer :
                /\ answers' = answers \cup {n}
                /\ \/ UNCHANGED flags
                   \/ flags' = [flags EXCEPT ![n.flag] = [task |-> m.task, owner |-> NoUser]]
    BY <1>3, CreateFacts
  <2>3. flags' \in [Flags -> FlagRow \cup {NoRow}]
    BY <2>1, <2>2 DEF MailTypes
  <2> QED BY <1>3, <2>2, <2>3, CreateFacts DEF MailTypes
<1>4. ASSUME NEW m \in posts, LosePost(m)
      PROVE  MailTypes'
  BY <1>4 DEF MailTypes, LosePost, flagVars
<1>5. ASSUME NEW u \in Users, NEW f \in Flags, SubmitFlag(u, f)
      PROVE  MailTypes'
  BY <1>5, SubmitFacts DEF MailTypes
<1>6. CASE UNCHANGED <<posts, answers, flags, accepted>>
  BY <1>6 DEF MailTypes
<1> QED BY <1>1, <1>2, <1>3, <1>4, <1>5, <1>6, MailSteps

(* The semaphore, the requests and the tasks hold together. *)
LEMMA CoreStep ==
    ASSUME CInv, [Next]_vars
    PROVE  CInv' /\ \A c \in Conns : Evolves(c)
<1>1. SemaphoreSound' /\ \A c \in Conns : Evolves(c)
  BY SemaphoreStep DEF CInv, MailTypes
<1>2. MailTypes'
  BY MailStep
<1>3. TasksNamed'
  BY <1>1 DEF CInv, TasksNamed, Evolves, Follows
<1> QED BY <1>1, <1>2, <1>3 DEF CInv

(* The listener starts with every permit free and no request made. *)
LEMMA CoreStarts ==
    ASSUME Init
    PROVE  CInv
<1>1. conn \in [Conns -> Handler] /\ \A c \in Conns : conn[c].phase = "none"
  BY DEF Init, Handler, Phase
<1>2. Holders = {} /\ Queued = {}
  BY <1>1 DEF Holders, Queued, Holding
<1>3. ToSet(waiters) = {} /\ IsInjective(waiters) /\ waiters \in Seq(Conns)
  BY DEF Init, ToSet, IsInjective
<1>4. SemaphoreSound
  <2>1. permits = 0 /\ waiters = <<>> /\ permits \in 0..Concurrency
    BY DEF Init
  <2>2. PermitsAccounted
    BY <1>2, <1>3, <2>1, FS_EmptySet DEF PermitsAccounted, Holders, Queued
  <2> QED BY <1>1, <1>2, <1>3, <2>1, <2>2, FS_EmptySet DEF SemaphoreSound
<1>5. MailTypes /\ TasksNamed
  BY <1>1 DEF Init, MailTypes, TasksNamed
<1> QED BY <1>4, <1>5 DEF CInv

(* They hold in every reachable state. *)
LEMMA CoreInvariance == Spec => []CInv
<1>1. Init => CInv
  BY CoreStarts
<1>2. CInv /\ [Next]_vars => CInv'
  BY CoreStep
<1> QED BY <1>1, <1>2, PTL DEF Spec

(* Every permit belongs to a handler that will release it, whichever of its *)
(* returns it takes; nobody queues twice, and nobody is left in the queue   *)
(* while a permit is free - for any number of connections and permits, and  *)
(* through panics and restarts (main.go:216-226).                           *)
THEOREM PermitsAreAccounted == Spec => []PermitsAccounted
<1>1. CInv => PermitsAccounted
  BY DEF CInv, SemaphoreSound
<1> QED BY <1>1, CoreInvariance, PTL
-----------------------------------------------------------------------------
(* The proxy *)

(* A binary whose standard output was closed, or that was killed for it,    *)
(* belongs to a connection that has failed a write.                         *)
ProxySound ==
    /\ ProxyTypeOK
    /\ \A c \in Conns :
         /\ proxy[c].exit = "stdout" => peer[c] = "reset"
         /\ Runs(c) /\ proxy[c].stdout = "closed" => peer[c] = "reset"

Command == [binary: Files \cup {"none"}, stdin: {"copying", "stuck", "closed"},
            stdout: {"open", "closed"}, stderr: {"open", "closed"},
            exit: {"none", "quiet", "crash", "stdout", "stderr"}]
Peer == {"here", "eof", "gone", "reset"}

(* The parts after a step that concerns one connection. *)
LEMMA ProxyMoves ==
    ASSUME ProxySound, NEW c \in Conns, NEW k \in Command, NEW end \in Peer,
           proxy' = [proxy EXCEPT ![c] = k], peer' = [peer EXCEPT ![c] = end],
           k.exit = "stdout" => end = "reset",
           k.binary # "none" /\ k.exit = "none" /\ k.stdout = "closed" => end = "reset"
    PROVE  ProxySound' /\ \A d \in Conns \ {c} : proxy'[d] = proxy[d]
<1>1. proxy \in [Conns -> Command] /\ peer \in [Conns -> Peer]
  BY DEF ProxySound, ProxyTypeOK, Command, Peer
<1>2. /\ proxy' \in [Conns -> Command] /\ peer' \in [Conns -> Peer]
      /\ proxy'[c] = k /\ peer'[c] = end
      /\ \A d \in Conns \ {c} : proxy'[d] = proxy[d] /\ peer'[d] = peer[d]
  BY <1>1
<1>3. ProxyTypeOK'
  BY <1>2 DEF ProxyTypeOK, Command, Peer
<1>4. ASSUME NEW d \in Conns
      PROVE  /\ proxy'[d].exit = "stdout" => peer'[d] = "reset"
             /\ Runs(d)' /\ proxy'[d].stdout = "closed" => peer'[d] = "reset"
  BY <1>2 DEF ProxySound, Runs
<1> QED BY <1>2, <1>3, <1>4 DEF ProxySound

(* The command of a connection has its type. *)
LEMMA ProxyFacts ==
    ASSUME ProxySound, NEW c \in Conns
    PROVE  /\ proxy[c] \in Command /\ peer[c] \in Peer
           /\ proxy = [proxy EXCEPT ![c] = proxy[c]] /\ peer = [peer EXCEPT ![c] = peer[c]]
           /\ proxy[c].exit = "stdout" => peer[c] = "reset"
           /\ Runs(c) /\ proxy[c].stdout = "closed" => peer[c] = "reset"
           /\ NoCommand \in Command /\ NoCommand.exit = "none" /\ NoCommand.binary = "none"
  BY DEF ProxySound, ProxyTypeOK, Command, Peer, NoCommand

(* The student sends no more, or hangs up. *)
LEMMA StudentKeeps ==
    ASSUME ProxySound, NEW c \in Conns, SendEof(c) \/ HangUp(c)
    PROVE  ProxySound'
<1>1. PICK end \in {"eof", "gone"} : peer' = [peer EXCEPT ![c] = end]
  BY DEF SendEof, HangUp
<1>2. peer[c] # "reset" /\ UNCHANGED proxy
  BY DEF SendEof, HangUp, Gone
<1>3. proxy' = [proxy EXCEPT ![c] = proxy[c]] /\ end \in Peer
  BY <1>2, ProxyFacts DEF Peer
<1>4. proxy[c].exit # "stdout" /\ ~(Runs(c) /\ proxy[c].stdout = "closed")
  BY <1>2, ProxyFacts
<1> QED BY <1>1, <1>3, <1>4, ProxyFacts, ProxyMoves DEF Runs

(* The proxy's goroutines work while the binary runs, and close its output  *)
(* only after a write has failed.                                           *)
LEMMA CopyKeeps ==
    ASSUME ProxySound, NEW c \in Conns, CopyStep(c)
    PROVE  /\ ProxySound' /\ Runs(c)
           /\ \A d \in Conns \ {c} : proxy'[d] = proxy[d]
<1>1. Runs(c) /\ proxy[c] \in Command /\ peer[c] \in Peer
  BY ProxyFacts DEF CopyStep, StdinEnds, StdinStuck, StdoutFails, StderrFails, CommandEnds, BrokenPipe
<1>2. ASSUME NEW k \in Command, NEW end \in Peer,
             proxy' = [proxy EXCEPT ![c] = k], peer' = [peer EXCEPT ![c] = end],
             k.exit = "stdout" => end = "reset",
             k.exit = "none" /\ k.stdout = "closed" => end = "reset"
      PROVE  ProxySound' /\ \A d \in Conns \ {c} : proxy'[d] = proxy[d]
  BY <1>2, ProxyMoves
<1>3. CASE StdinEnds(c) \/ StdinStuck(c)
  <2>1. PICK s \in {"closed", "stuck"} : proxy' = [proxy EXCEPT ![c].stdin = s]
    BY <1>3 DEF StdinEnds, StdinStuck
  <2>2. PICK k : k = [proxy[c] EXCEPT !.stdin = s]
    OBVIOUS
  <2>3. k \in Command /\ k.exit = proxy[c].exit /\ k.stdout = proxy[c].stdout
    BY <1>1, <2>2 DEF Command
  <2>4. proxy' = [proxy EXCEPT ![c] = k]
    BY <2>1, <2>2
  <2>5. peer' = [peer EXCEPT ![c] = peer[c]]
    <3>1. peer' = peer
      BY <1>3 DEF StdinEnds, StdinStuck
    <3>2. peer = [peer EXCEPT ![c] = peer[c]]
      BY ProxyFacts
    <3> QED BY <3>1, <3>2
  <2>6. /\ k.exit = "stdout" => peer[c] = "reset"
        /\ k.exit = "none" /\ k.stdout = "closed" => peer[c] = "reset"
    BY <1>1, <2>3, ProxyFacts DEF Runs
  <2> QED BY <1>1, <1>2, <2>3, <2>4, <2>5, <2>6
<1>4. CASE StdoutFails(c)
  <2>1. PICK k : k = [proxy[c] EXCEPT !.stdout = "closed"]
    OBVIOUS
  <2>2. k \in Command /\ proxy' = [proxy EXCEPT ![c] = k]
    BY <1>1, <1>4, <2>1 DEF Command, StdoutFails
  <2>3. peer' = [peer EXCEPT ![c] = "reset"] /\ "reset" \in Peer
    BY <1>4 DEF StdoutFails, Peer
  <2> QED BY <1>1, <1>2, <2>2, <2>3
<1>5. CASE StderrFails(c)
  <2>1. PICK k : k = [proxy[c] EXCEPT !.stderr = "closed"]
    OBVIOUS
  <2>2. k \in Command /\ k.exit = proxy[c].exit /\ k.stdout = proxy[c].stdout
    BY <1>1, <2>1 DEF Command
  <2>3. proxy' = [proxy EXCEPT ![c] = k]
    BY <1>5, <2>1 DEF StderrFails
  <2>4. peer' = [peer EXCEPT ![c] = peer[c]]
    <3>1. peer' = peer
      BY <1>5 DEF StderrFails
    <3>2. peer = [peer EXCEPT ![c] = peer[c]]
      BY ProxyFacts
    <3> QED BY <3>1, <3>2
  <2>5. /\ k.exit = "stdout" => peer[c] = "reset"
        /\ k.exit = "none" /\ k.stdout = "closed" => peer[c] = "reset"
    BY <1>1, <2>2, ProxyFacts DEF Runs
  <2> QED BY <1>1, <1>2, <2>2, <2>3, <2>4, <2>5
<1>6. CASE CommandEnds(c) \/ BrokenPipe(c)
  <2>1. PICK exit \in {"quiet", "crash", "stdout", "stderr"} :
           /\ Ends(c, exit)
           /\ exit = "stdout" => proxy[c].stdout = "closed"
    BY <1>6 DEF CommandEnds, BrokenPipe
  <2>2. PICK k : k = [NoCommand EXCEPT !.binary = proxy[c].binary, !.exit = exit]
    OBVIOUS
  <2>3. k \in Command /\ k.exit = exit /\ proxy' = [proxy EXCEPT ![c] = k]
    BY <1>1, <2>1, <2>2 DEF Command, NoCommand, Ends
  <2>4. peer' = [peer EXCEPT ![c] = peer[c]]
    BY <1>6, ProxyFacts DEF CommandEnds, BrokenPipe
  <2>5. exit = "stdout" => peer[c] = "reset"
    BY <1>1, <2>1, ProxyFacts
  <2> QED BY <1>1, <1>2, <2>3, <2>4, <2>5
<1> QED BY <1>1, <1>3, <1>4, <1>5, <1>6 DEF CopyStep

(* What a step does to the connections' ends and commands. *)
LEMMA ProxySteps ==
    ASSUME CInv, [Next]_vars
    PROVE  \/ \E c \in Conns : Forget(c) /\ conn'[c].phase = "closed"
           \/ \E c \in Conns, name \in Names : StartTask(c, name)
           \/ \E c \in Conns : SendEof(c) \/ HangUp(c)
           \/ \E c \in Conns : CopyStep(c)
           \/ Restart
           \/ UNCHANGED proxyVars
<1>0. SemaphoreSound /\ answers \subseteq Answer /\ conn \in [Conns -> Handler]
  BY SemaphoreFacts DEF CInv, MailTypes
<1>1. ASSUME NEW c \in Conns, WaitTimeout(c)
      PROVE  Forget(c) /\ conn'[c].phase = "closed"
  BY <1>0, <1>1, PhaseUpdate DEF WaitTimeout, Phase
<1>2. ASSUME NEW c \in Conns,
             \/ Refuse(c) \/ GiveUp(c) \/ Receive(c)
             \/ CommandEnded(c) /\ conn'[c].phase # "fetching"
      PROVE  Forget(c) /\ conn'[c].phase = "closed"
  <2>1. conn[c].phase \in HoldingPhases
    BY <1>0, <1>2, ClosingSteps
  <2>2. PICK flag \in Flags \cup {NoFlag} : Close(c, flag)
    BY <1>0, <1>2, ClosingSteps
  <2>3. conn'[c].phase = "closed"
    BY <1>0, <2>1, <2>2, HandlerCloses
  <2>4. Forget(c)
    BY <2>2 DEF Close
  <2> QED BY <2>3, <2>4
<1>3. ASSUME NEW c \in Conns, CommandEnded(c), conn'[c].phase = "fetching"
      PROVE  UNCHANGED proxyVars
  <2>1. conn[c].phase \in HoldingPhases /\ NoFlag \in Flags \cup {NoFlag}
    BY <1>3 DEF CommandEnded, At, HoldingPhases
  <2>2. ~Close(c, NoFlag)
    BY <1>0, <1>3, <2>1, HandlerCloses
  <2> QED BY <1>3, <2>2 DEF CommandEnded
<1>4. ASSUME NEW c \in Conns
      PROVE  /\ Accept(c) \/ AcceptFails(c) \/ HandleNil(c) \/ TryAcquire(c) \/ Acquire(c)
                  \/ Post(c) \/ PostFails(c) => UNCHANGED proxyVars
             /\ StudentStep(c) => SendEof(c) \/ HangUp(c)
             /\ ProxyStep(c) => CopyStep(c)
  BY DEF Accept, AcceptFails, HandleNil, TryAcquire, Acquire, Post, PostFails, StudentStep, ProxyStep
<1>5. ASSUME NEW m, CreateFlag(m) \/ LosePost(m)
      PROVE  UNCHANGED proxyVars
  BY <1>5 DEF CreateFlag, LosePost, handlerVars
<1>6. ASSUME NEW u, NEW f, SubmitFlag(u, f)
      PROVE  UNCHANGED proxyVars
  BY <1>6 DEF SubmitFlag, handlerVars
<1>7. CASE UNCHANGED vars
  BY <1>7 DEF vars, handlerVars
<1> QED BY <1>1, <1>2, <1>3, <1>4, <1>5, <1>6, <1>7 DEF Next, Handle

(* A restart forgets every command. *)
LEMMA RestartForgets ==
    ASSUME SemaphoreSound, Restart
    PROVE  /\ ProxySound'
           /\ \A d \in Conns : conn'[d].phase \in {"none", "closed"}
<1>1. /\ peer' = [c \in Conns |-> "here"]
      /\ proxy' = [c \in Conns |-> NoCommand]
  BY DEF Restart
<1>2. ProxySound'
  BY <1>1 DEF ProxySound, ProxyTypeOK, Runs, NoCommand
<1>3. \A d \in Conns : conn'[d].phase \in {"none", "closed"}
  BY SemaphoreFacts DEF Restart, Handler
<1> QED BY <1>2, <1>3

(* Whoever asks for a flag has just seen the binary fail, on a connection   *)
(* that has not failed, or was asking already.                              *)
LEMMA FetchStep ==
    ASSUME CInv, ProxySound, OnlyCrashesFetch, [Next]_vars
    PROVE  ProxySound' /\ OnlyCrashesFetch'
<1>1. \A d \in Conns : Evolves(d)
  BY CoreStep
<1>2. ASSUME NEW d \in Conns, conn'[d].phase \in {"fetching", "posted"}
      PROVE  \/ conn[d].phase \in {"fetching", "posted"}
             \/ CommandEnded(d) /\ conn'[d].phase = "fetching"
  BY <1>1, <1>2 DEF Evolves, Follows
<1>3. ASSUME NEW d \in Conns, CommandEnded(d), conn'[d].phase = "fetching"
      PROVE  proxy[d].exit \in {"crash", "stderr"} /\ UNCHANGED proxy
  <2>1. conn[d].phase \in HoldingPhases /\ NoFlag \in Flags \cup {NoFlag} /\ SemaphoreSound
    BY <1>3 DEF CommandEnded, At, HoldingPhases, CInv
  <2>2. ~Close(d, NoFlag)
    BY <1>3, <2>1, HandlerCloses
  <2>3. proxy[d].exit \notin {"quiet", "none"} /\ peer[d] # "reset" /\ UNCHANGED proxy
    BY <1>3, <2>2 DEF CommandEnded, proxyVars
  <2>4. proxy[d].exit \in {"none", "quiet", "crash", "stdout", "stderr"}
    BY ProxyFacts DEF Command
  <2> QED BY <2>3, <2>4, ProxyFacts
<1>4. ASSUME ProxySound',
             \A d \in Conns : conn'[d].phase \in {"fetching", "posted"}
                                /\ conn[d].phase \in {"fetching", "posted"}
                              => proxy'[d].exit = proxy[d].exit
      PROVE  ProxySound' /\ OnlyCrashesFetch'
  BY <1>2, <1>3, <1>4 DEF OnlyCrashesFetch
<1>5. ASSUME NEW c \in Conns, Forget(c), conn'[c].phase = "closed"
      PROVE  ProxySound' /\ OnlyCrashesFetch'
  <2>1. "here" \in Peer
    BY DEF Peer
  <2>2. ProxySound' /\ \A d \in Conns \ {c} : proxy'[d] = proxy[d]
    BY <1>5, <2>1, ProxyFacts, ProxyMoves DEF Forget
  <2> QED BY <1>4, <1>5, <2>2
<1>6. ASSUME NEW c \in Conns, NEW name \in Names, StartTask(c, name)
      PROVE  ProxySound' /\ OnlyCrashesFetch'
  <2>1. PICK k : k = [binary |-> Binary[name], stdin |-> "copying", stdout |-> "open",
                      stderr |-> "open", exit |-> "none"]
    OBVIOUS
  <2>2. k \in Command /\ k.exit = "none" /\ k.stdout = "open"
    BY <1>6, <2>1 DEF StartTask, Command
  <2>3. proxy' = [proxy EXCEPT ![c] = k] /\ peer' = [peer EXCEPT ![c] = peer[c]]
    BY <1>6, <2>1, ProxyFacts DEF StartTask, Start
  <2>4. ProxySound' /\ \A d \in Conns \ {c} : proxy'[d] = proxy[d]
    BY <2>2, <2>3, ProxyFacts, ProxyMoves
  <2>5. conn[c].phase = "name"
    BY <1>6 DEF StartTask, At
  <2> QED BY <1>4, <2>4, <2>5
<1>7. ASSUME NEW c \in Conns, SendEof(c) \/ HangUp(c)
      PROVE  ProxySound' /\ OnlyCrashesFetch'
  <2>1. ProxySound' /\ UNCHANGED proxy
    BY <1>7, StudentKeeps DEF SendEof, HangUp
  <2> QED BY <1>4, <2>1
<1>8. ASSUME NEW c \in Conns, CopyStep(c)
      PROVE  ProxySound' /\ OnlyCrashesFetch'
  <2>1. ProxySound' /\ Runs(c) /\ \A d \in Conns \ {c} : proxy'[d] = proxy[d]
    BY <1>8, CopyKeeps
  <2>2. conn[c].phase \notin {"fetching", "posted"}
    BY <2>1 DEF Runs, OnlyCrashesFetch
  <2> QED BY <1>4, <2>1, <2>2
<1>9. CASE Restart
  BY <1>4, <1>9, RestartForgets DEF CInv
<1>10. CASE UNCHANGED proxyVars
  <2>1. ProxySound' /\ UNCHANGED proxy
    BY <1>10 DEF proxyVars, ProxySound, ProxyTypeOK, Runs
  <2> QED BY <1>4, <2>1
<1> QED BY <1>5, <1>6, <1>7, <1>8, <1>9, <1>10, ProxySteps

(* The proxy of every command stays sound. *)
LEMMA ProxyInvariance == Spec => [](ProxySound /\ OnlyCrashesFetch)
<1>1. Init => ProxySound /\ OnlyCrashesFetch
  <2> SUFFICES ASSUME Init
               PROVE  ProxySound /\ OnlyCrashesFetch
    OBVIOUS
  <2>1. \A c \in Conns : conn[c].phase = "none"
    BY DEF Init
  <2>2. ProxySound
    BY DEF Init, ProxyInit, ProxySound, ProxyTypeOK, Runs, NoCommand
  <2> QED BY <2>1, <2>2 DEF OnlyCrashesFetch
<1>2. CInv /\ ProxySound /\ OnlyCrashesFetch /\ [Next]_vars => ProxySound' /\ OnlyCrashesFetch'
  BY FetchStep
<1> QED BY <1>1, <1>2, CoreInvariance, PTL DEF Spec

(* A flag is only asked for when the binary crashed, or its standard error  *)
(* could not be kept: a binary that dies because the student hung up meets  *)
(* a write to the connection that fails first (main.go:276-281, 373-377).   *)
THEOREM OnlyCrashesAreAsked == Spec => []OnlyCrashesFetch
  BY ProxyInvariance, PTL

(* The accept loop's budget. *)
BudgetSound == alive \in BOOLEAN /\ budget \in 0..AcceptErrors

(* It is never overdrawn. *)
LEMMA BudgetStep ==
    ASSUME BudgetSound, [Next]_vars
    PROVE  BudgetSound'
<1> USE DEF BudgetSound
<1>1. ASSUME NEW c \in Conns, Accept(c)
      PROVE  BudgetSound'
  BY <1>1 DEF Accept
<1>2. ASSUME NEW c \in Conns, AcceptFails(c)
      PROVE  BudgetSound'
  <2>1. CASE budget = 0
    BY <1>2, <2>1 DEF AcceptFails
  <2>2. CASE budget # 0
    <3>1. budget' = budget - 1 /\ UNCHANGED alive
      BY <1>2, <2>2 DEF AcceptFails
    <3> QED BY <2>2, <3>1
  <2> QED BY <2>1, <2>2
<1>3. ASSUME NEW c \in Conns, HandleNil(c)
      PROVE  BudgetSound'
  BY <1>3 DEF HandleNil
<1>4. CASE Restart
  BY <1>4 DEF Restart
<1>5. ASSUME NEW c \in Conns
      PROVE  /\ TryAcquire(c) \/ Acquire(c) \/ WaitTimeout(c) \/ Post(c) \/ GiveUp(c) \/ Receive(c)
                  => UNCHANGED <<alive, budget>>
             /\ Refuse(c) \/ CommandEnded(c) \/ StudentStep(c) \/ ProxyStep(c) \/ PostFails(c)
                  => UNCHANGED <<alive, budget>>
             /\ \A name : StartTask(c, name) => UNCHANGED <<alive, budget>>
  BY DEF TryAcquire, Acquire, WaitTimeout, Post, GiveUp, Receive, Refuse, CommandEnded,
         StudentStep, ProxyStep, PostFails, StartTask
<1>6. ASSUME NEW m, CreateFlag(m) \/ LosePost(m)
      PROVE  UNCHANGED <<alive, budget>>
  BY <1>6 DEF CreateFlag, LosePost, handlerVars
<1>7. ASSUME NEW u, NEW f, SubmitFlag(u, f)
      PROVE  UNCHANGED <<alive, budget>>
  BY <1>7 DEF SubmitFlag, handlerVars
<1>8. CASE UNCHANGED vars
  BY <1>8 DEF vars, handlerVars
<1>9. CASE UNCHANGED <<alive, budget>>
  BY <1>9
<1> QED BY <1>1, <1>2, <1>3, <1>4, <1>5, <1>6, <1>7, <1>8, <1>9 DEF Next, Handle

(* Every variable keeps its type.  That the semaphore never goes below zero *)
(* or above the concurrency level, and that every request names a task,     *)
(* needs the accounting of permits and the life of a handler                *)
(* (main.go:123-139, 216-281).                                              *)
THEOREM TypeCorrect == Spec => []TypeOK
<1>1. ASSUME CInv, BudgetSound, ProxySound
      PROVE  TypeOK
  <2>1. conn \in [Conns -> Handler] /\ permits \in 0..Concurrency /\ waiters \in Seq(Conns)
    BY <1>1 DEF CInv, SemaphoreSound
  <2>2. /\ posts \subseteq Request /\ answers \subseteq Answer
        /\ flags \in [Flags -> FlagRow \cup {NoRow}] /\ accepted \subseteq Users \X Flags
    BY <1>1 DEF CInv, MailTypes
  <2>3. ProxyTypeOK
    BY <1>1 DEF ProxySound
  <2> QED BY <1>1, <2>1, <2>2, <2>3 DEF BudgetSound, TypeOK, Handler, Request, Answer, FlagRow
<1>2. Init => BudgetSound
  BY DEF Init, BudgetSound
<1>3. BudgetSound /\ [Next]_vars => BudgetSound'
  BY BudgetStep
<1> QED BY <1>1, <1>2, <1>3, CoreInvariance, ProxyInvariance, PTL DEF Spec
-----------------------------------------------------------------------------
(* Flags *)

(* One UPDATE decides who gets a flag, and no later one takes it away. *)
LEMMA OwnerStep ==
    ASSUME CInv, OneOwner, [Next]_vars
    PROVE  OneOwner'
<1>0. MailTypes /\ \A r \in accepted : r[1] \in Users /\ r[2] \in Flags /\ r[1] # NoUser
  BY DEF CInv, MailTypes
<1>1. ASSUME NEW u \in Users, NEW f \in Flags, SubmitFlag(u, f)
      PROVE  OneOwner'
  <2>1. \A r \in accepted : r[2] # f
    BY <1>0, <1>1, SubmitFacts DEF OneOwner
  <2> QED BY <1>0, <1>1, <2>1, SubmitFacts DEF OneOwner
<1>2. ASSUME NEW m \in posts, CreateFlag(m)
      PROVE  OneOwner'
  <2>1. PICK n \in Answer :
                \/ UNCHANGED flags
                \/ /\ n.flag \in Flags /\ flags[n.flag] = NoRow
                   /\ flags' = [flags EXCEPT ![n.flag] = [task |-> m.task, owner |-> NoUser]]
    BY <1>0, <1>2, CreateFacts
  <2>2. UNCHANGED accepted
    BY <1>2 DEF CreateFlag
  <2>3. \A r \in accepted : flags[r[2]] # NoRow
    BY <1>0 DEF OneOwner, NoRow
  <2>4. \A r \in accepted : flags'[r[2]] = flags[r[2]]
    BY <1>0, <2>1, <2>3 DEF MailTypes
  <2> QED BY <2>2, <2>4 DEF OneOwner
<1>3. CASE UNCHANGED <<flags, accepted>>
  BY <1>3 DEF OneOwner
<1>4. ASSUME NEW c \in Conns, Post(c) \/ Receive(c)
      PROVE  UNCHANGED <<flags, accepted>>
  BY <1>4 DEF Post, Receive, flagVars
<1>5. ASSUME NEW m \in posts, LosePost(m)
      PROVE  UNCHANGED <<flags, accepted>>
  BY <1>5 DEF LosePost, flagVars
<1> QED BY <1>1, <1>2, <1>3, <1>4, <1>5, MailSteps

(* Whoever was told that his flag was accepted keeps it, however many       *)
(* students submit it at the same time (database.go:266, render.go:66-72).  *)
THEOREM OwnersStay == Spec => []OneOwner
<1>1. Init => OneOwner
  BY DEF Init, OneOwner
<1>2. CInv /\ OneOwner /\ [Next]_vars => OneOwner'
  BY OwnerStep
<1> QED BY <1>1, <1>2, CoreInvariance, PTL DEF Spec

(* Requests and answers belong to handlers past their binary, and carry     *)
(* their task; an answer's flag is a row nobody has been shown, and no      *)
(* other answer carries it; a flag is only shown at the end.                *)
Late == {"fetching", "posted", "closed"}

MailSound ==
    /\ \A m \in posts : conn[m.conn].phase \in Late /\ m.task = conn[m.conn].task
    /\ \A n \in answers : conn[n.conn].phase \in Late
    /\ \A n \in answers : n.flag # NoFlag =>
         /\ flags[n.flag] # NoRow /\ flags[n.flag].task = conn[n.conn].task
         /\ \A c \in Conns : conn[c].flag # n.flag
    /\ \A n, k \in answers : n.flag # NoFlag /\ n.flag = k.flag => n = k

FlagsSound ==
    /\ \A c, d \in Conns : conn[c].flag # NoFlag /\ conn[c].flag = conn[d].flag => c = d
    /\ \A c \in Conns : conn[c].flag # NoFlag =>
         /\ conn[c].phase = "closed"
         /\ flags[conn[c].flag] # NoRow
         /\ flags[conn[c].flag].task = conn[c].task

(* Types that the steps below rest on. *)
LEMMA FlagTypes ==
    ASSUME CInv
    PROVE  /\ \A c \in Conns : conn[c].flag \in Flags \cup {NoFlag}
           /\ \A m \in posts : m.conn \in Conns /\ m.task \in Names
           /\ \A n \in answers : n.conn \in Conns /\ n.flag \in Flags \cup {NoFlag}
           /\ flags \in [Flags -> FlagRow \cup {NoRow}]
           /\ NoRow \notin FlagRow
<1>1. \A c \in Conns : conn[c].flag \in Flags \cup {NoFlag}
  BY DEF CInv, SemaphoreSound, Handler
<1>2. \A m \in posts : m.conn \in Conns /\ m.task \in Names
  BY DEF CInv, MailTypes, Request
<1>3. \A n \in answers : n.conn \in Conns /\ n.flag \in Flags \cup {NoFlag}
  BY DEF CInv, MailTypes, Answer
<1> QED BY <1>1, <1>2, <1>3, RowsAreRows DEF CInv, MailTypes

(* Handlers go on while mail and rows stay and nobody is shown a flag. *)
LEMMA QuietStep ==
    ASSUME CInv, MailSound, FlagsSound, \A c \in Conns : Evolves(c),
           \A c \in Conns : conn'[c].flag = conn[c].flag,
           UNCHANGED <<answers, flags>>, posts' \subseteq posts
    PROVE  MailSound' /\ FlagsSound'
<1>1. \A c \in Conns : conn[c].phase \in Late => conn'[c].phase \in Late /\ conn'[c].task = conn[c].task
  BY DEF Evolves, Follows, Late
<1>2. \A c \in Conns : conn[c].phase = "closed" => conn'[c].phase = "closed" /\ conn'[c].task = conn[c].task
  BY DEF Evolves, Follows
<1>3. MailSound'
  BY <1>1, FlagTypes DEF MailSound
<1>4. FlagsSound'
  BY <1>2 DEF FlagsSound
<1> QED BY <1>3, <1>4

(* A request is sent. *)
LEMMA PostStep ==
    ASSUME CInv, MailSound, FlagsSound, \A c \in Conns : Evolves(c), NEW c \in Conns, Post(c)
    PROVE  MailSound' /\ FlagsSound'
<1>1. PICK m \in Request : m.conn = c /\ m.task = conn[c].task /\ posts' = posts \cup {m}
  BY PostFacts DEF CInv
<1>2. UNCHANGED <<answers, flags>> /\ conn[c].phase = "fetching"
  BY PostFacts DEF CInv
<1>3. \A d \in Conns : conn[d].phase \in Late => conn'[d].phase \in Late /\ conn'[d].task = conn[d].task
  BY DEF Evolves, Follows, Late
<1>4. \A d \in Conns : conn[d].phase = "closed" => conn'[d].phase = "closed" /\ conn'[d].task = conn[d].task
  BY DEF Evolves, Follows
<1>5. \A d \in Conns : conn'[d].flag = conn[d].flag
  BY DEF Post, CInv, SemaphoreSound, Handler
<1>6. conn[c].phase \in Late
  BY <1>2 DEF Late
<1>7. MailSound'
  BY <1>1, <1>2, <1>3, <1>5, <1>6, FlagTypes DEF MailSound
<1>8. FlagsSound'
  BY <1>2, <1>4, <1>5 DEF FlagsSound
<1> QED BY <1>7, <1>8

(* A handler returns, with the flag of the answer it has taken or without. *)
LEMMA ReturnStep ==
    ASSUME CInv, MailSound, FlagsSound, \A c \in Conns : Evolves(c), NEW c \in Conns,
           \/ Refuse(c) \/ GiveUp(c) \/ Receive(c)
           \/ CommandEnded(c) /\ conn'[c].phase # "fetching"
    PROVE  MailSound' /\ FlagsSound'
<1>0. SemaphoreSound /\ answers \subseteq Answer
  BY DEF CInv, MailTypes
<1>1. conn[c].phase \in HoldingPhases /\ UNCHANGED <<posts, flags>>
  BY <1>0, ClosingSteps
<1>2. PICK flag \in Flags \cup {NoFlag} :
           /\ Close(c, flag)
           /\ \/ flag = NoFlag /\ UNCHANGED answers
              \/ \E m \in answers : m.conn = c /\ m.flag = flag /\ answers' = answers \ {m}
  BY <1>0, ClosingSteps
<1>3. /\ conn'[c].phase = "closed" /\ conn'[c].task = conn[c].task
      /\ conn'[c].flag \in {flag, NoFlag}
      /\ \A d \in Conns \ {c} : conn'[d].task = conn[d].task /\ conn'[d].flag = conn[d].flag
  BY <1>0, <1>1, <1>2, HandlerCloses
<1>4. \A d \in Conns : conn[d].phase \in Late => conn'[d].phase \in Late /\ conn'[d].task = conn[d].task
  BY DEF Evolves, Follows, Late
<1>5. \A d \in Conns : conn[d].phase = "closed" => conn'[d].phase = "closed"
  BY DEF Evolves, Follows
<1>6. answers' \subseteq answers
  BY <1>2
<1>7. flag # NoFlag => /\ flags[flag] # NoRow /\ flags[flag].task = conn[c].task
                       /\ \A d \in Conns : conn[d].flag # flag
                       /\ \A n \in answers' : n.flag # flag
  BY <1>2 DEF MailSound
<1>8. \A n \in answers' : n.flag # NoFlag => \A d \in Conns : conn'[d].flag # n.flag
  BY <1>3, <1>6, <1>7 DEF MailSound
<1>9. MailSound'
  BY <1>1, <1>4, <1>6, <1>8, FlagTypes DEF MailSound
<1>10. \A d \in Conns : conn'[d].flag # NoFlag =>
          /\ conn'[d].phase = "closed" /\ flags[conn'[d].flag] # NoRow
          /\ flags[conn'[d].flag].task = conn'[d].task
  BY <1>3, <1>5, <1>7 DEF FlagsSound
<1>11. \A d, e \in Conns : conn'[d].flag # NoFlag /\ conn'[d].flag = conn'[e].flag => d = e
  BY <1>3, <1>7 DEF FlagsSound
<1> QED BY <1>1, <1>9, <1>10, <1>11 DEF FlagsSound

(* A new row's flag is one nobody knows yet. *)
LEMMA CreateStep ==
    ASSUME CInv, MailSound, FlagsSound, NEW m \in posts, CreateFlag(m)
    PROVE  MailSound' /\ FlagsSound'
<1>0. MailTypes
  BY DEF CInv
<1>1. UNCHANGED conn /\ posts' \subseteq posts
  BY <1>0, CreateFacts
<1>2. PICK n \in Answer :
           /\ n.conn = m.conn /\ answers' = answers \cup {n}
           /\ \/ n.flag = NoFlag /\ UNCHANGED flags
              \/ /\ n.flag \in Flags /\ flags[n.flag] = NoRow
                 /\ flags' = [flags EXCEPT ![n.flag] = [task |-> m.task, owner |-> NoUser]]
  BY <1>0, CreateFacts
<1>3. conn[m.conn].phase \in Late /\ conn[m.conn].task = m.task /\ m.task \in Names
  BY FlagTypes DEF MailSound
<1>4. CASE n.flag = NoFlag /\ UNCHANGED flags
  BY <1>1, <1>2, <1>3, <1>4 DEF MailSound, FlagsSound
<1>5. CASE /\ n.flag \in Flags /\ flags[n.flag] = NoRow
           /\ flags' = [flags EXCEPT ![n.flag] = [task |-> m.task, owner |-> NoUser]]
  <2>1. [task |-> m.task, owner |-> NoUser] \in FlagRow
    BY <1>3 DEF FlagRow
  <2>2. /\ flags'[n.flag] # NoRow /\ flags'[n.flag].task = m.task
        /\ \A f \in Flags \ {n.flag} : flags'[f] = flags[f]
    BY <1>5, <2>1, FlagTypes
  <2>3. \A k \in answers : k.flag # n.flag
    BY <1>5 DEF MailSound
  <2>4. \A c \in Conns : conn[c].flag # n.flag
    BY <1>5 DEF FlagsSound
  <2>5. MailSound'
    BY <1>1, <1>2, <1>3, <2>2, <2>3, <2>4, FlagTypes DEF MailSound
  <2>6. FlagsSound'
    BY <1>1, <2>2, <2>4, FlagTypes DEF FlagsSound
  <2> QED BY <2>5, <2>6
<1> QED BY <1>2, <1>4, <1>5

(* A submission changes a row's owner only. *)
LEMMA SubmitStep ==
    ASSUME CInv, MailSound, FlagsSound, NEW u \in Users, NEW f \in Flags, SubmitFlag(u, f)
    PROVE  MailSound' /\ FlagsSound'
<1>1. UNCHANGED <<conn, posts, answers>>
  BY SubmitFacts DEF CInv
<1>2. \A g \in Flags : flags[g] # NoRow => flags'[g] # NoRow /\ flags'[g].task = flags[g].task
  BY SubmitFacts, RowsAreRows DEF CInv
<1>3. MailSound'
  BY <1>1, <1>2, FlagTypes DEF MailSound
<1>4. FlagsSound'
  BY <1>1, <1>2, FlagTypes DEF FlagsSound
<1> QED BY <1>3, <1>4

(* The steps that show no flag and touch neither answers nor rows. *)
LEMMA QuietSteps ==
    ASSUME CInv, [Next]_vars
    PROVE  \/ \E c \in Conns : Post(c) \/ Refuse(c) \/ GiveUp(c) \/ Receive(c)
           \/ \E c \in Conns : CommandEnded(c) /\ conn'[c].phase # "fetching"
           \/ \E m \in posts : CreateFlag(m)
           \/ \E u \in Users, f \in Flags : SubmitFlag(u, f)
           \/ /\ \A d \in Conns : conn'[d].flag = conn[d].flag
              /\ UNCHANGED <<answers, flags>> /\ posts' \subseteq posts
<1> DEFINE Quiet == /\ \A d \in Conns : conn'[d].flag = conn[d].flag
                    /\ UNCHANGED <<answers, flags>> /\ posts' \subseteq posts
<1>0. conn \in [Conns -> Handler]
  BY SemaphoreFacts DEF CInv
<1>1. ASSUME NEW c \in Conns, NEW phase, conn' = [conn EXCEPT ![c].phase = phase]
      PROVE  \A d \in Conns : conn'[d].flag = conn[d].flag
  BY <1>0, <1>1 DEF Handler
<1>2. ASSUME NEW c \in Conns, Accept(c) \/ AcceptFails(c) \/ HandleNil(c)
      PROVE  Quiet
  BY <1>1, <1>2 DEF Accept, AcceptFails, HandleNil, flagVars
<1>3. ASSUME NEW c \in Conns, TryAcquire(c) \/ Acquire(c) \/ WaitTimeout(c) \/ PostFails(c)
      PROVE  Quiet
  BY <1>1, <1>3 DEF TryAcquire, Acquire, WaitTimeout, PostFails, flagVars
<1>4. ASSUME NEW c \in Conns, NEW name \in Names, StartTask(c, name)
      PROVE  Quiet
  <2>1. \A d \in Conns : conn'[d].flag = conn[d].flag
    BY <1>0, <1>4 DEF StartTask, Handler
  <2> QED BY <1>4, <2>1 DEF StartTask, flagVars
<1>5. ASSUME NEW c \in Conns, StudentStep(c) \/ ProxyStep(c)
      PROVE  Quiet
  BY <1>5 DEF StudentStep, ProxyStep, flagVars
<1>6. ASSUME NEW c \in Conns, CommandEnded(c), conn'[c].phase = "fetching"
      PROVE  Quiet
  <2>1. conn' = [conn EXCEPT ![c].phase = "fetching"] \/ Close(c, NoFlag)
    BY <1>6 DEF CommandEnded
  <2>2. conn[c].phase \in HoldingPhases
    BY <1>6 DEF CommandEnded, At, HoldingPhases
  <2>3. ~Close(c, NoFlag)
    BY <1>6, <2>2, HandlerCloses DEF CInv
  <2> QED BY <1>1, <1>6, <2>1, <2>3 DEF CommandEnded, flagVars
<1>7. ASSUME Restart
      PROVE  Quiet
  <2>1. \A d \in Conns : conn'[d].flag = conn[d].flag
    BY <1>0, <1>7 DEF Restart, Handler
  <2> QED BY <1>7, <2>1 DEF Restart, flagVars
<1>8. ASSUME NEW m \in posts, LosePost(m)
      PROVE  Quiet
  BY <1>8 DEF LosePost, handlerVars, flagVars
<1>9. ASSUME UNCHANGED vars
      PROVE  Quiet
  BY <1>9 DEF vars, handlerVars, flagVars
<1> HIDE DEF Quiet
<1>10. \/ \E c \in Conns : Post(c) \/ Refuse(c) \/ GiveUp(c) \/ Receive(c)
       \/ \E c \in Conns : CommandEnded(c) /\ conn'[c].phase # "fetching"
       \/ \E m \in posts : CreateFlag(m)
       \/ \E u \in Users, f \in Flags : SubmitFlag(u, f)
       \/ Quiet
  BY <1>2, <1>3, <1>4, <1>5, <1>6, <1>7, <1>8, <1>9 DEF Next, Handle
<1> QED BY <1>10 DEF Quiet

(* Every step keeps requests, answers and shown flags apart. *)
LEMMA FlagStep ==
    ASSUME CInv, MailSound, FlagsSound, [Next]_vars
    PROVE  MailSound' /\ FlagsSound'
<1>1. \A c \in Conns : Evolves(c)
  BY CoreStep
<1>2. ASSUME NEW c \in Conns, Post(c)
      PROVE  MailSound' /\ FlagsSound'
  BY <1>1, <1>2, PostStep
<1>3. ASSUME NEW c \in Conns,
             \/ Refuse(c) \/ GiveUp(c) \/ Receive(c)
             \/ CommandEnded(c) /\ conn'[c].phase # "fetching"
      PROVE  MailSound' /\ FlagsSound'
  BY <1>1, <1>3, ReturnStep
<1>4. ASSUME NEW m \in posts, CreateFlag(m)
      PROVE  MailSound' /\ FlagsSound'
  BY <1>4, CreateStep
<1>5. ASSUME NEW u \in Users, NEW f \in Flags, SubmitFlag(u, f)
      PROVE  MailSound' /\ FlagsSound'
  BY <1>5, SubmitStep
<1>6. ASSUME \A c \in Conns : conn'[c].flag = conn[c].flag,
             UNCHANGED <<answers, flags>>, posts' \subseteq posts
      PROVE  MailSound' /\ FlagsSound'
  BY <1>1, <1>6, QuietStep
<1> QED BY <1>2, <1>3, <1>4, <1>5, <1>6, QuietSteps

(* A student is shown a flag of his own, for the task whose binary crashed: *)
(* however requests, answers, retries and restarts interleave, no row is    *)
(* handed out twice (main.go:90-103, api.go's createFlag).                  *)
THEOREM FlagsAreEarned == Spec => []FlagsEarned
<1>1. Init => MailSound /\ FlagsSound
  BY DEF Init, MailSound, FlagsSound
<1>2. CInv /\ MailSound /\ FlagsSound /\ [Next]_vars => (MailSound /\ FlagsSound)'
  BY FlagStep
<1>3. FlagsSound => FlagsEarned
  BY DEF FlagsSound, FlagsEarned
<1> QED BY <1>1, <1>2, <1>3, CoreInvariance, PTL DEF Spec
=============================================================================
