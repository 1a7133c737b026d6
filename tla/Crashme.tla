-------------------------------- MODULE Crashme --------------------------------
(***************************************************************************)
(* cmd/crashme: a TCP service that runs a task's binary on what a student   *)
(* types and, when the binary crashes, asks the web service for a flag; and *)
(* the flags table behind it (createFlag of internal/web/api.go,            *)
(* handleFlagSubmit of internal/web/render.go).                             *)
(*                                                                          *)
(* What is typed after the task's name is left out; how the binary runs is  *)
(* CommandProxy's.                                                          *)
(***************************************************************************)
EXTENDS Naturals, Sequences, SequencesExt, FiniteSets, CommandProxy

CONSTANTS
    Concurrency,    \* -concurrency: permits of the semaphore
    AcceptErrors,   \* acceptErrorsBudget
    Names,          \* what is typed for a task's name
    Binary,         \* the file doHandleConnection finds for a name, or NoFile
    KnownTasks,     \* the names some group's deadlines have
    Users, Flags,
    MaxAttempts,    \* bound: requests of one fetchFlag within its ten seconds
    NoFile, NoFlag, NoUser

ASSUME CrashmeAssumption ==
    /\ Concurrency \in Nat \ {0}
    /\ AcceptErrors \in Nat
    /\ MaxAttempts \in Nat \ {0}
    /\ KnownTasks \subseteq Names /\ "none" \notin Names
    /\ Binary \in [Names -> Files \cup {NoFile}]
    /\ NoFlag \notin Flags /\ NoUser \notin Users

VARIABLES
    alive,      \* the crashme process has not panicked
    budget,     \* currentAcceptErrorsBudget
    conn,       \* what every connection's handler is doing
    permits,    \* semaphore.Weighted: permits in use
    waiters,    \* and the handlers queueing for one
    posts,      \* flag requests on their way
    answers,    \* and the answers
    flags,      \* the flags table
    accepted    \* history: the users whose submission of a flag was accepted

handlerVars == <<alive, budget, conn, permits, waiters, proxyVars>>
flagVars == <<flags, accepted>>
vars == <<handlerVars, posts, answers, flagVars>>

Phase == {"none", "nil", "new", "acquire", "waiting", "name", "running", "fetching",
          "posted", "closed"}
NoRow == [task |-> "none", owner |-> NoUser]
Holding(c) == conn[c].phase \in {"name", "running", "fetching", "posted"}

TypeOK ==
    /\ alive \in BOOLEAN
    /\ budget \in 0..AcceptErrors
    /\ conn \in [Conns -> [phase: Phase, task: Names \cup {"none"}, attempt: 0..MaxAttempts,
                           flag: Flags \cup {NoFlag}]]
    /\ permits \in 0..Concurrency
    /\ waiters \in Seq(Conns)
    /\ posts \subseteq [conn: Conns, attempt: 1..MaxAttempts, task: Names]
    /\ answers \subseteq [conn: Conns, attempt: 1..MaxAttempts, flag: Flags \cup {NoFlag}]
    /\ flags \in [Flags -> [task: Names, owner: Users \cup {NoUser}] \cup {NoRow}]
    /\ accepted \subseteq Users \X Flags
    /\ ProxyTypeOK

Init ==
    /\ alive = TRUE
    /\ budget = AcceptErrors
    /\ conn = [c \in Conns |-> [phase |-> "none", task |-> "none", attempt |-> 0,
                                flag |-> NoFlag]]
    /\ permits = 0
    /\ waiters = <<>>
    /\ posts = {}
    /\ answers = {}
    /\ flags = [f \in Flags |-> NoRow]
    /\ accepted = {}
    /\ ProxyInit

At(c, phase) == alive /\ conn[c].phase = phase
-----------------------------------------------------------------------------
(* The accept loop *)

(* Mutant: the budget has no upper bound. *)
AcceptPays(c) ==
    /\ At(c, "none")
    /\ conn' = [conn EXCEPT ![c].phase = "new"]
    /\ budget' = budget + 1
    /\ UNCHANGED <<alive, permits, waiters, posts, answers, proxyVars, flagVars>>

Accept(c) ==
    /\ At(c, "none")
    /\ conn' = [conn EXCEPT ![c].phase = "new"]
    /\ budget' = IF budget < AcceptErrors THEN budget + 1 ELSE budget
    /\ UNCHANGED <<alive, permits, waiters, posts, answers, proxyVars, flagVars>>

(* Accept fails: the loop panics, or pays for it and starts a handler all   *)
(* the same, whose connection is nil.                                       *)
AcceptFails(c) ==
    /\ At(c, "none")
    /\ IF budget = 0
         THEN alive' = FALSE /\ UNCHANGED <<budget, conn>>
         ELSE /\ budget' = budget - 1
              /\ conn' = [conn EXCEPT ![c].phase = "nil"]
              /\ UNCHANGED alive
    /\ UNCHANGED <<permits, waiters, posts, answers, proxyVars, flagVars>>

(* handleConnection calls RemoteAddr of a nil connection; nobody recovers   *)
(* from the panic.                                                          *)
HandleNil(c) ==
    /\ At(c, "nil")
    /\ alive' = FALSE
    /\ UNCHANGED <<budget, conn, permits, waiters, posts, answers, proxyVars, flagVars>>

(* Docker restarts the process; its connections are gone, its requests may  *)
(* be on their way still.                                                   *)
Restart ==
    /\ ~alive
    /\ alive' = TRUE
    /\ budget' = AcceptErrors
    /\ conn' = [c \in Conns |-> IF conn[c].phase = "none" THEN conn[c]
                               ELSE [conn[c] EXCEPT !.phase = "closed"]]
    /\ permits' = 0
    /\ waiters' = <<>>
    /\ peer' = [c \in Conns |-> "here"] /\ proxy' = [c \in Conns |-> NoCommand]
    /\ UNCHANGED <<posts, answers, flagVars>>
-----------------------------------------------------------------------------
(* doHandleConnection *)

Free == permits < Concurrency /\ waiters = <<>>

(* TryAcquire, and, when it fails, Acquire, which tries again and queues. *)
TryAcquire(c) ==
    /\ At(c, "new")
    /\ conn' = [conn EXCEPT ![c].phase = IF Free THEN "name" ELSE "acquire"]
    /\ permits' = IF Free THEN permits + 1 ELSE permits
    /\ UNCHANGED <<alive, budget, waiters, posts, answers, proxyVars, flagVars>>

Acquire(c) ==
    /\ At(c, "acquire")
    /\ conn' = [conn EXCEPT ![c].phase = IF Free THEN "name" ELSE "waiting"]
    /\ permits' = IF Free THEN permits + 1 ELSE permits
    /\ waiters' = IF Free THEN waiters ELSE Append(waiters, c)
    /\ UNCHANGED <<alive, budget, posts, answers, proxyVars, flagVars>>

(* The minute is over: "failed to acquire semaphore". *)
WaitTimeout(c) ==
    /\ At(c, "waiting")
    /\ conn' = [conn EXCEPT ![c].phase = "closed"]
    /\ \E i \in DOMAIN waiters : waiters[i] = c /\ waiters' = RemoveAt(waiters, i)
    /\ Forget(c)
    /\ UNCHANGED <<alive, budget, permits, posts, answers, flagVars>>

(* Mutant: Release wakes nobody. *)
CloseQuietly(c, flag) ==
    /\ conn' = [conn EXCEPT ![c].phase = "closed", ![c].flag = flag]
    /\ permits' = permits - 1
    /\ Forget(c)
    /\ UNCHANGED waiters

(* The deferred Release, which hands the permit to the first in the queue,  *)
(* and the deferred Close.  flag is what is written to the connection last, *)
(* which a student who is gone does not see.                                *)
Close(c, flag) ==
    LET closed == [conn EXCEPT ![c].phase = "closed",
                               ![c].flag = IF Gone(c) THEN NoFlag ELSE flag]
    IN  /\ IF waiters = <<>>
             THEN conn' = closed /\ permits' = permits - 1 /\ UNCHANGED waiters
             ELSE /\ conn' = [closed EXCEPT ![Head(waiters)].phase = "name"]
                  /\ waiters' = Tail(waiters)
                  /\ UNCHANGED permits
        /\ Forget(c)

(* The first line names a task there is a binary for, which is started. *)
StartTask(c, name) ==
    /\ At(c, "name")
    /\ Binary[name] # NoFile
    /\ conn' = [conn EXCEPT ![c].phase = "running", ![c].task = name]
    /\ Start(c, Binary[name])
    /\ UNCHANGED <<alive, budget, permits, waiters, posts, answers, peer, flagVars>>

(* It does not, or the student hangs up before it, or a file cannot be      *)
(* created or the binary not started.                                       *)
Refuse(c) ==
    /\ At(c, "name")
    /\ Close(c, NoFlag)
    /\ UNCHANGED <<alive, budget, posts, answers, flagVars>>

(* Mutant: whether the student can still be written to is ignored. *)
CommandEndedIgnores(c) ==
    /\ At(c, "running")
    /\ proxy[c].exit # "none"
    /\ IF proxy[c].exit = "quiet"
         THEN Close(c, NoFlag)
         ELSE conn' = [conn EXCEPT ![c].phase = "fetching"]
              /\ UNCHANGED <<permits, waiters, proxyVars>>
    /\ UNCHANGED <<alive, budget, posts, answers, flagVars>>

(* proxy.run has returned.  When the binary failed, the student is told so, *)
(* and a write to the connection that fails ends it here.                   *)
CommandEnded(c) ==
    /\ At(c, "running")
    /\ proxy[c].exit # "none"
    /\ \/ /\ proxy[c].exit = "quiet" \/ Gone(c)
          /\ Close(c, NoFlag)
       \/ /\ proxy[c].exit # "quiet" /\ peer[c] # "reset"
          /\ conn' = [conn EXCEPT ![c].phase = "fetching"]
          /\ UNCHANGED <<permits, waiters, proxyVars>>
    /\ UNCHANGED <<alive, budget, posts, answers, flagVars>>

(* The student and the proxy of an open connection. *)
Open(c) == alive /\ conn[c].phase \notin {"none", "nil", "closed"}

StudentStep(c) ==
    /\ Open(c)
    /\ SendEof(c) \/ HangUp(c)
    /\ UNCHANGED <<alive, budget, conn, permits, waiters, posts, answers, flagVars>>

ProxyStep(c) ==
    /\ Open(c)
    /\ CopyStep(c)
    /\ UNCHANGED <<alive, budget, conn, permits, waiters, posts, answers, flagVars>>
-----------------------------------------------------------------------------
(* fetchFlag and doFetchFlag *)

(* A request goes out, with the name as it was typed. *)
Post(c) ==
    /\ At(c, "fetching")
    /\ conn[c].attempt < MaxAttempts
    /\ conn' = [conn EXCEPT ![c].phase = "posted", ![c].attempt = @ + 1]
    /\ posts' = posts \cup {[conn |-> c, attempt |-> conn[c].attempt + 1,
                             task |-> conn[c].task]}
    /\ UNCHANGED <<alive, budget, permits, waiters, answers, proxyVars, flagVars>>

(* Mutant: every failure starts the ten seconds anew. *)
PostFailsAnew(c) ==
    /\ At(c, "posted")
    /\ conn' = [conn EXCEPT ![c].phase = "fetching", ![c].attempt = 0]
    /\ UNCHANGED <<alive, budget, permits, waiters, posts, answers, proxyVars, flagVars>>

(* The request or its answer is lost, or is no JSON: the backoff tries      *)
(* again.  The web service may still get to the request.                    *)
PostFails(c) ==
    /\ At(c, "posted")
    /\ conn' = [conn EXCEPT ![c].phase = "fetching"]
    /\ UNCHANGED <<alive, budget, permits, waiters, posts, answers, proxyVars, flagVars>>

(* Ten seconds are over. *)
GiveUp(c) ==
    /\ At(c, "fetching")
    /\ conn[c].attempt > 0
    /\ Close(c, NoFlag)
    /\ UNCHANGED <<alive, budget, posts, answers, flagVars>>

(* Mutant: the answer to any request of the handler's task will do. *)
ReceiveAny(c) ==
    /\ At(c, "posted")
    /\ \E m \in answers :
          /\ m.flag # NoFlag => flags[m.flag].task = conn[c].task
          /\ Close(c, m.flag)
    /\ UNCHANGED <<alive, budget, posts, answers, flagVars>>

(* The answer to the request being waited for: a flag, which is written to  *)
(* the connection, or a refusal, after which nothing is tried again.        *)
Receive(c) ==
    /\ At(c, "posted")
    /\ \E m \in answers :
          /\ m.conn = c
          /\ m.attempt = conn[c].attempt
          /\ answers' = answers \ {m}
          /\ Close(c, m.flag)
    /\ UNCHANGED <<alive, budget, posts, flagVars>>
-----------------------------------------------------------------------------
(* The web service *)

(* createFlag: a new row for a task some group has, or a refusal (also when *)
(* the row cannot be inserted).                                             *)
CreateFlag(m) ==
    /\ posts' = posts \ {m}
    /\ \/ /\ m.task \in KnownTasks
          /\ \E f \in Flags :
                /\ flags[f] = NoRow
                /\ flags' = [flags EXCEPT ![f] = [task |-> m.task, owner |-> NoUser]]
                /\ answers' = answers \cup {[conn |-> m.conn, attempt |-> m.attempt, flag |-> f]}
       \/ /\ answers' = answers \cup {[conn |-> m.conn, attempt |-> m.attempt, flag |-> NoFlag]}
          /\ UNCHANGED flags
    /\ UNCHANGED <<handlerVars, accepted>>

LosePost(m) ==
    /\ posts' = posts \ {m}
    /\ UNCHANGED <<handlerVars, answers, flagVars>>

(* The flags some student was shown. *)
Shown == {conn[c].flag : c \in Conns} \ {NoFlag}

(* Mutant: the update does not ask for a flag without an owner. *)
SubmitFlagAgain(u, f) ==
    /\ f \in Shown
    /\ flags[f] # NoRow
    /\ flags' = [flags EXCEPT ![f].owner = u]
    /\ accepted' = accepted \cup {<<u, f>>}
    /\ UNCHANGED <<handlerVars, posts, answers>>

(* handleFlagSubmit and DataBase.SubmitFlag: one UPDATE ... WHERE           *)
(* gitlab_login IS NULL decides who gets the flag.  Students may pass a     *)
(* flag on, and submit it at the same time.                                 *)
SubmitFlag(u, f) ==
    /\ f \in Shown
    /\ flags[f] # NoRow /\ flags[f].owner = NoUser
    /\ flags' = [flags EXCEPT ![f].owner = u]
    /\ accepted' = accepted \cup {<<u, f>>}
    /\ UNCHANGED <<handlerVars, posts, answers>>
-----------------------------------------------------------------------------
Handle(c) ==
    \/ HandleNil(c)
    \/ TryAcquire(c)
    \/ Acquire(c)
    \/ WaitTimeout(c)
    \/ Post(c)
    \/ GiveUp(c)
    \/ Receive(c)

Next ==
    \/ \E c \in Conns :
         \/ Accept(c)
         \/ AcceptFails(c)
         \/ Handle(c)
         \/ \E name \in Names : StartTask(c, name)
         \/ Refuse(c)
         \/ CommandEnded(c)
         \/ StudentStep(c)
         \/ ProxyStep(c)
         \/ PostFails(c)
    \/ Restart
    \/ \E m \in posts : CreateFlag(m) \/ LosePost(m)
    \/ \E u \in Users, f \in Flags : SubmitFlag(u, f)

Spec == Init /\ [][Next]_vars

(* What follows by itself once a student is gone. *)
Abandoned(c) ==
    /\ alive /\ Gone(c)
    /\ \/ Refuse(c)
       \/ CommandEnded(c)
       \/ ProxyStep(c) /\ WindsUp(c)

(* Handlers are goroutines that go on by themselves; the minute and the ten *)
(* seconds pass.  Students who stay promise nothing, and neither does the   *)
(* network: a request ends with an answer or with an error.                 *)
FairSpec ==
    /\ Spec
    /\ \A c \in Conns : WF_vars(Handle(c)) /\ WF_vars(PostFails(c)) /\ WF_vars(Abandoned(c))
-----------------------------------------------------------------------------
(* Every permit of the semaphore belongs to a handler that will release it, *)
(* whichever of its returns it takes; nobody queues twice, and nobody is    *)
(* left in the queue while a permit is free (main.go:216-226).              *)
PermitsAccounted ==
    /\ permits = Cardinality({c \in Conns : Holding(c)})
    /\ ToSet(waiters) = {c \in Conns : conn[c].phase = "waiting"}
    /\ IsInjective(waiters)
    /\ waiters # <<>> => permits = Concurrency

(* A student is shown a flag of his own, for the task whose binary crashed: *)
(* retries and late answers hand no flag out twice, and one crash earns at  *)
(* most one, however many rows the retries have made (main.go:90-103).      *)
FlagsEarned ==
    /\ \A c, d \in Conns : conn[c].flag # NoFlag /\ conn[c].flag = conn[d].flag => c = d
    /\ \A c \in Conns : conn[c].flag # NoFlag =>
         /\ flags[conn[c].flag] # NoRow
         /\ Binary[flags[conn[c].flag].task] = Binary[conn[c].task]

(* Whoever was told that his flag was accepted keeps it, so a flag passed   *)
(* around counts for one student (database.go:266, render.go:66-72).        *)
OneOwner == \A r \in accepted : flags[r[2]].owner = r[1]

(* Nobody waits for ever on the service: a connection that is accepted,     *)
(* queues or has earned a flag is served or refused, while students who     *)
(* type nothing may hold their permits as long as they like.                *)
Answered ==
    \A c \in Conns :
       conn[c].phase \in {"new", "acquire", "waiting", "fetching", "posted"}
         ~> conn[c].phase \in {"name", "running", "closed"} \/ ~alive

(* A permit comes back from a student who hung up, wherever the handler is: *)
(* at the end of its input a binary that reads ends, and one that only      *)
(* writes - on which the copy of the input may be stuck - meets the pipe    *)
(* that handleStdout closed (main.go:338-377).                              *)
GoneReleases ==
    \A c \in Conns : (Holding(c) /\ Gone(c)) ~> (~Holding(c) \/ ~alive)

(* A binary that was killed because the student hung up earns no flag row:  *)
(* whenever one is asked for, the binary crashed, or standard error could   *)
(* not be kept (main.go:276-281, 373-377).                                  *)
OnlyCrashesFetch ==
    \A c \in Conns :
      conn[c].phase \in {"fetching", "posted"} => proxy[c].exit \in {"crash", "stderr"}

(* The process outlives accept errors as long as acceptErrorsBudget lasts   *)
(* (main.go:123-139).                                                       *)
AcceptErrorsTolerated == ~alive => budget = 0
=============================================================================
