------------------------------ MODULE CommandProxy ------------------------------
(***************************************************************************)
(* commandProxy of cmd/crashme/main.go: the goroutines that copy between a  *)
(* student's connection, a task's binary and the files kept of a submission.*)
(*                                                                          *)
(* The bytes are left out.  What remains is which of the copies go on, how  *)
(* the binary ends, and what the student's end of the connection still      *)
(* takes: the only ways the handler learns that a student is gone.          *)
(***************************************************************************)
CONSTANTS
    Conns,
    Files,      \* the binaries
    Writers     \* those that write without reading; the others read to the end

ASSUME ProxyAssumption == Writers \subseteq Files /\ "none" \notin Files

VARIABLES
    peer,       \* the student's end: "here"; "eof", he sends no more; "gone",
                \* he neither sends nor reads; "reset", writes to it fail
    proxy       \* the command of every connection

proxyVars == <<peer, proxy>>

NoCommand == [binary |-> "none", stdin |-> "closed", stdout |-> "closed",
              stderr |-> "closed", exit |-> "none"]

ProxyTypeOK ==
    /\ peer \in [Conns -> {"here", "eof", "gone", "reset"}]
    /\ proxy \in [Conns ->
         [binary: Files \cup {"none"}, stdin: {"copying", "stuck", "closed"},
          stdout: {"open", "closed"}, stderr: {"open", "closed"},
          exit: {"none", "quiet", "crash", "stdout", "stderr"}]]

ProxyInit ==
    /\ peer = [c \in Conns |-> "here"]
    /\ proxy = [c \in Conns |-> NoCommand]

Gone(c) == peer[c] \in {"gone", "reset"}
Runs(c) == proxy[c].binary # "none" /\ proxy[c].exit = "none"
Writes(c) == proxy[c].binary \in Writers

(* newCommandProxy and run: three pipes and three goroutines. *)
Start(c, file) ==
    proxy' = [proxy EXCEPT ![c] = [binary |-> file, stdin |-> "copying", stdout |-> "open",
                                   stderr |-> "open", exit |-> "none"]]

(* The connection is closed; the next one starts from here. *)
Forget(c) ==
    /\ peer' = [peer EXCEPT ![c] = "here"]
    /\ proxy' = [proxy EXCEPT ![c] = NoCommand]

SendEof(c) ==
    /\ peer[c] = "here"
    /\ peer' = [peer EXCEPT ![c] = "eof"]
    /\ UNCHANGED proxy

HangUp(c) ==
    /\ ~Gone(c)
    /\ peer' = [peer EXCEPT ![c] = "gone"]
    /\ UNCHANGED proxy

(* The copy to standard input ends - nothing more comes, or it cannot be    *)
(* written to the submit file - and the pipe is closed.                     *)
StdinEnds(c) ==
    /\ Runs(c) /\ proxy[c].stdin = "copying"
    /\ proxy' = [proxy EXCEPT ![c].stdin = "closed"]
    /\ UNCHANGED peer

(* The binary does not read, and the copy blocks on a full pipe. *)
StdinStuck(c) ==
    /\ Runs(c) /\ proxy[c].stdin = "copying"
    /\ Writes(c)
    /\ proxy' = [proxy EXCEPT ![c].stdin = "stuck"]
    /\ UNCHANGED peer

(* Mutant: the copy ends and leaves its pipe open. *)
StdoutFailsOpen(c) ==
    /\ Runs(c) /\ proxy[c].stdout = "open"
    /\ Gone(c)
    /\ peer' = [peer EXCEPT ![c] = "reset"]
    /\ UNCHANGED proxy

(* Output cannot be written to the connection: the pipe is closed. *)
StdoutFails(c) ==
    /\ Runs(c) /\ proxy[c].stdout = "open"
    /\ Gone(c)
    /\ peer' = [peer EXCEPT ![c] = "reset"]
    /\ proxy' = [proxy EXCEPT ![c].stdout = "closed"]

(* The same for the file that standard error goes to. *)
StderrFails(c) ==
    /\ Runs(c) /\ proxy[c].stderr = "open"
    /\ proxy' = [proxy EXCEPT ![c].stderr = "closed"]
    /\ UNCHANGED peer

(* The binary has ended, and Wait closes what is open of the pipes. *)
Ends(c, exit) == proxy' = [proxy EXCEPT ![c] = [NoCommand EXCEPT !.binary = proxy[c].binary,
                                                                !.exit = exit]]

(* It exits with zero or is interrupted; or it crashes. *)
CommandEnds(c) ==
    /\ Runs(c)
    /\ \E exit \in {"quiet", "crash"} : Ends(c, exit)
    /\ UNCHANGED peer

(* It writes to a pipe that was closed and is killed by SIGPIPE. *)
BrokenPipe(c) ==
    /\ Runs(c)
    /\ \/ proxy[c].stdout = "closed" /\ Ends(c, "stdout")
       \/ proxy[c].stderr = "closed" /\ Ends(c, "stderr")
    /\ UNCHANGED peer

CopyStep(c) ==
    \/ StdinEnds(c)
    \/ StdinStuck(c)
    \/ StdoutFails(c)
    \/ StderrFails(c)
    \/ CommandEnds(c)
    \/ BrokenPipe(c)

(* What happens by itself once the student is gone: reads from the          *)
(* connection and writes to it fail, a reader ends at the end of its input, *)
(* a writer writes.                                                         *)
WindsUp(c) ==
    \/ StdinEnds(c)
    \/ Writes(c) /\ StdoutFails(c)
    \/ ~Writes(c) /\ proxy[c].stdin = "closed" /\ CommandEnds(c)
    \/ Writes(c) /\ proxy[c].stdout = "closed" /\ BrokenPipe(c)
=============================================================================
