---------------------------- MODULE ProcessRunner ----------------------------
(***************************************************************************)
(* RunProcess (internal/runner/process.go): how the gateway runs Codex, a  *)
(* test command or a visual review command.  The gateway writes all of     *)
(* stdin first, then starts two goroutines that drain stdout and stderr,   *)
(* waits for both to see the end of their pipe, and only then for the      *)
(* program.  A pipe is a bounded buffer of chunks: the writer of a full    *)
(* one blocks, and the reader of an empty one blocks until no process      *)
(* holds its other end.                                                    *)
(*                                                                         *)
(* That a call returns once the program (and whatever it started) has run  *)
(* is what WorkerRun's fairness takes for granted; here it is a property.  *)
(***************************************************************************)
EXTENDS Naturals

CONSTANTS
  Capacity,  \* chunks that a pipe holds
  Calls      \* the calls considered

Streams == {"stdout", "stderr"}

\* A call: the chunks of ProcessInput.Stdin, and what the program does with
\* them.  It writes `before` to each stream, reads stdin to its end, stops at
\* some point before it or never looks at it (`reads`), writes `after`, and
\* exits.  A program it started may outlive it (`lingers`) and hold the ends of
\* the pipes it inherited.
CallType ==
  [stdin: Nat, before: [Streams -> Nat], reads: {"all", "some", "none"},
   after: [Streams -> Nat], lingers: BOOLEAN]

ASSUME ProcessRunnerAssumption == Capacity \in Nat \ {0} /\ Calls \subseteq CallType

VARIABLES
  call,    \* the call (never changes)
  pc,      \* where RunProcess is
  sent,    \* chunks it has written to stdin
  closed,  \* TRUE iff it has closed stdin
  failed,  \* writeErr # nil
  reader,  \* the copyActivity goroutines
  got,     \* chunks in outBuf and errBuf
  pipe,    \* chunks in the pipes of stdout and stderr
  input,   \* chunks in the pipe of stdin
  phase,   \* where the program is
  wrote,   \* chunks it has written in this phase
  total,   \* history: chunks it has written at all
  exit     \* how the program ended: "running", "ok" or "error"

gateway == <<pc, sent, closed, failed>>
program == <<phase, wrote, total, exit>>
vars == <<call, gateway, reader, got, pipe, input, program>>

Nothing == [s \in Streams |-> 0]

Init ==
  /\ call \in Calls
  /\ pc = "write"
  /\ sent = 0 /\ closed = FALSE /\ failed = FALSE
  /\ reader = [s \in Streams |-> "off"]
  /\ got = Nothing /\ pipe = Nothing /\ input = 0
  /\ phase = "before" /\ wrote = Nothing /\ total = Nothing
  /\ exit = "running"

\* Some process still holds the program's ends of the pipes.
Held == phase # "gone"

-----------------------------------------------------------------------------
(* RunProcess                                                              *)

\* io.WriteString(stdin, input.Stdin) writes one chunk.
WriteStdin ==
  /\ pc = "write" /\ sent < call.stdin
  /\ Held /\ input < Capacity
  /\ sent' = sent + 1
  /\ input' = input + 1
  /\ UNCHANGED <<call, pc, closed, failed, reader, got, pipe, program>>

\* Mutant: writeErr is dropped.
CloseStdinUnchecked ==
  /\ pc = "write"
  /\ sent = call.stdin \/ ~ Held
  /\ closed' = TRUE
  /\ reader' = [s \in Streams |-> "copying"]
  /\ pc' = "collect"
  /\ UNCHANGED <<call, sent, failed, got, pipe, input, program>>

\* Mutant: stdin stays open.
LeaveStdinOpen ==
  /\ pc = "write"
  /\ \/ sent = call.stdin /\ UNCHANGED failed
     \/ sent < call.stdin /\ ~ Held /\ failed' = TRUE
  /\ reader' = [s \in Streams |-> "copying"]
  /\ pc' = "collect"
  /\ UNCHANGED <<call, sent, closed, got, pipe, input, program>>

\* It has written everything, or nobody holds the other end any more (EPIPE);
\* then stdin is closed and the goroutines are started.
CloseStdin ==
  /\ pc = "write"
  /\ \/ sent = call.stdin /\ UNCHANGED failed
     \/ sent < call.stdin /\ ~ Held /\ failed' = TRUE
  /\ closed' = TRUE
  /\ reader' = [s \in Streams |-> "copying"]
  /\ pc' = "collect"
  /\ UNCHANGED <<call, sent, got, pipe, input, program>>

\* One Read of copyActivity, which may return less than there is.
Copy(s) ==
  /\ reader[s] = "copying"
  /\ \E n \in 1..pipe[s] :
       /\ got' = [got EXCEPT ![s] = @ + n]
       /\ pipe' = [pipe EXCEPT ![s] = @ - n]
  /\ UNCHANGED <<call, gateway, reader, input, program>>

\* The Read that returns io.EOF.
CopyEnds(s) ==
  /\ reader[s] = "copying"
  /\ pipe[s] = 0 /\ ~ Held
  /\ reader' = [reader EXCEPT ![s] = "done"]
  /\ UNCHANGED <<call, gateway, got, pipe, input, program>>

\* Mutant: one of the two receives from `done` is missing.
CollectOne ==
  /\ pc = "collect"
  /\ \E s \in Streams : reader[s] = "done"
  /\ pc' = "wait"
  /\ UNCHANGED <<call, sent, closed, failed, reader, got, pipe, input, program>>

\* Both goroutines have sent on `done`.
Collect ==
  /\ pc = "collect"
  /\ \A s \in Streams : reader[s] = "done"
  /\ pc' = "wait"
  /\ UNCHANGED <<call, sent, closed, failed, reader, got, pipe, input, program>>

\* cmd.Wait returns: the buffers are turned into the result.
Return ==
  /\ pc = "wait" /\ exit # "running"
  /\ pc' = "returned"
  /\ UNCHANGED <<call, sent, closed, failed, reader, got, pipe, input, program>>

Returned == pc = "returned" /\ UNCHANGED vars

\* RunProcess reports no error.
Succeeded == pc = "returned" /\ ~ failed /\ exit = "ok"

-----------------------------------------------------------------------------
(* The program.                                                            *)

\* It writes one chunk of what its phase still has to write.
Emit(s) ==
  /\ exit = "running" /\ phase \in {"before", "after"}
  /\ wrote[s] < call[phase][s]
  /\ pipe[s] < Capacity
  /\ pipe' = [pipe EXCEPT ![s] = @ + 1]
  /\ wrote' = [wrote EXCEPT ![s] = @ + 1]
  /\ total' = [total EXCEPT ![s] = @ + 1]
  /\ UNCHANGED <<call, gateway, reader, got, input, phase, exit>>

\* It has written all of its phase, or has read all it wants of stdin.
NextPhase ==
  /\ exit = "running"
  /\ \/ /\ phase = "before" /\ wrote = call.before
        /\ phase' = IF call.reads = "none" THEN "after" ELSE "reading"
     \/ /\ phase = "reading"
        /\ call.reads = "some" \/ (closed /\ input = 0)
        /\ phase' = "after"
  /\ wrote' = Nothing
  /\ UNCHANGED <<call, gateway, reader, got, pipe, input, total, exit>>

Read ==
  /\ exit = "running" /\ phase = "reading"
  /\ input > 0
  /\ input' = input - 1
  /\ UNCHANGED <<call, gateway, reader, got, pipe, program>>

Exits(code) ==
  /\ exit' = code
  /\ phase' = IF call.lingers THEN "lingering" ELSE "gone"
  /\ UNCHANGED <<call, gateway, reader, got, pipe, input, wrote, total>>

\* It exits when it is done, successfully or not.
Finish ==
  /\ exit = "running" /\ phase = "after" /\ wrote = call.after
  /\ Exits("ok") \/ Exits("error")

\* It is killed or crashes in the middle of anything.
Abort ==
  /\ exit = "running"
  /\ Exits("error")

\* What it started and left behind exits too.
LastExit ==
  /\ phase = "lingering"
  /\ phase' = "gone"
  /\ UNCHANGED <<call, gateway, reader, got, pipe, input, wrote, total, exit>>

-----------------------------------------------------------------------------
GatewayStep == WriteStdin \/ CloseStdin \/ Collect \/ Return

ReaderStep(s) == Copy(s) \/ CopyEnds(s)

ProgramStep ==
  \/ \E s \in Streams : Emit(s)
  \/ NextPhase \/ Read \/ Finish \/ LastExit

Next ==
  \/ GatewayStep
  \/ \E s \in Streams : ReaderStep(s)
  \/ ProgramStep \/ Abort
  \/ Returned

Spec == Init /\ [][Next]_vars

\* Goroutines are scheduled.  A program that is not blocked goes on and exits
\* at its end, and so does what it leaves behind; nobody kills it before.
FairSpec ==
  /\ Spec
  /\ WF_vars(GatewayStep)
  /\ \A s \in Streams : WF_vars(ReaderStep(s))
  /\ WF_vars(ProgramStep)

-----------------------------------------------------------------------------
(* Correctness.                                                            *)

TypeOK ==
  /\ call \in Calls
  /\ pc \in {"write", "collect", "wait", "returned"}
  /\ sent \in Nat
  /\ closed \in BOOLEAN /\ failed \in BOOLEAN
  /\ reader \in [Streams -> {"off", "copying", "done"}]
  /\ got \in [Streams -> Nat] /\ pipe \in [Streams -> 0..Capacity]
  /\ input \in 0..Capacity
  /\ phase \in {"before", "reading", "after", "lingering", "gone"}
  /\ wrote \in [Streams -> Nat] /\ total \in [Streams -> Nat]
  /\ exit \in {"running", "ok", "error"}

\* From the moment the gateway waits for the program nothing writes to the
\* buffers it is about to read, and they hold all the program has written.
ResultIsComplete ==
  pc \in {"wait", "returned"} =>
    /\ exit # "running"
    /\ \A s \in Streams : reader[s] # "copying" /\ got[s] = total[s]

\* A call without an error means that all of the input was written, that a
\* program which asks for all of it has read it, and that its output, as the
\* gateway has it, is the output of a whole run.  A program that stops reading
\* and exits with 0 succeeds without the rest of its input, if that fits in the
\* pipe: the gateway cannot tell.
SuccessIsWhole ==
  Succeeded =>
    /\ sent = call.stdin
    /\ call.reads = "all" => input = 0
    /\ \A s \in Streams : got[s] = call.before[s] + call.after[s]

\* What the program writes while stdin is being written fits in its pipes.
EarlyOutput(c, s) == c.before[s] + (IF c.reads = "all" THEN 0 ELSE c.after[s])
Fits(c) ==
  \/ c.stdin <= Capacity
  \/ \A s \in Streams : EarlyOutput(c, s) <= Capacity

\* Every call returns, if the input fits in its pipe or the program prints no
\* more than fits before it reads it: writing all of stdin before the first
\* read of stdout does not deadlock with such a program, however it behaves.
Returns == Fits(call) => <>(pc = "returned")
-----------------------------------------------------------------------------
(* Why it is correct: an inductive invariant, in named parts.              *)

\* A chunk that was written is in a pipe or in a buffer, and a reader stops only
\* when its pipe is empty for good.
FlowOK ==
  /\ \A s \in Streams : got[s] + pipe[s] = total[s]
  /\ \A s \in Streams : reader[s] = "done" => pipe[s] = 0 /\ ~ Held
  /\ pc \in {"wait", "returned"} => \A s \in Streams : reader[s] = "done"
  /\ phase \in {"lingering", "gone"} <=> exit # "running"

\* How far the program is tells what it has written and read.
ProgressOK ==
  /\ phase = "before" => \A s \in Streams : total[s] = wrote[s]
  /\ phase = "reading" => \A s \in Streams : total[s] = call.before[s]
  /\ phase = "after" => \A s \in Streams : total[s] = call.before[s] + wrote[s]
  /\ exit = "ok" => \A s \in Streams : total[s] = call.before[s] + call.after[s]
  /\ call.reads = "all" /\ (phase = "after" \/ exit = "ok") => closed /\ input = 0
  /\ closed <=> pc # "write"
  /\ closed /\ ~ failed => sent = call.stdin

IInv == TypeOK /\ FlowOK /\ ProgressOK
=============================================================================
