------------------------- MODULE ProcessRunnerProofs -------------------------
(***************************************************************************)
(* Proofs about ProcessRunner, for pipes of any size and any set of calls. *)
(***************************************************************************)
EXTENDS ProcessRunner, TLAPS

USE DEF gateway, program

\* A step keeps every variable within its type; no pipe is ever overfull.
LEMMA TypeStep == TypeOK /\ [Next]_vars => TypeOK'
<1> SUFFICES ASSUME TypeOK, [Next]_vars PROVE TypeOK'
  OBVIOUS
<1> USE ProcessRunnerAssumption DEF TypeOK, CallType
<1>1. CASE WriteStdin
  BY <1>1 DEF WriteStdin
<1>2. CASE CloseStdin
  BY <1>2 DEF CloseStdin
<1>3. CASE Collect
  BY <1>3 DEF Collect
<1>4. CASE Return
  BY <1>4 DEF Return
<1>5. ASSUME NEW s \in Streams, Copy(s) PROVE TypeOK'
  BY <1>5 DEF Copy
<1>6. ASSUME NEW s \in Streams, CopyEnds(s) PROVE TypeOK'
  BY <1>6 DEF CopyEnds
<1>7. ASSUME NEW s \in Streams, Emit(s) PROVE TypeOK'
  BY <1>7 DEF Emit
<1>8. CASE NextPhase
  BY <1>8 DEF NextPhase, Nothing
<1>9. CASE Read
  BY <1>9 DEF Read
<1>10. CASE Finish
  BY <1>10 DEF Finish, Exits
<1>11. CASE LastExit
  BY <1>11 DEF LastExit
<1>12. CASE Abort
  BY <1>12 DEF Abort, Exits
<1>13. CASE UNCHANGED vars
  BY <1>13 DEF vars
<1> QED
  BY <1>1, <1>2, <1>3, <1>4, <1>5, <1>6, <1>7, <1>8, <1>9, <1>10, <1>11, <1>12, <1>13
     DEF Next, GatewayStep, ReaderStep, ProgramStep, Returned

\* No step loses a chunk or lets the gateway stop reading too early.
LEMMA FlowStep == TypeOK /\ FlowOK /\ [Next]_vars => FlowOK'
<1> SUFFICES ASSUME TypeOK, FlowOK, [Next]_vars PROVE FlowOK'
  OBVIOUS
<1> USE ProcessRunnerAssumption DEF TypeOK, FlowOK, Held
<1>1. CASE WriteStdin
  BY <1>1 DEF WriteStdin
<1>2. CASE CloseStdin
  BY <1>2 DEF CloseStdin
<1>3. CASE Collect
  BY <1>3 DEF Collect
<1>4. CASE Return
  BY <1>4 DEF Return
<1>5. ASSUME NEW s \in Streams, Copy(s) PROVE FlowOK'
  BY <1>5 DEF Copy
<1>6. ASSUME NEW s \in Streams, CopyEnds(s) PROVE FlowOK'
  BY <1>6 DEF CopyEnds
<1>7. ASSUME NEW s \in Streams, Emit(s) PROVE FlowOK'
  BY <1>7 DEF Emit
<1>8. CASE NextPhase
  BY <1>8 DEF NextPhase
<1>9. CASE Read
  BY <1>9 DEF Read
<1>10. CASE Finish
  BY <1>10 DEF Finish, Exits
<1>11. CASE LastExit
  BY <1>11 DEF LastExit
<1>12. CASE Abort
  BY <1>12 DEF Abort, Exits
<1>13. CASE UNCHANGED vars
  BY <1>13 DEF vars
<1> QED
  BY <1>1, <1>2, <1>3, <1>4, <1>5, <1>6, <1>7, <1>8, <1>9, <1>10, <1>11, <1>12, <1>13
     DEF Next, GatewayStep, ReaderStep, ProgramStep, Returned

\* What the program has written and read stays in line with how far it is.
LEMMA ProgressStep == TypeOK /\ FlowOK /\ ProgressOK /\ [Next]_vars => ProgressOK'
<1> SUFFICES ASSUME TypeOK, FlowOK, ProgressOK, [Next]_vars PROVE ProgressOK'
  OBVIOUS
<1>0. call \in CallType
  BY ProcessRunnerAssumption DEF TypeOK
<1> USE <1>0 DEF CallType, TypeOK, ProgressOK, FlowOK, Held
<1>1. CASE WriteStdin
  BY <1>1 DEF WriteStdin
<1>2. CASE CloseStdin
  BY <1>2 DEF CloseStdin
<1>3. CASE Collect
  BY <1>3 DEF Collect
<1>4. CASE Return
  BY <1>4 DEF Return
<1>5. ASSUME NEW s \in Streams, ReaderStep(s) PROVE ProgressOK'
  BY <1>5 DEF ReaderStep, Copy, CopyEnds
<1>7. ASSUME NEW s \in Streams, Emit(s) PROVE ProgressOK'
  BY <1>7 DEF Emit
<1>8. CASE NextPhase
  BY <1>8 DEF NextPhase, Nothing
<1>9. CASE Read
  BY <1>9 DEF Read
<1>10. CASE Finish
  BY <1>10 DEF Finish, Exits
<1>11. CASE LastExit
  BY <1>11 DEF LastExit
<1>12. CASE Abort
  BY <1>12 DEF Abort, Exits
<1>13. CASE UNCHANGED vars
  BY <1>13 DEF vars
<1> QED
  BY <1>1, <1>2, <1>3, <1>4, <1>5, <1>7, <1>8, <1>9, <1>10, <1>11, <1>12, <1>13
     DEF Next, GatewayStep, ProgramStep, Returned

\* The invariant holds of every behaviour.
THEOREM Inductive == Spec => []IInv
<1>1. Init => IInv
  <2> SUFFICES ASSUME Init PROVE IInv
    OBVIOUS
  <2>1. TypeOK
    <3>1. Nothing \in [Streams -> Nat] /\ Nothing \in [Streams -> 0..Capacity]
      BY ProcessRunnerAssumption DEF Nothing
    <3>2. reader \in [Streams -> {"off", "copying", "done"}]
      BY DEF Init
    <3>3. input \in 0..Capacity
      BY ProcessRunnerAssumption DEF Init
    <3> QED
      BY <3>1, <3>2, <3>3 DEF Init, TypeOK
  <2>2. FlowOK
    BY DEF Init, FlowOK, Nothing
  <2>3. ProgressOK
    BY <2>1, ProcessRunnerAssumption DEF Init, ProgressOK, Nothing, CallType, TypeOK
  <2> QED
    BY <2>1, <2>2, <2>3 DEF IInv
<1>2. IInv /\ [Next]_vars => IInv'
  BY TypeStep, FlowStep, ProgressStep DEF IInv
<1> QED
  BY <1>1, <1>2, PTL DEF Spec

\* No output is lost and no buffer is read while a goroutine still fills it,
\* whatever the program does and however its output is cut into reads.
THEOREM OutputIsComplete == Spec => []ResultIsComplete
<1>1. IInv => ResultIsComplete
  <2> SUFFICES ASSUME IInv, pc \in {"wait", "returned"}
               PROVE  exit # "running" /\ \A s \in Streams : reader[s] # "copying" /\ got[s] = total[s]
    BY DEF ResultIsComplete
  <2>1. \A s \in Streams : reader[s] = "done" /\ pipe[s] = 0 /\ phase = "gone"
    BY DEF IInv, FlowOK, Held
  <2>2. exit # "running"
    <3>1. "stdout" \in Streams
      BY DEF Streams
    <3> QED
      BY <2>1, <3>1 DEF IInv, FlowOK
  <2>3. \A s \in Streams : got[s] \in Nat /\ got[s] + pipe[s] = total[s]
    BY DEF IInv, TypeOK, FlowOK
  <2> QED
    BY <2>1, <2>2, <2>3
<1> QED
  BY <1>1, Inductive, PTL

\* A call without an error is a whole run on the whole input.
THEOREM SuccessMeansWholeRun == Spec => []SuccessIsWhole
<1>1. IInv => SuccessIsWhole
  <2> SUFFICES ASSUME IInv, Succeeded
               PROVE  /\ sent = call.stdin
                      /\ call.reads = "all" => input = 0
                      /\ \A s \in Streams : got[s] = call.before[s] + call.after[s]
    BY DEF SuccessIsWhole
  <2>1. \A s \in Streams : pipe[s] = 0
    BY DEF IInv, FlowOK, Succeeded
  <2>2. \A s \in Streams : got[s] \in Nat /\ got[s] = total[s]
    BY <2>1 DEF IInv, TypeOK, FlowOK
  <2> QED
    BY <2>2 DEF IInv, ProgressOK, Succeeded
<1> QED
  BY <1>1, Inductive, PTL
=============================================================================
