---------------------------- MODULE GatewayProofs ----------------------------
(***************************************************************************)
(* Proofs about Gateway, for every set of deliveries and of concurrent     *)
(* requests, every set of events, every number of jobs and repairs, and    *)
(* every number of crashes and failed writes.                              *)
(* Three lemmas say what a write of the queue does to all rows; one lemma  *)
(* per part of the inductive invariant IInv shows that a step preserves    *)
(* the part; the theorems follow from their conjunction.                   *)
(***************************************************************************)
EXTENDS Gateway, FiniteSetTheorems, TLAPS

USE DEF tables, handlers, worker, github, mishaps

-----------------------------------------------------------------------------
(* What a step does to the rows.                                           *)

\* Row j goes to state `to`; nothing else that the handlers or the invariant
\* read in a row changes.
Moved(j, to) ==
  /\ jobs' \in [JobIds -> Row]
  /\ \A i \in JobIds :
       /\ jobs'[i].state = IF i = j THEN to ELSE jobs[i].state
       /\ jobs'[i].delivery = jobs[i].delivery
       /\ jobs'[i].command = jobs[i].command
       /\ jobs'[i].pr = jobs[i].pr

\* No row appears, disappears or changes hands.
RowsStay ==
  \A i \in JobIds :
    /\ Exists(i)' <=> Exists(i)
    /\ jobs'[i].delivery = jobs[i].delivery
    /\ jobs'[i].command = jobs[i].command

\* The states the worker writes are states.
LEMMA States ==
  /\ {"starting", "planning", "implementing", "testing", "creating_pr"} = Running
  /\ Running \subseteq State /\ Terminal \subseteq State /\ "queued" \in State
  /\ {"waiting_human", "done", "failed"} = Terminal
  /\ "absent" \notin State
BY DEF State, Running, Terminal

\* A command that is found is a command.
LEMMA CommandsFound ==
  ASSUME TypeOK, NEW d \in Deliveries, CommandFound(event[d])
  PROVE  event[d].command \in Commands
<1>1. event[d] \in EventType
  BY GatewayAssumption DEF TypeOK
<1>2. event[d].command \in Commands \cup {"none"}
  BY <1>1 DEF EventType
<1> QED
  BY <1>2 DEF CommandFound

\* Every write of the state column moves one row.
LEMMA StateWritten ==
  ASSUME TypeOK, NEW j \in JobIds, NEW to \in State,
         jobs' = [jobs EXCEPT ![j].state = to]
  PROVE  Moved(j, to)
BY DEF TypeOK, QueueTypeOK, Moved, Row

\* The worker writes the number of its pull request; nothing else of a row changes.
Numbered ==
  /\ wjob \in pulls /\ wjob \in JobIds
  /\ jobs' \in [JobIds -> Row]
  /\ \A i \in JobIds :
       /\ jobs'[i].state = jobs[i].state
       /\ jobs'[i].delivery = jobs[i].delivery
       /\ jobs'[i].command = jobs[i].command
       /\ jobs'[i].pr = jobs[i].pr \/ i = wjob
  /\ UNCHANGED <<deliveries, events, leases, pulls, wjob>>

LEMMA NumberWritten ==
  ASSUME TypeOK, LeasesOK, wpull = "opened", SetPRNumber(wjob),
         UNCHANGED <<leases, pulls, wjob>>
  PROVE  Numbered
<1>1. wjob \in pulls /\ wjob \in JobIds
  BY DEF LeasesOK, TypeOK
<1> QED
  BY <1>1 DEF TypeOK, QueueTypeOK, Numbered, SetPRNumber, Row

\* A row that is inserted is a row, and the others stay as they are.
LEMMA RowInserted ==
  ASSUME TypeOK, NEW j \in JobIds, NEW d \in Deliveries, NEW c \in Commands,
         CreateJob(j, d, c)
  PROVE  /\ jobs' \in [JobIds -> Row]
         /\ jobs[j].state = "absent"
         /\ jobs'[j].state = "queued" /\ jobs'[j].delivery = d /\ jobs'[j].command = c
         /\ jobs'[j].pr = FALSE
         /\ \A i \in JobIds \ {j} : jobs'[i] = jobs[i]
BY States DEF TypeOK, QueueTypeOK, CreateJob, Row, Exists

\* A row that moves between states stays in the table.
LEMMA MovedStays ==
  ASSUME NEW j \in JobIds, NEW to \in State, Exists(j), Moved(j, to)
  PROVE  RowsStay
BY States DEF Moved, RowsStay, Exists

\* The lifecycle as pairs of states.
Allowed(from, to) ==
  \/ from = "queued" /\ to = "starting"
  \/ from = "starting" /\ to \in {"planning", "implementing", "failed"}
  \/ from = "planning" /\ to \in {"done", "waiting_human", "failed"}
  \/ from = "implementing" /\ to \in {"testing", "creating_pr", "waiting_human", "failed"}
  \/ from = "testing" /\ to \in {"implementing", "creating_pr", "waiting_human", "failed"}
  \/ from = "creating_pr" /\ to \in {"done", "failed"}

\* What a step of the worker on its own job amounts to: the row goes to a state
\* that follows and fits its command, and the worker keeps a job only while it is
\* running.
WorkerMove(to) ==
  /\ wjob \in JobIds /\ IsRunning(wjob)
  /\ to \in Running \cup Terminal
  /\ Moved(wjob, to)
  /\ Allowed(jobs[wjob].state, to)
  /\ to = "planning" => jobs[wjob].command = "plan"
  /\ to \in {"implementing", "testing", "creating_pr"} =>
       jobs[wjob].command \in ImplementCommands
  /\ \/ wjob' = NoJob /\ wpull' = "none" /\ (to \in Terminal \/ Fault)
     \/ /\ wjob' = wjob /\ wpull' = wpull /\ to \in Running
        /\ jobs[wjob].state = "starting" => <<wjob, "starting", to>> \in events'
  /\ events \subseteq events'
  /\ UNCHANGED <<deliveries, pulls>>

\* Every worker step but a lease is such a move or leaves the tables alone, and
\* none touches the events GitHub sent, the handlers or what they answered.
LEMMA WorkerEffect ==
  ASSUME TypeOK, RowsOK, LeasesOK, WorkerStep
  PROVE  /\ UNCHANGED <<event, handlers, replies, accepted>>
         /\ \/ \E j \in JobIds : Lease(j)
            \/ (\E to \in State : WorkerMove(to)) /\ UNCHANGED leases
            \/ Numbered
            \/ /\ UNCHANGED <<tables, leases, pulls>>
               /\ \/ wjob' = NoJob /\ wpull' = "none" /\ Fault
                  \/ wjob' = wjob /\ wpull = "opened"
            \/ /\ UNCHANGED <<tables, leases, wjob>>
               /\ At("creating_pr") /\ pulls' = pulls \cup {wjob}
<1> USE States
<1>0. wjob # NoJob => wjob \in JobIds /\ IsRunning(wjob) /\ jobs[wjob].state \in Running
  BY DEF TypeOK, LeasesOK, IsRunning
<1>1. CASE \E j \in JobIds : Lease(j)
  BY <1>1 DEF Lease, WorkerUnchanged
<1>2. CASE Start
  <2> DEFINE phase == IF jobs[wjob].command = "plan" THEN "planning" ELSE "implementing"
  <2>1. Moved(wjob, phase)
    BY <1>0, <1>2, StateWritten DEF Start, Transition, At
  <2>2. WorkerMove(phase)
    BY <1>0, <1>2, <2>1 DEF Start, GoesOn, Transition, At, WorkerMove, Allowed, Release
  <2> QED
    BY <1>2, <2>2 DEF Start, WorkerUnchanged
<1>3. CASE StartUnlogged
  <2> DEFINE phase == IF jobs[wjob].command = "plan" THEN "planning" ELSE "implementing"
  <2>1. Moved(wjob, phase)
    BY <1>0, <1>3, StateWritten DEF StartUnlogged, Transition, At
  <2>2. WorkerMove(phase)
    BY <1>0, <1>3, <2>1 DEF StartUnlogged, Transition, At, WorkerMove, Allowed, Release
  <2> QED
    BY <1>3, <2>2 DEF StartUnlogged, WorkerUnchanged
<1>4. CASE Fail
  <2>1. Moved(wjob, "failed")
    BY <1>0, <1>4, StateWritten DEF Fail, SetState
  <2>2. WorkerMove("failed")
    BY <1>0, <1>4, <2>1 DEF Fail, SetState, WorkerMove, Allowed, Release, Running
  <2> QED
    BY <1>4, <2>2 DEF Fail, WorkerUnchanged
<1>5. CASE Test
  <2>1. Moved(wjob, "testing")
    BY <1>0, <1>5, StateWritten DEF Test, SetState, At
  <2>2. WorkerMove("testing")
    BY <1>0, <1>5, <2>1 DEF Test, GoesOn, SetState, At, WorkerMove, Allowed, Release, RowsOK
  <2> QED
    BY <1>5, <2>2 DEF Test, WorkerUnchanged
<1>6. CASE Repair
  <2>1. Moved(wjob, "implementing")
    BY <1>0, <1>6, StateWritten DEF Repair, SetState, At
  <2>2. WorkerMove("implementing")
    BY <1>0, <1>6, <2>1 DEF Repair, SetState, At, WorkerMove, Allowed, Release, RowsOK
  <2> QED
    BY <1>6, <2>2 DEF Repair, WorkerUnchanged
<1>7. CASE AskHuman
  <2>1. Moved(wjob, "waiting_human")
    BY <1>0, <1>7, StateWritten DEF AskHuman, SetState, At
  <2>2. WorkerMove("waiting_human")
    BY <1>0, <1>7, <2>1 DEF AskHuman, SetState, At, WorkerMove, Allowed, Release, Running
  <2> QED
    BY <1>7, <2>2 DEF AskHuman, WorkerUnchanged
<1>8. CASE FinishPlan
  <2>1. Moved(wjob, "done")
    BY <1>0, <1>8, StateWritten DEF FinishPlan, SetState, At
  <2>2. WorkerMove("done")
    BY <1>0, <1>8, <2>1 DEF FinishPlan, SetState, At, WorkerMove, Allowed, Release, Running
  <2> QED
    BY <1>8, <2>2 DEF FinishPlan, WorkerUnchanged
<1>9. CASE AcceptDiff
  <2>1. Moved(wjob, "creating_pr")
    BY <1>0, <1>9, StateWritten DEF AcceptDiff, SetState, At
  <2>2. WorkerMove("creating_pr")
    BY <1>0, <1>9, <2>1 DEF AcceptDiff, GoesOn, SetState, At, WorkerMove, Allowed, Release, RowsOK
  <2> QED
    BY <1>9, <2>2 DEF AcceptDiff, WorkerUnchanged
<1>10. CASE OpenPullRequest
  BY <1>10 DEF OpenPullRequest, WorkerUnchanged
<1>11. CASE Finish
  <2>1. Moved(wjob, "done")
    BY <1>0, <1>11, StateWritten DEF Finish, SetState, At
  <2>2. WorkerMove("done")
    BY <1>0, <1>11, <2>1 DEF Finish, SetState, At, WorkerMove, Allowed, Release, Running
  <2> QED
    BY <1>11, <2>2 DEF Finish, WorkerUnchanged
<1>13. CASE NumberPullRequest
  <2>1. wpull = "opened" /\ UNCHANGED <<leases, pulls, wjob>>
    BY <1>13 DEF NumberPullRequest
  <2>2. SetPRNumber(wjob) \/ UNCHANGED tables
    BY <1>13 DEF NumberPullRequest
  <2> QED
    BY <1>13, <2>1, <2>2, NumberWritten DEF NumberPullRequest, WorkerUnchanged
<1>12. CASE WriteFails
  BY <1>12 DEF WriteFails, WorkerUnchanged, Release
<1> QED
  BY <1>1, <1>2, <1>3, <1>4, <1>5, <1>6, <1>7, <1>8, <1>9, <1>10, <1>11, <1>12, <1>13
     DEF WorkerStep

\* The worker never counts a crash, and counts one failed write at a time.
LEMMA WorkerMishaps ==
  ASSUME WorkerStep
  PROVE  UNCHANGED mishaps \/ Fault
BY DEF WorkerStep, Lease, Start, StartUnlogged, Fail, Test, Repair, AskHuman,
   FinishPlan, AcceptDiff, OpenPullRequest, NumberPullRequest, Finish, WriteFails, GoesOn

\* A lease takes a queued row to starting, for the worker unless its commit reports
\* an error.
LEMMA LeaseEffect ==
  ASSUME TypeOK, NEW j \in JobIds, Lease(j)
  PROVE  /\ Moved(j, "starting")
         /\ jobs[j].state = "queued"
         /\ wjob = NoJob /\ wpull' = wpull
         /\ wjob' = j \/ (wjob' = wjob /\ Fault)
         /\ leases' = [leases EXCEPT ![j] = @ + 1]
         /\ events' = events \cup {<<j, "queued", "starting">>}
         /\ UNCHANGED <<deliveries, pulls>>
BY StateWritten, States DEF Lease, LeaseNext, NextQueued

\* So the worker moves rows, and never adds or removes one.
LEMMA WorkerFrame ==
  ASSUME TypeOK, RowsOK, LeasesOK, WorkerStep
  PROVE  RowsStay /\ UNCHANGED <<deliveries, event, handlers, replies, accepted>>
<1>1. ASSUME NEW j \in JobIds, Lease(j) PROVE RowsStay /\ UNCHANGED deliveries
  BY <1>1, LeaseEffect, MovedStays, States DEF Exists
<1>2. ASSUME NEW to \in State, WorkerMove(to) PROVE RowsStay /\ UNCHANGED deliveries
  BY <1>2, MovedStays, States DEF WorkerMove, Exists, IsRunning
<1>3. ASSUME UNCHANGED tables PROVE RowsStay /\ UNCHANGED deliveries
  <2>1. jobs' = jobs /\ deliveries' = deliveries
    BY <1>3
  <2> QED
    BY <2>1 DEF RowsStay, Exists
<1>4. ASSUME Numbered PROVE RowsStay /\ UNCHANGED deliveries
  BY <1>4 DEF Numbered, RowsStay, Exists
<1> QED
  BY <1>1, <1>2, <1>3, <1>4, WorkerEffect

\* What a restart leaves: the tables, and no handler at work.
LEMMA RestartEffect ==
  ASSUME CrashAndRestart
  PROVE  /\ RowsStay
         /\ UNCHANGED <<tables, event, github, leases>>
         /\ wpull' = "none"
         /\ \A h \in Handlers : hpc'[h] = "idle" /\ hdel'[h] = NoDelivery /\ hid'[h] = NoJob
         /\ wjob' = NoJob
<1>1. jobs' = jobs
  BY DEF CrashAndRestart
<1> QED
  BY <1>1 DEF CrashAndRestart, RowsStay, Exists, Release

-----------------------------------------------------------------------------
\* A step keeps every variable within its type.  That a handler inserts a row for
\* the delivery it has, under the identifier it stamped, is HandlersOK.
LEMMA TypeStep == IInv /\ [Next]_vars => TypeOK'
<1> SUFFICES ASSUME TypeOK, HandlersOK, RowsOK, LeasesOK, [Next]_vars PROVE TypeOK'
  BY DEF IInv
<1> USE GatewayAssumption, States DEF TypeOK, QueueTypeOK, Promises
<1>1. ASSUME NEW h \in Handlers, NEW d \in Deliveries, Receive(h, d) PROVE TypeOK'
  BY <1>1 DEF Receive
<1>2. ASSUME NEW h \in Handlers, RecordNewDelivery(h) PROVE TypeOK'
  <2>1. hdel[h] \in Deliveries
    BY <1>2 DEF RecordNewDelivery, HandlersOK
  <2>2. CASE ~ CommandFound(event[hdel[h]])
    <3>1. Answer(h, "ignored")
      BY <1>2, <2>2 DEF RecordNewDelivery
    <3> QED
      BY <1>2, <2>1, <3>1 DEF RecordNewDelivery, RecordDelivery, Answer
  <2>3. CASE CommandFound(event[hdel[h]])
    <3> DEFINE next == IF Authorize(event[hdel[h]], FALSE) THEN "create" ELSE "deny"
    <3>1. hpc' = [hpc EXCEPT ![h] = next] /\ UNCHANGED <<replies, hdel, hid>>
      BY <1>2, <2>3 DEF RecordNewDelivery
    <3>2. next \in {"create", "deny"}
      OBVIOUS
    <3> HIDE DEF next
    <3>3. hpc' \in [Handlers -> {"idle", "record", "create", "insert", "acknowledge", "answer", "deny"}]
      BY <3>1, <3>2
    <3> QED
      BY <1>2, <2>1, <3>1, <3>3 DEF RecordNewDelivery, RecordDelivery
  <2> QED
    BY <2>2, <2>3
<1>3. ASSUME NEW h \in Handlers, RecordDuplicate(h) PROVE TypeOK'
  BY <1>3 DEF RecordDuplicate, Answer, HandlersOK
<1>4. ASSUME NEW h \in Handlers, RecordFails(h) PROVE TypeOK'
  BY <1>4 DEF RecordFails, RecordDelivery, Answer, Fault, HandlersOK
<1>5. ASSUME NEW h \in Handlers, Deny(h) PROVE TypeOK'
  BY <1>5 DEF Deny, Answer, HandlersOK
<1>6. ASSUME NEW h \in Handlers, StampJob(h) PROVE TypeOK'
  BY <1>6 DEF StampJob, JobIds
<1>7. ASSUME NEW h \in Handlers, InsertJob(h) PROVE TypeOK'
  <2>1. hdel[h] \in Deliveries /\ hid[h] \in JobIds /\ event[hdel[h]].command \in Commands
    BY <1>7, CommandsFound DEF InsertJob, HandlersOK, Executable
  <2>2. jobs' \in [JobIds -> Row]
    BY <1>7, <2>1, RowInserted DEF InsertJob
  <2> QED
    BY <1>7, <2>2 DEF InsertJob, CreateJob
<1>8. ASSUME NEW h \in Handlers, InsertFails(h) PROVE TypeOK'
  <2>1. hdel[h] \in Deliveries /\ hid[h] \in JobIds /\ event[hdel[h]].command \in Commands
    BY <1>8, CommandsFound DEF InsertFails, HandlersOK, Executable
  <2>2. jobs' \in [JobIds -> Row] /\ UNCHANGED <<deliveries, events>>
    <3>1. CASE UNCHANGED tables
      BY <3>1
    <3>2. CASE CreateJob(hid[h], hdel[h], event[hdel[h]].command)
      BY <2>1, <3>2, RowInserted DEF CreateJob
    <3> QED
      BY <1>8, <3>1, <3>2 DEF InsertFails
  <2> QED
    BY <1>8, <2>1, <2>2 DEF InsertFails, Answer, Fault
<1>13. ASSUME NEW h \in Handlers, InsertCollides(h) PROVE TypeOK'
  BY <1>13 DEF InsertCollides, Answer, HandlersOK
<1>14. ASSUME NEW h \in Handlers, AnswerQueued(h) PROVE TypeOK'
  BY <1>14 DEF AnswerQueued, Answer, HandlersOK
<1>9. ASSUME NEW h \in Handlers, Acknowledge(h) PROVE TypeOK'
  BY <1>9 DEF Acknowledge, HandlersOK
<1>10. CASE WorkerStep
  <2>1. UNCHANGED <<deliveries, event, hpc, hdel, hid, replies, accepted>>
    BY <1>10, WorkerFrame
  <2>2. /\ jobs' \in [JobIds -> Row]
        /\ wjob' \in JobIds \cup {NoJob}
        /\ pulls' \subseteq JobIds
        /\ leases' \in [JobIds -> Nat]
    <3>1. ASSUME NEW j \in JobIds, Lease(j) PROVE <2>2!:
      BY <3>1, LeaseEffect DEF Moved
    <3>2. ASSUME NEW to \in State, WorkerMove(to), UNCHANGED leases PROVE <2>2!:
      BY <3>2 DEF WorkerMove, Moved
    <3>3. ASSUME Numbered PROVE <2>2!:
      BY <3>3 DEF Numbered
    <3> QED
      BY <1>10, <3>1, <3>2, <3>3, WorkerEffect DEF At
  <2>3. wrepairs' \in 0..MaxRepairs /\ wpull' \in {"none", "opened", "numbered"}
    <3>1. (wrepairs' \in {wrepairs, 0} /\ wpull' \in {wpull, "none", "opened", "numbered"}) \/ Repair
      BY <1>10 DEF WorkerStep, Lease, Start, StartUnlogged, Fail, Test, AskHuman, GoesOn,
         FinishPlan, AcceptDiff, OpenPullRequest, NumberPullRequest, Finish, WriteFails, Release
    <3>2. CASE Repair
      BY <3>2 DEF Repair, Release
    <3> QED
      BY <3>1, <3>2
  <2>4. crashes' \in 0..MaxCrashes /\ faults' \in 0..MaxFaults
    BY <1>10, WorkerMishaps DEF Fault
  <2>5. events' \subseteq JobIds \X State \X State
    <3> USE DEF Transition, SetState, LeaseNext, SetPRNumber, At
    <3>1. CASE Start
      BY <1>10, <3>1 DEF Start
    <3>2. CASE \E j \in JobIds : Lease(j)
      BY <1>10, <3>2 DEF Lease
    <3>3. CASE ~ Start /\ ~ (\E j \in JobIds : Lease(j))
      BY <1>10, <3>3 DEF WorkerStep, StartUnlogged, Fail, Test, Repair, AskHuman,
         FinishPlan, AcceptDiff, OpenPullRequest, NumberPullRequest, Finish, WriteFails
    <3> QED
      BY <3>1, <3>2, <3>3
  <2> QED
    BY <2>1, <2>2, <2>3, <2>4, <2>5
<1>11. CASE CrashAndRestart
  BY <1>11 DEF CrashAndRestart, Release
<1>12. CASE UNCHANGED vars
  BY <1>12 DEF vars
<1> QED
  BY <1>1, <1>2, <1>3, <1>4, <1>5, <1>6, <1>7, <1>8, <1>9, <1>10, <1>11, <1>12, <1>13, <1>14
     DEF Next, HandlerStep

-----------------------------------------------------------------------------
(* The handlers.                                                           *)

\* A handler that answers is done; what the others rely on is still there.
LEMMA HandlersAnswer ==
  ASSUME TypeOK, HandlersOK, NEW h \in Handlers, NEW a, Answer(h, a),
         UNCHANGED <<jobs, event>>, deliveries \subseteq deliveries'
  PROVE  HandlersOK'
<1>1. hpc'[h] = "idle" /\ \A g \in Handlers \ {h} : hpc'[g] = hpc[g] /\ hdel'[g] = hdel[g] /\ hid'[g] = hid[g]
  BY DEF Answer, TypeOK
<1>2. jobs' = jobs /\ event' = event
  OBVIOUS
<1> QED
  BY <1>1, <1>2 DEF HandlersOK, Exists

\* A step that touches no handler, and neither adds, removes nor reassigns a row.
LEMMA HandlersFrame ==
  ASSUME HandlersOK, RowsStay, UNCHANGED <<deliveries, event, hpc, hdel, hid>>
  PROVE  HandlersOK'
BY DEF HandlersOK, RowsStay, Exists

\* Recording a delivery makes its handler the only one that works on it: no row
\* and no other handler past the check can have an unrecorded delivery.
LEMMA HandlersRecord ==
  ASSUME TypeOK, HandlersOK, RowsOK, NEW h \in Handlers, RecordNewDelivery(h)
  PROVE  HandlersOK'
<1> DEFINE d == hdel[h]
<1>1. /\ hpc[h] = "record" /\ d \notin deliveries /\ Listens(event[d])
      /\ deliveries' = deliveries \cup {d} /\ UNCHANGED <<jobs, event>>
  BY DEF RecordNewDelivery, RecordDelivery, IsDuplicate, HandlersOK
<1>2. CASE ~ CommandFound(event[d])
  BY <1>1, <1>2, HandlersAnswer DEF RecordNewDelivery
<1>3. CASE CommandFound(event[d])
  <2>1. /\ UNCHANGED <<hdel, hid>>
        /\ hpc'[h] \in {"create", "deny"}
        /\ hpc'[h] = "create" => Executable(event[d])
        /\ \A g \in Handlers \ {h} : hpc'[g] = hpc[g]
    BY <1>1, <1>3 DEF RecordNewDelivery, TypeOK, Executable
  <2>2. \A g \in Handlers \ {h} : hpc[g] \in {"create", "insert"} => hdel[g] # d
    BY <1>1 DEF HandlersOK
  <2>3. \A j \in JobIds : Exists(j) => jobs[j].delivery # d
    BY <1>1 DEF RowsOK
  <2>4. jobs' = jobs /\ event' = event /\ hdel' = hdel /\ hid' = hid
    BY <1>1, <2>1
  <2> QED
    BY <1>1, <2>1, <2>2, <2>3, <2>4 DEF HandlersOK, Exists
<1> QED
  BY <1>2, <1>3

\* The row is inserted for a delivery no other handler is about to insert; the
\* handler goes on to tell, or gives up.
LEMMA HandlersInsert ==
  ASSUME TypeOK, HandlersOK, NEW h \in Handlers, hpc[h] = "insert",
         CreateJob(hid[h], hdel[h], event[hdel[h]].command), event' = event,
         \/ hpc' = [hpc EXCEPT ![h] = "acknowledge"] /\ UNCHANGED <<hdel, hid>>
         \/ Answer(h, "error")
  PROVE  HandlersOK'
<1>1. /\ hid[h] \in JobIds /\ hdel[h] \in Deliveries
      /\ event[hdel[h]].command \in Commands
  BY CommandsFound DEF HandlersOK, Executable
<1>2. /\ jobs[hid[h]].state = "absent"
      /\ jobs'[hid[h]].state = "queued" /\ jobs'[hid[h]].delivery = hdel[h]
      /\ \A i \in JobIds \ {hid[h]} : jobs'[i] = jobs[i]
  BY <1>1 DEF CreateJob, TypeOK, QueueTypeOK, Exists
<1>3. /\ deliveries' = deliveries
      /\ \/ hpc'[h] = "acknowledge" /\ hdel'[h] = hdel[h]
         \/ hpc'[h] = "idle"
      /\ \A g \in Handlers \ {h} : hpc'[g] = hpc[g] /\ hdel'[g] = hdel[g] /\ hid'[g] = hid[g]
  BY DEF CreateJob, TypeOK, Answer
<1>4. ASSUME NEW g \in Handlers \ {h}
      PROVE  /\ hpc[g] \in {"create", "insert"} =>
                  \A j \in JobIds : Exists(j)' => jobs'[j].delivery # hdel[g]
             /\ hpc[g] \in {"acknowledge", "answer"} =>
                  \E j \in JobIds : Exists(j)' /\ jobs'[j].delivery = hdel[g]
  BY <1>1, <1>2 DEF HandlersOK, Exists
<1>5. \E j \in JobIds : Exists(j)' /\ jobs'[j].delivery = hdel[h]
  BY <1>1, <1>2 DEF Exists
<1>6. hpc'[h] = "acknowledge" => Listens(event[hdel[h]])
  BY DEF HandlersOK
<1> QED
  BY <1>1, <1>3, <1>4, <1>5, <1>6 DEF HandlersOK

\* A step keeps what the handlers rely on.
LEMMA HandlersStep == IInv /\ [Next]_vars => HandlersOK'
<1> SUFFICES ASSUME TypeOK, HandlersOK, RowsOK, LeasesOK, [Next]_vars PROVE HandlersOK'
  BY DEF IInv
<1>1. ASSUME NEW h \in Handlers, NEW d \in Deliveries, Receive(h, d) PROVE HandlersOK'
  <2>1. jobs' = jobs /\ deliveries' = deliveries /\ event' = event /\ hid' = hid
    BY <1>1 DEF Receive
  <2>2. CASE Listens(event[d])
    <3>1. /\ hpc'[h] = "record" /\ hdel'[h] = d
          /\ \A g \in Handlers \ {h} : hpc'[g] = hpc[g] /\ hdel'[g] = hdel[g]
      BY <1>1, <2>2 DEF Receive, TypeOK
    <3> QED
      BY <2>1, <2>2, <3>1 DEF HandlersOK, Exists
  <2>3. CASE ~ Listens(event[d])
    BY <1>1, <2>1, <2>3, HandlersFrame DEF Receive, RowsStay, Exists
  <2> QED
    BY <2>2, <2>3
<1>2. ASSUME NEW h \in Handlers, RecordNewDelivery(h) PROVE HandlersOK'
  BY <1>2, HandlersRecord
<1>3. ASSUME NEW h \in Handlers, RecordDuplicate(h) PROVE HandlersOK'
  BY <1>3, HandlersAnswer DEF RecordDuplicate
<1>4. ASSUME NEW h \in Handlers, RecordFails(h) PROVE HandlersOK'
  BY <1>4, HandlersAnswer DEF RecordFails, RecordDelivery
<1>5. ASSUME NEW h \in Handlers, Deny(h) PROVE HandlersOK'
  BY <1>5, HandlersAnswer DEF Deny
<1>6. ASSUME NEW h \in Handlers, StampJob(h) PROVE HandlersOK'
  <2>1. jobs' = jobs /\ deliveries' = deliveries /\ event' = event /\ hdel' = hdel
    BY <1>6 DEF StampJob
  <2>2. /\ hpc[h] = "create" /\ hpc'[h] = "insert" /\ hid'[h] \in JobIds
        /\ \A g \in Handlers \ {h} : hpc'[g] = hpc[g] /\ hid'[g] = hid[g]
    BY <1>6 DEF StampJob, TypeOK
  <2> QED
    BY <2>1, <2>2 DEF HandlersOK, Exists
<1>7. ASSUME NEW h \in Handlers, InsertJob(h) PROVE HandlersOK'
  BY <1>7, HandlersInsert DEF InsertJob
<1>8. ASSUME NEW h \in Handlers, InsertFails(h) PROVE HandlersOK'
  <2>1. CASE UNCHANGED tables
    BY <1>8, <2>1, HandlersAnswer DEF InsertFails
  <2>2. CASE CreateJob(hid[h], hdel[h], event[hdel[h]].command)
    BY <1>8, <2>2, HandlersInsert DEF InsertFails
  <2> QED
    BY <1>8, <2>1, <2>2 DEF InsertFails
<1>9. ASSUME NEW h \in Handlers, Acknowledge(h) PROVE HandlersOK'
  <2>1. jobs' = jobs /\ deliveries' = deliveries /\ event' = event /\ hdel' = hdel /\ hid' = hid
    BY <1>9 DEF Acknowledge
  <2>2. /\ hpc[h] = "acknowledge" /\ hpc'[h] = "answer"
        /\ \A g \in Handlers \ {h} : hpc'[g] = hpc[g]
    BY <1>9 DEF Acknowledge, TypeOK
  <2> QED
    BY <2>1, <2>2 DEF HandlersOK, Exists
<1>13. ASSUME NEW h \in Handlers, InsertCollides(h) PROVE HandlersOK'
  BY <1>13, HandlersAnswer DEF InsertCollides
<1>14. ASSUME NEW h \in Handlers, AnswerQueued(h) PROVE HandlersOK'
  BY <1>14, HandlersAnswer DEF AnswerQueued
<1>10. CASE WorkerStep
  BY <1>10, WorkerFrame, HandlersFrame
<1>11. CASE CrashAndRestart
  BY <1>11, RestartEffect DEF HandlersOK
<1>12. CASE UNCHANGED vars
  <2>1. jobs' = jobs
    BY <1>12 DEF vars
  <2> QED
    BY <1>12, <2>1, HandlersFrame DEF vars, RowsStay, Exists
<1> QED
  BY <1>1, <1>2, <1>3, <1>4, <1>5, <1>6, <1>7, <1>8, <1>9, <1>10, <1>11, <1>12, <1>13, <1>14
     DEF Next, HandlerStep

-----------------------------------------------------------------------------
(* The rows and the leases.                                                *)

\* The row that a handler inserts.
Inserted(h) ==
  /\ hpc[h] = "insert" /\ hid[h] \in JobIds
  /\ jobs[hid[h]].state = "absent"
  /\ jobs'[hid[h]].state = "queued"
  /\ jobs'[hid[h]].delivery = hdel[h]
  /\ jobs'[hid[h]].command = event[hdel[h]].command
  /\ jobs'[hid[h]].pr = FALSE
  /\ \A i \in JobIds \ {hid[h]} : jobs'[i] = jobs[i]

\* A handler inserts one row or none, and has no other effect on the rows, the
\* worker, the leases or the pull requests.
LEMMA HandlerEffect ==
  ASSUME TypeOK, HandlersOK, NEW h \in Handlers,
         HandlerStep(h) \/ \E d \in Deliveries : Receive(h, d)
  PROVE  /\ jobs' = jobs \/ Inserted(h)
         /\ deliveries \subseteq deliveries'
         /\ UNCHANGED <<events, event, worker, pulls, leases>>
<1>1. ASSUME NEW d \in Deliveries, Receive(h, d)
      PROVE  UNCHANGED <<tables, event, worker, pulls, leases>>
  BY <1>1 DEF Receive
<1>2. ASSUME hpc[h] = "insert", CreateJob(hid[h], hdel[h], event[hdel[h]].command)
      PROVE  Inserted(h) /\ UNCHANGED <<deliveries, events>>
  <2>1. hdel[h] \in Deliveries /\ hid[h] \in JobIds /\ event[hdel[h]].command \in Commands
    BY <1>2, CommandsFound DEF HandlersOK, Executable
  <2>2. /\ jobs[hid[h]].state = "absent"
        /\ jobs'[hid[h]].state = "queued" /\ jobs'[hid[h]].delivery = hdel[h]
        /\ jobs'[hid[h]].command = event[hdel[h]].command
        /\ jobs'[hid[h]].pr = FALSE
        /\ \A i \in JobIds \ {hid[h]} : jobs'[i] = jobs[i]
    BY <1>2, <2>1 DEF CreateJob, TypeOK, QueueTypeOK, Exists
  <2> QED
    BY <1>2, <2>1, <2>2 DEF CreateJob, Inserted
<1>3. CASE InsertJob(h) \/ InsertFails(h)
  <2>1. hpc[h] = "insert" /\ UNCHANGED <<event, worker, pulls, leases>>
    BY <1>3 DEF InsertJob, InsertFails
  <2>2. UNCHANGED tables \/ CreateJob(hid[h], hdel[h], event[hdel[h]].command)
    BY <1>3 DEF InsertJob, InsertFails
  <2> QED
    BY <1>2, <2>1, <2>2
<1>4. CASE HandlerStep(h) /\ ~ InsertJob(h) /\ ~ InsertFails(h)
  BY <1>4 DEF HandlerStep, RecordNewDelivery, RecordDelivery, RecordDuplicate, RecordFails,
     Deny, StampJob, InsertCollides, Acknowledge, AnswerQueued
<1> QED
  BY <1>1, <1>3, <1>4

\* A move to a phase of the command leaves every row as its delivery wants it.
LEMMA RowsMove ==
  ASSUME RowsOK, NEW j \in JobIds, NEW to \in State, Exists(j), Moved(j, to),
         to = "planning" => jobs[j].command = "plan",
         to \in {"implementing", "testing", "creating_pr"} =>
           jobs[j].command \in ImplementCommands,
         UNCHANGED <<deliveries, event>>
  PROVE  RowsOK'
BY DEF RowsOK, Moved, Exists

\* A step keeps every row in agreement with its delivery and its command.
LEMMA RowsStep == IInv /\ [Next]_vars => RowsOK'
<1> SUFFICES ASSUME TypeOK, HandlersOK, RowsOK, LeasesOK, [Next]_vars PROVE RowsOK'
  BY DEF IInv
<1> USE States
<1>1. ASSUME jobs' = jobs, event' = event, deliveries \subseteq deliveries' PROVE RowsOK'
  BY <1>1 DEF RowsOK, Exists
<1>2. ASSUME NEW h \in Handlers,
             HandlerStep(h) \/ \E d \in Deliveries : Receive(h, d)
      PROVE  RowsOK'
  <2>1. CASE Inserted(h)
    <3>1. hdel[h] \in deliveries /\ Executable(event[hdel[h]])
      BY <2>1 DEF Inserted, HandlersOK
    <3>2. event' = event /\ deliveries \subseteq deliveries'
      BY <1>2, HandlerEffect
    <3> QED
      BY <2>1, <3>1, <3>2 DEF Inserted, RowsOK, Exists
  <2> QED
    BY <1>1, <1>2, <2>1, HandlerEffect
<1>3. CASE WorkerStep
  <2>1. UNCHANGED <<deliveries, event>>
    BY <1>3, WorkerFrame
  <2>2. ASSUME NEW j \in JobIds, Lease(j) PROVE RowsOK'
    BY <2>1, <2>2, LeaseEffect, RowsMove DEF Exists
  <2>3. ASSUME NEW to \in State, WorkerMove(to) PROVE RowsOK'
    BY <2>1, <2>3, RowsMove DEF WorkerMove, Exists, IsRunning
  <2>4. ASSUME UNCHANGED tables PROVE RowsOK'
    BY <1>1, <2>1, <2>4
  <2>5. ASSUME Numbered PROVE RowsOK'
    BY <2>1, <2>5 DEF Numbered, RowsOK, Exists
  <2> QED
    BY <1>3, <2>2, <2>3, <2>4, <2>5, WorkerEffect
<1>4. CASE CrashAndRestart
  BY <1>1, <1>4, RestartEffect
<1>5. CASE UNCHANGED vars
  BY <1>1, <1>5 DEF vars
<1> QED
  BY <1>2, <1>3, <1>4, <1>5 DEF Next

\* What the count of leases of a job means.
LEMMA LeasesMean ==
  ASSUME LeasesOK, NEW j \in JobIds
  PROVE  \/ /\ jobs[j].state \in {"absent", "queued"}
            /\ leases[j] = 0 /\ j \notin pulls
         \/ /\ jobs[j].state \notin {"absent", "queued"}
            /\ leases[j] = 1
            /\ <<j, "queued", "starting">> \in events
            /\ j \in pulls => jobs[j].command \in ImplementCommands
            /\ Begun(j) => <<j, "starting", Phase(j)>> \in events
<1>1. /\ leases[j] = IF jobs[j].state \in {"absent", "queued"} THEN 0 ELSE 1
      /\ leases[j] = 1 => <<j, "queued", "starting">> \in events
      /\ j \in pulls => leases[j] = 1 /\ jobs[j].command \in ImplementCommands
      /\ Begun(j) => <<j, "starting", Phase(j)>> \in events
  BY DEF LeasesOK
<1> QED
  BY <1>1

\* A step keeps the count of leases in agreement with the rows, the events and the
\* pull requests.
LEMMA LeasesStep == IInv /\ [Next]_vars => LeasesOK'
<1> SUFFICES ASSUME TypeOK, HandlersOK, RowsOK, LeasesOK, [Next]_vars PROVE LeasesOK'
  BY DEF IInv
<1> USE States
<1> USE DEF Begun, Phase
<1>0. NoJob \notin JobIds /\ (wjob = NoJob => wpull = "none")
  BY DEF TypeOK, LeasesOK, NoJob, JobIds
<1>1. ASSUME UNCHANGED <<jobs, leases, events, pulls>>,
             \/ wjob' = NoJob /\ wpull' = "none"
             \/ wjob' = wjob /\ (wpull' = wpull \/ wpull = "opened")
      PROVE  LeasesOK'
  <2>1. jobs' = jobs /\ leases' = leases /\ events' = events /\ pulls' = pulls
    BY <1>1
  <2> QED
    BY <1>0, <1>1, <2>1 DEF LeasesOK, IsRunning
<1>2. ASSUME NEW h \in Handlers,
             HandlerStep(h) \/ \E d \in Deliveries : Receive(h, d)
      PROVE  LeasesOK'
  <2>1. /\ wjob' = wjob /\ wpull' = wpull
        /\ leases' = leases /\ events' = events /\ pulls' = pulls
    BY <1>2, HandlerEffect
  <2>2. CASE Inserted(h)
    <3>1. leases[hid[h]] = 0 /\ hid[h] \notin pulls /\ wjob # hid[h]
      <4>1. leases[hid[h]] = 0 /\ hid[h] \notin pulls
        BY <2>2, LeasesMean DEF Inserted
      <4>2. wjob # hid[h]
        BY <2>2 DEF Inserted, LeasesOK, IsRunning, NoJob, JobIds
      <4> QED
        BY <4>1, <4>2
    <3>2. wjob # NoJob => wjob \in JobIds \ {hid[h]}
      BY <3>1 DEF TypeOK
    <3>3. wjob' # NoJob => IsRunning(wjob)'
      BY <2>1, <2>2, <3>2 DEF Inserted, LeasesOK, IsRunning
    <3> QED
      BY <2>1, <2>2, <3>1, <3>3 DEF Inserted, LeasesOK
  <2> QED
    BY <1>1, <1>2, <2>1, <2>2, HandlerEffect
<1>3. CASE WorkerStep
  <2>1. ASSUME NEW j \in JobIds, Lease(j) PROVE LeasesOK'
    <3>1. /\ Moved(j, "starting") /\ jobs[j].state = "queued"
          /\ wjob = NoJob /\ wpull' = "none" /\ wjob' \in {j, NoJob}
          /\ leases' = [leases EXCEPT ![j] = @ + 1] /\ pulls' = pulls
          /\ events' = events \cup {<<j, "queued", "starting">>}
      BY <1>0, <2>1, LeaseEffect
    <3>2. ASSUME NEW i \in JobIds, Begun(i)' PROVE <<i, "starting", Phase(i)'>> \in events'
      <4>1. Begun(i) /\ Phase(i)' = Phase(i)
        BY <3>1, <3>2 DEF Moved
      <4> QED
        BY <3>1, <4>1 DEF LeasesOK
    <3> QED
      BY <3>1, <3>2 DEF LeasesOK, Moved, IsRunning, TypeOK
  <2>2. ASSUME NEW to \in State, WorkerMove(to), UNCHANGED leases PROVE LeasesOK'
    <3>1. /\ leases' = leases /\ pulls' = pulls /\ events \subseteq events'
          /\ to \notin {"absent", "queued"}
          /\ \/ wjob' = NoJob /\ wpull' = "none"
             \/ wjob' = wjob /\ wpull' = wpull
          /\ wjob \in JobIds /\ Moved(wjob, to) /\ IsRunning(wjob)
      BY <2>2 DEF WorkerMove, Running, Terminal
    <3>2. ASSUME NEW i \in JobIds, Begun(i)' PROVE <<i, "starting", Phase(i)'>> \in events'
      <4>1. Phase(i)' = Phase(i)
        BY <3>1 DEF Moved
      <4>2. CASE Begun(i)
        BY <3>1, <4>1, <4>2 DEF LeasesOK
      <4>3. CASE ~ Begun(i)
        <5>1. i = wjob
          BY <1>0, <3>1, <3>2, <4>3 DEF Moved
        <5>2. jobs[wjob].state = "starting"
          BY <3>1, <4>3, <5>1 DEF IsRunning, Running
        <5>3. to \in {"planning", "implementing", "failed"}
          BY <2>2, <5>2 DEF WorkerMove, Allowed
        <5>4. wjob' = wjob /\ to \in {"planning", "implementing"}
          BY <1>0, <3>1, <3>2, <5>1, <5>3 DEF Moved
        <5>5. <<wjob, "starting", to>> \in events' /\ to = Phase(wjob)
          BY <1>0, <2>2, <3>1, <5>2, <5>4 DEF WorkerMove, ImplementCommands
        <5> QED
          BY <4>1, <5>1, <5>5
      <4> QED
        BY <4>2, <4>3
    <3>3. wjob' # NoJob => IsRunning(wjob)'
      BY <2>2, <3>1 DEF WorkerMove, Moved, IsRunning
    <3> QED
      BY <3>1, <3>2, <3>3 DEF LeasesOK, Moved, IsRunning
  <2>3. ASSUME UNCHANGED <<tables, leases, wjob>>,
               At("creating_pr"), pulls' = pulls \cup {wjob}
        PROVE  LeasesOK'
    <3>1. wjob \in JobIds /\ jobs' = jobs /\ leases' = leases /\ events' = events /\ wjob' = wjob
      BY <2>3 DEF At, TypeOK
    <3>2. leases[wjob] = 1 /\ jobs[wjob].command \in ImplementCommands
      BY <2>3, <3>1 DEF At, LeasesOK, RowsOK
    <3> QED
      BY <2>3, <3>1, <3>2 DEF LeasesOK, IsRunning
  <2>4. ASSUME Numbered PROVE LeasesOK'
    <3>1. /\ wjob' = wjob /\ leases' = leases /\ events' = events /\ pulls' = pulls
          /\ wjob \in pulls /\ wjob \in JobIds
      BY <2>4 DEF Numbered
    <3> QED
      BY <2>4, <3>1 DEF LeasesOK, Numbered, IsRunning
  <2> QED
    BY <1>1, <1>3, <2>1, <2>2, <2>3, <2>4, WorkerEffect
<1>4. CASE CrashAndRestart
  BY <1>1, <1>4, RestartEffect
<1>5. CASE UNCHANGED vars
  BY <1>1, <1>5 DEF vars
<1> QED
  BY <1>2, <1>3, <1>4, <1>5 DEF Next

-----------------------------------------------------------------------------
(* Jobs and deliveries.                                                    *)

\* A step adds a row only for a delivery that has none.
LEMMA OneJobStep == IInv /\ [Next]_vars => OneJobPerDelivery'
<1> SUFFICES ASSUME IInv, [Next]_vars PROVE OneJobPerDelivery'
  OBVIOUS
<1> USE DEF IInv
<1>1. ASSUME jobs' = jobs \/ RowsStay PROVE OneJobPerDelivery'
  BY <1>1 DEF OneJobPerDelivery, RowsStay, Exists
<1>2. ASSUME NEW h \in Handlers,
             HandlerStep(h) \/ \E d \in Deliveries : Receive(h, d)
      PROVE  OneJobPerDelivery'
  <2>1. CASE Inserted(h)
    <3>1. \A j \in JobIds : Exists(j) => jobs[j].delivery # hdel[h]
      BY <2>1 DEF Inserted, HandlersOK
    <3> QED
      BY <2>1, <3>1 DEF Inserted, OneJobPerDelivery, Exists
  <2> QED
    BY <1>1, <1>2, <2>1, HandlerEffect
<1>3. CASE WorkerStep
  BY <1>1, <1>3, WorkerFrame
<1>4. CASE CrashAndRestart
  BY <1>1, <1>4, RestartEffect
<1>5. CASE UNCHANGED vars
  BY <1>1, <1>5 DEF vars
<1> QED
  BY <1>2, <1>3, <1>4, <1>5 DEF Next

\* Only a handler that has inserted the row says that a request is queued.
LEMMA AnswersQueued ==
  ASSUME TypeOK, NEW h \in Handlers,
         HandlerStep(h) \/ \E d \in Deliveries : Receive(h, d), NEW d
  PROVE  <<d, "queued">> \in replies' \/ d \in accepted' =>
           \/ <<d, "queued">> \in replies \/ d \in accepted
           \/ hpc[h] \in {"acknowledge", "answer"} /\ hdel[h] = d
<1>1. ASSUME NEW a, a # "queued", Answer(h, a)
      PROVE  <<d, "queued">> \in replies' => <<d, "queued">> \in replies
  BY <1>1 DEF Answer
<1>2. CASE \E c \in Deliveries : Receive(h, c)
  BY <1>2 DEF Receive
<1>3. CASE RecordNewDelivery(h)
  BY <1>1, <1>3 DEF RecordNewDelivery
<1>4. CASE RecordDuplicate(h)
  BY <1>1, <1>4 DEF RecordDuplicate
<1>5. CASE RecordFails(h)
  BY <1>1, <1>5 DEF RecordFails
<1>6. CASE Deny(h)
  BY <1>1, <1>6 DEF Deny
<1>7. CASE StampJob(h) \/ InsertJob(h)
  BY <1>7 DEF StampJob, InsertJob
<1>8. CASE InsertFails(h) \/ InsertCollides(h)
  BY <1>1, <1>8 DEF InsertFails, InsertCollides
<1>9. CASE Acknowledge(h)
  BY <1>9 DEF Acknowledge
<1>10. CASE AnswerQueued(h)
  BY <1>10 DEF AnswerQueued, Answer, Promises
<1> QED
  BY <1>2, <1>3, <1>4, <1>5, <1>6, <1>7, <1>8, <1>9, <1>10 DEF HandlerStep

\* A step keeps the promise behind every acknowledgement.
LEMMA AcknowledgedStep == IInv /\ [Next]_vars => AcknowledgedJobExists'
<1> SUFFICES ASSUME IInv, [Next]_vars PROVE AcknowledgedJobExists'
  OBVIOUS
<1> USE DEF IInv
<1>1. ASSUME jobs' = jobs \/ RowsStay, UNCHANGED <<replies, accepted>>
      PROVE  AcknowledgedJobExists'
  BY <1>1 DEF AcknowledgedJobExists, RowsStay, Exists
<1>2. ASSUME NEW h \in Handlers,
             HandlerStep(h) \/ \E d \in Deliveries : Receive(h, d)
      PROVE  AcknowledgedJobExists'
  <2>1. ASSUME NEW j \in JobIds, Exists(j)
        PROVE  Exists(j)' /\ jobs'[j].delivery = jobs[j].delivery
    BY <1>2, <2>1, HandlerEffect DEF Inserted, Exists
  <2>2. ASSUME NEW d \in Deliveries, <<d, "queued">> \in replies' \/ d \in accepted'
        PROVE  \E j \in JobIds : Exists(j) /\ jobs[j].delivery = d
    <3>1. CASE hpc[h] \in {"acknowledge", "answer"} /\ hdel[h] = d
      BY <3>1 DEF HandlersOK
    <3>2. CASE <<d, "queued">> \in replies \/ d \in accepted
      BY <3>2 DEF AcknowledgedJobExists
    <3> QED
      BY <1>2, <2>2, <3>1, <3>2, AnswersQueued
  <2> QED
    BY <2>1, <2>2 DEF AcknowledgedJobExists
<1>3. CASE WorkerStep
  BY <1>1, <1>3, WorkerFrame
<1>4. CASE CrashAndRestart
  BY <1>1, <1>4, RestartEffect
<1>5. CASE UNCHANGED vars
  BY <1>1, <1>5 DEF vars
<1> QED
  BY <1>2, <1>3, <1>4, <1>5 DEF Next

-----------------------------------------------------------------------------
(* The invariant and what follows from it.                                 *)

\* It holds before anything has happened.
LEMMA Initially == Init => IInv
<1> SUFFICES ASSUME Init PROVE IInv
  OBVIOUS
<1> USE GatewayAssumption DEF Init, QueueInit, Exists, NoRow
<1>1. TypeOK
  BY DEF TypeOK, QueueTypeOK, Row
<1>2. HandlersOK /\ OneJobPerDelivery /\ AcknowledgedJobExists
  BY DEF HandlersOK, OneJobPerDelivery, AcknowledgedJobExists
<1>3. RowsOK /\ LeasesOK
  BY DEF RowsOK, LeasesOK, IsRunning, Begun, NoJob, JobIds, Running
<1> QED
  BY <1>1, <1>2, <1>3 DEF IInv

\* The inductive invariant, in every state of every behaviour.
THEOREM Invariance == Spec => []IInv
<1>1. IInv /\ [Next]_vars => IInv'
  BY TypeStep, HandlersStep, RowsStep, LeasesStep, OneJobStep, AcknowledgedStep DEF IInv
<1> QED
  BY <1>1, Initially, PTL DEF Spec

\* Every variable of the gateway keeps its type; no run repairs more often than
\* its budget, and no acknowledged delivery is unknown.
THEOREM TypeCorrect == Spec => []TypeOK
<1>1. IInv => TypeOK
  BY DEF IInv
<1> QED
  BY <1>1, Invariance, PTL

\* INSERT OR IGNORE makes one request the owner of a delivery: however often it is
\* sent, there is at most one job for it.
THEOREM DeliveriesGetOneJob == Spec => []OneJobPerDelivery
<1>1. IInv => OneJobPerDelivery
  BY DEF IInv
<1> QED
  BY <1>1, Invariance, PTL

\* A job is leased at most once, and no two leased jobs have the same delivery:
\* crashes and redeliveries never run a command twice.
THEOREM CommandsRunAtMostOnce == Spec => []AtMostOneExecution
<1>1. IInv => AtMostOneExecution
  <2> SUFFICES ASSUME IInv, NEW i \in JobIds, NEW j \in JobIds,
                      leases[i] > 0, leases[j] > 0, jobs[i].delivery = jobs[j].delivery
               PROVE  i = j /\ leases[i] = 1
    BY DEF AtMostOneExecution
  <2>1. Exists(i) /\ Exists(j) /\ leases[i] = 1
    <3>1. LeasesOK
      BY DEF IInv
    <3>2. leases[i] # 0 /\ leases[j] # 0
      OBVIOUS
    <3> QED
      BY <3>1, <3>2, LeasesMean DEF Exists
  <2> QED
    BY <2>1 DEF IInv, OneJobPerDelivery
<1> QED
  BY <1>1, Invariance, PTL

\* Behind every pull request is a delivery whose actor was authorized: the handler
\* decides once, and nothing on the way to GitHub gets around it.
THEOREM PullRequestsComeFromAuthority == Spec => []PullRequestsAreAuthorized
<1>1. IInv => PullRequestsAreAuthorized
  <2> SUFFICES ASSUME IInv, NEW j \in pulls
               PROVE  /\ jobs[j].delivery \in deliveries
                      /\ MayImplement(event[jobs[j].delivery])
    BY DEF PullRequestsAreAuthorized, IInv, LeasesOK
  <2>1. j \in JobIds
    BY DEF IInv, TypeOK
  <2>2. Exists(j) /\ jobs[j].command \in ImplementCommands
    BY <2>1, LeasesMean DEF IInv, Exists
  <2>3. /\ jobs[j].delivery \in deliveries
        /\ Executable(event[jobs[j].delivery])
        /\ event[jobs[j].delivery].command \in ImplementCommands
    BY <2>1, <2>2 DEF IInv, RowsOK
  <2> QED
    BY <2>3
       DEF Executable, Listens, CommandFound, Authorize, MayImplement, ImplementCommands
<1> QED
  BY <1>1, Invariance, PTL

\* Nobody is told that a request is queued unless its row exists, and no crash or
\* failed write takes the row away again.
THEOREM AcknowledgementsAreKept == Spec => []AcknowledgedJobExists
<1>1. IInv => AcknowledgedJobExists
  BY DEF IInv
<1> QED
  BY <1>1, Invariance, PTL

\* Exactly the leased jobs have left the queue, each with the event that says so,
\* and no job is worked on without the event of its start, which Transition writes
\* after the row: the worker stops when that fails.
THEOREM LeasesAreAudited == Spec => []LeaseIsAudited
<1>1. IInv => LeaseIsAudited
  <2> SUFFICES ASSUME LeasesOK, NEW j \in JobIds
               PROVE  /\ (jobs[j].state \notin {"absent", "queued"}) <=>
                           leases[j] > 0 /\ <<j, "queued", "starting">> \in events
                      /\ Begun(j) => <<j, "starting", Phase(j)>> \in events
    BY DEF IInv, LeaseIsAudited
  <2>1. 1 > 0 /\ ~ (0 > 0)
    OBVIOUS
  <2> QED
    BY <2>1, LeasesMean DEF LeasesOK
<1> QED
  BY <1>1, Invariance, PTL

-----------------------------------------------------------------------------
(* The gateway implements the lifecycle of every row.                      *)

\* Row j moves as its lifecycle allows, or not at all.
RowMoves(j) == Lifecycle(j)!Next \/ UNCHANGED RowState(j)

\* The pairs of Allowed are the steps of the lifecycle.
LEMMA LifecycleMoves ==
  ASSUME NEW j \in JobIds, Allowed(RowState(j), RowState(j)')
  PROVE  RowMoves(j)
BY DEF Allowed, RowMoves, Lifecycle!Next, Lifecycle!Follows, Lifecycle!Terminal

\* One row moves as its lifecycle allows: the others stay.
LEMMA OneRowMoves ==
  ASSUME NEW i \in JobIds, NEW to \in State, Exists(i),
         Moved(i, to), Allowed(jobs[i].state, to)
  PROVE  \A j \in JobIds : RowMoves(j)
<1> SUFFICES ASSUME NEW j \in JobIds PROVE RowMoves(j)
  OBVIOUS
<1>1. CASE j = i
  BY <1>1, States, LifecycleMoves DEF Moved, RowState, Exists
<1>2. CASE j # i
  BY <1>2 DEF Moved, RowState, Exists, RowMoves
<1> QED
  BY <1>1, <1>2

\* Every step moves every row as its lifecycle allows, or leaves it.
LEMMA RowsMoveAsAllowed == IInv /\ [Next]_vars => \A j \in JobIds : RowMoves(j)
<1> SUFFICES ASSUME TypeOK, HandlersOK, RowsOK, LeasesOK, [Next]_vars
             PROVE  \A j \in JobIds : RowMoves(j)
  BY DEF IInv
<1>1. ASSUME jobs' = jobs PROVE \A j \in JobIds : RowMoves(j)
  BY <1>1 DEF RowMoves, RowState, Exists
<1>2. ASSUME NEW h \in Handlers,
             HandlerStep(h) \/ \E d \in Deliveries : Receive(h, d)
      PROVE  \A j \in JobIds : RowMoves(j)
  <2>1. ASSUME Inserted(h), NEW j \in JobIds PROVE RowMoves(j)
    BY <2>1 DEF Inserted, RowMoves, RowState, Exists
  <2> QED
    BY <1>1, <1>2, <2>1, HandlerEffect
<1>3. CASE WorkerStep
  <2>1. ASSUME NEW j \in JobIds, Lease(j) PROVE \A i \in JobIds : RowMoves(i)
    BY <2>1, LeaseEffect, OneRowMoves, States DEF Allowed, Exists
  <2>2. ASSUME NEW to \in State, WorkerMove(to) PROVE \A j \in JobIds : RowMoves(j)
    BY <2>2, OneRowMoves, States DEF WorkerMove, IsRunning, Exists
  <2>3. ASSUME Numbered PROVE \A j \in JobIds : RowMoves(j)
    BY <2>3 DEF Numbered, RowMoves, RowState, Exists
  <2> QED
    BY <1>1, <1>3, <2>1, <2>2, <2>3, WorkerEffect
<1>4. CASE CrashAndRestart
  BY <1>1, <1>4, RestartEffect
<1>5. CASE UNCHANGED vars
  BY <1>1, <1>5 DEF vars
<1> QED
  BY <1>2, <1>3, <1>4, <1>5 DEF Next

\* Every row of the queue implements the lifecycle, whatever handlers, worker and
\* mishaps do at the same time.
THEOREM GatewayImplementsLifecycle == Spec => LifecycleSpec
<1>1. Init => \A j \in JobIds : Lifecycle(j)!Init
  BY DEF Init, QueueInit, NoRow, Lifecycle!Init, RowState, Exists
<1>2. IInv /\ [Next]_vars
      => [\A j \in JobIds : Lifecycle(j)!Next \/ UNCHANGED RowState(j)]_jobs
  BY RowsMoveAsAllowed DEF RowMoves
<1> QED
  BY <1>1, <1>2, Invariance, PTL DEF Spec, LifecycleSpec

-----------------------------------------------------------------------------
(* The rows that nobody works on.                                          *)

Orphans == {j \in JobIds : Orphan(j)}

\* There are finitely many, and one more raises their number by at most one.
LEMMA OneMoreOrphan ==
  ASSUME NEW S, NEW T, NEW x, IsFiniteSet(S), T \subseteq S \cup {x}
  PROVE  /\ IsFiniteSet(T)
         /\ T \subseteq S => Cardinality(T) <= Cardinality(S)
         /\ Cardinality(T) <= Cardinality(S) + 1
<1>1. /\ IsFiniteSet(S \cup {x})
      /\ Cardinality(S \cup {x}) \in {Cardinality(S), Cardinality(S) + 1}
  BY FS_AddElement
<1>2. IsFiniteSet(T) /\ Cardinality(T) <= Cardinality(S \cup {x})
  BY <1>1, FS_Subset
<1>3. T \subseteq S => Cardinality(T) <= Cardinality(S)
  BY FS_Subset
<1>4. Cardinality(S) \in Nat /\ Cardinality(T) \in Nat
  BY <1>2, FS_CardinalityType
<1> QED
  BY <1>1, <1>2, <1>3, <1>4

\* The other mishap: the process is killed.
Crash == crashes' = crashes + 1 /\ faults' = faults

\* A step orphans no row unless it counts a mishap, and then only one: the row of
\* the worker, or one that it was about to take.
LEMMA OrphansStep ==
  ASSUME IInv, [Next]_vars
  PROVE  \/ Orphans' \subseteq Orphans /\ (UNCHANGED mishaps \/ Fault)
         \/ (\E j : Orphans' \subseteq Orphans \cup {j}) /\ (Fault \/ Crash)
<1> USE States DEF IInv, Orphans, Orphan, IsRunning
<1>1. ASSUME jobs' = jobs, wjob' = wjob PROVE Orphans' \subseteq Orphans
  BY <1>1
<1>2. ASSUME NEW h \in Handlers,
             HandlerStep(h) \/ \E d \in Deliveries : Receive(h, d)
      PROVE  Orphans' \subseteq Orphans /\ (UNCHANGED mishaps \/ Fault)
  <2>1. UNCHANGED mishaps \/ Fault
    BY <1>2 DEF Receive, HandlerStep, RecordNewDelivery, RecordDuplicate, RecordFails, Deny,
       StampJob, InsertJob, InsertFails, InsertCollides, Acknowledge, AnswerQueued
  <2>2. wjob' = wjob
    BY <1>2, HandlerEffect
  <2>3. ASSUME Inserted(h) PROVE Orphans' \subseteq Orphans
    <3>1. jobs'[hid[h]].state \notin Running
      BY <2>3 DEF Inserted, Running
    <3> QED
      BY <2>2, <2>3, <3>1 DEF Inserted
  <2> QED
    BY <1>1, <1>2, <2>1, <2>2, <2>3, HandlerEffect
<1>3. CASE WorkerStep
  <2>1. UNCHANGED mishaps \/ Fault
    BY <1>3, WorkerMishaps
  <2>2. ASSUME NEW j \in JobIds, Lease(j)
        PROVE  Orphans' \subseteq Orphans \/ (Fault /\ Orphans' \subseteq Orphans \cup {j})
    <3>1. wjob = NoJob /\ NoJob \notin JobIds /\ (wjob' = j \/ (wjob' = wjob /\ Fault))
      BY <2>2, LeaseEffect DEF NoJob, JobIds
    <3>2. Moved(j, "starting")
      BY <2>2, LeaseEffect
    <3> QED
      BY <3>1, <3>2 DEF Moved
  <2>3. ASSUME NEW to \in State, WorkerMove(to)
        PROVE  Orphans' \subseteq Orphans \/ (Fault /\ Orphans' \subseteq Orphans \cup {wjob})
    <3>1. CASE wjob' = wjob
      BY <2>3, <3>1 DEF WorkerMove, Moved
    <3>2. CASE wjob' = NoJob /\ to \in Terminal
      <4>1. to \notin Running
        BY <3>2 DEF Running, Terminal
      <4> QED
        BY <2>3, <4>1 DEF WorkerMove, Moved
    <3>3. CASE Fault
      BY <2>3, <3>3 DEF WorkerMove, Moved
    <3> QED
      BY <2>3, <3>1, <3>2, <3>3 DEF WorkerMove
  <2>4. ASSUME UNCHANGED tables, Fault PROVE Orphans' \subseteq Orphans \cup {wjob}
    <3>1. jobs' = jobs
      BY <2>4
    <3> QED
      BY <3>1
  <2>5. ASSUME Numbered PROVE Orphans' \subseteq Orphans
    BY <2>5 DEF Numbered
  <2>6. ASSUME UNCHANGED <<tables, wjob>> PROVE Orphans' \subseteq Orphans
    BY <1>1, <2>6
  <2> QED
    BY <1>3, <2>1, <2>2, <2>3, <2>4, <2>5, <2>6, WorkerEffect
<1>4. CASE CrashAndRestart
  <2>1. jobs' = jobs /\ Crash
    BY <1>4 DEF CrashAndRestart, Crash
  <2> QED
    BY <2>1
<1>5. CASE UNCHANGED vars
  <2>1. jobs' = jobs /\ wjob' = wjob /\ crashes' = crashes /\ faults' = faults
    BY <1>5 DEF vars
  <2> QED
    BY <1>1, <2>1
<1> QED
  BY <1>2, <1>3, <1>4, <1>5 DEF Next

\* Every running row without a worker is the trace of one crash or one failed
\* write of its own.
THEOREM OrphansHaveACause == Spec => []OrphansAreAccountedFor
<1>1. Init => OrphansAreAccountedFor
  <2> SUFFICES ASSUME Init PROVE OrphansAreAccountedFor
    OBVIOUS
  <2>1. {j \in JobIds : Orphan(j)} = {}
    BY DEF Init, QueueInit, NoRow, Orphan, IsRunning, Running
  <2> QED
    BY <2>1, FS_EmptySet DEF Init, OrphansAreAccountedFor
<1>2. IInv /\ OrphansAreAccountedFor /\ [Next]_vars => OrphansAreAccountedFor'
  <2> SUFFICES ASSUME IInv, OrphansAreAccountedFor, [Next]_vars
               PROVE  OrphansAreAccountedFor'
    OBVIOUS
  <2>1. /\ IsFiniteSet(Orphans) /\ Cardinality(Orphans) \in Nat
        /\ IsFiniteSet(Orphans') /\ Cardinality(Orphans') \in Nat
    <3>1. IsFiniteSet(JobIds)
      <4>1. 1 \in Int /\ MaxJobs \in Int
        BY GatewayAssumption
      <4> QED
        BY <4>1, FS_Interval DEF JobIds
    <3>2. Orphans \in SUBSET JobIds /\ Orphans' \in SUBSET JobIds
      BY DEF Orphans
    <3>3. IsFiniteSet(Orphans) /\ IsFiniteSet(Orphans')
      BY <3>1, <3>2, FS_Subset
    <3> QED
      BY <3>3, FS_CardinalityType
  <2>2. crashes \in Nat /\ faults \in Nat
    BY DEF IInv, TypeOK
  <2>3. Cardinality(Orphans) <= crashes + faults
    BY DEF Orphans, OrphansAreAccountedFor
  <2>4. Cardinality(Orphans') <= crashes' + faults'
    <3>1. ASSUME Orphans' \subseteq Orphans, UNCHANGED mishaps PROVE <2>4!:
      BY <2>1, <2>2, <2>3, <3>1, OneMoreOrphan
    <3>2. ASSUME NEW j, Orphans' \subseteq Orphans \cup {j}, Fault PROVE <2>4!:
      <4>1. Cardinality(Orphans') <= Cardinality(Orphans) + 1
        BY <2>1, <3>2, OneMoreOrphan
      <4> QED
        BY <2>1, <2>2, <2>3, <3>2, <4>1 DEF Fault
    <3>3. ASSUME NEW j, Orphans' \subseteq Orphans \cup {j}, Crash PROVE <2>4!:
      <4>1. Cardinality(Orphans') <= Cardinality(Orphans) + 1
        BY <2>1, <3>3, OneMoreOrphan
      <4> QED
        BY <2>1, <2>2, <2>3, <3>3, <4>1 DEF Crash
    <3> QED
      BY <3>1, <3>2, <3>3, OrphansStep
  <2> QED
    BY <2>4 DEF Orphans, OrphansAreAccountedFor
<1> QED
  BY <1>1, <1>2, Invariance, PTL DEF Spec
=============================================================================
