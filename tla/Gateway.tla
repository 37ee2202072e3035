------------------------------- MODULE Gateway -------------------------------
(***************************************************************************)
(* The gateway process: HTTP handlers for webhooks (internal/server), the  *)
(* job queue (JobQueue), the worker loop (internal/app, internal/worker),  *)
(* and the GitHub side they talk to.                                       *)
(*                                                                         *)
(* Handlers run concurrently with each other and with the single worker    *)
(* goroutine, and share only the database.  GitHub may send a delivery any *)
(* number of times, also while the first copy is still being handled.  A   *)
(* database call may report an error, with or without having had its       *)
(* effect, and the process may die and be restarted between any two steps: *)
(* the tables survive, everything else is lost.                            *)
(*                                                                         *)
(* The worker's run of a job appears here only by its writes to the row    *)
(* and to GitHub; WorkerRun models the run itself.  Both implement         *)
(* JobLifecycle.                                                           *)
(***************************************************************************)
EXTENDS JobQueue, FiniteSetsExt

CONSTANTS
  Handlers,    \* HTTP requests that may be in progress at the same time
  Events,      \* the normalized events GitHub may send
  MaxRepairs,  \* bound on testing -> implementing in one run (WorkerRun's budgets)
  MaxCrashes,  \* bound on crashes of the process
  MaxFaults    \* bound on failed database writes

\* webhook.NormalizedEvent, with the text reduced to what the handler reads in
\* it: the first /codex command, "none" if there is none or one is invalid.
EventType ==
  [kind: {"issue_comment", "issues", "push"},
   action: {"created", "edited", "opened", "closed"},
   configured: BOOLEAN,    \* the repository is in the configuration
   actor: {"hellcatjack", "other"},
   role: {"viewer", "requester", "operator", "maintainer", "admin"},
   labelled: BOOLEAN,      \* the issue has required_labels_for_implement
   closed: BOOLEAN,
   locked: BOOLEAN,
   command: Commands \cup {"none"}]

ASSUME GatewayAssumption ==
  /\ Events \subseteq EventType
  /\ NoDelivery \notin Deliveries
  /\ MaxJobs \in Nat /\ MaxRepairs \in Nat
  /\ MaxCrashes \in Nat /\ MaxFaults \in Nat

VARIABLES
  event,     \* what each delivery carries (never changes)
  hpc,       \* where each handler is
  hdel,      \* the delivery it handles
  hid,       \* the identifier it stamped for the new job, or 0
  wjob,      \* the job the worker is running, or 0
  wrepairs,  \* how often it went from testing back to implementing
  wpull,     \* its pull request: "none", "opened" or "numbered"
  replies,   \* HTTP answers that promise a job, as <<delivery, answer>>
  accepted,  \* deliveries acknowledged by a comment on the issue
  pulls,     \* jobs with a pull request on GitHub
  crashes,   \* crashes so far
  faults,    \* failed writes so far
  leases     \* history: how often each job was leased

handlers == <<hpc, hdel, hid>>
worker   == <<wjob, wrepairs, wpull>>
github   == <<replies, accepted, pulls>>
mishaps  == <<crashes, faults>>
vars == <<tables, event, handlers, worker, github, mishaps, leases>>

NoJob == 0

\* The answers of handleWebhook from which GitHub may take it that there is a job;
\* the others (ignored, denied, error) are not kept.
Promises == {"duplicate", "queued"}

-----------------------------------------------------------------------------
(* The decisions of handleWebhook, in the order it takes them.             *)

\* Before the delivery is recorded.
Listens(e) == e.kind \in {"issue_comment", "issues"} /\ e.configured

\* commandActionAllowed
ActionAllowed(e) ==
  \/ e.kind = "issue_comment" /\ e.action \in {"created", "edited"}
  \/ e.kind = "issues" /\ e.action \in {"opened", "edited"}

\* After it is recorded: action, actor and command.
CommandFound(e) ==
  /\ ActionAllowed(e)
  /\ e.actor = "hellcatjack"
  /\ e.command # "none"

\* Mutant: required labels are not asked for.
AuthorizeUnlabelled(e, hasActiveJob) ==
  /\ e.role # "viewer" /\ ~ e.locked
  /\ e.closed => e.command = "status"
  /\ hasActiveJob => e.command \in {"status", "cancel"}
  /\ e.command \in {"review", "cancel"} => e.role \in {"operator", "maintainer", "admin"}

\* authz.Authorize.  The handler never sets ReadyPlan.
Authorize(e, hasActiveJob) ==
  /\ e.role # "viewer"
  /\ ~ e.locked
  /\ e.closed => e.command = "status"
  /\ hasActiveJob => e.command \in {"status", "cancel"}
  /\ \/ e.command = "status"
     \/ e.command = "plan"
     \/ /\ e.command \in {"implement", "fix", "retry"}
        /\ \/ e.role \in {"maintainer", "admin"}
           \/ e.role = "requester" /\ e.labelled
     \/ /\ e.command \in {"review", "cancel"}
        /\ e.role \in {"operator", "maintainer", "admin"}

\* The handler never sets HasActiveJob either.
Executable(e) == Listens(e) /\ CommandFound(e) /\ Authorize(e, FALSE)

-----------------------------------------------------------------------------
Init ==
  /\ QueueInit
  /\ event \in [Deliveries -> Events]
  /\ hpc = [h \in Handlers |-> "idle"]
  /\ hdel = [h \in Handlers |-> NoDelivery]
  /\ hid = [h \in Handlers |-> NoJob]
  /\ wjob = NoJob
  /\ wrepairs = 0 /\ wpull = "none"
  /\ replies = {} /\ accepted = {} /\ pulls = {}
  /\ crashes = 0 /\ faults = 0
  /\ leases = [j \in JobIds |-> 0]

-----------------------------------------------------------------------------
(* handleWebhook                                                           *)

Answer(h, a) ==
  /\ replies' = replies \cup ({hdel[h]} \X ({a} \cap Promises))
  /\ hpc' = [hpc EXCEPT ![h] = "idle"]
  /\ hdel' = [hdel EXCEPT ![h] = NoDelivery]
  /\ hid' = [hid EXCEPT ![h] = NoJob]

\* A database call reports an error, for instance because the client gave up and
\* the context of its request is cancelled.
Fault ==
  /\ faults < MaxFaults
  /\ faults' = faults + 1
  /\ UNCHANGED crashes

\* GitHub sends delivery d, or sends it again.  An event of no interest is
\* answered at once, without touching the queue, and leaves no trace.
Receive(h, d) ==
  /\ hpc[h] = "idle"
  /\ \/ /\ Listens(event[d])
        /\ hpc' = [hpc EXCEPT ![h] = "record"]
        /\ hdel' = [hdel EXCEPT ![h] = d]
     \/ ~ Listens(event[d]) /\ UNCHANGED <<hpc, hdel>>
  /\ UNCHANGED <<tables, event, hid, worker, github, mishaps, leases>>

RecordNewDelivery(h) ==
  /\ hpc[h] = "record"
  /\ ~ IsDuplicate(hdel[h])
  /\ RecordDelivery(hdel[h])
  /\ LET e == event[hdel[h]] IN
     \/ /\ ~ CommandFound(e)
        /\ Answer(h, "ignored")
     \/ /\ CommandFound(e)
        /\ hpc' = [hpc EXCEPT ![h] = IF Authorize(e, FALSE) THEN "create" ELSE "deny"]
        /\ UNCHANGED <<replies, hdel, hid>>
  /\ UNCHANGED <<event, worker, accepted, pulls, mishaps, leases>>

RecordDuplicate(h) ==
  /\ hpc[h] = "record"
  /\ IsDuplicate(hdel[h])
  /\ Answer(h, "duplicate")
  /\ UNCHANGED <<tables, event, worker, accepted, pulls, mishaps, leases>>

\* The handler gives up, whether the delivery was recorded or not.
RecordFails(h) ==
  /\ hpc[h] = "record"
  /\ Fault
  /\ RecordDelivery(hdel[h]) \/ UNCHANGED tables
  /\ Answer(h, "error")
  /\ UNCHANGED <<event, worker, accepted, pulls, leases>>

\* The refusal is commented on the issue; whether that works is ignored.
Deny(h) ==
  /\ hpc[h] = "deny"
  /\ Answer(h, "denied")
  /\ UNCHANGED <<tables, event, worker, accepted, pulls, mishaps, leases>>

\* The last time that a job was stamped with, as far as it matters.
LastStamp == Max({hid[h] : h \in Handlers} \cup {j \in JobIds : Exists(j)} \cup {NoJob})

\* CreateJob reads the clock, then waits for the connection.  The clock may not
\* have moved on since another handler has read it.
StampJob(h) ==
  /\ hpc[h] = "create"
  /\ \E now \in {LastStamp, LastStamp + 1} \cap JobIds : hid' = [hid EXCEPT ![h] = now]
  /\ hpc' = [hpc EXCEPT ![h] = "insert"]
  /\ UNCHANGED <<tables, event, hdel, worker, github, mishaps, leases>>

InsertJob(h) ==
  /\ hpc[h] = "insert"
  /\ CreateJob(hid[h], hdel[h], event[hdel[h]].command)
  /\ hpc' = [hpc EXCEPT ![h] = "acknowledge"]
  /\ UNCHANGED <<event, hdel, hid, worker, github, mishaps, leases>>

\* The handler gives up, whether the row was inserted or not.  Nothing undoes the
\* recorded delivery.
InsertFails(h) ==
  /\ hpc[h] = "insert"
  /\ Fault
  /\ CreateJob(hid[h], hdel[h], event[hdel[h]].command) \/ UNCHANGED tables
  /\ Answer(h, "error")
  /\ UNCHANGED <<event, worker, accepted, pulls, leases>>

\* Another handler has read the same time and inserted its row.
InsertCollides(h) ==
  /\ hpc[h] = "insert"
  /\ Exists(hid[h])
  /\ Answer(h, "error")
  /\ UNCHANGED <<tables, event, worker, accepted, pulls, mishaps, leases>>

\* The comment on the issue may fail; the handler answers all the same.
Acknowledge(h) ==
  /\ hpc[h] = "acknowledge"
  /\ accepted' \in {accepted, accepted \cup {hdel[h]}}
  /\ hpc' = [hpc EXCEPT ![h] = "answer"]
  /\ UNCHANGED <<tables, event, hdel, hid, worker, replies, pulls, mishaps, leases>>

AnswerQueued(h) ==
  /\ hpc[h] = "answer"
  /\ Answer(h, "queued")
  /\ UNCHANGED <<tables, event, worker, accepted, pulls, mishaps, leases>>

HandlerStep(h) ==
  \/ RecordNewDelivery(h) \/ RecordDuplicate(h) \/ RecordFails(h)
  \/ Deny(h) \/ StampJob(h) \/ InsertJob(h) \/ InsertFails(h) \/ InsertCollides(h)
  \/ Acknowledge(h) \/ AnswerQueued(h)

-----------------------------------------------------------------------------
(* StartWorkerLoop: one goroutine that calls RunOne again and again.       *)

Release == wjob' = NoJob /\ wrepairs' = 0 /\ wpull' = "none"

WorkerUnchanged == UNCHANGED <<event, handlers, replies, accepted>>

\* A write that took place is answered, or an error is reported all the same: then
\* RunOne returns, and nothing comes back to a job that is not queued.
GoesOn ==
  \/ UNCHANGED <<worker, mishaps>>
  \/ Fault /\ Release

\* A lease that fails changes nothing, and the loop tries again; one whose commit
\* reports an error leaves its row without a worker.
Lease(j) ==
  /\ wjob = NoJob
  /\ LeaseNext(j)
  /\ \/ wjob' = j /\ UNCHANGED <<wrepairs, wpull, mishaps>>
     \/ Fault /\ UNCHANGED worker
  /\ leases' = [leases EXCEPT ![j] = @ + 1]
  /\ WorkerUnchanged /\ UNCHANGED pulls

\* The state of the running job.
At(s) == wjob # NoJob /\ jobs[wjob].state = s

Start ==
  LET c == jobs[wjob].command
      phase == IF c = "plan" THEN "planning" ELSE "implementing" IN
  /\ At("starting")
  /\ c \in {"plan"} \cup ImplementCommands
  /\ Transition(wjob, "starting", phase, TRUE)
  /\ GoesOn
  /\ WorkerUnchanged /\ UNCHANGED <<pulls, leases>>

\* Mutant: the error of the INSERT is ignored.
StartAnyway ==
  LET c == jobs[wjob].command
      phase == IF c = "plan" THEN "planning" ELSE "implementing" IN
  /\ At("starting")
  /\ c \in {"plan"} \cup ImplementCommands
  /\ Fault
  /\ Transition(wjob, "starting", phase, FALSE)
  /\ WorkerUnchanged /\ UNCHANGED <<worker, pulls, leases>>

\* The UPDATE of Transition succeeds, the INSERT of its event does not: RunOne
\* returns and the row stays in the new state.
StartUnlogged ==
  LET c == jobs[wjob].command
      phase == IF c = "plan" THEN "planning" ELSE "implementing" IN
  /\ At("starting")
  /\ c \in {"plan"} \cup ImplementCommands
  /\ Fault
  /\ Transition(wjob, "starting", phase, FALSE)
  /\ Release
  /\ WorkerUnchanged /\ UNCHANGED <<pulls, leases>>

\* Mutant: the worker returns without SetState(failed).
FailUnwritten ==
  /\ wjob # NoJob
  /\ Release
  /\ WorkerUnchanged /\ UNCHANGED <<tables, pulls, mishaps, leases>>

\* Preparation, prompt, policy, git or GitHub failed, or the command is one the
\* worker does not support.  GitHub may have opened the pull request.
Fail ==
  /\ wjob # NoJob /\ wpull # "numbered"
  /\ SetState(wjob, "failed")
  /\ Release
  /\ WorkerUnchanged /\ UNCHANGED <<pulls, mishaps, leases>>

Test ==
  /\ At("implementing")
  /\ SetState(wjob, "testing")
  /\ GoesOn
  /\ WorkerUnchanged /\ UNCHANGED <<pulls, leases>>

\* Mutant: the budget is off by one.
RepairOnceMore ==
  /\ At("testing")
  /\ wrepairs <= MaxRepairs
  /\ wrepairs' = wrepairs + 1
  /\ SetState(wjob, "implementing")
  /\ WorkerUnchanged /\ UNCHANGED <<wjob, wpull, pulls, mishaps, leases>>

Repair ==
  /\ At("testing")
  /\ wrepairs < MaxRepairs
  /\ SetState(wjob, "implementing")
  /\ \/ wrepairs' = wrepairs + 1 /\ UNCHANGED <<wjob, wpull, mishaps>>
     \/ Fault /\ Release
  /\ WorkerUnchanged /\ UNCHANGED <<pulls, leases>>

AskHuman ==
  /\ At("planning") \/ At("implementing") \/ At("testing")
  /\ SetState(wjob, "waiting_human")
  /\ Release
  /\ WorkerUnchanged /\ UNCHANGED <<pulls, mishaps, leases>>

FinishPlan ==
  /\ At("planning")
  /\ SetState(wjob, "done")
  /\ Release
  /\ WorkerUnchanged /\ UNCHANGED <<pulls, mishaps, leases>>

AcceptDiff ==
  /\ At("implementing") \/ At("testing")
  /\ SetState(wjob, "creating_pr")
  /\ GoesOn
  /\ WorkerUnchanged /\ UNCHANGED <<pulls, leases>>

\* GitHub opens the pull request; its answer may still be lost (Fail).
OpenPullRequest ==
  /\ At("creating_pr") /\ wpull = "none"
  /\ pulls' = pulls \cup {wjob}
  /\ wpull' = "opened"
  /\ WorkerUnchanged /\ UNCHANGED <<tables, wjob, wrepairs, mishaps, leases>>

\* An error of SetPRNumber is ignored.
NumberPullRequest ==
  /\ At("creating_pr") /\ wpull = "opened"
  /\ \/ SetPRNumber(wjob) /\ UNCHANGED mishaps
     \/ (SetPRNumber(wjob) \/ UNCHANGED tables) /\ Fault
  /\ wpull' = "numbered"
  /\ WorkerUnchanged /\ UNCHANGED <<wjob, wrepairs, pulls, leases>>

\* After the comment, or when there was nothing to commit.
Finish ==
  /\ At("creating_pr") /\ wpull # "opened"
  /\ SetState(wjob, "done")
  /\ Release
  /\ WorkerUnchanged /\ UNCHANGED <<pulls, mishaps, leases>>

\* A write of the row fails without effect, whichever it is: RunOne returns.
WriteFails ==
  /\ wjob # NoJob
  /\ Fault
  /\ Release
  /\ WorkerUnchanged /\ UNCHANGED <<tables, pulls, leases>>

WorkerStep ==
  \/ \E j \in JobIds : Lease(j)
  \/ Start \/ StartUnlogged \/ Fail \/ Test \/ Repair \/ AskHuman \/ FinishPlan
  \/ AcceptDiff \/ OpenPullRequest \/ NumberPullRequest \/ Finish \/ WriteFails

-----------------------------------------------------------------------------
\* Mutant: running jobs are queued again after a restart.
CrashAndRequeue ==
  /\ crashes < MaxCrashes
  /\ crashes' = crashes + 1
  /\ hpc' = [h \in Handlers |-> "idle"]
  /\ hdel' = [h \in Handlers |-> NoDelivery]
  /\ hid' = [h \in Handlers |-> NoJob]
  /\ Release
  /\ jobs' = [j \in JobIds |-> IF IsRunning(j) THEN [jobs[j] EXCEPT !.state = "queued"] ELSE jobs[j]]
  /\ UNCHANGED <<deliveries, events, event, github, faults, leases>>

\* The process is killed (there is no shutdown handling) and started again.
CrashAndRestart ==
  /\ crashes < MaxCrashes
  /\ crashes' = crashes + 1
  /\ hpc' = [h \in Handlers |-> "idle"]
  /\ hdel' = [h \in Handlers |-> NoDelivery]
  /\ hid' = [h \in Handlers |-> NoJob]
  /\ Release
  /\ UNCHANGED <<tables, event, github, faults, leases>>

Next ==
  \/ \E h \in Handlers : HandlerStep(h) \/ \E d \in Deliveries : Receive(h, d)
  \/ WorkerStep
  \/ CrashAndRestart

Spec == Init /\ [][Next]_vars

\* Goroutines are scheduled, and every program and request the worker waits for
\* comes to an end.  Nothing obliges GitHub to send anything.
FairSpec ==
  /\ Spec
  /\ \A h \in Handlers : WF_vars(HandlerStep(h))
  /\ WF_vars(WorkerStep)
-----------------------------------------------------------------------------
(* Correctness.                                                            *)

TypeOK ==
  /\ QueueTypeOK
  /\ event \in [Deliveries -> Events]
  /\ hpc \in [Handlers -> {"idle", "record", "create", "insert", "acknowledge", "answer", "deny"}]
  /\ hdel \in [Handlers -> Deliveries \cup {NoDelivery}]
  /\ hid \in [Handlers -> JobIds \cup {NoJob}]
  /\ wjob \in JobIds \cup {NoJob}
  /\ wrepairs \in 0..MaxRepairs
  /\ wpull \in {"none", "opened", "numbered"}
  /\ replies \subseteq Deliveries \X Promises
  /\ accepted \subseteq Deliveries
  /\ pulls \subseteq JobIds
  /\ crashes \in 0..MaxCrashes
  /\ faults \in 0..MaxFaults
  /\ leases \in [JobIds -> Nat]

\* However often a delivery is sent, by however many requests at once, across
\* failed writes and restarts, there is at most one job for it.
OneJobPerDelivery ==
  \A i, j \in JobIds :
    Exists(i) /\ Exists(j) /\ jobs[i].delivery = jobs[j].delivery => i = j

\* A delivery's command is executed at most once: over all the jobs of one
\* delivery there is at most one lease.
AtMostOneExecution ==
  \A i, j \in JobIds :
    leases[i] > 0 /\ leases[j] > 0 /\ jobs[i].delivery = jobs[j].delivery =>
      i = j /\ leases[i] = 1

\* Who may have code written for an issue: the configured actor, on an open and
\* unlocked issue of a listed repository, as a maintainer, or as a requester once
\* the issue has the required labels.
MayImplement(e) ==
  /\ e.command \in ImplementCommands
  /\ e.configured /\ e.actor = "hellcatjack"
  /\ ~ e.closed /\ ~ e.locked
  /\ e.role \in {"maintainer", "admin"} \/ (e.role = "requester" /\ e.labelled)

\* Behind every pull request is a recorded delivery that asked for it and whose
\* actor was entitled to ask, whatever the handlers and the worker went through;
\* and a row that has a pull request's number has the pull request.
PullRequestsAreAuthorized ==
  /\ \A j \in pulls :
       jobs[j].delivery \in deliveries /\ MayImplement(event[jobs[j].delivery])
  /\ \A j \in JobIds : jobs[j].pr => j \in pulls

\* Whoever was told that a request is queued, by the HTTP answer or by the
\* comment on the issue, has a row in the queue, whatever crashed since.
AcknowledgedJobExists ==
  \A d \in Deliveries :
    <<d, "queued">> \in replies \/ d \in accepted =>
      \E j \in JobIds : Exists(j) /\ jobs[j].delivery = d

\* Work on the job has begun, and it was not abandoned before its first program.
Phase(j) == IF jobs[j].command = "plan" THEN "planning" ELSE "implementing"
Begun(j) ==
  \/ jobs[j].state \in {"testing", "creating_pr", "waiting_human", "done"}
  \/ wjob = j /\ jobs[j].state \in {"planning", "implementing"}

\* The events of a job tell how it came to be where it is: exactly the leased jobs
\* have left the queue, each with the event that says so, and no job is worked on
\* unless the event of its start is there too, although that is written after the
\* row and not in one transaction with it.
LeaseIsAudited ==
  \A j \in JobIds :
    /\ (jobs[j].state \notin {"absent", "queued"}) <=>
         leases[j] > 0 /\ <<j, "queued", "starting">> \in events
    /\ Begun(j) => <<j, "starting", Phase(j)>> \in events

\* A row that says a job is running, and no worker works on it.
Orphan(j) == IsRunning(j) /\ wjob # j

\* A running row that no worker is working on is the trace of a crash or of a
\* failed write, one each.
OrphansAreAccountedFor ==
  Cardinality({j \in JobIds : Orphan(j)}) <= crashes + faults

\* Every row goes through the lifecycle; one that is not there yet counts as
\* one that is waiting to be leased.
RowState(j) == IF Exists(j) THEN jobs[j].state ELSE "queued"
Lifecycle(j) == INSTANCE JobLifecycle WITH state <- RowState(j)
LifecycleSpec ==
  /\ \A j \in JobIds : Lifecycle(j)!Init
  /\ [][\A j \in JobIds : Lifecycle(j)!Next \/ UNCHANGED RowState(j)]_jobs

\* Every queued job is settled, also while other jobs and duplicates keep coming
\* in, and whatever became of older jobs in a crash.  Only a crash or a failed
\* write of its own run can leave it an orphan.
QueuedJobSettles ==
  \A j \in JobIds :
    jobs[j].state = "queued" ~> jobs[j].state \in Terminal \/ Orphan(j)

-----------------------------------------------------------------------------
(* Why it is correct: an inductive invariant, in named parts.              *)

\* A handler past the duplicate check is the only one with its delivery, and the
\* delivery has no row yet; one that acknowledges has inserted the row.
HandlersOK ==
  \A h \in Handlers :
    /\ hpc[h] # "idle" => hdel[h] \in Deliveries /\ Listens(event[hdel[h]])
    /\ hpc[h] \in {"create", "insert"} =>
         /\ hdel[h] \in deliveries
         /\ Executable(event[hdel[h]])
         /\ \A j \in JobIds : Exists(j) => jobs[j].delivery # hdel[h]
         /\ \A g \in Handlers \ {h} :
              hpc[g] \in {"create", "insert"} => hdel[g] # hdel[h]
    /\ hpc[h] = "insert" => hid[h] \in JobIds
    /\ hpc[h] \in {"acknowledge", "answer"} =>
         \E j \in JobIds : Exists(j) /\ jobs[j].delivery = hdel[h]

\* A row stands for a recorded delivery, carries its command, and is only in the
\* phases of that command.
RowsOK ==
  \A j \in JobIds :
    LET row == jobs[j] IN
    /\ Exists(j) =>
         /\ row.delivery \in deliveries
         /\ Executable(event[row.delivery])
         /\ row.command = event[row.delivery].command
    /\ row.state = "planning" => row.command = "plan"
    /\ row.state \in {"implementing", "testing", "creating_pr"} =>
         row.command \in ImplementCommands

\* The worker's job is running, and a job is leased once, when it leaves the
\* queue; a pull request is the work of an implementation job that was leased,
\* and the worker has one before it writes the number.
LeasesOK ==
  /\ wjob # NoJob => IsRunning(wjob)
  /\ wpull # "none" => wjob \in pulls
  /\ \A j \in JobIds :
       /\ leases[j] = IF jobs[j].state \in {"absent", "queued"} THEN 0 ELSE 1
       /\ leases[j] = 1 => <<j, "queued", "starting">> \in events
       /\ j \in pulls => leases[j] = 1 /\ jobs[j].command \in ImplementCommands
       /\ jobs[j].pr => j \in pulls
       /\ Begun(j) => <<j, "starting", Phase(j)>> \in events

IInv ==
  /\ TypeOK /\ HandlersOK /\ RowsOK /\ LeasesOK
  /\ OneJobPerDelivery /\ AcknowledgedJobExists

-----------------------------------------------------------------------------
(* What the documents say, where the code does something else.             *)

\* The documented answer to a duplicate delivery names the job: once nobody is
\* handling the delivery any more, a duplicate of an executable one has a job.
DuplicateHasJob ==
  \A d \in Deliveries :
    /\ <<d, "duplicate">> \in replies
    /\ Executable(event[d])
    /\ \A h \in Handlers : hdel[h] # d
    => \E j \in JobIds : Exists(j) /\ jobs[j].delivery = d
=============================================================================
