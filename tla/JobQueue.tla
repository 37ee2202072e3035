------------------------------ MODULE JobQueue ------------------------------
(***************************************************************************)
(* The SQLite job queue (internal/queue/store.go): the tables, and one     *)
(* operator per Store method that writes them.  Open limits the database   *)
(* to one connection, so a statement or a transaction is one step; a call  *)
(* that reports an error is modelled by its caller, as a step that changes *)
(* no table or as one that has had its effect all the same.                *)
(* Gateway interleaves these operations; the read-only queries that no     *)
(* component calls (JobsByIssue, LatestReadyPlan) are left out.            *)
(***************************************************************************)
EXTENDS Naturals, JobTypes

CONSTANTS
  Deliveries,  \* X-GitHub-Delivery identifiers
  NoDelivery,  \* the delivery of a row that is not there
  MaxJobs,     \* bound on the identifiers the clock can stamp
  CreatedAt    \* the place of each creation time among them as a text

\* job_<UnixNano>: the identifier is the creation time.
JobIds == 1..MaxJobs

\* The order of the texts is not that of the times (CreationTimes).
ASSUME QueueAssumption == CreatedAt \in [JobIds -> Nat]

VARIABLES
  deliveries,  \* the primary keys of webhook_deliveries
  jobs,        \* the rows of jobs
  events       \* the rows of job_events, as <<job, from_state, to_state>>

tables == <<deliveries, jobs, events>>

Row == [state: State \cup {"absent"},
        delivery: Deliveries \cup {NoDelivery},
        command: Commands \cup {"none"},
        pr: BOOLEAN]

NoRow == [state |-> "absent", delivery |-> NoDelivery, command |-> "none", pr |-> FALSE]

QueueInit ==
  /\ deliveries = {}
  /\ jobs = [j \in JobIds |-> NoRow]
  /\ events = {}

QueueTypeOK ==
  /\ deliveries \subseteq Deliveries
  /\ jobs \in [JobIds -> Row]
  /\ events \subseteq JobIds \X State \X State

Exists(j)  == jobs[j].state # "absent"
IsRunning(j) == jobs[j].state \in Running

-----------------------------------------------------------------------------
\* Mutant: RowsAffected is not looked at.
NeverDuplicate(d) == FALSE

\* INSERT OR IGNORE: a known delivery changes nothing and is a duplicate.
IsDuplicate(d) == d \in deliveries
RecordDelivery(d) ==
  /\ deliveries' = deliveries \cup {d}
  /\ UNCHANGED <<jobs, events>>

\* Mutant: INSERT OR REPLACE.
CreateJobReplacing(j, d, c) ==
  /\ jobs' = [jobs EXCEPT ![j] =
                [state |-> "queued", delivery |-> d, command |-> c, pr |-> FALSE]]
  /\ UNCHANGED <<deliveries, events>>

\* The identifier is the primary key: the INSERT fails if it is taken.  The
\* row is inserted queued, without a job event.
CreateJob(j, d, c) ==
  /\ ~ Exists(j)
  /\ jobs' = [jobs EXCEPT ![j] =
                [state |-> "queued", delivery |-> d, command |-> c, pr |-> FALSE]]
  /\ UNCHANGED <<deliveries, events>>

\* Mutant: failed jobs are taken up again.
NextQueuedOrFailed(j) ==
  /\ jobs[j].state \in {"queued", "failed"}
  /\ \A i \in JobIds : jobs[i].state \in {"queued", "failed"} => CreatedAt[j] <= CreatedAt[i]

\* Mutant: an older unfinished job keeps the others waiting.
NextUnlessBusy(j) ==
  /\ jobs[j].state = "queued"
  /\ \A i \in JobIds : jobs[i].state \in {"queued"} \cup Running => CreatedAt[j] <= CreatedAt[i]

\* The queued job with the first text: ORDER BY created_at LIMIT 1.
NextQueued(j) ==
  /\ jobs[j].state = "queued"
  /\ \A i \in JobIds : jobs[i].state = "queued" => CreatedAt[j] <= CreatedAt[i]

\* Mutant: the lease without its event.
LeaseNextUnlogged(j) ==
  /\ NextQueued(j)
  /\ jobs' = [jobs EXCEPT ![j].state = "starting"]
  /\ UNCHANGED <<deliveries, events>>

\* One transaction: the row and its event change together or not at all.
LeaseNext(j) ==
  /\ NextQueued(j)
  /\ jobs' = [jobs EXCEPT ![j].state = "starting"]
  /\ events' = events \cup {<<j, "queued", "starting">>}
  /\ UNCHANGED deliveries

\* Compare and set, followed by an INSERT of the event that is not part of the
\* same transaction: `logged` is FALSE when only the UPDATE took place.
Transition(j, from, to, logged) ==
  /\ jobs[j].state = from
  /\ jobs' = [jobs EXCEPT ![j].state = to]
  /\ events' = IF logged THEN events \cup {<<j, from, to>>} ELSE events
  /\ UNCHANGED deliveries

\* Unconditional, and without a job event.
SetState(j, to) ==
  /\ jobs' = [jobs EXCEPT ![j].state = to]
  /\ UNCHANGED <<deliveries, events>>

\* Nothing else of the row changes.
SetPRNumber(j) ==
  /\ jobs' = [jobs EXCEPT ![j].pr = TRUE]
  /\ UNCHANGED <<deliveries, events>>
=============================================================================
