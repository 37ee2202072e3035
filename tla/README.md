# Verification of codex-issue-gateway

The gateway is a Go service that turns commands in GitHub issues (`/codex plan`,
`/codex implement`, ...) into Codex runs and pull requests. It is one process with an
HTTP server, a SQLite queue and one worker goroutine. This directory holds TLA+ models
of its core, TLC configurations that check them on small instances, and TLAPS proofs
for all instances. Paths below are relative to `src/`.

## 1. The system

### Components, their state and their operations

| Component | Code | State | Operations |
|---|---|---|---|
| webhook server | `internal/server/server.go` | none of its own | `handleWebhook`: verify, normalize, record the delivery, find the command, authorize, create the job, comment, answer; artifact download |
| authorization | `internal/authz/authz.go` | none | `Authorize`, a decision table |
| command parser, events | `internal/commands`, `internal/webhook` | none | `ParseBody`, `Normalize`, signature check |
| job queue | `internal/queue/store.go`, `models.go` | tables `webhook_deliveries`, `jobs`, `job_events`, `plan_artifacts` | `RecordDelivery`, `CreateJob`, `LeaseNext`, `Transition`, `SetState`, `SetPRNumber`, `TouchActivity`, `SavePlanArtifact`, queries |
| worker loop | `internal/app/app.go` | none | `StartWorkerLoop`: `RunOne`, again and again |
| worker | `internal/worker/worker.go`, `result.go` | two attempt counters, the pending confirmation and its fingerprint (local variables); the job's row | `RunOne`, `runPlan`, `runImplementation`, `requestImplementationPlanRevision`, `codexFailure` |
| visual review | `internal/worker/visual_review.go`, `playwright.go` | the staging directory of screenshots, the published ones | `runVisualReview`, `publishScreenshotArtifacts`, `workspacePatchFingerprint` |
| sandbox and git | `internal/sandbox/sandbox.go` | the checkout: HEAD, index, working tree; the work branch on the remote | prepare, `ChangedFiles`, `CommitAll`, `PushBranch` |
| diff policy | `internal/diffpolicy/policy.go` | none | `Evaluate` |
| process runner | `internal/runner/process.go`, `codex.go` | pipes, two buffers, two goroutines | `RunProcess` |
| watchdog | `internal/runner/watchdog.go` | none | `Expired`; nothing calls it |
| GitHub client | `internal/github` | none | `FetchIssueContext` (one request per page of comments), `CreateIssueComment` (one per chunk), `CreatePullRequest`, tokens |
| issue context | `internal/issuecontext`, `promptForJob` in `worker.go` | the issue as it was read | `CommandSource`, `BuildPromptContext` |
| issue images | `internal/issueimage` | references tried, images, the files of a job | `Collect`, `download`, the redirect policy |
| public text | `internal/publiccomment`, `publicreport`, `publicartifact` | none | `SafeChunks`; redaction, formatting |
| screenshots | `publishScreenshotArtifacts` in `worker.go`, `handleArtifact` in `server.go` | the public directory of a job | publish, download |
| configuration, audit | `internal/config`, `internal/audit` | none | read once; redaction helpers |

### Interactions

Handlers run concurrently, one goroutine per request; they share only the database with
each other and with the worker. The database has a single connection, so that a
statement or a transaction is atomic, and a handler that does three calls is three steps
with anything in between. The worker is alone: it leases the oldest queued row and runs
it to its end before it looks at the next. It starts programs (setup commands, Codex,
tests, visual review) and talks to them through pipes; they share with it the checkout
and the staging directory of screenshots that lies in it.

### What is hard

* **Concurrency**: one delivery in two requests at once; handlers between the worker's
  writes; the two readers of a running program.
* **Failure**: any database write, git command or request may fail, and most errors of
  writes are ignored; the process may be killed between any two steps; the answer of
  GitHub may be lost after the request took effect.
* **Ordering in the worker**: seven branches lead from one Codex run to the next, two
  budgets bound them, and the verdicts (tests, policy, screenshots, fingerprint) are
  about the workspace of an earlier moment.
* **Other people**: between the event and the run, and between two pages of comments,
  anybody may post, edit, delete, close and lock; servers answer what they like.
* **Waiting**: nothing has a timeout; a program that does not end holds the worker.

### What makes each component correct

* Queue and server: a delivery gets at most one job and is executed at most once;
  whoever was told "queued" has a row; a pull request has an authorized origin; a lease
  and its event are one; what no worker works on can be blamed on a mishap; every queued
  row is settled.
* Worker: what is pushed was tested, or was confirmed with its screenshots; a file that
  the policy forbids is never pushed in a changed form (it may be pushed as removed, see
  `DeniedMoved` below); the tip of a pushed branch holds no screenshot unless the removal
  of the staging directory failed; no Codex run is free, and no human is asked before the
  budgets are used; exactly one comment tells the outcome; `RunOne` returns.
* Issue context and images: a prompt is made of a command that was still there; a command
  nobody touched is not refused; no comment is missed or read twice; Codex gets images
  of collaborators from GitHub, each in a file of its own.
* Comments and screenshots: the issue shows the whole report or says that it does not; a
  link leads to its picture, and no picture is lost to a name.
* Diff policy, creation times: a pattern matches what it means; jobs are leased in order.
* Process runner: a result is complete when it is read, success means a whole run, and
  a call returns.

`PROJECT.json` lists the hazards behind these properties line by line.

## 2. The modules

| Module | Models | Uses |
|---|---|---|
| `JobTypes` | the states and commands that the code writes | |
| `JobLifecycle` | **abstract specification** of one row: which state may follow which | `JobTypes` |
| `JobQueue` | the tables and one operator per `Store` method | `JobTypes` |
| `Gateway` | handlers, queue, worker loop, GitHub, crashes | `JobQueue`; implements `JobLifecycle` for every row |
| `WorkerRun` | one call of `RunOne` in full, over three trees of files | implements `JobLifecycle` |
| `ProcessRunner` | `RunProcess`, its goroutines, pipes and the program | |
| `IssueContext` | a command from its event over the queue to the fetched issue, next to people who change it | `JobTypes` |
| `IssueImages` | `Collect`: the loop, the redirects, the files | |
| `PromptForJob` | `promptForJob` as a whole, with its properties and invariant | `IssueContext`, `IssueImages` |
| `PublicComment` | `SafeChunks`, `CreateIssueComment`, `commentWithFallback` | |
| `Screenshots` | publishing and download of screenshots | |
| `DiffPolicy`, `CreationTimes` | glob patterns; `created_at` as text | |
| `GatewayMC`, `WorkerRunMC`, `ProcessRunnerMC`, `PromptForJobMC` | values for the constants | |
| `TextsMC` | the last four modules side by side, each in behaviours of its own | |
| `GatewayProofs`, `WorkerRunProofs`, `ProcessRunnerProofs`, `PromptForJobProofs`, `PublicCommentProofs`, `ScreenshotsProofs` | theorems about the module each is named after | |
| `VerdictProofs` | theorems about `DiffPolicy` and `CreationTimes` | `ListLemmas` |
| `ListLemmas` | lemmas about numbers, sequences and library operators, for the last three | |

The decomposition is by abstraction: `Gateway` has the worker only by its writes to the
row and to GitHub; `WorkerRun` has one run in full and nothing else of the gateway. Both
are shown to implement `JobLifecycle`. `ProcessRunner` is what `WorkerRun` takes for
granted about programs it waits for. `PromptForJob` opens the step that `WorkerRun` has
as `PromptReady` or `PromptFails`, `PublicComment` its comments, `Screenshots` its
`Publish`, `DiffPolicy` its set `Denied`, and `CreationTimes` the order of identifiers in
`JobQueue`.

### Gateway: state and actions

`deliveries`, `jobs` and `events` are the tables. A row keeps its state, delivery,
command and whether it has a pull request number. A job identifier is the `UnixNano`
stamp, so identifiers are numbers; a handler reads the clock (`StampJob`) before it gets
the connection (`InsertJob`), so a later row may have the earlier stamp, and two handlers
may read the same time: then the second insertion meets the primary key
(`InsertCollides`). The clock itself is no variable; the last stamp is in the handlers and
the rows. `LeaseNext` orders by the text of the time: `CreatedAt` is the place of each
time among the texts, any function in the proofs, and the reverse order in the runs.
`hpc` says which call a handler is at: `record` (`RecordDelivery`), `create` and `insert`
(`CreateJob`), `acknowledge` (the comment), `answer` (the HTTP answer), `deny` (the comment
that refuses and the answer, which promise nothing). Each action runs up to and including
one call. `replies` keeps the answers that promise a job. `Receive` stands for a request
with an event that passed the signature check. `event` gives each delivery its content
once and for all: GitHub resends the same body. A database call that reports an error may
have had its effect or not.

`Authorize` is the table of `authz.Authorize`. The handler never sets `HasActiveJob` or
`ReadyPlan`, and the model calls it that way.

The worker's actions are `Lease` (the transaction of `LeaseNext`), `Start` (the UPDATE
and INSERT of `Transition`; `StartUnlogged` when the second fails), one action per kind
of `SetState`, `OpenPullRequest` and `NumberPullRequest` (what GitHub has, and the number
in the row; `wpull` says how far the run is with them), and `WriteFails`. `CrashAndRestart` keeps the tables
and what GitHub has, and loses the rest. There is no recovery action because the code
has none.

### WorkerRun: state and actions

`pc` follows the control flow of `RunOne`, `runPlan` and `runImplementation`; `state` is
the column of the row; `repairs`, `visuals`, `pending` and `fingerprint` are the local
variables of `runImplementation`. The checkout is three functions from files to contents:
`head`, `index`, `work`. `ChangedFiles` holds the lists that `sandbox.ChangedFiles` may
return, the union of its four git commands. `git diff --name-only` between two trees
(`NameOnly`) looks for renames: a file that is gone and one that is new, alike in contents
(`Alike`), may be listed as one, under the new name; which pairs git chooses is left open.
`Fingerprint` is `git diff` (working tree against index, silent about files that the index
does not hold), `CommitChanges` is `git add -A` and `git commit`. Codex may edit any file
and, where its sandbox allows (`AgentGit`), stage any of them and commit; configured
commands may rewrite the files of `CommandWrites`. The staging directory is the set of the
origins of its files (`visual`, or `other` for Codex, setup and tests), because the
question about a screenshot is whose it is; `indexed` and `committed` say whether the
index and HEAD hold files of it, which Codex may stage and commit like others, and `kept`
whether the last removal of it failed and left files. `said` is the set of outcome
comments the worker asked for; `lost`, `spent`, `tested` and `review` are history.

With `Faults`, every database write and local git command may fail, with the row left as
the code leaves it: ignored errors keep the old state, errors that are returned end the
run. The removal of the staging directory may fail likewise. Requests to GitHub and `git push` may always fail, with or without effect.

### ProcessRunner: state and actions

A pipe is a counter of chunks up to `Capacity`. The gateway writes stdin, closes it,
starts two readers, waits for both and then for the program. The program writes some
output, reads its input to the end, to some point before it, or not at all, writes more,
exits or is killed, and may leave a process behind that keeps the pipes open. A program
that leaves input unread and exits with 0 is a success if the rest of the input was
written: `SuccessIsWhole` claims that the input was read only of programs that read all.

### PromptForJob: state and actions

`issue` and `thread` are what GitHub has; people change them with `Post`, `Edit`,
`Delete`, `EditIssue` and `Switch`. One of their changes may send the event that is
followed (`hook`). `phase` then goes through `Deliver` (the handler, which believes the
event), `FetchIssue`, `FetchPage` for each page, and `Check`; any request may `Fail`. A
page is cut out of the thread by position, as the API does. A text is its `/codex` lines
and its images. `ParseBody` voids a text with one invalid line, and its two callers pass
different limits: `HandlerMinutes` from the configuration and 240.

`IssueImages` has one action per way through the loop of `Collect`. A URL is a member of
one of four sets, by what the allowlist and the redirect policy say of it. `chain` holds
the requests of a download; each answer is a redirect, an image (`Attach`), something
that is left out (`Skip`) or a body that breaks off (`Abort`). `disk` says what was asked
for and who answered, so that a file can be compared with the image it is taken for.

`touched`, `shifted`, `present`, `wasCurrent` and `wasOpen` are history: what happened to
the command since its event, and what was true at some moment of the fetch.

### PublicComment, Screenshots, DiffPolicy, CreationTimes

`PublicComment` cuts a text of bytes (four kinds: newline, other ASCII, first and further
byte of a rune) and posts the chunks; a request fails or loses its answer (`Refused`), and
`commentWithFallback` then posts the short text; `failed` says that it returned an error.
`Screenshots` keeps the public directory over the reviews of a job, with copies that break
off, reviews that return early, staged files that were not removed, and a public directory
that cannot be read, so that the taken names are forgotten; `Served` is the handler of the
links. `DiffPolicy` compares `matchesAny` with what patterns mean (`Means`), and
`CreationTimes` the text order of two times with their order. That a pattern matches is
said by a cut (`Cuts`): the path falls into one part for each element of the pattern, and
each part is what its element allows.

## 3. The runs

| Run | Question | Bounds | Distinct states |
|---|---|---|---|
| `WorkerRunTests` | is what is pushed tested and allowed, do screenshots stay out, is the outcome told, does the run implement the lifecycle, without visual review? | 2 files, 2 contents, equal ones alike, 2 repairs, faults, staging and committing by Codex | 1,555,264 |
| `WorkerRunVisual` | is what is pushed confirmed, are runs paid for, are the budgets used, does the run end, with visual review? | 2 files, 1 content, 1 repair, 2 reviews, faults, staging by Codex | 1,644,705 |
| `GatewaySafety` | are the safety properties of queue and server kept? | 2 concurrent handlers, 2 deliveries of 5 kinds of event, 2 jobs whose texts are in the wrong order, 1 repair, 1 crash, 1 write that reports an error; symmetric in deliveries and handlers | 1,858,302 |
| `GatewaySettles` | is every queued job settled? | 1 handler, 2 deliveries of 1 kind, 1 crash, 1 write that reports an error | 475,168 |
| `Prompt` | is a prompt made of a current command, is a refusal justified, are pages and images what they are taken for? | 3 accounts, 3 texts, 2 beginnings, 3 changes, pages of 2; 2 images, 3 requests | 2,296,638 |
| `Texts` | do comments carry the report, do links lead to their pictures, do patterns and times mean what they say? | all texts of up to 8 bytes, chunks of 4; 6 files, 3 pictures, 2 reviews; all paths and patterns of up to 3 segments; fractions of 3 digits | 988,911 |
| `Runner` | is a result complete, and does a call return? | pipes of 2 chunks; inputs of 0, 1, 3; outputs of 0, 3 and 0, 1; all 288 calls | 57,303 |

The bounds are the smallest with which the interesting case happens. Two handlers race
for one delivery, and two deliveries give two jobs, so that one can be stuck while the
other waits. One crash and one failed write can meet in one run. One kind of event is
enough for `GatewaySettles`: what matters is that both deliveries may give a job, and
either may be orphaned, fail or finish. Two repairs are one
after a repair; two reviews are one that confirms and one that comes after a confirmation.
Two files are one that the policy or the command touches and one that it does not; one is
in the base branch, the other is new, which is the difference that `git diff` makes.
Inputs and outputs on either side of the capacity of a pipe decide whether it blocks.
Pages of two comments and three changes let a thread grow to three pages, or lose a
comment of the first page before the second is read; three texts are
a command, the same with a limit that the handler accepts and the worker does not, and talk; two images reach
the limit with a reference to spare, three requests are two redirects. A text of eight
bytes gives three chunks of four with runes and newlines at every place of a cut. Six
files include names that clean to the same, to nothing, and to the number that another is
given; two reviews are one that meets the files of another. The proofs of section 5
remove these bounds for the safety properties of all runs; the liveness properties keep
them.

`Texts` also checks the inductive invariants of the proofs about comments and
screenshots (`CommentIInv`, `ShotsIInv`), each of which says more than the properties it
is for: where the cut stands, and which names and pictures are accounted for.

`Prompt`, `Texts` and `Runner` do not check for deadlock: a job that is prepared or
refused, a comment that is posted and a call that returned (or hangs) have no next step.

Five more runs end in a counterexample, each for a sentence of the documents that the
code does not keep:

| Run | Property | What happens |
|---|---|---|
| `FailedTestsPR` | `FailedTestsPreventPR` | Tests fail; Codex answers `needs_plan_revision`, which leads to a visual review without tests; it passes, Codex changes nothing, and the pull request is opened with a body that says the tests passed. |
| `UnseenChange` | `ReviewedTreeIsPushed` | After the review Codex adds a new file. It is untracked, so the fingerprint is the same, and `git add -A` takes it along. |
| `StaleScreenshots` | `ReviewTookScreenshots` | The review takes no screenshot, but the staging directory holds one of Codex or of the tests; the review passes. |
| `LostCommand` | `DuplicateHasJob` | The delivery is recorded, the insertion of the job fails; the redelivery is answered as a duplicate and the command is lost. |
| `DeniedMoved` | `DeniedNeverPushed` | Codex moves a file of the denylist and stages the move. `git diff --name-only` names only the new file, the policy accepts, and the removal is pushed. |

### Liveness and fairness

`WorkerRunVisual` checks `Settles` under weak fairness of everything the worker does,
its programs included: every program it starts exits. The run ends, and its row has then
settled unless a write of the row itself failed on the way (`lost`). That is an assumption about the
environment, which the code does nothing to enforce: the watchdog is never called.
`Runner` shows what it rests on: if the program goes on while it can, the call returns,
provided that the input or the output before it is read fits in a pipe (`Fits`).
Without `Fits` it may deadlock, because all of stdin is written before stdout is read.

`GatewaySettles` assumes that each handler and the worker goroutine go on. It assumes
nothing of GitHub: no delivery needs to come, and a step of a handler is fair only once
it is enabled. A job that a mishap orphans is the exception in `QueuedJobSettles`:
nothing ever leads out of that state, and `OrphansAreAccountedFor` bounds their number.

## 4. Abstract specification and refinement

`JobLifecycle` says what may follow what in the state column. `WorkerRun` implements it
with its own variable `state`. `Gateway` implements it once per row:
`Lifecycle(j) == INSTANCE JobLifecycle WITH state <- RowState(j)`, where a row that is not
there yet counts as queued. A crash, a failed write or a second handler is a stuttering
step of every row. Both refinements are checked by TLC (`LifecycleSpec` in
`WorkerRunTests` and `GatewaySafety`) and proved.

## 5. The proofs

Every safety property of a passing run is a theorem: the invariants, and the refinement
of `JobLifecycle`. The proofs use only the assumptions named in the modules:

* `WorkerRunAssumption`, `QueueAssumption`, `GatewayAssumption`, `ProcessRunnerAssumption`,
  `ContextAssumption`, `ImagesAssumption`, `PromptAssumption`: typed constants, and budgets
  that are positive, which `internal/config` ensures.
* `CommentAssumption`: a chunk has room for the longest rune (`MaxIssueCommentChunkBytes`
  is 61440), and a text that `Safe` returned is not empty and is valid UTF-8.
* `ScreenshotsAssumption`: the numbers that are appended to names are written with kept
  characters and are told apart by what is written; `-` and `.` are not kept characters.
* `PolicyAssumption`, `TimesAssumption`: types.

The numbers of files, handlers, deliveries, events, jobs, crashes, failed writes, bytes,
pictures, reviews, segments and digits are arbitrary.

**`GatewayProofs`**: `TypeOK`, `OneJobPerDelivery`, `AtMostOneExecution`,
`PullRequestsAreAuthorized`, `AcknowledgedJobExists`, `LeaseIsAudited`,
`OrphansAreAccountedFor` and `LifecycleSpec`. None of them is inductive; `IInv` is. Its
parts: `HandlersOK` (of the handlers past the duplicate check, at most one has a given
delivery, and no row has it yet), `RowsOK` (a row agrees with its recorded, authorized
delivery and is in a phase of its command), `LeasesOK` (a job is leased once, when it
leaves the queue; a job that is worked on has the event of its start; only a leased
implementation job has a pull request, and only one with a pull request has the number; the
worker's job is running). `OneJobPerDelivery` needs `HandlersOK` for the insertion; `AtMostOneExecution`
is `OneJobPerDelivery` with `LeasesOK`; the authorization of a pull request is `RowsOK`
with `LeasesOK`. The proof first says what a step does to the rows (`WorkerEffect`,
`LeaseEffect`, `HandlerEffect`): the worker moves one row, a handler inserts one. The
count of orphans uses the library's facts on cardinality.

**`WorkerRunProofs`**: `TypeOK`, `DeniedOnlyRemoved`, `PushedWasTested`,
`ConfirmedPatchIsPushed`, `EveryRunIsPaidFor`, `GivesUpOnlyWhenSpent`,
`ScreenshotsNotPushed`, `OutcomeIsReported` and `LifecycleSpec`, for any relation `Alike`.
`IInv` consists of `TypeOK`, `PhaseOK` (where the run is determines the row, and a review
starts only within its budget), `SpendOK` (the history of runs never gets ahead of the
budgets), `VerifiedOK` and `DeniedOK` (from the verdict to the push the tree is the one
that was judged; the place of the tree moves from the workspace to HEAD to the remote),
`CommitOK` (what the last `git add -A` finds of the screenshots is what their last removal
left), `ReportOK`, `OutcomeIsReported` and `RestOK` (a run that has ended has settled its
row, or a write of it failed). `DeniedOK` rests on `NameOnly`: a file that is in both trees
with different contents, or new in the second, is in every list that git may give; one that
is gone may be missing, and without `git add` by Codex HEAD and the index are the base
branch, so that `git diff` of the working tree, which pairs nothing off, names it.

**`ProcessRunnerProofs`**: `ResultIsComplete` and `SuccessIsWhole`, for all capacities and
calls, from conservation of chunks (`FlowOK`: what was written is in a pipe or in a
buffer) and progress (`ProgressOK`).

**`PromptForJobProofs`**: `IInv`, `PreparedWasCurrent`, `RejectedHasCause`,
`FetchIsFaithful`, `ImagesAreTrusted` and `ImagesAreOwnFiles`, for any accounts, texts,
beginnings, page size, limits and number of changes. `IInv` adds to the types: `ThreadOK`
(ids grow and belong to one author), `FetchOK` (between two pages, what was read is older
than what will be, and is the beginning of the thread unless a comment of it was
deleted), `SourceOK` (what nobody touched is what the event said: on GitHub, then in what
was read), `WitnessOK` (what was read was true when it was read), `DownloadOK` (the chain
begins with the reference at the cursor, and each link follows an allowed one) and
`OriginOK` (every list of references is a collaborator's, every image is of a list and in
the file of its place). `PreparedWasCurrent` is `WitnessOK` at the check: the author of a
comment does not change, and its text when its page was read was its text then.
`RejectedHasCause` needs `SourceOK` with `FetchOK` (an untouched comment that was there is
read) and the fact that a text the handler accepts is accepted by the worker unless it asks
for more minutes than the worker allows (`SameCommands`, `Overlong`). The proof says first what each action does to thread and pages
(`PostThread`, `EditThread`, `DeleteThread`, `Followed`), then takes the parts of `IInv`
one by one.

`ReferencesAreAccounted` needs the references of every earlier list, not of the current
one: `Dealt` is all that lies before the cursor, and `AccountOK` says that it falls into
the images and what was skipped, each once, and that `tried` is that and the download
under way. A step of the cursor adds one reference to `Dealt` (`DealtMore`), the step to
the next list none (`DealtKept`), and behind the last list it is all there is
(`DealtAll`).

**`PublicCommentProofs`**: `ChunksCarryTheReport`, `IssueTellsOutcome`, for all texts,
whatever their length and the size of a chunk. `CommentIInv` adds that what is still to be
cut is again a text of its own (`CutOK`: it begins with a rune, so the next cut finds a
place) and that the issue has the sent chunks after a beginning of the report
(`PostedOK`). The heart is that among the last four bytes that fit there is the first of
a rune, so that no chunk is empty and `Max` in `UTF8SafeCut` is a maximum.

**`ScreenshotsProofs`**: `LinksAreServed`, `EveryPictureIsShown`, for any files, names,
limit and number of reviews. `NamesOK` (no more names are used than files were looked at)
shows that a free number is left for a name that is taken, so that `PublicName` is a name
nobody has, and a later copy never meets an earlier one, or fails because of `O_EXCL` if
the names were forgotten; the cleaned name is shown to pass
the filter of the handler. `ShownOK` counts the pictures that have a link and follows the
due ones over failed copies and the limit.

**`VerdictProofs`**: `PolicyMeansPattern` for all paths and patterns, by turning one cut
into another: a match of `filepath.Match` is a cut into single segments, a prefix is one
with the rest for `**`, and conversely a cut of a plain pattern must be one of these.
`LeasesOlder` for any width of fraction: both orders are decided at the first place where
two sequences differ, which is the same place for the times and for their texts, unless
one text ends there.

**Recursion.** What `FlattenSeq` (a fold of the library) and `Dashed` (a recursive
function) give for every sequence is proved from `ListLemmas`: `Recursion` says that such
a definition is what it says step by step, and `Induction` that a set of numbers which
holds 0 and with each number the next is all of `Nat`. Both rest on `Least`, that a set of
numbers has a least element, which follows from the library's facts on well-founded
relations; a lemma applies them to the set of lengths for which its claim holds. The
induction theorems of the library, which take a predicate, are not used.

**Only model-checked**: the liveness properties `Settles`, `QueuedJobSettles` and
`Returns`, which are beyond the prover, and of course the five counterexamples.

## 6. Other differences between documents and code

Met while modelling, and not worth a run each; the models follow the code.

* `docs/superpowers/specs/2026-06-01-multi-repo-codex-issue-gateway-design.md:176` wants a
  watchdog for idle jobs. `internal/runner/watchdog.go:9` is never called.
* The same document, line 174, has one active job per issue by default. The handler never
  sets `HasActiveJob` (`internal/server/server.go:171`), so that two commands on one issue
  give two jobs; no interleaving is needed.
* The same document, line 245, wants stale leases recovered. `LeaseNext`
  (`internal/queue/store.go:188`) selects queued rows only; a crash orphans its job.
* Line 166 wants every state change logged. `SetState` (`store.go:224`) writes no event,
  and most changes go through it.
* Line 278 wants failures commented on. Most failures after the setup end in
  `SetState(failed)` and no comment (`internal/worker/worker.go:104`, `:338`).
* Line 308 wants a ready plan or a ready label before an implementation. The handler never
  looks a plan up, and `Authorize` asks for labels only of a requester.
* `docs/superpowers/specs/2026-06-02-codex-visual-review-feedback-loop-design.md:116` wants
  no pull request before Codex has confirmed the screenshots. A review that fails
  (`worker.go:254`) leaves the confirmation of an earlier one set: if Codex answered that
  earlier one with `needs_plan_revision`, and answers the failed one with the patch as it
  was, the loop ends as if it had confirmed it.
* `docs/operations.md:128` has a job without changed files end without a pull request: what Codex committed itself makes `CommitAll` find nothing to
  commit (`internal/sandbox/sandbox.go:138`), and the job is reported as "no file changes".
* `todos.md:954` has `/codex status` answered without a worker; `server.go:189` queues it
  like any other command, and the worker fails it as unsupported.
* `docs/superpowers/specs/2026-06-01-issue-image-context-design.md:9` has failed downloads
  skipped. A body that breaks off (`internal/issueimage/issueimage.go:244`) ends the
  collection; the images before it are given to Codex, and the prompt says only that image
  processing failed (`worker.go:787`), so that neither they nor what was skipped is
  described, which line 42 asks for.
* `docs/superpowers/specs/2026-06-01-multi-repo-codex-issue-gateway-design.md:140` has
  `--no-activity-minutes` from 30 to 240. The handler (`server.go:165`) accepts values up to
  `no_activity_timeout_minutes`, 45 by default; the run accepts up to 240
  (`worker.go:779`). If the configuration had more than 240, which nothing prevents, a
  command with such a value would be queued and then refused.
* A name with bytes beyond ASCII, a quote or a control character is printed in quotes by
  `git diff --name-only` and `git ls-files` (`core.quotePath`, on by default), and
  `internal/sandbox/sandbox.go:166` takes the quoted form for the name. A pattern that ends
  in the name or matches from the first directory on does not match it. `WorkerRun` takes
  for `Denied` what the patterns match under the name that git lists.
* What Codex commits of the staging directory itself is taken out of the tip by the last
  `git add -A`, but stays in the history of the branch that is pushed.
* The pattern `**/*secret*` of `configs/example.yml` matches files exactly one directory
  deep (`internal/diffpolicy/policy.go:48`), neither `secret.txt` nor `a/b/secret.txt`.
* Of two jobs of one second the later is leased first if the digits of the earlier begin
  its own, as 12:00:00.1 and 12:00:00.15 (`internal/queue/store.go:347`);
  `LeasesOlder` says exactly when.
* A screenshot whose copy was cut short stays in the public directory without a link, and
  `publicScreenshotImageFiles` (`worker.go:574`) hands it to Codex like the others.
* `todos.md:414` names protected branches; nothing reads them.

## 7. Not modelled

* Text: the wording of prompts and reports, the filters for secrets and paths
  (`publiccomment.Safe`, `publicreport`, `publicartifact`), titles, branch names. What
  they decide is a choice of the environment in the models: which comment is posted and
  whether a report is there.
* Signature, JSON decoding, headers, tokens, configuration: pure functions or I/O without
  state. What is read of the configuration is a constant.
* `TouchActivity`, plan artifacts and their readiness: written and never read, or never
  called, so that no behaviour depends on them.
* The statements within the transaction of `LeaseNext` as separate steps: the database has
  a single connection (`SetMaxOpenConns(1)`), so that nothing comes between them, and a
  crash in the middle leaves the row as it was.
* A comment without text: GitHub refuses it, so that the handler falls back to the body of
  the issue only for events of issues, which is how `IssueContext` has it.
* Patterns of `deny_paths` that match screenshots: `WorkerRun` keeps screenshots apart from
  `Files`, and has the policy judge `Files` only.
* A read error of a pipe other than its end (`internal/runner/process.go:134`): the pipes
  are local, and closed by the gateway only after both readers have ended.
* GitHub after a lost answer: a pull request that was opened although its request failed is
  in the models, but nothing in the code looks for it, so that no property does either.
* Labels and roles in `IssueContext`; they are in `Gateway`, at the time of the event.
* `filepath.Match` beyond `*` (character classes, `?`, escapes); comparisons of a prefix
  with wildcards in it are literal, as in the code.
* The watchdog and the audit helpers: nothing calls them.

## 8. How the project grew

In this order: `JobTypes`, `JobLifecycle`, `JobQueue`, `Gateway`, `WorkerRun`,
`ProcessRunner` and their proofs; then `IssueContext`, `IssueImages`, `PromptForJob` and
its proofs; then `PublicComment`, `Screenshots`, `DiffPolicy` and `CreationTimes`; then
`ListLemmas` and the proofs about these four, and the account of the references.

What could be added:

1. The extraction of images and artifacts from a report (`publicartifact`) as pure
   algorithms, with links that `handleArtifact` answers.
2. That `PromptForJob` and `PublicComment` implement the steps of `WorkerRun` that they
   open, as refinements.
3. The budgets that `WorkerRun` and `Gateway` both have, as one abstract specification of
   how many Codex runs a row can cost.

## 9. Running it

    tlc -config GatewaySafety.cfg GatewayMC      # likewise the other configurations
    tlapm GatewayProofs.tla                      # likewise the other proof modules
