------------------------------ MODULE WorkerRun ------------------------------
(***************************************************************************)
(* One call of Worker.RunOne (internal/worker/worker.go): the worker       *)
(* leases a job, prepares its workspace, and runs it as a plan job or as   *)
(* an implementation job until the row rests in a terminal state.          *)
(*                                                                         *)
(* An implementation job is a loop.  Codex edits the workspace; the        *)
(* gateway runs the test commands, then (when the repository has them) the *)
(* visual review commands, and feeds failures and screenshots back to      *)
(* Codex.  Two budgets bound it.  The loop is left with a commit, a push   *)
(* and a pull request, or by asking a human to revise the plan.            *)
(*                                                                         *)
(* Codex, the commands, git and GitHub are the environment: they may give  *)
(* any answer and leave any files.  The repository checkout is three       *)
(* trees (HEAD, the index, the working tree), because the fingerprint and  *)
(* the diff policy read different differences between them.                *)
(***************************************************************************)
EXTENDS Naturals, Functions, JobTypes

CONSTANTS
  Files,          \* paths of the repository that the job may touch
  Contents,       \* the contents a file may have
  Absent,         \* the file does not exist
  NoTree,         \* no tree at all
  Base,           \* the base branch: the tree the job starts from
  Alike,          \* pairs of contents that git takes for one file that moved
  Denied,         \* the files that deny_paths matches, under the name git lists
  CommandWrites,  \* the files that configured commands may rewrite
  AgentGit,       \* the git commands Codex may run itself: {"add", "commit"}
  VisualCommands, \* TRUE iff visual_review_commands is not empty
  PublicBaseURL,  \* TRUE iff server.public_base_url is a valid URL
  MaxRepair,      \* worker.implementation_repair_attempts
  MaxVisual,      \* worker.visual_review_attempts
  Faults          \* TRUE iff database writes, local git commands and the
                  \* removal of the staging directory may fail

Tree    == [Files -> Contents \cup {Absent}]
Origins == {"visual", "other"}  \* the visual review commands; Codex, setup and tests

\* The defaults of the two budgets are 8 and 3; a configured value is positive.
ASSUME WorkerRunAssumption ==
  /\ Base \in Tree
  /\ NoTree \notin Tree
  /\ Alike \subseteq Contents \X Contents
  /\ Denied \subseteq Files
  /\ CommandWrites \subseteq Files
  /\ AgentGit \subseteq {"add", "commit"}
  /\ {VisualCommands, PublicBaseURL, Faults} \subseteq BOOLEAN
  /\ MaxRepair \in Nat \ {0}
  /\ MaxVisual \in Nat \ {0}

VARIABLES
  command,     \* the command of the job (never changes)
  pc,          \* where RunOne is
  state,       \* the state column of the job's row
  status,      \* CodexResult.Status of the last Codex run
  repairs,     \* repairAttempts
  visuals,     \* visualAttempts
  pending,     \* visualConfirmationPending
  fingerprint, \* visualConfirmationFingerprint
  head,        \* the tree of the HEAD commit of the job's checkout
  index,       \* the tree of its index
  work,        \* its working tree
  committed,   \* TRUE iff HEAD holds files of the staging directory
  indexed,     \* TRUE iff the index does
  staging,     \* origins of the files in .codex-gateway-artifacts/screenshots
  kept,        \* TRUE iff its last removal failed and left files there
  pushed,      \* the tree pushed to the work branch, or NoTree
  pr,          \* TRUE iff the pull request exists on GitHub
  recorded,    \* TRUE iff pr_number is in the row
  said,        \* outcome comments the worker asked GitHub to post
  (* history *)
  lost,        \* TRUE iff a write of the state column failed
  spent,       \* 1 + repairs + visuals at the start of the last Codex run, or 0
  tested,      \* verdict and tree of the last RunTests of the test commands
  review       \* verdict, tree and own screenshots of the last visual review

row  == <<state, lost>>
loop == <<repairs, visuals, pending, fingerprint>>
git  == <<head, index, committed, indexed>>
repo == <<git, work>>
art  == <<staging, kept>>
out  == <<pushed, pr, recorded, said>>
past == <<spent, tested, review>>
vars == <<command, pc, row, status, loop, repo, art, out, past>>

Implements == command \in ImplementCommands

PCs == {"idle", "setup", "dispatch", "prompt", "codex", "answered", "tests", "visual",
        "finish", "commit", "push", "open_pr", "record", "ended"}

\* The outcome comments: a plan, a request to revise it, the diagnostics of a
\* failed run, "completed with no file changes", and the pull request's URL.
Outcomes == {"plan", "revision", "failure", "no_changes", "pr"}

-----------------------------------------------------------------------------
(* The parts the handlers share.                                           *)

\* SetState(s) over the current value c when its error is ignored or returned
\* as the last act of RunOne: the row keeps c if the write fails.
Write(s, c) ==
  \/ state' = s /\ UNCHANGED lost
  \/ Faults /\ state' = c /\ lost' = TRUE

\* The files a configured command leaves: it rewrites only CommandWrites and
\* may put screenshots in the staging directory, which is returned in s.
CommandRun(s, origin) ==
  /\ s \in {staging, staging \cup {origin}}
  /\ work' \in {w \in Tree : \A f \in Files \ CommandWrites : w[f] = work[f]}
  /\ UNCHANGED git

\* publishScreenshotArtifacts: what it copies out of a staging directory s;
\* the directory is removed whether or not anything is published, and an error
\* of the removal is ignored.
Published(s) == IF PublicBaseURL THEN s ELSE {}
Publish(s) ==
  /\ staging' \in {{}} \cup (IF Faults THEN SUBSET s ELSE {})
  /\ kept' = (staging' # {})

\* workspacePatchFingerprint: `git diff` compares the working tree with the
\* index and says nothing of a file the index does not hold.
Fingerprint(i, w) ==
  {<<f, i[f], w[f]>> : f \in {g \in Files : i[g] # Absent /\ w[g] # i[g]}}

\* `git diff --name-only` from tree a to tree b.  Files that are gone from b and
\* that git pairs off with files that are new in b, alike in contents, are listed
\* under their new names only (diff.renames, on by default).
Gone(a, b) == {f \in Files : a[f] # Absent /\ b[f] = Absent}
MovedAway(a, b) ==
  {moved \in SUBSET Gone(a, b) :
     \E to \in Injection(moved, Gone(b, a)) :
       \A f \in moved : <<a[f], b[to[f]]>> \in Alike}
NameOnly(a, b) == {{f \in Files : a[f] # b[f]} \ moved : moved \in MovedAway(a, b)}

\* The files that `git diff` compares with the index, and those that
\* `git ls-files --others` finds.
Unstaged  == {f \in Files : index[f] # Absent /\ work[f] # index[f]}
Untracked == {f \in Files : index[f] = Absent /\ work[f] # Absent}

\* Mutant: base...HEAD is left out.
ChangedSinceHead ==
  {Unstaged \cup staged \cup Untracked : staged \in NameOnly(head, index)}

\* sandbox.ChangedFiles: the lists it may return, each made of base...HEAD,
\* unstaged, staged and untracked files.
ChangedFiles ==
  {ahead \cup Unstaged \cup staged \cup Untracked :
     ahead \in NameOnly(Base, head), staged \in NameOnly(head, index)}

\* diffpolicy.Evaluate allows, or denies, a list that ChangedFiles may return.
DiffAllowed == \E files \in ChangedFiles : files \cap Denied = {}
DiffRefused == \E files \in ChangedFiles : files \cap Denied # {}

\* The run ends with the row in s, after comment k.
EndWith(s, c, k) ==
  /\ Write(s, c)
  /\ said' = said \cup {k}
  /\ pc' = "ended"

\* The run fails without any comment.
FailSilently ==
  /\ Write("failed", state)
  /\ pc' = "ended"

\* Mutant: the comment is made and the row is left as it is.
AskedUnwritten(c) ==
  /\ state' = c
  /\ said' = said \cup {"revision"}
  /\ pc' = "ended"
  /\ UNCHANGED lost

\* requestImplementationPlanRevision, when the row's state is c
AskForPlanRevision(c) == EndWith("waiting_human", c, "revision")

\* Mutant: a spent budget breaks out of the loop.
RepairOrBreak(c) ==
  /\ state' = c
  /\ \/ repairs < MaxRepair /\ repairs' = repairs + 1 /\ pc' = "codex"
     \/ repairs >= MaxRepair /\ pc' = "finish" /\ UNCHANGED repairs
  /\ UNCHANGED <<lost, said>>

\* A failed attempt: try again, or give up once the repair budget is spent.
RepairOrGiveUp(c) ==
  \/ /\ repairs < MaxRepair
     /\ repairs' = repairs + 1
     /\ pc' = "codex"
     /\ state' = c
     /\ UNCHANGED <<lost, said>>
  \/ /\ repairs >= MaxRepair
     /\ AskForPlanRevision(c)
     /\ UNCHANGED repairs

-----------------------------------------------------------------------------
Init ==
  /\ command \in Commands
  /\ pc = "idle"
  /\ state = "queued" /\ lost = FALSE
  /\ status = "none"
  /\ repairs = 0
  /\ visuals = 0
  /\ pending = FALSE
  /\ fingerprint = {}
  /\ head = Base /\ index = Base /\ work = Base
  /\ committed = FALSE /\ indexed = FALSE
  /\ staging = {} /\ kept = FALSE
  /\ pushed = NoTree /\ pr = FALSE /\ recorded = FALSE
  /\ said = {}
  /\ spent = 0
  /\ tested = [verdict |-> "none", tree |-> Base]
  /\ review = [verdict |-> "none", tree |-> Base, shots |-> FALSE]

-----------------------------------------------------------------------------
(* RunOne: lease, prepare, dispatch.                                       *)

LeaseNext ==
  /\ pc = "idle"
  /\ state' = "starting"
  /\ pc' = "setup"
  /\ UNCHANGED <<command, lost, status, loop, repo, art, out, past>>

\* CreateWorkspace, repoFor, PrepareCodexHome, WorkBranch or PrepareRepository
\* returns an error.
PrepareFails ==
  /\ pc = "setup"
  /\ FailSilently
  /\ UNCHANGED <<command, status, loop, repo, art, out, past>>

\* prepareAgentWorkspace: agent_setup_commands and the Playwright install, for
\* whatever command.  A failure is reported by codexFailure("setup").
AgentSetupFails ==
  /\ pc = "setup"
  /\ \E s \in SUBSET Origins : CommandRun(s, "other") /\ Publish(s)
  /\ EndWith("failed", state, "failure")
  /\ UNCHANGED <<command, status, loop, pushed, pr, recorded, past>>

AgentSetupPasses ==
  /\ pc = "setup"
  /\ staging' \in SUBSET Origins /\ CommandRun(staging', "other")
  /\ pc' = "dispatch"
  /\ UNCHANGED <<command, row, status, loop, kept, out, past>>

\* The state that the first Transition of runPlan or runImplementation sets.
Phase == IF command = "plan" THEN "planning" ELSE "implementing"

Dispatch ==
  /\ pc = "dispatch"
  /\ command \in {"plan"} \cup ImplementCommands
  /\ state' = Phase
  /\ pc' = "prompt"
  /\ UNCHANGED <<command, lost, status, loop, repo, art, out, past>>

\* Transition's UPDATE or its INSERT of the job event fails: RunOne returns and
\* leaves the row where the failed call left it.
TransitionFails ==
  /\ Faults
  /\ pc = "dispatch"
  /\ command \in {"plan"} \cup ImplementCommands
  /\ state' \in {state, Phase}
  /\ lost' = TRUE
  /\ pc' = "ended"
  /\ UNCHANGED <<command, status, loop, repo, art, out, past>>

UnsupportedCommand ==
  /\ pc = "dispatch"
  /\ command \notin {"plan"} \cup ImplementCommands
  /\ FailSilently
  /\ UNCHANGED <<command, status, loop, repo, art, out, past>>

-----------------------------------------------------------------------------
(* promptForJob and the Codex run, for both kinds of job.                  *)

PromptReady ==
  /\ pc = "prompt"
  /\ pc' = "codex"
  /\ UNCHANGED <<command, row, status, loop, repo, art, out, past>>

\* The issue is closed, locked, unreachable, or no longer holds the command.
PromptFails ==
  /\ pc = "prompt"
  /\ FailSilently
  /\ UNCHANGED <<command, status, loop, repo, art, out, past>>

\* What Codex does to the checkout: any edit, and where its sandbox lets it, it
\* stages any of the files, screenshots too, and commits the index.
CodexEdits ==
  /\ work' \in Tree
  /\ staging' \in {staging, staging \cup {"other"}}
  /\ \/ UNCHANGED <<index, indexed>>
     \/ /\ AgentGit # {}
        /\ index' \in {i \in Tree : \A f \in Files : i[f] \in {index[f], work'[f]}}
        /\ indexed' \in {indexed, staging' # {}}
  /\ \/ UNCHANGED <<head, committed>>
     \/ "commit" \in AgentGit /\ head' = index' /\ committed' = indexed'

\* Mutant: plan jobs set "implementing" as well.
RunCodexAsImplementation ==
  /\ pc = "codex"
  /\ state' = "implementing"
  /\ CodexEdits
  /\ status' \in {"completed", "needs_plan_revision", "failed"}
  /\ spent' = 1 + repairs + visuals
  /\ pc' = "answered"
  /\ UNCHANGED <<command, lost, loop, kept, out, tested, review>>

\* The head of the loop: the row returns to "implementing" on a repair.
RunCodex ==
  /\ pc = "codex"
  /\ state' = IF repairs > 0 THEN "implementing" ELSE state
  /\ CodexEdits
  /\ status' \in {"completed", "needs_plan_revision", "failed"}
  /\ spent' = 1 + repairs + visuals
  /\ pc' = "answered"
  /\ UNCHANGED <<command, lost, loop, kept, out, tested, review>>

\* A SetState whose error RunOne returns fails: the row stays as it is.
CheckedWriteFails ==
  /\ Faults
  /\ \/ pc = "codex" /\ repairs > 0 /\ UNCHANGED art
     \/ pc = "answered" /\ Implements /\ status = "completed" /\ Publish(staging)
     \/ pc = "finish" /\ DiffAllowed /\ Publish(staging)
  /\ lost' = TRUE
  /\ pc' = "ended"
  /\ UNCHANGED <<command, state, status, loop, repo, out, past>>

-----------------------------------------------------------------------------
(* runPlan: what follows the Codex run.                                    *)

PlanErrored ==
  /\ pc = "answered" /\ command = "plan" /\ status = "failed"
  /\ Publish(staging)
  /\ EndWith("failed", state, "failure")
  /\ UNCHANGED <<command, status, loop, repo, pushed, pr, recorded, past>>

PlanNeedsRevision ==
  /\ pc = "answered" /\ command = "plan" /\ status = "needs_plan_revision"
  /\ EndWith("waiting_human", state, "revision")
  /\ UNCHANGED <<command, status, loop, repo, art, pushed, pr, recorded, past>>

PlanCompleted ==
  /\ pc = "answered" /\ command = "plan" /\ status = "completed"
  /\ Publish(staging)
  /\ \/ EndWith("done", state, "plan")
     \/ Faults /\ FailSilently /\ UNCHANGED said   \* SavePlanArtifact fails
  /\ UNCHANGED <<command, status, loop, repo, pushed, pr, recorded, past>>

-----------------------------------------------------------------------------
(* runImplementation: the repair loop.                                     *)

CodexErrored ==
  /\ pc = "answered" /\ Implements /\ status = "failed"
  /\ Publish(staging)
  /\ RepairOrGiveUp(state)
  /\ UNCHANGED <<command, status, visuals, pending, fingerprint, repo,
                 pushed, pr, recorded, past>>

\* Mutant: without the check of the review budget.
RevisionAlwaysReviewed ==
  /\ pc = "answered" /\ Implements /\ status = "needs_plan_revision"
  /\ VisualCommands
  /\ pc' = "visual"
  /\ UNCHANGED <<command, row, status, loop, repo, art, out, past>>

\* needs_plan_revision is first answered with a visual review, if one is left.
RevisionReviewed ==
  /\ pc = "answered" /\ Implements /\ status = "needs_plan_revision"
  /\ VisualCommands /\ visuals < MaxVisual
  /\ pc' = "visual"
  /\ UNCHANGED <<command, row, status, loop, repo, art, out, past>>

\* Mutant: without a review first.
RevisionReportedAtOnce ==
  /\ pc = "answered" /\ Implements /\ status = "needs_plan_revision"
  /\ AskForPlanRevision(state)
  /\ UNCHANGED <<command, status, loop, repo, art, pushed, pr, recorded, past>>

RevisionReported ==
  /\ pc = "answered" /\ Implements /\ status = "needs_plan_revision"
  /\ ~ (VisualCommands /\ visuals < MaxVisual)
  /\ AskForPlanRevision(state)
  /\ UNCHANGED <<command, status, loop, repo, art, pushed, pr, recorded, past>>

\* Mutant: the fingerprints are not compared.
ConfirmAnyPatch ==
  /\ pc = "answered" /\ Implements /\ status = "completed"
  /\ pending
  /\ Publish(staging)
  /\ pc' = "finish"
  /\ UNCHANGED <<command, row, status, loop, repo, out, past>>

\* Codex left the reviewed patch as it was: the loop is left.
Confirm ==
  /\ pc = "answered" /\ Implements /\ status = "completed"
  /\ pending /\ fingerprint = Fingerprint(index, work)
  /\ Publish(staging)
  /\ pc' = "finish"
  /\ UNCHANGED <<command, row, status, loop, repo, out, past>>

\* No confirmation was pending, the patch is another one (in a screenshot that
\* Codex staged, it may be), or git could not tell: verify the workspace again.
Verify ==
  /\ pc = "answered" /\ Implements /\ status = "completed"
  /\ Faults \/ AgentGit # {} \/ ~ (pending /\ fingerprint = Fingerprint(index, work))
  /\ Publish(staging)
  /\ pending' = FALSE
  /\ fingerprint' = {}
  /\ state' = "testing"
  /\ pc' = "tests"
  /\ UNCHANGED <<command, lost, status, repairs, visuals, repo, out, past>>

TestsFail ==
  /\ pc = "tests"
  /\ \E s \in SUBSET Origins : CommandRun(s, "other") /\ Publish(s)
  /\ tested' = [verdict |-> "failed", tree |-> work']
  /\ RepairOrGiveUp(state)
  /\ UNCHANGED <<command, status, visuals, pending, fingerprint,
                 pushed, pr, recorded, spent, review>>

\* The tests passed: leave the loop, or go on to the visual review.
TestsPass ==
  /\ pc = "tests"
  /\ staging' \in SUBSET Origins /\ CommandRun(staging', "other")
  /\ tested' = [verdict |-> "passed", tree |-> work']
  /\ \/ /\ ~ VisualCommands
        /\ pc' = "finish"
        /\ UNCHANGED <<row, said>>
     \/ /\ VisualCommands /\ visuals < MaxVisual
        /\ pc' = "visual"
        /\ UNCHANGED <<row, said>>
     \/ /\ VisualCommands /\ visuals >= MaxVisual
        /\ AskForPlanRevision(state)
  /\ UNCHANGED <<command, status, loop, kept,
                 pushed, pr, recorded, spent, review>>

\* runVisualReview: the commands ran, s is what the staging directory held when
\* it was published, and `passed` is the verdict of the commands alone.
VisualRun(s, passed) ==
  /\ pc = "visual"
  /\ CommandRun(s, "visual")
  /\ Publish(s)
  /\ visuals' = visuals + 1
  /\ review' = [verdict |-> IF passed /\ Published(s) # {} THEN "passed" ELSE "failed",
                tree |-> work', shots |-> "visual" \in s]

VisualPasses ==
  \E s \in SUBSET Origins :
    /\ VisualRun(s, TRUE)
    /\ Published(s) # {}
    /\ state' = "testing"
    /\ \/ pending' = TRUE /\ fingerprint' = Fingerprint(index, work')
       \/ Faults /\ UNCHANGED <<pending, fingerprint>>
    /\ pc' = "codex"
    /\ UNCHANGED <<command, lost, status, repairs, out, spent, tested>>

VisualFails ==
  \E s \in SUBSET Origins, passed \in BOOLEAN :
    /\ VisualRun(s, passed)
    /\ passed => Published(s) = {}
    /\ RepairOrGiveUp("testing")
    /\ UNCHANGED <<command, status, pending, fingerprint,
                   pushed, pr, recorded, spent, tested>>

\* runVisualReview could not write the row: the one error that fails the job.
VisualWriteFails ==
  /\ Faults
  /\ pc = "visual"
  /\ FailSilently
  /\ UNCHANGED <<command, status, loop, repo, art, out, past>>

-----------------------------------------------------------------------------
(* runImplementation: after the loop.                                      *)

\* changedFiles fails
DiffFails ==
  /\ Faults
  /\ pc = "finish"
  /\ Publish(staging)
  /\ FailSilently
  /\ UNCHANGED <<command, status, loop, repo, out, past>>

DiffDenied ==
  /\ pc = "finish"
  /\ DiffRefused
  /\ Publish(staging)
  /\ FailSilently
  /\ UNCHANGED <<command, status, loop, repo, out, past>>

\* Mutant: without SetState(creating_pr).
DiffAcceptedUnwritten ==
  /\ pc = "finish"
  /\ DiffAllowed
  /\ Publish(staging)
  /\ pc' = "commit"
  /\ UNCHANGED <<command, row, status, loop, repo, out, past>>

DiffAccepted ==
  /\ pc = "finish"
  /\ DiffAllowed
  /\ Publish(staging)
  /\ state' = "creating_pr"
  /\ pc' = "commit"
  /\ UNCHANGED <<command, lost, status, loop, repo, out, past>>

\* What `git add -A` makes of the index: all the working tree holds.
AddAll == index' = work /\ indexed' = (staging # {})

\* Mutant: CommitAll without `git add -A`.
CommitStaged ==
  /\ pc = "commit"
  /\ index # head \/ indexed # committed
  /\ head' = index /\ committed' = indexed
  /\ pc' = "push"
  /\ UNCHANGED <<command, row, status, loop, index, indexed, work, art, out, past>>

\* CommitAll: `git add -A`, then a commit unless the index equals HEAD.
CommitChanges ==
  /\ pc = "commit"
  /\ work # head \/ committed \/ staging # {}
  /\ AddAll
  /\ head' = index' /\ committed' = indexed'
  /\ pc' = "push"
  /\ UNCHANGED <<command, row, status, loop, work, art, out, past>>

\* Mutant: the worker does not return after its comment.
NothingToCommitGoesOn ==
  /\ pc = "commit"
  /\ work = head /\ committed = (staging # {})
  /\ AddAll
  /\ said' = said \cup {"no_changes"}
  /\ pc' = "push"
  /\ UNCHANGED <<command, row, status, loop, head, committed, work, art,
                 pushed, pr, recorded, past>>

NothingToCommit ==
  /\ pc = "commit"
  /\ work = head /\ committed = (staging # {})
  /\ AddAll
  /\ EndWith("done", state, "no_changes")
  /\ UNCHANGED <<command, status, loop, head, committed, work, art,
                 pushed, pr, recorded, past>>

CommitFails ==
  /\ Faults
  /\ pc = "commit"
  /\ AddAll \/ UNCHANGED <<index, indexed>>
  /\ FailSilently
  /\ UNCHANGED <<command, status, loop, head, committed, work, art, out, past>>

PushBranch ==
  /\ pc = "push"
  /\ pushed' = head
  /\ pc' = "open_pr"
  /\ UNCHANGED <<command, row, status, loop, repo, art, pr, recorded, said, past>>

\* git push reports an error; the remote may have taken the branch all the same.
PushFails ==
  /\ pc = "push"
  /\ pushed' \in {NoTree, head}
  /\ FailSilently
  /\ UNCHANGED <<command, status, loop, repo, art, pr, recorded, said, past>>

CreatePullRequest ==
  /\ pc = "open_pr"
  /\ pr' = TRUE
  /\ pc' = "record"
  /\ UNCHANGED <<command, row, status, loop, repo, art, pushed, recorded, said, past>>

\* The request fails, or its answer is lost after GitHub opened the pull request.
CreatePullRequestFails ==
  /\ pc = "open_pr"
  /\ pr' \in BOOLEAN
  /\ FailSilently
  /\ UNCHANGED <<command, status, loop, repo, art, pushed, recorded, said, past>>

\* SetPRNumber (its error is ignored), the comment, SetState(done).
RecordPullRequest ==
  /\ pc = "record"
  /\ recorded' \in {TRUE} \cup (IF Faults THEN {FALSE} ELSE {})
  /\ EndWith("done", state, "pr")
  /\ UNCHANGED <<command, status, loop, repo, art, pushed, pr, past>>

\* RunOne has returned.
Returned == pc = "ended" /\ UNCHANGED vars

-----------------------------------------------------------------------------
\* The steps that wait for a program that the gateway started.
ExternalStep ==
  \/ AgentSetupFails \/ AgentSetupPasses \/ RunCodex
  \/ TestsFail \/ TestsPass \/ VisualPasses \/ VisualFails

\* The steps of the gateway itself, and of its calls of git and GitHub.
GatewayStep ==
  \/ LeaseNext \/ PrepareFails \/ Dispatch \/ TransitionFails \/ UnsupportedCommand
  \/ PromptReady \/ PromptFails \/ CheckedWriteFails
  \/ PlanErrored \/ PlanNeedsRevision \/ PlanCompleted
  \/ CodexErrored \/ RevisionReviewed \/ RevisionReported
  \/ Confirm \/ Verify \/ VisualWriteFails
  \/ DiffFails \/ DiffDenied \/ DiffAccepted
  \/ CommitChanges \/ NothingToCommit \/ CommitFails
  \/ PushBranch \/ PushFails \/ CreatePullRequest \/ CreatePullRequestFails
  \/ RecordPullRequest

Next == ExternalStep \/ GatewayStep \/ Returned

Spec == Init /\ [][Next]_vars

\* Every program the worker starts eventually exits.
FairSpec == Spec /\ WF_vars(ExternalStep \/ GatewayStep)

-----------------------------------------------------------------------------
(* Correctness.                                                            *)

TypeOK ==
  /\ command \in Commands
  /\ pc \in PCs
  /\ state \in State
  /\ status \in {"none", "completed", "needs_plan_revision", "failed"}
  /\ repairs \in 0..MaxRepair
  /\ visuals \in 0..MaxVisual
  /\ pending \in BOOLEAN
  /\ fingerprint \subseteq
       Files \X (Contents \cup {Absent}) \X (Contents \cup {Absent})
  /\ head \in Tree /\ index \in Tree /\ work \in Tree
  /\ committed \in BOOLEAN /\ indexed \in BOOLEAN
  /\ staging \subseteq Origins /\ kept \in BOOLEAN
  /\ pushed \in Tree \cup {NoTree}
  /\ pr \in BOOLEAN
  /\ recorded \in BOOLEAN
  /\ said \subseteq Outcomes
  /\ lost \in BOOLEAN
  /\ spent \in 0..(1 + MaxRepair + MaxVisual)
  /\ tested \in [verdict: {"none", "passed", "failed"}, tree: Tree]
  /\ review \in [verdict: {"none", "passed", "failed"}, tree: Tree, shots: BOOLEAN]

\* The diff policy looks at the workspace before `git add -A` and after Codex
\* may have staged or committed files of its own: a file that deny_paths matches
\* never reaches the remote with other contents by any of those ways.  All that
\* gets past the policy is its removal, and that only where Codex runs git
\* itself: moved and staged, the file is listed under its new name.
DeniedOnlyRemoved ==
  pushed # NoTree =>
    \A f \in Denied : pushed[f] = Base[f] \/ (AgentGit # {} /\ pushed[f] = Absent)

\* Without visual review, the tree on the work branch is the very tree that the
\* last test run passed on, over any number of repairs.
PushedWasTested ==
  ~ VisualCommands /\ pushed # NoTree =>
    tested = [verdict |-> "passed", tree |-> pushed]

\* With visual review, every hunk of the patch that was fingerprinted when its
\* screenshots were taken is pushed unchanged, several Codex runs later.
ConfirmedPatchIsPushed ==
  VisualCommands /\ pushed # NoTree =>
    pending /\ \A hunk \in fingerprint : pushed[hunk[1]] = hunk[3]

\* Each Codex run after the first is paid for out of one of the two budgets, so
\* a job runs Codex at most 1 + MaxRepair + MaxVisual times.
EveryRunIsPaidFor ==
  /\ repairs <= MaxRepair /\ visuals <= MaxVisual
  /\ pc = "codex" => spent < 1 + repairs + visuals

\* The worker hands an implementation job back to a human only when a budget is
\* spent, or when Codex asked for it and no visual review could be run.
GivesUpOnlyWhenSpent ==
  state = "waiting_human" /\ Implements =>
    \/ repairs = MaxRepair
    \/ VisualCommands /\ visuals = MaxVisual
    \/ ~ VisualCommands /\ status = "needs_plan_revision"

\* The tip of the pushed branch holds no screenshot, not even one that Codex
\* staged or committed itself: the staging directory is removed before the last
\* `git add -A`.  An error of that removal, which is ignored, is the exception.
ScreenshotsNotPushed ==
  pushed # NoTree /\ committed => kept

\* A row that rests as done or waiting_human has one outcome comment, and it is
\* the one that tells what became of the job and of its pull request.
OutcomeIsReported ==
  /\ state = "waiting_human" => said = {"revision"}
  /\ state = "done" =>
       said = {IF command = "plan" THEN "plan" ELSE IF pr THEN "pr" ELSE "no_changes"}

\* The run moves its row along the lifecycle, database errors included: it
\* implements JobLifecycle.
Lifecycle == INSTANCE JobLifecycle
LifecycleSpec == Lifecycle!Spec

\* If every program it starts exits, RunOne returns, and its row has settled
\* unless a write of it failed on the way.
Settles == <>(pc = "ended" /\ (state \in Terminal \/ lost))

-----------------------------------------------------------------------------
(* Why it is correct: an inductive invariant, in named parts.              *)

\* Where RunOne is determines the row it has written, and a visual review is
\* only started when one is left.
PhaseOK ==
  /\ pc = "idle" => state = "queued" /\ repairs = 0
  /\ pc \in {"setup", "dispatch"} => state = "starting" /\ repairs = 0
  /\ pc \in {"prompt", "codex", "answered"} =>
       \/ Implements /\ state \in {"implementing", "testing"}
       \/ command = "plan" /\ state = "planning" /\ repairs = 0
  /\ pc \in {"tests", "visual", "finish"} =>
       Implements /\ state \in {"implementing", "testing"}
  /\ pc \in {"commit", "push", "open_pr", "record"} =>
       Implements /\ state = "creating_pr"
  /\ pc = "visual" => VisualCommands /\ visuals < MaxVisual
  /\ state = "waiting_human" => pc = "ended"

\* The history of Codex runs never gets ahead of the two budgets.
SpendOK ==
  /\ pc \in {"idle", "setup", "dispatch", "prompt"} => spent = 0
  /\ spent <= 1 + repairs + visuals
  /\ pc = "codex" => spent < 1 + repairs + visuals

\* Between the end of the loop and the push, the workspace is the one that was
\* verified: tested, or confirmed after its visual review.
VerifiedTree(tree) ==
  IF VisualCommands
  THEN pending /\ \A hunk \in fingerprint : tree[hunk[1]] = hunk[3]
  ELSE tested = [verdict |-> "passed", tree |-> tree]
VerifiedOK ==
  /\ ~ VisualCommands => ~ pending
  /\ pc \in {"finish", "commit"} => VerifiedTree(work)
  /\ pc \in {"push", "open_pr", "record"} => VerifiedTree(head)
  /\ pushed # NoTree => pc \in {"open_pr", "record", "ended"} /\ VerifiedTree(pushed)

\* Once the diff policy has accepted the workspace, no denied file changes any
\* more; HEAD and the index leave the base branch only where Codex runs git.
Untouched(tree) ==
  \A f \in Denied : tree[f] = Base[f] \/ (AgentGit # {} /\ tree[f] = Absent)
DeniedOK ==
  /\ AgentGit = {} /\ pc \notin {"push", "open_pr", "record", "ended"} =>
       head = Base /\ index = Base
  /\ pc = "commit" => Untouched(work)
  /\ pc \in {"push", "open_pr", "record"} => Untouched(head)
  /\ pushed # NoTree => Untouched(pushed)

\* RunOne comments once, as it ends, and opens the pull request just before.
ReportOK ==
  /\ pc # "ended" => said = {}
  /\ pc = "record" => pr
  /\ pc \notin {"record", "ended"} => ~ pr

\* What is committed of the screenshots is what their last removal left.
CommitOK ==
  /\ pc = "commit" => kept = (staging # {})
  /\ pc = "push" /\ committed => kept
  /\ pushed # NoTree /\ committed => kept

\* A run ends with a settled row unless a write of it failed.
RestOK == pc = "ended" => state \in Terminal \/ lost

IInv ==
  /\ TypeOK /\ PhaseOK /\ SpendOK /\ VerifiedOK /\ DeniedOK
  /\ CommitOK /\ ReportOK /\ OutcomeIsReported /\ RestOK

-----------------------------------------------------------------------------
(* What the documents say, where the code does something else.             *)

\* "The worker can keep denylist files out of the PR."
DeniedNeverPushed ==
  pushed # NoTree => \A f \in Denied : pushed[f] = Base[f]

\* "Test command failure prevents PR creation."
FailedTestsPreventPR == pr => tested.verdict # "failed"

\* "If Codex changes files after seeing screenshots, the worker reruns tests
\* and visual review": what is pushed is what the last review looked at.
ReviewedTreeIsPushed ==
  VisualCommands /\ pushed # NoTree => pushed = review.tree

\* "worker treats missing screenshots from visual review as a repair
\* condition": a review that passed took screenshots of its own.
ReviewTookScreenshots == review.verdict = "passed" => review.shots
=============================================================================
