--------------------------- MODULE WorkerRunProofs ---------------------------
(***************************************************************************)
(* Proofs about WorkerRun, for every set of files and contents, every base *)
(* branch, every pair of budgets and every way the environment may fail.   *)
(* One lemma per part of the inductive invariant IInv shows that a step    *)
(* preserves the part; the theorems follow from their conjunction.         *)
(***************************************************************************)
EXTENDS WorkerRun, TLAPS

USE DEF row, loop, git, repo, art, out, past

-----------------------------------------------------------------------------
(* Types.                                                                  *)

\* The values the actions write, as members of their types: the steps below use
\* these facts in place of the definitions of the sets.
LEMMA Values ==
  /\ {"setup", "dispatch", "prompt", "codex", "answered", "tests", "visual",
      "finish", "commit", "push", "open_pr", "record", "ended"} \subseteq PCs
  /\ {"starting", "planning", "implementing", "testing", "creating_pr",
      "waiting_human", "done", "failed"} \subseteq State
  /\ {"plan", "revision", "failure", "no_changes", "pr"} \subseteq Outcomes
  /\ {"visual", "other"} \subseteq Origins
BY DEF PCs, State, Running, Terminal, Outcomes, Origins

\* The end of a run writes typed values, whether or not its write succeeds.
LEMMA EndTypes ==
  ASSUME TypeOK, NEW s \in State, NEW c \in State, NEW k \in Outcomes,
         EndWith(s, c, k)
  PROVE  pc' \in PCs /\ state' \in State /\ said' \subseteq Outcomes /\ lost' \in BOOLEAN
BY Values DEF TypeOK, EndWith, Write

\* So does the end of a run that fails without a comment.
LEMMA FailTypes ==
  ASSUME TypeOK, FailSilently
  PROVE  pc' \in PCs /\ state' \in State /\ lost' \in BOOLEAN
BY Values DEF TypeOK, FailSilently, Write

\* Whatever a failed attempt leads to, it leaves the variables it writes typed.
LEMMA RepairTypes ==
  ASSUME TypeOK, NEW c \in State, RepairOrGiveUp(c)
  PROVE  /\ pc' \in PCs /\ state' \in State /\ lost' \in BOOLEAN
         /\ repairs' \in 0..MaxRepair
         /\ said' \subseteq Outcomes
<1>1. CASE repairs < MaxRepair
  BY <1>1, Values, WorkerRunAssumption DEF TypeOK, RepairOrGiveUp
<1>2. CASE repairs >= MaxRepair /\ AskForPlanRevision(c)
  BY <1>2, Values, EndTypes, WorkerRunAssumption
     DEF TypeOK, RepairOrGiveUp, AskForPlanRevision
<1> QED
  BY <1>1, <1>2 DEF RepairOrGiveUp

\* A configured command leaves three trees and a typed staging directory.
LEMMA CommandTypes ==
  ASSUME TypeOK, NEW origin \in Origins, NEW s, CommandRun(s, origin)
  PROVE  /\ s \subseteq Origins
         /\ head' \in Tree /\ index' \in Tree /\ work' \in Tree
         /\ committed' \in BOOLEAN /\ indexed' \in BOOLEAN
BY DEF TypeOK, CommandRun

\* What a removal leaves was staged.
LEMMA PublishTypes ==
  ASSUME TypeOK, NEW s \in SUBSET Origins, Publish(s)
  PROVE  staging' \subseteq Origins /\ kept' \in BOOLEAN
BY DEF TypeOK, Publish

\* A fingerprint is a set of hunks: a path, its old and its new contents.
LEMMA FingerprintType ==
  ASSUME NEW i \in Tree, NEW w \in Tree
  PROVE  Fingerprint(i, w) \subseteq
           Files \X (Contents \cup {Absent}) \X (Contents \cup {Absent})
BY DEF Fingerprint, Tree

\* A visual review that was started within its budget leaves its count within it.
LEMMA ReviewTypes ==
  ASSUME TypeOK, PhaseOK, NEW s \in SUBSET Origins, NEW passed \in BOOLEAN,
         VisualRun(s, passed)
  PROVE  /\ head' \in Tree /\ index' \in Tree /\ work' \in Tree
         /\ committed' \in BOOLEAN /\ indexed' \in BOOLEAN
         /\ staging' \subseteq Origins /\ kept' \in BOOLEAN
         /\ visuals' \in 0..MaxVisual
         /\ review' \in [verdict: {"none", "passed", "failed"}, tree: Tree, shots: BOOLEAN]
<1>1. /\ head' \in Tree /\ index' \in Tree /\ work' \in Tree
      /\ committed' \in BOOLEAN /\ indexed' \in BOOLEAN
  BY Values, CommandTypes DEF VisualRun
<1>2. staging' \subseteq Origins /\ kept' \in BOOLEAN
  BY PublishTypes DEF VisualRun
<1>3. visuals' \in 0..MaxVisual
  BY WorkerRunAssumption DEF VisualRun, TypeOK, PhaseOK
<1>4. review' \in [verdict: {"none", "passed", "failed"}, tree: Tree, shots: BOOLEAN]
  BY <1>1 DEF VisualRun
<1> QED
  BY <1>1, <1>2, <1>3, <1>4

-----------------------------------------------------------------------------
\* A step keeps every variable within its type; that a review is only started
\* within its budget (PhaseOK) is needed for the count of reviews.
LEMMA TypeStep == TypeOK /\ PhaseOK /\ [Next]_vars => TypeOK'
<1> SUFFICES ASSUME TypeOK, PhaseOK, [Next]_vars PROVE TypeOK'
  OBVIOUS
<1> USE WorkerRunAssumption, Values DEF TypeOK
<1>1. CASE LeaseNext
  BY <1>1 DEF LeaseNext
<1>2. CASE PrepareFails
  BY <1>2, FailTypes DEF PrepareFails
<1>3. CASE AgentSetupFails
  BY <1>3, CommandTypes, PublishTypes, EndTypes DEF AgentSetupFails
<1>4. CASE Dispatch
  BY <1>4 DEF Dispatch, Phase
<1>5. CASE TransitionFails
  BY <1>5 DEF TransitionFails, Phase
<1>37. CASE AgentSetupPasses
  BY <1>37, CommandTypes DEF AgentSetupPasses
<1>6. CASE UnsupportedCommand
  BY <1>6, FailTypes DEF UnsupportedCommand
<1>7. CASE PromptReady
  BY <1>7 DEF PromptReady
<1>8. CASE PromptFails
  BY <1>8, FailTypes DEF PromptFails
<1>9. CASE RunCodex
  <2>1. /\ head' \in Tree /\ index' \in Tree /\ work' \in Tree
        /\ committed' \in BOOLEAN /\ indexed' \in BOOLEAN
        /\ staging' \subseteq Origins
    BY <1>9 DEF RunCodex, CodexEdits
  <2>2. pc' \in PCs /\ state' \in State /\ spent' \in 0..(1 + MaxRepair + MaxVisual)
        /\ status' \in {"none", "completed", "needs_plan_revision", "failed"}
    BY <1>9 DEF RunCodex
  <2> QED
    BY <1>9, <2>1, <2>2 DEF RunCodex
<1>10. CASE CheckedWriteFails
  BY <1>10, PublishTypes DEF CheckedWriteFails
<1>11. CASE PlanErrored
  BY <1>11, PublishTypes, EndTypes DEF PlanErrored
<1>12. CASE PlanNeedsRevision
  BY <1>12, EndTypes DEF PlanNeedsRevision
<1>13. CASE PlanCompleted
  BY <1>13, PublishTypes, EndTypes, FailTypes DEF PlanCompleted
<1>14. CASE CodexErrored
  BY <1>14, PublishTypes, RepairTypes DEF CodexErrored
<1>15. CASE RevisionReviewed
  BY <1>15 DEF RevisionReviewed
<1>16. CASE RevisionReported
  BY <1>16, EndTypes DEF RevisionReported, AskForPlanRevision
<1>17. CASE Confirm
  BY <1>17, PublishTypes DEF Confirm
<1>18. CASE Verify
  <2>1. staging' \subseteq Origins /\ kept' \in BOOLEAN
    BY <1>18, PublishTypes DEF Verify
  <2>2. pc' \in PCs /\ state' \in State /\ pending' \in BOOLEAN /\ fingerprint' = {}
    BY <1>18 DEF Verify
  <2> QED
    BY <1>18, <2>1, <2>2 DEF Verify
<1>19. CASE TestsFail
  BY <1>19, CommandTypes, PublishTypes, RepairTypes DEF TestsFail
<1>20. CASE TestsPass
  BY <1>20, CommandTypes, EndTypes DEF TestsPass, AskForPlanRevision
<1>21. CASE VisualPasses
  <2>1. PICK s \in SUBSET Origins :
          /\ VisualRun(s, TRUE)
          /\ state' = "testing"
          /\ \/ pending' = TRUE /\ fingerprint' = Fingerprint(index, work')
             \/ UNCHANGED <<pending, fingerprint>>
          /\ pc' = "codex"
    BY <1>21 DEF VisualPasses
  <2>2. UNCHANGED <<command, lost, status, repairs, out, spent, tested>>
    BY <1>21 DEF VisualPasses
  <2>3. fingerprint' \subseteq
          Files \X (Contents \cup {Absent}) \X (Contents \cup {Absent})
    <3>1. work' \in Tree /\ index \in Tree
      BY <2>1, ReviewTypes
    <3>2. CASE fingerprint' = Fingerprint(index, work')
      BY <3>1, <3>2, FingerprintType
    <3>3. CASE UNCHANGED fingerprint
      BY <3>3
    <3> QED
      BY <2>1, <3>2, <3>3
  <2> QED
    BY <2>1, <2>2, <2>3, ReviewTypes
<1>22. CASE VisualFails
  <2>1. PICK s \in SUBSET Origins, passed \in BOOLEAN :
          VisualRun(s, passed) /\ RepairOrGiveUp("testing")
    BY <1>22 DEF VisualFails
  <2>2. UNCHANGED <<command, status, pending, fingerprint, pushed, pr, recorded, spent, tested>>
    BY <1>22 DEF VisualFails
  <2> QED
    BY <2>1, <2>2, ReviewTypes, RepairTypes
<1>23. CASE VisualWriteFails
  BY <1>23, FailTypes DEF VisualWriteFails
<1>24. CASE DiffFails
  BY <1>24, PublishTypes, FailTypes DEF DiffFails
<1>25. CASE DiffDenied
  BY <1>25, PublishTypes, FailTypes DEF DiffDenied
<1>26. CASE DiffAccepted
  BY <1>26, PublishTypes DEF DiffAccepted
<1>27. CASE CommitChanges
  BY <1>27 DEF CommitChanges, AddAll
<1>28. CASE NothingToCommit
  BY <1>28, EndTypes DEF NothingToCommit, AddAll
<1>29. CASE CommitFails
  <2>1. index' \in Tree /\ indexed' \in BOOLEAN
    BY <1>29 DEF CommitFails, AddAll
  <2> QED
    BY <1>29, <2>1, FailTypes DEF CommitFails
<1>30. CASE PushBranch
  BY <1>30 DEF PushBranch
<1>31. CASE PushFails
  BY <1>31, FailTypes DEF PushFails
<1>32. CASE CreatePullRequest
  BY <1>32 DEF CreatePullRequest
<1>33. CASE CreatePullRequestFails
  BY <1>33, FailTypes DEF CreatePullRequestFails
<1>34. CASE RecordPullRequest
  <2>1. pc' \in PCs /\ state' \in State /\ said' \subseteq Outcomes /\ lost' \in BOOLEAN
    BY <1>34, EndTypes DEF RecordPullRequest
  <2>2. recorded' \in BOOLEAN
    BY <1>34 DEF RecordPullRequest
  <2> QED
    BY <1>34, <2>1, <2>2 DEF RecordPullRequest
<1>35. CASE Returned
  BY <1>35 DEF Returned, vars
<1>36. CASE UNCHANGED vars
  BY <1>36 DEF vars
<1> QED
  BY <1>1, <1>2, <1>3, <1>4, <1>5, <1>6, <1>7, <1>8, <1>9, <1>10,
     <1>11, <1>12, <1>13, <1>14, <1>15, <1>16, <1>17, <1>18, <1>19, <1>20,
     <1>21, <1>22, <1>23, <1>24, <1>25, <1>26, <1>27, <1>28, <1>29, <1>30,
     <1>31, <1>32, <1>33, <1>34, <1>35, <1>36, <1>37
     DEF Next, ExternalStep, GatewayStep

-----------------------------------------------------------------------------
(* The row.                                                                *)

\* A step keeps the row in a state that fits where RunOne is, and it moves the
\* row along the lifecycle or leaves it where it is.
RowMoves == Lifecycle!Next \/ UNCHANGED state

\* The lifecycle, one state at a time.
LEMMA LifecycleMoves ==
  /\ state = "queued" /\ state' = "starting" => RowMoves
  /\ state = "starting" /\ state' \in {"planning", "implementing", "failed"} => RowMoves
  /\ state = "planning" /\ state' \in {"done", "waiting_human", "failed"} => RowMoves
  /\ /\ state \in {"implementing", "testing"}
     /\ state' \in {"implementing", "testing", "creating_pr", "waiting_human", "failed"}
     => RowMoves
  /\ state = "creating_pr" /\ state' \in {"done", "failed"} => RowMoves
  /\ state' = state => RowMoves
<1> USE DEF RowMoves, Lifecycle!Next, Lifecycle!Follows
<1>1. state = "queued" /\ state' = "starting" => RowMoves
  OBVIOUS
<1>2. state = "starting" /\ state' \in {"planning", "implementing", "failed"} => RowMoves
  OBVIOUS
<1>3. state = "planning" /\ state' \in {"done", "waiting_human", "failed"} => RowMoves
  BY DEF Lifecycle!Terminal
<1>4. ASSUME state \in {"implementing", "testing"},
             state' \in {"implementing", "testing", "creating_pr", "waiting_human", "failed"}
      PROVE  RowMoves
  BY <1>4
<1>5. state = "creating_pr" /\ state' \in {"done", "failed"} => RowMoves
  OBVIOUS
<1>6. state' = state => RowMoves
  OBVIOUS
<1> QED
  BY ONLY <1>1, <1>2, <1>3, <1>4, <1>5, <1>6

\* A job that Dispatch accepts is a plan job or an implementation job, not both.
LEMMA PlanOrImplement == "plan" \notin ImplementCommands
BY DEF ImplementCommands

\* A step writes the state that belongs to the place it leads to, and that state
\* is the old one or one that the lifecycle allows after it.
LEMMA PhaseStep == TypeOK /\ PhaseOK /\ [Next]_vars => PhaseOK' /\ RowMoves
<1> SUFFICES ASSUME TypeOK, PhaseOK, [Next]_vars PROVE PhaseOK' /\ RowMoves
  OBVIOUS
<1> USE WorkerRunAssumption, LifecycleMoves, PlanOrImplement
    DEF TypeOK, PhaseOK, Implements
<1>1. CASE LeaseNext
  BY <1>1 DEF LeaseNext
<1>2. CASE PrepareFails
  BY <1>2 DEF PrepareFails, FailSilently, Write
<1>3. CASE AgentSetupFails
  BY <1>3 DEF
     AgentSetupFails, CommandRun, Publish, EndWith, Write
<1>4. CASE Dispatch
  <2>1. CASE command = "plan"
    BY <1>4, <2>1 DEF Dispatch, Phase
  <2>2. CASE command \in ImplementCommands
    BY <1>4, <2>2 DEF Dispatch, Phase
  <2> QED
    BY <1>4, <2>1, <2>2 DEF Dispatch
<1>5. CASE TransitionFails
  BY <1>5 DEF TransitionFails, Phase
<1>37. CASE AgentSetupPasses
  BY <1>37 DEF AgentSetupPasses, CommandRun
<1>6. CASE UnsupportedCommand
  BY <1>6 DEF UnsupportedCommand, FailSilently, Write
<1>7. CASE PromptReady
  BY <1>7 DEF PromptReady
<1>8. CASE PromptFails
  BY <1>8 DEF PromptFails, FailSilently, Write
<1>9. CASE RunCodex
  BY <1>9 DEF RunCodex, CodexEdits
<1>10. CASE CheckedWriteFails
  BY <1>10 DEF CheckedWriteFails, Publish
<1>11. CASE PlanErrored
  BY <1>11 DEF PlanErrored, Publish, EndWith, Write
<1>12. CASE PlanNeedsRevision
  BY <1>12 DEF PlanNeedsRevision, EndWith, Write
<1>13. CASE PlanCompleted
  BY <1>13 DEF
     PlanCompleted, Publish, EndWith, FailSilently, Write
<1>14. CASE CodexErrored
  BY <1>14 DEF
     CodexErrored, Publish, RepairOrGiveUp, AskForPlanRevision, EndWith, Write
<1>15. CASE RevisionReviewed
  BY <1>15 DEF RevisionReviewed
<1>16. CASE RevisionReported
  BY <1>16 DEF
     RevisionReported, AskForPlanRevision, EndWith, Write
<1>17. CASE Confirm
  BY <1>17 DEF Confirm, Publish
<1>18. CASE Verify
  BY <1>18 DEF Verify, Publish
<1>19. CASE TestsFail
  BY <1>19 DEF
     TestsFail, CommandRun, Publish, RepairOrGiveUp, AskForPlanRevision,
     EndWith, Write
<1>20. CASE TestsPass
  BY <1>20 DEF
     TestsPass, CommandRun, AskForPlanRevision, EndWith, Write
<1>21. CASE VisualPasses
  BY <1>21 DEF VisualPasses, VisualRun, CommandRun, Publish
<1>22. CASE VisualFails
  BY <1>22 DEF
     VisualFails, VisualRun, CommandRun, Publish, RepairOrGiveUp,
     AskForPlanRevision, EndWith, Write
<1>23. CASE VisualWriteFails
  BY <1>23 DEF VisualWriteFails, FailSilently, Write
<1>24. CASE DiffFails
  BY <1>24 DEF DiffFails, Publish, FailSilently, Write
<1>25. CASE DiffDenied
  BY <1>25 DEF DiffDenied, Publish, FailSilently, Write
<1>26. CASE DiffAccepted
  BY <1>26 DEF DiffAccepted, Publish
<1>27. CASE CommitChanges
  BY <1>27 DEF CommitChanges
<1>28. CASE NothingToCommit
  BY <1>28 DEF NothingToCommit, EndWith, Write
<1>29. CASE CommitFails
  BY <1>29 DEF CommitFails, FailSilently, Write
<1>30. CASE PushBranch
  BY <1>30 DEF PushBranch
<1>31. CASE PushFails
  BY <1>31 DEF PushFails, FailSilently, Write
<1>32. CASE CreatePullRequest
  BY <1>32 DEF CreatePullRequest
<1>33. CASE CreatePullRequestFails
  BY <1>33 DEF CreatePullRequestFails, FailSilently, Write
<1>34. CASE RecordPullRequest
  BY <1>34 DEF RecordPullRequest, EndWith, Write
<1>35. CASE Returned
  BY <1>35 DEF Returned, vars
<1>36. CASE UNCHANGED vars
  BY <1>36 DEF vars
<1> QED
  BY <1>1, <1>2, <1>3, <1>4, <1>5, <1>6, <1>7, <1>8, <1>9, <1>10,
     <1>11, <1>12, <1>13, <1>14, <1>15, <1>16, <1>17, <1>18, <1>19, <1>20,
     <1>21, <1>22, <1>23, <1>24, <1>25, <1>26, <1>27, <1>28, <1>29, <1>30,
     <1>31, <1>32, <1>33, <1>34, <1>35, <1>36, <1>37
     DEF Next, ExternalStep, GatewayStep

-----------------------------------------------------------------------------
(* The two budgets.                                                        *)

\* Only a repair or a review leads back to Codex, and each counts one up.
LEMMA SpendStep == TypeOK /\ SpendOK /\ [Next]_vars => SpendOK'
<1> SUFFICES ASSUME TypeOK, SpendOK, [Next]_vars PROVE SpendOK'
  OBVIOUS
<1>0. repairs \in Nat /\ visuals \in Nat /\ spent \in Nat
  BY WorkerRunAssumption DEF TypeOK
<1> USE <1>0 DEF SpendOK
<1>1. CASE PromptReady
  BY <1>1 DEF PromptReady
<1>2. CASE RunCodex
  BY <1>2 DEF RunCodex, CodexEdits
<1>3. CASE CodexErrored
  BY <1>3
     DEF CodexErrored, Publish, RepairOrGiveUp, AskForPlanRevision, EndWith,
         Write
<1>4. CASE TestsFail
  BY <1>4
     DEF TestsFail, CommandRun, Publish, RepairOrGiveUp, AskForPlanRevision,
         EndWith, Write
<1>5. CASE VisualPasses
  BY <1>5 DEF VisualPasses, VisualRun, CommandRun, Publish
<1>6. CASE VisualFails
  BY <1>6
     DEF VisualFails, VisualRun, CommandRun, Publish, RepairOrGiveUp,
         AskForPlanRevision, EndWith, Write
<1>7. CASE LeaseNext \/ PrepareFails \/ AgentSetupFails \/
           AgentSetupPasses \/ Dispatch \/ TransitionFails \/ UnsupportedCommand \/ PromptFails
  BY <1>7
     DEF LeaseNext, PrepareFails, AgentSetupFails, AgentSetupPasses, Dispatch,
         Phase, TransitionFails,
         UnsupportedCommand, PromptFails, FailSilently, Write, CommandRun,
         Publish, EndWith
<1>8. CASE CheckedWriteFails \/ PlanErrored \/ PlanNeedsRevision \/
           PlanCompleted \/ RevisionReviewed \/ RevisionReported \/
           Confirm \/ Verify \/ TestsPass
  BY <1>8
     DEF CheckedWriteFails, PlanErrored, PlanNeedsRevision, PlanCompleted,
         RevisionReviewed, RevisionReported, Confirm, Verify, TestsPass,
         Publish, EndWith, Write, FailSilently, AskForPlanRevision, CommandRun
<1>9. CASE VisualWriteFails \/ DiffFails \/ DiffDenied \/ DiffAccepted \/
           CommitChanges \/ NothingToCommit \/ CommitFails \/
           PushBranch \/ PushFails \/ CreatePullRequest \/
           CreatePullRequestFails \/ RecordPullRequest \/ Returned
  BY <1>9
     DEF VisualWriteFails, DiffFails, DiffDenied, DiffAccepted, CommitChanges,
         NothingToCommit, CommitFails, PushBranch, PushFails,
         CreatePullRequest, CreatePullRequestFails, RecordPullRequest,
         Returned, FailSilently, Write, Publish, EndWith, vars
<1>10. CASE UNCHANGED vars
  BY <1>10 DEF vars
<1> QED
  BY <1>1, <1>2, <1>3, <1>4, <1>5, <1>6, <1>7, <1>8, <1>9, <1>10
     DEF Next, ExternalStep, GatewayStep

-----------------------------------------------------------------------------
(* What is pushed.                                                         *)

\* The hunks of a fingerprint are what the workspace holds.
LEMMA HunksOfFingerprint ==
  \A i, w : \A hunk \in Fingerprint(i, w) : w[hunk[1]] = hunk[3]
BY DEF Fingerprint

\* From the verdict on a workspace to the push nothing changes its files.
LEMMA VerifiedStep == TypeOK /\ VerifiedOK /\ PhaseOK /\ [Next]_vars => VerifiedOK'
<1> SUFFICES ASSUME TypeOK, VerifiedOK, PhaseOK, [Next]_vars PROVE VerifiedOK'
  OBVIOUS
<1> USE WorkerRunAssumption DEF VerifiedOK, VerifiedTree
<1>1. CASE RunCodex
  BY <1>1 DEF RunCodex, CodexEdits
<1>2. CASE Confirm
  BY <1>2, HunksOfFingerprint DEF Confirm, Publish
<1>3. CASE Verify
  BY <1>3 DEF Verify, Publish
<1>4. CASE TestsFail
  BY <1>4
     DEF TestsFail, CommandRun, Publish, RepairOrGiveUp, AskForPlanRevision,
         EndWith, Write
<1>5. CASE TestsPass
  BY <1>5 DEF TestsPass, CommandRun, AskForPlanRevision, EndWith, Write
<1>6. CASE VisualPasses
  <2>1. pc = "visual" /\ pc' = "codex" /\ UNCHANGED <<head, pushed, tested>>
    BY <1>6 DEF VisualPasses, VisualRun, CommandRun
  <2> QED
    BY <2>1 DEF PhaseOK
<1>7. CASE VisualFails
  BY <1>7
     DEF VisualFails, VisualRun, CommandRun, Publish, RepairOrGiveUp,
         AskForPlanRevision, EndWith, Write
<1>8. CASE DiffAccepted
  BY <1>8 DEF DiffAccepted, Publish
<1>9. CASE CommitChanges
  BY <1>9 DEF CommitChanges, AddAll
<1>10. CASE PushBranch
  BY <1>10 DEF PushBranch
<1>11. CASE PushFails
  BY <1>11 DEF PushFails, FailSilently, Write
<1>12. CASE CreatePullRequest
  BY <1>12 DEF CreatePullRequest
<1>13. CASE CreatePullRequestFails
  BY <1>13 DEF CreatePullRequestFails, FailSilently, Write
<1>14. CASE RecordPullRequest
  BY <1>14 DEF RecordPullRequest, EndWith, Write
<1>15. CASE LeaseNext \/ PrepareFails \/ AgentSetupFails \/
           AgentSetupPasses \/ Dispatch \/ TransitionFails \/ UnsupportedCommand \/ PromptReady \/
           PromptFails
  BY <1>15
     DEF LeaseNext, PrepareFails, AgentSetupFails, AgentSetupPasses, Dispatch,
         Phase, TransitionFails,
         UnsupportedCommand, PromptReady, PromptFails, FailSilently, Write,
         CommandRun, Publish, EndWith
<1>16. CASE CheckedWriteFails \/ PlanErrored \/ PlanNeedsRevision \/
           PlanCompleted \/ CodexErrored \/ RevisionReviewed \/
           RevisionReported
  BY <1>16
     DEF CheckedWriteFails, PlanErrored, PlanNeedsRevision, PlanCompleted,
         CodexErrored, RevisionReviewed, RevisionReported, Publish, EndWith,
         Write, FailSilently, RepairOrGiveUp, AskForPlanRevision
<1>17. CASE VisualWriteFails \/ DiffFails \/ DiffDenied \/ NothingToCommit \/
           CommitFails \/ Returned
  BY <1>17
     DEF VisualWriteFails, DiffFails, DiffDenied, NothingToCommit, CommitFails,
         Returned, FailSilently, Write, Publish, EndWith, vars
<1>18. CASE UNCHANGED vars
  BY <1>18 DEF vars
<1> QED
  BY <1>1, <1>2, <1>3, <1>4, <1>5, <1>6, <1>7, <1>8, <1>9, <1>10,
     <1>11, <1>12, <1>13, <1>14, <1>15, <1>16, <1>17, <1>18
     DEF Next, ExternalStep, GatewayStep

\* A file that a list of `git diff --name-only` does not name is the same in both
\* trees, or gone from the second one.
LEMMA UnlistedIsSameOrGone ==
  ASSUME NEW a, NEW b, NEW files \in NameOnly(a, b), NEW f \in Files, f \notin files
  PROVE  a[f] = b[f] \/ (a[f] # Absent /\ b[f] = Absent)
BY DEF NameOnly, MovedAway, Gone

\* What the policy's answer says of whatever `git add -A` commits.
LEMMA AllowedIsUntouched ==
  ASSUME TypeOK, DiffAllowed,
         AgentGit = {} => head = Base /\ index = Base
  PROVE  Untouched(work)
<1>1. PICK ahead \in NameOnly(Base, head), staged \in NameOnly(head, index) :
        (ahead \cup Unstaged \cup staged \cup Untracked) \cap Denied = {}
  BY DEF DiffAllowed, ChangedFiles
<1> SUFFICES ASSUME NEW f \in Denied
             PROVE  work[f] = Base[f] \/ (AgentGit # {} /\ work[f] = Absent)
  BY DEF Untouched
<1>2. f \in Files /\ f \notin ahead /\ f \notin staged /\ f \notin Unstaged /\ f \notin Untracked
  BY <1>1, WorkerRunAssumption
<1>3. work[f] = index[f]
  BY <1>2 DEF Unstaged, Untracked
<1>4. index[f] = head[f] \/ index[f] = Absent
  BY <1>2, UnlistedIsSameOrGone
<1>5. head[f] = Base[f] \/ head[f] = Absent
  BY <1>2, UnlistedIsSameOrGone
<1> QED
  BY <1>3, <1>4, <1>5

\* From the policy's verdict to the push no denied file changes, and nothing
\* that was not accepted is pushed.
LEMMA DeniedStep == TypeOK /\ VerifiedOK /\ DeniedOK /\ [Next]_vars => DeniedOK'
<1> SUFFICES ASSUME TypeOK, VerifiedOK, DeniedOK, [Next]_vars PROVE DeniedOK'
  OBVIOUS
<1>0. pushed # NoTree => pc \in {"open_pr", "record", "ended"}
  BY DEF VerifiedOK
<1> USE <1>0 DEF DeniedOK, Untouched
<1>1. CASE DiffAccepted
  BY <1>1, AllowedIsUntouched DEF DiffAccepted, Publish
<1>2. CASE CommitChanges
  BY <1>2 DEF CommitChanges, AddAll
<1>3. CASE PushBranch
  BY <1>3 DEF PushBranch
<1>4. CASE PushFails
  BY <1>4 DEF PushFails, FailSilently, Write
<1>5. CASE CreatePullRequest
  BY <1>5 DEF CreatePullRequest
<1>6. CASE LeaseNext \/ PrepareFails \/ AgentSetupFails \/
           AgentSetupPasses \/ Dispatch \/ TransitionFails \/ UnsupportedCommand \/ PromptReady \/
           PromptFails
  BY <1>6
     DEF LeaseNext, PrepareFails, AgentSetupFails, AgentSetupPasses, Dispatch,
         Phase, TransitionFails,
         UnsupportedCommand, PromptReady, PromptFails, FailSilently, Write,
         CommandRun, Publish, EndWith
<1>7. CASE RunCodex \/ CheckedWriteFails \/ PlanErrored \/ PlanNeedsRevision \/
           PlanCompleted \/ CodexErrored \/ RevisionReviewed \/
           RevisionReported \/ Confirm \/ Verify \/ TestsFail \/
           TestsPass \/ VisualPasses \/ VisualFails
  BY <1>7
     DEF RunCodex, CheckedWriteFails, PlanErrored, PlanNeedsRevision,
         PlanCompleted, CodexErrored, RevisionReviewed, RevisionReported,
         Confirm, Verify, TestsFail, TestsPass, VisualPasses, VisualFails,
         CodexEdits, Publish, EndWith, Write, FailSilently, RepairOrGiveUp,
         AskForPlanRevision, CommandRun, VisualRun
<1>8. CASE VisualWriteFails \/ DiffFails \/ DiffDenied \/ NothingToCommit \/
           CommitFails \/ CreatePullRequestFails \/
           RecordPullRequest \/ Returned
  BY <1>8
     DEF VisualWriteFails, DiffFails, DiffDenied, NothingToCommit, CommitFails,
         CreatePullRequestFails, RecordPullRequest, Returned, FailSilently,
         Write, Publish, EndWith, vars
<1>9. CASE UNCHANGED vars
  BY <1>9 DEF vars
<1> QED
  BY <1>1, <1>2, <1>3, <1>4, <1>5, <1>6, <1>7, <1>8, <1>9
     DEF Next, ExternalStep, GatewayStep

-----------------------------------------------------------------------------
(* What is reported.                                                       *)

\* Where RunOne still is, the row does not rest.
LEMMA RestsAtEnd ==
  ASSUME TypeOK, PhaseOK, pc # "ended"
  PROVE  state \notin {"done", "waiting_human"}
BY DEF TypeOK, PhaseOK, PCs

\* A step comments only as it ends, and a run that ends with a resting row says
\* which way it went.
LEMMA ReportStep ==
  TypeOK /\ PhaseOK /\ ReportOK /\ OutcomeIsReported /\ [Next]_vars
    => ReportOK' /\ OutcomeIsReported'
<1> SUFFICES ASSUME TypeOK, PhaseOK, ReportOK, OutcomeIsReported, [Next]_vars
             PROVE  ReportOK' /\ OutcomeIsReported'
  OBVIOUS
<1>0. pc # "ended" => state \notin {"done", "waiting_human"} /\ said = {}
  BY RestsAtEnd DEF ReportOK
<1> USE <1>0, PlanOrImplement DEF ReportOK, OutcomeIsReported, Implements
<1>1. CASE LeaseNext \/ PrepareFails \/ AgentSetupPasses \/ Dispatch \/ TransitionFails \/
           UnsupportedCommand \/ PromptReady \/ PromptFails
  BY <1>1
     DEF LeaseNext, PrepareFails, AgentSetupPasses, Dispatch, Phase, TransitionFails,
         UnsupportedCommand, PromptReady, PromptFails, FailSilently, Write
<1>2. CASE AgentSetupFails \/ PlanErrored \/ PlanNeedsRevision
  BY <1>2 DEF AgentSetupFails, PlanErrored, PlanNeedsRevision, EndWith, Write
<1>3. CASE PlanCompleted
  BY <1>3 DEF PlanCompleted, EndWith, FailSilently, Write
<1>4. CASE RunCodex \/ CheckedWriteFails \/ RevisionReviewed \/ Confirm \/ Verify
  BY <1>4 DEF RunCodex, CheckedWriteFails, RevisionReviewed, Confirm, Verify
<1>5. CASE CodexErrored
  BY <1>5 DEF CodexErrored, RepairOrGiveUp, AskForPlanRevision, EndWith, Write
<1>6. CASE RevisionReported
  BY <1>6 DEF RevisionReported, AskForPlanRevision, EndWith, Write
<1>7. CASE TestsFail
  BY <1>7 DEF TestsFail, RepairOrGiveUp, AskForPlanRevision, EndWith, Write
<1>8. CASE TestsPass
  BY <1>8 DEF TestsPass, AskForPlanRevision, EndWith, Write
<1>9. CASE VisualPasses
  BY <1>9 DEF VisualPasses, VisualRun
<1>10. CASE VisualFails
  BY <1>10 DEF VisualFails, VisualRun, RepairOrGiveUp, AskForPlanRevision, EndWith, Write
<1>11. CASE VisualWriteFails \/ DiffFails \/ DiffDenied \/ DiffAccepted \/ CommitChanges \/
            CommitFails \/ PushBranch \/ PushFails
  BY <1>11
     DEF VisualWriteFails, DiffFails, DiffDenied, DiffAccepted, CommitChanges,
         CommitFails, PushBranch, PushFails, FailSilently, Write
<1>12. CASE NothingToCommit
  BY <1>12 DEF NothingToCommit, EndWith, Write, PhaseOK
<1>13. CASE CreatePullRequest \/ CreatePullRequestFails
  BY <1>13 DEF CreatePullRequest, CreatePullRequestFails, FailSilently, Write
<1>14. CASE RecordPullRequest
  BY <1>14 DEF RecordPullRequest, EndWith, Write, PhaseOK
<1>15. CASE Returned \/ UNCHANGED vars
  BY <1>15 DEF Returned, vars
<1> QED
  BY <1>1, <1>2, <1>3, <1>4, <1>5, <1>6, <1>7, <1>8, <1>9, <1>10,
     <1>11, <1>12, <1>13, <1>14, <1>15
     DEF Next, ExternalStep, GatewayStep

\* A step gives a job to a human only when its budget, or its answer, says so.
LEMMA GiveUpStep ==
  TypeOK /\ PhaseOK /\ GivesUpOnlyWhenSpent /\ [Next]_vars => GivesUpOnlyWhenSpent'
<1> SUFFICES ASSUME TypeOK, PhaseOK, GivesUpOnlyWhenSpent, [Next]_vars
             PROVE  GivesUpOnlyWhenSpent'
  OBVIOUS
<1>0. /\ pc # "ended" => state # "waiting_human"
      /\ repairs \in Nat /\ visuals \in Nat
      /\ repairs >= MaxRepair => repairs = MaxRepair
      /\ visuals >= MaxVisual => visuals = MaxVisual
  BY RestsAtEnd, WorkerRunAssumption DEF TypeOK
<1> USE <1>0, PlanOrImplement DEF GivesUpOnlyWhenSpent, Implements
<1>1. CASE LeaseNext \/ PrepareFails \/ AgentSetupPasses \/ Dispatch \/ TransitionFails \/
           UnsupportedCommand \/ PromptReady \/ PromptFails
  BY <1>1
     DEF LeaseNext, PrepareFails, AgentSetupPasses, Dispatch, Phase, TransitionFails,
         UnsupportedCommand, PromptReady, PromptFails, FailSilently, Write
<1>2. CASE AgentSetupFails \/ PlanErrored \/ PlanNeedsRevision \/ PlanCompleted
  BY <1>2
     DEF AgentSetupFails, PlanErrored, PlanNeedsRevision, PlanCompleted, EndWith,
         FailSilently, Write
<1>3. CASE RunCodex \/ CheckedWriteFails \/ RevisionReviewed \/ Confirm \/ Verify
  BY <1>3 DEF RunCodex, CheckedWriteFails, RevisionReviewed, Confirm, Verify
<1>4. CASE CodexErrored
  BY <1>4 DEF CodexErrored, RepairOrGiveUp, AskForPlanRevision, EndWith, Write
<1>5. CASE RevisionReported
  <2>1. ~ VisualCommands \/ visuals = MaxVisual
    <3>1. ~ VisualCommands \/ ~ (visuals < MaxVisual)
      BY <1>5, Zenon DEF RevisionReported
    <3> QED
      BY <3>1, WorkerRunAssumption
  <2>2. status' = "needs_plan_revision" /\ UNCHANGED <<command, repairs, visuals>>
    BY <1>5 DEF RevisionReported
  <2> QED
    BY <2>1, <2>2
<1>6. CASE TestsFail
  BY <1>6 DEF TestsFail, RepairOrGiveUp, AskForPlanRevision, EndWith, Write
<1>7. CASE TestsPass
  BY <1>7 DEF TestsPass, AskForPlanRevision, EndWith, Write
<1>8. CASE VisualPasses
  BY <1>8 DEF VisualPasses, VisualRun
<1>9. CASE VisualFails
  BY <1>9 DEF VisualFails, VisualRun, RepairOrGiveUp, AskForPlanRevision, EndWith, Write
<1>10. CASE VisualWriteFails \/ DiffFails \/ DiffDenied \/ DiffAccepted \/ CommitChanges \/
            NothingToCommit \/ CommitFails
  BY <1>10
     DEF VisualWriteFails, DiffFails, DiffDenied, DiffAccepted, CommitChanges,
         NothingToCommit, CommitFails, EndWith, FailSilently, Write
<1>11. CASE PushBranch \/ PushFails \/ CreatePullRequest \/ CreatePullRequestFails \/
            RecordPullRequest
  BY <1>11
     DEF PushBranch, PushFails, CreatePullRequest, CreatePullRequestFails,
         RecordPullRequest, EndWith, FailSilently, Write
<1>12. CASE Returned \/ UNCHANGED vars
  BY <1>12 DEF Returned, vars
<1> QED
  BY <1>1, <1>2, <1>3, <1>4, <1>5, <1>6, <1>7, <1>8, <1>9, <1>10, <1>11, <1>12
     DEF Next, ExternalStep, GatewayStep

\* The last removal of the staging directory comes before `git add -A`, which
\* makes HEAD hold what it left, and nothing comes between the commit and the push.
LEMMA CommitStep == VerifiedOK /\ CommitOK /\ [Next]_vars => CommitOK'
<1> SUFFICES ASSUME VerifiedOK, CommitOK, [Next]_vars PROVE CommitOK'
  OBVIOUS
<1>0. pushed # NoTree => pc \in {"open_pr", "record", "ended"}
  BY DEF VerifiedOK
<1> USE <1>0 DEF CommitOK
<1>1. CASE DiffAccepted
  BY <1>1 DEF DiffAccepted, Publish
<1>2. CASE CommitChanges \/ NothingToCommit \/ CommitFails
  BY <1>2 DEF CommitChanges, NothingToCommit, CommitFails, AddAll, EndWith, FailSilently
<1>3. CASE PushBranch \/ PushFails \/ CreatePullRequest \/ CreatePullRequestFails \/
           RecordPullRequest
  <2>1. UNCHANGED <<committed, kept>>
    BY <1>3
       DEF PushBranch, PushFails, CreatePullRequest, CreatePullRequestFails,
           RecordPullRequest
  <2>2. pc' \in {"open_pr", "record", "ended"}
    BY <1>3
       DEF PushBranch, PushFails, CreatePullRequest, CreatePullRequestFails,
           RecordPullRequest, EndWith, FailSilently
  <2>3. pc = "push" \/ pushed' = pushed
    BY <1>3
       DEF PushBranch, PushFails, CreatePullRequest, CreatePullRequestFails,
           RecordPullRequest
  <2> QED
    BY <2>1, <2>2, <2>3
<1>4. CASE PrepareFails \/ AgentSetupFails \/ TransitionFails \/ UnsupportedCommand \/
           PromptFails \/ CheckedWriteFails \/ PlanErrored \/ PlanNeedsRevision \/
           PlanCompleted \/ RevisionReported \/ VisualWriteFails \/ DiffFails \/
           DiffDenied
  <2>1. pc' = "ended" /\ pushed' = pushed
        /\ pc \in {"setup", "dispatch", "prompt", "codex", "answered", "visual", "finish"}
    BY <1>4
       DEF PrepareFails, AgentSetupFails, TransitionFails, UnsupportedCommand, PromptFails,
           CheckedWriteFails, PlanErrored, PlanNeedsRevision, PlanCompleted,
           RevisionReported, VisualWriteFails, DiffFails, DiffDenied, EndWith,
           FailSilently, AskForPlanRevision
  <2> QED
    BY <2>1
<1>5. CASE LeaseNext \/ AgentSetupPasses \/ Dispatch \/ PromptReady \/ RunCodex \/
           CodexErrored \/ RevisionReviewed \/ Confirm \/ Verify \/ TestsFail \/
           TestsPass \/ VisualPasses \/ VisualFails
  <2>1. /\ pc' \in {"setup", "dispatch", "prompt", "codex", "answered", "tests", "visual",
                    "finish", "ended"}
        /\ pushed' = pushed
        /\ pc \in {"idle", "setup", "dispatch", "prompt", "codex", "answered", "tests",
                   "visual"}
    BY <1>5
       DEF LeaseNext, AgentSetupPasses, Dispatch, PromptReady, RunCodex, CodexErrored,
           RevisionReviewed, Confirm, Verify, TestsFail, TestsPass, VisualPasses,
           VisualFails, VisualRun, RepairOrGiveUp, AskForPlanRevision, EndWith
  <2> QED
    BY <2>1
<1>6. CASE Returned \/ UNCHANGED vars
  BY <1>6 DEF Returned, vars
<1> QED
  BY <1>1, <1>2, <1>3, <1>4, <1>5, <1>6 DEF Next, ExternalStep, GatewayStep

\* Each way out of RunOne writes a terminal state or has failed to.
LEMMA RestStep == RestOK /\ [Next]_vars => RestOK'
<1> SUFFICES ASSUME RestOK, [Next]_vars PROVE RestOK'
  OBVIOUS
<1> USE DEF RestOK, Terminal
<1>1. CASE PrepareFails \/ AgentSetupFails \/ TransitionFails \/ UnsupportedCommand \/
           PromptFails \/ CheckedWriteFails \/ PlanErrored \/ PlanNeedsRevision \/
           PlanCompleted \/ RevisionReported \/ VisualWriteFails \/ DiffFails \/
           DiffDenied \/ NothingToCommit \/ CommitFails \/ PushFails \/
           CreatePullRequestFails \/ RecordPullRequest
  <2>1. state' \in {"done", "waiting_human", "failed"} \/ lost'
    BY <1>1
       DEF PrepareFails, AgentSetupFails, TransitionFails, UnsupportedCommand, PromptFails,
           CheckedWriteFails, PlanErrored, PlanNeedsRevision, PlanCompleted,
           RevisionReported, VisualWriteFails, DiffFails, DiffDenied, NothingToCommit,
           CommitFails, PushFails, CreatePullRequestFails, RecordPullRequest, EndWith,
           FailSilently, AskForPlanRevision, Write
  <2> QED
    BY <2>1
<1>2. CASE CodexErrored \/ TestsFail \/ TestsPass \/ VisualFails
  BY <1>2
     DEF CodexErrored, TestsFail, TestsPass, VisualFails, RepairOrGiveUp,
         AskForPlanRevision, EndWith, Write
<1>3. CASE LeaseNext \/ AgentSetupPasses \/ Dispatch \/ PromptReady \/ RunCodex \/
           RevisionReviewed \/ Confirm \/ Verify \/ VisualPasses \/ DiffAccepted \/
           CommitChanges \/ PushBranch \/ CreatePullRequest
  BY <1>3
     DEF LeaseNext, AgentSetupPasses, Dispatch, PromptReady, RunCodex, RevisionReviewed,
         Confirm, Verify, VisualPasses, DiffAccepted, CommitChanges, PushBranch,
         CreatePullRequest
<1>4. CASE Returned \/ UNCHANGED vars
  BY <1>4 DEF Returned, vars
<1> QED
  BY <1>1, <1>2, <1>3, <1>4 DEF Next, ExternalStep, GatewayStep

-----------------------------------------------------------------------------
(* The theorems.                                                           *)

\* The invariant holds initially and every step preserves it.
THEOREM Inductive == Spec => []IInv
<1>1. Init => IInv
  <2> SUFFICES ASSUME Init PROVE IInv
    OBVIOUS
  <2>1. TypeOK
    <3>1. tested \in [verdict: {"none", "passed", "failed"}, tree: Tree]
      BY WorkerRunAssumption DEF Init
    <3>2. review \in [verdict: {"none", "passed", "failed"}, tree: Tree, shots: BOOLEAN]
      BY WorkerRunAssumption DEF Init
    <3>3. pc \in PCs /\ state \in State
      BY DEF Init, PCs, State
    <3>4. repairs \in 0..MaxRepair /\ visuals \in 0..MaxVisual
          /\ spent \in 0..(1 + MaxRepair + MaxVisual)
      BY WorkerRunAssumption DEF Init
    <3>5. head \in Tree /\ index \in Tree /\ work \in Tree /\ pushed \in Tree \cup {NoTree}
      BY WorkerRunAssumption DEF Init
    <3> QED
      BY <3>1, <3>2, <3>3, <3>4, <3>5 DEF Init, TypeOK
  <2>2. PhaseOK /\ SpendOK /\ VerifiedOK /\ DeniedOK
    BY <2>1, WorkerRunAssumption DEF Init, PhaseOK, SpendOK, VerifiedOK, DeniedOK, TypeOK
  <2>3. CommitOK /\ ReportOK /\ OutcomeIsReported /\ RestOK
    BY DEF Init, CommitOK, ReportOK, OutcomeIsReported, RestOK
  <2> QED
    BY <2>1, <2>2, <2>3 DEF IInv
<1>2. IInv /\ [Next]_vars => IInv'
  BY TypeStep, PhaseStep, SpendStep, VerifiedStep, DeniedStep, CommitStep,
     ReportStep, RestStep DEF IInv
<1> QED
  BY <1>1, <1>2, PTL DEF Spec

\* Every variable keeps its type; in particular neither budget is overdrawn.
THEOREM TypeCorrect == Spec => []TypeOK
BY Inductive, PTL DEF IInv

\* No file that deny_paths matches reaches the remote with other contents, however
\* Codex edited, staged or committed it; only its removal may, and only where Codex
\* runs git itself.
THEOREM DeniedFilesNeverChange == Spec => []DeniedOnlyRemoved
<1>1. IInv => DeniedOnlyRemoved
  BY DEF IInv, DeniedOK, Untouched, DeniedOnlyRemoved
<1> QED
  BY <1>1, Inductive, PTL

\* Without visual review, what is pushed is what the last test run passed on.
THEOREM OnlyTestedTreesArePushed == Spec => []PushedWasTested
<1>1. IInv => PushedWasTested
  BY DEF IInv, VerifiedOK, VerifiedTree, PushedWasTested
<1> QED
  BY <1>1, Inductive, PTL

\* With visual review, every fingerprinted hunk is pushed as it was confirmed.
THEOREM ConfirmedHunksArePushed == Spec => []ConfirmedPatchIsPushed
<1>1. IInv => ConfirmedPatchIsPushed
  BY DEF IInv, VerifiedOK, VerifiedTree, ConfirmedPatchIsPushed
<1> QED
  BY <1>1, Inductive, PTL

\* No Codex run is free: a job runs Codex at most 1 + MaxRepair + MaxVisual times.
THEOREM CodexRunsAreBounded == Spec => []EveryRunIsPaidFor
<1>1. IInv => EveryRunIsPaidFor
  BY WorkerRunAssumption DEF IInv, TypeOK, SpendOK, EveryRunIsPaidFor
<1> QED
  BY <1>1, Inductive, PTL

\* A human is only asked when a budget is spent, or when Codex asked for it and no
\* review could be run.
THEOREM HumansAreAskedLast == Spec => []GivesUpOnlyWhenSpent
<1>1. Init => GivesUpOnlyWhenSpent
  BY DEF Init, GivesUpOnlyWhenSpent
<1>2. IInv /\ GivesUpOnlyWhenSpent /\ [Next]_vars => GivesUpOnlyWhenSpent'
  BY GiveUpStep DEF IInv
<1> QED
  BY <1>1, <1>2, Inductive, PTL DEF Spec

\* The tip of the pushed branch holds no screenshot, whoever staged or committed it,
\* unless the removal of the staging directory failed.
THEOREM ScreenshotsStayOut == Spec => []ScreenshotsNotPushed
<1>1. IInv => ScreenshotsNotPushed
  BY DEF IInv, CommitOK, ScreenshotsNotPushed
<1> QED
  BY <1>1, Inductive, PTL

\* A run of the worker ends with a settled row, unless a write of the row failed.
THEOREM RowsSettle == Spec => [](pc = "ended" => state \in Terminal \/ lost)
BY Inductive, PTL DEF IInv, RestOK

\* A job that rests as done or with a human has told the issue so, once, and in the
\* words that fit its pull request.
THEOREM OutcomesAreReported == Spec => []OutcomeIsReported
<1>1. IInv => OutcomeIsReported
  BY DEF IInv
<1> QED
  BY <1>1, Inductive, PTL

\* RunOne implements the lifecycle of a job row, database errors included.
THEOREM RunImplementsLifecycle == Spec => LifecycleSpec
<1>1. Init => Lifecycle!Init
  BY DEF Init, Lifecycle!Init
<1>2. IInv /\ [Next]_vars => [Lifecycle!Next]_state
  BY PhaseStep DEF IInv, RowMoves
<1> QED
  BY <1>1, <1>2, Inductive, PTL DEF Spec, LifecycleSpec, Lifecycle!Spec
=============================================================================
