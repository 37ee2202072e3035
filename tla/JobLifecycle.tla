---------------------------- MODULE JobLifecycle ----------------------------
(***************************************************************************)
(* What the gateway promises about the state column of one job row: the    *)
(* abstract specification that the worker's run of a job (WorkerRun) and   *)
(* the whole gateway (Gateway) are shown to implement.                     *)
(*                                                                         *)
(* A row is inserted as "queued"; one lease takes it to "starting"; the    *)
(* worker then moves it along Follows until it rests in a terminal state.  *)
(***************************************************************************)
EXTENDS JobTypes

VARIABLE state  \* the state column of the row

\* The states one database write may put in the place of state s.
Follows(s) ==
  CASE s = "queued"       -> {"starting"}
    [] s = "starting"     -> {"planning", "implementing", "failed"}
    [] s = "planning"     -> Terminal
    [] s = "implementing" -> {"testing", "creating_pr", "waiting_human", "failed"}
    [] s = "testing"      -> {"implementing", "creating_pr", "waiting_human", "failed"}
    [] s = "creating_pr"  -> {"done", "failed"}
    [] OTHER              -> {}

Init == state = "queued"

Next == \E s \in Follows(state) : state' = s

Spec == Init /\ [][Next]_state
=============================================================================
