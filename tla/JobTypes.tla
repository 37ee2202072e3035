------------------------------ MODULE JobTypes ------------------------------
(* The values of the state and command columns of a job row.                 *)

(* The states of internal/queue/models.go that the code writes.  It declares *)
(* received, validating, rejected, reviewing, cancelled and expired as well, *)
(* and never uses them.                                                      *)
Running  == {"starting", "planning", "implementing", "testing", "creating_pr"}
Terminal == {"waiting_human", "done", "failed"}
State    == {"queued"} \cup Running \cup Terminal

(* The commands that internal/commands/parser.go accepts.                    *)
Commands == {"plan", "implement", "fix", "review", "retry", "cancel", "status"}

(* The commands that Worker.RunOne runs as an implementation.                *)
ImplementCommands == {"implement", "fix"}
=============================================================================
