------------------------------ MODULE GatewayMC ------------------------------
(* Values for the constants of Gateway, and the events GitHub sends.         *)
EXTENDS Gateway, TLC

CONSTANTS d1, d2, h1, h2

MCEvent(kind, action, actor, role, command) ==
  [kind |-> kind, action |-> action, configured |-> TRUE, actor |-> actor,
   role |-> role, labelled |-> FALSE, closed |-> FALSE, locked |-> FALSE,
   command |-> command]

Implement  == MCEvent("issue_comment", "created", "hellcatjack", "maintainer", "implement")
Plan       == MCEvent("issues", "edited", "hellcatjack", "operator", "plan")
Unlabelled == MCEvent("issue_comment", "created", "hellcatjack", "requester", "fix")
Stranger   == MCEvent("issue_comment", "created", "other", "admin", "implement")
Push       == MCEvent("push", "created", "hellcatjack", "admin", "none")

AllEvents == {Implement, Plan, Unlabelled, Stranger, Push}
WorkEvents == {Implement, Plan}
SomeEvents == {Implement}

\* The texts of the two times are in the wrong order.
Inverted == [j \in JobIds |-> MaxJobs - j]

Symmetry == Permutations({d1, d2}) \cup Permutations({h1, h2})
=============================================================================
