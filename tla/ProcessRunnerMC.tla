--------------------------- MODULE ProcessRunnerMC ---------------------------
(* The calls that TLC considers: pipes of two chunks, input and output on    *)
(* either side of that.                                                      *)
EXTENDS ProcessRunner

MCSizes == {0, 1, 3}
MCOutput == {[s \in Streams |-> IF s = "stdout" THEN n ELSE m] : n \in {0, 3}, m \in {0, 1}}

MCAllCalls ==
  [stdin: MCSizes, before: MCOutput, reads: {"all", "some", "none"},
   after: MCOutput, lingers: BOOLEAN]
=============================================================================
