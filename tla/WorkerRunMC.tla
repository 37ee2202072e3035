---------------------------- MODULE WorkerRunMC ----------------------------
(* Values for the constants of WorkerRun: one file the base branch holds and *)
(* one it does not.                                                          *)
EXTENDS WorkerRun

CONSTANTS src, new, v0, v1, none, noTree

MCFiles == {src, new}
MCContents == {v0, v1}
MCOne == {v0}
SameContents == {<<v0, v0>>, <<v1, v1>>}
SameOne == {<<v0, v0>>}
MCBase == [f \in MCFiles |-> IF f = src THEN v0 ELSE none]
MCSrc == {src}
NoFiles == {}
NoGit == {}
AddOnly == {"add"}
AddOrCommit == {"add", "commit"}
=============================================================================
