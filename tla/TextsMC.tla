------------------------------- MODULE TextsMC -------------------------------
(* The parts that work on texts and files, each on its own: a behaviour is one *)
(* of a report that is posted, of the screenshots of a job, of a pattern and a *)
(* path, or of two jobs and their creation times.  The others rest.            *)
EXTENDS PublicComment, Screenshots, DiffPolicy, CreationTimes

VARIABLE part

vars == <<part, commentVars, shotsVars, policyVars, timesVars>>

MCPath == <<<<"a">>>>
MCTime == [i \in 1 .. Width |-> 0]


MCRest(p) ==
  CASE p = "comment" -> report = Fallback
    [] p = "policy"  -> path = MCPath /\ pattern = MCPath
    [] p = "times"   -> /\ older = [second |-> 0, fraction |-> MCTime]
                        /\ newer = [second |-> 1, fraction |-> MCTime]
    [] p = "shots"   -> TRUE

Init ==
  \E p \in {"comment", "shots", "policy", "times"} :
    /\ part = p
    /\ \A q \in {"comment", "policy", "times"} \ {p} : MCRest(q)
    /\ CommentInit /\ ShotsInit /\ PolicyInit /\ TimesInit

Next ==
  \/ /\ part = "comment" /\ CommentNext
     /\ UNCHANGED <<part, shotsVars, policyVars, timesVars>>
  \/ /\ part = "shots" /\ ShotsNext
     /\ UNCHANGED <<part, commentVars, policyVars, timesVars>>
  \/ /\ part = "policy" /\ MatchesAny
     /\ UNCHANGED <<part, commentVars, shotsVars, timesVars>>
  \/ /\ part = "times" /\ (Write \/ Lease)
     /\ UNCHANGED <<part, commentVars, shotsVars, policyVars>>

Spec == Init /\ [][Next]_vars

-----------------------------------------------------------------------------
(* Every text of up to eight bytes, in chunks of at most four.              *)
MCFallback == <<"x", "n">>

MCTextsOf[n \in 0 .. 8] ==
  IF n = 0 THEN {<<>>}
  ELSE {rune \o t : rune \in {<<"x">>, <<"n">>}, t \in MCTextsOf[n - 1]}
       \cup (IF n < 2 THEN {} ELSE {<<"l", "c">> \o t : t \in MCTextsOf[n - 2]})
       \cup (IF n < 3 THEN {} ELSE {<<"l", "c", "c">> \o t : t \in MCTextsOf[n - 3]})

MCReports == UNION {MCTextsOf[n] : n \in 1 .. 8}

(* Names that clean to the same or to nothing, a dot within, no image, and   *)
(* a number that another name will be given.                                *)
MCFile(stem, ext, picture) == [stem |-> stem, ext |-> ext, picture |-> picture]
MCFiles ==
  <<MCFile(<<>>, ".png", TRUE), MCFile(<<"A">>, ".png", TRUE),
    MCFile(<<"a", "-", "2">>, ".png", TRUE), MCFile(<<"a", ".", "_", "a">>, ".png", TRUE),
    MCFile(<<"a">>, ".md", TRUE), MCFile(<<"a">>, ".png", TRUE)>>

MCKept == {"a", "A"} \cup {ToString(n) : n \in 2 .. 12}
MCLower == [c \in MCKept |-> IF c = "A" THEN "a" ELSE c]

(* Every path of up to three directories over two names, and patterns of up  *)
(* to three segments.                                                       *)
MCPaths == BoundedSeq({<<"a">>, <<"b">>, <<"a", "b">>}, 3) \ {<<>>}
MCPatterns ==
  BoundedSeq({<<"a">>, <<"*">>, <<"*", "b">>, <<"*", "a", "*">>, AnyDirs}, 3) \ {<<>>}
=============================================================================
