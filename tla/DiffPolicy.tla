----------------------------- MODULE DiffPolicy -----------------------------
(***************************************************************************)
(* matchesAny (internal/diffpolicy): which changed files a pattern of      *)
(* deny_paths or review_required_paths names.  The code takes              *)
(* filepath.Match and, for a pattern that ends in "/**", everything below  *)
(* the directory before it.  Its patterns are written as if "**" stood for *)
(* any number of directories everywhere.                                   *)
(*                                                                         *)
(* Paths and patterns are sequences of segments, a segment a sequence of   *)
(* characters; in a pattern "*" is the wildcard.                           *)
(***************************************************************************)
EXTENDS SequencesExt

CONSTANTS Paths, Patterns

VARIABLES
  path,     \* the changed file
  pattern,  \* the pattern
  verdict   \* "none", or what matchesAny said

policyVars == <<path, pattern, verdict>>

ASSUME PolicyAssumption == Paths \cup Patterns \subseteq Seq(Seq(STRING))

PolicyInit == path \in Paths /\ pattern \in Patterns /\ verdict = "none"

AnyDirs == <<"*", "*">>

\* The ways to cut s into one part, maybe empty, for every element of p: part i
\* ends at cut[i].
Cuts(p, s) ==
  {cut \in [0 .. Len(p) -> 0 .. Len(s)] :
     cut[0] = 0 /\ cut[Len(p)] = Len(s) /\ \A i \in DOMAIN p : cut[i - 1] <= cut[i]}

\* filepath.Match within a segment: "*" takes any part, a character itself.
MatchesSegment(p, s) ==
  \E cut \in Cuts(p, s) : \A i \in DOMAIN p :
    p[i] # "*" => cut[i] = cut[i - 1] + 1 /\ p[i] = s[cut[i]]

\* filepath.Match: no wildcard matches a separator.
FileMatch(p, f) ==
  Len(p) = Len(f) /\ \A i \in DOMAIN p : MatchesSegment(p[i], f[i])

\* Mutant: the prefix is compared without the separator after it.
BelowAnyPrefix(p, f) ==
  /\ Len(p) > 1 /\ Last(p) = AnyDirs
  /\ \E n \in DOMAIN f :
       /\ n = Len(p) - 1
       /\ SubSeq(f, 1, n - 1) = SubSeq(p, 1, n - 1)
       /\ IsPrefix(p[n], f[n])

\* strings.HasSuffix(pattern, "/**") and strings.HasPrefix(file, prefix + "/"),
\* or the directory itself; the prefix is compared as it is written.
BelowPrefix(p, f) ==
  Len(p) > 1 /\ Last(p) = AnyDirs /\ IsPrefix(Front(p), f)

MatchesAny ==
  /\ verdict = "none"
  /\ verdict' = IF FileMatch(pattern, path) \/ BelowPrefix(pattern, path)
                THEN "matched" ELSE "passed"
  /\ UNCHANGED <<path, pattern>>

PolicySpec == PolicyInit /\ [][MatchesAny]_policyVars

-----------------------------------------------------------------------------
(* Properties                                                              *)

\* What a pattern means if "**" is any number of directories.
Means(p, f) ==
  \E cut \in Cuts(p, f) : \A i \in DOMAIN p :
    p[i] # AnyDirs => cut[i] = cut[i - 1] + 1 /\ MatchesSegment(p[i], f[cut[i]])

\* Patterns that say to the code what they say to a reader: no "**" but at the
\* end, after a directory without wildcards.
Plain(p) ==
  \A i \in DOMAIN p : p[i] = AnyDirs =>
    i = Len(p) /\ i > 1 /\ \A k \in 1 .. i - 1 : "*" \notin ToSet(p[k])

\* The policy never matches a file its pattern does not mean, and misses none
\* if the pattern is plain.  Of others it may miss some: "**/*secret*" of
\* configs/example.yml matches in exactly one directory.
PolicyMeansPattern ==
  /\ verdict = "matched" => Means(pattern, path)
  /\ verdict = "passed" /\ Plain(pattern) => ~ Means(pattern, path)

\* The inductive invariant: what is to be matched stays what it was.
PolicyIInv == path \in Paths /\ pattern \in Patterns /\ PolicyMeansPattern
=============================================================================
