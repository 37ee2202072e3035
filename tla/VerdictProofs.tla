---------------------------- MODULE VerdictProofs ----------------------------
(***************************************************************************)
(* Proofs about the two decisions taken from the characters of a text: for *)
(* any paths and patterns, which files a pattern names (DiffPolicy); for   *)
(* any number of digits, which of two jobs is leased (CreationTimes).      *)
(***************************************************************************)
EXTENDS DiffPolicy, CreationTimes, ListLemmas

-----------------------------------------------------------------------------
(* Patterns                                                                *)

\* The ends of the parts are numbers that never go down.
LEMMA CutEnds ==
  ASSUME NEW A, NEW p \in Seq(A), NEW s \in Seq(A), NEW cut \in Cuts(p, s)
  PROVE  /\ cut[0] = 0 /\ cut[Len(p)] = Len(s)
         /\ \A i \in 0 .. Len(p) : cut[i] \in 0 .. Len(s)
         /\ \A i \in 1 .. Len(p) : cut[i - 1] <= cut[i]
<1>1. DOMAIN p = 1 .. Len(p)
  OBVIOUS
<1> QED  BY <1>1 DEF Cuts

\* As long as every element takes one, part i is element i.
LEMMA CutInOnes ==
  ASSUME NEW A, NEW p \in Seq(A), NEW s \in Seq(A), NEW cut \in Cuts(p, s),
         NEW n \in 0 .. Len(p), \A i \in 1 .. n : cut[i] = cut[i - 1] + 1
  PROVE  \A i \in 0 .. n : cut[i] = i
<1> DEFINE T == {i \in Nat : i <= n => cut[i] = i}
<1>1. 0 \in T
  BY CutEnds
<1>2. ASSUME NEW i \in T PROVE i + 1 \in T
  <2> SUFFICES ASSUME i + 1 <= n PROVE cut[i + 1] = i + 1
    OBVIOUS
  <2>1. cut[i] = i /\ i + 1 \in 1 .. n /\ (i + 1) - 1 = i
    OBVIOUS
  <2> QED  BY <2>1
<1>3. T = Nat
  <2> HIDE DEF T
  <2>1. T \subseteq Nat
    BY DEF T
  <2> QED  BY <1>1, <1>2, <2>1, Induction
<1> QED  BY <1>3

\* The cut into single elements.
LEMMA OnesCut ==
  ASSUME NEW A, NEW p \in Seq(A), NEW s \in Seq(A), Len(p) = Len(s)
  PROVE  [i \in 0 .. Len(p) |-> i] \in Cuts(p, s)
<1>1. DOMAIN p = 1 .. Len(p) /\ Len(p) \in Nat
  OBVIOUS
<1> QED  BY <1>1 DEF Cuts

\* A segment matches itself.
LEMMA MatchesItself ==
  ASSUME NEW A, NEW s \in Seq(A)
  PROVE  MatchesSegment(s, s)
<1> DEFINE ones == [i \in 0 .. Len(s) |-> i]
<1>1. ones \in Cuts(s, s)
  BY OnesCut
<1>2. \A i \in DOMAIN s : ones[i] = ones[i - 1] + 1 /\ s[i] = s[ones[i]]
  OBVIOUS
<1> HIDE DEF ones
<1> QED  BY <1>1, <1>2 DEF MatchesSegment

\* Without a wildcard it matches nothing else.
LEMMA MatchesOnlyItself ==
  ASSUME NEW A, NEW p \in Seq(A), NEW s \in Seq(A), "*" \notin ToSet(p), MatchesSegment(p, s)
  PROVE  p = s
<1>1. \A i \in 1 .. Len(p) : p[i] # "*"
  BY DEF ToSet
<1>2. PICK cut \in Cuts(p, s) :
        \A i \in 1 .. Len(p) : cut[i] = cut[i - 1] + 1 /\ p[i] = s[cut[i]]
  BY <1>1 DEF MatchesSegment
<1>3. \A i \in 0 .. Len(p) : cut[i] = i
  <2>1. Len(p) \in 0 .. Len(p) /\ \A i \in 1 .. Len(p) : cut[i] = cut[i - 1] + 1
    BY <1>2
  <2> QED  BY <2>1, CutInOnes
<1>4. Len(p) = Len(s)
  BY <1>3, CutEnds
<1> QED  BY <1>2, <1>3, <1>4

\* The beginning of a pattern.
LEMMA FrontOf ==
  ASSUME NEW A, NEW p \in Seq(A), Len(p) > 1
  PROVE  /\ Front(p) \in Seq(A) /\ Len(Front(p)) = Len(p) - 1
         /\ \A i \in 1 .. Len(p) - 1 : Front(p)[i] = p[i]
         /\ Last(p) = p[Len(p)]
BY DEF Front, Last

\* What is the beginning of a path.
LEMMA PrefixOf ==
  ASSUME NEW A, NEW p \in Seq(A), NEW f \in Seq(A)
  PROVE  IsPrefix(p, f) <=> Len(p) <= Len(f) /\ \A i \in 1 .. Len(p) : p[i] = f[i]
<1>1. CASE Len(p) <= Len(f)
  <2>1. SubSeq(p, 1, Len(p)) = p
    OBVIOUS
  <2>2. /\ Len(SubSeq(f, 1, Len(p))) = Len(p) /\ SubSeq(f, 1, Len(p)) \in Seq(A)
        /\ \A i \in 1 .. Len(p) : SubSeq(f, 1, Len(p))[i] = f[i]
    BY <1>1
  <2>3. p = SubSeq(f, 1, Len(p)) <=> \A i \in 1 .. Len(p) : p[i] = f[i]
    BY <2>2
  <2> QED  BY <1>1, <2>1, <2>3 DEF IsPrefix
<1>2. CASE ~ (Len(p) <= Len(f))
  BY <1>2 DEF IsPrefix
<1> QED  BY <1>1, <1>2

Segments == Seq(Seq(STRING))

\* What the code matches, the pattern means.
LEMMA MatchedIsMeant ==
  ASSUME NEW p \in Segments, NEW f \in Segments, FileMatch(p, f) \/ BelowPrefix(p, f)
  PROVE  Means(p, f)
<1> USE DEF Segments
<1>0. /\ DOMAIN p = 1 .. Len(p) /\ Len(p) \in Nat /\ Len(f) \in Nat
      /\ \A i \in 1 .. Len(p) : p[i] \in Seq(STRING)
  OBVIOUS
<1>1. CASE FileMatch(p, f)
  <2> DEFINE ones == [i \in 0 .. Len(p) |-> i]
  <2>1. ones \in Cuts(p, f)
    BY <1>1, OnesCut DEF FileMatch
  <2>2. \A i \in DOMAIN p : ones[i] = ones[i - 1] + 1 /\ MatchesSegment(p[i], f[ones[i]])
    BY <1>0, <1>1 DEF FileMatch
  <2> HIDE DEF ones
  <2> QED  BY <2>1, <2>2 DEF Means
<1>2. CASE BelowPrefix(p, f)
  <2> DEFINE n == Len(p)
             cut == [i \in 0 .. n |-> IF i = n THEN Len(f) ELSE i]
  <2>1. n > 1 /\ p[n] = AnyDirs /\ IsPrefix(Front(p), f)
    BY <1>2, FrontOf DEF BelowPrefix
  <2>2. n - 1 <= Len(f) /\ \A i \in 1 .. n - 1 : p[i] = f[i]
    <3>1. /\ Front(p) \in Seq(Seq(STRING)) /\ Len(Front(p)) = n - 1
          /\ \A i \in 1 .. n - 1 : Front(p)[i] = p[i]
      BY <2>1, FrontOf
    <3> QED  BY <2>1, <3>1, PrefixOf
  <2>3. cut \in Cuts(p, f)
    <3>1. cut \in [0 .. n -> 0 .. Len(f)] /\ cut[0] = 0 /\ cut[n] = Len(f)
      BY <1>0, <2>1, <2>2
    <3>2. ASSUME NEW i \in 1 .. n PROVE cut[i - 1] <= cut[i]
      <4>1. i - 1 \in 0 .. n /\ i - 1 # n /\ i - 1 <= Len(f) /\ i \in 0 .. n
        BY <1>0, <2>2
      <4>2. cut[i - 1] = i - 1 /\ (cut[i] = i \/ cut[i] = Len(f))
        BY <4>1
      <4> HIDE DEF cut
      <4> QED  BY <1>0, <4>1, <4>2
    <3> HIDE DEF cut
    <3> QED  BY <1>0, <3>1, <3>2 DEF Cuts
  <2>4. ASSUME NEW i \in 1 .. n, p[i] # AnyDirs
        PROVE  cut[i] = cut[i - 1] + 1 /\ MatchesSegment(p[i], f[cut[i]])
    <3>1. i # n /\ i \in 1 .. n - 1
      <4>1. i # n /\ n \in Nat
        BY <1>0, <2>1, <2>4
      <4> HIDE DEF n, cut
      <4> QED  BY <4>1
    <3>2. cut[i] = i /\ cut[i - 1] = i - 1
      <4>1. i \in 0 .. n /\ i - 1 \in 0 .. n /\ i - 1 # n
        <5>1. n \in Nat
          BY <1>0
        <5> HIDE DEF n, cut
        <5> QED  BY <3>1, <5>1
      <4> QED  BY <3>1, <4>1
    <3>3. MatchesSegment(p[i], p[i])
      BY <1>0, MatchesItself
    <3> QED  BY <2>2, <3>1, <3>2, <3>3
  <2> HIDE DEF cut
  <2> QED  BY <1>0, <2>3, <2>4 DEF Means
<1> QED  BY <1>1, <1>2

\* What a plain pattern means, the code matches.
LEMMA PlainIsMatched ==
  ASSUME NEW p \in Segments, NEW f \in Segments, Plain(p), Means(p, f)
  PROVE  FileMatch(p, f) \/ BelowPrefix(p, f)
<1> USE DEF Segments
<1>0. /\ DOMAIN p = 1 .. Len(p) /\ Len(p) \in Nat /\ Len(f) \in Nat
      /\ \A i \in 1 .. Len(p) : p[i] \in Seq(STRING)
      /\ \A i \in 1 .. Len(f) : f[i] \in Seq(STRING)
  OBVIOUS
<1>1. PICK cut \in Cuts(p, f) : \A i \in 1 .. Len(p) :
        p[i] # AnyDirs => cut[i] = cut[i - 1] + 1 /\ MatchesSegment(p[i], f[cut[i]])
  BY <1>0 DEF Means
<1>2. CASE \A i \in 1 .. Len(p) : p[i] # AnyDirs
  <2>1. \A i \in 0 .. Len(p) : cut[i] = i
    <3>1. Len(p) \in 0 .. Len(p)
      BY <1>0
    <3> QED  BY <1>1, <1>2, <3>1, CutInOnes
  <2>2. Len(p) = Len(f)
    <3>1. cut[Len(p)] = Len(f)
      BY CutEnds
    <3> QED  BY <1>0, <2>1, <3>1
  <2>3. ASSUME NEW i \in 1 .. Len(p) PROVE MatchesSegment(p[i], f[i])
    <3>1. MatchesSegment(p[i], f[cut[i]])
      BY <1>1, <1>2
    <3>2. cut[i] = i
      BY <1>0, <2>1
    <3> QED  BY <3>1, <3>2
  <2> QED  BY <1>0, <2>2, <2>3 DEF FileMatch
<1>3. ASSUME NEW n \in 1 .. Len(p), p[n] = AnyDirs PROVE BelowPrefix(p, f)
  <2>1. n = Len(p) /\ n > 1 /\ \A k \in 1 .. n - 1 : "*" \notin ToSet(p[k])
    BY <1>0, <1>3 DEF Plain
  <2>2. \A k \in 1 .. n - 1 : p[k] # AnyDirs
    <3>1. "*" \in ToSet(AnyDirs)
      BY DEF AnyDirs, ToSet
    <3> QED  BY <2>1, <3>1
  <2>3. \A i \in 0 .. n - 1 : cut[i] = i
    <3>1. n - 1 \in 0 .. Len(p)
      BY <1>0, <2>1
    <3>2. ASSUME NEW i \in 1 .. n - 1 PROVE cut[i] = cut[i - 1] + 1
      <4>1. i \in 1 .. Len(p) /\ p[i] # AnyDirs
        BY <1>0, <2>1, <2>2
      <4> QED  BY <1>1, <4>1
    <3> QED  BY <3>1, <3>2, CutInOnes
  <2>4. n - 1 <= Len(f)
    <3>1. n - 1 \in 0 .. Len(p)
      BY <1>0, <2>1
    <3>2. cut[n - 1] \in 0 .. Len(f) /\ cut[n - 1] = n - 1
      BY <2>3, <3>1, CutEnds
    <3> QED  BY <3>2
  <2>5. ASSUME NEW k \in 1 .. n - 1 PROVE p[k] = f[k]
    <3>1. MatchesSegment(p[k], f[k]) /\ p[k] \in Seq(STRING) /\ f[k] \in Seq(STRING)
      BY <1>0, <1>1, <2>1, <2>2, <2>3, <2>4
    <3>2. "*" \notin ToSet(p[k])
      BY <2>1
    <3> QED  BY <3>1, <3>2, MatchesOnlyItself
  <2>6. IsPrefix(Front(p), f)
    <3>1. /\ Front(p) \in Seq(Seq(STRING)) /\ Len(Front(p)) = n - 1
          /\ \A i \in 1 .. n - 1 : Front(p)[i] = p[i]
      BY <2>1, FrontOf
    <3> QED  BY <2>4, <2>5, <3>1, PrefixOf
  <2> QED  BY <1>3, <2>1, <2>6, FrontOf DEF BelowPrefix
<1> QED  BY <1>2, <1>3

LEMMA PolicyInvariant == PolicySpec => []PolicyIInv
<1>1. PolicyInit => PolicyIInv
  BY DEF PolicyInit, PolicyIInv, PolicyMeansPattern
<1>2. PolicyIInv /\ [MatchesAny]_policyVars => PolicyIInv'
  <2> SUFFICES ASSUME PolicyIInv, [MatchesAny]_policyVars PROVE PolicyIInv'
    OBVIOUS
  <2>1. CASE UNCHANGED policyVars
    BY <2>1 DEF policyVars, PolicyIInv, PolicyMeansPattern
  <2>2. CASE MatchesAny
    <3>1. path' = path /\ pattern' = pattern
      BY <2>2 DEF MatchesAny
    <3>2. pattern \in Segments /\ path \in Segments
      BY PolicyAssumption DEF PolicyIInv, Segments
    <3>3. verdict' = "matched" => Means(pattern, path)
      BY <2>2, <3>2, MatchedIsMeant DEF MatchesAny
    <3>4. verdict' = "passed" /\ Plain(pattern) => ~ Means(pattern, path)
      BY <2>2, <3>2, PlainIsMatched DEF MatchesAny
    <3>5. PolicyMeansPattern'
      BY <3>1, <3>3, <3>4 DEF PolicyMeansPattern
    <3> QED  BY <3>1, <3>5 DEF PolicyIInv
  <2> QED  BY <2>1, <2>2
<1> QED  BY <1>1, <1>2, PTL DEF PolicySpec

\* Whatever the pattern and the file: what deny_paths and review_required_paths
\* match is what they mean, and all of it if the pattern is plain.
THEOREM PolicyVerdict == PolicySpec => []PolicyMeansPattern
BY PolicyInvariant, PTL DEF PolicyIInv

-----------------------------------------------------------------------------
(* Creation times                                                          *)

\* The fraction as it is written: its beginning, up to the last digit that is
\* not zero.
LEMMA TrimmedDigits ==
  ASSUME NEW f \in [1 .. Width -> Int]
  PROVE  /\ Trimmed(f) \in Seq(Int) /\ Len(Trimmed(f)) \in 0 .. Width
         /\ \A i \in 1 .. Len(Trimmed(f)) : Trimmed(f)[i] = f[i]
         /\ \A i \in 1 .. Width : f[i] # 0 => i <= Len(Trimmed(f))
<1> DEFINE T == {0} \cup {i \in DOMAIN f : f[i] # 0}
<1>1. T \in SUBSET Nat /\ T # {} /\ \A m \in T : m <= Width
  BY TimesAssumption
<1>2. Max(T) \in T /\ \A m \in T : m <= Max(T)
  <2> HIDE DEF T
  <2> QED  BY <1>1, MaxOfSet, TimesAssumption
<1> DEFINE n == Max(T)
<1>3. n \in 0 .. Width /\ \A i \in 1 .. Width : f[i] # 0 => i <= n
  <2>1. n \in Nat /\ n <= Width
    <3> HIDE DEF T
    <3> QED  BY <1>1, <1>2
  <2> QED  BY <1>2, <2>1, TimesAssumption
<1>4. Trimmed(f) = SubSeq(f, 1, n)
  BY DEF Trimmed
<1> HIDE DEF n
<1>5. f \in Seq(Int) /\ Len(f) = Width
  BY TimesAssumption
<1>6. /\ SubSeq(f, 1, n) \in Seq(Int) /\ Len(SubSeq(f, 1, n)) = n
      /\ \A i \in 1 .. n : SubSeq(f, 1, n)[i] = f[i]
  BY <1>3, <1>5, TimesAssumption
<1> QED  BY <1>3, <1>4, <1>6

\* The text of a time, place by place.
LEMMA TextOf ==
  ASSUME NEW t \in Time
  PROVE  LET w == Trimmed(t.fraction)
             n == Len(w)
             text == FormatTime(t)
         IN /\ text[1] = t.second
            /\ n = 0 => DOMAIN text = 1 .. 2 /\ text[2] = Zed
            /\ n > 0 => /\ DOMAIN text = 1 .. n + 3 /\ text[2] = Dot /\ text[n + 3] = Zed
                        /\ \A i \in 1 .. n : text[i + 2] = t.fraction[i]
<1> DEFINE w == Trimmed(t.fraction)
           n == Len(w)
<1>1. t.fraction \in [1 .. Width -> Digits] /\ t.second \in Nat
  BY TimesAssumption DEF Time
<1>2. w \in Seq(Int) /\ n \in Nat /\ \A i \in 1 .. n : w[i] = t.fraction[i]
  <2>1. Digits \subseteq Int
    BY TimesAssumption
  <2>2. t.fraction \in [1 .. Width -> Int]
    BY <1>1, <2>1
  <2>3. /\ w \in Seq(Int) /\ n \in 0 .. Width
        /\ \A i \in 1 .. n : w[i] = t.fraction[i]
    BY <2>2, TrimmedDigits
  <2> HIDE DEF w
  <2> QED  BY <2>3, TimesAssumption
<1>3. FormatTime(t) = <<t.second>> \o (IF w = <<>> THEN <<>> ELSE <<Dot>> \o w) \o <<Zed>>
  BY DEF FormatTime
<1> HIDE DEF w
<1>4. CASE n = 0
  <2>1. w = <<>>
    BY <1>2, <1>4
  <2>2. FormatTime(t) = <<t.second>> \o <<>> \o <<Zed>>
    BY <1>3, <2>1
  <2>3. /\ <<t.second>> \in Seq(Int) /\ <<Zed>> \in Seq(Int)
        /\ <<t.second>> \o <<>> = <<t.second>>
    BY <1>1 DEF Zed
  <2>4. /\ DOMAIN (<<t.second>> \o <<Zed>>) = 1 .. 2
        /\ (<<t.second>> \o <<Zed>>)[1] = t.second /\ (<<t.second>> \o <<Zed>>)[2] = Zed
    BY <2>3
  <2> QED  BY <1>4, <2>2, <2>3, <2>4 DEF w
<1>5. CASE n > 0
  <2>1. FormatTime(t) = <<t.second>> \o (<<Dot>> \o w) \o <<Zed>>
    <3>1. w # <<>>
      BY <1>5
    <3> QED  BY <1>3, <3>1
  <2> DEFINE u == <<Dot>> \o w
  <2>2. /\ u \in Seq(Int) /\ Len(u) = n + 1 /\ u[1] = Dot
        /\ \A i \in 1 .. n : u[i + 1] = w[i]
    BY <1>2 DEF Dot
  <2> HIDE DEF u
  <2> DEFINE v == <<t.second>> \o u
  <2>3. /\ v \in Seq(Int) /\ Len(v) = n + 2 /\ v[1] = t.second /\ v[2] = Dot
        /\ \A i \in 1 .. n : v[i + 2] = w[i]
    <3>1. v \in Seq(Int) /\ Len(v) = n + 2 /\ v[1] = t.second
      BY <1>1, <1>2, <2>2
    <3>2. \A i \in 1 .. n + 1 : v[i + 1] = u[i]
      BY <1>1, <1>2, <2>2
    <3> HIDE DEF v
    <3>3. v[2] = u[1]
      <4>1. 1 \in 1 .. n + 1 /\ 1 + 1 = 2
        BY <1>2
      <4> QED  BY <3>2, <4>1
    <3>4. \A i \in 1 .. n : v[i + 2] = u[i + 1]
      <4>1. \A i \in 1 .. n : i + 1 \in 1 .. n + 1 /\ (i + 1) + 1 = i + 2
        BY <1>2
      <4> QED  BY <3>2, <4>1
    <3> QED  BY <2>2, <3>1, <3>3, <3>4
  <2>4. FormatTime(t) = v \o <<Zed>>
    BY <2>1 DEF v, u
  <2> HIDE DEF v
  <2>5. /\ DOMAIN (v \o <<Zed>>) = 1 .. n + 3
        /\ (v \o <<Zed>>)[n + 3] = Zed
        /\ \A i \in 1 .. n + 2 : (v \o <<Zed>>)[i] = v[i]
    BY <1>2, <2>3
  <2>6. FormatTime(t)[1] = t.second /\ FormatTime(t)[2] = Dot
    BY <1>2, <2>3, <2>4, <2>5
  <2>7. \A i \in 1 .. n : FormatTime(t)[i + 2] = t.fraction[i]
    <3>1. \A i \in 1 .. n : i + 2 \in 1 .. n + 2
      BY <1>2
    <3> QED  BY <1>2, <2>3, <2>4, <2>5, <3>1
  <2> QED  BY <1>5, <2>4, <2>5, <2>6, <2>7 DEF w
<1> QED  BY <1>2, <1>4, <1>5

\* The first digit in which two times of one second differ.
LEMMA FirstDifference ==
  ASSUME NEW a \in Time, NEW b \in Time, Earlier(a, b), ~ (a.second < b.second)
  PROVE  /\ a.second = b.second
         /\ \E m \in 1 .. Width : /\ a.fraction[m] < b.fraction[m]
                                  /\ \A i \in 1 .. m - 1 : a.fraction[i] = b.fraction[i]
<1> DEFINE s == <<a.second>> \o a.fraction
           t == <<b.second>> \o b.fraction
<1>1. /\ a.fraction \in [1 .. Width -> Int] /\ a.second \in Int
      /\ b.fraction \in [1 .. Width -> Int] /\ b.second \in Int /\ Width \in Nat
  <2>1. Digits \subseteq Int /\ Seconds \subseteq Int /\ Width \in Nat
    BY TimesAssumption
  <2>2. /\ a.fraction \in [1 .. Width -> Digits] /\ a.second \in Seconds
        /\ b.fraction \in [1 .. Width -> Digits] /\ b.second \in Seconds
    BY DEF Time
  <2> HIDE DEF s, t
  <2> QED  BY <2>1, <2>2
<1>2. ASSUME NEW x \in Int, NEW g \in [1 .. Width -> Int]
      PROVE  /\ DOMAIN (<<x>> \o g) = 1 .. Width + 1 /\ (<<x>> \o g)[1] = x
             /\ \A i \in 1 .. Width : (<<x>> \o g)[i + 1] = g[i]
  <2>1. g \in Seq(Int) /\ Len(g) = Width
    BY <1>1
  <2> QED  BY <2>1
<1>3. /\ DOMAIN s = 1 .. Width + 1 /\ s[1] = a.second
      /\ \A i \in 1 .. Width : s[i + 1] = a.fraction[i]
  BY <1>1, <1>2
<1>4. /\ DOMAIN t = 1 .. Width + 1 /\ t[1] = b.second
      /\ \A i \in 1 .. Width : t[i + 1] = b.fraction[i]
  BY <1>1, <1>2
<1>5. Before(s, t)
  BY DEF Earlier
<1> HIDE DEF s, t
<1>6. PICK n \in 1 .. Width + 1 : s[n] < t[n] /\ \A i \in 1 .. n - 1 : s[i] = t[i]
  BY <1>3, <1>4, <1>5 DEF Before
<1>7. n # 1
  BY <1>3, <1>4, <1>6
<1>8. a.second = b.second
  <2>1. 1 \in 1 .. n - 1
    BY <1>1, <1>7
  <2> QED  BY <1>3, <1>4, <1>6, <2>1
<1>9. n - 1 \in 1 .. Width /\ (n - 1) + 1 = n
  BY <1>1, <1>7
<1>10. a.fraction[n - 1] < b.fraction[n - 1]
  BY <1>3, <1>4, <1>6, <1>9
<1>11. ASSUME NEW i \in 1 .. (n - 1) - 1 PROVE a.fraction[i] = b.fraction[i]
  <2>1. i \in 1 .. Width /\ i + 1 \in 1 .. n - 1
    BY <1>1, <1>9
  <2> QED  BY <1>3, <1>4, <1>6, <2>1
<1> QED  BY <1>8, <1>9, <1>10, <1>11

\* The first place where two texts differ decides their order.
LEMMA FirstPlaceDecides ==
  ASSUME NEW s, NEW t, NEW k \in Nat, NEW l \in Nat, DOMAIN s = 1 .. k, DOMAIN t = 1 .. l,
         NEW m \in 1 .. k, m <= l, s[m] \in Int, t[m] \in Int, s[m] # t[m],
         \A i \in 1 .. m - 1 : s[i] = t[i] /\ s[i] \in Int
  PROVE  s # t /\ (Before(s, t) <=> s[m] < t[m])
<1>1. m \in DOMAIN t /\ m \in DOMAIN s /\ \A i \in 1 .. m - 1 : i \in DOMAIN s
  OBVIOUS
<1>2. s[m] < t[m] => Before(s, t)
  BY <1>1 DEF Before
<1>3. ASSUME Before(s, t) PROVE s[m] < t[m]
  <2>1. PICK n \in 1 .. l : /\ \A i \in 1 .. n - 1 : i \in DOMAIN s /\ s[i] = t[i]
                            /\ n \in DOMAIN s => s[n] < t[n]
    BY <1>3 DEF Before
  <2>2. CASE n < m
    <3>1. n \in 1 .. m - 1 /\ n \in DOMAIN s
      BY <2>2
    <3>2. s[n] = t[n] /\ s[n] \in Int /\ s[n] < t[n]
      BY <2>1, <3>1
    <3> QED  BY <3>2
  <2>3. CASE m < n
    <3>1. m \in 1 .. n - 1
      BY <2>3
    <3> QED  BY <2>1, <3>1
  <2>4. CASE m = n
    BY <1>1, <2>1, <2>4
  <2> QED  BY <2>2, <2>3, <2>4
<1> QED  BY <1>2, <1>3

\* The text of the older of two times is not before that of the newer if its
\* digits begin the other's, and only then.
LEMMA TextOrder ==
  ASSUME NEW a \in Time, NEW b \in Time, Earlier(a, b)
  PROVE  /\ FormatTime(a) # FormatTime(b)
         /\ Before(FormatTime(a), FormatTime(b)) <=>
              ~ (/\ a.second = b.second
                 /\ IsStrictPrefix(Trimmed(a.fraction), Trimmed(b.fraction)))
<1> DEFINE v == Trimmed(a.fraction)   k == Len(v)   s == FormatTime(a)
           w == Trimmed(b.fraction)   l == Len(w)   t == FormatTime(b)
<1>1. /\ \A i \in 1 .. Width : a.fraction[i] \in 0 .. 9 /\ b.fraction[i] \in 0 .. 9
      /\ a.fraction \in [1 .. Width -> Int] /\ b.fraction \in [1 .. Width -> Int]
      /\ a.second \in Int /\ b.second \in Int /\ Width \in Nat
  <2>1. /\ a.fraction \in [1 .. Width -> Digits] /\ a.second \in Seconds
        /\ b.fraction \in [1 .. Width -> Digits] /\ b.second \in Seconds
    BY DEF Time
  <2>2. Digits \subseteq 0 .. 9 /\ Digits \subseteq Int /\ Seconds \subseteq Int /\ Width \in Nat
    BY TimesAssumption
  <2> HIDE DEF v, w, s, t
  <2> QED  BY <2>1, <2>2
<1>2. /\ v \in Seq(Int) /\ k \in 0 .. Width
      /\ \A i \in 1 .. k : v[i] = a.fraction[i]
      /\ \A i \in 1 .. Width : a.fraction[i] # 0 => i <= k
  BY <1>1, TrimmedDigits
<1>3. /\ w \in Seq(Int) /\ l \in 0 .. Width
      /\ \A i \in 1 .. l : w[i] = b.fraction[i]
      /\ \A i \in 1 .. Width : b.fraction[i] # 0 => i <= l
  BY <1>1, TrimmedDigits
<1>4. /\ s[1] = a.second
      /\ k = 0 => DOMAIN s = 1 .. 2 /\ s[2] = Zed
      /\ k > 0 => /\ DOMAIN s = 1 .. k + 3 /\ s[2] = Dot /\ s[k + 3] = Zed
                  /\ \A i \in 1 .. k : s[i + 2] = a.fraction[i]
  BY TextOf
<1>5. /\ t[1] = b.second
      /\ l = 0 => DOMAIN t = 1 .. 2 /\ t[2] = Zed
      /\ l > 0 => /\ DOMAIN t = 1 .. l + 3 /\ t[2] = Dot /\ t[l + 3] = Zed
                  /\ \A i \in 1 .. l : t[i + 2] = b.fraction[i]
  BY TextOf
<1> DEFINE p == IF k = 0 THEN 2 ELSE k + 3
           q == IF l = 0 THEN 2 ELSE l + 3
<1> HIDE DEF v, w, s, t, k, l
<1>6. k \in Nat /\ l \in Nat /\ k <= Width /\ l <= Width /\ Width \in Nat
  BY <1>1, <1>2, <1>3
<1>7. p \in Nat /\ q \in Nat /\ p >= 2 /\ q >= 2 /\ DOMAIN s = 1 .. p /\ DOMAIN t = 1 .. q
  <2>1. p \in Nat /\ q \in Nat /\ p >= 2 /\ q >= 2
    BY <1>6
  <2>2. k = 0 \/ k > 0
    BY <1>6
  <2>3. l = 0 \/ l > 0
    BY <1>6
  <2>4. DOMAIN s = 1 .. p
    BY <1>4, <1>6, <2>2
  <2>5. DOMAIN t = 1 .. q
    BY <1>5, <1>6, <2>3
  <2> QED  BY <2>1, <2>4, <2>5
<1>8. CASE a.second < b.second
  <2>1. 1 \in 1 .. p /\ 1 <= q /\ s[1] \in Int /\ t[1] \in Int /\ s[1] # t[1] /\ s[1] < t[1]
    BY <1>1, <1>4, <1>5, <1>7, <1>8
  <2>2. \A i \in 1 .. 1 - 1 : s[i] = t[i] /\ s[i] \in Int
    OBVIOUS
  <2>3. s # t /\ Before(s, t)
    <3> HIDE DEF p, q
    <3> QED  BY <1>7, <2>1, <2>2, FirstPlaceDecides
  <2>4. a.second # b.second
    BY <1>1, <1>8
  <2> QED  BY <2>3, <2>4 DEF s, t
<1>9. CASE ~ (a.second < b.second)
  <2>1. a.second = b.second
    BY <1>9, FirstDifference
  <2>2. PICK m \in 1 .. Width : /\ a.fraction[m] < b.fraction[m]
                                /\ \A i \in 1 .. m - 1 : a.fraction[i] = b.fraction[i]
    BY <1>9, FirstDifference
  <2>3. m <= l /\ l > 0 /\ m \in Nat
    <3>1. b.fraction[m] # 0
      <4>1. a.fraction[m] \in 0 .. 9 /\ b.fraction[m] \in 0 .. 9
        BY <1>1
      <4> QED  BY <2>2, <4>1
    <3> QED  BY <1>1, <1>3, <1>6, <3>1
  <2>4. s[1] = t[1] /\ s[1] \in Int /\ t[2] = Dot
    BY <1>1, <1>4, <1>5, <2>1, <2>3
  <2>5. IsStrictPrefix(v, w) <=> v # w /\ k <= l /\ \A i \in 1 .. k : v[i] = w[i]
    <3>1. IsPrefix(v, w) <=> Len(v) <= Len(w) /\ \A i \in 1 .. Len(v) : v[i] = w[i]
      <4>1. v \in Seq(Int) /\ w \in Seq(Int)
        BY <1>2, <1>3
      <4> QED  BY <4>1, PrefixOf
    <3> QED  BY <3>1 DEF IsStrictPrefix, k, l
  <2>6. CASE k = 0
    <3>1. 2 \in 1 .. p /\ 2 <= q /\ s[2] = Zed /\ s[2] \in Int /\ t[2] \in Int /\ s[2] # t[2]
          /\ ~ (s[2] < t[2])
      BY <1>4, <1>7, <2>4, <2>6 DEF Dot, Zed
    <3>2. \A i \in 1 .. 2 - 1 : s[i] = t[i] /\ s[i] \in Int
      BY <2>4
    <3>3. s # t /\ ~ Before(s, t)
      <4> HIDE DEF p, q
      <4> QED  BY <1>7, <3>1, <3>2, FirstPlaceDecides
    <3>4. IsStrictPrefix(v, w)
      <4>1. v # w
        BY <2>3, <2>6 DEF k, l
      <4>2. k <= l /\ \A i \in 1 .. k : v[i] = w[i]
        BY <2>3, <1>6, <2>6
      <4> QED  BY <2>5, <4>1, <4>2
    <3> QED  BY <2>1, <3>3, <3>4 DEF s, t, v, w
  <2>7. CASE k > 0 /\ k < m
    <3>1. p = k + 3 /\ q = l + 3 /\ k + 3 \in 1 .. p /\ k + 3 <= q
      BY <1>6, <2>3, <2>7
    <3>2. s[k + 3] = Zed /\ t[k + 3] = b.fraction[k + 1] /\ t[k + 3] \in 0 .. 9
      <4>1. k + 1 \in 1 .. l /\ k + 1 \in 1 .. Width /\ (k + 1) + 2 = k + 3
        BY <1>6, <2>3, <2>7
      <4> QED  BY <1>1, <1>4, <1>5, <2>3, <2>7, <4>1
    <3>3. ASSUME NEW i \in 1 .. (k + 3) - 1 PROVE s[i] = t[i] /\ s[i] \in Int
      <4>1. CASE i <= 2
        BY <1>4, <2>4, <2>7, <4>1 DEF Dot
      <4>2. CASE i > 2
        <5>1. i - 2 \in 1 .. k /\ i - 2 \in 1 .. l /\ i - 2 \in 1 .. m - 1 /\ (i - 2) + 2 = i
              /\ i - 2 \in 1 .. Width
          BY <1>6, <2>3, <2>7, <4>2
        <5>2. s[i] = a.fraction[i - 2] /\ t[i] = b.fraction[i - 2]
          BY <1>4, <1>5, <2>3, <2>7, <5>1
        <5>3. a.fraction[i - 2] = b.fraction[i - 2] /\ a.fraction[i - 2] \in 0 .. 9
          BY <1>1, <2>2, <5>1
        <5> QED  BY <5>2, <5>3
      <4> QED  BY <1>6, <4>1, <4>2
    <3>4. s # t /\ ~ Before(s, t)
      <4>1. /\ s[k + 3] \in Int /\ t[k + 3] \in Int /\ s[k + 3] # t[k + 3]
            /\ ~ (s[k + 3] < t[k + 3])
        BY <3>2 DEF Zed
      <4>2. p \in Nat /\ q \in Nat /\ DOMAIN s = 1 .. p /\ DOMAIN t = 1 .. q
        BY <1>7
      <4> HIDE DEF p, q
      <4> QED  BY <3>1, <3>3, <4>1, <4>2, FirstPlaceDecides
    <3>5. IsStrictPrefix(v, w)
      <4>1. v # w /\ k <= l
        <5>1. k # l /\ k <= l
          BY <1>6, <2>3, <2>7
        <5> QED  BY <5>1 DEF k, l
      <4>2. ASSUME NEW i \in 1 .. k PROVE v[i] = w[i]
        <5>1. i \in 1 .. l /\ i \in 1 .. m - 1
          BY <1>6, <2>3, <2>7
        <5> QED  BY <1>2, <1>3, <2>2, <5>1
      <4> QED  BY <2>5, <4>1, <4>2
    <3> QED  BY <2>1, <3>4, <3>5 DEF s, t, v, w
  <2>8. CASE k >= m
    <3>0. k > 0 /\ p = k + 3 /\ q = l + 3 /\ m + 2 \in 1 .. p /\ m + 2 <= q
      BY <1>6, <2>3, <2>8
    <3>1. s[m + 2] = a.fraction[m] /\ t[m + 2] = b.fraction[m]
      <4>1. m \in 1 .. k /\ m \in 1 .. l
        BY <1>6, <2>3, <2>8
      <4> QED  BY <1>4, <1>5, <2>3, <3>0, <4>1
    <3>2. ASSUME NEW i \in 1 .. (m + 2) - 1 PROVE s[i] = t[i] /\ s[i] \in Int
      <4>1. CASE i <= 2
        BY <1>4, <2>4, <3>0, <4>1 DEF Dot
      <4>2. CASE i > 2
        <5>1. i - 2 \in 1 .. k /\ i - 2 \in 1 .. l /\ i - 2 \in 1 .. m - 1 /\ (i - 2) + 2 = i
              /\ i - 2 \in 1 .. Width
          BY <1>6, <2>3, <2>8, <4>2
        <5>2. s[i] = a.fraction[i - 2] /\ t[i] = b.fraction[i - 2]
          BY <1>4, <1>5, <2>3, <3>0, <5>1
        <5>3. a.fraction[i - 2] = b.fraction[i - 2] /\ a.fraction[i - 2] \in 0 .. 9
          BY <1>1, <2>2, <5>1
        <5> QED  BY <5>2, <5>3
      <4> QED  BY <2>3, <4>1, <4>2
    <3>3. s # t /\ Before(s, t)
      <4>1. s[m + 2] \in Int /\ t[m + 2] \in Int /\ s[m + 2] # t[m + 2] /\ s[m + 2] < t[m + 2]
        BY <1>1, <2>2, <3>1
      <4>2. p \in Nat /\ q \in Nat /\ DOMAIN s = 1 .. p /\ DOMAIN t = 1 .. q
        BY <1>7
      <4> HIDE DEF p, q
      <4> QED  BY <3>0, <3>2, <4>1, <4>2, FirstPlaceDecides
    <3>4. ~ IsStrictPrefix(v, w)
      <4>1. m \in 1 .. k /\ m \in 1 .. l
        BY <1>6, <2>3, <2>8
      <4>2. v[m] = a.fraction[m] /\ w[m] = b.fraction[m] /\ a.fraction[m] # b.fraction[m]
        <5>1. a.fraction[m] \in 0 .. 9 /\ b.fraction[m] \in 0 .. 9
          BY <1>1
        <5>2. a.fraction[m] # b.fraction[m]
          BY <2>2, <5>1
        <5> QED  BY <1>2, <1>3, <4>1, <5>2
      <4> QED  BY <2>5, <4>1, <4>2
    <3> QED  BY <3>3, <3>4 DEF s, t, v, w
  <2> QED  BY <1>6, <2>3, <2>6, <2>7, <2>8
<1> QED  BY <1>8, <1>9

LEMMA TimesInvariant == TimesSpec => []TimesIInv
<1> USE DEF LeasesOlder
<1>1. TimesInit => TimesIInv
  BY DEF TimesInit, TimesIInv
<1>2. TimesIInv /\ [Write \/ Lease]_timesVars => TimesIInv'
  <2> SUFFICES ASSUME TimesIInv, [Write \/ Lease]_timesVars PROVE TimesIInv'
    OBVIOUS
  <2>0. older' = older /\ newer' = newer
    BY DEF Write, Lease, timesVars
  <2>1. CASE UNCHANGED timesVars
    BY <2>1 DEF timesVars, TimesIInv, FormatTime, Trimmed, Earlier, Before, Time
  <2>2. CASE Write
    <3>1. texts' = <<FormatTime(older), FormatTime(newer)>> /\ leased' = leased
      BY <2>2 DEF Write
    <3> QED  BY <2>0, <3>1 DEF TimesIInv, FormatTime, Trimmed, Earlier, Before, Time
  <2>3. CASE Lease
    <3>1. texts = <<FormatTime(older), FormatTime(newer)>> /\ texts' = texts
      BY <2>3 DEF Lease, TimesIInv
    <3>2. older \in Time /\ newer \in Time /\ Earlier(older, newer)
      BY DEF TimesIInv
    <3>3. /\ FormatTime(older) # FormatTime(newer)
          /\ Before(FormatTime(older), FormatTime(newer)) <=>
               ~ (/\ older.second = newer.second
                  /\ IsStrictPrefix(Trimmed(older.fraction), Trimmed(newer.fraction)))
      BY <3>2, TextOrder
    <3>4. texts[1] = FormatTime(older) /\ texts[2] = FormatTime(newer)
      BY <3>1
    <3>5. leased' = IF /\ older.second = newer.second
                       /\ IsStrictPrefix(Trimmed(older.fraction), Trimmed(newer.fraction))
                    THEN "newer" ELSE "older"
      BY <2>3, <3>3, <3>4 DEF Lease
    <3> QED  BY <2>0, <3>1, <3>2, <3>5
             DEF TimesIInv, FormatTime, Trimmed, Earlier, Before, Time
  <2> QED  BY <2>1, <2>2, <2>3
<1> QED  BY <1>1, <1>2, PTL DEF TimesSpec

\* However many digits a time has: the older job is leased first, but for two of
\* one second whose written digits begin one another.
THEOREM LeaseOrder == TimesSpec => []LeasesOlder
BY TimesInvariant, PTL DEF TimesIInv
=============================================================================
