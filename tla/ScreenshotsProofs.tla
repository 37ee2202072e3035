-------------------------- MODULE ScreenshotsProofs --------------------------
(***************************************************************************)
(* Proofs about Screenshots, for any files with any names, any number of   *)
(* reviews and any limit on the pictures of one.                           *)
(***************************************************************************)
EXTENDS Screenshots, ListLemmas, FiniteSetTheorems

-----------------------------------------------------------------------------
(* Names                                                                   *)

Letters == Kept \cup {"-"}
NameLetters == Letters \cup {"_", "screenshot"}

\* A character is added to a name in letters of a name.
LEMMA AddLetter ==
  ASSUME NEW s \in Seq(Letters), NEW c
  PROVE  Add(s, c) \in Seq(Letters)
<1>1. CASE c \in Kept
  <2>1. Lower[c] \in Letters
    BY <1>1, ScreenshotsAssumption DEF Letters
  <2>2. Append(s, Lower[c]) \in Seq(Letters)
    BY <2>1, AppendProperties
  <2> QED  BY <1>1, <2>2 DEF Add
<1>2. CASE c \notin Kept
  <2>1. "-" \in Letters
    BY DEF Letters
  <2>2. Append(s, "-") \in Seq(Letters)
    BY <2>1, AppendProperties
  <2> QED  BY <1>2, <2>2 DEF Add
<1> QED  BY <1>1, <1>2

\* So is a whole name.
LEMMA DashedLetters ==
  ASSUME NEW stem, Len(stem) \in Nat
  PROVE  Dashed(stem) \in Seq(Letters)
<1> DEFINE N == Len(stem)
           A == Seq(Letters)
           F == [i \in 1 .. N |-> [s \in A |-> Add(s, stem[i])]]
           B(g) == [n \in 0 .. N |-> IF n = 0 THEN <<>> ELSE Add(g[n - 1], stem[n])]
<1>1. F \in StepsIn(A, N)
  BY AddLetter DEF StepsIn
<1>2. <<>> \in A /\ N \in Nat
  BY EmptySeq
<1>3. PICK f \in [0 .. N -> A] : f[0] = <<>> /\ Follows(f, F, N)
  <2> HIDE DEF A, F, N
  <2> QED  BY <1>1, <1>2, Recursion
<1>4. \A i \in 1 .. N : f[i] = Add(f[i - 1], stem[i])
  <2>1. \A i \in 1 .. N : i - 1 \in 0 .. N
    BY <1>2
  <2> QED  BY <1>3, <2>1 DEF Follows
<1>5. f = B(f)
  <2>1. ASSUME NEW n \in 0 .. N PROVE f[n] = IF n = 0 THEN <<>> ELSE Add(f[n - 1], stem[n])
    BY <1>2, <1>3, <1>4
  <2>2. f = [n \in 0 .. N |-> f[n]]
    OBVIOUS
  <2> QED  BY <2>1, <2>2
<1>6. PICK g : g = B(g) /\ Dashed(stem) = g[N]
  <2>1. \E g : g = B(g)
    BY <1>5
  <2>2. \E g : g = B(g) /\ Dashed(stem) = g[N]
    BY <2>1, Zenon DEF Dashed
  <2> QED  BY <2>2
<1>7. \A n \in 0 .. N : g[n] = IF n = 0 THEN <<>> ELSE Add(g[n - 1], stem[n])
  BY <1>6, Zenon
<1> DEFINE T == {n \in Nat : n <= N => g[n] \in A}
<1>8. 0 \in T
  <2>1. g[0] = <<>>
    BY <1>2, <1>7
  <2> QED  BY <1>2, <2>1
<1>9. ASSUME NEW n \in T PROVE n + 1 \in T
  <2> SUFFICES ASSUME n + 1 <= N PROVE g[n + 1] \in A
    OBVIOUS
  <2>1. g[n] \in A /\ n + 1 \in 0 .. N /\ n + 1 # 0 /\ (n + 1) - 1 = n
    OBVIOUS
  <2>2. g[n + 1] = Add(g[n], stem[n + 1])
    BY <1>7, <2>1
  <2> QED  BY <2>1, <2>2, AddLetter
<1>10. T = Nat
  <2> HIDE DEF T
  <2>1. T \subseteq Nat
    BY DEF T
  <2> QED  BY <1>8, <1>9, <2>1, Induction
<1>11. N \in T
  BY <1>2, <1>10
<1> QED  BY <1>6, <1>11

\* A cleaned name is not empty, and has the letters that handleArtifact accepts.
LEMMA CleanLetters ==
  ASSUME NEW stem, Len(stem) \in Nat
  PROVE  Clean(stem) \in Seq(NameLetters) /\ Clean(stem) # <<>>
<1> DEFINE clean == Dashed(stem)
           trimmed == IF clean # <<>> /\ Last(clean) = "-" THEN Front(clean) ELSE clean
<1>1. clean \in Seq(Letters)
  BY DashedLetters
<1>2. trimmed \in Seq(Letters)
  <2> HIDE DEF clean
  <2>1. Front(clean) \in Seq(Letters)
    BY <1>1 DEF Front
  <2> QED  BY <1>1, <2>1
<1>3. Seq(Letters) \subseteq Seq(NameLetters) /\ <<"screenshot">> \in Seq(NameLetters)
      /\ <<"screenshot">> # <<>>
  <2>1. Letters \subseteq NameLetters /\ "screenshot" \in NameLetters
    BY DEF NameLetters
  <2>2. \A s \in Seq(Letters) : s \in Seq(NameLetters)
    BY <2>1, SeqMonotonic
  <2> QED  BY <2>1, <2>2
<1>4. Clean(stem) = IF trimmed = <<>> THEN <<"screenshot">> ELSE trimmed
  BY DEF Clean
<1> HIDE DEF trimmed
<1> QED  BY <1>2, <1>3, <1>4

Numbers == 1 .. Rounds * Len(Files)

\* Names with different numbers are different, and have the same letters.
LEMMA NumberedNames ==
  ASSUME NEW stem \in Seq(NameLetters), stem # <<>>, NEW n \in Numbers
  PROVE  /\ Numbered(stem, n) \in Seq(NameLetters) /\ Numbered(stem, n) # <<>>
         /\ \A m \in Numbers : Numbered(stem, m) = Numbered(stem, n) => m = n
<1> DEFINE tail(k) == <<"-", ToString(k)>>
<1>1. ASSUME NEW k \in Numbers, k # 1
      PROVE  /\ ToString(k) \in Kept
             /\ \A m \in Numbers : m # 1 /\ ToString(m) = ToString(k) => m = k
  <2>1. \A m \in Numbers : m # 1 => m \in 2 .. Rounds * Len(Files)
    BY DEF Numbers
  <2> QED  BY <1>1, <2>1, ScreenshotsAssumption
<1>2. ASSUME NEW k \in Numbers, k # 1
      PROVE  /\ Numbered(stem, k) \in Seq(NameLetters) /\ Len(Numbered(stem, k)) = Len(stem) + 2
             /\ Numbered(stem, k)[Len(stem) + 2] = ToString(k)
  <2>1. "-" \in NameLetters /\ ToString(k) \in NameLetters
    BY <1>1, <1>2 DEF NameLetters, Letters
  <2> DEFINE d == ToString(k)
  <2> HIDE DEF d
  <2>2. /\ stem \o <<"-", d>> \in Seq(NameLetters) /\ Len(stem \o <<"-", d>>) = Len(stem) + 2
        /\ (stem \o <<"-", d>>)[Len(stem) + 2] = d
    BY <2>1 DEF d
  <2>3. Numbered(stem, k) = stem \o <<"-", d>>
    BY <1>2 DEF Numbered, d
  <2> QED  BY <2>2, <2>3 DEF d
<1>3. Numbered(stem, 1) = stem
  BY DEF Numbered
<1>4. Len(stem) \in Nat /\ Len(stem) # Len(stem) + 2
  OBVIOUS
<1>5. Numbered(stem, n) \in Seq(NameLetters) /\ Numbered(stem, n) # <<>>
  BY <1>2, <1>3, <1>4
<1>6. ASSUME NEW m \in Numbers, Numbered(stem, m) = Numbered(stem, n) PROVE m = n
  <2>1. CASE m = 1 /\ n # 1
    BY <1>2, <1>3, <1>4, <1>6, <2>1
  <2>2. CASE m # 1 /\ n = 1
    BY <1>2, <1>3, <1>4, <1>6, <2>2
  <2>3. CASE m # 1 /\ n # 1
    <3>1. ToString(m) = ToString(n)
      BY <1>2, <1>6, <2>3
    <3> QED  BY <1>1, <2>3, <3>1
  <2> QED  BY <2>1, <2>2, <2>3
<1> QED  BY <1>5, <1>6

-----------------------------------------------------------------------------
(* Files                                                                   *)

LEMMA FileTypes ==
  /\ Len(Files) \in Nat /\ DOMAIN Files = 1 .. Len(Files)
  /\ \A i \in DOMAIN Files : Len(Files[i].stem) \in Nat
<1> DEFINE File == [stem: Seq(STRING), ext: STRING, picture: BOOLEAN]
<1>1. Files \in Seq(File)
  BY ScreenshotsAssumption
<1>2. \A f \in File : Len(f.stem) \in Nat
  <2>1. \A f \in File : f.stem \in Seq(STRING)
    OBVIOUS
  <2> QED  BY <2>1, LenProperties
<1> HIDE DEF File
<1> QED  BY <1>1, <1>2, LenProperties, ElementOfSeq

\* There are not more pictures than files.
LEMMA SomeFiles ==
  ASSUME NEW S, S \subseteq DOMAIN Files
  PROVE  /\ S \in SUBSET Nat /\ IsFiniteSet(S)
         /\ Cardinality(S) \in Nat /\ Cardinality(S) <= Len(Files)
         /\ S # {} => Cardinality(S) # 0
<1> DEFINE N == Len(Files)
<1>1. N \in Nat /\ S \in SUBSET (1 .. N)
  BY FileTypes
<1> HIDE DEF N
<1>2. IsFiniteSet(1 .. N) /\ Cardinality(1 .. N) = N
  BY <1>1, FS_Interval
<1>3. IsFiniteSet(S) /\ Cardinality(S) <= N
  BY <1>1, <1>2, FS_Subset
<1>4. Cardinality(S) \in Nat /\ (S # {} => Cardinality(S) # 0)
  BY <1>3, FS_CardinalityType, FS_EmptySet
<1> QED  BY <1>1, <1>3, <1>4 DEF N

-----------------------------------------------------------------------------
(* A free name                                                             *)

LEMMA Product ==
  ASSUME NEW a \in Nat, NEW b \in Nat, NEW c \in Nat, a <= b
  PROVE  a * c <= b * c /\ (a + 1) * c = a * c + c /\ a * c \in Nat
OBVIOUS

\* The names that are used are among those that are taken.
LEMMA UsedNames ==
  ASSUME ShotsTypeOK
  PROVE  /\ IsFiniteSet(used) /\ Cardinality(used) \in Nat
         /\ IsFiniteSet(Taken) /\ Cardinality(Taken) \in Nat
         /\ Cardinality(used) <= Cardinality(Taken)
<1>1. IsFiniteSet(Taken) /\ used \in SUBSET Taken
  BY DEF ShotsTypeOK, Taken
<1> QED  BY <1>1, FS_Subset, FS_CardinalityType

\* There is a number for one name more than are used.
LEMMA EnoughNumbers ==
  ASSUME ShotsTypeOK, NamesOK, staged # {}
  PROVE  /\ Cardinality(used) \in Nat
         /\ 1 .. Cardinality(used) + 1 \subseteq Numbers
<1>1. Len(Files) \in Nat /\ round \in Nat /\ Rounds \in Nat /\ round <= Rounds
  BY ScreenshotsAssumption, FileTypes DEF ShotsTypeOK
<1>3. Cardinality(staged) \in Nat /\ Cardinality(staged) # 0
  BY SomeFiles DEF ShotsTypeOK
<1>4. /\ Cardinality(used) \in Nat /\ Cardinality(Taken) \in Nat
      /\ Cardinality(used) <= Cardinality(Taken)
  BY UsedNames
<1>5. round * Len(Files) <= Rounds * Len(Files) /\ round * Len(Files) \in Nat
      /\ Rounds * Len(Files) \in Nat
  BY <1>1, Product
<1>6. Cardinality(Taken) + Cardinality(staged) <= round * Len(Files)
  BY DEF NamesOK
<1> QED  BY <1>3, <1>4, <1>5, <1>6 DEF Numbers

\* The name of a picture is free, and handleArtifact accepts it.
LEMMA NewName ==
  ASSUME ShotsTypeOK, NamesOK, staged # {}, NEW i \in DOMAIN Files, Publishable(i)
  PROVE  PublicName(i) \notin used /\ SafeFile(PublicName(i))
<1> DEFINE stem == Clean(Files[i].stem)
           Name(n) == [stem |-> Numbered(stem, n), ext |-> Files[i].ext]
           c == Cardinality(used)
           free == {n \in 1 .. c + 1 : Name(n) \notin used}
<1>1. stem \in Seq(NameLetters) /\ stem # <<>>
  <2>1. Len(Files[i].stem) \in Nat
    BY FileTypes
  <2> QED  BY <2>1, CleanLetters
<1> HIDE DEF stem
<1>2. c \in Nat /\ 1 .. c + 1 \subseteq Numbers /\ IsFiniteSet(used)
  BY EnoughNumbers, UsedNames
<1> HIDE DEF c
<1>3. \A n \in 1 .. c + 1 : /\ Numbered(stem, n) \in Seq(NameLetters) /\ Numbered(stem, n) # <<>>
                            /\ \A m \in 1 .. c + 1 : Numbered(stem, m) = Numbered(stem, n) => m = n
  BY <1>1, <1>2, NumberedNames
<1>4. free # {}
  <2> SUFFICES ASSUME \A n \in 1 .. c + 1 : Name(n) \in used PROVE FALSE
    OBVIOUS
  <2> DEFINE f == [n \in 1 .. c + 1 |-> Name(n)]
  <2>1. f \in [1 .. c + 1 -> used]
    OBVIOUS
  <2>2. IsFiniteSet(1 .. c + 1) /\ Cardinality(1 .. c + 1) = c + 1
    BY <1>2, FS_Interval
  <2>3. Cardinality(used) < Cardinality(1 .. c + 1)
    BY <1>2, <2>2 DEF c
  <2>4. PICK n, m \in 1 .. c + 1 : n # m /\ f[n] = f[m]
    <3> HIDE DEF f
    <3> QED  BY <1>2, <2>1, <2>2, <2>3, FS_PigeonHole
  <2>5. Name(n) = Name(m)
    BY <2>4
  <2>6. Numbered(stem, n) = Numbered(stem, m)
    BY <2>5
  <2> QED  BY <1>3, <2>4, <2>6
<1>5. Min(free) \in free
  <2>1. free \in SUBSET Nat
    BY <1>2
  <2> HIDE DEF free
  <2> QED  BY <1>4, <2>1, MinOfSet
<1>6. PublicName(i) = Name(Min(free))
  BY DEF PublicName, stem, c
<1> DEFINE n == Min(free)
<1>7. n \in 1 .. c + 1 /\ Name(n) \notin used
  BY <1>5
<1> HIDE DEF n, free
<1>8. PublicName(i) = [stem |-> Numbered(stem, n), ext |-> Files[i].ext]
  BY <1>6 DEF n
<1>9. ToSet(Numbered(stem, n)) \subseteq NameLetters /\ Numbered(stem, n) # <<>>
  <2>1. Numbered(stem, n) \in Seq(NameLetters)
    BY <1>3, <1>7
  <2>2. \A k \in DOMAIN Numbered(stem, n) : Numbered(stem, n)[k] \in NameLetters
    BY <2>1
  <2> QED  BY <1>3, <1>7, <2>2 DEF ToSet
<1>10. SafeFile(PublicName(i))
  <2> DEFINE name == PublicName(i)
  <2>1. name.stem = Numbered(stem, n) /\ name.ext = Files[i].ext
    BY <1>8
  <2> HIDE DEF name
  <2>2. NameLetters = Kept \cup {"-", "_", "screenshot"}
    BY DEF NameLetters, Letters
  <2>3. Files[i].ext \in Extensions
    BY DEF Publishable
  <2>4. SafeFile(name)
    BY <1>9, <2>1, <2>2, <2>3 DEF SafeFile
  <2> QED  BY <2>4 DEF name
<1> QED  BY <1>7, <1>8, <1>10

-----------------------------------------------------------------------------
(* What the actions have in common                                         *)

\* The next file.
LEMMA NextFile ==
  ASSUME ShotsTypeOK, NamesOK, staged # {}
  PROVE  /\ Min(staged) \in staged /\ Min(staged) \in DOMAIN Files
         /\ Cardinality(staged \ {Min(staged)}) = Cardinality(staged) - 1
         /\ Cardinality(staged) \in Nat /\ round \in 1 .. Rounds
<1>1. /\ staged \in SUBSET Nat /\ IsFiniteSet(staged)
      /\ Cardinality(staged) \in Nat /\ Cardinality(staged) # 0
  BY SomeFiles DEF ShotsTypeOK
<1>2. Min(staged) \in staged
  BY <1>1, MinOfSet
<1>3. Cardinality(staged \ {Min(staged)}) = Cardinality(staged) - 1
  BY <1>1, <1>2, FS_RemoveElement
<1>4. round # 0
  <2> SUFFICES ASSUME round = 0 PROVE FALSE
    OBVIOUS
  <2>1. Cardinality(Taken) \in Nat
    BY UsedNames
  <2>2. 0 * Len(Files) = 0
    BY FileTypes
  <2> QED  BY <1>1, <2>1, <2>2 DEF NamesOK
<1> QED  BY <1>1, <1>2, <1>3, <1>4 DEF ShotsTypeOK

\* A file is added under a name that was free.
LEMMA FileAdded ==
  ASSUME ShotsTypeOK, NEW name, name \notin DOMAIN public,
         NEW content \in Content, public' = WithFile(name, content)
  PROVE  /\ DOMAIN public' = DOMAIN public \cup {name}
         /\ public' \in [DOMAIN public' -> Content]
         /\ public'[name] = content
         /\ \A n \in DOMAIN public : n # name /\ public'[n] = public[n]
<1>1. DOMAIN public' = DOMAIN public \cup {name}
  BY DEF WithFile
<1>2. \A n \in DOMAIN public \cup {name} : public'[n] = IF n = name THEN content ELSE public[n]
  BY DEF WithFile
<1>3. \A n \in DOMAIN public : public[n] \in Content
  BY DEF ShotsTypeOK
<1>4. public' = [n \in DOMAIN public' |-> public'[n]]
  BY DEF WithFile
<1> QED  BY <1>1, <1>2, <1>3, <1>4

\* The names that are taken, when the next file has one.
LEMMA NameUsed ==
  ASSUME ShotsTypeOK, NamesOK, staged # {}, NEW name,
         Taken' \subseteq Taken \cup {name}, staged' = staged \ {Min(staged)}, round' = round
  PROVE  /\ IsFiniteSet(Taken')
         /\ Cardinality(Taken') + Cardinality(staged') <= round' * Len(Files)
<1> DEFINE more == Taken \cup {name}
<1>1. /\ IsFiniteSet(more) /\ Cardinality(more) \in Nat
      /\ Cardinality(more) <= Cardinality(Taken) + 1 /\ Cardinality(Taken) \in Nat
  <2>1. IsFiniteSet(Taken) /\ Cardinality(Taken) \in Nat
    BY UsedNames
  <2>2. IsFiniteSet(more) /\ Cardinality(more) = IF name \in Taken THEN Cardinality(Taken)
                                                 ELSE Cardinality(Taken) + 1
    BY <2>1, FS_AddElement
  <2> QED  BY <2>1, <2>2
<1>2. IsFiniteSet(Taken') /\ Cardinality(Taken') \in Nat /\ Cardinality(Taken') <= Cardinality(more)
  <2>1. Taken' \in SUBSET more
    OBVIOUS
  <2> HIDE DEF more
  <2> QED  BY <1>1, <2>1, FS_Subset, FS_CardinalityType
<1> HIDE DEF more
<1>3. Cardinality(staged') = Cardinality(staged) - 1 /\ Cardinality(staged) \in Nat
  BY NextFile
<1>4. Cardinality(Taken) + Cardinality(staged) <= round * Len(Files)
  BY DEF NamesOK
<1>5. round * Len(Files) \in Nat /\ round' * Len(Files) = round * Len(Files)
  BY FileTypes, ScreenshotsAssumption DEF ShotsTypeOK
<1> HIDE DEF NamesOK
<1> QED  BY <1>1, <1>2, <1>3, <1>4, <1>5

-----------------------------------------------------------------------------
(* The invariant                                                           *)

LEMMA ShotsInitInv == ShotsInit => ShotsIInv
<1> SUFFICES ASSUME ShotsInit PROVE ShotsIInv
  OBVIOUS
<1>1. /\ Rounds \in Nat /\ MaxShots \in Nat /\ Len(Files) \in Nat
      /\ IsFiniteSet({}) /\ Cardinality({}) = 0 /\ 0 * Len(Files) = 0
  BY ScreenshotsAssumption, FileTypes, FS_EmptySet
<1>2. DOMAIN public = {} /\ Taken = {} /\ public \in [DOMAIN public -> Content]
  BY DEF ShotsInit, Empty, Taken
<1>3. Shown = {}
  BY DEF ShotsInit, Shown
<1>4. ShotsTypeOK
  <2>1. round \in 0 .. Rounds /\ count \in 0 .. MaxShots
    BY ScreenshotsAssumption DEF ShotsInit
  <2>4. faulty \in BOOLEAN
    BY DEF ShotsInit
  <2>2. staged \subseteq DOMAIN Files /\ due \subseteq DOMAIN Files /\ IsFiniteSet(Taken)
    BY <1>1, <1>2 DEF ShotsInit
  <2>3. \A l \in links : l.picture \in Picture
    BY DEF ShotsInit
  <2> QED  BY <1>2, <2>1, <2>2, <2>3, <2>4 DEF ShotsTypeOK
<1>5. NamesOK
  BY <1>1, <1>2 DEF ShotsInit, NamesOK, LinksAreServed
<1>6. ShownOK
  BY <1>1, <1>3 DEF ShotsInit, ShownOK
<1> QED  BY <1>4, <1>5, <1>6 DEF ShotsIInv

\* A review begins, with its files or none to look at.
LEMMA ReviewInv ==
  ASSUME ShotsIInv, NEW files \in SUBSET DOMAIN Files, Review(files),
         staged' = files \/ (staged' = {} /\ faulty' = TRUE),
         used' \subseteq Taken,
         faulty' = TRUE \/ (faulty' = FALSE /\ used' = DOMAIN public)
  PROVE  ShotsIInv'
<1>1. /\ ShotsTypeOK /\ NamesOK /\ ShownOK
      /\ staged = {} /\ round < Rounds /\ round' = round + 1
      /\ staged' \subseteq files
      /\ count' = 0 /\ due' = {i \in files : Publishable(i)}
      /\ public' = public /\ links' = links
  BY DEF ShotsIInv, Review
<1>2. /\ round \in 0 .. Rounds /\ Rounds \in Nat /\ MaxShots \in Nat /\ Len(Files) \in Nat
      /\ \A l \in links : l.picture.round <= round /\ l.picture.round \in Nat
  BY <1>1, ScreenshotsAssumption, FileTypes DEF ShotsTypeOK, ShownOK, Picture
<1>3. IsFiniteSet(Taken') /\ Cardinality(Taken') <= Cardinality(Taken)
      /\ Cardinality(Taken) \in Nat /\ Cardinality(Taken') \in Nat
  <2>1. IsFiniteSet(Taken) /\ Taken' \in SUBSET Taken
    BY <1>1 DEF ShotsTypeOK, Taken
  <2> QED  BY <2>1, FS_Subset, FS_CardinalityType
<1>4. ShotsTypeOK'
  <2>1. round' \in 0 .. Rounds /\ count' \in 0 .. MaxShots
    <3>1. round' = round + 1 /\ round < Rounds /\ count' = 0
      BY <1>1
    <3> QED  BY <1>2, <3>1
  <2>2. staged' \subseteq DOMAIN Files /\ due' \subseteq DOMAIN Files /\ faulty' \in BOOLEAN
    BY <1>1
  <2> QED  BY <1>1, <1>3, <2>1, <2>2 DEF ShotsTypeOK
<1>5. NamesOK'
  <2>1. Cardinality(Taken') + Cardinality(staged') <= round' * Len(Files)
    <3>1. Cardinality(staged') \in Nat /\ Cardinality(staged') <= Len(Files)
      BY <1>1, SomeFiles
    <3>2. Cardinality(Taken) <= round * Len(Files)
      <4>1. Cardinality(staged) = 0
        BY <1>1, FS_EmptySet
      <4> QED  BY <1>1, <1>3, <4>1 DEF NamesOK
    <3>3. (round + 1) * Len(Files) = round * Len(Files) + Len(Files) /\ round * Len(Files) \in Nat
      <4>1. round \in Nat
        BY <1>2
      <4> QED  BY <1>2, <4>1, Product
    <3>4. round' * Len(Files) = round * Len(Files) + Len(Files)
      BY <1>1, <3>3
    <3> QED  BY <1>2, <1>3, <3>1, <3>2, <3>3, <3>4
  <2>2. LinksAreServed'
    BY <1>1 DEF NamesOK, LinksAreServed, Served
  <2>3. faulty' \/ DOMAIN public' \subseteq used'
    BY <1>1
  <2> QED  BY <2>1, <2>2, <2>3 DEF NamesOK
<1>6. ShownOK'
  <2>1. Shown' = {}
    BY <1>1, <1>2 DEF Shown
  <2>2. Cardinality({}) = 0
    BY FS_EmptySet
  <2>3. faulty' \/ due' \ staged' = {}
    BY <1>1
  <2>4. \A l \in links' : l.picture.round <= round'
    BY <1>1, <1>2
  <2> QED  BY <1>1, <2>1, <2>2, <2>3, <2>4 DEF ShownOK
<1> QED  BY <1>4, <1>5, <1>6 DEF ShotsIInv

LEMMA BeginInv ==
  ASSUME ShotsIInv, NEW files \in SUBSET DOMAIN Files, Begin(files) \/ ReturnEarly(files)
  PROVE  ShotsIInv'
<1>1. CASE Begin(files)
  <2>1. /\ Review(files)
        /\ staged' = files \/ (staged' = {} /\ faulty' = TRUE)
        /\ used' \subseteq Taken
        /\ faulty' = TRUE \/ (faulty' = FALSE /\ used' = DOMAIN public)
    BY <1>1 DEF Begin, Existing, Taken
  <2> QED  BY <2>1, ReviewInv
<1>2. CASE ReturnEarly(files)
  <2>1. /\ Review(files)
        /\ staged' = files \/ (staged' = {} /\ faulty' = TRUE)
        /\ used' \subseteq Taken
        /\ faulty' = TRUE \/ (faulty' = FALSE /\ used' = DOMAIN public)
    BY <1>2 DEF ReturnEarly, Taken
  <2> QED  BY <2>1, ReviewInv
<1> QED  BY <1>1, <1>2

LEMMA PassOverFileInv ==
  ASSUME ShotsIInv, PassOverFile
  PROVE  ShotsIInv'
<1>1. /\ ShotsTypeOK /\ NamesOK /\ ShownOK
      /\ staged # {} /\ ~ Publishable(Min(staged)) /\ staged' = staged \ {Min(staged)}
      /\ count < MaxShots
      /\ UNCHANGED <<round, used, count, public, links, due, faulty>>
  BY DEF ShotsIInv, PassOverFile, Look
<1>2. ShotsTypeOK'
  BY <1>1 DEF ShotsTypeOK, Taken
<1>3. NamesOK'
  <2>1. Cardinality(staged') = Cardinality(staged) - 1 /\ Cardinality(staged) \in Nat
    BY <1>1, NextFile
  <2>2. Cardinality(Taken) \in Nat /\ round * Len(Files) \in Nat /\ Taken' = Taken
    BY <1>1, UsedNames, FileTypes, ScreenshotsAssumption DEF ShotsTypeOK, Taken
  <2>3. Cardinality(Taken') + Cardinality(staged') <= round' * Len(Files)
    BY <1>1, <2>1, <2>2 DEF NamesOK
  <2>4. LinksAreServed'
    BY <1>1 DEF NamesOK, LinksAreServed, Served
  <2> QED  BY <1>1, <2>3, <2>4 DEF NamesOK
<1>4. ShownOK'
  <2>1. Min(staged) \notin due
    BY <1>1 DEF ShownOK
  <2>2. due' \ staged' = due \ staged
    BY <1>1, <2>1
  <2>3. Shown' = Shown
    BY <1>1 DEF Shown
  <2> QED  BY <1>1, <2>2, <2>3 DEF ShownOK, ShotsTypeOK
<1> QED  BY <1>2, <1>3, <1>4 DEF ShotsIInv

LEMMA EnoughInv ==
  ASSUME ShotsIInv, Enough
  PROVE  ShotsIInv'
<1>1. /\ ShotsTypeOK /\ NamesOK /\ ShownOK
      /\ staged # {} /\ staged' = {} /\ count >= MaxShots
      /\ UNCHANGED <<round, used, count, public, links, due, faulty>>
  BY DEF ShotsIInv, Enough
<1>2. ShotsTypeOK'
  BY <1>1 DEF ShotsTypeOK, Taken
<1>3. NamesOK'
  <2>1. Cardinality(staged') = 0 /\ Cardinality(staged) \in Nat
    BY <1>1, FS_EmptySet, NextFile
  <2>2. Cardinality(Taken) \in Nat /\ round * Len(Files) \in Nat /\ Taken' = Taken
    BY <1>1, UsedNames, FileTypes, ScreenshotsAssumption DEF ShotsTypeOK, Taken
  <2>3. Cardinality(Taken') + Cardinality(staged') <= round' * Len(Files)
    BY <1>1, <2>1, <2>2 DEF NamesOK
  <2>4. LinksAreServed'
    BY <1>1 DEF NamesOK, LinksAreServed, Served
  <2> QED  BY <1>1, <2>3, <2>4 DEF NamesOK
<1>4. ShownOK'
  <2>1. count = MaxShots
    BY <1>1, ScreenshotsAssumption DEF ShotsTypeOK
  <2>2. Shown' = Shown
    BY <1>1 DEF Shown
  <2> QED  BY <1>1, <2>1, <2>2 DEF ShownOK
<1> QED  BY <1>2, <1>3, <1>4 DEF ShotsIInv

LEMMA PublishInv ==
  ASSUME ShotsIInv, Publish
  PROVE  ShotsIInv'
<1> DEFINE i == Min(staged)
           name == PublicName(i)
           picture == [round |-> round, file |-> i]
           content == [picture |-> picture, whole |-> TRUE]
           link == [name |-> name, picture |-> picture]
<1>1. /\ ShotsTypeOK /\ NamesOK /\ ShownOK
      /\ staged # {} /\ count < MaxShots /\ Publishable(i) /\ name \notin DOMAIN public
      /\ public' = WithFile(name, content)
      /\ links' = links \cup {link}
      /\ used' = used \cup {name} /\ count' = count + 1
      /\ staged' = staged \ {i}
      /\ UNCHANGED <<round, due, faulty>>
  BY DEF ShotsIInv, Publish, Look
<1>2. i \in staged /\ i \in DOMAIN Files /\ round \in 1 .. Rounds
  BY <1>1, NextFile
<1>3. name \notin used /\ SafeFile(name)
  BY <1>1, <1>2, NewName
<1> HIDE DEF i, name
<1>4. picture \in Picture /\ content \in Content
  BY <1>2 DEF Picture, Content
<1>5. link.name = name /\ link.picture = picture /\ picture.round = round /\ picture.file = i
  OBVIOUS
<1> HIDE DEF picture, content, link
<1>6. /\ DOMAIN public' = DOMAIN public \cup {name}
      /\ public' \in [DOMAIN public' -> Content]
      /\ public'[name] = content
      /\ \A n \in DOMAIN public : n # name /\ public'[n] = public[n]
  <2>1. public' = WithFile(name, content) /\ name \notin DOMAIN public /\ content \in Content
    BY <1>1, <1>4
  <2>2. ShotsTypeOK
    BY <1>1
  <2> QED  BY <2>1, <2>2, FileAdded
<1>7. IsFiniteSet(Taken') /\ Cardinality(Taken') + Cardinality(staged') <= round' * Len(Files)
  <2>1. Taken' \subseteq Taken \cup {name}
    BY <1>1, <1>6 DEF Taken
  <2> QED  BY <1>1, <2>1, NameUsed DEF i
<1>8. ShotsTypeOK'
  <2>1. count' \in 0 .. MaxShots
    BY <1>1, ScreenshotsAssumption DEF ShotsTypeOK
  <2>2. \A l \in links' : l.picture \in Picture
    BY <1>1, <1>4, <1>5 DEF ShotsTypeOK
  <2>3. round' \in 0 .. Rounds /\ staged' \subseteq DOMAIN Files /\ due' \subseteq DOMAIN Files
        /\ faulty' \in BOOLEAN
    BY <1>1 DEF ShotsTypeOK
  <2> QED  BY <1>6, <1>7, <2>1, <2>2, <2>3 DEF ShotsTypeOK
<1>9. NamesOK'
  <2>1. faulty' \/ DOMAIN public' \subseteq used'
    BY <1>1, <1>6 DEF NamesOK
  <2>2. ASSUME NEW l \in links'
        PROVE  SafeFile(l.name) /\ l.name \in DOMAIN public'
               /\ public'[l.name] = [picture |-> l.picture, whole |-> TRUE]
    <3>1. CASE l = link
      BY <1>3, <1>5, <1>6, <3>1 DEF content
    <3>2. CASE l # link
      <4>1. l \in links
        BY <1>1, <2>2, <3>2
      <4>2. SafeFile(l.name) /\ l.name \in DOMAIN public
            /\ public[l.name] = [picture |-> l.picture, whole |-> TRUE]
        BY <1>1, <4>1 DEF NamesOK, LinksAreServed, Served
      <4> QED  BY <1>6, <4>2
    <3> QED  BY <3>1, <3>2
  <2>3. LinksAreServed'
    BY <2>2 DEF LinksAreServed, Served
  <2> QED  BY <1>7, <2>1, <2>3 DEF NamesOK
<1>10. ShownOK'
  <2>1. Shown' = Shown \cup {i}
    BY <1>1, <1>5 DEF Shown
  <2>2. Shown \subseteq due \ staged /\ Cardinality(Shown) = count
    BY <1>1 DEF ShownOK
  <2>3. Cardinality(Shown') = count'
    <3>1. IsFiniteSet(Shown) /\ i \notin Shown
      <4>1. Shown \subseteq DOMAIN Files
        BY <1>1, <2>2 DEF ShotsTypeOK
      <4> QED  BY <1>2, <2>2, <4>1, SomeFiles
    <3> QED  BY <1>1, <2>1, <2>2, <3>1, FS_AddElement
  <2>4. i \in due
    BY <1>1, <1>2 DEF ShownOK
  <2>5. Shown' \subseteq due' \ staged'
    BY <1>1, <2>1, <2>2, <2>4
  <2>6. Shown = due \ staged => Shown' = due' \ staged'
    BY <1>1, <1>2, <2>1, <2>4
  <2>7. \A l \in links' : l.picture.round <= round'
    <3>1. round <= round
      BY <1>2
    <3> QED  BY <1>1, <1>5, <3>1 DEF ShownOK
  <2>8. \A k \in due' : Publishable(k)
    BY <1>1 DEF ShownOK
  <2>9. \A k \in staged' : Publishable(k) => k \in due'
    BY <1>1 DEF ShownOK
  <2>10. faulty \/ Shown = due \ staged
    BY <1>1, <1>2 DEF ShownOK
  <2>11. faulty' \/ Shown' = due' \ staged'
    BY <1>1, <2>6, <2>10
  <2> QED  BY <2>3, <2>5, <2>7, <2>8, <2>9, <2>11 DEF ShownOK
<1> QED  BY <1>8, <1>9, <1>10 DEF ShotsIInv

LEMMA CopyFailsInv ==
  ASSUME ShotsIInv, CopyFails
  PROVE  ShotsIInv'
<1> DEFINE i == Min(staged)
           name == PublicName(i)
           part == [picture |-> [round |-> round, file |-> i], whole |-> FALSE]
<1>1. /\ ShotsTypeOK /\ NamesOK /\ ShownOK
      /\ staged # {} /\ Publishable(i)
      /\ public' = public \/ (public' = WithFile(name, part) /\ name \notin DOMAIN public)
      /\ used' = used \cup {name} /\ staged' = staged \ {i}
      /\ faulty' = (faulty \/ name \notin DOMAIN public)
      /\ UNCHANGED <<round, count, links, due>>
  BY DEF ShotsIInv, CopyFails, Look
<1>2. i \in staged /\ i \in DOMAIN Files /\ round \in 1 .. Rounds
  BY <1>1, NextFile
<1>3. name \notin used
  BY <1>1, <1>2, NewName
<1> HIDE DEF i, name
<1>4. part \in Content
  BY <1>2 DEF Picture, Content
<1> HIDE DEF part
<1>5. /\ DOMAIN public' \subseteq DOMAIN public \cup {name} /\ DOMAIN public \subseteq DOMAIN public'
      /\ public' \in [DOMAIN public' -> Content]
      /\ \A n \in DOMAIN public : public'[n] = public[n]
  <2>1. CASE public' = public
    BY <1>1, <2>1 DEF ShotsTypeOK
  <2>2. CASE public' = WithFile(name, part) /\ name \notin DOMAIN public
    <3>1. /\ DOMAIN public' = DOMAIN public \cup {name}
          /\ public' \in [DOMAIN public' -> Content]
          /\ public'[name] = part
          /\ \A n \in DOMAIN public : n # name /\ public'[n] = public[n]
      BY <1>1, <1>4, <2>2, FileAdded
    <3> QED  BY <3>1
  <2> QED  BY <1>1, <2>1, <2>2
<1>6. IsFiniteSet(Taken') /\ Cardinality(Taken') + Cardinality(staged') <= round' * Len(Files)
  <2>1. Taken' \subseteq Taken \cup {name}
    BY <1>1, <1>5 DEF Taken
  <2> QED  BY <1>1, <2>1, NameUsed DEF i
<1>7. faulty' = TRUE
  BY <1>1, <1>3 DEF NamesOK
<1>8. ShotsTypeOK'
  <2>1. round' \in 0 .. Rounds /\ staged' \subseteq DOMAIN Files /\ due' \subseteq DOMAIN Files
        /\ count' \in 0 .. MaxShots /\ \A l \in links' : l.picture \in Picture
    BY <1>1 DEF ShotsTypeOK
  <2> QED  BY <1>5, <1>6, <1>7, <2>1 DEF ShotsTypeOK
<1>9. NamesOK'
  <2>1. faulty' \/ DOMAIN public' \subseteq used'
    BY <1>7
  <2>2. ASSUME NEW l \in links'
        PROVE  SafeFile(l.name) /\ l.name \in DOMAIN public'
               /\ public'[l.name] = [picture |-> l.picture, whole |-> TRUE]
    <3>1. SafeFile(l.name) /\ l.name \in DOMAIN public
          /\ public[l.name] = [picture |-> l.picture, whole |-> TRUE]
      BY <1>1, <2>2 DEF NamesOK, LinksAreServed, Served
    <3> QED  BY <1>5, <3>1
  <2>3. LinksAreServed'
    BY <2>2 DEF LinksAreServed, Served
  <2> QED  BY <1>6, <2>1, <2>3 DEF NamesOK
<1>10. ShownOK'
  <2>1. Shown' = Shown
    BY <1>1 DEF Shown
  <2>2. Shown \subseteq due \ staged
    BY <1>1 DEF ShownOK
  <2>3. Shown' \subseteq due' \ staged'
    BY <1>1, <2>1, <2>2
  <2> QED  BY <1>1, <1>7, <2>1, <2>3 DEF ShownOK
<1> QED  BY <1>8, <1>9, <1>10 DEF ShotsIInv

LEMMA ShotsNextInv == ShotsIInv /\ [ShotsNext]_shotsVars => ShotsIInv'
<1> SUFFICES ASSUME ShotsIInv, [ShotsNext]_shotsVars PROVE ShotsIInv'
  OBVIOUS
<1>1. CASE UNCHANGED shotsVars
  BY <1>1 DEF shotsVars, ShotsIInv, ShotsTypeOK, NamesOK, ShownOK, Shown, LinksAreServed, Served, Taken
<1>2. CASE ShotsNext
  BY <1>2, BeginInv, PassOverFileInv, EnoughInv, PublishInv, CopyFailsInv DEF ShotsNext
<1> QED  BY <1>1, <1>2

-----------------------------------------------------------------------------
(* The theorems                                                            *)

\* The inductive invariant holds.
THEOREM ShotsInvariant == ShotsSpec => []ShotsIInv
<1>1. ShotsInit => ShotsIInv
  BY ShotsInitInv
<1>2. ShotsIInv /\ [ShotsNext]_shotsVars => ShotsIInv'
  BY ShotsNextInv
<1> QED  BY <1>1, <1>2, PTL DEF ShotsSpec

\* Whatever the staged files are called and whichever copies fail, a link in a
\* report is answered with its own picture (publishScreenshotArtifacts and
\* handleArtifact).
THEOREM ScreenshotLinks == ShotsSpec => []LinksAreServed
<1>1. ShotsIInv => LinksAreServed
  BY DEF ShotsIInv, NamesOK
<1> QED  BY <1>1, ShotsInvariant, PTL

\* There is always a free name, so that only the file system or the limit keeps a
\* picture from the report (safeScreenshotFileName).
THEOREM ScreenshotsShown == ShotsSpec => []EveryPictureIsShown
<1>1. ShotsIInv => EveryPictureIsShown
  <2> SUFFICES ASSUME ShotsIInv, staged = {}, ~ faulty
               PROVE  IF Cardinality(due) <= MaxShots THEN Shown = due
                      ELSE Cardinality(Shown) = MaxShots
    BY DEF EveryPictureIsShown
  <2>1. /\ due \subseteq DOMAIN Files /\ count \in 0 .. MaxShots
        /\ Shown \subseteq due /\ Cardinality(Shown) = count
        /\ Shown = due \/ count = MaxShots
    BY DEF ShotsIInv, ShotsTypeOK, ShownOK
  <2>2. IsFiniteSet(due) /\ Cardinality(due) \in Nat /\ MaxShots \in Nat
    BY <2>1, SomeFiles, ScreenshotsAssumption
  <2>3. Cardinality(Shown) <= Cardinality(due)
        /\ (Cardinality(due) = Cardinality(Shown) => due = Shown)
    BY <2>1, <2>2, FS_Subset
  <2> QED  BY <2>1, <2>2, <2>3
<1> QED  BY <1>1, ShotsInvariant, PTL
=============================================================================
