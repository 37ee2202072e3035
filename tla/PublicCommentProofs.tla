------------------------- MODULE PublicCommentProofs -------------------------
(***************************************************************************)
(* Proofs about PublicComment, for reports of any length, chunks of any    *)
(* size that holds a rune, and any requests that fail.                     *)
(***************************************************************************)
EXTENDS PublicComment, ListLemmas

-----------------------------------------------------------------------------
(* Where a text is cut                                                     *)

\* A text that is longer than a chunk is cut before a rune.
LEMMA CutBeforeRune ==
  ASSUME NEW t, SafeText(t), Len(t) > MaxChunk
  PROVE  UTF8SafeCut(t) \in 1 .. MaxChunk /\ RuneStart(t[UTF8SafeCut(t) + 1])
<1> DEFINE starts == {n \in 1 .. MaxChunk : RuneStart(t[n + 1])}
<1>1. MaxChunk \in Nat /\ MaxChunk >= 4 /\ Len(t) \in Nat
  BY CommentAssumption DEF SafeText
<1>2. PICK k \in 5 - 3 .. 5 : RuneStart(t[k])
  BY <1>1 DEF SafeText
<1>3. k - 1 \in starts
  BY <1>1, <1>2
<1>4. starts \in SUBSET Nat /\ \A m \in starts : m <= MaxChunk
  BY <1>1
<1>5. Max(starts) \in starts
  <2> HIDE DEF starts
  <2>1. starts # {}
    BY <1>3
  <2> QED  BY <1>1, <1>4, <2>1, MaxOfSet
<1> QED  BY <1>5 DEF UTF8SafeCut

\* So is one that is cut after a newline.
LEMMA CutAtChunk ==
  ASSUME NEW t, SafeText(t), Len(t) > MaxChunk
  PROVE  ChunkCut(t) \in 1 .. MaxChunk /\ RuneStart(t[ChunkCut(t) + 1])
<1> DEFINE cut == UTF8SafeCut(t)
           newlines == {n \in 2 .. cut : t[n] = "n"}
<1>1. cut \in 1 .. MaxChunk /\ RuneStart(t[cut + 1])
  BY CutBeforeRune
<1>2. MaxChunk \in Nat /\ Len(t) \in Nat
  BY CommentAssumption DEF SafeText
<1>3. ASSUME newlines # {}
      PROVE  Max(newlines) \in 1 .. MaxChunk /\ RuneStart(t[Max(newlines) + 1])
  <2>1. newlines \in SUBSET Nat /\ cut \in Nat /\ \A m \in newlines : m <= cut
    BY <1>1, <1>2
  <2>2. Max(newlines) \in newlines
    <3> HIDE DEF newlines, cut
    <3> QED  BY <1>3, <2>1, MaxOfSet
  <2> DEFINE n == Max(newlines)
  <2>3. n \in 2 .. cut /\ t[n] = "n"
    BY <2>2
  <2> HIDE DEF n, cut, newlines
  <2>4. n + 1 \in 2 .. Len(t) /\ (n + 1) - 1 = n
    BY <1>1, <1>2, <2>3
  <2>5. t[n + 1] # "c"
    BY <2>3, <2>4 DEF SafeText
  <2>6. n \in 1 .. MaxChunk /\ RuneStart(t[n + 1])
    BY <1>1, <1>2, <2>3, <2>5 DEF RuneStart
  <2> QED  BY <2>6 DEF n
<1>4. \/ ChunkCut(t) = cut
      \/ newlines # {} /\ ChunkCut(t) = Max(newlines)
  BY DEF ChunkCut
<1> QED  BY <1>1, <1>3, <1>4

\* What is left after a cut before a rune is a text.
LEMMA RestIsText ==
  ASSUME NEW t, SafeText(t), NEW n \in 1 .. Len(t) - 1, RuneStart(t[n + 1])
  PROVE  SafeText(SubSeq(t, n + 1, Len(t)))
<1> DEFINE u == SubSeq(t, n + 1, Len(t))
<1>1. t \in Seq(Bytes) /\ Len(t) \in Nat
  BY DEF SafeText
<1>2. /\ u \in Seq(Bytes) /\ Len(u) = Len(t) - n
      /\ \A i \in 1 .. Len(t) - n : u[i] = t[n + i]
  BY <1>1
<1> HIDE DEF u
<1>3. u # <<>> /\ RuneStart(u[1])
  BY <1>1, <1>2
<1>4. ASSUME NEW i \in 2 .. Len(u), u[i] = "c" PROVE u[i - 1] \in {"l", "c"}
  <2>1. n + i \in 2 .. Len(t) /\ (n + i) - 1 = n + (i - 1)
    BY <1>1, <1>2
  <2>2. i \in 1 .. Len(t) - n /\ i - 1 \in 1 .. Len(t) - n
    BY <1>1, <1>2
  <2>3. u[i] = t[n + i] /\ u[i - 1] = t[n + (i - 1)]
    BY <1>2, <2>2
  <2> QED  BY <1>4, <2>1, <2>3 DEF SafeText
<1>5. ASSUME NEW i \in 4 .. Len(u) PROVE \E k \in i - 3 .. i : RuneStart(u[k])
  <2>1. PICK k \in (n + i) - 3 .. n + i : RuneStart(t[k])
    BY <1>1, <1>2 DEF SafeText
  <2>2. k - n \in i - 3 .. i /\ k - n \in 1 .. Len(t) - n /\ n + (k - n) = k
    BY <1>1, <1>2
  <2>3. u[k - n] = t[k]
    BY <1>2, <2>2
  <2> QED  BY <2>1, <2>2, <2>3
<1> QED  BY <1>2, <1>3, <1>4, <1>5 DEF SafeText, u

\* A text in two pieces is the text.
LEMMA TwoPieces ==
  ASSUME NEW B, NEW t \in Seq(B), NEW n \in 1 .. Len(t)
  PROVE  /\ SubSeq(t, 1, n) \in Seq(B) /\ Len(SubSeq(t, 1, n)) = n
         /\ SubSeq(t, 1, n)[1] = t[1]
         /\ SubSeq(t, n + 1, Len(t)) \in Seq(B)
         /\ SubSeq(t, 1, n) \o SubSeq(t, n + 1, Len(t)) = t
<1>1. SubSeq(t, 1, n) \o SubSeq(t, n + 1, Len(t)) = SubSeq(t, 1, Len(t))
  BY ConcatAdjacentSubSeq
<1>2. SubSeq(t, 1, Len(t)) = t
  BY SubSeqFull
<1>3. SubSeq(t, n + 1, Len(t)) \in Seq(B)
  OBVIOUS
<1>4. SubSeq(t, 1, n) \in Seq(B) /\ Len(SubSeq(t, 1, n)) = n /\ SubSeq(t, 1, n)[1] = t[1]
  OBVIOUS
<1> QED  BY <1>1, <1>2, <1>3, <1>4

\* Pieces are joined in any order.
LEMMA PiecesJoin ==
  ASSUME NEW a \in Seq(Bytes), NEW b \in Seq(Bytes), NEW d \in Seq(Bytes)
  PROVE  (a \o b) \o d = a \o (b \o d)
OBVIOUS

LEMMA PieceLengths ==
  ASSUME NEW a \in Seq(Bytes), NEW b \in Seq(Bytes)
  PROVE  Len(a \o b) = Len(a) + Len(b) /\ Len(b) \in Nat /\ SubSeq(a \o b, 1, Len(a)) = a
OBVIOUS

-----------------------------------------------------------------------------
(* One more chunk                                                          *)

\* A chunk that is a beginning of the rest joins the others.
LEMMA ChunkAppended ==
  ASSUME CommentTypeOK, CutOK, step = "cut", NEW c \in Seq(Bytes), NEW r \in Seq(Bytes),
         rest = c \o r, Len(c) \in 1 .. MaxChunk, c[1] = rest[1],
         chunks' = Append(chunks, c), rest' = r, text' = text
  PROVE  chunks' \in Seq(Seq(Bytes)) /\ ChunksCarryTheReport'
<1>1. chunks \in Seq(Seq(Bytes)) /\ SafeText(rest) /\ FlattenSeq(chunks) \o rest = text
  BY DEF CommentTypeOK, CutOK, ChunksCarryTheReport
<1>2. /\ chunks' \in Seq(Seq(Bytes)) /\ DOMAIN chunks' = 1 .. Len(chunks) + 1
      /\ Len(chunks) \in Nat /\ DOMAIN chunks = 1 .. Len(chunks)
      /\ \A i \in 1 .. Len(chunks) : chunks'[i] = chunks[i]
      /\ chunks'[Len(chunks) + 1] = c
  BY <1>1
<1>3. FlattenSeq(chunks') \o rest' = text'
  <2>1. FlattenSeq(chunks') = FlattenSeq(chunks) \o c
    BY <1>1, FlattenAppend
  <2>2. FlattenSeq(chunks) \in Seq(Bytes)
    BY <1>1, FlattenType
  <2>3. (FlattenSeq(chunks) \o c) \o r = FlattenSeq(chunks) \o (c \o r)
    BY <2>2, PiecesJoin
  <2> QED  BY <1>1, <2>1, <2>3
<1>4. ASSUME NEW i \in DOMAIN chunks'
      PROVE  Len(chunks'[i]) \in 1 .. MaxChunk /\ RuneStart(chunks'[i][1])
  <2>1. CASE i = Len(chunks) + 1
    BY <1>1, <1>2, <2>1 DEF SafeText
  <2>2. CASE i # Len(chunks) + 1
    <3>1. i \in DOMAIN chunks /\ chunks'[i] = chunks[i]
      BY <1>2, <1>4, <2>2
    <3> QED  BY <3>1 DEF CutOK, ChunksCarryTheReport
  <2> QED  BY <2>1, <2>2
<1> QED  BY <1>2, <1>3, <1>4 DEF ChunksCarryTheReport

\* What is on the issue after one more chunk, or after the same chunks.
LEMMA ChunkPosted ==
  ASSUME CommentTypeOK, sent < Len(chunks),
         NEW k \in 0 .. Len(report),
         FlattenSeq(posted) = SubSeq(report, 1, k) \o FlattenSeq(SubSeq(chunks, 1, sent)),
         NEW p, p = Append(posted, chunks[sent + 1])
  PROVE  /\ p \in Seq(Seq(Bytes))
         /\ FlattenSeq(p) = SubSeq(report, 1, k) \o FlattenSeq(SubSeq(chunks, 1, sent + 1))
<1>1. /\ chunks \in Seq(Seq(Bytes)) /\ posted \in Seq(Seq(Bytes)) /\ report \in Seq(Bytes)
      /\ sent \in 0 .. Len(chunks) - 1 /\ sent \in 0 .. Len(chunks)
      /\ sent + 1 \in 1 .. Len(chunks)
  BY DEF CommentTypeOK, SafeText
<1>2. chunks[sent + 1] \in Seq(Bytes)
  BY <1>1
<1>3. FlattenSeq(p) = FlattenSeq(posted) \o chunks[sent + 1]
  BY <1>1, <1>2, FlattenAppend
<1>4. FlattenSeq(SubSeq(chunks, 1, sent + 1))
        = FlattenSeq(SubSeq(chunks, 1, sent)) \o chunks[sent + 1]
  BY <1>1, FlattenNext
<1>5. SubSeq(report, 1, k) \in Seq(Bytes) /\ FlattenSeq(SubSeq(chunks, 1, sent)) \in Seq(Bytes)
  <2>1. SubSeq(report, 1, k) \in Seq(Bytes)
    BY <1>1
  <2>2. SubSeq(chunks, 1, sent) \in Seq(Seq(Bytes))
    BY <1>1
  <2> QED  BY <2>1, <2>2, FlattenType
<1>6. p \in Seq(Seq(Bytes))
  BY <1>1, <1>2
<1>7. (SubSeq(report, 1, k) \o FlattenSeq(SubSeq(chunks, 1, sent))) \o chunks[sent + 1]
        = SubSeq(report, 1, k) \o (FlattenSeq(SubSeq(chunks, 1, sent)) \o chunks[sent + 1])
  BY <1>2, <1>5, PiecesJoin
<1> QED  BY <1>3, <1>4, <1>6, <1>7

-----------------------------------------------------------------------------
(* The invariant                                                           *)

LEMMA CommentInitInv == CommentInit => CommentIInv
<1> SUFFICES ASSUME CommentInit PROVE CommentIInv
  OBVIOUS
<1>1. SafeText(report)
  BY CommentAssumption DEF CommentInit
<1>2. report \in Seq(Bytes) /\ Len(report) \in Nat
  BY <1>1 DEF SafeText
<1>3. CommentTypeOK
  <2>1. chunks \in Seq(Seq(Bytes)) /\ posted \in Seq(Seq(Bytes)) /\ sent \in 0 .. Len(chunks)
    BY DEF CommentInit
  <2> QED  BY <1>1, <2>1 DEF CommentInit, CommentTypeOK
<1>4. CutOK
  <2>1. FlattenSeq(chunks) \o rest = text
    BY <1>2, FlattenEmpty, ConcatEmptySeq DEF CommentInit
  <2> QED  BY <1>1, <2>1 DEF CommentInit, CutOK, ChunksCarryTheReport
<1>5. PostedOK
  <2>1. SubSeq(chunks, 1, sent) = <<>> /\ SubSeq(report, 1, 0) = <<>>
    BY DEF CommentInit
  <2>2. FlattenSeq(posted) = SubSeq(report, 1, 0) \o FlattenSeq(SubSeq(chunks, 1, sent))
    <3>1. FlattenSeq(posted) = <<>> /\ FlattenSeq(SubSeq(chunks, 1, sent)) = <<>>
      BY <2>1, FlattenEmpty DEF CommentInit
    <3> QED  BY <2>1, <3>1
  <2>3. 0 \in 0 .. Len(report)
    BY <1>2
  <2> QED  BY <2>2, <2>3 DEF CommentInit, PostedOK
<1> QED  BY <1>3, <1>4, <1>5 DEF CommentIInv

\* While nothing was sent, what is on the issue does not depend on the chunks.
LEMMA NothingSent == \A s : SubSeq(s, 1, 0) = <<>>
  BY SubSeqEmpty

LEMMA CutChunkInv ==
  ASSUME CommentIInv, CutChunk
  PROVE  CommentIInv'
<1> DEFINE n == ChunkCut(rest)
           c == SubSeq(rest, 1, n)
           r == SubSeq(rest, n + 1, Len(rest))
<1>1. /\ CommentTypeOK /\ CutOK /\ PostedOK /\ step = "cut"
      /\ SafeText(rest) /\ sent = 0 /\ Len(rest) > MaxChunk
      /\ UNCHANGED <<report, text, posted, sent, step, failed>>
  BY DEF CommentIInv, CutOK, CutChunk
<1>2. n \in 1 .. MaxChunk /\ RuneStart(rest[n + 1])
  BY <1>1, CutAtChunk
<1>3. rest \in Seq(Bytes) /\ Len(rest) \in Nat /\ MaxChunk \in Nat
  BY <1>1, CommentAssumption DEF SafeText
<1>4. chunks' = Append(chunks, c) /\ rest' = r
  BY DEF CutChunk
<1> HIDE DEF n
<1>5. n \in 1 .. Len(rest) /\ n \in 1 .. Len(rest) - 1
  BY <1>1, <1>2, <1>3
<1>6. c \in Seq(Bytes) /\ Len(c) = n /\ c[1] = rest[1] /\ r \in Seq(Bytes) /\ c \o r = rest
  BY <1>3, <1>5, TwoPieces
<1>7. SafeText(r)
  BY <1>1, <1>2, <1>5, RestIsText
<1> HIDE DEF c, r
<1>8. chunks' \in Seq(Seq(Bytes)) /\ ChunksCarryTheReport'
  BY <1>1, <1>2, <1>4, <1>6, ChunkAppended
<1>9. CommentTypeOK'
  <2>1. sent' \in 0 .. Len(chunks')
    BY <1>1, <1>8
  <2> QED  BY <1>1, <1>8, <2>1 DEF CommentTypeOK
<1>10. CutOK'
  BY <1>1, <1>4, <1>7, <1>8 DEF CutOK
<1>11. PostedOK'
  <2>1. SubSeq(chunks, 1, sent) = <<>> /\ SubSeq(chunks', 1, sent') = <<>>
    BY <1>1, NothingSent
  <2> QED  BY <1>1, <2>1 DEF PostedOK
<1> QED  BY <1>9, <1>10, <1>11 DEF CommentIInv

LEMMA CutRestInv ==
  ASSUME CommentIInv, CutRest
  PROVE  CommentIInv'
<1>1. /\ CommentTypeOK /\ CutOK /\ PostedOK /\ step = "cut"
      /\ SafeText(rest) /\ sent = 0 /\ Len(rest) <= MaxChunk
      /\ UNCHANGED <<report, text, posted, sent, failed>>
      /\ chunks' = Append(chunks, rest) /\ rest' = <<>> /\ step' = "post"
  BY DEF CommentIInv, CutOK, CutRest
<1>2. rest \in Seq(Bytes) /\ Len(rest) \in 1 .. MaxChunk /\ <<>> \in Seq(Bytes)
  <2>1. rest \in Seq(Bytes) /\ rest # <<>> /\ MaxChunk \in Nat
    BY <1>1, CommentAssumption DEF SafeText
  <2> QED  BY <1>1, <2>1, EmptySeq
<1>3. rest = rest \o <<>>
  BY <1>2, ConcatEmptySeq
<1>4. chunks' \in Seq(Seq(Bytes)) /\ ChunksCarryTheReport'
  BY <1>1, <1>2, <1>3, ChunkAppended
<1>5. CommentTypeOK'
  <2>1. sent' \in 0 .. Len(chunks')
    BY <1>1, <1>4
  <2> QED  BY <1>1, <1>4, <2>1 DEF CommentTypeOK
<1>6. CutOK'
  BY <1>1, <1>4 DEF CutOK
<1>7. PostedOK'
  <2>1. SubSeq(chunks, 1, sent) = <<>> /\ SubSeq(chunks', 1, sent') = <<>>
    BY <1>1, NothingSent
  <2> QED  BY <1>1, <2>1 DEF PostedOK
<1> QED  BY <1>5, <1>6, <1>7 DEF CommentIInv

LEMMA PostInv ==
  ASSUME CommentIInv, Post
  PROVE  CommentIInv'
<1>1. /\ CommentTypeOK /\ CutOK /\ PostedOK /\ step = "post" /\ ~ failed
      /\ sent < Len(chunks) /\ sent' = sent + 1
      /\ posted' = Append(posted, chunks[sent + 1])
      /\ UNCHANGED <<report, text, rest, chunks, step, failed>>
  BY DEF CommentIInv, PostedOK, Post
<1>2. PICK k \in 0 .. Len(report) :
        /\ FlattenSeq(posted) = SubSeq(report, 1, k) \o FlattenSeq(SubSeq(chunks, 1, sent))
        /\ text = report => k = 0
  BY <1>1 DEF PostedOK
<1>3. /\ posted' \in Seq(Seq(Bytes))
      /\ FlattenSeq(posted') = SubSeq(report, 1, k) \o FlattenSeq(SubSeq(chunks, 1, sent + 1))
  BY <1>1, <1>2, ChunkPosted
<1>4. CommentTypeOK'
  <2>1. sent' \in 0 .. Len(chunks')
    BY <1>1 DEF CommentTypeOK
  <2> QED  BY <1>1, <1>3, <2>1 DEF CommentTypeOK
<1>5. CutOK'
  BY <1>1 DEF CutOK, ChunksCarryTheReport
<1>6. PostedOK'
  BY <1>1, <1>2, <1>3 DEF PostedOK
<1> QED  BY <1>4, <1>5, <1>6 DEF CommentIInv

LEMMA AllPostedInv ==
  ASSUME CommentIInv, AllPosted
  PROVE  CommentIInv'
<1>1. /\ CommentTypeOK /\ CutOK /\ PostedOK /\ step = "post" /\ ~ failed
      /\ sent = Len(chunks) /\ step' = "return"
      /\ UNCHANGED <<report, text, rest, chunks, posted, sent, failed>>
  BY DEF CommentIInv, PostedOK, AllPosted
<1>2. CommentTypeOK'
  BY <1>1 DEF CommentTypeOK
<1>3. CutOK'
  BY <1>1 DEF CutOK, ChunksCarryTheReport
<1>4. PostedOK'
  BY <1>1 DEF PostedOK
<1> QED  BY <1>2, <1>3, <1>4 DEF CommentIInv

LEMMA FallBackInv ==
  ASSUME CommentIInv, FallBack
  PROVE  CommentIInv'
<1>1. /\ CommentTypeOK /\ CutOK /\ PostedOK /\ step = "post" /\ ~ failed
      /\ sent < Len(chunks) /\ text = report /\ Fallback # report
      /\ posted' = posted \/ posted' = Append(posted, chunks[sent + 1])
      /\ text' = Fallback /\ rest' = Fallback /\ chunks' = <<>> /\ sent' = 0 /\ step' = "cut"
      /\ UNCHANGED <<report, failed>>
  BY DEF CommentIInv, PostedOK, FallBack, Refused
<1>2. /\ report \in Seq(Bytes) /\ chunks \in Seq(Seq(Bytes)) /\ posted \in Seq(Seq(Bytes))
      /\ sent \in 0 .. Len(chunks) /\ sent + 1 \in 0 .. Len(chunks)
      /\ SafeText(Fallback) /\ Fallback \in Seq(Bytes)
  BY <1>1, CommentAssumption DEF CommentTypeOK, SafeText
<1>3. FlattenSeq(chunks) = report
  <2>1. rest = <<>> /\ FlattenSeq(chunks) \o rest = report
    BY <1>1 DEF CutOK, ChunksCarryTheReport
  <2>2. FlattenSeq(chunks) \in Seq(Bytes)
    BY <1>2, FlattenType
  <2> QED  BY <2>1, <2>2, ConcatEmptySeq
<1>4. PICK m \in 0 .. Len(chunks) :
        posted' \in Seq(Seq(Bytes)) /\ FlattenSeq(posted') = FlattenSeq(SubSeq(chunks, 1, m))
  <2>1. FlattenSeq(posted) = SubSeq(report, 1, 0) \o FlattenSeq(SubSeq(chunks, 1, sent))
    BY <1>1 DEF PostedOK
  <2>2. \A m \in 0 .. Len(chunks) :
          SubSeq(report, 1, 0) \o FlattenSeq(SubSeq(chunks, 1, m)) = FlattenSeq(SubSeq(chunks, 1, m))
    <3> SUFFICES ASSUME NEW m \in 0 .. Len(chunks)
                 PROVE  SubSeq(report, 1, 0) \o FlattenSeq(SubSeq(chunks, 1, m))
                          = FlattenSeq(SubSeq(chunks, 1, m))
      OBVIOUS
    <3>1. SubSeq(chunks, 1, m) \in Seq(Seq(Bytes))
      BY <1>2
    <3>2. FlattenSeq(SubSeq(chunks, 1, m)) \in Seq(Bytes)
      BY <3>1, FlattenType
    <3> QED  BY <3>2, NothingSent, ConcatEmptySeq
  <2>3. CASE posted' = posted
    BY <1>2, <2>1, <2>2, <2>3
  <2>4. CASE posted' = Append(posted, chunks[sent + 1])
    <3>1. /\ posted' \in Seq(Seq(Bytes))
          /\ FlattenSeq(posted') = SubSeq(report, 1, 0) \o FlattenSeq(SubSeq(chunks, 1, sent + 1))
      <4>1. 0 \in 0 .. Len(report)
        BY <1>2
      <4> QED  BY <1>1, <2>1, <2>4, <4>1, ChunkPosted
    <3> QED  BY <1>2, <2>2, <3>1
  <2> QED  BY <1>1, <2>3, <2>4
<1>5. PICK k \in 0 .. Len(report) : FlattenSeq(posted') = SubSeq(report, 1, k)
  BY <1>2, <1>3, <1>4, FlattenBeginning
<1>6. CommentTypeOK'
  <2>1. chunks' \in Seq(Seq(Bytes)) /\ sent' \in 0 .. Len(chunks')
    BY <1>1
  <2> QED  BY <1>1, <1>4, <2>1 DEF CommentTypeOK
<1>7. CutOK'
  <2>1. FlattenSeq(chunks') \o rest' = text'
    BY <1>1, <1>2, FlattenEmpty, ConcatEmptySeq
  <2>2. DOMAIN chunks' = {}
    BY <1>1
  <2> QED  BY <1>1, <1>2, <2>1, <2>2 DEF CutOK, ChunksCarryTheReport
<1>8. PostedOK'
  <2>1. FlattenSeq(SubSeq(chunks', 1, sent')) = <<>>
    BY <1>1, NothingSent, FlattenEmpty
  <2>2. SubSeq(report, 1, k) \in Seq(Bytes)
    BY <1>2
  <2>3. FlattenSeq(posted') = SubSeq(report, 1, k) \o <<>>
    BY <1>5, <2>2, ConcatEmptySeq
  <2> QED  BY <1>1, <2>1, <2>3 DEF PostedOK
<1> QED  BY <1>6, <1>7, <1>8 DEF CommentIInv

LEMMA GiveUpInv ==
  ASSUME CommentIInv, GiveUp
  PROVE  CommentIInv'
<1>1. /\ CommentTypeOK /\ CutOK /\ step = "post" /\ sent < Len(chunks)
      /\ posted' = posted \/ posted' = Append(posted, chunks[sent + 1])
      /\ failed' = TRUE /\ step' = "return"
      /\ UNCHANGED <<report, text, rest, chunks, sent>>
  BY DEF CommentIInv, GiveUp, Refused
<1>2. posted' \in Seq(Seq(Bytes))
  <2>1. chunks \in Seq(Seq(Bytes)) /\ posted \in Seq(Seq(Bytes)) /\ sent + 1 \in 1 .. Len(chunks)
    BY <1>1 DEF CommentTypeOK
  <2>2. chunks[sent + 1] \in Seq(Bytes)
    BY <2>1
  <2>3. Append(posted, chunks[sent + 1]) \in Seq(Seq(Bytes))
    BY <2>1, <2>2, AppendProperties
  <2> QED  BY <1>1, <2>1, <2>3
<1>3. CommentTypeOK'
  BY <1>1, <1>2 DEF CommentTypeOK
<1>4. CutOK'
  BY <1>1 DEF CutOK, ChunksCarryTheReport
<1>5. PostedOK'
  BY <1>1 DEF PostedOK
<1> QED  BY <1>3, <1>4, <1>5 DEF CommentIInv

LEMMA CommentNextInv == CommentIInv /\ [CommentNext]_commentVars => CommentIInv'
<1> SUFFICES ASSUME CommentIInv, [CommentNext]_commentVars PROVE CommentIInv'
  OBVIOUS
<1>1. CASE UNCHANGED commentVars
  BY <1>1 DEF commentVars, CommentIInv, CommentTypeOK, CutOK, PostedOK, ChunksCarryTheReport
<1>2. CASE CommentNext
  BY <1>2, CutChunkInv, CutRestInv, PostInv, AllPostedInv, FallBackInv, GiveUpInv DEF CommentNext
<1> QED  BY <1>1, <1>2

-----------------------------------------------------------------------------
(* The theorems                                                            *)

\* The inductive invariant holds.
THEOREM CommentInvariant == CommentSpec => []CommentIInv
<1>1. CommentInit => CommentIInv
  BY CommentInitInv
<1>2. CommentIInv /\ [CommentNext]_commentVars => CommentIInv'
  BY CommentNextInv
<1> QED  BY <1>1, <1>2, PTL DEF CommentSpec

\* Whatever the report and wherever its runes and newlines are, its chunks are
\* the text, each is short enough for GitHub, and no rune is cut (SafeChunks).
THEOREM CommentChunks == CommentSpec => []ChunksCarryTheReport
<1>1. CommentIInv => ChunksCarryTheReport
  BY DEF CommentIInv, CutOK
<1> QED  BY <1>1, CommentInvariant, PTL

\* Whichever requests fail or lose their answer, commentWithFallback returns an
\* error or has told the issue its report, or the short text.
THEOREM CommentOutcome == CommentSpec => []IssueTellsOutcome
<1>1. CommentIInv => IssueTellsOutcome
  <2> SUFFICES ASSUME CommentIInv, step = "return", ~ failed
               PROVE  LET shown == FlattenSeq(posted) IN
                      \/ shown = report
                      \/ /\ IsSuffix(Fallback, shown)
                         /\ IsPrefix(SubSeq(shown, 1, Len(shown) - Len(Fallback)), report)
    BY DEF IssueTellsOutcome
  <2> DEFINE shown == FlattenSeq(posted)
  <2>1. PICK k \in 0 .. Len(report) :
          /\ shown = SubSeq(report, 1, k) \o FlattenSeq(SubSeq(chunks, 1, sent))
          /\ text = report => k = 0
    BY DEF CommentIInv, PostedOK
  <2>2. sent = Len(chunks) /\ rest = <<>> /\ chunks \in Seq(Seq(Bytes))
    BY DEF CommentIInv, PostedOK, CutOK, CommentTypeOK
  <2>3. SubSeq(chunks, 1, sent) = chunks /\ FlattenSeq(chunks) \in Seq(Bytes)
    BY <2>2, SubSeqFull, FlattenType
  <2>4. FlattenSeq(chunks) = text
    <3>1. FlattenSeq(chunks) \o <<>> = text
      BY <2>2 DEF CommentIInv, CutOK, ChunksCarryTheReport
    <3> QED  BY <2>3, <3>1, ConcatEmptySeq
  <2>5. shown = SubSeq(report, 1, k) \o text /\ text \in Seq(Bytes)
    BY <2>1, <2>3, <2>4
  <2>6. report \in Seq(Bytes) /\ text \in {report, Fallback}
    BY DEF CommentIInv, CommentTypeOK, SafeText
  <2> HIDE DEF shown
  <2>7. CASE text = report
    <3>1. k = 0 /\ SubSeq(report, 1, 0) = <<>>
      BY <2>1, <2>7, NothingSent
    <3>2. shown = report
      BY <2>5, <2>7, <3>1, ConcatEmptySeq
    <3> QED  BY <3>2 DEF shown
  <2>8. CASE text = Fallback
    <3> DEFINE b == SubSeq(report, 1, k)
    <3>1. b \in Seq(Bytes) /\ Len(b) = k /\ k <= Len(report)
      BY <2>6
    <3> HIDE DEF b
    <3>2. shown = b \o Fallback /\ Fallback \in Seq(Bytes)
      BY <2>5, <2>8 DEF b
    <3>3. IsSuffix(Fallback, shown)
      BY <3>1, <3>2, SuffixOfConcat
    <3>4. SubSeq(shown, 1, Len(shown) - Len(Fallback)) = b
      <4>1. Len(shown) = k + Len(Fallback) /\ Len(Fallback) \in Nat
        BY <3>1, <3>2, PieceLengths
      <4>2. Len(shown) - Len(Fallback) = k
        BY <4>1
      <4>3. SubSeq(b \o Fallback, 1, Len(b)) = b
        BY <3>1, <3>2, PieceLengths
      <4> QED  BY <3>1, <3>2, <4>2, <4>3
    <3>5. IsPrefix(b, report)
      <4>1. SubSeq(b, 1, Len(b)) = b
        BY <3>1, SubSeqFull
      <4> QED  BY <3>1, <4>1 DEF IsPrefix, b
    <3> QED  BY <3>3, <3>4, <3>5 DEF shown
  <2> QED  BY <2>6, <2>7, <2>8
<1> QED  BY <1>1, CommentInvariant, PTL
=============================================================================
