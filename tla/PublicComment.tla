---------------------------- MODULE PublicComment ----------------------------
(***************************************************************************)
(* commentWithFallback (worker.go): a report is cut into chunks that       *)
(* GitHub accepts (internal/publiccomment), the chunks are posted one by   *)
(* one (internal/github), and when a request fails, or its answer is lost, *)
(* a short text is posted instead of the rest.                             *)
(*                                                                         *)
(* A text is a sequence of bytes: "x" an ASCII byte, "n" a newline, "l"    *)
(* the first and "c" a further byte of a longer rune.  What Safe removes   *)
(* from it (control characters; all of it, if something looks like a       *)
(* secret) is gone before, so that a text is valid UTF-8.                  *)
(***************************************************************************)
EXTENDS SequencesExt

CONSTANTS
  MaxChunk,  \* MaxIssueCommentChunkBytes
  Reports,   \* the texts of reports, after Safe
  Fallback   \* the comment without the report

Bytes == {"x", "n", "l", "c"}

RuneStart(byte) == byte # "c"

\* What Safe returns: never empty, and valid UTF-8, in which no rune is longer
\* than utf8.UTFMax, 4.
SafeText(t) ==
  /\ t \in Seq(Bytes) /\ t # <<>> /\ RuneStart(t[1])
  /\ \A i \in 2 .. Len(t) : t[i] = "c" => t[i - 1] \in {"l", "c"}
  /\ \A i \in 4 .. Len(t) : \E k \in i - 3 .. i : RuneStart(t[k])

ASSUME CommentAssumption ==
  /\ MaxChunk \in Nat \ (0 .. 3)
  /\ \A t \in Reports \cup {Fallback} : SafeText(t)

VARIABLES
  report,     \* the report (never changes)
  text,       \* what is being posted: the report or the fallback
  rest,       \* what SafeChunks still has to cut
  chunks,     \* what it has cut
  posted,     \* the comments on the issue
  sent,       \* how many chunks of text were answered with success
  step,       \* "cut", "post" or "return"
  failed      \* commentWithFallback returned an error

commentVars == <<report, text, rest, chunks, posted, sent, step, failed>>

CommentInit ==
  /\ report \in Reports
  /\ text = report /\ rest = report
  /\ chunks = <<>> /\ posted = <<>> /\ sent = 0
  /\ step = "cut"
  /\ failed = FALSE

-----------------------------------------------------------------------------
(* SafeChunks                                                              *)

\* utf8SafeCut of a text that is longer than a chunk.
UTF8SafeCut(t) == Max({n \in 1 .. MaxChunk : RuneStart(t[n + 1])})

\* Mutant: the text is cut after a fixed number of bytes.
ChunkCutBlindly(t) == MaxChunk

\* After the last newline, if that makes no small chunk.
ChunkCut(t) ==
  LET cut == UTF8SafeCut(t)
      newlines == {n \in 2 .. cut : t[n] = "n"}
  IN IF newlines # {} /\ Max(newlines) >= MaxChunk \div 2 THEN Max(newlines) ELSE cut

CutChunk ==
  /\ step = "cut" /\ Len(rest) > MaxChunk
  /\ chunks' = Append(chunks, SubSeq(rest, 1, ChunkCut(rest)))
  /\ rest' = SubSeq(rest, ChunkCut(rest) + 1, Len(rest))
  /\ UNCHANGED <<report, text, posted, sent, step, failed>>

CutRest ==
  /\ step = "cut" /\ Len(rest) <= MaxChunk
  /\ chunks' = Append(chunks, rest)
  /\ rest' = <<>>
  /\ step' = "post"
  /\ UNCHANGED <<report, text, posted, sent, failed>>

-----------------------------------------------------------------------------
(* CreateIssueComment and commentWithFallback                              *)

Post ==
  /\ step = "post" /\ sent < Len(chunks)
  /\ posted' = Append(posted, chunks[sent + 1])
  /\ sent' = sent + 1
  /\ UNCHANGED <<report, text, rest, chunks, step, failed>>

AllPosted ==
  /\ step = "post" /\ sent = Len(chunks)
  /\ step' = "return"
  /\ UNCHANGED <<report, text, rest, chunks, posted, sent, failed>>

\* The request fails, or it reached GitHub and its answer is lost.
Refused ==
  /\ step = "post" /\ sent < Len(chunks)
  /\ posted' \in {posted, Append(posted, chunks[sent + 1])}

\* Mutant: the chunks of the report stay before those of the short text.
FallBackKeepingChunks ==
  /\ Refused
  /\ text = report /\ Fallback # report
  /\ text' = Fallback /\ rest' = Fallback
  /\ sent' = 0
  /\ step' = "cut"
  /\ UNCHANGED <<report, chunks, failed>>

FallBack ==
  /\ Refused
  /\ text = report /\ Fallback # report
  /\ text' = Fallback /\ rest' = Fallback
  /\ chunks' = <<>> /\ sent' = 0
  /\ step' = "cut"
  /\ UNCHANGED <<report, failed>>

\* Mutant: the error of the short text is forgotten with that of the report.
GiveUpUnnoticed ==
  /\ Refused
  /\ text = Fallback
  /\ step' = "return"
  /\ UNCHANGED <<report, text, rest, chunks, sent, failed>>

\* The error is returned.  Callers that look at it append public_comment_failed
\* to the job's last_error, and ignore whether that could be written.
GiveUp ==
  /\ Refused
  /\ text = Fallback
  /\ failed' = TRUE
  /\ step' = "return"
  /\ UNCHANGED <<report, text, rest, chunks, sent>>

CommentNext == CutChunk \/ CutRest \/ Post \/ AllPosted \/ FallBack \/ GiveUp

CommentSpec == CommentInit /\ [][CommentNext]_commentVars

-----------------------------------------------------------------------------
(* Properties                                                              *)

\* The chunks are the text, nothing is lost or doubled at a cut; GitHub accepts
\* each of them, and none begins or ends within a rune.
ChunksCarryTheReport ==
  /\ FlattenSeq(chunks) \o rest = text
  /\ \A i \in DOMAIN chunks :
       Len(chunks[i]) \in 1 .. MaxChunk /\ RuneStart(chunks[i][1])

\* When commentWithFallback returns no error, the issue has the report, whole
\* and in order, or a beginning of it and then the whole short text, whichever
\* requests failed or lost their answer.
IssueTellsOutcome ==
  step = "return" /\ ~ failed =>
    LET shown == FlattenSeq(posted) IN
    \/ shown = report
    \/ IsSuffix(Fallback, shown)
       /\ IsPrefix(SubSeq(shown, 1, Len(shown) - Len(Fallback)), report)

-----------------------------------------------------------------------------
(* The inductive invariant                                                 *)

CommentTypeOK ==
  /\ SafeText(report) /\ text \in {report, Fallback}
  /\ chunks \in Seq(Seq(Bytes)) /\ posted \in Seq(Seq(Bytes))
  /\ sent \in 0 .. Len(chunks)
  /\ step \in {"cut", "post", "return"} /\ failed \in BOOLEAN

\* While there is something to cut, it is a text of its own, and nothing was sent.
CutOK ==
  /\ IF step = "cut" THEN SafeText(rest) /\ sent = 0 ELSE rest = <<>>
  /\ ChunksCarryTheReport

\* On the issue is what was sent of this text, after a beginning of the report
\* if this is the short one.
PostedOK ==
  /\ step # "return" => ~ failed
  /\ ~ failed =>
       \E k \in 0 .. Len(report) :
         /\ FlattenSeq(posted) = SubSeq(report, 1, k) \o FlattenSeq(SubSeq(chunks, 1, sent))
         /\ text = report => k = 0
  /\ step = "return" /\ ~ failed => sent = Len(chunks)

CommentIInv == CommentTypeOK /\ CutOK /\ PostedOK
=============================================================================
