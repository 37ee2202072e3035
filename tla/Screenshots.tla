----------------------------- MODULE Screenshots -----------------------------
(***************************************************************************)
(* publishScreenshotArtifacts (worker.go) and the download of what it      *)
(* publishes (handleArtifact in server.go).  Each review of a job leaves   *)
(* files in a staging directory; those that are pictures are copied under  *)
(* a cleaned name to a public directory, which all reviews of the job      *)
(* share, and the report gets a link to each.                              *)
(***************************************************************************)
EXTENDS SequencesExt

CONSTANTS
  Files,     \* what may be staged, in the order of os.ReadDir
  Kept,      \* what a public name may have: A to Z, a to z, numbers
  Lower,     \* strings.ToLower of these
  MaxShots,  \* maxScreenshotArtifacts, 12
  Rounds     \* bound on the reviews of the job

\* A file: the characters of its name before the extension, the extension (in
\* lower case; a file a.PNG next to a.png is a second one with the same fields)
\* and whether it passes the other tests: a regular file of the right size
\* that looks like an image and has no suspicious name.
ASSUME ScreenshotsAssumption ==
  /\ Files \in Seq([stem: Seq(STRING), ext: STRING, picture: BOOLEAN])
  /\ MaxShots \in Nat /\ Rounds \in Nat
  /\ Lower \in [Kept -> Kept] /\ Kept \cap {"-", "."} = {}
  /\ \A n \in 2 .. Rounds * Len(Files) :
       /\ ToString(n) \in Kept
       /\ \A m \in 2 .. Rounds * Len(Files) : ToString(m) = ToString(n) => m = n

VARIABLES
  round,   \* the reviews so far
  staged,  \* the staged files that this review still has to look at
  used,    \* the names that it may not take
  count,   \* how many pictures it has published
  public,  \* the public directory: the picture in each file, and how much of it
  links,   \* the links in the reports of the job, and the picture each is for
  due,     \* history: the pictures of this review
  faulty   \* history: the file system or the configuration failed this review

shotsVars == <<round, staged, used, count, public, links, due, faulty>>

Empty == [name \in {} |-> 0]

ShotsInit ==
  /\ round = 0 /\ staged = {} /\ used = {} /\ count = 0
  /\ public = Empty /\ links = {}
  /\ due = {} /\ faulty = FALSE

Extensions == {".png", ".jpg", ".jpeg", ".gif", ".webp"}

Publishable(i) == Files[i].picture /\ Files[i].ext \in Extensions

-----------------------------------------------------------------------------
(* safeScreenshotFileName                                                  *)

\* Mutant: dots within a name stay.
CleanKeepingDots(stem) ==
  [i \in DOMAIN stem |-> IF stem[i] \in Kept THEN Lower[stem[i]] ELSE stem[i]]

\* A character is added to a name; others become one dash, but not the first.
Add(s, c) ==
  IF c \in Kept THEN Append(s, Lower[c])
  ELSE IF s # <<>> /\ Last(s) # "-" THEN Append(s, "-") ELSE s

Dashed(stem) ==
  LET built[n \in 0 .. Len(stem)] == IF n = 0 THEN <<>> ELSE Add(built[n - 1], stem[n])
  IN built[Len(stem)]

\* The characters one by one, and no dash at the end.
Clean(stem) ==
  LET clean == Dashed(stem)
      trimmed == IF clean # <<>> /\ Last(clean) = "-" THEN Front(clean) ELSE clean
  IN IF trimmed = <<>> THEN <<"screenshot">> ELSE trimmed

\* The cleaned name, with -2, -3, ... until it is free.
Numbered(stem, n) == IF n = 1 THEN stem ELSE stem \o <<"-", ToString(n)>>

PublicName(i) ==
  LET stem == Clean(Files[i].stem)
      Name(n) == [stem |-> Numbered(stem, n), ext |-> Files[i].ext]
  IN Name(Min({n \in 1 .. Cardinality(used) + 1 : Name(n) \notin used}))

-----------------------------------------------------------------------------
(* publishScreenshotArtifacts                                              *)

\* markExistingPublicArtifacts
Existing == DOMAIN public

Review(files) ==
  /\ staged = {} /\ round < Rounds
  /\ round' = round + 1
  /\ count' = 0
  /\ due' = {i \in files : Publishable(i)}
  /\ UNCHANGED <<public, links>>

\* Mutant: only the names of this review are remembered.
BeginForgetful(files) ==
  /\ Review(files)
  /\ staged' = files
  /\ used' = {} /\ faulty' = FALSE

\* What is public marks its names as used; they are forgotten, without an error,
\* when the public directory cannot be read.  The files may be those of the
\* review before, when the staging directory could not be removed.
Begin(files) ==
  /\ Review(files)
  /\ staged' = files
  /\ \/ used' = Existing /\ faulty' = FALSE
     \/ used' = {} /\ faulty' = TRUE

\* There is no public URL, a directory is a link or cannot be read or made: the
\* report has no pictures, and nothing tells why.
ReturnEarly(files) ==
  /\ Review(files)
  /\ staged' = {}
  /\ faulty' = TRUE
  /\ UNCHANGED used

Look == staged # {} /\ count < MaxShots

PassOverFile ==
  /\ Look /\ ~ Publishable(Min(staged))
  /\ staged' = staged \ {Min(staged)}
  /\ UNCHANGED <<round, used, count, public, links, due, faulty>>

Enough ==
  /\ staged # {} /\ count >= MaxShots
  /\ staged' = {}
  /\ UNCHANGED <<round, used, count, public, links, due, faulty>>

\* What is in the public directory when a file has been added.
WithFile(name, content) ==
  [n \in DOMAIN public \cup {name} |-> IF n = name THEN content ELSE public[n]]

\* Mutant: os.O_TRUNC in place of os.O_EXCL.
PublishOverwriting ==
  LET i == Min(staged)
      name == PublicName(i)
      picture == [round |-> round, file |-> i]
  IN /\ Look /\ Publishable(i)
     /\ public' = WithFile(name, [picture |-> picture, whole |-> TRUE])
     /\ links' = links \cup {[name |-> name, picture |-> picture]}
     /\ used' = used \cup {name}
     /\ count' = count + 1
     /\ staged' = staged \ {i}
     /\ UNCHANGED <<round, due, faulty>>

\* os.O_EXCL: the file must be new.
Publish ==
  LET i == Min(staged)
      name == PublicName(i)
      picture == [round |-> round, file |-> i]
  IN /\ Look /\ Publishable(i)
     /\ name \notin DOMAIN public
     /\ public' = WithFile(name, [picture |-> picture, whole |-> TRUE])
     /\ links' = links \cup {[name |-> name, picture |-> picture]}
     /\ used' = used \cup {name}
     /\ count' = count + 1
     /\ staged' = staged \ {i}
     /\ UNCHANGED <<round, due, faulty>>

\* Nothing could be opened or created, a forgotten name is taken, or the copy
\* broke off in the middle; the name stays used, and what was written stays in
\* the public directory.
CopyFails ==
  LET i == Min(staged)
      name == PublicName(i)
      part == [picture |-> [round |-> round, file |-> i], whole |-> FALSE]
  IN /\ Look /\ Publishable(i)
     /\ public' \in {public} \cup (IF name \in DOMAIN public THEN {} ELSE {WithFile(name, part)})
     /\ used' = used \cup {name}
     /\ staged' = staged \ {i}
     /\ faulty' = (faulty \/ name \notin DOMAIN public)
     /\ UNCHANGED <<round, count, links, due>>

ShotsNext ==
  \/ \E files \in SUBSET DOMAIN Files : Begin(files) \/ ReturnEarly(files)
  \/ PassOverFile \/ Enough \/ Publish \/ CopyFails

ShotsSpec == ShotsInit /\ [][ShotsNext]_shotsVars

-----------------------------------------------------------------------------
(* handleArtifact                                                          *)

\* safeArtifactSegment and safeArtifactFile
SafeFile(name) ==
  /\ name.stem # <<>> /\ ToSet(name.stem) \subseteq Kept \cup {"-", "_", "screenshot"}
  /\ name.ext \in Extensions

\* A picture that was cut short still looks like one.
Served(name) == SafeFile(name) /\ name \in DOMAIN public

-----------------------------------------------------------------------------
(* Properties                                                              *)

\* A link in a report is answered with the picture it was made for, the whole
\* of it, also after later reviews have published files of the same name, and
\* whatever characters the name had.
LinksAreServed ==
  \A l \in links : Served(l.name) /\ public[l.name] = [picture |-> l.picture, whole |-> TRUE]

\* The pictures of this review that have a link.
Shown == {l.picture.file : l \in {k \in links : k.picture.round = round}}

\* A review that the file system did not fail shows all of its pictures, up to
\* the limit: none is lost to a name that an earlier review, another picture of
\* this one or the rest of a failed copy has taken.
EveryPictureIsShown ==
  staged = {} /\ round > 0 /\ ~ faulty =>
    IF Cardinality(due) <= MaxShots THEN Shown = due ELSE Cardinality(Shown) = MaxShots

-----------------------------------------------------------------------------
(* The inductive invariant                                                 *)

Picture == [round: 1 .. Rounds, file: DOMAIN Files]
Content == [picture: Picture, whole: BOOLEAN]

Taken == used \cup DOMAIN public

ShotsTypeOK ==
  /\ round \in 0 .. Rounds /\ staged \subseteq DOMAIN Files /\ due \subseteq DOMAIN Files
  /\ IsFiniteSet(Taken) /\ count \in 0 .. MaxShots /\ faulty \in BOOLEAN
  /\ public \in [DOMAIN public -> Content]
  /\ \A l \in links : l.picture \in Picture

\* Every public file has a name that is used, unless they were forgotten, and
\* there are numbers for as many names as the files of all reviews can take.
NamesOK ==
  /\ faulty \/ DOMAIN public \subseteq used
  /\ Cardinality(Taken) + Cardinality(staged) <= round * Len(Files)
  /\ LinksAreServed

\* The links of this review are for the pictures that it has looked at, all of
\* them if no copy failed and the limit was not reached.
ShownOK ==
  /\ \A l \in links : l.picture.round <= round
  /\ Shown \subseteq due \ staged /\ Cardinality(Shown) = count
  /\ \A i \in due : Publishable(i)
  /\ \A i \in staged : Publishable(i) => i \in due
  /\ \/ faulty
     \/ Shown = due \ staged
     \/ staged = {} /\ count = MaxShots

ShotsIInv == ShotsTypeOK /\ NamesOK /\ ShownOK
=============================================================================
