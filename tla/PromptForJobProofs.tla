-------------------------- MODULE PromptForJobProofs --------------------------
(***************************************************************************)
(* Proofs about PromptForJob, for any accounts, texts and initial issues,  *)
(* pages of any size, any number of changes, images and redirects.         *)
(***************************************************************************)
EXTENDS PromptForJob, SequenceTheorems, TLAPS

USE DEF github, worker, history, cursor, output

-----------------------------------------------------------------------------
(* What the actions do to a sequence of comments                           *)

\* A comment is appended.
LEMMA Appended ==
  ASSUME NEW S, NEW s \in Seq(S), NEW c \in S
  PROVE  /\ Append(s, c) \in Seq(S)
         /\ Len(Append(s, c)) = Len(s) + 1 /\ DOMAIN Append(s, c) = 1 .. Len(s) + 1
         /\ \A i \in 1 .. Len(s) : Append(s, c)[i] = s[i]
         /\ Append(s, c)[Len(s) + 1] = c
  BY SMT

\* A comment is deleted; those after it move up.
LEMMA Removed ==
  ASSUME NEW S, NEW s \in Seq(S), NEW p \in DOMAIN s
  PROVE  /\ RemoveAt(s, p) \in Seq(S)
         /\ Len(RemoveAt(s, p)) = Len(s) - 1 /\ DOMAIN RemoveAt(s, p) = 1 .. Len(s) - 1
         /\ \A i \in 1 .. Len(s) - 1 :
              RemoveAt(s, p)[i] = IF i < p THEN s[i] ELSE s[i + 1]
<1> DEFINE front == SubSeq(s, 1, p - 1)
           back == SubSeq(s, p + 1, Len(s))
<1>1. Len(s) \in Nat /\ p \in 1 .. Len(s) /\ \A i \in 1 .. Len(s) : s[i] \in S
  OBVIOUS
<1>2. /\ front \in Seq(S) /\ Len(front) = p - 1
      /\ \A i \in 1 .. p - 1 : front[i] = s[i]
  <2>1. \A i \in 1 .. p - 1 : s[i] \in S
    BY <1>1
  <2> HIDE DEF front
  <2>2. /\ front \in Seq(S) /\ Len(front) = IF 1 <= p - 1 THEN (p - 1) - 1 + 1 ELSE 0
        /\ \A i \in 1 .. (p - 1) - 1 + 1 : front[i] = s[1 + i - 1]
    BY <1>1, <2>1, SubSeqProperties DEF front
  <2> QED
    BY <1>1, <2>2
<1>3. /\ back \in Seq(S) /\ Len(back) = Len(s) - p
      /\ \A i \in 1 .. Len(s) - p : back[i] = s[p + i]
  <2>1. \A i \in p + 1 .. Len(s) : s[i] \in S
    BY <1>1
  <2> HIDE DEF back
  <2>2. /\ back \in Seq(S) /\ Len(back) = IF p + 1 <= Len(s) THEN Len(s) - (p + 1) + 1 ELSE 0
        /\ \A i \in 1 .. Len(s) - (p + 1) + 1 : back[i] = s[(p + 1) + i - 1]
    BY <1>1, <2>1, SubSeqProperties DEF back
  <2> QED
    BY <1>1, <2>2
<1>4. RemoveAt(s, p) = front \o back
  BY DEF RemoveAt
<1> HIDE DEF front, back
<1>5. /\ front \o back \in Seq(S) /\ Len(front \o back) = Len(front) + Len(back)
      /\ \A i \in 1 .. Len(front) + Len(back) : (front \o back)[i] =
           IF i <= Len(front) THEN front[i] ELSE back[i - Len(front)]
  BY <1>2, <1>3, ConcatProperties
<1>6. Len(RemoveAt(s, p)) = Len(s) - 1 /\ RemoveAt(s, p) \in Seq(S)
  BY <1>1, <1>2, <1>3, <1>4, <1>5
<1>7. ASSUME NEW i \in 1 .. Len(s) - 1
      PROVE  RemoveAt(s, p)[i] = IF i < p THEN s[i] ELSE s[i + 1]
  <2>1. CASE i < p
    BY <1>1, <1>2, <1>3, <1>4, <1>5, <2>1
  <2>2. CASE i >= p
    <3>1. i - (p - 1) \in 1 .. Len(s) - p /\ p + (i - (p - 1)) = i + 1 /\ ~ (i <= p - 1)
      BY <1>1, <2>2
    <3>2. i \in 1 .. Len(front) + Len(back) /\ Len(front) = p - 1
      BY <1>1, <1>2, <1>3
    <3>3. (front \o back)[i] = back[i - (p - 1)]
      BY <1>5, <3>1, <3>2
    <3>4. back[i - (p - 1)] = s[p + (i - (p - 1))]
      BY <1>3, <3>1
    <3>5. ~ (i < p)
      BY <1>1, <2>2
    <3> QED
      BY <1>4, <3>1, <3>3, <3>4, <3>5
  <2> QED
    BY <1>1, <2>1, <2>2
<1> QED
  BY <1>1, <1>6, <1>7

\* The page that follows what was fetched.
Page ==
  SubSeq(thread, Len(got) + 1,
         IF Len(thread) < Len(got) + PageSize THEN Len(thread) ELSE Len(got) + PageSize)

\* What was fetched stays, and the page brings the comments at the positions
\* after it; a page that is not full reaches the end of the thread.
LEMMA PageRead ==
  ASSUME NEW S, thread \in Seq(S), got \in Seq(S)
  PROVE  /\ got \o Page \in Seq(S)
         /\ Len(Page) \in Nat
         /\ Len(got \o Page) = Len(got) + Len(Page)
         /\ DOMAIN (got \o Page) = 1 .. Len(got) + Len(Page)
         /\ \A i \in 1 .. Len(got) : (got \o Page)[i] = got[i]
         /\ \A i \in Len(got) + 1 .. Len(got) + Len(Page) :
              i \in 1 .. Len(thread) /\ (got \o Page)[i] = thread[i]
         /\ Len(Page) < PageSize => Len(got) + Len(Page) >= Len(thread)
         /\ Len(thread) <= Len(got) => Len(Page) = 0
<1> DEFINE g == Len(got)
           n == IF Len(thread) < g + PageSize THEN Len(thread) ELSE g + PageSize
<1>1. /\ g \in Nat /\ Len(thread) \in Nat /\ PageSize \in Nat /\ PageSize > 0
      /\ n \in Nat /\ n <= Len(thread)
      /\ \A i \in 1 .. Len(thread) : thread[i] \in S
  BY ContextAssumption
<1>2. /\ Page \in Seq(S)
      /\ Len(Page) = IF g + 1 <= n THEN n - (g + 1) + 1 ELSE 0
      /\ \A i \in 1 .. n - (g + 1) + 1 : Page[i] = thread[(g + 1) + i - 1]
  <2>1. \A i \in g + 1 .. n : thread[i] \in S
    BY <1>1
  <2> QED
    BY <1>1, <2>1, SubSeqProperties DEF Page
<1>3. /\ Len(Page) = IF g < n THEN n - g ELSE 0
      /\ \A i \in 1 .. n - g : Page[i] = thread[g + i]
  <2>1. /\ g \in Nat /\ n \in Nat
        /\ Len(Page) = IF g + 1 <= n THEN n - (g + 1) + 1 ELSE 0
        /\ \A i \in 1 .. n - (g + 1) + 1 : Page[i] = thread[(g + 1) + i - 1]
    BY <1>1, <1>2
  <2> HIDE DEF g, n
  <2>2. Len(Page) = IF g < n THEN n - g ELSE 0
    BY <2>1
  <2>3. ASSUME NEW i \in 1 .. n - g PROVE Page[i] = thread[g + i]
    <3>1. i \in 1 .. n - (g + 1) + 1 /\ (g + 1) + i - 1 = g + i
      BY <2>1
    <3>2. Page[i] = thread[(g + 1) + i - 1]
      BY <2>1, <3>1
    <3> QED  BY <3>1, <3>2
  <2> QED  BY <2>2, <2>3
<1>4. /\ got \o Page \in Seq(S) /\ Len(got \o Page) = g + Len(Page)
      /\ \A i \in 1 .. g + Len(Page) :
           (got \o Page)[i] = IF i <= g THEN got[i] ELSE Page[i - g]
  BY <1>2, ConcatProperties
<1>5. \A i \in g + 1 .. g + Len(Page) :
        i \in 1 .. Len(thread) /\ (got \o Page)[i] = thread[i]
  <2> SUFFICES ASSUME NEW i \in g + 1 .. g + Len(Page)
               PROVE  i \in 1 .. Len(thread) /\ (got \o Page)[i] = thread[i]
    OBVIOUS
  <2>1. g < n /\ Len(Page) = n - g
    BY <1>1, <1>3
  <2>2. i - g \in 1 .. n - g /\ g + (i - g) = i /\ i \in 1 .. g + Len(Page) /\ ~ (i <= g)
    BY <1>1, <2>1
  <2> HIDE DEF g, n
  <2> QED
    BY <1>1, <1>3, <1>4, <2>1, <2>2
<1>6. Len(Page) < PageSize => g + Len(Page) >= Len(thread)
  BY <1>1, <1>3
<1>7. Len(thread) <= g => Len(Page) = 0
  BY <1>1, <1>3
<1> QED
  BY <1>1, <1>3, <1>4, <1>5, <1>6, <1>7

-----------------------------------------------------------------------------
(* Types                                                                   *)

\* An event is one of its type.
LEMMA FollowType ==
  ASSUME ContextTypeOK, NEW comment \in Nat, NEW account \in Accounts, NEW text \in Texts,
         Follow(comment, account, text)
  PROVE  hook' \in HookType /\ phase' \in Phases
<1>1. issue.closed \in BOOLEAN /\ issue.locked \in BOOLEAN
  BY DEF ContextTypeOK, IssueType
<1>2. CASE UNCHANGED <<hook, phase>>
  BY <1>2 DEF ContextTypeOK
<1>3. CASE hook' = [comment |-> comment, sender |-> account, text |-> text,
                    closed |-> issue.closed, locked |-> issue.locked] /\ phase' = "sent"
  BY <1>1, <1>3 DEF HookType, Phases
<1> QED
  BY <1>2, <1>3 DEF Follow

LEMMA ContextTypeStep == ContextTypeOK /\ ContextNext => ContextTypeOK'
<1> SUFFICES ASSUME ContextTypeOK, ContextNext PROVE ContextTypeOK'
  OBVIOUS
<1> USE DEF ContextTypeOK
<1>0. /\ touched' \in BOOLEAN /\ shifted' \in BOOLEAN
      /\ wasCurrent' \in BOOLEAN /\ wasOpen' \in BOOLEAN
  BY DEF ContextNext, People, Post, Edit, Delete, EditIssue, Switch, Deliver, FetchIssue,
         FetchPage, Fail, Check, Witnessed, TouchedIf
<1>1. ASSUME NEW account \in Accounts, NEW text \in Texts, Post(account, text)
      PROVE  ContextTypeOK'
  <2>1. [id |-> nextId, author |-> account, text |-> text] \in Comment
    BY DEF Comment
  <2>2. thread' \in Seq(Comment)
    BY <1>1, <2>1, Appended DEF Post
  <2> QED
    BY <1>0, <1>1, <2>2, FollowType DEF Post, Change
<1>2. ASSUME NEW account \in Accounts, NEW text \in Texts, NEW p \in DOMAIN thread,
             Edit(p, account, text)
      PROVE  ContextTypeOK'
  <2>1. thread[p] \in Comment
    BY ElementOfSeq
  <2>2. [thread[p] EXCEPT !.text = text] \in Comment
    BY <2>1 DEF Comment
  <2>3. thread' \in Seq(Comment)
    BY <1>2, <2>2, ExceptSeq DEF Edit
  <2>4. thread[p].id \in Nat
    BY <2>1 DEF Comment
  <2> QED
    BY <1>0, <1>2, <2>3, <2>4, FollowType DEF Edit, Change
<1>3. ASSUME NEW p \in DOMAIN thread, Delete(p) PROVE ContextTypeOK'
  <2>1. thread' \in Seq(Comment)
    BY <1>3, Removed DEF Delete
  <2>2. present' \subseteq Nat
    BY <1>3 DEF Delete
  <2>3. changes' \in Nat
    <3>1. changes \in Nat
      OBVIOUS
    <3>2. changes' = changes + 1
      BY <1>3 DEF Delete, Change
    <3> QED
      BY <3>1, <3>2
  <2> QED
    BY <1>0, <1>3, <2>1, <2>2, <2>3 DEF Delete, Change
<1>4. ASSUME NEW account \in Accounts, NEW text \in Texts, EditIssue(account, text)
      PROVE  ContextTypeOK'
  <2>1. issue' \in IssueType
    BY <1>4 DEF EditIssue, IssueType
  <2>2. hook' \in HookType /\ phase' \in Phases
    <3>1. 0 \in Nat /\ Follow(0, account, text)
      BY <1>4 DEF EditIssue
    <3> QED
      BY <3>1, FollowType
  <2>3. changes' \in Nat
    <3>1. changes \in Nat
      OBVIOUS
    <3>2. changes' = changes + 1
      BY <1>4 DEF EditIssue, Change
    <3> QED
      BY <3>1, <3>2
  <2> QED
    BY <1>0, <1>4, <2>1, <2>2, <2>3 DEF EditIssue, Change
<1>5. ASSUME NEW field \in {"closed", "locked"}, Switch(field) PROVE ContextTypeOK'
  <2>1. issue' \in IssueType
    BY <1>5 DEF Switch, IssueType
  <2> QED
    BY <1>0, <1>5, <2>1 DEF Switch, Change
<1>6. CASE Deliver
  <2>1. CASE Accepted
    <3>1. \A i \in DOMAIN hook.text.commands : hook.text.commands[i].name \in Commands
      BY <2>1 DEF Accepted, HookCommands, ParseBody, ValidLine
    <3>2. HookCommands[1] \in Commands
      <4>1. hook.text.commands \in Seq([name: STRING, minutes: Nat])
        <5>1. hook.text \in Texts \cup {NoText}
          BY DEF HookType
        <5>2. CASE hook.text \in Texts
          BY <5>2, PromptAssumption
        <5>3. CASE hook.text = NoText
          BY <5>3, EmptySeq DEF NoText
        <5> QED
          BY <5>1, <5>2, <5>3
      <4>2. HookCommands = [i \in DOMAIN hook.text.commands |-> hook.text.commands[i].name]
        BY <2>1 DEF Accepted, HookCommands, ParseBody
      <4>3. hook.text.commands # <<>>
        BY <2>1, <4>2 DEF Accepted
      <4>4. 1 \in DOMAIN hook.text.commands
        BY <4>1, <4>3
      <4> QED
        BY <3>1, <4>2, <4>4
    <3> QED
      BY <1>0, <1>6, <2>1, <3>2 DEF Deliver, Phases, HookType
  <2>2. CASE ~ Accepted
    BY <1>0, <1>6, <2>2 DEF Deliver, Phases
  <2> QED
    BY <2>1, <2>2
<1>7. CASE FetchIssue
  <2>1. ASSUME NEW i \in DOMAIN thread PROVE thread[i].id \in Nat
    <3>1. thread[i] \in Comment
      BY ElementOfSeq
    <3> QED
      BY <3>1 DEF Comment
  <2>2. Ids(thread) \subseteq Nat
    BY <2>1 DEF Ids
  <2> QED
    BY <1>0, <1>7, <2>2 DEF FetchIssue, Phases
<1>8. CASE FetchPage
  <2>1. got' \in Seq(Comment)
    BY <1>8, PageRead DEF FetchPage, Page
  <2> QED
    BY <1>0, <1>8, <2>1 DEF FetchPage, Phases
<1>9. CASE Fail
  BY <1>0, <1>9 DEF Fail, Phases
<1>10. CASE Check
  BY <1>0, <1>10 DEF Check, Phases
<1> QED
  BY <1>1, <1>2, <1>3, <1>4, <1>5, <1>6, <1>7, <1>8, <1>9, <1>10 DEF ContextNext, People

\* The lists are sequences of references.
LEMMA ReferencesType ==
  ASSUME ContextTypeOK PROVE CollaboratorReferences \in Seq(Seq(Url))
<1>1. ASSUME NEW post, post.text \in Texts PROVE Trusted(post) \in Seq(Url)
  BY <1>1, PromptAssumption, EmptySeq DEF Trusted
<1>2. <<Trusted(seen)>> \in Seq(Seq(Url))
  BY <1>1 DEF ContextTypeOK, IssueType
<1>3. [i \in DOMAIN got |-> Trusted(got[i])] \in Seq(Seq(Url))
  <2>1. ASSUME NEW i \in 1 .. Len(got) PROVE Trusted(got[i]) \in Seq(Url)
    <3>1. got[i] \in Comment
      BY ElementOfSeq DEF ContextTypeOK
    <3> QED
      BY <1>1, <3>1 DEF Comment
  <2>2. Len(got) \in Nat /\ DOMAIN got = 1 .. Len(got)
    BY DEF ContextTypeOK
  <2> QED
    BY <2>1, <2>2
<1> QED
  BY <1>2, <1>3, ConcatProperties DEF CollaboratorReferences

LEMMA StartType ==
  ASSUME ContextTypeOK, ImagesTypeOK, DownloadOK, CollectIssueImages PROVE ImagesTypeOK'
<1>1. refs' \in Seq(Seq(Url)) /\ list' = list /\ collect' \in {"done", "running", "aborted"}
  BY ReferencesType DEF CollectIssueImages, Start, NoDirectory
<1>2. list \in 1 .. Len(refs')+ 1
  <2>1. collect = "off"
    BY DEF CollectIssueImages, Start, NoDirectory
  <2>2. list = 1
    BY <2>1 DEF DownloadOK, ImagesTypeOK
  <2>3. Len(refs') \in Nat
    BY <1>1
  <2> QED
    BY <2>2, <2>3
<1> QED
  BY <1>1, <1>2 DEF ImagesTypeOK, CollectIssueImages, Start, NoDirectory

\* The reference at the cursor.
LEMMA AtUrl == ASSUME ImagesTypeOK, AtReference PROVE Reference \in Url
<1>1. refs[list] \in Seq(Url)
  BY ElementOfSeq DEF ImagesTypeOK, AtReference
<1>2. at + 1 \in DOMAIN refs[list]
  BY <1>1 DEF ImagesTypeOK, AtReference
<1> QED
  BY <1>1, <1>2, ElementOfSeq DEF Reference

\* The first and the last request of a chain.
LEMMA ChainEnds ==
  ASSUME ImagesTypeOK, chain # <<>>
  PROVE  /\ Len(chain) \in Nat \ {0} /\ Last(chain) = chain[Len(chain)]
         /\ chain[1] \in Url /\ Last(chain) \in Url
<1>1. Len(chain) \in Nat \ {0} /\ DOMAIN chain = 1 .. Len(chain)
  BY DEF ImagesTypeOK
<1>2. chain[1] \in Url /\ chain[Len(chain)] \in Url
  BY <1>1, ElementOfSeq DEF ImagesTypeOK
<1> QED
  BY <1>1, <1>2 DEF Last

LEMMA ImagesTypeStep == ImagesTypeOK /\ DownloadOK /\ ImagesNext => ImagesTypeOK'
<1> SUFFICES ASSUME ImagesTypeOK, DownloadOK, ImagesNext PROVE ImagesTypeOK'
  OBVIOUS
<1> USE DEF ImagesTypeOK
<1>1. CASE NextText
  BY <1>1 DEF NextText
<1>2. CASE Finish
  BY <1>2 DEF Finish
<1>3. CASE LimitReached
  BY <1>3 DEF LimitReached
<1>4. CASE PassOver
  BY <1>4 DEF PassOver, Considered
<1>5. CASE Reject
  BY <1>5, AtUrl DEF Reject, Considered
<1>6. CASE Request
  <2>1. Reference \in Url
    BY <1>6, AtUrl DEF Request, Considered
  <2>2. chain' \in Seq(Url) /\ Len(chain') = 1 /\ tried' \subseteq Url
    BY <1>6, <2>1 DEF Request
  <2> QED
    BY <1>6, <2>2, ImagesAssumption DEF Request
<1>7. ASSUME NEW u \in Url, Redirect(u) PROVE ImagesTypeOK'
  BY <1>7, ImagesAssumption DEF Redirect
<1>8. CASE Skip
  <2>1. Reference \in Url
    BY <1>8, AtUrl DEF Skip, Downloading, DownloadOK
  <2>2. chain' \in Seq(Url) /\ Len(chain') = 0
    BY <1>8 DEF Skip
  <2> QED
    BY <1>8, <2>1, <2>2, ImagesAssumption DEF Skip
<1>9. CASE Attach
  <2>1. Reference \in Url
    BY <1>9, AtUrl DEF Attach, Downloading, DownloadOK
  <2>2. chain' \in Seq(Url) /\ Len(chain') = 0
    BY <1>9 DEF Attach
  <2>3. Len(images) + 1 \in 1 .. MaxImages
    BY <1>9, ImagesAssumption DEF Attach, Downloading, DownloadOK
  <2>4. Content \in [asked: Url, from: Url]
    BY <1>9, ChainEnds DEF Attach, Downloading, Content
  <2>5. disk' \in [1 .. MaxImages -> [asked: Url, from: Url] \cup {NoFile}]
    BY <1>9, <2>3, <2>4 DEF Attach
  <2>6. images' \in Seq([url: Url, file: 1 .. MaxImages])
    BY <1>9, <2>1, <2>3 DEF Attach
  <2> QED
    BY <1>9, <2>2, <2>5, <2>6, ImagesAssumption DEF Attach
<1>10. CASE Abort
  <2>1. chain' \in Seq(Url) /\ Len(chain') = 0
    BY <1>10 DEF Abort
  <2> QED
    BY <1>10, <2>1, ImagesAssumption DEF Abort
<1> QED
  BY <1>1, <1>2, <1>3, <1>4, <1>5, <1>6, <1>7, <1>8, <1>9, <1>10 DEF ImagesNext

-----------------------------------------------------------------------------
(* Ids and authors                                                         *)

LEMMA IdsTyped ==
  ASSUME ContextTypeOK
  PROVE  /\ Len(thread) \in Nat /\ DOMAIN thread = 1 .. Len(thread)
         /\ Len(got) \in Nat /\ DOMAIN got = 1 .. Len(got)
         /\ \A i \in DOMAIN thread : thread[i].id \in Nat \ {0}
         /\ \A i \in DOMAIN got : got[i].id \in Nat \ {0}
         /\ nextId \in Nat \ {0} /\ hook.comment \in Nat
<1>1. \A i \in DOMAIN thread : thread[i] \in Comment
  BY ElementOfSeq DEF ContextTypeOK
<1>2. \A i \in DOMAIN got : got[i] \in Comment
  BY ElementOfSeq DEF ContextTypeOK
<1> QED
  BY <1>1, <1>2 DEF ContextTypeOK, Comment, HookType

\* A new comment has the next id.
LEMMA PostThread ==
  ASSUME ContextTypeOK, NEW account \in Accounts, NEW text \in Texts, Post(account, text)
  PROVE  /\ Len(thread') = Len(thread) + 1 /\ DOMAIN thread' = 1 .. Len(thread) + 1
         /\ \A i \in 1 .. Len(thread) : thread'[i] = thread[i]
         /\ thread'[Len(thread) + 1] = [id |-> nextId, author |-> account, text |-> text]
<1>1. [id |-> nextId, author |-> account, text |-> text] \in Comment
  BY DEF Comment, ContextTypeOK
<1> QED
  BY <1>1, Appended DEF Post, ContextTypeOK

\* An edit changes one text.
LEMMA EditThread ==
  ASSUME ContextTypeOK, NEW account \in Accounts, NEW text \in Texts, NEW p \in DOMAIN thread,
         Edit(p, account, text)
  PROVE  /\ Len(thread') = Len(thread) /\ DOMAIN thread' = DOMAIN thread
         /\ \A i \in DOMAIN thread :
              /\ thread'[i].id = thread[i].id /\ thread'[i].author = thread[i].author
              /\ i # p => thread'[i].text = thread[i].text
         /\ thread'[p].text = text
<1>1. \A i \in DOMAIN thread : thread[i] \in Comment
  BY ElementOfSeq DEF ContextTypeOK
<1>2. thread' = [thread EXCEPT ![p] = [thread[p] EXCEPT !.text = text]]
  BY DEF Edit
<1>3. Len(thread') = Len(thread) /\ DOMAIN thread' = DOMAIN thread
  BY <1>2 DEF ContextTypeOK
<1> QED
  BY <1>1, <1>2, <1>3 DEF Comment

\* A deletion moves the comments after it up.
LEMMA DeleteThread ==
  ASSUME ContextTypeOK, NEW p \in DOMAIN thread, Delete(p)
  PROVE  /\ Len(thread') = Len(thread) - 1 /\ DOMAIN thread' = 1 .. Len(thread) - 1
         /\ \A i \in 1 .. Len(thread) - 1 :
              thread'[i] = IF i < p THEN thread[i] ELSE thread[i + 1]
  BY Removed DEF Delete, ContextTypeOK

\* An event is followed only once, and its comment has an id.
LEMMA Followed ==
  ASSUME NEW comment, NEW account, NEW text, Follow(comment, account, text)
  PROVE  \/ hook' = hook /\ phase' = phase
         \/ /\ phase = "idle" /\ phase' = "sent"
            /\ hook'.comment = comment /\ hook'.text = text
            /\ hook'.closed = issue.closed /\ hook'.locked = issue.locked
  BY DEF Follow

LEMMA ThreadStep ==
  ASSUME ContextTypeOK, ThreadOK, FetchOK, ContextNext PROVE ThreadOK'
<1> DEFINE n == Len(thread)
           g == Len(got)
<1>a. /\ n \in Nat /\ DOMAIN thread = 1 .. n /\ g \in Nat /\ DOMAIN got = 1 .. g
      /\ \A i \in 1 .. n : thread[i].id \in Nat \ {0}
      /\ \A i \in 1 .. g : got[i].id \in Nat \ {0}
      /\ nextId \in Nat \ {0} /\ hook.comment \in Nat
  BY IdsTyped
<1>b. /\ \A i, k \in 1 .. n : i < k => thread[i].id < thread[k].id
      /\ \A i \in 1 .. n : thread[i].id < nextId
  BY <1>a DEF ThreadOK, Ascending
<1>c. /\ Ascending(got)
      /\ \A i \in 1 .. g : got[i].id < nextId
      /\ \A i \in 1 .. g, k \in 1 .. n :
           got[i].id = thread[k].id => got[i].author = thread[k].author
      /\ hook.comment < nextId
  BY <1>a DEF ThreadOK
<1> HIDE DEF n, g
<1>d. ASSUME got' = got, nextId' \in Nat, nextId' >= nextId,
             Ascending(thread'), \A i \in DOMAIN thread' : thread'[i].id < nextId',
             \A i \in 1 .. g, k \in DOMAIN thread' :
               got[i].id = thread'[k].id => got[i].author = thread'[k].author,
             hook'.comment < nextId'
      PROVE  ThreadOK'
  <2>1. Ascending(got') /\ \A i \in 1 .. g : got[i].id < nextId'
    BY <1>a, <1>c, <1>d DEF Ascending
  <2> QED
    BY <1>a, <1>d, <2>1 DEF ThreadOK, Ascending
<1>1. ASSUME NEW account \in Accounts, NEW text \in Texts, Post(account, text)
      PROVE  ThreadOK'
  <2>1. got' = got /\ nextId' = nextId + 1
    BY <1>1 DEF Post, Change
  <2>2. /\ DOMAIN thread' = 1 .. n + 1
        /\ \A i \in 1 .. n : thread'[i] = thread[i]
        /\ thread'[n + 1].id = nextId
    <3>1. thread'[n + 1] = [id |-> nextId, author |-> account, text |-> text]
      BY <1>1, PostThread DEF n
    <3>2. /\ DOMAIN thread' = 1 .. n + 1
          /\ \A i \in 1 .. n : thread'[i] = thread[i]
      BY <1>1, PostThread DEF n
    <3> QED
      BY <3>1, <3>2
  <2>3. \A i, k \in 1 .. n + 1 : i < k => thread'[i].id < thread'[k].id
    BY <1>a, <1>b, <2>2
  <2>4. \A i \in DOMAIN thread' : thread'[i].id < nextId'
    BY <1>a, <1>b, <2>1, <2>2
  <2>5. \A i \in 1 .. g, k \in DOMAIN thread' :
          got[i].id = thread'[k].id => got[i].author = thread'[k].author
    BY <1>a, <1>c, <2>2
  <2>6. hook'.comment < nextId'
    <3>1. hook'.comment = hook.comment \/ hook'.comment = nextId
      BY <1>1, Followed DEF Post
    <3> QED
      BY <1>a, <1>c, <2>1, <3>1
  <2>7. Ascending(thread')
    BY <2>2, <2>3 DEF Ascending
  <2>8. nextId' \in Nat /\ nextId' >= nextId
    BY <1>a, <2>1
  <2> QED
    BY <1>d, <2>1, <2>4, <2>5, <2>6, <2>7, <2>8
<1>2. ASSUME NEW account \in Accounts, NEW text \in Texts, NEW p \in DOMAIN thread,
             Edit(p, account, text)
      PROVE  ThreadOK'
  <2>1. got' = got /\ nextId' = nextId
    BY <1>2 DEF Edit, Change
  <2>2. /\ DOMAIN thread' = 1 .. n
        /\ \A i \in 1 .. n : thread'[i].id = thread[i].id /\ thread'[i].author = thread[i].author
    BY <1>2, <1>a, EditThread
  <2>3. \A i, k \in 1 .. n : i < k => thread'[i].id < thread'[k].id
    BY <1>b, <2>2
  <2>4. \A i \in DOMAIN thread' : thread'[i].id < nextId'
    BY <1>b, <2>1, <2>2
  <2>5. \A i \in 1 .. g, k \in DOMAIN thread' :
          got[i].id = thread'[k].id => got[i].author = thread'[k].author
    BY <1>c, <2>2
  <2>6. hook'.comment < nextId'
    <3>1. hook'.comment = hook.comment \/ hook'.comment = thread[p].id
      BY <1>2, Followed DEF Edit
    <3> QED
      BY <1>a, <1>b, <1>c, <2>1, <3>1
  <2>7. Ascending(thread')
    BY <2>2, <2>3 DEF Ascending
  <2> QED
    BY <1>a, <1>d, <2>1, <2>4, <2>5, <2>6, <2>7
<1>3. ASSUME NEW p \in DOMAIN thread, Delete(p) PROVE ThreadOK'
  <2>1. got' = got /\ nextId' = nextId /\ hook' = hook
    BY <1>3 DEF Delete, Change
  <2>2. /\ DOMAIN thread' = 1 .. n - 1
        /\ \A i \in 1 .. n - 1 : thread'[i] = IF i < p THEN thread[i] ELSE thread[i + 1]
    BY <1>3, DeleteThread DEF n
  <2>p. p \in Nat
    BY <1>a
  <2>3. \A i, k \in 1 .. n - 1 : i < k => thread'[i].id < thread'[k].id
    BY <1>a, <1>b, <2>2, <2>p
  <2>4. \A i \in DOMAIN thread' : thread'[i].id < nextId'
    BY <1>a, <1>b, <2>1, <2>2, <2>p
  <2>5. \A i \in 1 .. g, k \in DOMAIN thread' :
          got[i].id = thread'[k].id => got[i].author = thread'[k].author
    <3> SUFFICES ASSUME NEW i \in 1 .. g, NEW k \in 1 .. n - 1,
                        got[i].id = thread'[k].id
                 PROVE  got[i].author = thread'[k].author
      BY <2>2
    <3>1. \E j \in 1 .. n : thread'[k] = thread[j]
      BY <1>a, <2>2, <2>p
    <3> QED
      BY <1>c, <3>1
  <2>7. Ascending(thread')
    BY <2>2, <2>3 DEF Ascending
  <2> QED
    BY <1>a, <1>c, <1>d, <2>1, <2>4, <2>5, <2>7
<1>4. ASSUME thread' = thread, got' = got, nextId' = nextId,
             hook'.comment = hook.comment \/ hook'.comment = 0
      PROVE  ThreadOK'
  <2>1. hook'.comment < nextId'
    BY <1>4, <1>a, <1>c
  <2> QED
    BY <1>4, <2>1 DEF ThreadOK, Ascending
<1>5. ASSUME NEW account \in Accounts, NEW text \in Texts, EditIssue(account, text)
      PROVE  ThreadOK'
  BY <1>4, <1>5, Followed DEF EditIssue, Change
<1>6. ASSUME NEW field \in {"closed", "locked"}, Switch(field) PROVE ThreadOK'
  BY <1>4, <1>6 DEF Switch, Change
<1>7. CASE Deliver \/ FetchIssue \/ Fail \/ Check
  BY <1>4, <1>7 DEF Deliver, FetchIssue, Fail, Check
<1>8. CASE FetchPage
  <2> DEFINE z == Len(Page)
  <2>1. /\ thread' = thread /\ nextId' = nextId /\ hook' = hook
        /\ phase = "paging" /\ got' = got \o Page
    BY <1>8 DEF FetchPage, Page
  <2>2. /\ z \in Nat /\ DOMAIN got' = 1 .. g + z
        /\ \A i \in 1 .. g : got'[i] = got[i]
        /\ \A i \in g + 1 .. g + z : i \in 1 .. n /\ got'[i] = thread[i]
    BY <2>1, PageRead DEF ContextTypeOK, g, n
  <2>3. \A i \in 1 .. g, k \in 1 .. n : k > g => got[i].id < thread[k].id
    BY <1>a, <2>1 DEF FetchOK, g
  <2> HIDE DEF z
  <2>4. \A i, k \in 1 .. g + z : i < k => got'[i].id < got'[k].id
    <3> SUFFICES ASSUME NEW i \in 1 .. g + z, NEW k \in 1 .. g + z, i < k
                 PROVE  got'[i].id < got'[k].id
      OBVIOUS
    <3>1. CASE k <= g
      <4>1. i \in 1 .. g /\ k \in 1 .. g
        BY <1>a, <2>2, <3>1
      <4> QED
        BY <1>a, <1>c, <2>2, <4>1 DEF Ascending
    <3>2. CASE i <= g /\ k > g
      <4>1. i \in 1 .. g /\ k \in g + 1 .. g + z
        BY <1>a, <2>2, <3>2
      <4> QED
        BY <1>a, <2>2, <2>3, <4>1
    <3>3. CASE i > g
      <4>1. i \in g + 1 .. g + z /\ k \in g + 1 .. g + z
        BY <1>a, <2>2, <3>3
      <4> QED
        BY <1>b, <2>2, <4>1
    <3> QED
      BY <1>a, <2>2, <3>1, <3>2, <3>3
  <2>5. \A i \in 1 .. g + z : got'[i].id < nextId
    <3> SUFFICES ASSUME NEW i \in 1 .. g + z PROVE got'[i].id < nextId
      OBVIOUS
    <3>1. i \in 1 .. g \/ i \in g + 1 .. g + z
      BY <1>a, <2>2
    <3> QED
      BY <1>b, <1>c, <2>2, <3>1
  <2>6. \A i \in 1 .. g + z, k \in 1 .. n :
          got'[i].id = thread[k].id => got'[i].author = thread[k].author
    <3> SUFFICES ASSUME NEW i \in 1 .. g + z, NEW k \in 1 .. n, got'[i].id = thread[k].id
                 PROVE  got'[i].author = thread[k].author
      OBVIOUS
    <3>1. CASE i \in 1 .. g
      BY <1>c, <2>2, <3>1
    <3>2. CASE i \in g + 1 .. g + z
      <4>1. i \in 1 .. n /\ got'[i] = thread[i]
        BY <2>2, <3>2
      <4>2. i = k
        BY <1>a, <1>b, <4>1
      <4> QED
        BY <4>1, <4>2
    <3> QED
      BY <1>a, <2>2, <3>1, <3>2
  <2>7. Ascending(got') /\ Ascending(thread')
    BY <1>a, <1>b, <2>1, <2>2, <2>4 DEF Ascending
  <2>8. /\ \A i \in DOMAIN thread' : thread'[i].id < nextId'
        /\ hook'.comment < nextId'
    BY <1>a, <1>b, <1>c, <2>1
  <2>9. \A i \in DOMAIN got' : got'[i].id < nextId'
    BY <2>1, <2>2, <2>5
  <2>10. \A i \in DOMAIN got', k \in DOMAIN thread' :
           got'[i].id = thread'[k].id => got'[i].author = thread'[k].author
    BY <1>a, <2>1, <2>2, <2>6
  <2> QED
    BY <2>7, <2>8, <2>9, <2>10 DEF ThreadOK
<1> QED
  BY <1>1, <1>2, <1>3, <1>5, <1>6, <1>7, <1>8 DEF ContextNext, People

-----------------------------------------------------------------------------
(* What was fetched                                                        *)

\* Where a command goes from where it is.
LEMMA PhaseStep ==
  ASSUME ContextNext
  PROVE  /\ phase' = "idle" => phase = "idle"
         /\ phase' = "sent" => phase \in {"idle", "sent"}
         /\ phase' = "queued" => phase \in {"sent", "queued"}
         /\ phase' = "paging" => phase \in {"queued", "paging"}
         /\ phase' = "fetched" => phase = "paging"
         /\ phase' \in {"images", "rejected"} => phase = "fetched"
         /\ phase \notin {"images", "prepared", "rejected"} /\ phase' # "prepared"
<1>1. ASSUME NEW account \in Accounts, NEW text \in Texts, Post(account, text)
      PROVE  phase \in {"idle", "sent", "queued", "paging"}
             /\ (phase' = phase \/ (phase = "idle" /\ phase' = "sent"))
  <2>1. Follow(nextId, account, text)
    BY <1>1 DEF Post
  <2>2. phase' = phase \/ (phase = "idle" /\ phase' = "sent")
    BY <2>1 DEF Follow
  <2>3. phase \in {"idle", "sent", "queued", "paging"}
    BY <1>1 DEF Post, Change
  <2> QED
    BY <2>2, <2>3
<1>2. ASSUME NEW account \in Accounts, NEW text \in Texts, NEW p \in DOMAIN thread,
             Edit(p, account, text)
      PROVE  phase \in {"idle", "sent", "queued", "paging"}
             /\ (phase' = phase \/ (phase = "idle" /\ phase' = "sent"))
  <2>1. Follow(thread[p].id, account, text)
    BY <1>2 DEF Edit
  <2>2. phase' = phase \/ (phase = "idle" /\ phase' = "sent")
    BY <2>1 DEF Follow
  <2>3. phase \in {"idle", "sent", "queued", "paging"}
    BY <1>2 DEF Edit, Change
  <2> QED
    BY <2>2, <2>3
<1>3. ASSUME NEW account \in Accounts, NEW text \in Texts, EditIssue(account, text)
      PROVE  phase \in {"idle", "sent", "queued", "paging"}
             /\ (phase' = phase \/ (phase = "idle" /\ phase' = "sent"))
  <2>1. Follow(0, account, text)
    BY <1>3 DEF EditIssue
  <2>2. phase' = phase \/ (phase = "idle" /\ phase' = "sent")
    BY <2>1 DEF Follow
  <2>3. phase \in {"idle", "sent", "queued", "paging"}
    BY <1>3 DEF EditIssue, Change
  <2> QED
    BY <2>2, <2>3
<1>4. ASSUME NEW p \in DOMAIN thread, Delete(p)
      PROVE  phase \in {"idle", "sent", "queued", "paging"} /\ phase' = phase
  BY <1>4 DEF Delete, Change
<1>5. ASSUME NEW field \in {"closed", "locked"}, Switch(field)
      PROVE  phase \in {"idle", "sent", "queued", "paging"} /\ phase' = phase
  BY <1>5 DEF Switch, Change
<1>6. CASE Deliver
  BY <1>6 DEF Deliver
<1>7. CASE FetchIssue
  BY <1>7 DEF FetchIssue
<1>8. CASE FetchPage
  BY <1>8 DEF FetchPage
<1>9. CASE Fail
  BY <1>9 DEF Fail
<1>10. CASE Check
  BY <1>10 DEF Check
<1>11. CASE People
  BY <1>1, <1>2, <1>3, <1>4, <1>5, <1>11 DEF People
<1> QED
  BY <1>6, <1>7, <1>8, <1>9, <1>10, <1>11 DEF ContextNext

\* While the pages are read, the comments yet to come are younger than those
\* fetched, and unless one of these was deleted they are the first of the thread.
Prefix ==
  /\ \A i \in DOMAIN got, k \in DOMAIN thread : k > Len(got) => got[i].id < thread[k].id
  /\ present \subseteq Ids(thread)
  /\ ~ shifted => /\ Len(got) <= Len(thread)
                  /\ \A i \in DOMAIN got : got[i].id = thread[i].id

LEMMA PrefixStep ==
  ASSUME ContextTypeOK, ThreadOK, FetchOK, ContextNext, phase' \in {"paging", "fetched"}
  PROVE  Prefix'
<1> DEFINE n == Len(thread)
           g == Len(got)
<1>a. /\ n \in Nat /\ DOMAIN thread = 1 .. n /\ g \in Nat /\ DOMAIN got = 1 .. g
      /\ \A i \in 1 .. n : thread[i].id \in Nat \ {0}
      /\ \A i \in 1 .. g : got[i].id \in Nat \ {0}
      /\ nextId \in Nat \ {0}
  BY IdsTyped
<1>b. /\ \A i, k \in 1 .. n : i < k => thread[i].id < thread[k].id
      /\ \A i \in 1 .. g : got[i].id < nextId
  BY <1>a DEF ThreadOK, Ascending
<1>c. phase = "paging" => Prefix
  BY DEF FetchOK, Prefix
<1>d. phase = "queued" => got = <<>> /\ ~ shifted
  BY DEF FetchOK
<1>e. phase \in {"queued", "paging"}
  BY PhaseStep
<1> HIDE DEF n, g
<1>1. ASSUME NEW account \in Accounts, NEW text \in Texts, Post(account, text)
      PROVE  Prefix'
  <2>1. phase = "paging" /\ got' = got /\ shifted' = shifted /\ present' = present
    BY <1>1, <1>e, Followed DEF Post, Change
  <2>2. /\ Len(thread') = n + 1 /\ DOMAIN thread' = 1 .. n + 1
        /\ \A i \in 1 .. n : thread'[i] = thread[i]
        /\ thread'[n + 1] = [id |-> nextId, author |-> account, text |-> text]
    BY <1>1, PostThread DEF n
  <2>3. thread'[n + 1].id = nextId
    BY <2>2
  <2>4. \A i \in 1 .. g, k \in 1 .. n + 1 : k > g => got[i].id < thread'[k].id
    <3> SUFFICES ASSUME NEW i \in 1 .. g, NEW k \in 1 .. n + 1, k > g
                 PROVE  got[i].id < thread'[k].id
      OBVIOUS
    <3>1. CASE k \in 1 .. n
      BY <1>a, <1>c, <2>1, <2>2, <3>1 DEF Prefix, g
    <3>2. CASE k = n + 1
      BY <1>b, <2>3, <3>2
    <3>3. k \in 1 .. n \/ k = n + 1
      BY <1>a
    <3> QED
      BY <3>1, <3>2, <3>3
  <2>5. Ids(thread) \subseteq Ids(thread')
    BY <1>a, <2>2 DEF Ids
  <2>6. ~ shifted => g <= n + 1 /\ \A i \in 1 .. g : got[i].id = thread'[i].id
    BY <1>a, <1>c, <2>1, <2>2 DEF Prefix, g, n
  <2> QED
    BY <1>a, <1>c, <2>1, <2>2, <2>4, <2>5, <2>6 DEF Prefix, g
<1>2. ASSUME NEW account \in Accounts, NEW text \in Texts, NEW p \in DOMAIN thread,
             Edit(p, account, text)
      PROVE  Prefix'
  <2>1. phase = "paging" /\ got' = got /\ shifted' = shifted /\ present' = present
    BY <1>2, <1>e, Followed DEF Edit, Change
  <2>2. /\ Len(thread') = n /\ DOMAIN thread' = 1 .. n
        /\ \A i \in 1 .. n : thread'[i].id = thread[i].id
    BY <1>2, <1>a, EditThread DEF n
  <2>3. Ids(thread') = Ids(thread)
    BY <1>a, <2>2 DEF Ids
  <2>4. \A i \in 1 .. g, k \in 1 .. n : k > g => got[i].id < thread'[k].id
    BY <1>a, <1>c, <2>1, <2>2 DEF Prefix, g
  <2>5. ~ shifted => g <= n /\ \A i \in 1 .. g : got[i].id = thread'[i].id
    BY <1>a, <1>c, <2>1, <2>2 DEF Prefix, g, n
  <2> QED
    BY <1>a, <1>c, <2>1, <2>2, <2>3, <2>4, <2>5 DEF Prefix, g
<1>3. ASSUME NEW p \in DOMAIN thread, Delete(p) PROVE Prefix'
  <2>1. /\ phase = "paging" /\ got' = got /\ present' = present \ {thread[p].id}
        /\ shifted' = (shifted \/ p <= g)
    BY <1>3, <1>e DEF Delete, Change, g
  <2>2. /\ Len(thread') = n - 1 /\ DOMAIN thread' = 1 .. n - 1
        /\ \A i \in 1 .. n - 1 : thread'[i] = IF i < p THEN thread[i] ELSE thread[i + 1]
    BY <1>3, DeleteThread DEF n
  <2>p. p \in 1 .. n
    BY <1>a
  <2>3. \A i \in 1 .. g, k \in 1 .. n - 1 : k > g => got[i].id < thread'[k].id
    <3> SUFFICES ASSUME NEW i \in 1 .. g, NEW k \in 1 .. n - 1, k > g
                 PROVE  got[i].id < thread'[k].id
      OBVIOUS
    <3>1. \E j \in 1 .. n : j > g /\ thread'[k] = thread[j]
      <4>1. CASE k < p
        BY <1>a, <2>2, <4>1
      <4>2. CASE ~ (k < p)
        <5>1. k + 1 \in 1 .. n /\ k + 1 > g
          BY <1>a
        <5>2. thread'[k] = thread[k + 1]
          BY <2>2, <4>2
        <5> QED
          BY <5>1, <5>2
      <4> QED
        BY <4>1, <4>2
    <3> QED
      BY <1>a, <1>c, <2>1, <3>1 DEF Prefix, g
  <2>4. present' \subseteq Ids(thread')
    <3> SUFFICES ASSUME NEW k \in 1 .. n, thread[k].id # thread[p].id
                 PROVE  \E j \in 1 .. n - 1 : thread'[j].id = thread[k].id
      <4>1. present \subseteq Ids(thread)
        BY <1>c, <2>1 DEF Prefix
      <4>2. Ids(thread) = {thread[i].id : i \in 1 .. n}
        BY <1>a DEF Ids
      <4>3. Ids(thread') = {thread'[i].id : i \in 1 .. n - 1}
        BY <2>2 DEF Ids
      <4> QED
        BY <2>1, <4>1, <4>2, <4>3
    <3>1. CASE k < p
      BY <1>a, <2>2, <2>p, <3>1
    <3>2. CASE k > p
      <4>1. k - 1 \in 1 .. n - 1 /\ ~ (k - 1 < p) /\ (k - 1) + 1 = k
        BY <1>a, <2>p, <3>2
      <4> QED
        BY <2>2, <4>1
    <3> QED
      BY <1>a, <2>p, <3>1, <3>2
  <2>5. ~ shifted' => g <= n - 1 /\ \A i \in 1 .. g : got[i].id = thread'[i].id
    <3> SUFFICES ASSUME ~ shifted, ~ (p <= g)
                 PROVE  g <= n - 1 /\ \A i \in 1 .. g : got[i].id = thread'[i].id
      BY <2>1
    <3>1. g <= n - 1
      BY <1>a, <2>p
    <3>2. \A i \in 1 .. g : i \in 1 .. n - 1 /\ i < p
      BY <1>a, <2>p, <3>1
    <3>3. \A i \in 1 .. g : got[i].id = thread[i].id
      BY <1>a, <1>c, <2>1 DEF Prefix
    <3> QED
      BY <2>2, <3>1, <3>2, <3>3
  <2> QED
    BY <1>a, <2>1, <2>2, <2>3, <2>4, <2>5 DEF Prefix, g
<1>4. ASSUME NEW account \in Accounts, NEW text \in Texts, EditIssue(account, text)
      PROVE  Prefix'
  <2>1. /\ phase = "paging" /\ got' = got /\ shifted' = shifted /\ present' = present
        /\ thread' = thread
    BY <1>4, <1>e, Followed DEF EditIssue, Change
  <2> QED
    BY <1>c, <2>1 DEF Prefix, Ids
<1>5. ASSUME NEW field \in {"closed", "locked"}, Switch(field) PROVE Prefix'
  <2>1. /\ phase = "paging" /\ got' = got /\ shifted' = shifted /\ present' = present
        /\ thread' = thread
    BY <1>5, <1>e DEF Switch, Change
  <2> QED
    BY <1>c, <2>1 DEF Prefix, Ids
<1>6. CASE FetchIssue
  <2>1. got' = <<>> /\ thread' = thread /\ present' = Ids(thread')
    BY <1>6, <1>d DEF FetchIssue
  <2>2. Len(got') = 0 /\ DOMAIN got' = {} /\ Len(thread') = n
    BY <2>1 DEF n
  <2>3. present' \subseteq Ids(thread') /\ Len(got') <= Len(thread')
    BY <1>a, <2>1, <2>2
  <2> QED
    BY <2>2, <2>3 DEF Prefix
<1>7. CASE FetchPage
  <2> DEFINE z == Len(Page)
  <2>1. /\ thread' = thread /\ shifted' = shifted /\ present' = present
        /\ phase = "paging" /\ got' = got \o Page
    BY <1>7 DEF FetchPage, Page
  <2>2. /\ z \in Nat /\ Len(got') = g + z /\ DOMAIN got' = 1 .. g + z
        /\ \A i \in 1 .. g : got'[i] = got[i]
        /\ \A i \in g + 1 .. g + z : i \in 1 .. n /\ got'[i] = thread[i]
    BY <2>1, PageRead DEF ContextTypeOK, g, n
  <2>3. /\ \A i \in 1 .. g, k \in 1 .. n : k > g => got[i].id < thread[k].id
        /\ present \subseteq Ids(thread)
        /\ ~ shifted => g <= n /\ \A i \in 1 .. g : got[i].id = thread[i].id
    BY <1>a, <1>c, <2>1 DEF Prefix, g, n
  <2> HIDE DEF z
  <2>4. \A i \in 1 .. g + z, k \in 1 .. n : k > g + z => got'[i].id < thread[k].id
    <3> SUFFICES ASSUME NEW i \in 1 .. g + z, NEW k \in 1 .. n, k > g + z
                 PROVE  got'[i].id < thread[k].id
      OBVIOUS
    <3>1. CASE i \in 1 .. g
      <4>1. k > g
        BY <1>a, <2>2
      <4> QED
        BY <2>2, <2>3, <3>1, <4>1
    <3>2. CASE i \in g + 1 .. g + z
      <4>1. i \in 1 .. n /\ i < k /\ got'[i] = thread[i]
        BY <1>a, <2>2, <3>2
      <4> QED
        BY <1>b, <4>1
    <3> QED
      BY <1>a, <2>2, <3>1, <3>2
  <2>5. ~ shifted => g + z <= n /\ \A i \in 1 .. g + z : got'[i].id = thread[i].id
    <3> SUFFICES ASSUME ~ shifted
                 PROVE  g + z <= n /\ \A i \in 1 .. g + z : got'[i].id = thread[i].id
      OBVIOUS
    <3>1. g + z <= n
      <4>1. CASE z = 0
        BY <1>a, <2>3, <4>1
      <4>2. CASE z > 0
        <5>1. g + z \in g + 1 .. g + z
          BY <1>a, <2>2, <4>2
        <5>2. g + z \in 1 .. n
          BY <2>2, <5>1
        <5> QED
          BY <1>a, <5>2
      <4> QED
        BY <2>2, <4>1, <4>2
    <3>2. ASSUME NEW i \in 1 .. g + z PROVE got'[i].id = thread[i].id
      <4>1. i \in 1 .. g \/ i \in g + 1 .. g + z
        BY <1>a, <2>2
      <4> QED
        BY <2>2, <2>3, <4>1
    <3> QED
      BY <3>1, <3>2
  <2>6. Len(thread') = n /\ DOMAIN thread' = 1 .. n /\ present' \subseteq Ids(thread')
    BY <1>a, <2>1, <2>3 DEF n
  <2> QED
    BY <2>1, <2>2, <2>4, <2>5, <2>6 DEF Prefix
<1>8. ~ (Deliver \/ Fail \/ Check)
  BY DEF Deliver, Fail, Check
<1> QED
  BY <1>1, <1>2, <1>3, <1>4, <1>5, <1>6, <1>7, <1>8 DEF ContextNext, People

\* Only pages and deletions between them change what was fetched.
LEMMA NotPaging ==
  ASSUME ContextTypeOK, ContextNext, phase # "paging"
  PROVE  got' = got /\ shifted' = shifted
<1>1. CASE People
  BY <1>1 DEF People, Post, Edit, Delete, EditIssue, Switch, Change, ContextTypeOK
<1>2. CASE ~ People
  BY <1>2 DEF ContextNext, Deliver, FetchIssue, FetchPage, Fail, Check
<1> QED
  BY <1>1, <1>2

\* The last page leads out of the loop, and it reaches the end of the thread.
LEMMA LastPage ==
  ASSUME ContextTypeOK, ContextNext, phase' = "fetched"
  PROVE  FetchPage /\ Len(got') >= Len(thread')
<1>1. FetchPage
  <2>1. phase = "paging"
    BY PhaseStep
  <2>2. CASE People
    BY <2>1, <2>2, Followed DEF People, Post, Edit, Delete, EditIssue, Switch
  <2>3. CASE ~ People
    BY <2>1, <2>3 DEF ContextNext, Deliver, FetchIssue, Fail, Check
  <2> QED
    BY <2>2, <2>3
<1>2. got' = got \o Page /\ Len(Page) < PageSize /\ thread' = thread
  BY <1>1 DEF FetchPage, Page
<1>3. Len(got') = Len(got) + Len(Page) /\ Len(got) + Len(Page) >= Len(thread)
  BY <1>2, PageRead DEF ContextTypeOK
<1> QED
  BY <1>1, <1>2, <1>3

LEMMA FetchStep ==
  ASSUME ContextTypeOK, ThreadOK, FetchOK, ContextNext, ContextTypeOK', ThreadOK'
  PROVE  FetchOK'
<1>1. phase' \in {"idle", "sent", "queued"} => got' = <<>> /\ ~ shifted'
  BY PhaseStep, NotPaging DEF FetchOK
<1>2. phase' = "paging" => Prefix'
  BY PrefixStep
<1>3. ASSUME phase' = "fetched", ~ shifted' PROVE present' \subseteq Ids(got')
  <2>1. Prefix' /\ Len(got') >= Len(thread')
    BY <1>3, PrefixStep, LastPage
  <2>2. /\ Len(got') \in Nat /\ DOMAIN got' = 1 .. Len(got')
        /\ Len(thread') \in Nat /\ DOMAIN thread' = 1 .. Len(thread')
    BY DEF ContextTypeOK
  <2>3. \A i \in DOMAIN thread' : i \in DOMAIN got' /\ got'[i].id = thread'[i].id
    BY <1>3, <2>1, <2>2 DEF Prefix
  <2>4. Ids(thread') \subseteq Ids(got')
    BY <2>3 DEF Ids
  <2> QED
    BY <2>1, <2>4 DEF Prefix
<1>4. FetchIsFaithful'
  BY <1>3 DEF FetchIsFaithful, ThreadOK, Ascending
<1> QED
  BY <1>1, <1>2, <1>4 DEF FetchOK, Prefix

-----------------------------------------------------------------------------
(* What nobody touched                                                     *)

LEMMA LineMinutes ==
  ASSUME NEW lines \in Seq([name: STRING, minutes: Nat]), NEW k \in DOMAIN lines
  PROVE  lines[k].minutes \in Nat
<1> DEFINE S == [name: STRING, minutes: Nat]
<1>1. lines \in Seq(S)
  OBVIOUS
<1>2. \A line \in S : line.minutes \in Nat
  OBVIOUS
<1> HIDE DEF S
<1>3. lines[k] \in S
  BY <1>1, ElementOfSeq
<1> QED
  BY <1>2, <1>3

\* A text the handler accepts, and in which no line asks for more than the worker
\* allows: both read the same commands in it.
LEMMA SameCommands ==
  ASSUME NEW text \in Texts \cup {NoText}, NEW i \in DOMAIN ParseBody(text, HandlerMinutes),
         ~ Overlong(text)
  PROVE  ParseBody(text, WorkerMinutes) = ParseBody(text, HandlerMinutes)
<1> DEFINE c == text.commands
<1>1. c \in Seq([name: STRING, minutes: Nat])
  <2>1. CASE text \in Texts
    BY <2>1, PromptAssumption
  <2>2. CASE text = NoText
    BY <2>2, EmptySeq DEF NoText
  <2> QED
    BY <2>1, <2>2
<1>2. CASE \A k \in DOMAIN c : ValidLine(c[k], HandlerMinutes)
  <2>1. ASSUME NEW k \in DOMAIN c PROVE ValidLine(c[k], WorkerMinutes)
    <3>1. c[k].minutes \in Nat
      BY <1>1, LineMinutes
    <3>2. ValidLine(c[k], HandlerMinutes)
      BY <1>2
    <3>3. c[k].minutes = 0 \/ c[k].minutes \in 30 .. HandlerMinutes
      BY <3>2 DEF ValidLine
    <3>4. c[k].minutes = 0 \/ c[k].minutes \in 30 .. WorkerMinutes
      BY <3>1, <3>3, ContextAssumption DEF WorkerMinutes, Overlong
    <3> QED
      BY <3>2, <3>4 DEF ValidLine
  <2> QED
    BY <1>2, <2>1 DEF ParseBody
<1>3. CASE ~ \A k \in DOMAIN c : ValidLine(c[k], HandlerMinutes)
  <2>1. ParseBody(text, HandlerMinutes) = <<>>
    BY <1>3 DEF ParseBody
  <2> QED
    BY <2>1
<1> QED
  BY <1>2, <1>3

\* The first conjunct of SourceOK.
Agreed ==
  phase \in {"queued", "paging", "fetched"} =>
    /\ job.comment = hook.comment
    /\ ~ hook.locked /\ (hook.closed => job.command = "status")
    /\ Overlong(hook.text) \/ ContainsJobCommand(hook.text, job)

\* Only Deliver makes a job, and an event is kept once it is sent.
LEMMA JobKept ==
  ASSUME ContextNext
  PROVE  /\ ~ Deliver => job' = job
         /\ phase # "idle" => hook' = hook
<1>1. CASE People
  <2>1. job' = job
    BY <1>1 DEF People, Post, Edit, Delete, EditIssue, Switch, Change
  <2>2. phase # "idle" => hook' = hook
    BY <1>1, Followed DEF People, Post, Edit, Delete, EditIssue, Switch
  <2> QED
    BY <2>1, <2>2
<1>2. CASE ~ People
  BY <1>2 DEF ContextNext, Deliver, FetchIssue, FetchPage, Fail, Check
<1> QED
  BY <1>1, <1>2

LEMMA AgreedStep == ASSUME ContextTypeOK, Agreed, ContextNext PROVE Agreed'
<1>1. CASE Deliver /\ Accepted
  <2>1. /\ hook' = hook
        /\ job' = [command |-> HookCommands[1], comment |-> hook.comment]
    BY <1>1 DEF Deliver
  <2>2. ~ hook.locked /\ (hook.closed => job'.command = "status") /\ HookCommands # <<>>
    BY <1>1, <2>1 DEF Accepted
  <2>3. hook.text \in Texts \cup {NoText}
    BY DEF ContextTypeOK, HookType
  <2>4. 1 \in DOMAIN HookCommands
    <3>1. HookCommands = [i \in DOMAIN hook.text.commands |-> hook.text.commands[i].name]
      BY <2>2 DEF HookCommands, ParseBody
    <3>2. hook.text.commands \in Seq([name: STRING, minutes: Nat])
      <4>1. CASE hook.text \in Texts
        BY <4>1, PromptAssumption
      <4>2. CASE hook.text = NoText
        BY <4>2, EmptySeq DEF NoText
      <4> QED
        BY <2>3, <4>1, <4>2
    <3>3. hook.text.commands # <<>>
      BY <2>2, <3>1
    <3> QED
      BY <3>1, <3>2, <3>3
  <2>5. ~ Overlong(hook.text) => HookCommands = ParseBody(hook.text, WorkerMinutes)
    BY <2>3, <2>4, SameCommands DEF HookCommands
  <2>6. ~ Overlong(hook.text) => ContainsJobCommand(hook'.text, job')
    BY <2>1, <2>4, <2>5 DEF ContainsJobCommand
  <2>7. job'.comment = hook'.comment
    BY <2>1
  <2> QED
    BY <2>1, <2>2, <2>6, <2>7 DEF Agreed
<1>2. CASE Deliver /\ ~ Accepted
  BY <1>2 DEF Deliver, Agreed
<1>3. ASSUME ~ Deliver, phase' \in {"queued", "paging", "fetched"}
      PROVE  phase \in {"queued", "paging", "fetched"} /\ job' = job /\ hook' = hook
  <2>1. phase \in {"queued", "paging", "fetched"}
    <3>1. phase' = "queued" => phase = "queued"
      BY <1>3, Followed DEF ContextNext, People, Post, Edit, Delete, EditIssue, Switch,
         FetchIssue, FetchPage, Fail, Check
    <3> QED
      BY <1>3, <3>1, PhaseStep
  <2> QED
    BY <1>3, <2>1, JobKept
<1>4. CASE ~ Deliver
  BY <1>3, <1>4 DEF Agreed, ContainsJobCommand, Overlong
<1> QED
  BY <1>1, <1>2, <1>4

\* The second: on GitHub the source is what the event said.
Untouched ==
  phase \in {"sent", "queued", "paging"} /\ ~ touched =>
    /\ issue.closed = hook.closed /\ issue.locked = hook.locked
    /\ IF hook.comment = 0 THEN issue.text = hook.text ELSE InThread

LEMMA UntouchedStep == ASSUME ContextTypeOK, Untouched, ContextNext PROVE Untouched'
<1> SUFFICES ASSUME phase' \in {"sent", "queued", "paging"}, ~ touched' PROVE Untouched'
  BY DEF Untouched
<1>a. /\ Len(thread) \in Nat /\ DOMAIN thread = 1 .. Len(thread)
      /\ \A i \in DOMAIN thread : thread[i].id \in Nat \ {0}
      /\ nextId \in Nat \ {0}
  BY IdsTyped
<1>1. ASSUME NEW account \in Accounts, NEW text \in Texts, Post(account, text)
      PROVE  Untouched'
  <2>1. issue' = issue /\ touched' = touched
    BY <1>1 DEF Post
  <2>2. /\ DOMAIN thread' = 1 .. Len(thread) + 1
        /\ \A i \in 1 .. Len(thread) : thread'[i] = thread[i]
        /\ thread'[Len(thread) + 1] = [id |-> nextId, author |-> account, text |-> text]
    BY <1>1, PostThread
  <2>3. CASE hook' = hook /\ phase' = phase
    <3>1. InThread => InThread'
      BY <1>a, <2>2, <2>3 DEF InThread
    <3> QED
      BY <2>1, <2>3, <3>1 DEF Untouched
  <2>4. CASE /\ hook'.comment = nextId /\ hook'.text = text
             /\ hook'.closed = issue.closed /\ hook'.locked = issue.locked
    <3>1. Len(thread) + 1 \in DOMAIN thread'
      BY <1>a, <2>2
    <3>2. InThread'
      BY <2>2, <2>4, <3>1 DEF InThread
    <3>3. hook'.comment # 0
      BY <1>a, <2>4
    <3> QED
      BY <2>1, <2>4, <3>2, <3>3 DEF Untouched
  <2>5. Follow(nextId, account, text)
    BY <1>1 DEF Post
  <2> QED
    BY <2>3, <2>4, <2>5, Followed
<1>2. ASSUME NEW account \in Accounts, NEW text \in Texts, NEW p \in DOMAIN thread,
             Edit(p, account, text)
      PROVE  Untouched'
  <2>1. issue' = issue /\ touched' = (touched \/ (phase # "idle" /\ thread[p].id = hook.comment))
    BY <1>2 DEF Edit, TouchedIf
  <2>2. /\ DOMAIN thread' = DOMAIN thread
        /\ \A i \in DOMAIN thread :
             /\ thread'[i].id = thread[i].id
             /\ i # p => thread'[i].text = thread[i].text
        /\ thread'[p].text = text
    BY <1>2, EditThread
  <2>3. CASE hook' = hook /\ phase' = phase
    <3>1. thread[p].id # hook.comment
      BY <2>1, <2>3
    <3>2. InThread => InThread'
      BY <2>2, <2>3, <3>1 DEF InThread
    <3> QED
      BY <2>1, <2>3, <3>2 DEF Untouched
  <2>4. CASE /\ hook'.comment = thread[p].id /\ hook'.text = text
             /\ hook'.closed = issue.closed /\ hook'.locked = issue.locked
    <3>1. InThread'
      BY <2>2, <2>4 DEF InThread
    <3>2. hook'.comment # 0
      BY <1>a, <2>4
    <3> QED
      BY <2>1, <2>4, <3>1, <3>2 DEF Untouched
  <2>5. Follow(thread[p].id, account, text)
    BY <1>2 DEF Edit
  <2> QED
    BY <2>3, <2>4, <2>5, Followed
<1>3. ASSUME NEW p \in DOMAIN thread, Delete(p) PROVE Untouched'
  <2>1. /\ issue' = issue /\ hook' = hook /\ phase' = phase
        /\ touched' = (touched \/ (phase # "idle" /\ thread[p].id = hook.comment))
    BY <1>3 DEF Delete, TouchedIf
  <2>2. /\ DOMAIN thread' = 1 .. Len(thread) - 1
        /\ \A i \in 1 .. Len(thread) - 1 :
             thread'[i] = IF i < p THEN thread[i] ELSE thread[i + 1]
    BY <1>3, DeleteThread
  <2>3. thread[p].id # hook.comment
    BY <2>1
  <2>4. InThread => InThread'
    <3> SUFFICES ASSUME NEW k \in DOMAIN thread,
                        thread[k].id = hook.comment, thread[k].text = hook.text
                 PROVE  \E j \in 1 .. Len(thread) - 1 : thread'[j] = thread[k]
      BY <2>1, <2>2 DEF InThread
    <3>1. CASE k < p
      BY <1>a, <2>2, <3>1
    <3>2. CASE k > p
      <4>1. k - 1 \in 1 .. Len(thread) - 1 /\ ~ (k - 1 < p) /\ (k - 1) + 1 = k
        BY <1>a, <3>2
      <4> QED
        BY <2>2, <4>1
    <3>3. k # p
      BY <2>3
    <3> QED
      BY <1>a, <3>1, <3>2, <3>3
  <2> QED
    BY <2>1, <2>4 DEF Untouched
<1>4. ASSUME NEW account \in Accounts, NEW text \in Texts, EditIssue(account, text)
      PROVE  Untouched'
  <2>1. /\ thread' = thread
        /\ touched' = (touched \/ (phase # "idle" /\ hook.comment = 0))
    BY <1>4 DEF EditIssue, TouchedIf
  <2>2. issue'.text = text /\ issue'.closed = issue.closed /\ issue'.locked = issue.locked
    BY <1>4 DEF EditIssue, ContextTypeOK, IssueType
  <2>3. CASE hook' = hook /\ phase' = phase
    <3>1. hook.comment # 0
      BY <2>1, <2>3
    <3>2. InThread => InThread'
      BY <2>1, <2>3 DEF InThread
    <3> QED
      BY <2>1, <2>2, <2>3, <3>1, <3>2 DEF Untouched
  <2>4. CASE /\ hook'.comment = 0 /\ hook'.text = text
             /\ hook'.closed = issue.closed /\ hook'.locked = issue.locked
    BY <2>2, <2>4 DEF Untouched
  <2>5. Follow(0, account, text)
    BY <1>4 DEF EditIssue
  <2> QED
    BY <2>3, <2>4, <2>5, Followed
<1>5. ASSUME NEW field \in {"closed", "locked"}, Switch(field) PROVE Untouched'
  BY <1>5 DEF Switch, TouchedIf
<1>6. CASE Deliver \/ FetchIssue \/ FetchPage
  BY <1>6 DEF Deliver, FetchIssue, FetchPage, Untouched, InThread
<1>7. ~ (Fail \/ Check)
  BY DEF Fail, Check
<1> QED
  BY <1>1, <1>2, <1>3, <1>4, <1>5, <1>6, <1>7 DEF ContextNext, People

\* The third: what was read of it is what the event said.
Reading ==
  phase \in {"paging", "fetched"} /\ ~ touched =>
    /\ seen.closed = hook.closed /\ seen.locked = hook.locked
    /\ hook.comment = 0 => seen.text = hook.text /\ seen.author = issue.author
    /\ \A i \in DOMAIN got : got[i].id = hook.comment => got[i].text = hook.text

\* What is said of a comment once it is there stays said; touched and shifted are
\* never reset.
LEMMA HistoryKept ==
  ASSUME ContextTypeOK, ContextNext
  PROVE  /\ touched => touched'
         /\ shifted => shifted'
         /\ wasCurrent => wasCurrent'
         /\ wasOpen => wasOpen'
         /\ issue'.author = issue.author
<1>1. issue'.author = issue.author
  <2>1. CASE People
    BY <2>1 DEF People, Post, Edit, Delete, EditIssue, Switch, ContextTypeOK, IssueType
  <2>2. CASE ~ People
    BY <2>2 DEF ContextNext, Deliver, FetchIssue, FetchPage, Fail, Check
  <2> QED
    BY <2>1, <2>2
<1>2. (wasCurrent => wasCurrent') /\ (wasOpen => wasOpen')
  BY DEF ContextNext, People, Post, Edit, Delete, EditIssue, Switch, Deliver, FetchIssue,
         FetchPage, Fail, Check, Witnessed
<1>3. (touched => touched') /\ (shifted => shifted')
  <2>1. CASE People
    <3>1. touched => touched'
      BY <2>1 DEF People, Post, Edit, Delete, EditIssue, Switch, TouchedIf
    <3>2. shifted => shifted'
      BY <2>1 DEF People, Post, Edit, Delete, EditIssue, Switch
    <3> QED
      BY <3>1, <3>2
  <2>2. CASE ~ People
    BY <2>2 DEF ContextNext, Deliver, FetchIssue, FetchPage, Fail, Check
  <2> QED
    BY <2>1, <2>2
<1> QED
  BY <1>1, <1>2, <1>3

\* While the pages are read, people change neither what was read nor the phase.
LEMMA PeopleWhilePaging ==
  ASSUME People, phase = "paging"
  PROVE  phase' = phase /\ hook' = hook /\ seen' = seen /\ got' = got /\ job' = job
<1>1. seen' = seen /\ got' = got /\ job' = job
  BY DEF People, Post, Edit, Delete, EditIssue, Switch, Change
<1>2. phase' = phase /\ hook' = hook
  BY Followed DEF People, Post, Edit, Delete, EditIssue, Switch
<1> QED
  BY <1>1, <1>2

LEMMA ReadingStep ==
  ASSUME ContextTypeOK, ThreadOK, FetchOK, Untouched, Reading, ContextNext PROVE Reading'
<1> SUFFICES ASSUME phase' \in {"paging", "fetched"}, ~ touched' PROVE Reading'
  BY DEF Reading
<1>a. ~ touched /\ issue'.author = issue.author
  BY HistoryKept
<1>1. CASE People
  <2>1. phase = "paging"
    <3>1. phase \in {"queued", "paging"}
      BY PhaseStep
    <3>2. phase' = phase \/ phase = "idle"
      BY <1>1, Followed DEF People, Post, Edit, Delete, EditIssue, Switch
    <3> QED
      BY <3>1, <3>2
  <2> QED
    BY <1>1, <1>a, <2>1, PeopleWhilePaging DEF Reading
<1>2. CASE FetchIssue
  <2>1. phase = "queued" /\ seen' = issue /\ got' = <<>> /\ hook' = hook
    BY <1>2 DEF FetchIssue, FetchOK
  <2>2. /\ issue.closed = hook.closed /\ issue.locked = hook.locked
        /\ hook.comment = 0 => issue.text = hook.text
    BY <1>a, <2>1 DEF Untouched
  <2>3. DOMAIN got' = {}
    BY <2>1
  <2> QED
    BY <1>a, <2>1, <2>2, <2>3 DEF Reading
<1>3. CASE FetchPage
  <2> DEFINE g == Len(got)
             n == Len(thread)
             z == Len(Page)
  <2>1. phase = "paging" /\ seen' = seen /\ hook' = hook /\ got' = got \o Page
    BY <1>3 DEF FetchPage, Page
  <2>2. /\ z \in Nat /\ DOMAIN got' = 1 .. g + z
        /\ \A i \in 1 .. g : got'[i] = got[i]
        /\ \A i \in g + 1 .. g + z : i \in 1 .. n /\ got'[i] = thread[i]
    BY <2>1, PageRead DEF ContextTypeOK
  <2>3. /\ g \in Nat /\ DOMAIN got = 1 .. g /\ n \in Nat /\ DOMAIN thread = 1 .. n
        /\ \A i \in 1 .. n : thread[i].id \in Nat \ {0}
    BY IdsTyped
  <2>4. \A i, k \in 1 .. n : i < k => thread[i].id < thread[k].id
    BY <2>3 DEF ThreadOK, Ascending
  <2> HIDE DEF g, n, z
  <2>5. ASSUME NEW i \in 1 .. g + z, got'[i].id = hook.comment
        PROVE  got'[i].text = hook.text
    <3>1. CASE i \in 1 .. g
      BY <1>a, <2>1, <2>2, <2>3, <2>5, <3>1 DEF Reading
    <3>2. CASE i \in g + 1 .. g + z
      <4>1. i \in 1 .. n /\ got'[i] = thread[i]
        BY <2>2, <3>2
      <4>2. thread[i].id = hook.comment /\ hook.comment # 0
        BY <2>3, <2>5, <4>1
      <4>3. PICK k \in 1 .. n : thread[k].id = hook.comment /\ thread[k].text = hook.text
        BY <1>a, <2>1, <2>3, <4>2 DEF Untouched, InThread
      <4>4. i = k
        BY <2>3, <2>4, <4>1, <4>2, <4>3
      <4> QED
        BY <4>1, <4>3, <4>4
    <3> QED
      BY <2>2, <2>3, <3>1, <3>2
  <2> QED
    BY <1>a, <2>1, <2>2, <2>5 DEF Reading
<1>4. ~ (Deliver \/ Fail \/ Check)
  BY DEF Deliver, Fail, Check
<1> QED
  BY <1>1, <1>2, <1>3, <1>4 DEF ContextNext

\* The fourth: a comment that is there, and was all the time, has been read.
SourceRead ==
  phase = "fetched" /\ ~ touched /\ ~ shifted /\ hook.comment # 0 =>
    /\ InThread
    /\ \E i \in DOMAIN got : got[i].id = hook.comment

LEMMA SourceReadStep ==
  ASSUME ContextTypeOK, ThreadOK, FetchOK, Untouched, ContextNext, ContextTypeOK'
  PROVE  SourceRead'
<1> SUFFICES ASSUME phase' = "fetched", ~ touched', ~ shifted', hook'.comment # 0
             PROVE  InThread' /\ \E i \in DOMAIN got' : got'[i].id = hook'.comment
  BY DEF SourceRead
<1>1. FetchPage /\ Len(got') >= Len(thread')
  BY LastPage
<1>2. phase = "paging" /\ thread' = thread /\ hook' = hook /\ ~ touched
  BY <1>1, HistoryKept DEF FetchPage
<1>3. InThread /\ InThread'
  BY <1>2 DEF Untouched, InThread
<1>4. Prefix'
  BY PrefixStep
<1>5. /\ Len(got') \in Nat /\ DOMAIN got' = 1 .. Len(got')
      /\ Len(thread') \in Nat /\ DOMAIN thread' = 1 .. Len(thread')
  BY DEF ContextTypeOK
<1>6. \A k \in DOMAIN thread' : k \in DOMAIN got' /\ got'[k].id = thread'[k].id
  BY <1>1, <1>4, <1>5 DEF Prefix
<1> QED
  BY <1>3, <1>6 DEF InThread

\* After the last page only Check is left.
LEMMA OnlyCheck ==
  ASSUME ContextNext, phase = "fetched"
  PROVE  Check /\ UNCHANGED <<github, hook, job, seen, got, touched, shifted>>
<1>1. ~ People
  BY DEF People, Post, Edit, Delete, EditIssue, Switch, Change
<1>2. ~ (Deliver \/ FetchIssue \/ FetchPage \/ Fail)
  BY DEF Deliver, FetchIssue, FetchPage, Fail
<1> QED
  BY <1>1, <1>2 DEF ContextNext, Check

LEMMA RejectedStep ==
  ASSUME ContextTypeOK, ThreadOK, Agreed, Reading, SourceRead, ContextNext
  PROVE  RejectedHasCause'
<1> DEFINE Foreign == IF job.comment = 0 THEN issue.author # Actor
                      ELSE \E i \in DOMAIN thread :
                             thread[i].id = job.comment /\ thread[i].author # Actor
<1>1. SUFFICES ASSUME phase' = "rejected", ~ touched', ~ shifted', ~ Overlong(hook'.text)
               PROVE  Foreign'
  BY DEF RejectedHasCause
<1>2. phase = "fetched"
  BY <1>1, PhaseStep
<1>3. /\ issue' = issue /\ thread' = thread /\ job' = job
      /\ ~ touched /\ ~ shifted /\ ~ Usable /\ ~ Overlong(hook.text)
  BY <1>1, <1>2, OnlyCheck DEF Check, Overlong
<1>4. SUFFICES ASSUME ~ Foreign PROVE FALSE
  BY <1>3
<1>5. /\ job.comment = hook.comment /\ ~ hook.locked
      /\ hook.closed => job.command = "status"
      /\ ContainsJobCommand(hook.text, job)
  BY <1>2, <1>3 DEF Agreed
<1>6. /\ seen.closed = hook.closed /\ seen.locked = hook.locked
      /\ hook.comment = 0 => seen.text = hook.text /\ seen.author = issue.author
      /\ \A i \in DOMAIN got : got[i].id = hook.comment => got[i].text = hook.text
  BY <1>2, <1>3 DEF Reading
<1>7. IsOpen(seen, job)
  BY <1>5, <1>6 DEF IsOpen
<1>8. hook.text \in CommandSource(seen, got, job)
  <2>1. CASE job.comment = 0
    <3>1. seen.text = hook.text /\ seen.author = Actor
      BY <1>4, <1>5, <1>6, <2>1
    <3> QED
      BY <2>1, <3>1 DEF CommandSource
  <2>2. CASE job.comment # 0
    <3>1. InThread /\ \E i \in DOMAIN got : got[i].id = hook.comment
      BY <1>2, <1>3, <1>5, <2>2 DEF SourceRead
    <3>2. PICK i \in DOMAIN got : got[i].id = hook.comment
      BY <3>1
    <3>3. PICK k \in DOMAIN thread : thread[k].id = hook.comment
      BY <3>1 DEF InThread
    <3>4. thread[k].author = Actor
      BY <1>4, <1>5, <2>2, <3>3
    <3>5. got[i].author = Actor
      BY <3>2, <3>3, <3>4 DEF ThreadOK
    <3>6. got[i].text = hook.text
      BY <1>6, <3>2
    <3> QED
      BY <1>5, <2>2, <3>2, <3>5, <3>6 DEF CommandSource
  <2> QED
    BY <2>1, <2>2
<1>9. IsCurrent(seen, got, job)
  BY <1>5, <1>8 DEF IsCurrent
<1> QED
  BY <1>3, <1>7, <1>9 DEF Usable

\* SourceOK in its parts.
LEMMA SourceParts ==
  SourceOK <=> Agreed /\ Untouched /\ Reading /\ SourceRead /\ RejectedHasCause
  BY DEF SourceOK, Agreed, Untouched, Reading, SourceRead

LEMMA SourceStep ==
  ASSUME ContextTypeOK, ThreadOK, FetchOK, SourceOK, ContextNext, ContextTypeOK'
  PROVE  SourceOK'
<1>1. Agreed /\ Untouched /\ Reading /\ SourceRead
  BY SourceParts
<1>2. Agreed'
  BY <1>1, AgreedStep
<1>3. Untouched'
  BY <1>1, UntouchedStep
<1>4. Reading'
  BY <1>1, ReadingStep
<1>5. SourceRead'
  BY <1>1, SourceReadStep
<1>6. RejectedHasCause'
  BY <1>1, RejectedStep
<1> QED
  BY <1>2, <1>3, <1>4, <1>5, <1>6
     DEF SourceOK, Agreed, Untouched, Reading, SourceRead

-----------------------------------------------------------------------------
(* What was true when it was read                                          *)

\* A job without a comment is current or not, whatever the comments are.
LEMMA CurrentIssue ==
  ASSUME NEW anIssue, NEW one, NEW other, NEW aJob, aJob.comment = 0,
         IsCurrent(anIssue, one, aJob)
  PROVE  IsCurrent(anIssue, other, aJob)
  BY DEF IsCurrent, CommandSource

\* The command read is in one of the comments read, and a page shows it as it is.
LEMMA CurrentPage ==
  ASSUME ContextTypeOK, FetchPage, IsCurrent(seen, got', job)
  PROVE  IsCurrent(seen, got, job) \/ IsCurrent(issue, thread, job)
<1>1. CASE job.comment = 0
  BY <1>1, CurrentIssue
<1>2. CASE job.comment # 0
  <2>1. got' = got \o Page
    BY DEF FetchPage, Page
  <2>2. /\ Len(Page) \in Nat /\ DOMAIN got' = 1 .. Len(got) + Len(Page)
        /\ \A i \in 1 .. Len(got) : got'[i] = got[i]
        /\ \A i \in Len(got) + 1 .. Len(got) + Len(Page) :
             i \in 1 .. Len(thread) /\ got'[i] = thread[i]
    BY <2>1, PageRead DEF ContextTypeOK
  <2>3. /\ DOMAIN got = 1 .. Len(got) /\ DOMAIN thread = 1 .. Len(thread)
        /\ Len(got) \in Nat
    BY IdsTyped
  <2>4. PICK i \in DOMAIN got' :
          got'[i].id = job.comment /\ got'[i].author = Actor /\ ContainsJobCommand(got'[i].text, job)
    BY <1>2 DEF IsCurrent, CommandSource
  <2>5. CASE i \in 1 .. Len(got)
    BY <1>2, <2>2, <2>3, <2>4, <2>5 DEF IsCurrent, CommandSource
  <2>6. CASE i \in Len(got) + 1 .. Len(got) + Len(Page)
    BY <1>2, <2>2, <2>3, <2>4, <2>6 DEF IsCurrent, CommandSource
  <2> QED
    BY <2>2, <2>3, <2>5, <2>6
<1> QED
  BY <1>1, <1>2

LEMMA WitnessStep ==
  ASSUME ContextTypeOK, FetchOK, WitnessOK, ContextNext PROVE WitnessOK'
<1>1. phase' = "paging" =>
        /\ IsCurrent(issue', thread', job') => wasCurrent'
        /\ IsOpen(issue', job') => wasOpen'
  BY DEF ContextNext, People, Post, Edit, Delete, EditIssue, Switch, Deliver, FetchIssue,
         FetchPage, Fail, Check, Witnessed
<1>2. ASSUME phase' \in {"paging", "fetched"}
      PROVE  /\ IsCurrent(seen', got', job') => wasCurrent'
             /\ IsOpen(seen', job') => wasOpen'
  <2>1. CASE People
    <3>1. phase = "paging"
      <4>1. phase \in {"queued", "paging"}
        BY <1>2, PhaseStep
      <4>2. phase' = phase \/ phase = "idle"
        BY <2>1, Followed DEF People, Post, Edit, Delete, EditIssue, Switch
      <4> QED
        BY <1>2, <4>1, <4>2
    <3>2. seen' = seen /\ got' = got /\ job' = job
      BY <2>1, <3>1, PeopleWhilePaging
    <3> QED
      BY <3>1, <3>2, HistoryKept DEF WitnessOK
  <2>2. CASE FetchIssue
    <3>1. /\ phase' = "paging" /\ seen' = issue /\ issue' = issue /\ job' = job
          /\ got' = <<>>
      BY <2>2 DEF FetchIssue, FetchOK
    <3>2. IsCurrent(seen', got', job') => IsCurrent(issue', thread', job')
      <4>1. CASE job.comment = 0
        BY <3>1, <4>1, CurrentIssue
      <4>2. CASE job.comment # 0
        <5>1. DOMAIN got' = {}
          BY <3>1
        <5> QED
          BY <3>1, <4>2, <5>1 DEF IsCurrent, CommandSource
      <4> QED
        BY <4>1, <4>2
    <3> QED
      BY <1>1, <3>1, <3>2
  <2>3. CASE FetchPage
    <3>1. phase = "paging" /\ seen' = seen /\ job' = job
      BY <2>3 DEF FetchPage
    <3>2. IsOpen(seen, job) => wasOpen
      BY <3>1 DEF WitnessOK
    <3>3. IsCurrent(seen, got, job) \/ IsCurrent(issue, thread, job) => wasCurrent
      BY <3>1 DEF WitnessOK
    <3> QED
      BY <2>3, <3>1, <3>2, <3>3, CurrentPage, HistoryKept
  <2>4. ~ (Deliver \/ Fail \/ Check)
    BY <1>2 DEF Deliver, Fail, Check
  <2> QED
    BY <2>1, <2>2, <2>3, <2>4 DEF ContextNext
<1>3. ASSUME phase' \in {"images", "prepared"} PROVE wasCurrent' /\ wasOpen'
  <2>1. phase = "fetched"
    BY <1>3, PhaseStep
  <2>2. Check /\ Usable
    BY <1>3, <2>1, OnlyCheck DEF Check
  <2>3. wasCurrent /\ wasOpen
    BY <2>1, <2>2 DEF Usable, WitnessOK
  <2> QED
    BY <2>3, HistoryKept
<1> QED
  BY <1>1, <1>2, <1>3 DEF WitnessOK, PreparedWasCurrent

-----------------------------------------------------------------------------
(* Images                                                                  *)

\* The requests of a chain.
Trail(c) ==
  \A k \in DOMAIN c :
    \/ Allowed(c[k])
    \/ k > 1 /\ c[k] \in Storage /\ c[k - 1] \in Attachments

LEMMA DownloadStep ==
  ASSUME ContextTypeOK, ImagesTypeOK, DownloadOK, ImagesNext, UNCHANGED contextVars
  PROVE  DownloadOK'
<1>a. Len(images) \in Nat /\ MaxImages \in Nat /\ Len(images) <= MaxImages
  BY ImagesAssumption DEF ImagesTypeOK, DownloadOK
<1>b. phase' = phase /\ (collect # "off" => phase \in {"images", "prepared"}) /\ Trail(chain)
  BY DEF contextVars, DownloadOK, Trail
<1>1. CASE NextText
  BY <1>1, <1>a, <1>b DEF NextText, Turn, DownloadOK
<1>2. CASE Finish
  BY <1>2, <1>a, <1>b DEF Finish, Turn, DownloadOK
<1>3. CASE LimitReached
  BY <1>3, <1>a, <1>b DEF LimitReached, Turn, DownloadOK
<1>4. CASE PassOver
  BY <1>4, <1>a, <1>b DEF PassOver, Considered, Turn, DownloadOK
<1>5. CASE Reject
  BY <1>5, <1>a, <1>b DEF Reject, Considered, Turn, DownloadOK
<1>6. CASE Request
  <2>1. /\ collect' = "running" /\ AtReference' /\ Len(images') < MaxImages
        /\ chain' = <<Reference>> /\ Reference' = Reference /\ Allowed(Reference)
    BY <1>6 DEF Request, Considered, Turn, AtReference, Reference
  <2>2. DOMAIN chain' = {1} /\ chain'[1] = Reference'
    BY <2>1
  <2>3. Trail(chain')
    BY <2>1, <2>2 DEF Trail
  <2>4. images' = images
    BY <1>6 DEF Request
  <2>5. Allowed(Reference')
    BY <2>1
  <2>6. Len(images') <= MaxImages
    BY <1>a, <2>4
  <2>7. phase' \in {"images", "prepared"}
    BY <1>6, <1>b DEF Request, Considered, Turn
  <2> QED
    BY <2>1, <2>2, <2>3, <2>5, <2>6, <2>7 DEF DownloadOK, Trail
<1>7. ASSUME NEW u \in Url, Redirect(u) PROVE DownloadOK'
  <2>1. /\ collect = "running" /\ AllowedRedirect(chain[Len(chain)], u)
        /\ chain # <<>> /\ chain' = Append(chain, u)
        /\ UNCHANGED <<refs, cursor, tried, output, collect>>
    BY <1>7, ChainEnds DEF Redirect, Downloading
  <2>2. /\ Len(chain) \in Nat \ {0} /\ DOMAIN chain' = 1 .. Len(chain) + 1
        /\ \A k \in 1 .. Len(chain) : chain'[k] = chain[k]
        /\ chain'[Len(chain) + 1] = u /\ DOMAIN chain = 1 .. Len(chain)
    BY <2>1, ChainEnds, Appended DEF ImagesTypeOK
  <2>3. ASSUME NEW k \in DOMAIN chain'
        PROVE  \/ Allowed(chain'[k])
               \/ k > 1 /\ chain'[k] \in Storage /\ chain'[k - 1] \in Attachments
    <3>1. CASE k \in 1 .. Len(chain)
      <4>1. chain'[k] = chain[k] /\ (k > 1 => chain'[k - 1] = chain[k - 1])
        BY <2>2, <3>1
      <4> QED
        BY <1>b, <2>2, <3>1, <4>1 DEF Trail
    <3>2. CASE k = Len(chain) + 1
      <4>1. k > 1 /\ k - 1 = Len(chain) /\ chain'[k - 1] = chain[Len(chain)] /\ chain'[k] = u
        BY <2>2, <3>2
      <4> QED
        BY <2>1, <4>1 DEF AllowedRedirect
    <3> QED
      BY <2>2, <3>1, <3>2
  <2>4. /\ AtReference' /\ chain'[1] = Reference' /\ Allowed(Reference')
        /\ Len(images') < MaxImages
    BY <2>1, <2>2 DEF DownloadOK, AtReference, Reference
  <2>5. Len(images') <= MaxImages /\ collect' = "running"
    BY <1>a, <2>1
  <2>6. phase' \in {"images", "prepared"}
    BY <1>b, <2>1
  <2> QED
    BY <2>3, <2>4, <2>5, <2>6 DEF DownloadOK
<1>8. CASE Skip
  BY <1>8, <1>a, <1>b DEF Skip, Downloading, DownloadOK
<1>9. CASE Attach
  <2>1. chain' = <<>> /\ collect' = "running"
    BY <1>9 DEF Attach, Downloading
  <2>2. Len(images') = Len(images) + 1
    BY <1>9 DEF Attach, ImagesTypeOK
  <2>3. Len(images) < MaxImages
    BY <1>9 DEF Attach, Downloading, DownloadOK
  <2>4. Len(images') <= MaxImages
    BY <1>a, <2>2, <2>3
  <2>5. phase' \in {"images", "prepared"}
    BY <1>9, <1>b DEF Attach, Downloading
  <2> QED
    BY <2>1, <2>4, <2>5 DEF DownloadOK
<1>10. CASE Abort
  BY <1>10, <1>a, <1>b DEF Abort, Downloading, DownloadOK
<1> QED
  BY <1>1, <1>2, <1>3, <1>4, <1>5, <1>6, <1>7, <1>8, <1>9, <1>10 DEF ImagesNext

\* Image i is in file i, and what is said of it.
Own(i) ==
  /\ images[i].file = i
  /\ disk[i].asked = images[i].url
  /\ Allowed(disk[i].from) \/ disk[i].from \in Storage
  /\ \E l \in DOMAIN refs : images[i].url \in ToSet(refs[l])

\* The references come from texts of collaborators.
Lists ==
  \A l \in DOMAIN refs : refs[l] # <<>> =>
    \E post \in {seen} \cup ToSet(got) :
      post.author \in Collaborators /\ refs[l] = post.text.images

LEMMA AttachOwn ==
  ASSUME ImagesTypeOK, DownloadOK, OriginOK, Attach
  PROVE  \A i \in DOMAIN images' : Own(i)'
<1> DEFINE m == Len(images)
<1>1. /\ chain # <<>> /\ refs' = refs
      /\ images' = Append(images, [url |-> Reference, file |-> m + 1])
      /\ disk' = [disk EXCEPT ![m + 1] = Content]
  BY DEF Attach, Downloading
<1>2. Reference \in Url
  BY <1>1, AtUrl DEF DownloadOK
<1>3. m + 1 \in 1 .. MaxImages
  BY <1>1, ImagesAssumption DEF DownloadOK, ImagesTypeOK
<1>4. /\ m \in Nat /\ DOMAIN images = 1 .. m /\ DOMAIN images' = 1 .. m + 1
      /\ \A i \in 1 .. m : images'[i] = images[i]
      /\ images'[m + 1] = [url |-> Reference, file |-> m + 1]
  BY <1>1, <1>2, <1>3, Appended DEF ImagesTypeOK
<1>5. /\ \A i \in 1 .. m : disk'[i] = disk[i]
      /\ disk'[m + 1] = Content
  BY <1>1, <1>3, <1>4 DEF ImagesTypeOK
<1> HIDE DEF m
<1>6. ASSUME NEW i \in 1 .. m PROVE Own(i)'
  <2>1. Own(i)
    BY <1>4 DEF OriginOK, Own
  <2> QED
    BY <1>1, <1>4, <1>5, <2>1 DEF Own
<1>7. ASSUME NEW i, i = m + 1 PROVE Own(i)'
  <2>1. Content = [asked |-> chain[1], from |-> chain[Len(chain)]] /\ Len(chain) \in DOMAIN chain
    BY <1>1, ChainEnds DEF Content, ImagesTypeOK
  <2>2. chain[1] = Reference /\ Trail(chain) /\ AtReference
    BY <1>1 DEF DownloadOK, Trail
  <2>3. Allowed(chain[Len(chain)]) \/ chain[Len(chain)] \in Storage
    BY <2>1, <2>2 DEF Trail
  <2>4. Reference \in ToSet(refs[list]) /\ list \in DOMAIN refs
    <3>1. at + 1 \in DOMAIN refs[list]
      BY <2>2, ElementOfSeq DEF AtReference, ImagesTypeOK
    <3> QED
      BY <2>2, <3>1 DEF ToSet, Reference, AtReference
  <2>5. disk'[i].asked = Reference /\ disk'[i].from = chain[Len(chain)]
    BY <1>5, <1>7, <2>1, <2>2
  <2>6. images'[i].url = Reference /\ images'[i].file = i
    BY <1>4, <1>7
  <2> QED
    BY <1>1, <2>3, <2>4, <2>5, <2>6 DEF Own
<1> QED
  BY <1>4, <1>6, <1>7

LEMMA OriginStep ==
  ASSUME ImagesTypeOK, DownloadOK, OriginOK, ImagesNext, UNCHANGED contextVars
  PROVE  OriginOK'
<1>1. refs' = refs
  BY DEF ImagesNext, NextText, Finish, LimitReached, PassOver, Reject, Request, Redirect,
         Skip, Attach, Abort
<1>2. seen' = seen /\ got' = got
  BY DEF contextVars
<1>3. Lists'
  BY <1>1, <1>2 DEF OriginOK, Lists
<1>4. \A i \in DOMAIN images' : Own(i)'
  <2>1. CASE Attach
    BY <2>1, AttachOwn
  <2>2. CASE ~ Attach
    <3>1. images' = images /\ disk' = disk
      BY <2>2 DEF ImagesNext, NextText, Finish, LimitReached, PassOver, Reject, Request,
                  Redirect, Skip, Abort
    <3> QED
      BY <1>1, <3>1 DEF OriginOK, Own
  <2> QED
    BY <2>1, <2>2
<1> QED
  BY <1>3, <1>4 DEF OriginOK, Own, Lists

\* The collection begins with the references of collaborators.
LEMMA CollectStep ==
  ASSUME ContextTypeOK, ImagesTypeOK, DownloadOK, OriginOK, CollectIssueImages
  PROVE  DownloadOK' /\ OriginOK'
<1>1. /\ collect = "off" /\ phase = "images" /\ phase' = phase
      /\ refs' = CollaboratorReferences
      /\ collect' \in {"done", "running", "aborted"}
      /\ chain' = <<>> /\ images' = <<>> /\ seen' = seen /\ got' = got
  BY DEF CollectIssueImages, Start, NoDirectory, DownloadOK, contextVars
<1>2. Len(images') = 0 /\ DOMAIN images' = {} /\ DOMAIN chain' = {}
  BY <1>1
<1>3. DownloadOK'
  BY <1>1, <1>2, ImagesAssumption DEF DownloadOK
<1>4. Lists'
  <2> DEFINE first == <<Trusted(seen)>>
             rest == [i \in DOMAIN got |-> Trusted(got[i])]
  <2>1. Len(got) \in Nat /\ DOMAIN got = 1 .. Len(got)
    BY DEF ContextTypeOK
  <2>2. \A post : \/ post.text.images = Trusted(post) /\ post.author \in Collaborators
                  \/ Trusted(post) = <<>>
    BY DEF Trusted
  <2>3. ASSUME NEW l \in DOMAIN CollaboratorReferences
        PROVE  \/ CollaboratorReferences[l] = Trusted(seen)
               \/ \E i \in DOMAIN got : CollaboratorReferences[l] = Trusted(got[i])
    <3> DEFINE S == {Trusted(seen)} \cup {Trusted(got[i]) : i \in DOMAIN got}
    <3>1. first \in Seq(S) /\ Len(first) = 1 /\ first[1] = Trusted(seen)
      OBVIOUS
    <3>2. /\ Len(rest) = Len(got) /\ rest \in Seq(S)
          /\ \A i \in DOMAIN got : rest[i] = Trusted(got[i])
      BY <2>1
    <3> HIDE DEF first, rest, S
    <3>3. CollaboratorReferences = first \o rest
      BY DEF CollaboratorReferences, first, rest
    <3>4. /\ DOMAIN (first \o rest) = 1 .. 1 + Len(got)
          /\ (first \o rest)[1] = first[1]
          /\ \A i \in 1 .. Len(got) : (first \o rest)[1 + i] = rest[i]
      <4>1. /\ first \o rest \in Seq(S) /\ Len(first \o rest) = 1 + Len(got)
            /\ \A i \in 1 .. 1 + Len(got) :
                 (first \o rest)[i] = IF i <= 1 THEN first[i] ELSE rest[i - 1]
        BY <3>1, <3>2, ConcatProperties
      <4>2. DOMAIN (first \o rest) = 1 .. 1 + Len(got)
        BY <4>1
      <4>3. \A i \in 1 .. Len(got) :
              1 + i \in 1 .. 1 + Len(got) /\ ~ (1 + i <= 1) /\ (1 + i) - 1 = i
        BY <2>1
      <4>4. 1 \in 1 .. 1 + Len(got) /\ 1 <= 1
        BY <2>1
      <4> QED
        BY <4>1, <4>2, <4>3, <4>4
    <3>5. l = 1 \/ (l - 1 \in 1 .. Len(got) /\ 1 + (l - 1) = l)
      BY <2>1, <3>3, <3>4
    <3> QED
      BY <2>1, <3>1, <3>2, <3>3, <3>4, <3>5
  <2>4. ASSUME NEW l \in DOMAIN CollaboratorReferences, CollaboratorReferences[l] # <<>>
        PROVE  \E post \in {seen} \cup ToSet(got) :
                 post.author \in Collaborators /\ CollaboratorReferences[l] = post.text.images
    BY <2>2, <2>3, <2>4 DEF ToSet
  <2> QED
    BY <1>1, <2>4 DEF Lists
<1> QED
  BY <1>2, <1>3, <1>4 DEF OriginOK, Lists

-----------------------------------------------------------------------------
(* The account of the references                                           *)

Entry == Url \cup {"max_images_reached"}

\* A list without repetitions gets what it does not have yet.
LEMMA DistinctAppend ==
  ASSUME NEW S, NEW s \in Seq(S), NEW x \in S
  PROVE  /\ ToSet(Append(s, x)) = ToSet(s) \cup {x}
         /\ IsInjective(s) /\ x \notin ToSet(s) => IsInjective(Append(s, x))
<1> DEFINE t == Append(s, x)
           n == Len(s)
<1>1. /\ n \in Nat /\ DOMAIN s = 1 .. n /\ DOMAIN t = 1 .. n + 1
      /\ \A i \in 1 .. n : t[i] = s[i]
      /\ t[n + 1] = x
  BY Appended
<1> HIDE DEF t, n
<1>2. DOMAIN t = DOMAIN s \cup {n + 1} /\ n + 1 \notin DOMAIN s
  BY <1>1
<1>3. \A i \in DOMAIN s : t[i] = s[i]
  BY <1>1
<1>4. ToSet(t) = ToSet(s) \cup {x}
  BY <1>1, <1>2, <1>3 DEF ToSet
<1>5. IsInjective(s) /\ x \notin ToSet(s) => IsInjective(t)
  BY <1>1, <1>2, <1>3 DEF ToSet, IsInjective
<1> QED  BY <1>4, <1>5 DEF t

\* Two such lists with nothing in common, one after the other.
LEMMA DistinctConcat ==
  ASSUME NEW S, NEW s \in Seq(S), NEW t \in Seq(S)
  PROVE  /\ ToSet(s \o t) = ToSet(s) \cup ToSet(t)
         /\ IsInjective(s) /\ IsInjective(t) /\ ToSet(s) \cap ToSet(t) = {} =>
              IsInjective(s \o t)
<1> DEFINE u == s \o t
           m == Len(s)
           n == Len(t)
<1>1. /\ m \in Nat /\ n \in Nat /\ DOMAIN s = 1 .. m /\ DOMAIN t = 1 .. n
      /\ DOMAIN u = 1 .. m + n
      /\ \A i \in 1 .. m + n : u[i] = IF i <= m THEN s[i] ELSE t[i - m]
  BY ConcatProperties
<1> HIDE DEF u, m, n
<1>2. ASSUME NEW i \in DOMAIN u
      PROVE  \/ i \in DOMAIN s /\ u[i] = s[i]
             \/ i - m \in DOMAIN t /\ i > m /\ u[i] = t[i - m]
  BY <1>1
<1>3. ASSUME NEW i \in DOMAIN s PROVE i \in DOMAIN u /\ u[i] = s[i]
  BY <1>1
<1>4. ASSUME NEW i \in DOMAIN t PROVE m + i \in DOMAIN u /\ u[m + i] = t[i]
  <2>1. m + i \in 1 .. m + n /\ ~ (m + i <= m) /\ (m + i) - m = i
    BY <1>1
  <2> QED  BY <1>1, <2>1
<1>5. ToSet(u) = ToSet(s) \cup ToSet(t)
  <2>1. ToSet(u) \subseteq ToSet(s) \cup ToSet(t)
    BY <1>2 DEF ToSet
  <2>2. ToSet(s) \subseteq ToSet(u)
    BY <1>3 DEF ToSet
  <2>3. ToSet(t) \subseteq ToSet(u)
    BY <1>4 DEF ToSet
  <2> QED  BY <2>1, <2>2, <2>3
<1>6. ASSUME IsInjective(s), IsInjective(t), ToSet(s) \cap ToSet(t) = {},
             NEW i \in DOMAIN u, NEW k \in DOMAIN u, u[i] = u[k]
      PROVE  i = k
  <2>1. \A j \in DOMAIN s : s[j] \in ToSet(s)
    BY DEF ToSet
  <2>2. \A j \in DOMAIN t : t[j] \in ToSet(t)
    BY DEF ToSet
  <2>3. CASE i \in DOMAIN s /\ u[i] = s[i] /\ k \in DOMAIN s /\ u[k] = s[k]
    BY <1>6, <2>3 DEF IsInjective
  <2>4. CASE /\ i - m \in DOMAIN t /\ u[i] = t[i - m]
             /\ k - m \in DOMAIN t /\ u[k] = t[k - m]
    <3>1. i - m = k - m
      BY <1>6, <2>4 DEF IsInjective
    <3> QED  BY <1>1, <3>1
  <2>5. CASE i \in DOMAIN s /\ u[i] = s[i] /\ k - m \in DOMAIN t /\ u[k] = t[k - m]
    BY <1>6, <2>1, <2>2, <2>5
  <2>6. CASE i - m \in DOMAIN t /\ u[i] = t[i - m] /\ k \in DOMAIN s /\ u[k] = s[k]
    BY <1>6, <2>1, <2>2, <2>6
  <2> QED  BY <1>2, <2>3, <2>4, <2>5, <2>6
<1> QED  BY <1>5, <1>6 DEF IsInjective, u

\* One more reference is dealt with.
LEMMA DealtMore ==
  ASSUME ImagesTypeOK, AtReference, refs' = refs, list' = list, at' = at + 1
  PROVE  Dealt' = Dealt \cup {Reference}
<1>1. at \in Nat /\ Reference \in Url /\ list \in DOMAIN refs /\ at + 1 \in DOMAIN refs[list]
  <2>1. refs[list] \in Seq(Url)
    BY ElementOfSeq DEF ImagesTypeOK, AtReference
  <2> QED  BY <2>1, AtUrl DEF ImagesTypeOK, AtReference
<1>2. ASSUME NEW l \in DOMAIN refs, NEW k \in DOMAIN refs[l]
      PROVE  (l < list' \/ (l = list' /\ k <= at')) <=>
             (l < list \/ (l = list /\ k <= at)) \/ (l = list /\ k = at + 1)
  <2>1. k \in Nat
    <3>1. refs[l] \in Seq(Url)
      BY ElementOfSeq DEF ImagesTypeOK
    <3> QED  BY <3>1
  <2> QED  BY <1>1, <2>1
<1>3. ASSUME NEW u \in Url PROVE u \in Dealt' <=> u \in Dealt \/ u = Reference
  BY <1>1, <1>2 DEF Dealt, Reference
<1>4. Dealt \subseteq Url /\ Dealt' \subseteq Url
  BY DEF Dealt
<1> QED  BY <1>1, <1>3, <1>4

\* At the end of a text none is dealt with.
LEMMA DealtKept ==
  ASSUME ImagesTypeOK, list \in DOMAIN refs, at = Len(refs[list]),
         refs' = refs, list' = list + 1, at' = 0
  PROVE  Dealt' = Dealt
<1>1. ASSUME NEW l \in DOMAIN refs, NEW k \in DOMAIN refs[l]
      PROVE  (l < list' \/ (l = list' /\ k <= at')) <=> (l < list \/ (l = list /\ k <= at))
  <2>1. k \in 1 .. Len(refs[l])
    <3>1. refs[l] \in Seq(Url)
      BY ElementOfSeq DEF ImagesTypeOK
    <3> QED  BY <3>1
  <2>2. l \in Nat /\ list \in Nat
    BY DEF ImagesTypeOK
  <2> QED  BY <2>1, <2>2
<1>2. ASSUME NEW u \in Url PROVE u \in Dealt' <=> u \in Dealt
  BY <1>1 DEF Dealt
<1>3. Dealt \subseteq Url /\ Dealt' \subseteq Url
  BY DEF Dealt
<1> QED  BY <1>2, <1>3

\* After the last text all are.
LEMMA DealtAll ==
  ASSUME ImagesTypeOK, list = Len(refs) + 1
  PROVE  Dealt = UNION {ToSet(refs[l]) : l \in DOMAIN refs}
<1>1. ASSUME NEW l \in DOMAIN refs PROVE l < list /\ refs[l] \in Seq(Url)
  BY ElementOfSeq DEF ImagesTypeOK
<1>2. ASSUME NEW l \in DOMAIN refs, NEW k \in DOMAIN refs[l] PROVE refs[l][k] \in Url
  BY <1>1, ElementOfSeq
<1> QED  BY <1>1, <1>2 DEF Dealt, ToSet

LEMMA AttachedType ==
  ASSUME ImagesTypeOK
  PROVE  /\ Attached \in Seq(Url) /\ Attached \in Seq(Entry) /\ ToSet(Attached) \subseteq Url
         /\ skipped \in Seq(Entry)
<1>1. \A i \in DOMAIN images : images[i].url \in Url
  <2> DEFINE R == [url: Url, file: 1 .. MaxImages]
  <2>1. \A r \in R : r.url \in Url
    OBVIOUS
  <2>2. images \in Seq(R)
    BY DEF ImagesTypeOK
  <2> HIDE DEF R
  <2> QED  BY <2>1, <2>2, ElementOfSeq
<1>2. Len(images) \in Nat /\ DOMAIN images = 1 .. Len(images)
  BY DEF ImagesTypeOK
<1>3. Attached \in Seq(Url) /\ Attached \in Seq(Entry)
  BY <1>1, <1>2 DEF Attached, Entry
<1>4. ToSet(Attached) \subseteq Url
  BY <1>1 DEF Attached, ToSet
<1> QED  BY <1>3, <1>4 DEF ImagesTypeOK, Entry

\* A new image is that of the reference at the cursor.
LEMMA AttachedMore ==
  ASSUME ImagesTypeOK, DownloadOK, Attach
  PROVE  Attached' = Append(Attached, Reference)
<1> DEFINE m == Len(images)
           r == [url |-> Reference, file |-> m + 1]
<1>1. chain # <<>> /\ images' = Append(images, r)
  BY DEF Attach, Downloading
<1>2. Reference \in Url
  BY <1>1, AtUrl DEF DownloadOK
<1>3. m + 1 \in 1 .. MaxImages /\ m \in Nat
  BY <1>1, ImagesAssumption DEF DownloadOK, ImagesTypeOK
<1>4. r \in [url: Url, file: 1 .. MaxImages]
  BY <1>2, <1>3
<1> HIDE DEF r
<1>5. /\ DOMAIN images = 1 .. m /\ DOMAIN images' = 1 .. m + 1
      /\ \A i \in 1 .. m : images'[i] = images[i]
      /\ images'[m + 1] = r
  BY <1>1, <1>4, Appended DEF ImagesTypeOK
<1>6. r.url = Reference
  BY DEF r
<1> HIDE DEF m
<1>7. /\ Attached \in Seq(Url) /\ Len(Attached) = m
      /\ \A i \in 1 .. m : Attached[i] = images[i].url
  BY <1>3, <1>5, AttachedType DEF Attached
<1>8. Attached' = [i \in 1 .. m + 1 |-> IF i = m + 1 THEN Reference ELSE images[i].url]
  <2>1. Attached' = [i \in 1 .. m + 1 |-> images'[i].url]
    BY <1>5 DEF Attached
  <2>2. \A i \in 1 .. m + 1 : i = m + 1 \/ i \in 1 .. m
    BY <1>3
  <2> QED  BY <1>5, <1>6, <2>1, <2>2
<1>9. /\ Append(Attached, Reference) \in Seq(Url) /\ Len(Append(Attached, Reference)) = m + 1
      /\ \A i \in 1 .. m : Append(Attached, Reference)[i] = images[i].url
      /\ Append(Attached, Reference)[m + 1] = Reference
  BY <1>2, <1>7, Appended
<1> DEFINE s == Append(Attached, Reference)
<1>10. s = [i \in 1 .. m + 1 |-> s[i]]
  <2>1. s \in Seq(Url) /\ Len(s) = m + 1
    BY <1>9
  <2> HIDE DEF s
  <2> QED  BY <2>1
<1>11. \A i \in 1 .. m + 1 : s[i] = IF i = m + 1 THEN Reference ELSE images[i].url
  <2>1. \A i \in 1 .. m + 1 : i = m + 1 \/ i \in 1 .. m
    BY <1>3
  <2> QED  BY <1>9, <2>1
<1> HIDE DEF s
<1>12. Attached' = s
  BY <1>8, <1>10, <1>11
<1> QED  BY <1>12 DEF s

\* While references are looked at: the images and what was left out are those
\* that were dealt with.
Balanced ==
  /\ IsInjective(Attached) /\ IsInjective(skipped)
  /\ ToSet(Attached) \cap ToSet(skipped) = {}
  /\ ToSet(Attached) \cup ToSet(skipped) = Dealt

LEMMA AccountStep ==
  ASSUME ImagesTypeOK, DownloadOK, AccountOK, ImagesNext
  PROVE  AccountOK'
<1> USE DEF Balanced
<1>0. /\ collect = "running"
      /\ Balanced
      /\ tried = Dealt \cup (IF chain = <<>> THEN {} ELSE {Reference})
      /\ chain # <<>> => Reference \notin Dealt
  <2>1. collect = "running"
    BY DEF ImagesNext, NextText, Finish, LimitReached, PassOver, Reject, Request, Redirect,
           Skip, Attach, Abort, Considered, Turn, Downloading
  <2> QED  BY <2>1 DEF AccountOK
<1>a. /\ Attached \in Seq(Entry) /\ skipped \in Seq(Entry) /\ ToSet(Attached) \subseteq Url
      /\ Dealt \subseteq Url
  BY AttachedType DEF Dealt
<1>b. ASSUME images' = images PROVE Attached' = Attached
  BY <1>b DEF Attached
<1>c. ASSUME refs' = refs, list' = list, at' = at PROVE Dealt' = Dealt /\ Reference' = Reference
  BY <1>c DEF Dealt, Reference
<1>d. ASSUME Balanced', collect' = "running",
             tried' = Dealt' \cup (IF chain' = <<>> THEN {} ELSE {Reference'}),
             chain' # <<>> => Reference' \notin Dealt'
      PROVE  AccountOK'
  BY <1>d DEF AccountOK, ReferencesAreAccounted
\* One more reference is left out.
<1>e. ASSUME images' = images, skipped' = Append(skipped, Reference),
             Dealt' = Dealt \cup {Reference},
             Reference \in Url, Reference \notin Dealt
      PROVE  Balanced'
  <2>1. Reference \in Entry
    BY <1>e DEF Entry
  <2>2. Reference \notin ToSet(Attached) /\ Reference \notin ToSet(skipped)
    BY <1>0, <1>e
  <2>3. /\ ToSet(Append(skipped, Reference)) = ToSet(skipped) \cup {Reference}
        /\ IsInjective(Append(skipped, Reference))
    BY <1>0, <1>a, <2>1, <2>2, DistinctAppend
  <2>4. ToSet(skipped') = ToSet(skipped) \cup {Reference} /\ IsInjective(skipped')
    BY <1>e, <2>3
  <2> QED  BY <1>0, <1>b, <1>e, <2>2, <2>4
<1>1. CASE NextText
  <2>1. /\ chain = <<>> /\ chain' = chain /\ images' = images /\ skipped' = skipped
        /\ tried' = tried /\ collect' = "running"
    BY <1>1 DEF NextText, Turn
  <2>2. Dealt' = Dealt
    BY <1>1, DealtKept DEF NextText
  <2> QED  BY <1>0, <1>b, <1>d, <2>1, <2>2
<1>2. CASE Finish
  <2>1. /\ list = Len(refs) + 1 /\ collect' = "done" /\ refs' = refs /\ images' = images
        /\ skipped' = skipped
    BY <1>2 DEF Finish
  <2>2. Dealt = UNION {ToSet(refs[l]) : l \in DOMAIN refs}
    BY <2>1, DealtAll
  <2>3. /\ ToSet(Attached \o skipped) = ToSet(Attached) \cup ToSet(skipped)
        /\ IsInjective(Attached \o skipped)
    BY <1>0, <1>a, DistinctConcat
  <2>4. Attached' \o skipped' = Attached \o skipped
    BY <1>b, <2>1
  <2>5. IsInjective(Attached' \o skipped')
    BY <2>3, <2>4
  <2>6. ToSet(Attached' \o skipped') = UNION {ToSet(refs'[l]) : l \in DOMAIN refs'}
    BY <1>0, <2>1, <2>2, <2>3, <2>4
  <2> QED  BY <2>1, <2>5, <2>6 DEF AccountOK, ReferencesAreAccounted
<1>3. CASE LimitReached
  <2> DEFINE full == "max_images_reached"
             s == Append(skipped, full)
  <2>1. collect' = "done" /\ images' = images /\ skipped' = s /\ Len(images) >= MaxImages
    BY <1>3 DEF LimitReached
  <2>2. full \notin Url /\ full \in Entry
    BY PromptAssumption DEF Entry
  <2>3. full \notin ToSet(skipped) /\ full \notin ToSet(Attached)
    BY <1>0, <1>a, <2>2
  <2>4. ToSet(s) = ToSet(skipped) \cup {full} /\ IsInjective(s) /\ s \in Seq(Entry)
    <3>1. s \in Seq(Entry)
      BY <1>a, <2>2, Appended
    <3> QED  BY <1>0, <1>a, <2>2, <2>3, <3>1, DistinctAppend
  <2>5. full \in ToSet(s) /\ ToSet(Attached) \cap ToSet(s) = {}
    BY <1>0, <2>3, <2>4
  <2> HIDE DEF s
  <2>6. IsInjective(Attached \o s)
    BY <1>0, <1>a, <2>4, <2>5, DistinctConcat
  <2>7. IsInjective(Attached' \o skipped')
    BY <1>b, <2>1, <2>6
  <2>8. Len(images') = MaxImages
    BY <2>1, ImagesAssumption DEF DownloadOK, ImagesTypeOK
  <2>9. "max_images_reached" \in ToSet(skipped')
    BY <2>1, <2>5
  <2> QED  BY <2>1, <2>7, <2>8, <2>9 DEF AccountOK, ReferencesAreAccounted
<1>4. CASE PassOver
  <2>1. /\ chain = <<>> /\ chain' = chain /\ images' = images /\ skipped' = skipped
        /\ tried' = tried /\ collect' = "running"
        /\ AtReference /\ Reference \in tried
        /\ refs' = refs /\ list' = list /\ at' = at + 1
    BY <1>4 DEF PassOver, Considered, Turn
  <2>2. Dealt' = Dealt
    BY <1>0, <2>1, DealtMore
  <2> QED  BY <1>0, <1>b, <1>d, <2>1, <2>2
<1>5. CASE Reject
  <2>1. /\ chain = <<>> /\ chain' = chain /\ images' = images
        /\ skipped' = Append(skipped, Reference) /\ tried' = tried \cup {Reference}
        /\ collect' = "running" /\ AtReference /\ Reference \notin tried
        /\ refs' = refs /\ list' = list /\ at' = at + 1
    BY <1>5 DEF Reject, Considered, Turn
  <2>2. Dealt' = Dealt \cup {Reference} /\ Reference \in Url /\ Reference \notin Dealt
    BY <1>0, <2>1, DealtMore, AtUrl
  <2>3. Balanced'
    BY <1>e, <2>1, <2>2
  <2> QED  BY <1>0, <1>d, <2>1, <2>2, <2>3
<1>6. CASE Request
  <2>1. /\ chain = <<>> /\ chain' = <<Reference>> /\ images' = images /\ skipped' = skipped
        /\ tried' = tried \cup {Reference} /\ collect' = "running" /\ Reference \notin tried
        /\ refs' = refs /\ list' = list /\ at' = at
    BY <1>6 DEF Request, Considered, Turn
  <2>2. Dealt' = Dealt /\ Reference' = Reference
    BY <1>c, <2>1
  <2>3. Balanced'
    BY <1>0, <1>b, <2>1, <2>2
  <2>4. chain' # <<>>
    BY <2>1
  <2>5. tried' = Dealt' \cup {Reference'} /\ Reference' \notin Dealt'
    BY <1>0, <2>1, <2>2
  <2> QED  BY <1>d, <2>1, <2>3, <2>4, <2>5
<1>7. ASSUME NEW u \in Url, Redirect(u) PROVE AccountOK'
  <2>1. /\ chain # <<>> /\ chain' = Append(chain, u)
        /\ images' = images /\ skipped' = skipped /\ tried' = tried /\ collect' = "running"
        /\ refs' = refs /\ list' = list /\ at' = at
    BY <1>7 DEF Redirect, Downloading
  <2>2. Dealt' = Dealt /\ Reference' = Reference
    BY <1>c, <2>1
  <2>3. Balanced'
    BY <1>0, <1>b, <2>1, <2>2
  <2>4. chain' # <<>>
    <3>1. Len(chain') = Len(chain) + 1 /\ Len(chain) \in Nat
      BY <2>1, Appended DEF ImagesTypeOK
    <3> QED  BY <3>1
  <2>5. tried' = Dealt' \cup {Reference'} /\ Reference' \notin Dealt'
    BY <1>0, <2>1, <2>2
  <2> QED  BY <1>d, <2>1, <2>3, <2>4, <2>5
<1>8. CASE Skip
  <2>1. /\ chain # <<>> /\ chain' = <<>> /\ images' = images
        /\ skipped' = Append(skipped, Reference) /\ tried' = tried /\ collect' = "running"
        /\ refs' = refs /\ list' = list /\ at' = at + 1
    BY <1>8 DEF Skip, Downloading
  <2>2. AtReference
    BY <2>1 DEF DownloadOK
  <2>3. Dealt' = Dealt \cup {Reference} /\ Reference \in Url /\ Reference \notin Dealt
    BY <1>0, <2>1, <2>2, DealtMore, AtUrl
  <2>4. Balanced'
    BY <1>e, <2>1, <2>3
  <2> QED  BY <1>0, <1>d, <2>1, <2>3, <2>4
<1>9. CASE Attach
  <2>1. /\ chain # <<>> /\ chain' = <<>> /\ skipped' = skipped /\ tried' = tried
        /\ collect' = "running" /\ refs' = refs /\ list' = list /\ at' = at + 1
    BY <1>9 DEF Attach, Downloading
  <2>2. AtReference
    BY <2>1 DEF DownloadOK
  <2>3. Dealt' = Dealt \cup {Reference} /\ Reference \in Url /\ Reference \notin Dealt
    BY <1>0, <2>1, <2>2, DealtMore, AtUrl
  <2>4. Attached' = Append(Attached, Reference)
    BY <1>9, AttachedMore
  <2>5. Reference \in Entry /\ Reference \notin ToSet(Attached) /\ Reference \notin ToSet(skipped)
    BY <1>0, <2>3 DEF Entry
  <2>6. /\ ToSet(Append(Attached, Reference)) = ToSet(Attached) \cup {Reference}
        /\ IsInjective(Append(Attached, Reference))
    BY <1>0, <1>a, <2>5, DistinctAppend
  <2>7. ToSet(Attached') = ToSet(Attached) \cup {Reference} /\ IsInjective(Attached')
    BY <2>4, <2>6
  <2>8. Balanced'
    BY <1>0, <2>1, <2>3, <2>5, <2>7
  <2> QED  BY <1>0, <1>d, <2>1, <2>3, <2>8
<1>10. CASE Abort
  <2>1. collect' = "aborted"
    BY <1>10 DEF Abort
  <2> QED  BY <2>1 DEF AccountOK, ReferencesAreAccounted
<1> QED
  BY <1>1, <1>2, <1>3, <1>4, <1>5, <1>6, <1>7, <1>8, <1>9, <1>10 DEF ImagesNext

\* At the beginning nothing is dealt with; without references that is all.
LEMMA AccountOpened ==
  ASSUME ImagesTypeOK', DownloadOK, AccountOK, CollectIssueImages
  PROVE  AccountOK'
<1>1. /\ refs' = CollaboratorReferences /\ list' = 1 /\ at' = 0 /\ tried' = {}
      /\ chain' = <<>> /\ images' = <<>> /\ skipped' = <<>>
      /\ \/ collect' = "done" /\ \A l \in DOMAIN refs' : refs'[l] = <<>>
         \/ collect' \in {"running", "aborted"}
  BY DEF CollectIssueImages, Start, NoDirectory, DownloadOK, AccountOK
<1>2. Attached' = <<>>
  BY <1>1 DEF Attached
<1>3. /\ IsInjective(<<>>) /\ ToSet(<<>>) = {} /\ <<>> \o <<>> = <<>>
  BY DEF IsInjective, ToSet
<1>4. CASE collect' = "done" /\ \A l \in DOMAIN refs' : refs'[l] = <<>>
  <2>1. UNION {ToSet(refs'[l]) : l \in DOMAIN refs'} = {}
    BY <1>3, <1>4
  <2> QED  BY <1>1, <1>2, <1>3, <1>4, <2>1 DEF AccountOK, ReferencesAreAccounted
<1>5. CASE collect' = "running"
  <2>1. Dealt' = {}
    <3>1. ASSUME NEW l \in DOMAIN refs', NEW k \in DOMAIN refs'[l]
          PROVE  ~ (l < list' \/ (l = list' /\ k <= at'))
      <4>1. l \in Nat \ {0}
        BY DEF ImagesTypeOK
      <4>2. k \in Nat \ {0}
        <5>1. refs'[l] \in Seq(Url)
          BY ElementOfSeq DEF ImagesTypeOK
        <5> QED  BY <5>1
      <4> QED  BY <1>1, <4>1, <4>2
    <3> QED  BY <3>1 DEF Dealt
  <2> QED  BY <1>1, <1>2, <1>3, <1>5, <2>1 DEF AccountOK, ReferencesAreAccounted
<1>6. CASE collect' = "aborted"
  BY <1>6 DEF AccountOK, ReferencesAreAccounted
<1> QED  BY <1>1, <1>4, <1>5, <1>6

-----------------------------------------------------------------------------
(* The inductive invariant                                                 *)

LEMMA Beginning == Init => IInv
<1> SUFFICES ASSUME Init PROVE IInv
  OBVIOUS
<1>1. PICK b \in Beginnings : issue = b.issue /\ thread = b.thread
  BY DEF Init, ContextInit
<1>2. issue \in IssueType /\ thread \in Seq(Comment) /\ \A i \in DOMAIN thread : thread[i].id = i
  BY <1>1, PromptAssumption
<1>3. Len(thread) \in Nat /\ DOMAIN thread = 1 .. Len(thread) /\ nextId = Len(thread) + 1
  BY <1>2 DEF Init, ContextInit
<1>4. /\ \/ hook = NoHook /\ phase = "idle"
         \/ hook = Opened(issue) /\ phase = "sent"
      /\ changes = 0 /\ job = NoJob /\ seen = issue /\ got = <<>>
      /\ touched = FALSE /\ shifted = FALSE /\ present = {}
      /\ wasCurrent = FALSE /\ wasOpen = FALSE
  BY DEF Init, ContextInit
<1>5. ContextTypeOK
  <2>1. hook \in HookType
    <3>1. CASE hook = NoHook
      BY <3>1, PromptAssumption DEF NoHook, HookType
    <3>2. CASE hook = Opened(issue)
      BY <1>2, <3>2 DEF Opened, HookType, IssueType
    <3> QED
      BY <1>4, <3>1, <3>2
  <2>2. phase \in Phases
    BY <1>4 DEF Phases
  <2>3. job \in [command: Commands \cup {"none"}, comment: Nat]
    BY <1>4 DEF NoJob
  <2>4. got \in Seq(Comment)
    BY <1>4, EmptySeq
  <2>5. nextId \in Nat \ {0} /\ changes \in Nat
    BY <1>3, <1>4
  <2> QED
    BY <1>2, <1>4, <2>1, <2>2, <2>3, <2>4, <2>5 DEF ContextTypeOK
<1>6. /\ refs = <<>> /\ list = 1 /\ at = 0 /\ tried = {} /\ chain = <<>>
      /\ images = <<>> /\ skipped = <<>> /\ collect = "off"
      /\ disk = [n \in 1 .. MaxImages |-> NoFile]
  BY DEF Init, ImagesInit
<1>7. ImagesTypeOK
  <2>1. refs \in Seq(Seq(Url)) /\ Len(refs) = 0 /\ chain \in Seq(Url) /\ Len(chain) = 0
    BY <1>6
  <2>2. images \in Seq([url: Url, file: 1 .. MaxImages])
    BY <1>6
  <2>3. skipped \in Seq(Url \cup {"max_images_reached"})
    BY <1>6
  <2> QED
    BY <1>6, <2>1, <2>2, <2>3, ImagesAssumption DEF ImagesTypeOK
<1>8. got = <<>> /\ DOMAIN got = {}
  BY <1>4
<1>9. ThreadOK
  <2>1. hook.comment = 0
    BY <1>4 DEF NoHook, Opened
  <2>2. hook.comment < nextId
    BY <1>3, <2>1
  <2>3. Ascending(thread) /\ Ascending(got)
    BY <1>2, <1>8 DEF Ascending
  <2>4. \A i \in DOMAIN thread : thread[i].id < nextId
    BY <1>2, <1>3
  <2> QED
    BY <1>8, <2>2, <2>3, <2>4 DEF ThreadOK
<1>10. FetchOK
  BY <1>4, <1>8 DEF FetchOK, FetchIsFaithful
<1>11. SourceOK
  BY <1>4 DEF SourceOK, RejectedHasCause, NoHook, Opened
<1>12. WitnessOK
  BY <1>4 DEF WitnessOK, PreparedWasCurrent
<1>13. DownloadOK /\ OriginOK
  <2>1. Len(images) = 0 /\ DOMAIN images = {} /\ DOMAIN chain = {} /\ DOMAIN refs = {}
    BY <1>6
  <2> QED
    BY <1>6, <2>1, ImagesAssumption DEF DownloadOK, OriginOK
<1>14. AccountOK
  BY <1>6 DEF AccountOK, ReferencesAreAccounted
<1> QED
  BY <1>5, <1>7, <1>9, <1>10, <1>11, <1>12, <1>13, <1>14 DEF IInv, TypeOK

\* What is said of the issue and its comments does not depend on the images.
LEMMA ContextFrame ==
  ASSUME IInv, UNCHANGED contextVars
  PROVE  ContextTypeOK' /\ ThreadOK' /\ FetchOK' /\ SourceOK' /\ WitnessOK'
<1> USE DEF IInv, TypeOK, contextVars
<1>1. ContextTypeOK'
  BY DEF ContextTypeOK
<1>2. ThreadOK' /\ FetchOK'
  BY DEF ThreadOK, Ascending, FetchOK, FetchIsFaithful, Ids
<1>3. SourceOK'
  BY DEF SourceOK, RejectedHasCause, InThread, ContainsJobCommand, Overlong
<1>4. WitnessOK'
  BY DEF WitnessOK, PreparedWasCurrent, IsCurrent, IsOpen, CommandSource, ContainsJobCommand
<1> QED
  BY <1>1, <1>2, <1>3, <1>4

\* And what is said of the images only depends on what was read, and on the phase.
LEMMA ImagesFrame ==
  ASSUME IInv, UNCHANGED imagesVars,
         collect # "off" => seen' = seen /\ got' = got /\ phase' \in {"images", "prepared"}
  PROVE  ImagesTypeOK' /\ DownloadOK' /\ OriginOK' /\ AccountOK'
<1> USE DEF IInv, TypeOK, imagesVars
<1>1. ImagesTypeOK'
  BY DEF ImagesTypeOK
<1>2. DownloadOK'
  BY DEF DownloadOK, AtReference, Reference
<1>a. AccountOK'
  BY DEF AccountOK, ReferencesAreAccounted, Dealt, Attached, Reference
<1>3. CASE collect = "off"
  <2>1. DOMAIN images' = {} /\ DOMAIN refs' = {}
    BY <1>3 DEF DownloadOK
  <2> QED
    BY <1>1, <1>2, <1>a, <2>1 DEF OriginOK
<1>4. CASE collect # "off"
  BY <1>1, <1>2, <1>a, <1>4 DEF OriginOK
<1> QED
  BY <1>3, <1>4

LEMMA Inductive == IInv /\ [Next]_vars => IInv'
<1> SUFFICES ASSUME IInv, [Next]_vars PROVE IInv'
  OBVIOUS
<1> USE DEF IInv, TypeOK
<1>1. CASE ContextNext /\ UNCHANGED imagesVars
  <2>1. ContextTypeOK'
    BY <1>1, ContextTypeStep
  <2>2. ThreadOK'
    BY <1>1, ThreadStep
  <2>3. FetchOK'
    BY <1>1, <2>1, <2>2, FetchStep
  <2>4. SourceOK'
    BY <1>1, <2>1, SourceStep
  <2>5. WitnessOK'
    BY <1>1, WitnessStep
  <2>6. collect = "off"
    BY <1>1, PhaseStep DEF DownloadOK
  <2>7. ImagesTypeOK' /\ DownloadOK' /\ OriginOK' /\ AccountOK'
    BY <1>1, <2>6, ImagesFrame
  <2> QED
    BY <2>1, <2>2, <2>3, <2>4, <2>5, <2>7
<1>2. CASE CollectIssueImages
  <2>1. UNCHANGED contextVars
    BY <1>2 DEF CollectIssueImages
  <2>2. ImagesTypeOK'
    BY <1>2, StartType
  <2> QED
    BY <1>2, <2>1, <2>2, ContextFrame, CollectStep, AccountOpened
<1>3. CASE ImagesNext /\ UNCHANGED contextVars
  BY <1>3, ContextFrame, ImagesTypeStep, DownloadStep, OriginStep, AccountStep
<1>4. CASE Prepare
  <2>1. /\ phase = "images" /\ phase' = "prepared" /\ UNCHANGED imagesVars
        /\ UNCHANGED <<issue, thread, nextId, changes, hook, job, seen, got>>
        /\ UNCHANGED <<touched, shifted, present, wasCurrent, wasOpen>>
    BY <1>4 DEF Prepare
  <2>2. ContextTypeOK'
    BY <2>1 DEF ContextTypeOK, Phases
  <2>3. ThreadOK' /\ FetchOK'
    BY <2>1 DEF ThreadOK, Ascending, FetchOK, FetchIsFaithful
  <2>4. SourceOK'
    BY <2>1 DEF SourceOK, RejectedHasCause, Overlong
  <2>5. WitnessOK'
    BY <2>1 DEF WitnessOK, PreparedWasCurrent
  <2>6. ImagesTypeOK' /\ DownloadOK' /\ OriginOK' /\ AccountOK'
    BY <2>1, ImagesFrame
  <2> QED
    BY <2>2, <2>3, <2>4, <2>5, <2>6
<1>5. CASE UNCHANGED vars
  BY <1>5, ContextFrame, ImagesFrame DEF vars, contextVars, DownloadOK
<1> QED
  BY <1>1, <1>2, <1>3, <1>4, <1>5 DEF Next

\* Every part of the inductive invariant holds of every state.
THEOREM Invariance == Spec => []IInv
<1>1. Init => IInv
  BY Beginning
<1>2. IInv /\ [Next]_vars => IInv'
  BY Inductive
<1> QED
  BY <1>1, <1>2, PTL DEF Spec

-----------------------------------------------------------------------------
(* What follows                                                            *)

\* The variables have their types.
THEOREM TypeCorrect == Spec => []TypeOK
<1>1. IInv => TypeOK
  BY DEF IInv
<1> QED
  BY <1>1, Invariance, PTL

\* A prompt is made of a command that was current, and of an issue that was open,
\* at some moment between the first and the last request of the job.
THEOREM CommandWasCurrent == Spec => []PreparedWasCurrent
<1>1. IInv => PreparedWasCurrent
  BY DEF IInv, WitnessOK
<1> QED
  BY <1>1, Invariance, PTL

\* A job that nobody interfered with, and that asks for no more minutes than
\* promptForJob allows, is not refused.
THEOREM RefusalHasCause == Spec => []RejectedHasCause
<1>1. IInv => RejectedHasCause
  BY DEF IInv, SourceOK
<1> QED
  BY <1>1, Invariance, PTL

\* The pages show each comment once, in order, and miss none that stayed unless
\* one before it went.
THEOREM PagesAreFaithful == Spec => []FetchIsFaithful
<1>1. IInv => FetchIsFaithful
  BY DEF IInv, FetchOK
<1> QED
  BY <1>1, Invariance, PTL

\* Every request goes to a host of GitHub, or to its storage straight from an
\* attachment, and every image is one that a collaborator refers to.
THEOREM TrustedImages == Spec => []ImagesAreTrusted
<1>1. IInv => ImagesAreTrusted
  <2> SUFFICES ASSUME IInv PROVE ImagesAreTrusted
    OBVIOUS
  <2>1. Trail(chain)
    BY DEF IInv, DownloadOK, Trail
  <2>2. Lists /\ \A i \in DOMAIN images : Own(i)
    BY DEF IInv, OriginOK, Lists, Own
  <2>3. ASSUME NEW i \in DOMAIN images
        PROVE  /\ \/ Allowed(disk[images[i].file].from)
                  \/ disk[images[i].file].from \in Storage
               /\ \E post \in {seen} \cup ToSet(got) :
                    /\ post.author \in Collaborators
                    /\ disk[images[i].file].asked \in ToSet(post.text.images)
    <3>1. Own(i) /\ images[i].file = i
      BY <2>2 DEF Own
    <3>2. PICK l \in DOMAIN refs : images[i].url \in ToSet(refs[l])
      BY <3>1 DEF Own
    <3>3. refs[l] # <<>>
      BY <3>2 DEF ToSet
    <3> QED
      BY <2>2, <3>1, <3>2, <3>3 DEF Lists, Own
  <2> QED
    BY <2>1, <2>3 DEF ImagesAreTrusted, Trail
<1> QED
  BY <1>1, Invariance, PTL

\* No file holds two images, and each holds what its reference asked for.
THEOREM OwnFiles == Spec => []ImagesAreOwnFiles
<1>1. IInv => ImagesAreOwnFiles
  BY DEF IInv, OriginOK, DownloadOK, ImagesAreOwnFiles
<1> QED
  BY <1>1, Invariance, PTL

\* Every reference of a finished collection is an image or was left out, once, or
\* the limit was reached and that is said.
THEOREM EveryReferenceCounted == Spec => []ReferencesAreAccounted
<1>1. IInv => ReferencesAreAccounted
  BY DEF IInv, AccountOK
<1> QED
  BY <1>1, Invariance, PTL
=============================================================================
