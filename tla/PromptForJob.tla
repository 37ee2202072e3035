---------------------------- MODULE PromptForJob ----------------------------
(***************************************************************************)
(* promptForJob as a whole: the issue and its comments are read            *)
(* (IssueContext), and the images they refer to are collected              *)
(* (IssueImages).  What goes wrong with an image never fails the job.      *)
(***************************************************************************)
EXTENDS IssueContext, IssueImages

Comment == [id: Nat \ {0}, author: Accounts, text: Texts]
IssueType == [author: Accounts, text: Texts, closed: BOOLEAN, locked: BOOLEAN]

ASSUME PromptAssumption ==
  /\ Texts \subseteq [commands: Seq([name: STRING, minutes: Nat]), images: Seq(Url)]
  /\ Beginnings \subseteq [issue: IssueType, thread: Seq(Comment)]
  /\ \A b \in Beginnings : \A i \in DOMAIN b.thread : b.thread[i].id = i
  /\ Actor \in Accounts
  /\ "max_images_reached" \notin Url

vars == <<contextVars, imagesVars>>

Init == ContextInit /\ ImagesInit

\* extractCollaboratorReferences
Trusted(post) == IF post.author \in Collaborators THEN post.text.images ELSE <<>>
CollaboratorReferences == <<Trusted(seen)>> \o [i \in DOMAIN got |-> Trusted(got[i])]

CollectIssueImages ==
  /\ phase = "images"
  /\ Start(CollaboratorReferences) \/ NoDirectory(CollaboratorReferences)
  /\ UNCHANGED contextVars

\* The prompt and the files in images are handed to Codex; an error of Collect
\* is only mentioned in the text.
Prepare ==
  /\ phase = "images"
  /\ collect \in {"done", "aborted"}
  /\ phase' = "prepared"
  /\ UNCHANGED <<github, hook, worker, history, imagesVars>>

Next ==
  \/ ContextNext /\ UNCHANGED imagesVars
  \/ CollectIssueImages
  \/ ImagesNext /\ UNCHANGED contextVars
  \/ Prepare

Spec == Init /\ [][Next]_vars

-----------------------------------------------------------------------------
(* Properties                                                              *)

HookType == [comment: Nat, sender: Accounts, text: Texts \cup {NoText},
             closed: BOOLEAN, locked: BOOLEAN]
Phases == {"idle", "sent", "refused", "queued", "paging", "fetched", "images",
           "rejected", "failed", "prepared"}

\* The types of the variables.
ContextTypeOK ==
  /\ issue \in IssueType /\ seen \in IssueType
  /\ thread \in Seq(Comment) /\ got \in Seq(Comment)
  /\ nextId \in Nat \ {0} /\ changes \in Nat
  /\ hook \in HookType
  /\ phase \in Phases
  /\ job \in [command: Commands \cup {"none"}, comment: Nat]
  /\ touched \in BOOLEAN /\ shifted \in BOOLEAN
  /\ wasCurrent \in BOOLEAN /\ wasOpen \in BOOLEAN
  /\ present \subseteq Nat

ImagesTypeOK ==
  /\ refs \in Seq(Seq(Url)) /\ list \in 1 .. Len(refs) + 1 /\ at \in Nat /\ tried \subseteq Url
  /\ chain \in Seq(Url) /\ Len(chain) <= MaxRequests
  /\ images \in Seq([url: Url, file: 1 .. MaxImages])
  /\ skipped \in Seq(Url \cup {"max_images_reached"})
  /\ disk \in [1 .. MaxImages -> [asked: Url, from: Url] \cup {NoFile}]
  /\ collect \in {"off", "running", "done", "aborted"}

TypeOK == ContextTypeOK /\ ImagesTypeOK

\* A prompt is only made of a command that was still in its comment or issue,
\* by its author, and of an issue that was open, at some moment between the
\* first and the last request of the job: not merely when the event was sent.
PreparedWasCurrent ==
  phase \in {"images", "prepared"} => wasCurrent /\ wasOpen

\* A job is only refused for a reason: somebody changed its source, closed or
\* locked the issue, or deleted a comment while the pages were read; or the
\* source is not the command actor's own (he may edit what others wrote, and
\* the event has his name); or a line asks for more minutes than promptForJob
\* ever allows, which a handler with a larger limit in its configuration has
\* accepted.  A page too few, or another difference between the two readings of
\* a text, would refuse a command that nobody touched.
Overlong(text) == \E i \in DOMAIN text.commands : text.commands[i].minutes > WorkerMinutes

RejectedHasCause ==
  phase = "rejected" =>
    \/ touched \/ shifted \/ Overlong(hook.text)
    \/ IF job.comment = 0 THEN issue.author # Actor
       ELSE \E i \in DOMAIN thread : thread[i].id = job.comment /\ thread[i].author # Actor

\* The comments of the prompt are in order and none is there twice, whatever is
\* posted and deleted between two pages; and none that was there all the time
\* is missing, unless one before it was deleted.
FetchIsFaithful ==
  /\ \A i, k \in DOMAIN got : i < k => got[i].id < got[k].id
  /\ phase = "fetched" /\ ~ shifted => present \subseteq Ids(got)

\* Only the hosts of GitHub are asked, and its storage straight after an
\* attachment, over any chain of redirects; and what Codex is given as an image
\* comes from them, for a reference of a collaborator.
ImagesAreTrusted ==
  /\ \A k \in DOMAIN chain :
       \/ Allowed(chain[k])
       \/ k > 1 /\ chain[k] \in Storage /\ chain[k - 1] \in Attachments
  /\ \A i \in DOMAIN images :
       /\ Allowed(disk[images[i].file].from) \/ disk[images[i].file].from \in Storage
       /\ \E post \in {seen} \cup ToSet(got) :
            post.author \in Collaborators /\ disk[images[i].file].asked \in ToSet(post.text.images)

\* Every image has a file of its own, with the content of its own reference, also
\* after others were left out or the collection was broken off.
ImagesAreOwnFiles ==
  /\ Len(images) <= MaxImages
  /\ \A i \in DOMAIN images :
       /\ disk[images[i].file].asked = images[i].url
       /\ \A k \in DOMAIN images : images[i].file = images[k].file => i = k

\* The references whose images are in Context.Images.
Attached == [i \in DOMAIN images |-> images[i].url]

\* At the end of a collection every reference is an image or was left out, once
\* and not both, unless the limit was reached, which Skipped then says.
ReferencesAreAccounted ==
  collect = "done" =>
    LET used == Attached \o skipped
    IN /\ IsInjective(used)
       /\ \/ ToSet(used) = UNION {ToSet(refs[l]) : l \in DOMAIN refs}
          \/ "max_images_reached" \in ToSet(skipped) /\ Len(images) = MaxImages

-----------------------------------------------------------------------------
(* The inductive invariant                                                 *)

Ascending(comments) ==
  \A i, k \in DOMAIN comments : i < k => comments[i].id < comments[k].id

\* Ids grow, and none is given twice.
ThreadOK ==
  /\ Ascending(thread) /\ Ascending(got)
  /\ \A i \in DOMAIN thread : thread[i].id < nextId
  /\ \A i \in DOMAIN got : got[i].id < nextId
  /\ \A i \in DOMAIN got, k \in DOMAIN thread :
       got[i].id = thread[k].id => got[i].author = thread[k].author
  /\ hook.comment < nextId

\* Between two pages, what was fetched is older than what will be; it is the
\* beginning of the thread, unless a comment of it was deleted.
FetchOK ==
  /\ phase \in {"idle", "sent", "queued"} => got = <<>> /\ ~ shifted
  /\ phase = "paging" =>
       /\ \A i \in DOMAIN got, k \in DOMAIN thread : k > Len(got) => got[i].id < thread[k].id
       /\ present \subseteq Ids(thread)
       /\ ~ shifted => /\ Len(got) <= Len(thread)
                       /\ \A i \in DOMAIN got : got[i].id = thread[i].id
  /\ FetchIsFaithful

InThread == \E k \in DOMAIN thread : thread[k].id = hook.comment /\ thread[k].text = hook.text

\* What nobody touched is what the event said.
SourceOK ==
  /\ phase \in {"queued", "paging", "fetched"} =>
       /\ job.comment = hook.comment
       /\ ~ hook.locked /\ (hook.closed => job.command = "status")
       /\ Overlong(hook.text) \/ ContainsJobCommand(hook.text, job)
  /\ phase \in {"sent", "queued", "paging"} /\ ~ touched =>
       /\ issue.closed = hook.closed /\ issue.locked = hook.locked
       /\ IF hook.comment = 0 THEN issue.text = hook.text ELSE InThread
  /\ phase \in {"paging", "fetched"} /\ ~ touched =>
       /\ seen.closed = hook.closed /\ seen.locked = hook.locked
       /\ hook.comment = 0 => seen.text = hook.text /\ seen.author = issue.author
       /\ \A i \in DOMAIN got : got[i].id = hook.comment => got[i].text = hook.text
  /\ phase = "fetched" /\ ~ touched /\ ~ shifted /\ hook.comment # 0 =>
       /\ InThread
       /\ \E i \in DOMAIN got : got[i].id = hook.comment
  /\ RejectedHasCause

\* What was read was true when it was read.
WitnessOK ==
  /\ phase = "paging" =>
       /\ IsCurrent(issue, thread, job) => wasCurrent
       /\ IsOpen(issue, job) => wasOpen
  /\ phase \in {"paging", "fetched"} =>
       /\ IsCurrent(seen, got, job) => wasCurrent
       /\ IsOpen(seen, job) => wasOpen
  /\ PreparedWasCurrent

\* A download is for the reference at the cursor.
DownloadOK ==
  /\ Len(images) <= MaxImages
  /\ collect = "off" => refs = <<>> /\ chain = <<>> /\ images = <<>>
  /\ collect # "off" => phase \in {"images", "prepared"}
  /\ chain # <<>> =>
       /\ collect = "running" /\ AtReference /\ Len(images) < MaxImages
       /\ chain[1] = Reference /\ Allowed(Reference)
  /\ \A k \in DOMAIN chain :
       \/ Allowed(chain[k])
       \/ k > 1 /\ chain[k] \in Storage /\ chain[k - 1] \in Attachments

\* Every list is that of a collaborator's text, and every image is of a list.
OriginOK ==
  /\ \A l \in DOMAIN refs : refs[l] # <<>> =>
       \E post \in {seen} \cup ToSet(got) :
         post.author \in Collaborators /\ refs[l] = post.text.images
  /\ \A i \in DOMAIN images :
       /\ images[i].file = i
       /\ disk[i].asked = images[i].url
       /\ Allowed(disk[i].from) \/ disk[i].from \in Storage
       /\ \E l \in DOMAIN refs : images[i].url \in ToSet(refs[l])

\* The references before the cursor.
Dealt ==
  {u \in Url : \E l \in DOMAIN refs : \E k \in DOMAIN refs[l] :
                 (l < list \/ (l = list /\ k <= at)) /\ refs[l][k] = u}

\* Those are the images and what was left out, once and not both; tried has them
\* and the one that is downloaded.
AccountOK ==
  /\ collect = "off" => skipped = <<>> /\ tried = {} /\ list = 1 /\ at = 0
  /\ collect = "running" =>
       /\ IsInjective(Attached) /\ IsInjective(skipped)
       /\ ToSet(Attached) \cap ToSet(skipped) = {}
       /\ ToSet(Attached) \cup ToSet(skipped) = Dealt
       /\ tried = Dealt \cup (IF chain = <<>> THEN {} ELSE {Reference})
       /\ chain # <<>> => Reference \notin Dealt
  /\ ReferencesAreAccounted

IInv ==
  /\ TypeOK /\ ThreadOK /\ FetchOK /\ SourceOK /\ WitnessOK
  /\ DownloadOK /\ OriginOK /\ AccountOK
=============================================================================
