----------------------------- MODULE IssueImages -----------------------------
(***************************************************************************)
(* Collector.Collect (internal/issueimage): the images that collaborators  *)
(* refer to are downloaded one after the other, each over a chain of       *)
(* redirects that the hosts of GitHub may ask for, and written to files    *)
(* that Codex is given.  The servers may answer anything.                  *)
(***************************************************************************)
EXTENDS SequencesExt

CONSTANTS
  Attachments,  \* https://github.com/user-attachments/assets/...
  Hosted,       \* the other hosts of DefaultRules
  Storage,      \* https://github-production-user-asset-*.s3.amazonaws.com
  Elsewhere,    \* any other reference, also one that is no absolute URL
  MaxImages,    \* DefaultMaxImages, 5
  MaxRequests   \* requests of a download, 5

Url == Attachments \cup Hosted \cup Storage \cup Elsewhere

ASSUME ImagesAssumption == MaxImages \in Nat \ {0} /\ MaxRequests \in Nat \ {0}

VARIABLES
  refs,     \* the references of each text, in order
  list,     \* the text whose references are looked at
  at,       \* how many of them are dealt with
  tried,    \* the map that Collect calls seen
  chain,    \* the requests of the download under way
  images,   \* Context.Images: the reference and the number in the file's name
  skipped,  \* Context.Skipped: the references left out
  disk,     \* the content of each file: what was asked for, and who gave it
  collect   \* "off", "running", "done" or "aborted" (an error is returned)

cursor == <<list, at>>
output == <<images, skipped, disk>>
imagesVars == <<refs, cursor, tried, chain, output, collect>>

NoFile == [asked |-> "nothing", from |-> "nowhere"]

ImagesInit ==
  /\ refs = <<>> /\ list = 1 /\ at = 0 /\ tried = {}
  /\ chain = <<>> /\ images = <<>> /\ skipped = <<>>
  /\ disk = [n \in 1 .. MaxImages |-> NoFile]
  /\ collect = "off"

Allowed(u) == u \in Attachments \cup Hosted

\* Mutant: the host of the first request vouches for all that follow.
AllowedRedirectFromStart(from, to) ==
  Allowed(to) \/ (chain[1] \in Attachments /\ to \in Storage)

AllowedRedirect(from, to) ==
  Allowed(to) \/ (from \in Attachments /\ to \in Storage)

\* The collection begins; without references there is none.
Start(lists) ==
  /\ collect = "off"
  /\ refs' = lists
  /\ collect' = IF \A l \in DOMAIN lists : lists[l] = <<>> THEN "done" ELSE "running"
  /\ UNCHANGED <<cursor, tried, chain, output>>

\* os.MkdirAll fails.
NoDirectory(lists) ==
  /\ collect = "off"
  /\ \E l \in DOMAIN lists : lists[l] # <<>>
  /\ refs' = lists
  /\ collect' = "aborted"
  /\ UNCHANGED <<cursor, tried, chain, output>>

-----------------------------------------------------------------------------
(* One turn of the loop of Collect                                         *)

Turn == collect = "running" /\ chain = <<>>
AtReference == list \in DOMAIN refs /\ at < Len(refs[list])
Reference == refs[list][at + 1]

NextText ==
  /\ Turn /\ list \in DOMAIN refs /\ at = Len(refs[list])
  /\ list' = list + 1 /\ at' = 0
  /\ UNCHANGED <<refs, tried, chain, output, collect>>

Finish ==
  /\ Turn /\ list = Len(refs) + 1
  /\ collect' = "done"
  /\ UNCHANGED <<refs, cursor, tried, chain, output>>

LimitReached ==
  /\ Turn /\ AtReference
  /\ Len(images) >= MaxImages
  /\ skipped' = Append(skipped, "max_images_reached")
  /\ collect' = "done"
  /\ UNCHANGED <<refs, cursor, tried, chain, images, disk>>

Considered == Turn /\ AtReference /\ Len(images) < MaxImages

\* A reference that was there before is no second image.
PassOver ==
  /\ Considered /\ Reference \in tried
  /\ at' = at + 1
  /\ UNCHANGED <<refs, list, tried, chain, output, collect>>

\* Mutant: a reference to another host is dropped without a word.
RejectSilently ==
  /\ Considered /\ Reference \notin tried /\ ~ Allowed(Reference)
  /\ at' = at + 1
  /\ tried' = tried \cup {Reference}
  /\ UNCHANGED <<refs, list, chain, output, collect>>

\* invalid_url, unsupported_host
Reject ==
  /\ Considered /\ Reference \notin tried /\ ~ Allowed(Reference)
  /\ at' = at + 1
  /\ tried' = tried \cup {Reference}
  /\ skipped' = Append(skipped, Reference)
  /\ UNCHANGED <<refs, list, chain, images, disk, collect>>

\* client.Do sends the first request.
Request ==
  /\ Considered /\ Reference \notin tried /\ Allowed(Reference)
  /\ tried' = tried \cup {Reference}
  /\ chain' = <<Reference>>
  /\ UNCHANGED <<refs, cursor, output, collect>>

-----------------------------------------------------------------------------
(* Answers to a request, and what download does with them                  *)

Downloading == collect = "running" /\ chain # <<>>

\* Mutant: one redirect too many.
RedirectOnceMore(u) ==
  /\ Downloading
  /\ Len(chain) <= MaxRequests
  /\ AllowedRedirect(Last(chain), u)
  /\ chain' = Append(chain, u)
  /\ UNCHANGED <<refs, cursor, tried, output, collect>>

Redirect(u) ==
  /\ Downloading
  /\ Len(chain) < MaxRequests
  /\ AllowedRedirect(Last(chain), u)
  /\ chain' = Append(chain, u)
  /\ UNCHANGED <<refs, cursor, tried, output, collect>>

\* No answer, no success, a redirect that is refused or one too many, no image
\* or too large a one: download_failed, non_image_response, image_too_large.
Skip ==
  /\ Downloading
  /\ skipped' = Append(skipped, Reference)
  /\ chain' = <<>>
  /\ at' = at + 1
  /\ UNCHANGED <<refs, list, tried, images, disk, collect>>

\* os.WriteFile gets the body of the last answer.
Content == [asked |-> chain[1], from |-> Last(chain)]

\* Mutant: the files are numbered by the references left out.
AttachMisnumbered ==
  /\ Downloading
  /\ disk' = [disk EXCEPT ![Len(skipped) + 1] = Content]
  /\ images' = Append(images, [url |-> Reference, file |-> Len(skipped) + 1])
  /\ chain' = <<>>
  /\ at' = at + 1
  /\ UNCHANGED <<refs, list, tried, skipped, collect>>

Attach ==
  /\ Downloading
  /\ disk' = [disk EXCEPT ![Len(images) + 1] = Content]
  /\ images' = Append(images, [url |-> Reference, file |-> Len(images) + 1])
  /\ chain' = <<>>
  /\ at' = at + 1
  /\ UNCHANGED <<refs, list, tried, skipped, collect>>

\* The body breaks off or the file cannot be written: Collect returns the
\* error, and with it the images it has.  What was written of the file is in
\* none of them.
Abort ==
  /\ Downloading
  /\ collect' = "aborted"
  /\ chain' = <<>>
  /\ UNCHANGED <<refs, cursor, tried, output>>

ImagesNext ==
  \/ NextText \/ Finish \/ LimitReached \/ PassOver \/ Reject \/ Request
  \/ \E u \in Url : Redirect(u)
  \/ Skip \/ Attach \/ Abort
=============================================================================
