---------------------------- MODULE IssueContext ----------------------------
(***************************************************************************)
(* From the event of a command to the text its job works on.  The handler  *)
(* accepts a command as it stands in the event; promptForJob (worker.go)   *)
(* reads the issue and its comments again when the job runs, page by page, *)
(* and refuses if the command is no longer there.  Between the two, and    *)
(* between two pages, people post, edit and delete.                        *)
(*                                                                         *)
(* One event is followed.  Roles and labels are Gateway's; the workspace,  *)
(* the runs of Codex and the outcome of the job are WorkerRun's.           *)
(***************************************************************************)
EXTENDS JobTypes, SequencesExt

CONSTANTS
  Accounts,        \* GitHub logins
  Actor,           \* commandActor
  Collaborators,   \* accounts whose association is OWNER, MEMBER or COLLABORATOR
  Texts,           \* what a comment or an issue body may say: its /codex lines, and
                   \* the images it refers to (a line has the word after /codex and
                   \* the value of --no-activity-minutes, 0 without it)
  Beginnings,      \* issues to begin with, and their threads
  HandlerMinutes,  \* worker.no_activity_timeout_minutes of the configuration
  PageSize,        \* comments per page of the API, 100
  MaxChanges       \* bound on what people do to the issue

\* The limit that promptForJob passes to ParseBody, whatever is configured.
WorkerMinutes == 240

ASSUME ContextAssumption ==
  /\ PageSize \in Nat \ {0}
  /\ HandlerMinutes \in Nat

VARIABLES
  issue,       \* the issue on GitHub
  thread,      \* its comments, oldest first
  nextId,      \* id of the next comment
  changes,     \* what people have done so far
  hook,        \* the event of the command
  phase,       \* how far the command is
  job,         \* its job
  seen,        \* FetchIssueContext: the issue
  got,         \* FetchIssueContext: the comments
  touched,     \* history: source, state or lock changed since the event
  shifted,     \* history: a comment already fetched was deleted while paging
  present,     \* history: ids there since the fetch began
  wasCurrent,  \* history: the command was current at some moment of the fetch
  wasOpen      \* history: the issue was open at some moment of the fetch

github == <<issue, thread, nextId, changes>>
worker == <<job, seen, got>>
history == <<touched, shifted, present, wasCurrent, wasOpen>>
contextVars == <<github, hook, phase, worker, history>>

Ids(comments) == {comments[i].id : i \in DOMAIN comments}

NoText == [commands |-> <<>>, images |-> <<>>]
NoHook == [comment |-> 0, sender |-> Actor, text |-> NoText, closed |-> FALSE, locked |-> FALSE]
NoJob == [command |-> "none", comment |-> 0]

\* The event that opened the issue.
Opened(anIssue) ==
  [comment |-> 0, sender |-> anIssue.author, text |-> anIssue.text,
   closed |-> anIssue.closed, locked |-> anIssue.locked]

ContextInit ==
  /\ \E b \in Beginnings : issue = b.issue /\ thread = b.thread
  /\ nextId = Len(thread) + 1
  /\ changes = 0
  /\ \/ hook = NoHook /\ phase = "idle"
     \/ hook = Opened(issue) /\ phase = "sent"
  /\ job = NoJob
  /\ seen = issue /\ got = <<>>
  /\ touched = FALSE /\ shifted = FALSE /\ present = {}
  /\ wasCurrent = FALSE /\ wasOpen = FALSE

-----------------------------------------------------------------------------
(* What the text says                                                      *)

ValidLine(line, max) ==
  line.name \in Commands /\ (line.minutes = 0 \/ line.minutes \in 30 .. max)

\* ParseBody: the names, or nothing if one line is invalid.  Both callers
\* treat an error like a text without commands.
ParseBody(text, max) ==
  IF \A i \in DOMAIN text.commands : ValidLine(text.commands[i], max)
  THEN [i \in DOMAIN text.commands |-> text.commands[i].name]
  ELSE <<>>

\* CommandSource; ids are unique, so that there is at most one text.
CommandSource(anIssue, comments, aJob) ==
  IF aJob.comment = 0
  THEN {anIssue.text : a \in {anIssue.author} \cap {Actor}}
  ELSE {comments[i].text : i \in {k \in DOMAIN comments :
          comments[k].id = aJob.comment /\ comments[k].author = Actor}}

ContainsJobCommand(text, aJob) ==
  \E i \in DOMAIN ParseBody(text, WorkerMinutes) :
    ParseBody(text, WorkerMinutes)[i] = aJob.command

IsCurrent(anIssue, comments, aJob) ==
  \E text \in CommandSource(anIssue, comments, aJob) : ContainsJobCommand(text, aJob)

IsOpen(anIssue, aJob) ==
  ~ anIssue.locked /\ (anIssue.closed => aJob.command = "status")

\* Every action ends with this: what was true at some moment of the fetch.
Witnessed ==
  /\ wasCurrent' = (wasCurrent \/ (phase' = "paging" /\ IsCurrent(issue', thread', job')))
  /\ wasOpen' = (wasOpen \/ (phase' = "paging" /\ IsOpen(issue', job')))

-----------------------------------------------------------------------------
(* People and GitHub                                                       *)

\* After the fetch nothing that happens to the issue reaches the job.
Change ==
  /\ phase \in {"idle", "sent", "queued", "paging"}
  /\ changes < MaxChanges
  /\ changes' = changes + 1
  /\ UNCHANGED worker

\* The event of a change is followed, or it is not.
Follow(comment, sender, text) ==
  \/ UNCHANGED <<hook, phase>>
  \/ /\ phase = "idle"
     /\ phase' = "sent"
     /\ hook' = [comment |-> comment, sender |-> sender, text |-> text,
                 closed |-> issue.closed, locked |-> issue.locked]

TouchedIf(concerned) == touched' = (touched \/ (phase # "idle" /\ concerned))

Post(account, text) ==
  /\ Change
  /\ issue.locked => account \in Collaborators
  /\ thread' = Append(thread, [id |-> nextId, author |-> account, text |-> text])
  /\ nextId' = nextId + 1
  /\ Follow(nextId, account, text)
  /\ UNCHANGED <<issue, touched, shifted, present>>
  /\ Witnessed

Edit(p, account, text) ==
  /\ Change
  /\ account \in Collaborators \cup {thread[p].author}
  /\ thread' = [thread EXCEPT ![p].text = text]
  /\ Follow(thread[p].id, account, text)
  /\ TouchedIf(thread[p].id = hook.comment)
  /\ UNCHANGED <<issue, nextId, shifted, present>>
  /\ Witnessed

Delete(p) ==
  /\ Change
  /\ thread' = RemoveAt(thread, p)
  /\ TouchedIf(thread[p].id = hook.comment)
  /\ shifted' = (shifted \/ (phase = "paging" /\ p <= Len(got)))
  /\ present' = present \ {thread[p].id}
  /\ UNCHANGED <<issue, nextId, hook, phase>>
  /\ Witnessed

EditIssue(account, text) ==
  /\ Change
  /\ account \in Collaborators \cup {issue.author}
  /\ issue' = [issue EXCEPT !.text = text]
  /\ Follow(0, account, text)
  /\ TouchedIf(hook.comment = 0)
  /\ UNCHANGED <<thread, nextId, shifted, present>>
  /\ Witnessed

\* Close, reopen, lock or unlock; none of these events carries a command.
Switch(field) ==
  /\ Change
  /\ issue' = [issue EXCEPT ![field] = ~ @]
  /\ TouchedIf(TRUE)
  /\ UNCHANGED <<thread, nextId, hook, phase, shifted, present>>
  /\ Witnessed

People ==
  \/ \E account \in Accounts, text \in Texts :
       \/ Post(account, text)
       \/ \E p \in DOMAIN thread : Edit(p, account, text)
       \/ EditIssue(account, text)
  \/ \E p \in DOMAIN thread : Delete(p)
  \/ \E field \in {"closed", "locked"} : Switch(field)

-----------------------------------------------------------------------------
(* handleWebhook                                                           *)

HookCommands == ParseBody(hook.text, HandlerMinutes)

Accepted ==
  /\ hook.sender = Actor
  /\ HookCommands # <<>>
  /\ ~ hook.locked
  /\ hook.closed => HookCommands[1] = "status"

Deliver ==
  /\ phase = "sent"
  /\ \/ /\ Accepted
        /\ phase' = "queued"
        /\ job' = [command |-> HookCommands[1], comment |-> hook.comment]
     \/ /\ ~ Accepted
        /\ phase' = "refused"
        /\ UNCHANGED job
  /\ UNCHANGED <<github, hook, seen, got, touched, shifted, present>>
  /\ Witnessed

-----------------------------------------------------------------------------
(* promptForJob                                                            *)

\* RunOne runs these; a job of another command ends as "failed".
Prompted == ImplementCommands \cup {"plan"}

FetchIssue ==
  /\ phase = "queued"
  /\ job.command \in Prompted
  /\ phase' = "paging"
  /\ seen' = issue
  /\ present' = Ids(thread)
  /\ UNCHANGED <<github, hook, job, got, touched, shifted>>
  /\ Witnessed

\* Mutant: only the first page is fetched.
FetchOnePage ==
  /\ phase = "paging"
  /\ got' = SubSeq(thread, 1, IF Len(thread) < PageSize THEN Len(thread) ELSE PageSize)
  /\ phase' = "fetched"
  /\ UNCHANGED <<github, hook, job, seen, touched, shifted, present>>
  /\ Witnessed

\* Mutant: a page repeats the last comment of the page before.
FetchOverlapping ==
  LET page == SubSeq(thread, IF got = <<>> THEN 1 ELSE Len(got),
                     IF Len(thread) < Len(got) + PageSize THEN Len(thread)
                                                          ELSE Len(got) + PageSize)
  IN /\ phase = "paging"
     /\ got' = got \o page
     /\ phase' = IF Len(page) < PageSize THEN "fetched" ELSE "paging"
     /\ UNCHANGED <<github, hook, job, seen, touched, shifted, present>>
     /\ Witnessed

\* fetchIssueComments: a page begins where the pages before it ended, by
\* position and not by id; one that is not full is the last.
FetchPage ==
  LET page == SubSeq(thread, Len(got) + 1,
                     IF Len(thread) < Len(got) + PageSize THEN Len(thread)
                                                          ELSE Len(got) + PageSize)
  IN /\ phase = "paging"
     /\ got' = got \o page
     /\ phase' = IF Len(page) < PageSize THEN "fetched" ELSE "paging"
     /\ UNCHANGED <<github, hook, job, seen, touched, shifted, present>>
     /\ Witnessed

\* A request, or the token it needs, fails; or RunOne knows no such command.
Fail ==
  /\ \/ phase = "queued"
     \/ phase = "paging"
  /\ phase' = "failed"
  /\ UNCHANGED <<github, hook, worker, touched, shifted, present>>
  /\ Witnessed

\* Mutant: promptForJob trusts the command of the event.
UsableIfOpen == IsOpen(seen, job)

Usable == IsOpen(seen, job) /\ IsCurrent(seen, got, job)

Check ==
  /\ phase = "fetched"
  /\ phase' = IF Usable THEN "images" ELSE "rejected"
  /\ UNCHANGED <<github, hook, worker, touched, shifted, present>>
  /\ Witnessed

ContextNext == People \/ Deliver \/ FetchIssue \/ FetchPage \/ Fail \/ Check
=============================================================================
