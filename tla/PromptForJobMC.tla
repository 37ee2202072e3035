--------------------------- MODULE PromptForJobMC ---------------------------
(* One command, three accounts and pages of two comments.                   *)
EXTENDS PromptForJob

Line(name, minutes) == [name |-> name, minutes |-> minutes]
Text(lines, urls) == [commands |-> lines, images |-> urls]

\* A command; the same after another command, with a limit that a handler of 300
\* minutes accepts and promptForJob does not; talk.
MCImplement == Text(<<Line("implement", 0)>>, <<"elsewhere", "attachment">>)
MCPatient == Text(<<Line("plan", 0), Line("implement", 270)>>, <<"camo">>)
MCTalk == Text(<<Line("status", 0)>>, <<"hosted", "attachment">>)
MCTexts == {MCImplement, MCPatient, MCTalk}

MCIssue(a, t) == [author |-> a, text |-> t, closed |-> FALSE, locked |-> FALSE]
MCComment(n, a, t) == [id |-> n, author |-> a, text |-> t]

MCBeginnings ==
  {[issue |-> MCIssue("hellcatjack", MCImplement), thread |-> <<>>],
   [issue |-> MCIssue("guest", MCTalk),
    thread |-> <<MCComment(1, "guest", MCTalk), MCComment(2, "member", MCTalk)>>]}
=============================================================================
