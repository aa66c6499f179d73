---------------------------- MODULE OcttoMailbox ----------------------------
(***************************************************************************)
(* The refinement mapping from the session store to the mailbox it         *)
(* implements: waiters, tabs, timers and the steps of opening are hidden.  *)
(***************************************************************************)
EXTENDS OcttoSessions

MailPhase == [s \in Sessions |-> IF Present(s) THEN "open" ELSE sessions[s]]
MailLetter ==
    [q \in Questions |-> IF status[q] = "answered" /\ retrieved[q]
                         THEN "taken" ELSE status[q]]

Mailbox == INSTANCE AnswerMailbox
    WITH phase <- MailPhase, home <- questionToSession, mail <- MailLetter

\* Whatever waiters, timers, tabs and teardown do, every step of the store is
\* one step of the mailbox or none: an answer reaches its question once, while
\* the session lives, and once taken it stays taken.
ImplementsMailbox == Mailbox!MailSpec
=============================================================================
