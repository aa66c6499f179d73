--------------------------- MODULE AnswerMailbox ---------------------------
(***************************************************************************)
(* What the Octto session store promises to the tools that use it, without *)
(* waiters, tabs or timers: a question is asked in one session, answered   *)
(* at most once, and its answer is taken by at most one get_next_answer.   *)
(* OcttoSessions implements this specification; OcttoBrainstorm is built   *)
(* on it.                                                                  *)
(***************************************************************************)
EXTENDS FiniteSets

CONSTANTS Sessions, Questions, NoSession

VARIABLES
    phase, \* of each session
    home,  \* the session a question belongs to, while that is open
    mail   \* what became of each question

mailVars == <<phase, home, mail>>

Phases == {"unborn", "open", "ended"}
Letters == {"unasked", "pending", "answered", "taken", "cancelled"}

MailTypeOK ==
    /\ phase \in [Sessions -> Phases]
    /\ home \in [Questions -> Sessions \cup {NoSession}]
    /\ mail \in [Questions -> Letters]

MailInit ==
    /\ phase = [s \in Sessions |-> "unborn"]
    /\ home = [q \in Questions |-> NoSession]
    /\ mail = [q \in Questions |-> "unasked"]

\* The questions of a session that are in one of the given states.
In(s, letters) == {q \in Questions : home[q] = s /\ mail[q] \in letters}

Become(asked, letter) ==
    mail' = [q \in Questions |-> IF q \in asked THEN letter ELSE mail[q]]

\* Questions are asked when the session is opened and afterwards.
Ask(s, asked) ==
    /\ \A q \in asked : mail[q] = "unasked"
    /\ Become(asked, "pending")
    /\ home' = [q \in Questions |-> IF q \in asked THEN s ELSE home[q]]

Open(s, asked) ==
    /\ phase[s] = "unborn"
    /\ phase' = [phase EXCEPT ![s] = "open"]
    /\ Ask(s, asked)

OpenFails(s) ==
    /\ phase[s] = "unborn"
    /\ phase' = [phase EXCEPT ![s] = "ended"]
    /\ UNCHANGED <<home, mail>>

Push(s, q) ==
    /\ phase[s] = "open"
    /\ Ask(s, {q}) /\ UNCHANGED phase

\* A call that waits takes the answer as it arrives.
Answer(s, q, letter) ==
    /\ phase[s] = "open" /\ q \in In(s, {"pending"})
    /\ Become({q}, letter) /\ UNCHANGED <<phase, home>>

Take(s, q) ==
    /\ phase[s] = "open" /\ q \in In(s, {"answered"})
    /\ Become({q}, "taken") /\ UNCHANGED <<phase, home>>

Cancel(s, q) ==
    /\ phase[s] = "open" /\ q \in In(s, {"pending"})
    /\ Become({q}, "cancelled") /\ UNCHANGED <<phase, home>>

End(s) ==
    /\ phase[s] = "open"
    /\ phase' = [phase EXCEPT ![s] = "ended"]
    /\ home' = [q \in Questions |-> IF home[q] = s THEN NoSession ELSE home[q]]
    /\ UNCHANGED mail

MailNext ==
    \E s \in Sessions :
        \/ phase[s] = "unborn" /\ \E asked \in SUBSET Questions : Open(s, asked)
        \/ OpenFails(s) \/ End(s)
        \/ \E q \in Questions :
            \/ Push(s, q) \/ Take(s, q) \/ Cancel(s, q)
            \/ \E letter \in {"answered", "taken"} : Answer(s, q, letter)

MailSpec == MailInit /\ [][MailNext]_mailVars
=============================================================================
