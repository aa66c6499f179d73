----------------------------- MODULE OcttoPage -----------------------------
(***************************************************************************)
(* The page of src/octto/ui/bundle.ts in one tab, over its WebSocket: the  *)
(* questions it lists, the drafts its user writes and the moment they are  *)
(* sent.  The socket breaks and is opened again; the page notices a broken *)
(* connection later than it breaks, and so does the server.                *)
(***************************************************************************)
EXTENDS AnswerMailbox, Naturals, Sequences, SequencesExt

CONSTANTS PageSession, MaxLoads \* the page's session, and a bound on loads

ASSUME PageAssumption ==
    PageSession \in Sessions /\ IsFiniteSet(Questions) /\ MaxLoads \in Nat

VARIABLES
    socket,   \* ws.readyState; a "dead" one is open for the page alone
    client,   \* the server has a wsClient
    unseen,   \* a connection broke and the server has not noticed
    down, up, \* messages on the wire, to and from the page
    listed,   \* the page's questions
    drafted,  \* those with answered = true
    sent,     \* those with sent = true
    sending,  \* sendingDraftAnswers
    loads,    \* times the page was loaded (bounded)
    responses,\* ghost: responses sent for each question since the page loaded
    dropped   \* ghost: questions whose response got lost

pageVars == <<socket, client, unseen, down, up, listed, drafted, sent, sending,
              loads, responses, dropped>>
netVars == <<socket, client, unseen, loads>>
draftVars == <<listed, drafted, sent, sending, responses>>

Message(kind, q) == [kind |-> kind, question |-> q]
Messages == [kind : {"question", "cancel"}, question : Questions]

PageTypeOK ==
    /\ socket \in {"connecting", "open", "dead", "closed"}
    /\ {client, unseen, sending} \subseteq BOOLEAN
    /\ down \in Seq(Messages) /\ up \in Seq(Questions)
    /\ listed \in Seq(Questions) /\ IsInjective(listed)
    /\ sent \subseteq drafted /\ drafted \subseteq ToSet(listed)
    /\ loads \in 0..MaxLoads /\ responses \in [Questions -> Nat]
    /\ dropped \subseteq Questions

FreshPage ==
    /\ listed' = <<>> /\ drafted' = {} /\ sent' = {} /\ sending' = FALSE
    /\ responses' = [q \in Questions |-> 0]

PageInit ==
    /\ MailInit
    /\ socket = "connecting" /\ client = FALSE /\ unseen = FALSE
    /\ down = <<>> /\ up = <<>> /\ listed = <<>> /\ drafted = {} /\ sent = {}
    /\ sending = FALSE /\ loads = 0
    /\ responses = [q \in Questions |-> 0] /\ dropped = {}

Pending == In(PageSession, {"pending"})

-----------------------------------------------------------------------------
(* The connection                                                          *)

\* Mutant of SocketOpens: pending questions are not sent again.
SocketOpensSilent ==
    /\ socket = "connecting" /\ phase[PageSession] = "open"
    /\ socket' = "open" /\ client' = TRUE /\ UNCHANGED down
    /\ UNCHANGED <<mailVars, unseen, up, draftVars, loads, dropped>>

\* onopen and onWsConnect, which sends every pending question; the order is that
\* of the session's map, here any.
SocketOpens ==
    /\ socket = "connecting" /\ phase[PageSession] = "open"
    /\ socket' = "open" /\ client' = TRUE
    /\ \E order \in SetToSeqs(Pending) :
         down' = [i \in DOMAIN order |-> Message("question", order[i])]
    /\ UNCHANGED <<mailVars, unseen, up, draftVars, loads, dropped>>

SocketFails ==
    /\ socket = "connecting" /\ socket' = "closed"
    /\ UNCHANGED <<mailVars, client, unseen, down, up, draftVars, loads,
                   dropped>>

\* What is on the wire is lost.
ConnectionBreaks ==
    /\ socket = "open" /\ socket' = "dead" /\ unseen' = TRUE
    /\ down' = <<>> /\ up' = <<>> /\ dropped' = dropped \cup ToSet(up)
    /\ UNCHANGED <<mailVars, client, draftVars, loads>>

PageNotices ==
    /\ socket = "dead" /\ socket' = "closed"
    /\ UNCHANGED <<mailVars, client, unseen, down, up, draftVars, loads,
                   dropped>>

\* onWsDisconnect, also when the page has connected again.
ServerNotices ==
    /\ unseen /\ unseen' = FALSE /\ client' = FALSE
    /\ UNCHANGED <<mailVars, socket, down, up, draftVars, loads, dropped>>

\* The timer of onclose.
Reconnects ==
    /\ socket = "closed" /\ socket' = "connecting"
    /\ UNCHANGED <<mailVars, client, unseen, down, up, draftVars, loads,
                   dropped>>

\* The user loads the page again; the server sees the old socket close.
PageReloads ==
    /\ loads < MaxLoads /\ loads' = loads + 1
    /\ socket' = "connecting" /\ client' = FALSE /\ unseen' = FALSE
    /\ down' = <<>> /\ up' = <<>> /\ dropped' = dropped \cup ToSet(up)
    /\ FreshPage /\ UNCHANGED mailVars

-----------------------------------------------------------------------------
(* The server                                                              *)

\* A message reaches the page when the server's client is the page's socket.
Tells(message) ==
    down' = IF client /\ socket = "open" THEN Append(down, message) ELSE down

SessionOpens ==
    /\ \E asked \in SUBSET Questions : Open(PageSession, asked)
    /\ UNCHANGED pageVars

ServerPushes(q) ==
    /\ Push(PageSession, q) /\ Tells(Message("question", q))
    /\ UNCHANGED <<netVars, up, draftVars, dropped>>

ServerCancels(q) ==
    /\ Cancel(PageSession, q) /\ Tells(Message("cancel", q))
    /\ UNCHANGED <<netVars, up, draftVars, dropped>>

\* The session ends, or another tab answers: this page is not told which.
SessionCloses ==
    /\ End(PageSession)
    /\ UNCHANGED pageVars

AnsweredElsewhere(q) ==
    /\ Answer(PageSession, q, "answered") /\ UNCHANGED pageVars

\* onWsMessage: only a pending question is answered.
ResponseArrives ==
    /\ up # <<>> /\ up' = Tail(up)
    /\ IF Head(up) \in Pending THEN Answer(PageSession, Head(up), "answered")
       ELSE UNCHANGED mailVars
    /\ UNCHANGED <<netVars, down, draftVars, dropped>>

-----------------------------------------------------------------------------
(* The page                                                                *)

\* Mutant of QuestionShown: the question replaces what the page has of it.
QuestionShownAnew ==
    /\ down # <<>> /\ Head(down).kind = "question" /\ down' = Tail(down)
    /\ LET q == Head(down).question IN
        /\ listed' = IF q \in ToSet(listed) THEN listed ELSE Append(listed, q)
        /\ drafted' = drafted \ {q} /\ sent' = sent \ {q}
    /\ UNCHANGED <<mailVars, netVars, up, sending, responses, dropped>>

\* upsertQuestion: a question that is shown again keeps its draft.
QuestionShown ==
    /\ down # <<>> /\ Head(down).kind = "question" /\ down' = Tail(down)
    /\ LET q == Head(down).question IN
        listed' = IF q \in ToSet(listed) THEN listed ELSE Append(listed, q)
    /\ UNCHANGED <<mailVars, netVars, up, drafted, sent, sending, responses,
                   dropped>>

\* filter: the list without a question, which it holds once.
Without(list, q) ==
    IF q \in ToSet(list)
    THEN RemoveAt(list, CHOOSE i \in DOMAIN list : list[i] = q) ELSE list

\* Mutant of QuestionRemoved: the draft is kept.
QuestionRemovedAlone ==
    /\ down # <<>> /\ Head(down).kind = "cancel" /\ down' = Tail(down)
    /\ LET q == Head(down).question IN
        /\ listed' = IF q \in sent THEN listed
                     ELSE Without(listed, q)
        /\ UNCHANGED drafted
    /\ UNCHANGED <<mailVars, netVars, up, sent, sending, responses, dropped>>

\* A question that is cancelled goes, with its draft, unless it was sent.
QuestionRemoved ==
    /\ down # <<>> /\ Head(down).kind = "cancel" /\ down' = Tail(down)
    /\ LET q == Head(down).question IN
        IF q \in sent THEN UNCHANGED <<listed, drafted>>
        ELSE /\ listed' = Without(listed, q)
             /\ drafted' = drafted \ {q}
    /\ UNCHANGED <<mailVars, netVars, up, sent, sending, responses, dropped>>

\* render: the first question without an answer is the one that can be answered.
IsCurrent(q) ==
    /\ q \in ToSet(listed) \ drafted
    /\ \A p \in ToSet(listed) \ drafted :
            \E i, j \in DOMAIN listed :
                i <= j /\ listed[i] = q /\ listed[j] = p

\* submitAnswer, from the controls of any type of question.
UserDrafts(q) ==
    /\ IsCurrent(q) /\ drafted' = drafted \cup {q}
    /\ UNCHANGED <<mailVars, netVars, down, up, listed, sent, sending,
                   responses, dropped>>

\* editAnswer
UserEdits(q) ==
    /\ q \in drafted \ sent /\ drafted' = drafted \ {q}
    /\ UNCHANGED <<mailVars, netVars, down, up, listed, sent, sending,
                   responses, dropped>>

\* What is answered and not sent; the order is that of the list, here any.
Drafts == drafted \ sent
SentOff ==
    \/ /\ socket = "open" /\ UNCHANGED dropped
       /\ \E order \in SetToSeqs(Drafts) : up' = up \o order
    \/ socket # "open" /\ dropped' = dropped \cup Drafts /\ UNCHANGED up

\* responses counts what was sent off for a question.
Counted ==
    responses' = [q \in Questions |->
                    responses[q] + IF q \in Drafts THEN 1 ELSE 0]

\* Mutant of UserSends: the drafts are not marked.
UserSendsUnmarked ==
    /\ ~sending /\ Drafts # {} /\ socket # "connecting"
    /\ Counted /\ SentOff
    /\ UNCHANGED <<mailVars, netVars, down, listed, drafted, sent, sending>>

\* Mutant of UserSends: the exception of send is caught and forgotten.
UserSendsCaught ==
    /\ ~sending /\ Drafts # {}
    /\ sent' = drafted /\ UNCHANGED sending /\ Counted
    /\ \E order \in SetToSeqs(Drafts) :
         up' = IF socket = "open" THEN up \o order ELSE up
    /\ UNCHANGED <<mailVars, netVars, down, listed, drafted, dropped>>

\* sendDraftAnswers.  send throws on a socket that is connecting, which leaves
\* sendingDraftAnswers set, and drops the message on one that is closed.
UserSends ==
    /\ ~sending /\ Drafts # {}
    /\ IF socket = "connecting"
       THEN sending' = TRUE /\ UNCHANGED <<up, sent, responses, dropped>>
       ELSE sent' = drafted /\ UNCHANGED sending /\ Counted /\ SentOff
    /\ UNCHANGED <<mailVars, netVars, down, listed, drafted>>

PageNext ==
    \/ SocketOpens \/ SocketFails \/ ConnectionBreaks \/ PageNotices
    \/ ServerNotices \/ Reconnects \/ PageReloads
    \/ SessionOpens \/ SessionCloses \/ ResponseArrives
    \/ QuestionShown \/ QuestionRemoved \/ UserSends
    \/ \E q \in Questions :
        \/ ServerPushes(q) \/ ServerCancels(q) \/ AnsweredElsewhere(q)
        \/ UserDrafts(q) \/ UserEdits(q)

PageSpec == PageInit /\ [][PageNext]_<<mailVars, pageVars>>

-----------------------------------------------------------------------------
(* Properties                                                              *)

\* While page and server are connected, every pending question is on the page
\* or on its way, however often the connection broke before.
PendingIsListed ==
    client /\ socket = "open" =>
        Pending \subseteq ToSet(listed) \cup {down[i].question : i \in DOMAIN down}

\* Reconnections repeat questions, not answers: a page sends one response for
\* each question.
SentOnce == \A q \in Questions : responses[q] <= 1

\* A question the page marks as sent is answered, or its response is on the
\* wire, or the connection was down when it was sent or broke afterwards.
SentIsOnTheWay == sent \cap Pending \subseteq ToSet(up) \cup dropped

\* Why: what the page lists or is told of was asked, a cancel on its way is of a
\* cancelled question, a connected page is of a session that was opened, and
\* one response was counted for each question that is sent.
PageKnows ==
    /\ \A q \in ToSet(listed) : mail[q] # "unasked"
    /\ \A i \in DOMAIN down :
        LET m == mail[down[i].question] IN
        m # "unasked" /\ (down[i].kind = "cancel" => m = "cancelled")
    /\ socket = "open" => phase[PageSession] # "unborn"
    /\ \A q \in Questions : responses[q] = IF q \in sent THEN 1 ELSE 0
=============================================================================
