--------------------------- MODULE OcttoSessions ---------------------------
(***************************************************************************)
(* The in-memory Octto session store: src/octto/session/sessions.ts with   *)
(* the waiter registry of waiter.ts and the WebSocket callbacks of         *)
(* server.ts.                                                              *)
(*                                                                         *)
(* An agent opens a session, pushes questions to it, and reads answers     *)
(* with get_answer (one question) or get_next_answer (whichever question   *)
(* is answered first).  A browser tab shows the pending questions and      *)
(* sends answers back.  JavaScript runs one callback at a time, so an      *)
(* action below is the code between two awaits or timer callbacks; what    *)
(* interleaves are the tool calls, their timers and the tabs' messages.    *)
(*                                                                         *)
(* A tool call is made once: GetCalls and NextCalls are the calls that are *)
(* ever made, so the size of those sets bounds the behaviour.  Answers     *)
(* carry no payload: what matters is which question an answer is for.      *)
(***************************************************************************)
EXTENDS Naturals, Sequences, FiniteSets, Waiters

CONSTANTS
    Sessions,   \* session ids, each generated once (generateSessionId)
    Questions,  \* question ids, each generated once (generateQuestionId)
    Tabs,       \* WebSocket connections from the browser
    GetCalls,   \* calls of get_answer
    NextCalls,  \* calls of get_next_answer
    MaxInitial, \* bound: most questions given to start_session
    NoSession,  \* "no session": a missing map entry
    NoQuestion, \* "no question": the call returned without an answer
    NoTab       \* wsClient === undefined

ASSUME NullAssumption ==
    /\ NoSession \notin Sessions
    /\ NoQuestion \notin Questions
    /\ NoTab \notin Tabs

ASSUME CallAssumption == GetCalls \cap NextCalls = {}

ASSUME BoundAssumption == MaxInitial \in Nat

VARIABLES
    sessions,          \* phase of each session id in the `sessions` map
    questions,         \* session.questions, in the Map's insertion order
    status,            \* question.status
    retrieved,         \* question.retrieved
    questionToSession, \* the index from question ids to session ids
    rw,                \* response waiters: per question, the calls registered
    sw,                \* session waiters: per session, the calls registered
    wsClient,          \* session.wsClient
    tab,               \* the session each open connection belongs to
    display,           \* the questions each tab shows to the user
    inflight,          \* answers sent by a tab and not yet received
    pc,                \* state, then outcome, of each call
    arg,               \* the question or session a call asks about
    got                \* the question whose answer a call returned

Calls == GetCalls \cup NextCalls

storeVars == <<sessions, questions, status, retrieved, questionToSession>>
waiterVars == <<rw, sw, pc, arg, got>>
browserVars == <<wsClient, tab, display, inflight>>
vars == <<storeVars, waiterVars, browserVars>>

SessionPhases == {"unborn", "opening", "open", "ended"}
Statuses == {"unasked", "pending", "answered", "cancelled"}
Outcomes == {"answered", "pending", "none_pending", "cancelled", "timeout"}
CallStates == {"idle", "waiting"} \cup Outcomes

TypeOK ==
    /\ sessions \in [Sessions -> SessionPhases]
    /\ questions \in [Sessions -> Seq(Questions)]
    /\ status \in [Questions -> Statuses]
    /\ retrieved \in [Questions -> BOOLEAN]
    /\ questionToSession \in [Questions -> Sessions \cup {NoSession}]
    /\ rw \in [Questions -> Seq(GetCalls)]
    /\ sw \in [Sessions -> Seq(NextCalls)]
    /\ wsClient \in [Sessions -> Tabs \cup {NoTab}]
    /\ tab \in [Tabs -> Sessions \cup {NoSession}]
    /\ display \in [Tabs -> SUBSET Questions]
    /\ inflight \in SUBSET (Tabs \X Questions)
    /\ pc \in [Calls -> CallStates]
    /\ arg \in [Calls -> Questions \cup Sessions \cup {NoSession}]
    /\ got \in [Calls -> Questions \cup {NoQuestion}]

Init ==
    /\ sessions = [s \in Sessions |-> "unborn"]
    /\ questions = [s \in Sessions |-> <<>>]
    /\ status = [q \in Questions |-> "unasked"]
    /\ retrieved = [q \in Questions |-> FALSE]
    /\ questionToSession = [q \in Questions |-> NoSession]
    /\ rw = [q \in Questions |-> <<>>]
    /\ sw = [s \in Sessions |-> <<>>]
    /\ wsClient = [s \in Sessions |-> NoTab]
    /\ tab = [t \in Tabs |-> NoSession]
    /\ display = [t \in Tabs |-> {}]
    /\ inflight = {}
    /\ pc = [c \in Calls |-> "idle"]
    /\ arg = [c \in Calls |-> NoSession]
    /\ got = [c \in Calls |-> NoQuestion]

-----------------------------------------------------------------------------
(* Reading the store                                                       *)

\* sessions.has(s): the entry exists from registration to teardown.
Present(s) == sessions[s] \in {"opening", "open"}

\* The keys of session.questions.
Asked(s) == {questions[s][i] : i \in DOMAIN questions[s]}

PendingIn(s) == {q \in Asked(s) : status[q] = "pending"}

\* Answered questions that no get_next_answer has returned yet.
Unretrieved(s) == {q \in Asked(s) : status[q] = "answered" /\ ~retrieved[q]}

\* The position whose answer findUnretrievedAnswer returns: the first in the
\* session's insertion order.
FirstUnretrieved(s, i) ==
    /\ questions[s][i] \in Unretrieved(s)
    /\ \A j \in 1..(i - 1) : questions[s][j] \notin Unretrieved(s)

-----------------------------------------------------------------------------
(* Sessions and questions                                                  *)

\* initSession up to its await of openBrowser: the entry is in the map, and
\* the browser may connect to it, before start_session returns.  The initial
\* questions are given in some order of a small set.
StartSession(s, initial) ==
    /\ sessions[s] = "unborn"
    /\ \A i \in DOMAIN initial : status[initial[i]] = "unasked"
    /\ sessions' = [sessions EXCEPT ![s] = "opening"]
    /\ questions' = [questions EXCEPT ![s] = initial]
    /\ status' = [q \in Questions |->
                    IF \E i \in DOMAIN initial : initial[i] = q
                    THEN "pending" ELSE status[q]]
    /\ questionToSession' = [q \in Questions |->
                    IF \E i \in DOMAIN initial : initial[i] = q
                    THEN s ELSE questionToSession[q]]
    /\ UNCHANGED <<retrieved, waiterVars, browserVars>>

\* Spawning the browser command throws: the rollback in initSession runs
\* before any other callback, so the session id is simply used up.
StartSessionFails(s) ==
    /\ sessions[s] = "unborn"
    /\ sessions' = [sessions EXCEPT ![s] = "ended"]
    /\ UNCHANGED <<questions, status, retrieved, questionToSession,
                   waiterVars, browserVars>>

\* The browser command exits and start_session returns.
BrowserOpened(s) ==
    /\ sessions[s] = "opening"
    /\ sessions' = [sessions EXCEPT ![s] = "open"]
    /\ UNCHANGED <<questions, status, retrieved, questionToSession,
                   waiterVars, browserVars>>

\* A message to the session's current client adds questions to its display,
\* or takes them away; other open tabs of the session hear nothing.
Show(s, asked) ==
    display' = [t \in Tabs |-> IF t = wsClient[s]
                               THEN display[t] \cup asked ELSE display[t]]
Hide(s, asked) ==
    display' = [t \in Tabs |-> IF t = wsClient[s]
                               THEN display[t] \ asked ELSE display[t]]

PushQuestion(s, q) ==
    /\ sessions[s] = "open"
    /\ status[q] = "unasked"
    /\ questions' = [questions EXCEPT ![s] = Append(@, q)]
    /\ status' = [status EXCEPT ![q] = "pending"]
    /\ questionToSession' = [questionToSession EXCEPT ![q] = s]
    /\ Show(s, {q})
    /\ UNCHANGED <<sessions, retrieved, waiterVars, wsClient, tab, inflight>>

\* cancelPendingQuestion: every blocked get_answer of the question returns
\* "cancelled"; blocked get_next_answer calls are not told.
CancelQuestion(q) ==
    LET s == questionToSession[q]
        told == NotifiedAll(rw[q])
    IN
    /\ s # NoSession
    /\ Present(s)
    /\ status[q] = "pending"
    /\ status' = [status EXCEPT ![q] = "cancelled"]
    /\ Hide(s, {q})
    /\ rw' = [rw EXCEPT ![q] = <<>>]
    /\ pc' = [c \in Calls |-> IF c \in told THEN "cancelled" ELSE pc[c]]
    /\ UNCHANGED <<sessions, questions, retrieved, questionToSession, sw, arg,
                   got, wsClient, tab, inflight>>

\* Mutant of EndSession: the index entries stay behind.
EndSessionKeepsIndex(s) ==
    /\ sessions[s] = "open"
    /\ sessions' = [sessions EXCEPT ![s] = "ended"]
    /\ rw' = [q \in Questions |-> IF q \in Asked(s) THEN <<>> ELSE rw[q]]
    /\ Hide(s, Questions)
    /\ UNCHANGED <<questions, status, retrieved, questionToSession, sw, pc,
                   arg, got, wsClient, tab, inflight>>

\* Mutant of EndSession: the response waiters are not cleared.
EndSessionKeepsWaiters(s) ==
    /\ sessions[s] = "open"
    /\ sessions' = [sessions EXCEPT ![s] = "ended"]
    /\ questionToSession' = [q \in Questions |->
                    IF q \in Asked(s) THEN NoSession ELSE questionToSession[q]]
    /\ Hide(s, Questions)
    /\ UNCHANGED <<questions, status, retrieved, rw, sw, pc, arg, got,
                   wsClient, tab, inflight>>

\* teardownSession: response waiters are dropped without being called, so a
\* blocked get_answer is left to its timer; session waiters stay registered.
EndSession(s) ==
    /\ sessions[s] = "open"
    /\ sessions' = [sessions EXCEPT ![s] = "ended"]
    /\ questionToSession' = [q \in Questions |->
                    IF q \in Asked(s) THEN NoSession ELSE questionToSession[q]]
    /\ rw' = [q \in Questions |-> IF q \in Asked(s) THEN <<>> ELSE rw[q]]
    /\ Hide(s, Questions)
    /\ UNCHANGED <<questions, status, retrieved, sw, pc, arg, got, wsClient,
                   tab, inflight>>

-----------------------------------------------------------------------------
(* The agent's calls                                                       *)

Return(c, outcome, q) ==
    /\ pc' = [pc EXCEPT ![c] = outcome]
    /\ got' = [got EXCEPT ![c] = q]

\* resolveAnswer for a question that is not pending, or with block = false.
\* Only ids that have been generated are asked for; one whose session is gone
\* stands for an unknown id.
GetAnswerNow(c, q) ==
    LET s == questionToSession[q] IN
    /\ pc[c] = "idle"
    /\ status[q] # "unasked"
    /\ arg' = [arg EXCEPT ![c] = q]
    /\ \/ /\ s = NoSession
          /\ Return(c, "cancelled", NoQuestion)
       \/ /\ s # NoSession /\ status[q] = "answered"
          /\ Return(c, "answered", q)
       \/ /\ s # NoSession /\ status[q] \in {"cancelled", "pending"}
          /\ Return(c, status[q], NoQuestion)
    /\ UNCHANGED <<storeVars, rw, sw, browserVars>>

\* resolveAnswer with block = true on a pending question (waitForAnswer).
GetAnswerBlocks(c, q) ==
    /\ pc[c] = "idle"
    /\ questionToSession[q] # NoSession
    /\ status[q] = "pending"
    /\ rw' = [rw EXCEPT ![q] = Register(@, c)]
    /\ pc' = [pc EXCEPT ![c] = "waiting"]
    /\ arg' = [arg EXCEPT ![c] = q]
    /\ UNCHANGED <<storeVars, sw, got, browserVars>>

\* Mutant of GetAnswerTimeout: the timer is cleared with the waiter, also when
\* teardown dropped the waiter without calling it.
GetAnswerTimeoutIfRegistered(c) ==
    /\ pc[c] = "waiting"
    /\ c \in Registered(rw[arg[c]])
    /\ rw' = [rw EXCEPT ![arg[c]] = Unregister(@, c)]
    /\ Return(c, "timeout", NoQuestion)
    /\ UNCHANGED <<storeVars, sw, arg, browserVars>>

\* Mutant of GetAnswerTimeout: it closes the question, not only the call.
GetAnswerTimeoutClosesQuestion(c) ==
    /\ pc[c] = "waiting"
    /\ rw' = [rw EXCEPT ![arg[c]] = Unregister(@, c)]
    /\ status' = [status EXCEPT ![arg[c]] = "timeout"]
    /\ Return(c, "timeout", NoQuestion)
    /\ UNCHANGED <<sessions, questions, retrieved, questionToSession, sw, arg,
                   browserVars>>

\* The timer of waitForAnswer: the waiter is unregistered, if it still is.
GetAnswerTimeout(c) ==
    /\ pc[c] = "waiting"
    /\ rw' = [rw EXCEPT ![arg[c]] = Unregister(@, c)]
    /\ Return(c, "timeout", NoQuestion)
    /\ UNCHANGED <<storeVars, sw, arg, browserVars>>

\* Mutant of TakeNextAnswer: the answer is not marked retrieved.
TakeNextAnswerUnmarked(c, s) ==
    \E i \in DOMAIN questions[s] :
        /\ pc[c] = "idle"
        /\ Present(s)
        /\ FirstUnretrieved(s, i)
        /\ arg' = [arg EXCEPT ![c] = s]
        /\ Return(c, "answered", questions[s][i])
        /\ UNCHANGED <<storeVars, rw, sw, browserVars>>

\* resolveNextAnswer finding an answer nobody has taken: it is marked
\* retrieved in the callback that finds it.
TakeNextAnswer(c, s) ==
    \E i \in DOMAIN questions[s] :
        /\ pc[c] = "idle"
        /\ Present(s)
        /\ FirstUnretrieved(s, i)
        /\ retrieved' = [retrieved EXCEPT ![questions[s][i]] = TRUE]
        /\ arg' = [arg EXCEPT ![c] = s]
        /\ Return(c, "answered", questions[s][i])
        /\ UNCHANGED <<sessions, questions, status, questionToSession, rw, sw,
                       browserVars>>

\* resolveNextAnswer with nothing to return and nothing to wait for, or with
\* block = false.
NoNextAnswer(c, s) ==
    /\ pc[c] = "idle"
    /\ sessions[s] # "unborn"
    /\ Present(s) => Unretrieved(s) = {}
    /\ arg' = [arg EXCEPT ![c] = s]
    /\ \/ /\ ~Present(s) \/ PendingIn(s) = {}
          /\ Return(c, "none_pending", NoQuestion)
       \/ /\ Present(s) /\ PendingIn(s) # {}
          /\ Return(c, "pending", NoQuestion)
    /\ UNCHANGED <<storeVars, rw, sw, browserVars>>

\* Mutant of NextAnswerBlocks: waits without looking for an answer first.
NextAnswerBlocksUnchecked(c, s) ==
    /\ pc[c] = "idle"
    /\ Present(s)
    /\ PendingIn(s) # {}
    /\ sw' = [sw EXCEPT ![s] = Register(@, c)]
    /\ pc' = [pc EXCEPT ![c] = "waiting"]
    /\ arg' = [arg EXCEPT ![c] = s]
    /\ UNCHANGED <<storeVars, rw, got, browserVars>>

\* resolveNextAnswer with block = true while a question is pending
\* (waitForNextAnswer).
NextAnswerBlocks(c, s) ==
    /\ pc[c] = "idle"
    /\ Present(s)
    /\ Unretrieved(s) = {}
    /\ PendingIn(s) # {}
    /\ sw' = [sw EXCEPT ![s] = Register(@, c)]
    /\ pc' = [pc EXCEPT ![c] = "waiting"]
    /\ arg' = [arg EXCEPT ![c] = s]
    /\ UNCHANGED <<storeVars, rw, got, browserVars>>

\* Mutant of NextAnswerTimeout: the waiter is not unregistered.
NextAnswerTimeoutLeavesWaiter(c) ==
    /\ pc[c] = "waiting"
    /\ Return(c, "timeout", NoQuestion)
    /\ UNCHANGED <<storeVars, rw, sw, arg, browserVars>>

\* The timer of waitForNextAnswer.
NextAnswerTimeout(c) ==
    /\ pc[c] = "waiting"
    /\ sw' = [sw EXCEPT ![arg[c]] = Unregister(@, c)]
    /\ Return(c, "timeout", NoQuestion)
    /\ UNCHANGED <<storeVars, rw, arg, browserVars>>

-----------------------------------------------------------------------------
(* The browser                                                             *)

\* tryUpgrade admits a tab to a session that is in the map; onWsConnect makes
\* it the session's client, in place of any other, and sends it the pending
\* questions.
WsConnect(t, s) ==
    /\ tab[t] = NoSession
    /\ Present(s)
    /\ tab' = [tab EXCEPT ![t] = s]
    /\ wsClient' = [wsClient EXCEPT ![s] = t]
    /\ display' = [display EXCEPT ![t] = PendingIn(s)]
    /\ UNCHANGED <<storeVars, waiterVars, inflight>>

\* Mutant of WsDisconnect: the session keeps the closed connection.
WsDisconnectKeepsClient(t) ==
    /\ tab[t] # NoSession
    /\ tab' = [tab EXCEPT ![t] = NoSession]
    /\ display' = [display EXCEPT ![t] = {}]
    /\ inflight' = {m \in inflight : m[1] # t}
    /\ UNCHANGED <<storeVars, waiterVars, wsClient>>

\* A tab closes: onWsDisconnect forgets the session's client, whichever tab
\* that is.  What the tab had not delivered is lost.
WsDisconnect(t) ==
    LET s == tab[t] IN
    /\ s # NoSession
    /\ tab' = [tab EXCEPT ![t] = NoSession]
    /\ wsClient' = IF Present(s) THEN [wsClient EXCEPT ![s] = NoTab] ELSE wsClient
    /\ display' = [display EXCEPT ![t] = {}]
    /\ inflight' = {m \in inflight : m[1] # t}
    /\ UNCHANGED <<storeVars, waiterVars>>

\* The user answers a question that the tab shows.
SubmitAnswer(t, q) ==
    /\ q \in display[t]
    /\ display' = [display EXCEPT ![t] = @ \ {q}]
    /\ inflight' = inflight \cup {<<t, q>>}
    /\ UNCHANGED <<storeVars, waiterVars, wsClient, tab>>

\* Mutant of Accepts: an answer is taken whatever the question's status.
AcceptsAnyStatus(t, q) ==
    /\ Present(tab[t])
    /\ q \in Asked(tab[t])

\* onWsMessage accepts the answer of a pending question of a session that is
\* still there: all get_answer waiters of the question return, then the first
\* get_next_answer waiter of the session returns and takes the answer.
Accepts(t, q) ==
    /\ Present(tab[t])
    /\ q \in Asked(tab[t])
    /\ status[q] = "pending"

\* Mutant of AnswerArrives: the waiter's callback does not mark the answer.
AnswerArrivesUnmarked(t, q) ==
    LET s == tab[t]
        told == NotifiedAll(rw[q])
        first == NotifiedFirst(sw[s])
    IN
    /\ <<t, q>> \in inflight
    /\ Accepts(t, q)
    /\ inflight' = inflight \ {<<t, q>>}
    /\ status' = [status EXCEPT ![q] = "answered"]
    /\ rw' = [rw EXCEPT ![q] = <<>>]
    /\ sw' = [sw EXCEPT ![s] = AfterNotifyFirst(@)]
    /\ pc' = [c \in Calls |-> IF c \in told \cup first THEN "answered" ELSE pc[c]]
    /\ got' = [c \in Calls |-> IF c \in told \cup first THEN q ELSE got[c]]
    /\ UNCHANGED <<sessions, questions, retrieved, questionToSession, arg,
                   wsClient, tab, display>>

AnswerArrives(t, q) ==
    LET s == tab[t]
        told == NotifiedAll(rw[q])
        first == NotifiedFirst(sw[s])
    IN
    /\ <<t, q>> \in inflight
    /\ Accepts(t, q)
    /\ inflight' = inflight \ {<<t, q>>}
    /\ status' = [status EXCEPT ![q] = "answered"]
    /\ retrieved' = [retrieved EXCEPT ![q] = (first # {})]
    /\ rw' = [rw EXCEPT ![q] = <<>>]
    /\ sw' = [sw EXCEPT ![s] = AfterNotifyFirst(@)]
    /\ pc' = [c \in Calls |-> IF c \in told \cup first THEN "answered" ELSE pc[c]]
    /\ got' = [c \in Calls |-> IF c \in told \cup first THEN q ELSE got[c]]
    /\ UNCHANGED <<sessions, questions, questionToSession, arg, wsClient, tab,
                   display>>

\* An answer to a question that is no longer pending is dropped.
AnswerIgnored(t, q) ==
    /\ <<t, q>> \in inflight
    /\ ~Accepts(t, q)
    /\ inflight' = inflight \ {<<t, q>>}
    /\ UNCHANGED <<storeVars, waiterVars, wsClient, tab, display>>

-----------------------------------------------------------------------------
\* Question lists start_session may be given; MaxInitial bounds their length.
InitialQuestions ==
    {initial \in UNION {[1..n -> Questions] : n \in 0..MaxInitial} :
        \A i, j \in DOMAIN initial : initial[i] = initial[j] => i = j}

Next ==
    \/ \E s \in Sessions :
         \/ \E initial \in InitialQuestions : StartSession(s, initial)
         \/ StartSessionFails(s)
         \/ BrowserOpened(s)
         \/ EndSession(s)
    \/ \E s \in Sessions, q \in Questions : PushQuestion(s, q)
    \/ \E q \in Questions : CancelQuestion(q)
    \/ \E c \in GetCalls, q \in Questions :
         GetAnswerNow(c, q) \/ GetAnswerBlocks(c, q)
    \/ \E c \in GetCalls : GetAnswerTimeout(c)
    \/ \E c \in NextCalls, s \in Sessions :
         TakeNextAnswer(c, s) \/ NoNextAnswer(c, s) \/ NextAnswerBlocks(c, s)
    \/ \E c \in NextCalls : NextAnswerTimeout(c)
    \/ \E t \in Tabs, s \in Sessions : WsConnect(t, s)
    \/ \E t \in Tabs : WsDisconnect(t)
    \/ \E t \in Tabs, q \in Questions :
         SubmitAnswer(t, q) \/ AnswerArrives(t, q) \/ AnswerIgnored(t, q)

\* Timers fire: the event loop runs an armed timer once its delay is over.
Fairness ==
    /\ \A c \in GetCalls : WF_vars(GetAnswerTimeout(c))
    /\ \A c \in NextCalls : WF_vars(NextAnswerTimeout(c))

Spec == Init /\ [][Next]_vars
FairSpec == Spec /\ Fairness

-----------------------------------------------------------------------------
(* Properties                                                              *)

\* An answer is handed to at most one get_next_answer call, however the
\* immediate path (findUnretrievedAnswer) and the waiter callback interleave.
NextAnswerOnce ==
    \A c, d \in NextCalls :
        c # d /\ pc[c] = "answered" /\ pc[d] = "answered" => got[c] # got[d]

\* No lost wake-up: while a get_next_answer call of an existing session is
\* blocked, no answer of that session lies unretrieved.
NoAnswerWhileBlocked ==
    \A s \in Sessions :
        Present(s) /\ sw[s] # <<>> => Unretrieved(s) = {}

\* A get_answer call stays registered only on a pending question of a session
\* that exists: answer, cancel and teardown leave no waiter behind.
WaitersArePending ==
    \A q \in Questions :
        rw[q] # <<>> => /\ status[q] = "pending"
                        /\ questionToSession[q] # NoSession

\* questionToSession and the sessions map agree, so a question can be
\* answered, read and cancelled exactly while its session exists.
IndexAgrees ==
    \A q \in Questions, s \in Sessions :
        questionToSession[q] = s <=> (Present(s) /\ q \in Asked(s))

\* What a call reports is what happened: an answer only of an answered
\* question, and marked retrieved when get_next_answer took it; "cancelled"
\* only of a question that was cancelled or whose session is not there.
OutcomesAreTrue ==
    /\ \A c \in Calls : pc[c] = "answered" => status[got[c]] = "answered"
    /\ \A c \in NextCalls : pc[c] = "answered" => retrieved[got[c]]
    /\ \A c \in GetCalls : pc[c] = "cancelled" =>
            \/ status[arg[c]] = "cancelled"
            \/ questionToSession[arg[c]] = NoSession

\* The waiters are the blocked calls, each once and under its own key, so no
\* notification resolves a call that has returned or one for another question.
WaitersMatchCalls ==
    /\ \A q \in Questions :
        /\ NoDuplicates(rw[q])
        /\ \A c \in Registered(rw[q]) : pc[c] = "waiting" /\ arg[c] = q
    /\ \A s \in Sessions :
        /\ NoDuplicates(sw[s])
        /\ \A c \in Registered(sw[s]) : pc[c] = "waiting" /\ arg[c] = s

\* The client of a session in the map is an open connection to it: questions
\* are never pushed to a socket that has closed, whatever order tabs of the
\* session connect and close in.
ClientIsOpen ==
    \A s \in Sessions :
        Present(s) /\ wsClient[s] # NoTab => tab[wsClient[s]] = s

\* A call returns once: its outcome, and the answer it returned, never change,
\* although its timer and its waiter may both be about to fire.
CallsReturnOnce ==
    [][\A c \in Calls : pc[c] \in Outcomes =>
            pc'[c] = pc[c] /\ got'[c] = got[c]]_vars

\* Answered and cancelled are final, and an answer once retrieved stays so: a
\* late or repeated answer from a second tab changes nothing.
AnswersAreFinal ==
    [][\A q \in Questions :
        /\ status[q] \in {"answered", "cancelled"} => status'[q] = status[q]
        /\ retrieved[q] => retrieved'[q]]_vars

-----------------------------------------------------------------------------
(* The inductive invariant behind them                                     *)

\* Only a question that has been asked is in a session, is retrieved, or has
\* been reported cancelled.
AskedQuestions ==
    /\ \A s \in Sessions : \A q \in Asked(s) : status[q] # "unasked"
    /\ \A q \in Questions : retrieved[q] => status[q] = "answered"
    /\ \A c \in GetCalls : pc[c] = "cancelled" =>
            arg[c] \in Questions /\ status[arg[c]] # "unasked"
    /\ \A c \in Calls : pc[c] = "answered" => got[c] \in Questions

\* Only an open tab shows questions or has answers on the way, and none
\* connects before the session is in the map.
OpenTabs ==
    /\ \A s \in Sessions : sessions[s] = "unborn" => wsClient[s] = NoTab
    /\ \A t \in Tabs : display[t] # {} => tab[t] # NoSession
    /\ \A t \in Tabs, q \in Questions :
            <<t, q>> \in inflight => tab[t] # NoSession

StoreInv ==
    /\ TypeOK
    /\ ClientIsOpen
    /\ OpenTabs
    /\ AskedQuestions
    /\ IndexAgrees
    /\ WaitersArePending
    /\ WaitersMatchCalls
    /\ NoAnswerWhileBlocked
    /\ OutcomesAreTrue
    /\ NextAnswerOnce

-----------------------------------------------------------------------------
\* Every blocked call returns, also when its session ended or its question
\* was cancelled while it waited.
BlockedCallsReturn ==
    \A c \in Calls : pc[c] = "waiting" ~> pc[c] \in Outcomes
=============================================================================
