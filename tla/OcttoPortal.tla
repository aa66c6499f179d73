---------------------------- MODULE OcttoPortal -----------------------------
(***************************************************************************)
(* The one HTTP server that all plugin instances of a process share        *)
(* (octto/session/server.ts) and the portal it serves (octto/portal).      *)
(* Every request and socket event goes to `current', the store of the      *)
(* instance that started a session last, whichever store the session is   *)
(* in.                                                                     *)
(***************************************************************************)
EXTENDS Naturals, FiniteSets, Sequences, SequencesExt

CONSTANTS
    Instances,        \* plugin instances in one process, a store each
    NoInstance,
    PortalSessions,   \* session ids, each generated once
    PortalQuestions,  \* question ids
    Sockets,          \* connections a page may open
    PortalToken,      \* whether a portal token is configured
    MaxPortalTime     \* bound on the clock

ASSUME PortalAssumption ==
    /\ NoInstance \notin Instances /\ "none" \notin PortalSessions
    /\ IsFiniteSet(PortalSessions) /\ PortalToken \in BOOLEAN
    /\ MaxPortalTime \in Nat \ {0}

NotAsked == [status |-> "none"]

VARIABLES
    current,      \* sharedStore, NoInstance while no server runs
    held,         \* each session: its instance, stage, creation, connection
    questions,    \* each question: its session, status, creation
    questionIndex, \* the questions questionToSession knows
    sockets,      \* each connection: its session
    landing,      \* the landing page: what it shows, and the cookie it has
    portalTime

portalVars == <<current, held, questions, questionIndex, sockets, landing,
                portalTime>>

NotHeld == [at |-> "none"]
Ended == [at |-> "ended"]
NoSocket == [session |-> "none"]

PortalInit ==
    /\ current = NoInstance
    /\ held = [s \in PortalSessions |-> NotHeld]
    /\ questions = [q \in PortalQuestions |-> NotAsked]
    /\ questionIndex = {} /\ sockets = [k \in Sockets |-> NoSocket]
    /\ landing = [shows |-> "nothing", rows |-> <<>>, cookie |-> FALSE]
    /\ portalTime = 1

Live(s) == held[s].at \in {"opening", "live"}
HasSession(i, s) == Live(s) /\ held[s].home = i
QuestionsOf(s) ==
    {q \in PortalQuestions : questions[q] # NotAsked /\ questions[q].of = s}
PendingOf(s) == {q \in QuestionsOf(s) : questions[q].status = "pending"}

Added(qs, s) == [q \in PortalQuestions |->
    IF q \in qs THEN [of |-> s, status |-> "pending", at |-> portalTime]
    ELSE questions[q]]

(* What is noted of the sessions whose store instance i takes the server   *)
(* from; nothing but ConnectedIsReal reads it.                             *)
Overtaken(i) == [s \in PortalSessions |->
    IF Live(s) /\ held[s].home # i THEN [held[s] EXCEPT !.overtaken = TRUE]
    ELSE held[s]]

(***************************************************************************)
(* A session starts: its instance becomes the current one, the session and *)
(* its first questions are stored, and the browser is opened.              *)
(***************************************************************************)
SessionStarts(i, s) ==
    /\ held[s] = NotHeld
    /\ \E qs \in SUBSET {q \in PortalQuestions : questions[q] = NotAsked} :
         /\ Cardinality(qs) <= 1
         /\ questions' = Added(qs, s)
         /\ questionIndex' = questionIndex \union qs
    /\ current' = i
    /\ held' = [Overtaken(i) EXCEPT ![s] =
                   [at |-> "opening", home |-> i, created |-> portalTime,
                    connected |-> FALSE, overtaken |-> FALSE]]
    /\ UNCHANGED <<sockets, landing, portalTime>>

BrowserOpens(s) ==
    /\ held[s].at = "opening" /\ held' = [held EXCEPT ![s].at = "live"]
    /\ UNCHANGED <<current, questions, questionIndex, sockets, landing,
                   portalTime>>

(* No browser: the session and the index of its first questions go. *)
BrowserFails(s) ==
    /\ held[s].at = "opening" /\ held' = [held EXCEPT ![s] = Ended]
    /\ questionIndex' = questionIndex \ QuestionsOf(s)
    /\ UNCHANGED <<current, questions, sockets, landing, portalTime>>

QuestionPushed(s, q) ==
    /\ held[s].at = "live" /\ questions[q] = NotAsked
    /\ questions' = Added({q}, s)
    /\ questionIndex' = questionIndex \union {q}
    /\ UNCHANGED <<current, held, sockets, landing, portalTime>>

QuestionCancelled(q) ==
    /\ q \in questionIndex /\ questions[q].status = "pending"
    /\ questions' = [questions EXCEPT ![q].status = "cancelled"]
    /\ UNCHANGED <<current, held, questionIndex, sockets, landing, portalTime>>

\* Mutant: the session goes, the index of its questions stays.
UnindexedNothing(s) == questionIndex

Unindexed(s) == questionIndex \ QuestionsOf(s)

SessionEnds(s) ==
    /\ held[s].at = "live" /\ held' = [held EXCEPT ![s] = Ended]
    /\ questionIndex' = Unindexed(s)
    /\ UNCHANGED <<current, questions, sockets, landing, portalTime>>

(***************************************************************************)
(* A page connects, answers and disconnects.  Each event is handed to the  *)
(* current store, which ignores a session it does not have.                *)
(***************************************************************************)
\* Mutant: a socket that closes leaves its session connected.
SocketEventKeeps(s, connected) ==
    IF connected THEN [held EXCEPT ![s].connected = TRUE] ELSE held

SocketEvent(s, connected) ==
    IF HasSession(current, s) THEN [held EXCEPT ![s].connected = connected]
    ELSE held

TryUpgrade(k, s) ==
    /\ sockets[k] = NoSocket /\ HasSession(current, s)
    /\ sockets' = [sockets EXCEPT ![k] = [session |-> s]]
    /\ held' = SocketEvent(s, TRUE)
    /\ UNCHANGED <<current, questions, questionIndex, landing, portalTime>>

SocketCloses(k) ==
    /\ sockets[k] # NoSocket
    /\ held' = SocketEvent(sockets[k].session, FALSE)
    /\ sockets' = [sockets EXCEPT ![k] = NoSocket]
    /\ UNCHANGED <<current, questions, questionIndex, landing, portalTime>>

HandleWsMessage(k, q) ==
    /\ sockets[k] # NoSocket /\ HasSession(current, sockets[k].session)
    /\ q \in PendingOf(sockets[k].session)
    /\ questions' = [questions EXCEPT ![q].status = "answered"]
    /\ UNCHANGED <<current, held, questionIndex, sockets, landing, portalTime>>

(***************************************************************************)
(* The portal lists the conversations of the current store, found by way   *)
(* of the index of its questions: first the longest waiting, at last those *)
(* that wait for nothing, the newest first.                                *)
(***************************************************************************)
CollectSessions ==
    {s \in PortalSessions : /\ HasSession(current, s)
                            /\ \E q \in QuestionsOf(s) : q \in questionIndex}

OldestPending(s) ==
    LET ages == {portalTime - questions[q].at : q \in PendingOf(s)}
    IN  CHOOSE a \in ages : \A b \in ages : b <= a

\* Mutant: a conversation that waits for nothing counts as waiting for 0 ms.
CompareByAge(l, r) ==
    LET age(s) == IF PendingOf(s) = {} THEN 0 ELSE OldestPending(s)
    IN  IF age(l) # age(r) THEN age(l) > age(r)
        ELSE held[l].created > held[r].created

CompareConversations(l, r) ==
    CASE PendingOf(l) = {} /\ PendingOf(r) # {} -> FALSE
      [] PendingOf(l) # {} /\ PendingOf(r) = {} -> TRUE
      [] PendingOf(l) # {} /\ PendingOf(r) # {}
           /\ OldestPending(l) # OldestPending(r) ->
           OldestPending(l) > OldestPending(r)
      [] OTHER -> held[l].created > held[r].created

\* The orders sort may leave the list in: nobody stands behind one it comes
\* before.
HandleConversationsList ==
    {list \in SetToSeqs(CollectSessions) :
        \A i, j \in DOMAIN list :
            i < j => ~CompareConversations(list[j], list[i])}

(***************************************************************************)
(* The landing page.  A token in its address or the cookie authorizes it;  *)
(* the polls of the list carry only the cookie.                            *)
(***************************************************************************)
HandleLanding(withToken) ==
    LET authorized == ~ PortalToken \/ landing.cookie \/ withToken
    IN  /\ current # NoInstance
        /\ landing' = [shows |-> IF authorized THEN "list" ELSE "unauthorized",
                       rows |-> <<>>,
                       cookie |-> landing.cookie \/ (PortalToken /\ withToken)]
        /\ UNCHANGED <<current, held, questions, questionIndex, sockets,
                       portalTime>>

LandingPolls ==
    /\ landing.shows = "list"
    /\ \E list \in HandleConversationsList :
         landing' = [landing EXCEPT !.rows = list]
    /\ UNCHANGED <<current, held, questions, questionIndex, sockets,
                   portalTime>>

PortalTicks ==
    /\ portalTime < MaxPortalTime /\ portalTime' = portalTime + 1
    /\ UNCHANGED <<current, held, questions, questionIndex, sockets, landing>>

PortalNext ==
    \/ \E s \in PortalSessions :
         \/ \E i \in Instances : SessionStarts(i, s)
         \/ BrowserOpens(s) \/ BrowserFails(s) \/ SessionEnds(s)
         \/ \E q \in PortalQuestions : QuestionPushed(s, q)
         \/ \E k \in Sockets : TryUpgrade(k, s)
    \/ \E q \in PortalQuestions :
         QuestionCancelled(q) \/ \E k \in Sockets : HandleWsMessage(k, q)
    \/ \E k \in Sockets : SocketCloses(k)
    \/ \E t \in BOOLEAN : HandleLanding(t)
    \/ LandingPolls \/ PortalTicks

PortalSpec == PortalInit /\ [][PortalNext]_portalVars
-----------------------------------------------------------------------------
HeldRecords ==
    [at : {"opening", "live"}, home : Instances, created : 1..MaxPortalTime,
     connected : BOOLEAN, overtaken : BOOLEAN]
PortalTypeOK ==
    /\ current \in Instances \cup {NoInstance}
    /\ held \in [PortalSessions -> {NotHeld, Ended} \cup HeldRecords]
    /\ questions \in [PortalQuestions -> {NotAsked} \cup
          [of : PortalSessions, status : {"pending", "answered", "cancelled"},
           at : 1..portalTime]]
    /\ questionIndex \subseteq {q \in PortalQuestions : questions[q] # NotAsked}
    /\ sockets \in [Sockets -> {NoSocket} \cup [session : PortalSessions]]
    /\ landing \in [shows : {"nothing", "list", "unauthorized"},
                    rows : Seq(PortalSessions), cookie : BOOLEAN]
    /\ portalTime \in 1..MaxPortalTime

(* The index answers for a question exactly while its session is there:    *)
(* no row of the list leads to a session that is gone and no session with  *)
(* questions is missing from it (conversations.ts:57-68).                  *)
IndexMatchesSessions ==
    \A q \in PortalQuestions : questions[q] # NotAsked =>
        (q \in questionIndex <=> Live(questions[q].of))

(* The top of the list shows who waits: no conversation without a pending  *)
(* question stands above one with, and of two that wait                    *)
(* the one that waits longer stands above (conversations.ts:97-106).       *)
PendingFirst ==
    \A list \in HandleConversationsList :
        \A i \in 1..Len(list) : \A j \in 1..(i - 1) :
          PendingOf(list[i]) # {} =>
              /\ PendingOf(list[j]) # {}
              /\ OldestPending(list[j]) >= OldestPending(list[i])

(* A session counts as connected only while a page is: a question pushed   *)
(* to it is shown, or a browser is opened (sessions.ts:268-273).  Only     *)
(* when another instance takes the server over may the store miss the end  *)
(* of a connection (server.ts:42-45, 54-56).                               *)
ConnectedIsReal ==
    \A s \in PortalSessions :
        (Live(s) /\ held[s].connected /\ ~ held[s].overtaken) =>
            \E k \in Sockets : sockets[k].session = s

(* Why: a question is of a session that was there, and a live session of   *)
(* another instance than the current one has been overtaken.               *)
SessionsAreKnown ==
    /\ \A q \in PortalQuestions :
          questions[q] # NotAsked => held[questions[q].of] # NotHeld
    /\ \A s \in PortalSessions :
          Live(s) /\ held[s].home # current => held[s].overtaken

PortalInv ==
    /\ PortalTypeOK /\ IndexMatchesSessions /\ PendingFirst /\ ConnectedIsReal
    /\ SessionsAreKnown
=============================================================================
