------------------------ MODULE OcttoSessionsProofs ------------------------
(* Theorems of OcttoSessions, for every set of sessions, questions, tabs   *)
(* and calls, and of OcttoMailbox: the session store implements the        *)
(* mailbox.                                                                *)
EXTENDS OcttoMailbox, SequenceTheorems, TLAPS

-----------------------------------------------------------------------------
(* Waiter lists                                                            *)

\* The waiters of a list are members of the set it is over; the empty list
\* has none.
LEMMA RegisteredLemma ==
    /\ \A S : \A list \in Seq(S) : Registered(list) \subseteq S
    /\ Registered(<<>>) = {} /\ NoDuplicates(<<>>)
  BY DEF Registered, NoDuplicates

\* Registering a waiter appends it: the list grows by that waiter alone, and
\* has no duplicates if the waiter was not in it.
LEMMA RegisterLemma ==
    ASSUME NEW S, NEW list \in Seq(S), NEW c \in S
    PROVE  /\ Register(list, c) \in Seq(S)
           /\ Registered(Register(list, c)) = Registered(list) \cup {c}
           /\ NoDuplicates(list) /\ c \notin Registered(list)
                => NoDuplicates(Register(list, c))
  BY DEF Register, Registered, NoDuplicates

\* Unregistering a waiter leaves the others where they were, and removes it
\* altogether if the list has no duplicates.
LEMMA UnregisterLemma ==
    ASSUME NEW S, NEW list \in Seq(S), NEW c
    PROVE  /\ Unregister(list, c) \in Seq(S)
           /\ Registered(Unregister(list, c)) \subseteq Registered(list)
           /\ NoDuplicates(list) =>
                /\ NoDuplicates(Unregister(list, c))
                /\ c \notin Registered(Unregister(list, c))
<1>1. CASE c \notin Registered(list)
  BY <1>1 DEF Unregister
<1>2. CASE c \in Registered(list)
  <2> DEFINE i == CHOOSE k \in DOMAIN list : list[k] = c
             left == SubSeq(list, 1, i - 1)
             right == SubSeq(list, i + 1, Len(list))
  <2>1. i \in 1..Len(list) /\ list[i] = c
    BY <1>2 DEF Registered
  <2>2. Unregister(list, c) = left \o right
    BY <1>2 DEF Unregister
  <2> HIDE DEF i
  <2>3. /\ left \in Seq(S) /\ Len(left) = i - 1
        /\ \A k \in 1..(i - 1) : left[k] = list[k]
    BY <2>1, SubSeqProperties, ElementOfSeq
  <2>4. /\ right \in Seq(S) /\ Len(right) = Len(list) - i
        /\ \A k \in 1..(Len(list) - i) : right[k] = list[k + i]
    BY <2>1, SubSeqProperties, ElementOfSeq
  <2> HIDE DEF left, right
  <2> DEFINE rest == left \o right
  <2>5. /\ rest \in Seq(S)
        /\ Len(rest) = Len(list) - 1
        /\ \A k \in 1..(Len(list) - 1) :
              rest[k] = IF k < i THEN list[k] ELSE list[k + 1]
    <3>1. /\ rest \in Seq(S)
          /\ Len(rest) = Len(left) + Len(right)
          /\ \A k \in 1..(Len(left) + Len(right)) :
                rest[k] = IF k <= Len(left) THEN left[k] ELSE right[k - Len(left)]
      BY <2>3, <2>4, ConcatProperties
    <3>2. Len(left) + Len(right) = Len(list) - 1
      BY <2>1, <2>3, <2>4
    <3> HIDE DEF rest
    <3>3. ASSUME NEW k \in 1..(Len(list) - 1)
          PROVE  rest[k] = IF k < i THEN list[k] ELSE list[k + 1]
      <4>1. CASE k < i
        BY <2>1, <2>3, <3>1, <3>2, <4>1
      <4>2. CASE k >= i
        <5>1. k - (i - 1) \in 1..(Len(list) - i) /\ ~(k <= i - 1)
          BY <2>1, <4>2
        <5>2. rest[k] = right[k - (i - 1)]
          BY <2>3, <3>1, <3>2, <5>1
        <5>3. right[k - (i - 1)] = list[k - (i - 1) + i]
          BY <2>4, <5>1
        <5>4. k - (i - 1) + i = k + 1
          BY <2>1
        <5> QED
          BY <2>1, <4>2, <5>2, <5>3, <5>4
      <4> QED
        BY <2>1, <4>1, <4>2
    <3> QED
      BY <3>1, <3>2, <3>3
  <2> HIDE DEF rest
  <2>6. \A k \in DOMAIN rest : \E j \in DOMAIN list :
            /\ rest[k] = list[j] /\ j # i
            /\ j = IF k < i THEN k ELSE k + 1
    <3> TAKE k \in DOMAIN rest
    <3>1. k \in 1..(Len(list) - 1) /\ DOMAIN list = 1..Len(list)
      BY <2>5
    <3>2. CASE k < i
      BY <2>1, <2>5, <3>1, <3>2
    <3>3. CASE ~(k < i)
      BY <2>1, <2>5, <3>1, <3>3
    <3> QED
      BY <3>2, <3>3
  <2>7. Registered(rest) \subseteq Registered(list)
    BY <2>6 DEF Registered
  <2>8. ASSUME NoDuplicates(list)
        PROVE  NoDuplicates(rest) /\ c \notin Registered(rest)
    <3>1. ASSUME NEW k \in DOMAIN rest, NEW m \in DOMAIN rest, rest[k] = rest[m]
          PROVE  k = m
      <4>1. k \in 1..(Len(list) - 1) /\ m \in 1..(Len(list) - 1)
        BY <2>5
      <4>2. (IF k < i THEN k ELSE k + 1) = (IF m < i THEN m ELSE m + 1)
        BY <2>6, <2>8, <3>1 DEF NoDuplicates
      <4> QED
        BY <2>1, <4>1, <4>2
    <3>2. c \notin Registered(rest)
      BY <2>1, <2>6, <2>8 DEF NoDuplicates, Registered
    <3> QED
      BY <3>1, <3>2 DEF NoDuplicates
  <2> QED
    BY <2>2, <2>5, <2>7, <2>8 DEF rest
<1> QED
  BY <1>1, <1>2

\* Notifying the first waiter removes exactly the head.
LEMMA NotifyFirstLemma ==
    ASSUME NEW S, NEW list \in Seq(S)
    PROVE  /\ AfterNotifyFirst(list) \in Seq(S)
           /\ NotifiedFirst(list) \subseteq Registered(list)
           /\ Registered(AfterNotifyFirst(list)) \subseteq Registered(list)
           /\ NoDuplicates(list) =>
                /\ NoDuplicates(AfterNotifyFirst(list))
                /\ Registered(AfterNotifyFirst(list)) \cap NotifiedFirst(list) = {}
<1>1. CASE list = <<>>
  BY <1>1 DEF AfterNotifyFirst, NotifiedFirst
<1>2. CASE list # <<>>
  <2>1. /\ Tail(list) \in Seq(S) /\ Len(Tail(list)) = Len(list) - 1
        /\ \A k \in 1..Len(Tail(list)) : Tail(list)[k] = list[k + 1]
        /\ Head(list) = list[1] /\ Len(list) \in Nat \ {0}
    BY <1>2, HeadTailProperties, EmptySeq
  <2> QED
    BY <1>2, <2>1 DEF AfterNotifyFirst, NotifiedFirst, Registered, NoDuplicates
<1> QED
  BY <1>1, <1>2

-----------------------------------------------------------------------------
(* Types                                                                   *)

LEMMA TypeInit == Init => TypeOK
  BY DEF Init, TypeOK, Calls, SessionPhases, Statuses, CallStates, Outcomes

LEMMA TypeStep == TypeOK /\ [Next]_vars => TypeOK'
<1> SUFFICES ASSUME TypeOK, [Next]_vars PROVE TypeOK'
  OBVIOUS
<1> USE DEF TypeOK, SessionPhases, Statuses, CallStates, Outcomes, Calls
<1>1. ASSUME NEW s \in Sessions, NEW initial \in InitialQuestions,
             StartSession(s, initial)
      PROVE  TypeOK'
  <2>1. initial \in Seq(Questions)
    <3>1. PICK n \in 0..MaxInitial : initial \in [1..n -> Questions]
      BY DEF InitialQuestions
    <3> QED
      BY <3>1, BoundAssumption
  <2> QED
    BY <1>1, <2>1 DEF StartSession, waiterVars, browserVars
<1>2. ASSUME NEW s \in Sessions, StartSessionFails(s)
      PROVE  TypeOK'
  BY <1>2 DEF StartSessionFails, waiterVars, browserVars
<1>3. ASSUME NEW s \in Sessions, BrowserOpened(s)
      PROVE  TypeOK'
  BY <1>3 DEF BrowserOpened, waiterVars, browserVars
<1>4. ASSUME NEW s \in Sessions, EndSession(s)
      PROVE  TypeOK'
  BY <1>4 DEF EndSession, Hide
<1>5. ASSUME NEW s \in Sessions, NEW q \in Questions, PushQuestion(s, q)
      PROVE  TypeOK'
  BY <1>5 DEF PushQuestion, Show, waiterVars
<1>6. ASSUME NEW q \in Questions, CancelQuestion(q)
      PROVE  TypeOK'
  BY <1>6 DEF CancelQuestion, Hide
<1>7. ASSUME NEW c \in GetCalls, NEW q \in Questions, GetAnswerNow(c, q)
      PROVE  TypeOK'
  <2>1. arg' \in [Calls -> Questions \cup Sessions \cup {NoSession}]
    BY <1>7 DEF GetAnswerNow
  <2>2. PICK outcome \in CallStates, answer \in Questions \cup {NoQuestion} :
            Return(c, outcome, answer)
    BY <1>7 DEF GetAnswerNow
  <2>3. /\ pc' \in [Calls -> CallStates]
        /\ got' \in [Calls -> Questions \cup {NoQuestion}]
    BY <2>2 DEF Return
  <2> QED
    BY <1>7, <2>1, <2>3 DEF GetAnswerNow, storeVars, browserVars
<1>8. ASSUME NEW c \in GetCalls, NEW q \in Questions, GetAnswerBlocks(c, q)
      PROVE  TypeOK'
  BY <1>8, RegisterLemma DEF GetAnswerBlocks, storeVars, browserVars
<1>9. ASSUME NEW c \in GetCalls, GetAnswerTimeout(c)
      PROVE  TypeOK'
  <2>1. \A q \in Questions : Unregister(rw[q], c) \in Seq(GetCalls)
    BY UnregisterLemma
  <2> QED
    BY <1>9, <2>1 DEF GetAnswerTimeout, Return, storeVars, browserVars
<1>10. ASSUME NEW c \in NextCalls, NEW s \in Sessions, TakeNextAnswer(c, s)
       PROVE  TypeOK'
  BY <1>10 DEF TakeNextAnswer, Return, browserVars
<1>11. ASSUME NEW c \in NextCalls, NEW s \in Sessions, NoNextAnswer(c, s)
       PROVE  TypeOK'
  BY <1>11 DEF NoNextAnswer, Return, storeVars, browserVars
<1>12. ASSUME NEW c \in NextCalls, NEW s \in Sessions, NextAnswerBlocks(c, s)
       PROVE  TypeOK'
  BY <1>12, RegisterLemma DEF NextAnswerBlocks, storeVars, browserVars
<1>13. ASSUME NEW c \in NextCalls, NextAnswerTimeout(c)
       PROVE  TypeOK'
  <2>1. \A s \in Sessions : Unregister(sw[s], c) \in Seq(NextCalls)
    BY UnregisterLemma
  <2> QED
    BY <1>13, <2>1 DEF NextAnswerTimeout, Return, storeVars, browserVars
<1>14. ASSUME NEW t \in Tabs, NEW s \in Sessions, WsConnect(t, s)
       PROVE  TypeOK'
  BY <1>14 DEF WsConnect, PendingIn, Asked, storeVars, waiterVars
<1>15. ASSUME NEW t \in Tabs, WsDisconnect(t)
       PROVE  TypeOK'
  BY <1>15 DEF WsDisconnect, storeVars, waiterVars
<1>16. ASSUME NEW t \in Tabs, NEW q \in Questions, SubmitAnswer(t, q)
       PROVE  TypeOK'
  BY <1>16 DEF SubmitAnswer, storeVars, waiterVars
<1>17. ASSUME NEW t \in Tabs, NEW q \in Questions, AnswerArrives(t, q)
       PROVE  TypeOK'
  <2>1. \A s \in Sessions : AfterNotifyFirst(sw[s]) \in Seq(NextCalls)
    BY NotifyFirstLemma
  <2>2. /\ pc' \in [Calls -> CallStates] /\ got' \in [Calls -> Questions \cup {NoQuestion}]
    BY <1>17 DEF AnswerArrives
  <2>3. /\ status' \in [Questions -> Statuses] /\ retrieved' \in [Questions -> BOOLEAN]
        /\ rw' \in [Questions -> Seq(GetCalls)]
        /\ inflight' \in SUBSET (Tabs \X Questions)
    BY <1>17 DEF AnswerArrives
  <2>4. sw' \in [Sessions -> Seq(NextCalls)]
    BY <1>17, <2>1 DEF AnswerArrives
  <2> QED
    BY <1>17, <2>2, <2>3, <2>4 DEF AnswerArrives
<1>18. ASSUME NEW t \in Tabs, NEW q \in Questions, AnswerIgnored(t, q)
       PROVE  TypeOK'
  BY <1>18 DEF AnswerIgnored, storeVars, waiterVars
<1>19. CASE UNCHANGED vars
  BY <1>19 DEF vars, storeVars, waiterVars, browserVars
<1> QED
  BY <1>1, <1>2, <1>3, <1>4, <1>5, <1>6, <1>7, <1>8, <1>9, <1>10, <1>11,
     <1>12, <1>13, <1>14, <1>15, <1>16, <1>17, <1>18, <1>19 DEF Next

\* The state variables keep their types through every step of the store: in
\* particular no timer, teardown or late answer gives a question a status, or
\* a call an outcome, that the code does not produce.
THEOREM TypeCorrect == Spec => []TypeOK
  BY TypeInit, TypeStep, PTL DEF Spec

-----------------------------------------------------------------------------
(* The invariant of the store                                              *)

\* The browser's part: connections, displays and messages on the way.
LEMMA BrowserStep ==
    StoreInv /\ [Next]_vars => ClientIsOpen' /\ OpenTabs'
<1> SUFFICES ASSUME StoreInv, [Next]_vars PROVE ClientIsOpen' /\ OpenTabs'
  OBVIOUS
<1> USE NullAssumption DEF StoreInv, TypeOK, ClientIsOpen, OpenTabs, Present
<1>1. ASSUME NEW s \in Sessions, NEW initial \in InitialQuestions,
             StartSession(s, initial)
      PROVE  ClientIsOpen' /\ OpenTabs'
  BY <1>1 DEF StartSession, browserVars
<1>2. ASSUME NEW s \in Sessions, StartSessionFails(s)
      PROVE  ClientIsOpen' /\ OpenTabs'
  BY <1>2 DEF StartSessionFails, browserVars
<1>3. ASSUME NEW s \in Sessions, BrowserOpened(s)
      PROVE  ClientIsOpen' /\ OpenTabs'
  BY <1>3 DEF BrowserOpened, browserVars
<1>4. ASSUME NEW s \in Sessions, EndSession(s)
      PROVE  ClientIsOpen' /\ OpenTabs'
  BY <1>4 DEF EndSession, Hide
<1>5. ASSUME NEW s \in Sessions, NEW q \in Questions, PushQuestion(s, q)
      PROVE  ClientIsOpen' /\ OpenTabs'
  BY <1>5 DEF PushQuestion, Show
<1>6. ASSUME NEW q \in Questions, CancelQuestion(q)
      PROVE  ClientIsOpen' /\ OpenTabs'
  BY <1>6 DEF CancelQuestion, Hide
<1>7. ASSUME UNCHANGED sessions, UNCHANGED browserVars
      PROVE  ClientIsOpen' /\ OpenTabs'
  BY <1>7 DEF browserVars
<1>8. ASSUME NEW t \in Tabs, NEW s \in Sessions, WsConnect(t, s)
      PROVE  ClientIsOpen' /\ OpenTabs'
  BY <1>8 DEF WsConnect, storeVars
<1>9. ASSUME NEW t \in Tabs, WsDisconnect(t)
      PROVE  ClientIsOpen' /\ OpenTabs'
  BY <1>9 DEF WsDisconnect, storeVars
<1>10. ASSUME NEW t \in Tabs, NEW q \in Questions, SubmitAnswer(t, q)
       PROVE  ClientIsOpen' /\ OpenTabs'
  BY <1>10 DEF SubmitAnswer, storeVars
<1>11. ASSUME NEW t \in Tabs, NEW q \in Questions, AnswerArrives(t, q)
       PROVE  ClientIsOpen' /\ OpenTabs'
  BY <1>11 DEF AnswerArrives
<1>12. ASSUME NEW t \in Tabs, NEW q \in Questions, AnswerIgnored(t, q)
       PROVE  ClientIsOpen' /\ OpenTabs'
  BY <1>12 DEF AnswerIgnored, storeVars
<1> QED
  BY <1>1, <1>2, <1>3, <1>4, <1>5, <1>6, <1>7, <1>8, <1>9, <1>10, <1>11, <1>12
     DEF Next, vars, storeVars, GetAnswerNow, GetAnswerBlocks,
         GetAnswerTimeout, TakeNextAnswer, NoNextAnswer, NextAnswerBlocks,
         NextAnswerTimeout

\* The store's part: sessions, questions, waiters and the calls' outcomes.
StoreParts ==
    /\ AskedQuestions
    /\ IndexAgrees
    /\ WaitersArePending
    /\ WaitersMatchCalls
    /\ NoAnswerWhileBlocked
    /\ OutcomesAreTrue
    /\ NextAnswerOnce

LEMMA StoreStep == StoreInv /\ [Next]_vars => StoreParts'
<1> SUFFICES ASSUME StoreInv, [Next]_vars PROVE StoreParts'
  OBVIOUS
<1> TypeOK'
  BY TypeStep DEF StoreInv
<1> USE NullAssumption, CallAssumption
<1> USE DEF StoreInv, Calls
<1>r. /\ \A q \in Questions : Registered(rw[q]) \subseteq GetCalls
      /\ \A s \in Sessions : Registered(sw[s]) \subseteq NextCalls
      /\ \A s \in Sessions : Asked(s) \subseteq Questions /\ Asked(s) = Registered(questions[s])
      /\ Registered(<<>>) = {} /\ NoDuplicates(<<>>)
  BY RegisteredLemma DEF TypeOK, Asked, Registered
<1>1. ASSUME NEW s \in Sessions, NEW initial \in InitialQuestions,
             StartSession(s, initial)
      PROVE  StoreParts'
  <2>a. /\ sessions[s] = "unborn" /\ Present(s)'
        /\ \A u \in Sessions \ {s} : Present(u)' = Present(u)
        /\ \A u \in Sessions \ {s} : Asked(u)' = Asked(u)
        /\ \A p \in Asked(s)' : status[p] = "unasked"
    BY <1>1 DEF StartSession, Present, Asked, TypeOK
  <2>b. \A p \in Questions :
            /\ p \in Asked(s)' => /\ status'[p] = "pending"
                                  /\ questionToSession'[p] = s
            /\ p \notin Asked(s)' => /\ status'[p] = status[p]
                                     /\ questionToSession'[p] = questionToSession[p]
    BY <1>1 DEF StartSession, Asked, TypeOK
  <2>c. UNCHANGED <<retrieved, rw, sw, pc, arg, got>>
    BY <1>1 DEF StartSession, waiterVars
  <2>d. \A u \in Sessions : Asked(u)' \subseteq Questions
    BY RegisteredLemma DEF TypeOK, Asked, Registered
  <2>1. AskedQuestions'
    BY <1>r, <2>a, <2>b, <2>c, <2>d DEF AskedQuestions
  <2>2. IndexAgrees'
    BY <2>a, <2>b, <1>r DEF IndexAgrees, AskedQuestions, Present
  <2>3. WaitersArePending'
    BY <2>a, <2>b, <2>c DEF WaitersArePending
  <2>4. WaitersMatchCalls'
    BY <2>c DEF WaitersMatchCalls
  <2>5. NoAnswerWhileBlocked'
    BY <1>r, <2>a, <2>b, <2>c, <2>d
       DEF NoAnswerWhileBlocked, Unretrieved, AskedQuestions
  <2>6. OutcomesAreTrue'
    BY <2>a, <2>b, <2>c DEF OutcomesAreTrue, AskedQuestions
  <2>7. NextAnswerOnce'
    BY <2>c DEF NextAnswerOnce
  <2> QED
    BY <2>1, <2>2, <2>3, <2>4, <2>5, <2>6, <2>7 DEF StoreParts
<1>2. ASSUME NEW s \in Sessions, StartSessionFails(s) \/ BrowserOpened(s)
      PROVE  StoreParts'
  <2>a. \A u \in Sessions : Present(u)' <=> Present(u)
    BY <1>2 DEF StartSessionFails, BrowserOpened, Present, TypeOK
  <2>b. UNCHANGED <<questions, status, retrieved, questionToSession, waiterVars>>
    BY <1>2 DEF StartSessionFails, BrowserOpened
  <2> QED
    BY <2>a, <2>b DEF StoreParts, waiterVars, AskedQuestions, IndexAgrees,
       WaitersArePending, WaitersMatchCalls, NoAnswerWhileBlocked,
       OutcomesAreTrue, NextAnswerOnce, Asked, Unretrieved
<1>3. ASSUME NEW s \in Sessions, EndSession(s)
      PROVE  StoreParts'
  <2>a. /\ Present(s) /\ ~Present(s)'
        /\ \A u \in Sessions \ {s} : Present(u)' = Present(u)
        /\ \A q \in Questions :
              /\ q \in Asked(s) => questionToSession'[q] = NoSession /\ rw'[q] = <<>>
              /\ q \notin Asked(s) => /\ questionToSession'[q] = questionToSession[q]
                                      /\ rw'[q] = rw[q]
    BY <1>3 DEF EndSession, Present, TypeOK
  <2>b. UNCHANGED <<questions, status, retrieved, sw, pc, arg, got>>
    BY <1>3 DEF EndSession
  <2>1. AskedQuestions'
    BY <1>r, <2>a, <2>b DEF AskedQuestions, Asked
  <2>2. IndexAgrees'
    BY <2>a, <2>b DEF IndexAgrees, Present, Asked, AskedQuestions
  <2>3. WaitersArePending'
    BY <1>r, <2>a, <2>b DEF WaitersArePending, IndexAgrees, AskedQuestions
  <2>4. WaitersMatchCalls'
    BY <1>r, <2>a, <2>b DEF WaitersMatchCalls
  <2>5. NoAnswerWhileBlocked'
    BY <1>r, <2>a, <2>b DEF NoAnswerWhileBlocked, Present, Unretrieved, Asked, IndexAgrees, AskedQuestions
  <2>6. OutcomesAreTrue'
    BY <1>r, <2>a, <2>b DEF OutcomesAreTrue, AskedQuestions, IndexAgrees
  <2>7. NextAnswerOnce'
    BY <2>a, <2>b DEF NextAnswerOnce, OutcomesAreTrue, AskedQuestions
  <2> QED
    BY <2>1, <2>2, <2>3, <2>4, <2>5, <2>6, <2>7 DEF StoreParts
<1>4. ASSUME NEW s \in Sessions, NEW q \in Questions, PushQuestion(s, q)
      PROVE  StoreParts'
  <2>a. /\ Present(s) /\ status[q] = "unasked"
        /\ \A p \in Questions :
              /\ status'[p] = IF p = q THEN "pending" ELSE status[p]
              /\ questionToSession'[p] = IF p = q THEN s ELSE questionToSession[p]
    BY <1>4 DEF PushQuestion, Present, TypeOK
  <2>b. UNCHANGED <<sessions, retrieved, rw, sw, pc, arg, got>>
    BY <1>4 DEF PushQuestion, waiterVars
  <2>c. /\ \A u \in Sessions : u # s => Asked(u)' = Asked(u)
        /\ Asked(s)' = Asked(s) \cup {q}
        /\ \A u \in Sessions : Asked(u) \subseteq Questions
    <3>1. /\ Registered(Append(questions[s], q)) = Registered(questions[s]) \cup {q}
          /\ questions'[s] = Append(questions[s], q)
          /\ \A u \in Sessions : u # s => questions'[u] = questions[u]
          /\ \A u \in Sessions : Registered(questions[u]) \subseteq Questions
      BY <1>4, RegisterLemma, RegisteredLemma DEF PushQuestion, Register, TypeOK
    <3> QED
      BY <3>1 DEF Asked, Registered
  <2>1. AskedQuestions'
    BY <2>a, <2>b, <2>c DEF AskedQuestions
  <2>2. IndexAgrees'
    BY <2>a, <2>b, <2>c DEF IndexAgrees, Present, AskedQuestions
  <2>3. WaitersArePending'
    BY <1>r, <2>a, <2>b, <2>c DEF WaitersArePending, IndexAgrees, AskedQuestions
  <2>4. WaitersMatchCalls'
    BY <1>r, <2>a, <2>b DEF WaitersMatchCalls
  <2>5. NoAnswerWhileBlocked'
    BY <2>a, <2>b, <2>c DEF NoAnswerWhileBlocked, Present, Unretrieved, AskedQuestions
  <2>6. OutcomesAreTrue'
    BY <1>r, <2>a, <2>b DEF OutcomesAreTrue, AskedQuestions, IndexAgrees
  <2>7. NextAnswerOnce'
    BY <2>a, <2>b DEF NextAnswerOnce, OutcomesAreTrue, AskedQuestions
  <2> QED
    BY <2>1, <2>2, <2>3, <2>4, <2>5, <2>6, <2>7 DEF StoreParts
<1>5. ASSUME NEW q \in Questions, CancelQuestion(q)
      PROVE  StoreParts'
  <2>a. /\ status[q] = "pending"
        /\ \A p \in Questions :
              /\ status'[p] = IF p = q THEN "cancelled" ELSE status[p]
              /\ rw'[p] = IF p = q THEN <<>> ELSE rw[p]
    BY <1>5 DEF CancelQuestion, TypeOK
  <2>b. UNCHANGED <<sessions, questions, retrieved, questionToSession, sw, arg, got>>
    BY <1>5 DEF CancelQuestion
  <2>c. \A c \in Calls :
            /\ c \in Registered(rw[q]) =>
                    pc'[c] = "cancelled" /\ arg[c] = q /\ c \in GetCalls
            /\ c \notin Registered(rw[q]) => pc'[c] = pc[c]
    BY <1>5, RegisteredLemma DEF CancelQuestion, NotifiedAll, WaitersMatchCalls, TypeOK
  <2>1. AskedQuestions'
    BY <1>r, <2>a, <2>b, <2>c DEF AskedQuestions, Asked
  <2>2. IndexAgrees'
    BY <2>a, <2>b DEF IndexAgrees, Present, Asked, AskedQuestions
  <2>3. WaitersArePending'
    BY <1>r, <2>a, <2>b DEF WaitersArePending, IndexAgrees, AskedQuestions
  <2>4. WaitersMatchCalls'
    BY <1>r, <2>a, <2>b, <2>c DEF WaitersMatchCalls
  <2>5. NoAnswerWhileBlocked'
    BY <1>r, <2>a, <2>b DEF NoAnswerWhileBlocked, Present, Unretrieved, Asked, IndexAgrees, AskedQuestions
  <2>6. OutcomesAreTrue'
    BY <1>r, <2>a, <2>b, <2>c DEF OutcomesAreTrue, AskedQuestions, IndexAgrees
  <2>7. NextAnswerOnce'
    BY <2>a, <2>b, <2>c DEF NextAnswerOnce, OutcomesAreTrue, AskedQuestions
  <2> QED
    BY <2>1, <2>2, <2>3, <2>4, <2>5, <2>6, <2>7 DEF StoreParts
<1>6. ASSUME NEW c \in GetCalls, NEW q \in Questions, GetAnswerNow(c, q)
      PROVE  StoreParts'
  <2>a. \A d \in Calls :
            /\ d # c => pc'[d] = pc[d] /\ got'[d] = got[d] /\ arg'[d] = arg[d]
            /\ d = c => 
                /\ arg'[d] = q /\ pc[d] = "idle"
                /\ \/ pc'[d] = "answered" /\ got'[d] = q /\ status[q] = "answered"
                   \/ pc'[d] = "pending"
                   \/ /\ pc'[d] = "cancelled" /\ status[q] # "unasked"
                      /\ status[q] = "cancelled" \/ questionToSession[q] = NoSession
    BY <1>6 DEF GetAnswerNow, Return, TypeOK
  <2>b. UNCHANGED <<sessions, questions, status, retrieved, questionToSession, rw, sw>>
    BY <1>6 DEF GetAnswerNow, Return, storeVars
  <2>1. AskedQuestions'
    BY <1>r, <2>a, <2>b DEF AskedQuestions, Asked
  <2>2. IndexAgrees'
    BY <2>a, <2>b DEF IndexAgrees, Present, Asked, AskedQuestions
  <2>3. WaitersArePending'
    BY <1>r, <2>a, <2>b DEF WaitersArePending, IndexAgrees, AskedQuestions
  <2>4. WaitersMatchCalls'
    BY <1>r, <2>a, <2>b DEF WaitersMatchCalls
  <2>5. NoAnswerWhileBlocked'
    BY <1>r, <2>a, <2>b DEF NoAnswerWhileBlocked, Present, Unretrieved, Asked, IndexAgrees, AskedQuestions
  <2>6. OutcomesAreTrue'
    BY <1>r, <2>a, <2>b DEF OutcomesAreTrue, AskedQuestions, IndexAgrees
  <2>7. NextAnswerOnce'
    BY <2>a, <2>b DEF NextAnswerOnce, OutcomesAreTrue, AskedQuestions
  <2> QED
    BY <2>1, <2>2, <2>3, <2>4, <2>5, <2>6, <2>7 DEF StoreParts
<1>7. ASSUME NEW c \in GetCalls, NEW q \in Questions, GetAnswerBlocks(c, q)
      PROVE  StoreParts'
  <2>a. \A d \in Calls :
            /\ d # c => pc'[d] = pc[d] /\ got'[d] = got[d] /\ arg'[d] = arg[d]
            /\ d = c => arg'[d] = q /\ pc[d] = "idle" /\ pc'[d] = "waiting"
    BY <1>7 DEF GetAnswerBlocks, TypeOK
  <2>b. UNCHANGED <<sessions, questions, status, retrieved, questionToSession, sw>>
    BY <1>7 DEF GetAnswerBlocks, storeVars
  <2>c. /\ status[q] = "pending" /\ questionToSession[q] # NoSession
        /\ rw'[q] = Register(rw[q], c) /\ rw[q] \in Seq(GetCalls)
        /\ \A p \in Questions : p # q => rw'[p] = rw[p]
    BY <1>7 DEF GetAnswerBlocks, TypeOK
  <2>1. AskedQuestions'
    BY <1>r, <2>a, <2>b DEF AskedQuestions, Asked
  <2>2. IndexAgrees'
    BY <2>a, <2>b DEF IndexAgrees, Present, Asked, AskedQuestions
  <2>3. WaitersArePending'
    BY <1>r, <2>b, <2>c DEF WaitersArePending, IndexAgrees, AskedQuestions
  <2>4. WaitersMatchCalls'
    <3>1. c \notin Registered(rw[q])
      BY <2>a DEF WaitersMatchCalls
    <3>2. /\ Registered(rw'[q]) = Registered(rw[q]) \cup {c}
          /\ NoDuplicates(rw'[q])
      BY <2>c, <3>1, RegisterLemma DEF WaitersMatchCalls
    <3> QED
      BY <2>a, <2>b, <2>c, <3>2, <1>r DEF WaitersMatchCalls
  <2>5. NoAnswerWhileBlocked'
    BY <1>r, <2>a, <2>b DEF NoAnswerWhileBlocked, Present, Unretrieved, Asked, IndexAgrees, AskedQuestions
  <2>6. OutcomesAreTrue'
    BY <1>r, <2>a, <2>b DEF OutcomesAreTrue, AskedQuestions, IndexAgrees
  <2>7. NextAnswerOnce'
    BY <2>a, <2>b DEF NextAnswerOnce, OutcomesAreTrue, AskedQuestions
  <2> QED
    BY <2>1, <2>2, <2>3, <2>4, <2>5, <2>6, <2>7 DEF StoreParts
<1>8. ASSUME NEW c \in GetCalls, GetAnswerTimeout(c)
      PROVE  StoreParts'
  <2>a. \A d \in Calls :
            /\ d # c => pc'[d] = pc[d] /\ got'[d] = got[d] /\ arg'[d] = arg[d]
            /\ d = c => pc[d] = "waiting" /\ pc'[d] = "timeout" /\ arg'[d] = arg[d]
    BY <1>8 DEF GetAnswerTimeout, Return, TypeOK
  <2>b. UNCHANGED <<sessions, questions, status, retrieved, questionToSession, sw>>
    BY <1>8 DEF GetAnswerTimeout, Return, storeVars
  <2>c. \A q \in Questions :
            /\ rw[q] \in Seq(GetCalls)
            /\ rw'[q] = IF q = arg[c] THEN Unregister(rw[q], c) ELSE rw[q]
    BY <1>8 DEF GetAnswerTimeout, TypeOK
  <2>d. \A q \in Questions :
            /\ Registered(rw'[q]) \subseteq Registered(rw[q])
            /\ NoDuplicates(rw'[q])
            /\ c \notin Registered(rw'[q])
    BY <2>c, UnregisterLemma DEF WaitersMatchCalls
  <2>e. \A q \in Questions : rw[q] = <<>> => rw'[q] = <<>>
    BY <2>c DEF Unregister, Registered
  <2>1. AskedQuestions'
    BY <1>r, <2>a, <2>b DEF AskedQuestions, Asked
  <2>2. IndexAgrees'
    BY <2>a, <2>b DEF IndexAgrees, Present, Asked, AskedQuestions
  <2>3. WaitersArePending'
    BY <1>r, <2>b, <2>e DEF WaitersArePending, IndexAgrees, AskedQuestions
  <2>4. WaitersMatchCalls'
    <3>1. ASSUME NEW q \in Questions
          PROVE  /\ NoDuplicates(rw'[q])
                 /\ \A d \in Registered(rw'[q]) : pc'[d] = "waiting" /\ arg'[d] = q
      <4>1. \A d \in Registered(rw'[q]) :
               d \in Calls /\ d # c /\ pc[d] = "waiting" /\ arg[d] = q
        BY <1>r, <2>d DEF WaitersMatchCalls
      <4>2. \A d \in Calls : d # c => pc'[d] = pc[d] /\ arg'[d] = arg[d]
        BY <2>a
      <4> QED
        BY <4>1, <4>2, <2>d
    <3>2. ASSUME NEW s \in Sessions
          PROVE  /\ NoDuplicates(sw'[s])
                 /\ \A d \in Registered(sw'[s]) : pc'[d] = "waiting" /\ arg'[d] = s
      BY <1>r, <2>a, <2>b DEF WaitersMatchCalls
    <3> QED
      BY <3>1, <3>2 DEF WaitersMatchCalls
  <2>5. NoAnswerWhileBlocked'
    BY <1>r, <2>a, <2>b DEF NoAnswerWhileBlocked, Present, Unretrieved, Asked, IndexAgrees, AskedQuestions
  <2>6. OutcomesAreTrue'
    BY <1>r, <2>a, <2>b DEF OutcomesAreTrue, AskedQuestions, IndexAgrees
  <2>7. NextAnswerOnce'
    BY <2>a, <2>b DEF NextAnswerOnce, OutcomesAreTrue, AskedQuestions
  <2> QED
    BY <2>1, <2>2, <2>3, <2>4, <2>5, <2>6, <2>7 DEF StoreParts
<1>9. ASSUME NEW c \in NextCalls, NEW s \in Sessions, TakeNextAnswer(c, s)
      PROVE  StoreParts'
  <2>x. PICK i \in DOMAIN questions[s] :
            /\ pc[c] = "idle" /\ FirstUnretrieved(s, i)
            /\ retrieved' = [retrieved EXCEPT ![questions[s][i]] = TRUE]
            /\ arg' = [arg EXCEPT ![c] = s]
            /\ Return(c, "answered", questions[s][i])
    BY <1>9 DEF TakeNextAnswer
  <2> DEFINE q == questions[s][i]
  <2>y. q \in Questions /\ status[q] = "answered" /\ ~retrieved[q]
    BY <2>x DEF FirstUnretrieved, Unretrieved, Asked, TypeOK
  <2> HIDE DEF q
  <2>a. \A d \in Calls :
            /\ d # c => pc'[d] = pc[d] /\ got'[d] = got[d] /\ arg'[d] = arg[d]
            /\ d = c => pc[d] = "idle" /\ pc'[d] = "answered" /\ got'[d] = q
    BY <2>x DEF Return, q, TypeOK
  <2>b. /\ UNCHANGED <<sessions, questions, status, questionToSession, rw, sw>>
        /\ \A p \in Questions : retrieved'[p] <=> (p = q \/ retrieved[p])
        /\ q \in Questions /\ status[q] = "answered" /\ ~retrieved[q]
    BY <1>9, <2>x, <2>y DEF TakeNextAnswer, q, TypeOK
  <2>1. AskedQuestions'
    BY <1>r, <2>a, <2>b DEF AskedQuestions, Asked
  <2>2. IndexAgrees'
    BY <2>a, <2>b DEF IndexAgrees, Present, Asked, AskedQuestions
  <2>3. WaitersArePending'
    BY <1>r, <2>a, <2>b DEF WaitersArePending, IndexAgrees, AskedQuestions
  <2>4. WaitersMatchCalls'
    BY <1>r, <2>a, <2>b DEF WaitersMatchCalls
  <2>5. NoAnswerWhileBlocked'
    BY <1>r, <2>a, <2>b DEF NoAnswerWhileBlocked, Present, Unretrieved, Asked, IndexAgrees, AskedQuestions
  <2>6. OutcomesAreTrue'
    BY <1>r, <2>a, <2>b DEF OutcomesAreTrue, AskedQuestions, IndexAgrees
  <2>7. NextAnswerOnce'
    BY <2>a, <2>b DEF NextAnswerOnce, OutcomesAreTrue, AskedQuestions
  <2> QED
    BY <2>1, <2>2, <2>3, <2>4, <2>5, <2>6, <2>7 DEF StoreParts
<1>10. ASSUME NEW c \in NextCalls, NEW s \in Sessions, NoNextAnswer(c, s)
      PROVE  StoreParts'
  <2>a. \A d \in Calls :
            /\ d # c => pc'[d] = pc[d] /\ got'[d] = got[d] /\ arg'[d] = arg[d]
            /\ d = c => pc[d] = "idle" /\ pc'[d] \in {"none_pending", "pending"}
    BY <1>10 DEF NoNextAnswer, Return, TypeOK
  <2>b. UNCHANGED <<sessions, questions, status, retrieved, questionToSession, rw, sw>>
    BY <1>10 DEF NoNextAnswer, Return, storeVars
  <2>1. AskedQuestions'
    BY <1>r, <2>a, <2>b DEF AskedQuestions, Asked
  <2>2. IndexAgrees'
    BY <2>a, <2>b DEF IndexAgrees, Present, Asked, AskedQuestions
  <2>3. WaitersArePending'
    BY <1>r, <2>a, <2>b DEF WaitersArePending, IndexAgrees, AskedQuestions
  <2>4. WaitersMatchCalls'
    BY <1>r, <2>a, <2>b DEF WaitersMatchCalls
  <2>5. NoAnswerWhileBlocked'
    BY <1>r, <2>a, <2>b DEF NoAnswerWhileBlocked, Present, Unretrieved, Asked, IndexAgrees, AskedQuestions
  <2>6. OutcomesAreTrue'
    BY <1>r, <2>a, <2>b DEF OutcomesAreTrue, AskedQuestions, IndexAgrees
  <2>7. NextAnswerOnce'
    BY <2>a, <2>b DEF NextAnswerOnce, OutcomesAreTrue, AskedQuestions
  <2> QED
    BY <2>1, <2>2, <2>3, <2>4, <2>5, <2>6, <2>7 DEF StoreParts
<1>11. ASSUME NEW c \in NextCalls, NEW s \in Sessions, NextAnswerBlocks(c, s)
      PROVE  StoreParts'
  <2>a. \A d \in Calls :
            /\ d # c => pc'[d] = pc[d] /\ got'[d] = got[d] /\ arg'[d] = arg[d]
            /\ d = c => arg'[d] = s /\ pc[d] = "idle" /\ pc'[d] = "waiting"
    BY <1>11 DEF NextAnswerBlocks, TypeOK
  <2>b. UNCHANGED <<sessions, questions, status, retrieved, questionToSession, rw>>
    BY <1>11 DEF NextAnswerBlocks, storeVars
  <2>c. /\ Unretrieved(s) = {}
        /\ sw'[s] = Register(sw[s], c) /\ sw[s] \in Seq(NextCalls)
        /\ \A u \in Sessions : u # s => sw'[u] = sw[u]
    BY <1>11 DEF NextAnswerBlocks, TypeOK
  <2>1. AskedQuestions'
    BY <1>r, <2>a, <2>b DEF AskedQuestions, Asked
  <2>2. IndexAgrees'
    BY <2>a, <2>b DEF IndexAgrees, Present, Asked, AskedQuestions
  <2>3. WaitersArePending'
    BY <1>r, <2>a, <2>b DEF WaitersArePending, IndexAgrees, AskedQuestions
  <2>4. WaitersMatchCalls'
    <3>1. c \notin Registered(sw[s])
      BY <2>a DEF WaitersMatchCalls
    <3>2. /\ Registered(sw'[s]) = Registered(sw[s]) \cup {c}
          /\ NoDuplicates(sw'[s])
      BY <2>c, <3>1, RegisterLemma DEF WaitersMatchCalls
    <3> QED
      BY <2>a, <2>b, <2>c, <3>2, <1>r DEF WaitersMatchCalls
  <2>5. NoAnswerWhileBlocked'
    BY <1>r, <2>b, <2>c DEF NoAnswerWhileBlocked, Present, Unretrieved, Asked, IndexAgrees, AskedQuestions
  <2>6. OutcomesAreTrue'
    BY <1>r, <2>a, <2>b DEF OutcomesAreTrue, AskedQuestions, IndexAgrees
  <2>7. NextAnswerOnce'
    BY <2>a, <2>b DEF NextAnswerOnce, OutcomesAreTrue, AskedQuestions
  <2> QED
    BY <2>1, <2>2, <2>3, <2>4, <2>5, <2>6, <2>7 DEF StoreParts
<1>12. ASSUME NEW c \in NextCalls, NextAnswerTimeout(c)
      PROVE  StoreParts'
  <2>a. \A d \in Calls :
            /\ d # c => pc'[d] = pc[d] /\ got'[d] = got[d] /\ arg'[d] = arg[d]
            /\ d = c => pc[d] = "waiting" /\ pc'[d] = "timeout" /\ arg'[d] = arg[d]
    BY <1>12 DEF NextAnswerTimeout, Return, TypeOK
  <2>b. UNCHANGED <<sessions, questions, status, retrieved, questionToSession, rw>>
    BY <1>12 DEF NextAnswerTimeout, Return, storeVars
  <2>c. \A s \in Sessions :
            /\ sw[s] \in Seq(NextCalls)
            /\ sw'[s] = IF s = arg[c] THEN Unregister(sw[s], c) ELSE sw[s]
    BY <1>12 DEF NextAnswerTimeout, TypeOK
  <2>d. \A s \in Sessions :
            /\ Registered(sw'[s]) \subseteq Registered(sw[s])
            /\ NoDuplicates(sw'[s])
            /\ c \notin Registered(sw'[s])
    BY <2>c, UnregisterLemma DEF WaitersMatchCalls
  <2>e. \A s \in Sessions : sw[s] = <<>> => sw'[s] = <<>>
    BY <2>c DEF Unregister, Registered
  <2>1. AskedQuestions'
    BY <1>r, <2>a, <2>b DEF AskedQuestions, Asked
  <2>2. IndexAgrees'
    BY <2>a, <2>b DEF IndexAgrees, Present, Asked, AskedQuestions
  <2>3. WaitersArePending'
    BY <1>r, <2>a, <2>b DEF WaitersArePending, IndexAgrees, AskedQuestions
  <2>4. WaitersMatchCalls'
    BY <1>r, <2>a, <2>b, <2>d DEF WaitersMatchCalls
  <2>5. NoAnswerWhileBlocked'
    BY <1>r, <2>b, <2>e DEF NoAnswerWhileBlocked, Present, Unretrieved, Asked, IndexAgrees, AskedQuestions
  <2>6. OutcomesAreTrue'
    BY <1>r, <2>a, <2>b DEF OutcomesAreTrue, AskedQuestions, IndexAgrees
  <2>7. NextAnswerOnce'
    BY <2>a, <2>b DEF NextAnswerOnce, OutcomesAreTrue, AskedQuestions
  <2> QED
    BY <2>1, <2>2, <2>3, <2>4, <2>5, <2>6, <2>7 DEF StoreParts
<1>13. ASSUME NEW t \in Tabs, NEW q \in Questions, AnswerArrives(t, q)
      PROVE  StoreParts'
  <2>x. PICK s \in Sessions : s = tab[t] /\ Present(s) /\ q \in Asked(s)
    BY <1>13 DEF AnswerArrives, Accepts, OpenTabs, TypeOK
  <2> DEFINE told == Registered(rw[q]) \cup NotifiedFirst(sw[s])
  <2>f. /\ \A c \in Registered(rw[q]) : c \in GetCalls /\ pc[c] = "waiting" /\ arg[c] = q
        /\ \A c \in NotifiedFirst(sw[s]) : c \in NextCalls /\ pc[c] = "waiting" /\ arg[c] = s
        /\ \A c, d \in NotifiedFirst(sw[s]) : c = d
    <3>1. NotifiedFirst(sw[s]) \subseteq Registered(sw[s])
      BY <2>x, NotifyFirstLemma DEF TypeOK
    <3>2. \A c, d \in NotifiedFirst(sw[s]) : c = d
      BY DEF NotifiedFirst
    <3> QED
      BY <1>r, <2>x, <3>1, <3>2 DEF WaitersMatchCalls
  <2>a. \A c \in Calls :
            /\ c \in told => pc'[c] = "answered" /\ got'[c] = q
            /\ c \notin told => pc'[c] = pc[c] /\ got'[c] = got[c]
    BY <1>13, <2>x DEF AnswerArrives, NotifiedAll, TypeOK
  <2>b. /\ UNCHANGED <<sessions, questions, questionToSession, arg>>
        /\ status[q] = "pending"
        /\ \A p \in Questions :
              /\ status'[p] = IF p = q THEN "answered" ELSE status[p]
              /\ rw'[p] = IF p = q THEN <<>> ELSE rw[p]
    BY <1>13, <2>x DEF AnswerArrives, Accepts, TypeOK
  <2>c. \A u \in Sessions :
            /\ sw[u] \in Seq(NextCalls)
            /\ sw'[u] = IF u = s THEN AfterNotifyFirst(sw[u]) ELSE sw[u]
    BY <1>13, <2>x DEF AnswerArrives, TypeOK
  <2>d. /\ retrieved'[q] <=> NotifiedFirst(sw[s]) # {}
        /\ \A p \in Questions : p # q => (retrieved'[p] <=> retrieved[p])
    BY <1>13, <2>x DEF AnswerArrives, TypeOK
  <2>e. \A u \in Sessions :
            /\ Registered(sw'[u]) \subseteq Registered(sw[u])
            /\ NoDuplicates(sw'[u])
            /\ u = s => Registered(sw'[u]) \cap NotifiedFirst(sw[s]) = {}
    BY <2>c, <2>x, NotifyFirstLemma DEF WaitersMatchCalls
  <2>1. AskedQuestions'
    BY <1>r, <2>a, <2>b, <2>d, <2>f DEF AskedQuestions, Asked
  <2>2. IndexAgrees'
    BY <2>a, <2>b DEF IndexAgrees, Present, Asked, AskedQuestions
  <2>3. WaitersArePending'
    BY <1>r, <2>a, <2>b DEF WaitersArePending, IndexAgrees, AskedQuestions
  <2>4. WaitersMatchCalls'
    <3>1. \A u \in Sessions : \A c \in Registered(sw'[u]) :
              c \in NextCalls /\ pc'[c] = "waiting" /\ arg'[c] = u
      BY <2>a, <2>b, <2>e, <2>f, <2>x, <1>r DEF WaitersMatchCalls
    <3>2. \A p \in Questions : \A c \in Registered(rw'[p]) :
              pc'[c] = "waiting" /\ arg'[c] = p
      BY <2>a, <2>b, <2>f, <1>r DEF WaitersMatchCalls
    <3> QED
      BY <2>b, <2>e, <3>1, <3>2, <1>r DEF WaitersMatchCalls
  <2>5. NoAnswerWhileBlocked'
    <3>1. ASSUME NEW u \in Sessions, Present(u), sw'[u] # <<>>, u # s
          PROVE  Unretrieved(u)' = {}
      <4>1. q \notin Asked(u)
        BY <2>x, <3>1 DEF IndexAgrees
      <4> QED
        BY <2>b, <2>c, <2>d, <3>1, <4>1
           DEF NoAnswerWhileBlocked, Unretrieved, Asked, Present, TypeOK
    <3>2. ASSUME sw'[s] # <<>>
          PROVE  Unretrieved(s)' = {}
      <4>1. sw[s] # <<>>
        BY <2>c, <2>x, <3>2 DEF AfterNotifyFirst
      <4>2. NotifiedFirst(sw[s]) # {} /\ Unretrieved(s) = {}
        BY <2>x, <4>1 DEF NotifiedFirst, NoAnswerWhileBlocked
      <4> QED
        BY <1>r, <2>b, <2>d, <2>x, <4>2 DEF Unretrieved, Asked
    <3> QED
      BY <2>b, <2>x, <3>1, <3>2 DEF NoAnswerWhileBlocked, Present
  <2>6. OutcomesAreTrue'
    BY <1>r, <2>a, <2>b, <2>d, <2>f DEF OutcomesAreTrue, AskedQuestions, IndexAgrees
  <2>7. NextAnswerOnce'
    <3>1. \A c \in NextCalls : pc[c] = "answered" => got[c] # q
      BY <2>b DEF OutcomesAreTrue, AskedQuestions
    <3>2. \A c, d \in NextCalls : c \in told /\ d \in told => c = d
      BY <2>f
    <3> QED
      BY <2>a, <3>1, <3>2 DEF NextAnswerOnce
  <2> QED
    BY <2>1, <2>2, <2>3, <2>4, <2>5, <2>6, <2>7 DEF StoreParts
<1>14. ASSUME UNCHANGED <<storeVars, waiterVars>>
       PROVE  StoreParts'
  BY <1>14 DEF storeVars, waiterVars, StoreParts,
     AskedQuestions, IndexAgrees, WaitersArePending, WaitersMatchCalls,
     NoAnswerWhileBlocked, OutcomesAreTrue, NextAnswerOnce, Present, Asked,
     Unretrieved
<1> QED
  BY <1>1, <1>2, <1>3, <1>4, <1>5, <1>6, <1>7, <1>8, <1>9, <1>10, <1>11,
     <1>12, <1>13, <1>14
     DEF Next, vars, WsConnect, WsDisconnect, SubmitAnswer, AnswerIgnored

-----------------------------------------------------------------------------
(* Theorems                                                                *)

LEMMA StoreInit == Init => StoreInv
  BY TypeInit, RegisteredLemma, NullAssumption
     DEF Init, StoreInv, ClientIsOpen, OpenTabs, AskedQuestions, IndexAgrees,
         WaitersArePending, WaitersMatchCalls, NoAnswerWhileBlocked,
         OutcomesAreTrue, NextAnswerOnce, Present, Asked, Calls

\* StoreInv is inductive: Init establishes it and every callback preserves it.
THEOREM StoreInvariant == Spec => []StoreInv
<1>1. StoreInv /\ [Next]_vars => StoreInv'
  BY TypeStep, BrowserStep, StoreStep DEF StoreInv, StoreParts
<1> QED
  BY StoreInit, <1>1, PTL DEF Spec

\* An answer is handed to at most one get_next_answer call.
THEOREM AnswerTakenOnce == Spec => []NextAnswerOnce
  BY StoreInvariant, PTL DEF StoreInv

\* A get_next_answer call of an existing session is never left blocked while
\* an answer of that session lies unretrieved.
THEOREM NoLostWakeUp == Spec => []NoAnswerWhileBlocked
  BY StoreInvariant, PTL DEF StoreInv

\* Answer, cancel and teardown leave no get_answer waiter behind.
THEOREM NoStaleWaiter == Spec => []WaitersArePending
  BY StoreInvariant, PTL DEF StoreInv

\* The index of questions agrees with the sessions that are in the map.
THEOREM IndexCorrect == Spec => []IndexAgrees
  BY StoreInvariant, PTL DEF StoreInv

\* The registered waiters are exactly blocked calls, each once.
THEOREM WaitersAreBlockedCalls == Spec => []WaitersMatchCalls
  BY StoreInvariant, PTL DEF StoreInv

\* Questions are never pushed to a connection that has closed.
THEOREM ClientConnected == Spec => []ClientIsOpen
  BY StoreInvariant, PTL DEF StoreInv

\* What a call reports is what happened to the question.
THEOREM TruthfulOutcomes == Spec => []OutcomesAreTrue
  BY StoreInvariant, PTL DEF StoreInv

\* No call is resolved twice, whichever of its timer and its notification
\* comes first.
THEOREM ReturnOnce == Spec => CallsReturnOnce
<1> DEFINE Once == \A c \in Calls : pc[c] \in Outcomes =>
                        pc'[c] = pc[c] /\ got'[c] = got[c]
<1>1. StoreInv /\ [Next]_vars => [Once]_vars
  <2> SUFFICES ASSUME StoreInv, Next PROVE Once
    OBVIOUS
  <2> USE DEF StoreInv, Outcomes
  <2>1. ASSUME NEW q \in Questions, CancelQuestion(q)
        PROVE  Once
    BY <2>1 DEF CancelQuestion, NotifiedAll, WaitersMatchCalls, TypeOK
  <2>2. ASSUME NEW t \in Tabs, NEW q \in Questions, AnswerArrives(t, q)
        PROVE  Once
    <3>1. tab[t] \in Sessions
      BY <2>2 DEF AnswerArrives, OpenTabs, TypeOK
    <3>2. NotifiedFirst(sw[tab[t]]) \subseteq Registered(sw[tab[t]])
      BY <3>1, NotifyFirstLemma DEF TypeOK
    <3>3. \A c \in Registered(rw[q]) \cup NotifiedFirst(sw[tab[t]]) :
                pc[c] = "waiting"
      BY <3>1, <3>2 DEF WaitersMatchCalls
    <3> QED
      BY <2>2, <3>3 DEF AnswerArrives, NotifiedAll, TypeOK
  <2>3. ASSUME NEW c \in Calls, pc[c] \in {"idle", "waiting"},
               \A d \in Calls \ {c} : pc'[d] = pc[d] /\ got'[d] = got[d]
        PROVE  Once
    BY <2>3
  <2>4. ASSUME UNCHANGED <<pc, got>>
        PROVE  Once
    BY <2>4
  <2>5. ASSUME NEW c \in GetCalls,
               \/ \E q \in Questions : GetAnswerNow(c, q) \/ GetAnswerBlocks(c, q)
               \/ GetAnswerTimeout(c)
        PROVE  Once
    <3>1. /\ pc[c] \in {"idle", "waiting"}
          /\ \A d \in Calls \ {c} : pc'[d] = pc[d] /\ got'[d] = got[d]
      BY <2>5 DEF GetAnswerNow, GetAnswerBlocks, GetAnswerTimeout, Return, TypeOK
    <3> QED
      BY <2>3, <3>1 DEF Calls
  <2>6. ASSUME NEW c \in NextCalls, NEW s \in Sessions,
               TakeNextAnswer(c, s) \/ NoNextAnswer(c, s) \/ NextAnswerBlocks(c, s)
        PROVE  Once
    <3>1. /\ pc[c] \in {"idle", "waiting"}
          /\ \A d \in Calls \ {c} : pc'[d] = pc[d] /\ got'[d] = got[d]
      BY <2>6 DEF TakeNextAnswer, NoNextAnswer, NextAnswerBlocks, Return, TypeOK
    <3> QED
      BY <2>3, <3>1 DEF Calls
  <2>7. ASSUME NEW c \in NextCalls, NextAnswerTimeout(c)
        PROVE  Once
    <3>1. /\ pc[c] \in {"idle", "waiting"}
          /\ \A d \in Calls \ {c} : pc'[d] = pc[d] /\ got'[d] = got[d]
      BY <2>7 DEF NextAnswerTimeout, Return, TypeOK
    <3> QED
      BY <2>3, <3>1 DEF Calls
  <2>8. ASSUME NEW s \in Sessions,
               \/ \E initial \in InitialQuestions : StartSession(s, initial)
               \/ StartSessionFails(s) \/ BrowserOpened(s) \/ EndSession(s)
               \/ \E q \in Questions : PushQuestion(s, q)
               \/ \E t \in Tabs : WsConnect(t, s)
        PROVE  Once
    BY <2>4, <2>8 DEF StartSession, StartSessionFails, BrowserOpened,
       EndSession, PushQuestion, WsConnect, waiterVars
  <2>9. ASSUME NEW t \in Tabs,
               \/ WsDisconnect(t)
               \/ \E q \in Questions : SubmitAnswer(t, q) \/ AnswerIgnored(t, q)
        PROVE  Once
    BY <2>4, <2>9 DEF WsDisconnect, SubmitAnswer, AnswerIgnored, waiterVars
  <2> HIDE DEF Once
  <2> QED
    BY <2>1, <2>2, <2>5, <2>6, <2>7, <2>8, <2>9 DEF Next
<1> QED
  BY StoreInvariant, <1>1, PTL DEF Spec, CallsReturnOnce
\* AnswersAreFinal: answering, cancelling and starting a session touch the
\* status only of questions that are pending or not asked yet, and only an
\* answered question is marked retrieved.
THEOREM AnswersFinal == Spec => AnswersAreFinal
<1> DEFINE Final == \A q \in Questions :
                      /\ status[q] \in {"answered", "cancelled"} => status'[q] = status[q]
                      /\ retrieved[q] => retrieved'[q]
<1>1. StoreInv /\ [Next]_vars => [Final]_vars
  <2> SUFFICES ASSUME StoreInv, Next PROVE Final
    OBVIOUS
  <2>1. /\ status \in [Questions -> Statuses]
        /\ retrieved \in [Questions -> BOOLEAN]
        /\ \A q \in Questions : retrieved[q] => status[q] = "answered"
    BY DEF StoreInv, TypeOK, AskedQuestions
  <2>2. ASSUME NEW s \in Sessions, NEW initial \in InitialQuestions,
               StartSession(s, initial)
        PROVE  Final
    BY <2>1, <2>2 DEF StartSession
  <2>3. ASSUME NEW s \in Sessions, NEW q \in Questions, PushQuestion(s, q)
        PROVE  Final
    BY <2>1, <2>3 DEF PushQuestion
  <2>4. ASSUME NEW q \in Questions, CancelQuestion(q)
        PROVE  Final
    BY <2>1, <2>4 DEF CancelQuestion
  <2>5. ASSUME NEW c \in NextCalls, NEW s \in Sessions, TakeNextAnswer(c, s)
        PROVE  Final
    <3>1. PICK i \in DOMAIN questions[s] :
                /\ retrieved' = [retrieved EXCEPT ![questions[s][i]] = TRUE]
                /\ status' = status
      BY <2>5 DEF TakeNextAnswer
    <3> QED
      BY <2>1, <3>1
  <2>6. ASSUME NEW t \in Tabs, NEW q \in Questions, AnswerArrives(t, q)
        PROVE  Final
    <3>1. /\ status[q] = "pending"
          /\ status' = [status EXCEPT ![q] = "answered"]
          /\ \E b \in BOOLEAN : retrieved' = [retrieved EXCEPT ![q] = b]
      BY <2>6 DEF AnswerArrives, Accepts
    <3> QED
      BY <2>1, <3>1
  <2>7. ASSUME UNCHANGED <<status, retrieved>>
        PROVE  Final
    BY <2>7
  <2>8. ASSUME NEW s \in Sessions,
               StartSessionFails(s) \/ BrowserOpened(s) \/ EndSession(s)
        PROVE  Final
    BY <2>7, <2>8 DEF StartSessionFails, BrowserOpened, EndSession
  <2>9. ASSUME NEW c \in GetCalls,
               \/ \E q \in Questions : GetAnswerNow(c, q) \/ GetAnswerBlocks(c, q)
               \/ GetAnswerTimeout(c)
        PROVE  Final
    BY <2>7, <2>9 DEF GetAnswerNow, GetAnswerBlocks, GetAnswerTimeout, storeVars
  <2>10. ASSUME NEW c \in NextCalls,
                \/ \E s \in Sessions : NoNextAnswer(c, s) \/ NextAnswerBlocks(c, s)
                \/ NextAnswerTimeout(c)
         PROVE  Final
    BY <2>7, <2>10 DEF NoNextAnswer, NextAnswerBlocks, NextAnswerTimeout, storeVars
  <2>11. ASSUME NEW t \in Tabs,
                \/ \E s \in Sessions : WsConnect(t, s)
                \/ WsDisconnect(t)
                \/ \E q \in Questions : SubmitAnswer(t, q) \/ AnswerIgnored(t, q)
         PROVE  Final
    BY <2>7, <2>11 DEF WsConnect, WsDisconnect, SubmitAnswer, AnswerIgnored, storeVars
  <2> QED
    BY <2>2, <2>3, <2>4, <2>5, <2>6, <2>8, <2>9, <2>10, <2>11 DEF Next
<1> QED
  BY <1>1, StoreInvariant, PTL DEF Spec, AnswersAreFinal
-----------------------------------------------------------------------------
(* The session store implements the mailbox                                *)

\* The mapped variables, name by name, and what leaves them alone.
LEMMA MailFrame ==
    /\ UNCHANGED sessions => UNCHANGED MailPhase
    /\ UNCHANGED <<status, retrieved>> => UNCHANGED MailLetter
  BY DEF MailPhase, MailLetter, Present

\* A session changes its phase alone.
LEMMA PhaseStep ==
    ASSUME TypeOK, NEW s \in Sessions, NEW p \in SessionPhases,
           sessions' = [sessions EXCEPT ![s] = p]
    PROVE  MailPhase' = [MailPhase EXCEPT
                            ![s] = IF p \in {"opening", "open"} THEN "open" ELSE p]
  BY DEF MailPhase, Present, TypeOK

\* Steps of the store the mailbox knows nothing of.
LEMMA HiddenStep ==
    ASSUME UNCHANGED <<sessions, status, retrieved, questionToSession>>
    PROVE  UNCHANGED Mailbox!mailVars
  BY MailFrame DEF Mailbox!mailVars

\* start_session asks its first questions as it opens the session.
LEMMA StartIsOpen ==
    ASSUME StoreInv, NEW s \in Sessions, NEW initial \in InitialQuestions,
           StartSession(s, initial)
    PROVE  \E asked \in SUBSET Questions : Mailbox!Open(s, asked)
<1> DEFINE asked == {q \in Questions : \E i \in DOMAIN initial : initial[i] = q}
<1>1. MailPhase[s] = "unborn" /\ MailPhase' = [MailPhase EXCEPT ![s] = "open"]
  <2>1. sessions' = [sessions EXCEPT ![s] = "opening"] /\ sessions[s] = "unborn"
    BY DEF StartSession
  <2> QED
    BY <2>1, PhaseStep DEF StoreInv, MailPhase, Present, SessionPhases
<1>2. \A q \in asked : MailLetter[q] = "unasked"
  BY DEF StartSession, MailLetter
<1>3. \A q \in Questions :
        /\ status'[q] = IF q \in asked THEN "pending" ELSE status[q]
        /\ retrieved'[q] = retrieved[q]
  BY DEF StartSession
<1>4. MailLetter' =
        [q \in Questions |-> IF q \in asked THEN "pending" ELSE MailLetter[q]]
  BY <1>3 DEF MailLetter
<1>5. questionToSession' =
        [q \in Questions |-> IF q \in asked THEN s ELSE questionToSession[q]]
  BY DEF StartSession
<1> HIDE DEF asked
<1>6. asked \in SUBSET Questions
  BY DEF asked
<1> QED
  BY <1>1, <1>2, <1>4, <1>5, <1>6 DEF Mailbox!Open, Mailbox!Ask, Mailbox!Become

\* A teardown takes the session's questions out of the mailbox: by the index,
\* they are those that belong to it.
LEMMA EndIsEnd ==
    ASSUME StoreInv, NEW s \in Sessions, EndSession(s)
    PROVE  Mailbox!End(s)
<1>1. sessions[s] = "open" /\ sessions' = [sessions EXCEPT ![s] = "ended"]
  BY DEF EndSession
<1>2. MailPhase[s] = "open" /\ MailPhase' = [MailPhase EXCEPT ![s] = "ended"]
  BY <1>1, PhaseStep DEF StoreInv, MailPhase, Present, SessionPhases
<1>3. \A q \in Questions : q \in Asked(s) <=> questionToSession[q] = s
  BY <1>1 DEF StoreInv, IndexAgrees, Present
<1>4. questionToSession' = [q \in Questions |-> IF questionToSession[q] = s
                              THEN NoSession ELSE questionToSession[q]]
  BY <1>3 DEF EndSession
<1>5. UNCHANGED MailLetter
  BY MailFrame DEF EndSession
<1> QED
  BY <1>2, <1>4, <1>5 DEF Mailbox!End

LEMMA PushIsPush ==
    ASSUME StoreInv, NEW s \in Sessions, NEW q \in Questions, PushQuestion(s, q)
    PROVE  Mailbox!Push(s, q)
<1>1. MailPhase[s] = "open" /\ UNCHANGED MailPhase
  BY MailFrame DEF PushQuestion, MailPhase, Present
<1>2. MailLetter[q] = "unasked"
  BY DEF PushQuestion, MailLetter
<1>3. \A p \in Questions :
        /\ status'[p] = IF p = q THEN "pending" ELSE status[p]
        /\ retrieved'[p] = retrieved[p]
  BY DEF PushQuestion, StoreInv, TypeOK
<1>4. MailLetter' =
        [p \in Questions |-> IF p \in {q} THEN "pending" ELSE MailLetter[p]]
  BY <1>3 DEF MailLetter
<1>5. questionToSession' =
        [p \in Questions |-> IF p \in {q} THEN s ELSE questionToSession[p]]
  BY DEF PushQuestion, StoreInv, TypeOK
<1> QED
  BY <1>1, <1>2, <1>4, <1>5 DEF Mailbox!Push, Mailbox!Ask, Mailbox!Become

LEMMA CancelIsCancel ==
    ASSUME StoreInv, NEW q \in Questions, CancelQuestion(q)
    PROVE  \E s \in Sessions : Mailbox!Cancel(s, q)
<1> DEFINE s == questionToSession[q]
<1>1. s \in Sessions /\ Present(s) /\ status[q] = "pending"
  BY DEF CancelQuestion, StoreInv, TypeOK
<1>2. MailPhase[s] = "open" /\ MailLetter[q] = "pending" /\ UNCHANGED MailPhase
  BY <1>1, MailFrame DEF CancelQuestion, MailPhase, MailLetter
<1>3. \A p \in Questions :
        /\ status'[p] = IF p = q THEN "cancelled" ELSE status[p]
        /\ retrieved'[p] = retrieved[p]
  BY DEF CancelQuestion, StoreInv, TypeOK
<1>4. MailLetter' =
        [p \in Questions |-> IF p \in {q} THEN "cancelled" ELSE MailLetter[p]]
  BY <1>3 DEF MailLetter
<1>5. UNCHANGED questionToSession
  BY DEF CancelQuestion
<1> QED
  BY <1>1, <1>2, <1>4, <1>5 DEF Mailbox!Cancel, Mailbox!In, Mailbox!Become

LEMMA TakeIsTake ==
    ASSUME StoreInv, NEW c \in NextCalls, NEW s \in Sessions,
           TakeNextAnswer(c, s)
    PROVE  \E q \in Questions : Mailbox!Take(s, q)
<1>1. PICK i \in DOMAIN questions[s] :
        /\ Present(s) /\ FirstUnretrieved(s, i)
        /\ retrieved' = [retrieved EXCEPT ![questions[s][i]] = TRUE]
        /\ UNCHANGED <<sessions, status, questionToSession>>
  BY DEF TakeNextAnswer
<1> DEFINE q == questions[s][i]
<1>2. q \in Asked(s) /\ status[q] = "answered" /\ ~retrieved[q]
  BY <1>1 DEF FirstUnretrieved, Unretrieved
<1>3. q \in Questions
  BY <1>1 DEF StoreInv, TypeOK
<1>4. questionToSession[q] = s
  BY <1>1, <1>2, <1>3 DEF StoreInv, IndexAgrees
<1> HIDE DEF q
<1>5. MailPhase[s] = "open" /\ MailLetter[q] = "answered" /\ UNCHANGED MailPhase
  BY <1>1, <1>2, <1>3, MailFrame DEF MailPhase, MailLetter
<1>6. \A p \in Questions :
        retrieved'[p] <=> (p = q \/ retrieved[p])
  BY <1>1, <1>3 DEF q, StoreInv, TypeOK
<1>7. MailLetter' =
        [p \in Questions |-> IF p \in {q} THEN "taken" ELSE MailLetter[p]]
  BY <1>1, <1>2, <1>6 DEF MailLetter
<1> QED
  BY <1>1, <1>3, <1>4, <1>5, <1>7 DEF Mailbox!Take, Mailbox!In, Mailbox!Become

\* An answer that arrives is taken at once if a get_next_answer call waits.
LEMMA ArrivalIsAnswer ==
    ASSUME StoreInv, NEW t \in Tabs, NEW q \in Questions, AnswerArrives(t, q)
    PROVE  \E s \in Sessions, letter \in {"answered", "taken"} :
                Mailbox!Answer(s, q, letter)
<1> DEFINE s == tab[t]
           waits == NotifiedFirst(sw[s]) # {}
           letter == IF waits THEN "taken" ELSE "answered"
<1>1. /\ s \in Sessions /\ Present(s)
      /\ q \in Asked(s) /\ status[q] = "pending"
  BY DEF AnswerArrives, Accepts, StoreInv, TypeOK, OpenTabs
<1>2. questionToSession[q] = s
  BY <1>1 DEF StoreInv, IndexAgrees
<1>3. MailPhase[s] = "open" /\ MailLetter[q] = "pending" /\ UNCHANGED MailPhase
  BY <1>1, MailFrame DEF AnswerArrives, MailPhase, MailLetter
<1>4. /\ \A p \in Questions :
            status'[p] = IF p = q THEN "answered" ELSE status[p]
      /\ \A p \in Questions \ {q} : retrieved'[p] = retrieved[p]
      /\ retrieved'[q] <=> waits
  BY DEF AnswerArrives, StoreInv, TypeOK
<1>5. UNCHANGED questionToSession
  BY DEF AnswerArrives
<1> HIDE DEF waits
<1>6. MailLetter' =
        [p \in Questions |-> IF p \in {q} THEN letter ELSE MailLetter[p]]
  BY <1>4 DEF MailLetter
<1> QED
  BY <1>1, <1>2, <1>3, <1>5, <1>6
     DEF Mailbox!Answer, Mailbox!In, Mailbox!Become

LEMMA MailboxInit == Init => Mailbox!MailInit
  BY DEF Init, Mailbox!MailInit, MailPhase, MailLetter, Present

LEMMA MailboxStep ==
    StoreInv /\ [Next]_vars => [Mailbox!MailNext]_Mailbox!mailVars
<1> SUFFICES ASSUME StoreInv, [Next]_vars
             PROVE  Mailbox!MailNext \/ UNCHANGED Mailbox!mailVars
  OBVIOUS
<1>1. ASSUME NEW s \in Sessions, NEW initial \in InitialQuestions,
             StartSession(s, initial)
      PROVE  Mailbox!MailNext
  <2>1. MailPhase[s] = "unborn"
    BY <1>1 DEF StartSession, MailPhase, Present
  <2> QED
    BY <1>1, <2>1, StartIsOpen DEF Mailbox!MailNext
<1>2. ASSUME NEW s \in Sessions, StartSessionFails(s)
      PROVE  Mailbox!MailNext
  <2>1. sessions' = [sessions EXCEPT ![s] = "ended"] /\ sessions[s] = "unborn"
    BY <1>2 DEF StartSessionFails
  <2>2. /\ MailPhase[s] = "unborn"
        /\ MailPhase' = [MailPhase EXCEPT ![s] = "ended"]
    BY <2>1, PhaseStep DEF StoreInv, MailPhase, Present, SessionPhases
  <2>3. UNCHANGED <<questionToSession, MailLetter>>
    BY <1>2, MailFrame DEF StartSessionFails
  <2> QED
    BY <2>2, <2>3 DEF Mailbox!MailNext, Mailbox!OpenFails
<1>3. ASSUME NEW s \in Sessions, BrowserOpened(s)
      PROVE  UNCHANGED Mailbox!mailVars
  <2>1. sessions' = [sessions EXCEPT ![s] = "open"] /\ sessions[s] = "opening"
    BY <1>3 DEF BrowserOpened
  <2>2. MailPhase' = [MailPhase EXCEPT ![s] = "open"] /\ MailPhase[s] = "open"
    BY <2>1, PhaseStep DEF StoreInv, MailPhase, Present, SessionPhases
  <2>3. UNCHANGED MailPhase
    BY <2>2 DEF MailPhase
  <2> QED
    BY <1>3, <2>3, MailFrame DEF BrowserOpened, Mailbox!mailVars
<1>4. ASSUME NEW s \in Sessions, EndSession(s)
      PROVE  Mailbox!MailNext
  BY <1>4, EndIsEnd DEF Mailbox!MailNext
<1>5. ASSUME NEW s \in Sessions, NEW q \in Questions, PushQuestion(s, q)
      PROVE  Mailbox!MailNext
  BY <1>5, PushIsPush DEF Mailbox!MailNext
<1>6. ASSUME NEW q \in Questions, CancelQuestion(q)
      PROVE  Mailbox!MailNext
  BY <1>6, CancelIsCancel DEF Mailbox!MailNext
<1>7. ASSUME NEW c \in NextCalls, NEW s \in Sessions, TakeNextAnswer(c, s)
      PROVE  Mailbox!MailNext
  BY <1>7, TakeIsTake DEF Mailbox!MailNext
<1>8. ASSUME NEW t \in Tabs, NEW q \in Questions, AnswerArrives(t, q)
      PROVE  Mailbox!MailNext
  BY <1>8, ArrivalIsAnswer DEF Mailbox!MailNext
<1>9. ASSUME NEW c \in GetCalls, NEW q \in Questions,
             GetAnswerNow(c, q) \/ GetAnswerBlocks(c, q)
      PROVE  UNCHANGED storeVars
  BY <1>9 DEF GetAnswerNow, GetAnswerBlocks
<1>10. ASSUME NEW c \in NextCalls, NEW s \in Sessions,
              NoNextAnswer(c, s) \/ NextAnswerBlocks(c, s)
       PROVE  UNCHANGED storeVars
  BY <1>10 DEF NoNextAnswer, NextAnswerBlocks
<1>11. /\ \A c \in GetCalls : GetAnswerTimeout(c) => UNCHANGED storeVars
       /\ \A c \in NextCalls : NextAnswerTimeout(c) => UNCHANGED storeVars
  BY DEF GetAnswerTimeout, NextAnswerTimeout
<1>12. /\ \A t \in Tabs, s \in Sessions : WsConnect(t, s) => UNCHANGED storeVars
       /\ \A t \in Tabs : WsDisconnect(t) => UNCHANGED storeVars
  BY DEF WsConnect, WsDisconnect
<1>13. ASSUME NEW t \in Tabs, NEW q \in Questions,
              SubmitAnswer(t, q) \/ AnswerIgnored(t, q)
       PROVE  UNCHANGED storeVars
  BY <1>13 DEF SubmitAnswer, AnswerIgnored
<1>14. ASSUME UNCHANGED vars PROVE UNCHANGED storeVars
  BY <1>14 DEF vars
<1>15. \/ Mailbox!MailNext
       \/ UNCHANGED Mailbox!mailVars
       \/ UNCHANGED storeVars
  BY <1>1, <1>2, <1>3, <1>4, <1>5, <1>6, <1>7, <1>8, <1>9, <1>10, <1>11,
     <1>12, <1>13, <1>14 DEF Next
<1>16. ASSUME UNCHANGED storeVars PROVE UNCHANGED Mailbox!mailVars
  <2>1. UNCHANGED <<sessions, status, retrieved, questionToSession>>
    BY <1>16 DEF storeVars
  <2> QED
    BY <2>1, HiddenStep
<1> QED
  BY <1>15, <1>16

\* Whatever calls, tabs, timers and teardowns do, the store of sessions.ts is
\* a mailbox: an answer reaches its question once, while the session lives, is
\* taken by one get_next_answer at most, and a session that ends stays ended.
THEOREM StoreIsMailbox == Spec => ImplementsMailbox
<1>1. StoreInv /\ [Next]_vars => [Mailbox!MailNext]_Mailbox!mailVars
  BY MailboxStep
<1> QED
  BY <1>1, MailboxInit, StoreInvariant, PTL
     DEF Spec, ImplementsMailbox, Mailbox!MailSpec
=============================================================================
