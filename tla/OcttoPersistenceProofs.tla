----------------------- MODULE OcttoPersistenceProofs -----------------------
(***************************************************************************)
(* The files of octto sessions and their memory agree as far as the queues *)
(* allow, for any sets of sessions and questions and any number of         *)
(* crashes, restarts and failed writes.                                    *)
(***************************************************************************)
EXTENDS OcttoPersistence, TLAPS

Ops == {"save", "delete"}
Phases == {"unborn", "opening", "open", "ended", "lost"}

-----------------------------------------------------------------------------
(* Queues                                                                  *)

LEMMA AppendFacts ==
    ASSUME NEW queue0 \in Seq(Ops), NEW op \in Ops
    PROVE  LET q == Append(queue0, op) IN
           /\ q \in Seq(Ops) /\ q # <<>> /\ Len(q) = Len(queue0) + 1
           /\ q[Len(q)] = op
           /\ \A i \in 1..Len(queue0) : q[i] = queue0[i]
  OBVIOUS

LEMMA TailFacts ==
    ASSUME NEW queue0 \in Seq(Ops), queue0 # <<>>
    PROVE  /\ Tail(queue0) \in Seq(Ops) /\ Len(queue0) \in Nat \ {0}
           /\ Len(Tail(queue0)) = Len(queue0) - 1
           /\ \A i \in 1..Len(Tail(queue0)) : Tail(queue0)[i] = queue0[i + 1]
           /\ Tail(queue0) = <<>> <=> Len(queue0) = 1
           /\ Head(queue0) = queue0[1]
<1>1. Len(queue0) \in Nat /\ Len(queue0) # 0
  OBVIOUS
<1>2. Tail(queue0) \in Seq(Ops) /\ Len(Tail(queue0)) = Len(queue0) - 1
  BY <1>1
<1>3. \A i \in 1..Len(Tail(queue0)) : Tail(queue0)[i] = queue0[i + 1]
  BY <1>1, <1>2
<1>4. Tail(queue0) = <<>> <=> Len(queue0) = 1
  <2> DEFINE tail == Tail(queue0)
  <2>1. tail = <<>> <=> Len(tail) = 0
    BY <1>2
  <2> QED
    BY <1>1, <1>2, <2>1
<1> QED
  BY <1>1, <1>2, <1>3, <1>4

LEMMA EmptyFacts ==
    ASSUME NEW queue0 \in Seq(Ops)
    PROVE  /\ Len(queue0) \in Nat
           /\ queue0 = <<>> <=> Len(queue0) = 0
  OBVIOUS

-----------------------------------------------------------------------------
(* Types                                                                   *)

LEMMA FileFacts == /\ NoFile # Torn
                   /\ Idle \notin Snapshots /\ NoFile \notin Snapshots /\ Torn \notin Snapshots
  BY FileAssumption DEF Snapshots, Statuses

LEMMA TypeInit == Init => TypeOK
<1> SUFFICES ASSUME Init PROVE TypeOK
  OBVIOUS
<1>1. <<>> \in Seq({"save", "delete"})
  OBVIOUS
<1>2. queue \in [Sessions -> Seq({"save", "delete"})]
  BY <1>1 DEF Init
<1>3. status \in [Questions -> Statuses]
  BY DEF Init, Statuses
<1>4. writing \in [Sessions -> Snapshots \cup {Idle}]
      /\ file \in [Sessions -> Snapshots \cup {NoFile, Torn}]
  BY DEF Init
<1> QED
  BY <1>2, <1>3, <1>4 DEF Init, TypeOK

LEMMA SnapshotType == ASSUME TypeOK, NEW s \in Sessions PROVE Snapshot(s) \in Snapshots
  BY DEF TypeOK, Snapshot, Snapshots, Statuses

\* The session store and its listeners.
StoreStep(s) ==
    \/ \E initial \in SUBSET Questions : StartSession(s, initial)
    \/ SessionStarted(s) \/ EndSession(s)
    \/ \E q \in Questions :
         PushQuestion(s, q) \/ QuestionAnswered(s, q) \/ CancelQuestion(s, q)

\* The queue.
FileStep(s) == SaveStarts(s) \/ SaveEnds(s) \/ SaveFails(s) \/ DeleteRuns(s)

Starts == \E expired \in SUBSET {s \in Sessions : Loadable(s)} : Restart(expired)

LEMMA NextSteps ==
    Next <=> \/ \E s \in Sessions : StoreStep(s) \/ FileStep(s)
             \/ Crash \/ Starts
  BY DEF Next, StoreStep, FileStep, Starts

\* What a step of the store does: a session starts, something happens in it
\* and is saved, a question is cancelled and is not, or the session ends.
OthersStay(s) ==
    /\ up /\ UNCHANGED <<up, writing, file, failed>>
    /\ \A t \in Sessions \ {s} :
        sessions'[t] = sessions[t] /\ asked'[t] = asked[t] /\ queue'[t] = queue[t]

Registers(s) ==
    \A t \in resumable' : IF t = s THEN sessions'[s] = "open" ELSE t \in resumable

NewIn(s) == asked'[s] \ asked[s]

StatusMoves(s) ==
    /\ \A q \in NewIn(s) : status[q] = "unasked"
    /\ \A q \in Questions :
        \/ status'[q] = status[q] /\ q \notin NewIn(s)
        \/ status[q] = "unasked" /\ status'[q] = "pending" /\ q \in asked'[s]
        \/ status[q] = "pending" /\ status'[q] \in {"answered", "cancelled"} /\ q \in asked[s]

Opens(s) == /\ sessions[s] = "unborn" /\ sessions'[s] = "opening"
            /\ queue'[s] = queue[s]

Saves(s) == /\ sessions[s] \in {"opening", "open"} /\ sessions'[s] \in {sessions[s], "open"}
            /\ queue'[s] = Append(queue[s], "save") /\ asked[s] \subseteq asked'[s]

Cancels(s) == /\ sessions[s] = "open" /\ sessions'[s] = "open"
              /\ queue'[s] = queue[s] /\ asked'[s] = asked[s]
              /\ \A q \in Questions :
                   status'[q] # status[q] => status[q] = "pending" /\ status'[q] = "cancelled"

Ends(s) == /\ sessions[s] = "open" /\ sessions'[s] = "ended"
           /\ queue'[s] = Append(queue[s], "delete") /\ asked'[s] = asked[s]
           /\ status' = status

StoreEffect(s) == /\ OthersStay(s) /\ Registers(s) /\ StatusMoves(s)
                  /\ Opens(s) \/ Saves(s) \/ Cancels(s) \/ Ends(s)

LEMMA StoreSteps ==
    ASSUME TypeOK, ResumableIsOpen, NEW s \in Sessions, StoreStep(s) PROVE StoreEffect(s)
<1>1. ASSUME NEW initial \in SUBSET Questions, StartSession(s, initial)
      PROVE  StoreEffect(s)
  <2>1. OthersStay(s) /\ Opens(s)
    BY <1>1 DEF StartSession, TypeOK, OthersStay, Opens
  <2>2. /\ asked'[s] = initial
        /\ \A q \in Questions :
             status'[q] = IF q \in initial THEN "pending" ELSE status[q]
    BY <1>1 DEF StartSession, TypeOK
  <2>3. StatusMoves(s)
    BY <1>1, <2>2 DEF StartSession, StatusMoves, NewIn
  <2>4. Registers(s)
    BY <1>1 DEF StartSession, ResumableIsOpen, Registers
  <2> QED
    BY <2>1, <2>3, <2>4 DEF StoreEffect
<1>2. CASE SessionStarted(s)
  <2>1. OthersStay(s) /\ Saves(s) /\ Registers(s)
    BY <1>2 DEF SessionStarted, TypeOK, Enqueue, OthersStay, Saves, Registers
  <2>2. StatusMoves(s)
    BY <1>2 DEF SessionStarted, StatusMoves, NewIn
  <2> QED
    BY <2>1, <2>2 DEF StoreEffect
<1>3. CASE EndSession(s)
  <2>1. OthersStay(s) /\ Ends(s) /\ Registers(s)
    BY <1>3 DEF EndSession, TypeOK, Enqueue, OthersStay, Ends, Registers
  <2>2. StatusMoves(s)
    BY <1>3 DEF EndSession, StatusMoves, NewIn
  <2> QED
    BY <2>1, <2>2 DEF StoreEffect
<1>4. ASSUME NEW q \in Questions, PushQuestion(s, q) PROVE StoreEffect(s)
  <2>1. OthersStay(s) /\ Saves(s) /\ Registers(s)
    BY <1>4 DEF PushQuestion, TypeOK, Enqueue, OthersStay, Saves, Registers
  <2>2. /\ asked'[s] = asked[s] \cup {q} /\ status'[q] = "pending"
        /\ \A r \in Questions \ {q} : status'[r] = status[r]
    BY <1>4 DEF PushQuestion, TypeOK
  <2>3. StatusMoves(s)
    BY <1>4, <2>2 DEF PushQuestion, StatusMoves, NewIn
  <2> QED
    BY <2>1, <2>3 DEF StoreEffect
<1>5. ASSUME NEW q \in Questions, QuestionAnswered(s, q) PROVE StoreEffect(s)
  <2>1. OthersStay(s) /\ Saves(s) /\ Registers(s)
    BY <1>5 DEF QuestionAnswered, TypeOK, Enqueue, OthersStay, Saves, Registers,
                ResumableIsOpen
  <2>2. /\ asked' = asked /\ status'[q] = "answered"
        /\ \A r \in Questions \ {q} : status'[r] = status[r]
    BY <1>5 DEF QuestionAnswered, TypeOK
  <2>3. StatusMoves(s)
    BY <1>5, <2>2 DEF QuestionAnswered, StatusMoves, NewIn
  <2> QED
    BY <2>1, <2>3 DEF StoreEffect
<1>6. ASSUME NEW q \in Questions, CancelQuestion(s, q) PROVE StoreEffect(s)
  <2>1. OthersStay(s) /\ Registers(s)
    BY <1>6 DEF CancelQuestion, TypeOK, OthersStay, Registers
  <2>2. /\ asked' = asked /\ status'[q] = "cancelled"
        /\ \A r \in Questions \ {q} : status'[r] = status[r]
    BY <1>6 DEF CancelQuestion, TypeOK
  <2>3. Cancels(s)
    BY <1>6, <2>2 DEF CancelQuestion, Cancels
  <2>4. StatusMoves(s)
    BY <1>6, <2>2 DEF CancelQuestion, StatusMoves, NewIn
  <2> QED
    BY <2>1, <2>3, <2>4 DEF StoreEffect
<1> QED
  BY <1>1, <1>2, <1>3, <1>4, <1>5, <1>6 DEF StoreStep

\* What a step of a queue does: a save starts, ends or fails, or a delete runs.
FileEffect(s) ==
    /\ up /\ UNCHANGED memory
    /\ \A t \in Sessions \ {s} : /\ queue'[t] = queue[t] /\ writing'[t] = writing[t]
                                /\ file'[t] = file[t] /\ failed'[t] = failed[t]
    /\ queue[s] # <<>>
    /\ \/ /\ queue[s][1] = "save" /\ writing[s] = Idle /\ writing'[s] = Snapshot(s)
          /\ queue'[s] = queue[s] /\ file'[s] = file[s] /\ failed'[s] = failed[s]
       \/ /\ writing[s] # Idle /\ writing'[s] = Idle /\ queue'[s] = Tail(queue[s])
          /\ \/ file'[s] = writing[s] /\ failed'[s] = FALSE
             \/ file'[s] \in {file[s], Torn} /\ failed'[s] = TRUE
       \/ /\ queue[s][1] = "delete" /\ writing'[s] = writing[s]
          /\ queue'[s] = Tail(queue[s])
          /\ \/ file'[s] = NoFile /\ failed'[s] = FALSE
             \/ file'[s] = file[s] /\ failed'[s] = TRUE

LEMMA FileSteps ==
    ASSUME TypeOK, QueuesInOrder, NEW s \in Sessions, FileStep(s) PROVE FileEffect(s)
<1>1. queue[s] # <<>> => Head(queue[s]) = queue[s][1]
  BY TailFacts DEF TypeOK, Ops
<1>2. writing[s] # Idle => queue[s] # <<>>
  BY DEF QueuesInOrder
<1> QED
  BY <1>1, <1>2
     DEF FileStep, SaveStarts, SaveEnds, SaveFails, DeleteRuns, FileEffect, TypeOK

LEMMA StoreType ==
    ASSUME TypeOK, NEW s \in Sessions, StoreStep(s) PROVE TypeOK'
<1>1. queue' \in [Sessions -> Seq(Ops)]
  <2>1. \A op \in Ops : Append(queue[s], op) \in Seq(Ops)
    BY AppendFacts DEF TypeOK, Ops
  <2> QED
    BY <2>1 DEF StoreStep, StartSession, SessionStarted, EndSession, PushQuestion,
                QuestionAnswered, CancelQuestion, Enqueue, TypeOK, Ops
<1>2. status' \in [Questions -> Statuses]
  BY DEF StoreStep, StartSession, SessionStarted, EndSession, PushQuestion,
         QuestionAnswered, CancelQuestion, TypeOK, Statuses
<1>3. sessions' \in [Sessions -> Phases]
  BY DEF StoreStep, StartSession, SessionStarted, EndSession, PushQuestion,
         QuestionAnswered, CancelQuestion, TypeOK, Phases
<1>4. asked' \in [Sessions -> SUBSET Questions]
  BY DEF StoreStep, StartSession, SessionStarted, EndSession, PushQuestion,
         QuestionAnswered, CancelQuestion, TypeOK
<1>5. /\ server' \in BOOLEAN /\ resumable' \subseteq Sessions
      /\ UNCHANGED <<up, writing, file, failed>>
  BY DEF StoreStep, StartSession, SessionStarted, EndSession, PushQuestion,
         QuestionAnswered, CancelQuestion, TypeOK
<1> QED
  BY <1>1, <1>2, <1>3, <1>4, <1>5 DEF TypeOK, Ops, Phases

LEMMA FileType ==
    ASSUME TypeOK, QueuesInOrder, NEW s \in Sessions, FileStep(s) PROVE TypeOK'
<1>1. queue' \in [Sessions -> Seq(Ops)]
  <2>1. queue[s] # <<>> /\ Tail(queue[s]) \in Seq(Ops)
    BY TailFacts, FileSteps DEF TypeOK, Ops, FileEffect
  <2> QED
    BY <2>1 DEF FileStep, SaveStarts, SaveEnds, SaveFails, DeleteRuns, TypeOK, Ops
<1>2. writing' \in [Sessions -> Snapshots \cup {Idle}]
  BY SnapshotType DEF FileStep, SaveStarts, SaveEnds, SaveFails, DeleteRuns, TypeOK
<1>3. file' \in [Sessions -> Snapshots \cup {NoFile, Torn}]
  BY DEF FileStep, SaveStarts, SaveEnds, SaveFails, DeleteRuns, TypeOK
<1>4. failed' \in [Sessions -> BOOLEAN] /\ UNCHANGED memory
  BY DEF FileStep, SaveStarts, SaveEnds, SaveFails, DeleteRuns, TypeOK
<1> QED
  BY <1>1, <1>2, <1>3, <1>4 DEF TypeOK, memory, Ops

LEMMA CrashType == ASSUME TypeOK, Crash PROVE TypeOK'
<1>1. queue' \in [Sessions -> Seq({"save", "delete"})]
  <2>1. <<>> \in Seq({"save", "delete"})
    OBVIOUS
  <2> QED
    BY <2>1 DEF Crash
<1>2. /\ sessions' \in [Sessions -> Phases] /\ asked' \in [Sessions -> SUBSET Questions]
      /\ writing' \in [Sessions -> Snapshots \cup {Idle}] /\ failed' \in [Sessions -> BOOLEAN]
  BY DEF Crash, TypeOK, Phases
<1>3. PICK torn \in SUBSET Sessions, done \in SUBSET {s \in Sessions : writing[s] # Idle} :
        file' = [s \in Sessions |-> IF s \in torn THEN Torn
                                   ELSE IF s \in done THEN writing[s] ELSE file[s]]
  BY DEF Crash
<1>4. file' \in [Sessions -> Snapshots \cup {NoFile, Torn}]
  BY <1>3 DEF TypeOK
<1> QED
  BY <1>1, <1>2, <1>4 DEF Crash, TypeOK, Phases

LEMMA RestartType == ASSUME TypeOK, Starts PROVE TypeOK'
<1>1. PICK expired \in SUBSET {s \in Sessions : Loadable(s)} : Restart(expired)
  BY DEF Starts
<1> DEFINE loaded == {s \in Sessions \ expired : Loadable(s)}
<1>2. \A s \in loaded : file[s] \in Snapshots
  BY DEF TypeOK, Loadable
<1>3. status' \in [Questions -> Statuses]
  <2>1. ASSUME NEW q \in Questions, \E s \in loaded : q \in InFile(s)
        PROVE  file[CHOOSE s \in loaded : q \in InFile(s)][q] \in Statuses
    BY <1>2, <2>1 DEF Snapshots
  <2> QED
    BY <1>1, <2>1 DEF Restart, Restore, TypeOK
<1>4. /\ sessions' \in [Sessions -> Phases] /\ asked' \in [Sessions -> SUBSET Questions]
      /\ up' \in BOOLEAN /\ file' \in [Sessions -> Snapshots \cup {NoFile, Torn}]
  BY <1>1 DEF Restart, Restore, TypeOK, InFile, Phases
<1> QED
  BY <1>1, <1>3, <1>4 DEF Restart, TypeOK, Phases

-----------------------------------------------------------------------------
(* Crash and start-up                                                      *)

\* A crash leaves every file as it is, torn, or as it was being written.
CrashEffect ==
    /\ ~up' /\ status' = status /\ resumable' = {}
    /\ \A s \in Sessions :
        /\ sessions'[s] = IF sessions[s] \in {"opening", "open"} THEN "lost" ELSE sessions[s]
        /\ asked'[s] = {} /\ queue'[s] = <<>> /\ writing'[s] = Idle /\ failed'[s] = FALSE
        /\ \/ file'[s] = file[s]
           \/ writing[s] # Idle /\ file'[s] \in {writing[s], Torn}

LEMMA CrashSteps == Crash => CrashEffect
  BY DEF Crash, CrashEffect

\* A start-up opens every session whose file it can load, as the file has it.
StartEffect ==
    /\ ~up /\ up' /\ UNCHANGED <<resumable, queue, writing, failed>>
    /\ \A s \in Sessions :
        \/ /\ Loadable(s) /\ file'[s] = file[s] /\ sessions'[s] = "open"
           /\ asked'[s] = InFile(s)
           /\ \A q \in InFile(s) : status'[q] = file[s][q]
        \/ /\ file'[s] \in {NoFile, Torn} /\ sessions'[s] = sessions[s]
           /\ file[s] = NoFile => file'[s] = NoFile
           /\ asked'[s] = {}
    /\ \A q \in Questions :
        status'[q] # status[q] => \E s \in Sessions : Loadable(s) /\ status'[q] = file[s][q]
                                                    /\ q \in InFile(s)

LEMMA StartSteps ==
    ASSUME TypeOK, QuestionsHaveOneSession, Starts PROVE StartEffect
<1>1. PICK expired \in SUBSET {s \in Sessions : Loadable(s)} : Restart(expired)
  BY DEF Starts
<1> DEFINE loaded == {s \in Sessions \ expired : Loadable(s)}
<1>2. \A s, t \in loaded, q \in Questions : q \in InFile(s) /\ q \in InFile(t) => s = t
  BY DEF QuestionsHaveOneSession, Keeps, InFile
<1>3. ASSUME NEW s \in loaded, NEW q \in InFile(s) PROVE status'[q] = file[s][q]
  <2>1. q \in Questions
    BY <1>3 DEF InFile
  <2>2. (CHOOSE t \in loaded : q \in InFile(t)) = s
    BY <1>2, <1>3, <2>1
  <2> QED
    BY <1>1, <1>3, <2>1, <2>2 DEF Restart, Restore
<1>4. ASSUME NEW q \in Questions, status'[q] # status[q]
      PROVE  \E s \in loaded : q \in InFile(s)
  BY <1>1, <1>4 DEF Restart, Restore
<1>5. ASSUME NEW s \in Sessions
      PROVE  \/ /\ s \in loaded /\ Loadable(s) /\ file'[s] = file[s] /\ sessions'[s] = "open"
                /\ asked'[s] = InFile(s)
             \/ /\ file'[s] \in {NoFile, Torn} /\ sessions'[s] = sessions[s]
                /\ file[s] = NoFile => file'[s] = NoFile
                /\ asked'[s] = {}
  <2>1. CASE s \in loaded
    BY <1>1, <2>1 DEF Restart, Restore
  <2>2. CASE s \notin loaded
    BY <1>1, <2>2 DEF Restart, Restore, Loadable
  <2> QED
    BY <2>1, <2>2
<1>6. ~up /\ up' /\ UNCHANGED <<resumable, queue, writing, failed>>
  BY <1>1 DEF Restart
<1>7. \A q \in Questions : status'[q] # status[q] =>
        \E s \in Sessions : Loadable(s) /\ status'[q] = file[s][q] /\ q \in InFile(s)
  BY <1>3, <1>4
<1> QED
  BY <1>3, <1>5, <1>6, <1>7 DEF StartEffect

-----------------------------------------------------------------------------
(* The store keeps the invariant                                           *)

\* QueuesInOrder of one session, as a fact about its write and its queue.
InOrder(write, ops, ended) ==
    /\ write # Idle => ops # <<>> /\ ops[1] = "save"
    /\ \A i \in 1..Len(ops) : ops[i] = "delete" <=> (i = Len(ops) /\ ended)

LEMMA InOrderAppend ==
    ASSUME NEW write, NEW old \in Seq(Ops), InOrder(write, old, FALSE), NEW op \in Ops
    PROVE  InOrder(write, Append(old, op), op = "delete")
<1> DEFINE new == Append(old, op)
<1>1. /\ new \in Seq(Ops) /\ new # <<>> /\ Len(new) = Len(old) + 1
      /\ new[Len(new)] = op
      /\ \A i \in 1..Len(old) : new[i] = old[i]
  BY AppendFacts
<1>2. Len(old) \in Nat /\ (old # <<>> => 1 \in 1..Len(old))
  BY EmptyFacts
<1>3. \A i \in 1..Len(new) : i \in 1..Len(old) \/ i = Len(new)
  BY <1>1, <1>2
<1>4. \A i \in 1..Len(old) : i # Len(new)
  BY <1>1, <1>2
<1>5. \A i \in 1..Len(old) : old[i] # "delete"
  BY DEF InOrder
<1>6. write # Idle => old # <<>> /\ old[1] = "save"
  BY DEF InOrder
<1> HIDE DEF new
<1>7. write # Idle => new # <<>> /\ new[1] = "save"
  BY <1>1, <1>2, <1>6
<1>8. \A i \in 1..Len(new) : new[i] = "delete" <=> (i = Len(new) /\ op = "delete")
  BY <1>1, <1>3, <1>4, <1>5
<1>9. InOrder(write, new, op = "delete")
  BY <1>7, <1>8 DEF InOrder
<1> QED
  BY <1>9 DEF new

LEMMA InOrderTail ==
    ASSUME NEW write, NEW old \in Seq(Ops), NEW ended \in BOOLEAN,
           InOrder(write, old, ended), old # <<>>
    PROVE  InOrder(Idle, Tail(old), ended)
<1> DEFINE new == Tail(old)
<1>1. /\ Len(old) \in Nat \ {0} /\ Len(new) = Len(old) - 1
      /\ \A i \in 1..Len(new) : new[i] = old[i + 1]
  BY TailFacts
<1> HIDE DEF new
<1>2. \A i \in 1..Len(new) : i + 1 \in 1..Len(old) /\ (i + 1 = Len(old) <=> i = Len(new))
  BY <1>1
<1>3. \A i \in 1..Len(old) : old[i] = "delete" <=> (i = Len(old) /\ ended)
  BY DEF InOrder
<1>4. \A i \in 1..Len(new) : new[i] = "delete" <=> (i = Len(new) /\ ended)
  BY <1>1, <1>2, <1>3
<1>5. InOrder(Idle, new, ended)
  BY <1>4 DEF InOrder
<1> QED
  BY <1>5 DEF new

LEMMA QueuesAreInOrder ==
    QueuesInOrder <=>
      /\ \A s \in Sessions :
          /\ InOrder(writing[s], queue[s], sessions[s] = "ended")
          /\ sessions[s] \in {"unborn", "lost"} => queue[s] = <<>>
          /\ sessions[s] = "unborn" => file[s] = NoFile
      /\ ~up => \A s \in Sessions :
                  queue[s] = <<>> /\ sessions[s] \notin {"opening", "open"}
  BY DEF QueuesInOrder, InOrder

LEMMA StoreQueues ==
    ASSUME PersistenceInv, NEW s \in Sessions, StoreEffect(s) PROVE QueuesInOrder'
<1>1. up' /\ writing' = writing /\ file' = file
      /\ \A t \in Sessions \ {s} : sessions'[t] = sessions[t] /\ queue'[t] = queue[t]
  BY DEF StoreEffect, OthersStay
<1>2. queue[s] \in Seq(Ops) /\ QueuesInOrder
  BY DEF PersistenceInv, TypeOK, Ops
<1>3. sessions[s] # "ended" /\ sessions'[s] \notin {"unborn", "lost"}
  BY DEF StoreEffect, Opens, Saves, Cancels, Ends
<1>4. InOrder(writing[s], queue[s], FALSE)
  BY <1>2, <1>3, QueuesAreInOrder DEF InOrder
<1>5. InOrder(writing[s], queue'[s], sessions'[s] = "ended")
  <2>1. CASE Opens(s) \/ Cancels(s)
    BY <1>4, <2>1 DEF Opens, Cancels, InOrder
  <2>2. CASE Saves(s)
    <3>1. InOrder(writing[s], Append(queue[s], "save"), "save" = "delete")
      BY <1>2, <1>4, InOrderAppend DEF Ops
    <3> QED
      BY <2>2, <3>1 DEF Saves, InOrder
  <2>3. CASE Ends(s)
    <3>1. InOrder(writing[s], Append(queue[s], "delete"), "delete" = "delete")
      BY <1>2, <1>4, InOrderAppend DEF Ops
    <3> QED
      BY <2>3, <3>1 DEF Ends, InOrder
  <2> QED
    BY <2>1, <2>2, <2>3 DEF StoreEffect
<1>6. \A t \in Sessions : InOrder(writing[t], queue[t], sessions[t] = "ended")
  BY <1>2, QueuesAreInOrder
<1>7. \A t \in Sessions : InOrder(writing'[t], queue'[t], sessions'[t] = "ended")
  BY <1>1, <1>5, <1>6
<1>8. \A t \in Sessions : /\ sessions'[t] \in {"unborn", "lost"} => queue'[t] = <<>>
                          /\ sessions'[t] = "unborn" => file'[t] = NoFile
  BY <1>1, <1>2, <1>3, QueuesAreInOrder
<1> QED
  BY <1>1, <1>7, <1>8 DEF QueuesInOrder, InOrder

LEMMA StoreQuestions ==
    ASSUME PersistenceInv, NEW s \in Sessions, StoreEffect(s)
    PROVE  QuestionsHaveOneSession'
<1>1. writing' = writing /\ file' = file
      /\ \A t \in Sessions \ {s} : asked'[t] = asked[t]
  BY DEF StoreEffect, OthersStay
<1>2. \A t \in Sessions, q \in Questions :
        Keeps(t, q)' => Keeps(t, q) \/ (t = s /\ q \in NewIn(s))
  BY <1>1 DEF Keeps, NewIn, Loadable
<1>3. \A q \in NewIn(s) \cap Questions :
        status[q] = "unasked" /\ status'[q] # "unasked"
  BY DEF StoreEffect, StatusMoves
<1>4. \A q \in Questions : status[q] # "unasked" => status'[q] # "unasked"
  BY DEF StoreEffect, StatusMoves
<1>5. \A q \in Questions, t \in Sessions :
        Keeps(t, q) => /\ status[q] # "unasked"
                       /\ \A u \in Sessions : Keeps(u, q) => t = u
  BY DEF PersistenceInv, QuestionsHaveOneSession
<1>6. \A q \in Questions, t \in Sessions :
        Keeps(t, q)' => /\ status'[q] # "unasked"
                        /\ \A u \in Sessions : Keeps(u, q)' => t = u
  BY <1>2, <1>3, <1>4, <1>5
<1> QED
  BY <1>6 DEF QuestionsHaveOneSession

\* What was known of a session stays known.
LEMMA StoreKnows ==
    ASSUME PersistenceInv, NEW s \in Sessions, StoreEffect(s),
           NEW t \in Sessions, asked[t] \subseteq asked'[t]
    PROVE  /\ Knows(t, file[t]) => Knows(t, file[t])'
           /\ Knows(t, writing[t]) => Knows(t, writing[t])'
<1>1. writing' = writing /\ file' = file
  BY DEF StoreEffect, OthersStay
<1>2. \A q \in Questions : status[q] \in {"answered", "cancelled"} => status'[q] = status[q]
  BY DEF StoreEffect, StatusMoves
<1> QED
  BY <1>1, <1>2 DEF Knows

LEMMA StoreWrites ==
    ASSUME PersistenceInv, NEW s \in Sessions, StoreEffect(s) PROVE WritesAreKnown'
<1>1. writing' = writing /\ file' = file
      /\ \A t \in Sessions \ {s} :
           sessions'[t] = sessions[t] /\ asked'[t] = asked[t] /\ queue'[t] = queue[t]
  BY DEF StoreEffect, OthersStay
<1>2. \A t \in Sessions : Loadable(t)' <=> Loadable(t)
  BY <1>1 DEF Loadable
<1>3. \A t \in Sessions \ {s} : Saving(t)' => Saving(t)
  BY <1>1 DEF Saving
<1>4. CASE Opens(s)
  <2>1. file[s] = NoFile /\ writing[s] = Idle
    BY <1>4 DEF Opens, PersistenceInv, QueuesInOrder
  <2>2. \A t \in Sessions \ {s} :
          /\ Knows(t, file[t]) => Knows(t, file[t])'
          /\ Knows(t, writing[t]) => Knows(t, writing[t])'
    BY <1>1, StoreKnows
  <2> QED
    BY <1>1, <1>2, <1>3, <2>1, <2>2 DEF WritesAreKnown, PersistenceInv, Loadable
<1>5. CASE Saves(s) \/ Cancels(s) \/ Ends(s)
  <2>1. Saving(s) /\ asked[s] \subseteq asked'[s]
    BY <1>5 DEF Saves, Cancels, Ends, Saving
  <2>2. \A t \in Sessions :
          /\ Knows(t, file[t]) => Knows(t, file[t])'
          /\ Knows(t, writing[t]) => Knows(t, writing[t])'
    BY <1>1, <2>1, StoreKnows
  <2>3. \A t \in Sessions : Saving(t)' => Saving(t)
    BY <1>3, <2>1
  <2> QED
    BY <1>1, <1>2, <2>2, <2>3 DEF WritesAreKnown, PersistenceInv
<1> QED
  BY <1>4, <1>5 DEF StoreEffect

\* Agreement with a session survives what happens in other sessions, and a
\* cancellation.
LEMMA StoreAgrees ==
    ASSUME PersistenceInv, NEW s \in Sessions, StoreEffect(s),
           NEW t \in Sessions, t # s \/ Cancels(s)
    PROVE  /\ Agrees(file[t], t) => Agrees(file[t], t)'
           /\ Agrees(writing[t], t) => Agrees(writing[t], t)'
<1>1. writing' = writing /\ file' = file
  BY DEF StoreEffect, OthersStay
<1>2. asked'[t] = asked[t]
  BY DEF StoreEffect, OthersStay, Cancels
<1>3. ASSUME NEW q \in Questions, q \in asked[t]
      PROVE  status'[q] = status[q] \/ (status[q] = "pending" /\ status'[q] = "cancelled")
  <2>1. CASE t = s
    BY <1>3, <2>1 DEF Cancels
  <2>2. CASE t # s
    <3>1. Keeps(t, q)
      BY <1>3 DEF Keeps
    <3>2. status[q] # "unasked" /\ q \notin asked[s]
      BY <2>2, <3>1 DEF PersistenceInv, QuestionsHaveOneSession, Keeps
    <3> QED
      BY <3>2 DEF StoreEffect, StatusMoves
  <2> QED
    BY <2>1, <2>2
<1>4. \A q \in Questions :
        \/ Snapshot(t)'[q] = Snapshot(t)[q]
        \/ (Snapshot(t)[q] = "pending" /\ Snapshot(t)'[q] = "cancelled")
  BY <1>2, <1>3 DEF Snapshot
<1> QED
  BY <1>1, <1>4 DEF Agrees

LEMMA StoreFiles ==
    ASSUME PersistenceInv, NEW s \in Sessions, StoreEffect(s)
    PROVE  LastSaveAgrees' /\ QuietFileAgrees' /\ EndedLeavesNoFile' /\ ResumableIsOpen'
<1>1. up /\ up' /\ writing' = writing /\ file' = file /\ failed' = failed
      /\ \A t \in Sessions \ {s} :
           sessions'[t] = sessions[t] /\ queue'[t] = queue[t]
  BY DEF StoreEffect, OthersStay
<1>2. \A t \in Sessions : Loadable(t)' <=> Loadable(t)
  BY <1>1 DEF Loadable
<1>3. \A t \in Sessions \ {s} :
        /\ Agrees(file[t], t) => Agrees(file[t], t)'
        /\ Agrees(writing[t], t) => Agrees(writing[t], t)'
  BY StoreAgrees
<1>4. queue[s] \in Seq(Ops) /\ (writing[s] # Idle => queue[s] # <<>>)
  BY DEF PersistenceInv, QueuesInOrder, TypeOK, Ops
<1>5. LastSaveAgrees'
  <2>1. ASSUME sessions'[s] = "open", Len(queue'[s]) = 1, writing[s] # Idle
        PROVE  Agrees(writing[s], s)'
    <3>1. ~Saves(s)
      <4>1. Len(queue[s]) \in Nat /\ Len(queue[s]) # 0
        BY <1>4, <2>1, EmptyFacts
      <4>2. Saves(s) => Len(queue'[s]) = Len(queue[s]) + 1
        BY <1>4, AppendFacts DEF Saves, Ops
      <4> QED
        BY <2>1, <4>1, <4>2
    <3>2. Cancels(s)
      BY <2>1, <3>1 DEF StoreEffect, Opens, Ends
    <3> QED
      BY <2>1, <3>2, StoreAgrees DEF Cancels, PersistenceInv, LastSaveAgrees
  <2> QED
    BY <1>1, <1>3, <2>1 DEF LastSaveAgrees, PersistenceInv
<1>6. QuietFileAgrees'
  <2>1. ASSUME sessions'[s] = "open", queue'[s] = <<>>, ~failed[s]
        PROVE  Loadable(s) /\ Agrees(file[s], s)'
    <3>1. ~Saves(s)
      BY <1>4, <2>1, AppendFacts DEF Saves, Ops
    <3>2. Cancels(s)
      BY <2>1, <3>1 DEF StoreEffect, Opens, Ends
    <3> QED
      BY <2>1, <3>2, StoreAgrees DEF Cancels, PersistenceInv, QuietFileAgrees
  <2> QED
    BY <1>1, <1>2, <1>3, <2>1 DEF QuietFileAgrees, PersistenceInv
<1>7. EndedLeavesNoFile'
  <2>1. sessions'[s] = "ended" => queue'[s] # <<>>
    BY <1>4, AppendFacts DEF StoreEffect, Opens, Saves, Cancels, Ends, Ops
  <2> QED
    BY <1>1, <1>2, <2>1 DEF EndedLeavesNoFile, PersistenceInv
<1>8. ResumableIsOpen'
  <2>1. resumable \subseteq Sessions
    BY DEF PersistenceInv, TypeOK
  <2> QED
    BY <1>1, <2>1 DEF StoreEffect, Registers, ResumableIsOpen, PersistenceInv
<1> QED
  BY <1>5, <1>6, <1>7, <1>8

-----------------------------------------------------------------------------
(* The queues keep the invariant                                           *)

\* The ways an operation ends: it empties the queue by one.
Removes(s) == queue'[s] = Tail(queue[s]) /\ writing'[s] = Idle

LEMMA FileFrame ==
    ASSUME PersistenceInv, NEW s \in Sessions, FileEffect(s)
    PROVE  /\ up /\ up' /\ sessions' = sessions /\ asked' = asked /\ status' = status
           /\ resumable' = resumable
           /\ \A t \in Sessions : Snapshot(t)' = Snapshot(t)
           /\ \A t \in Sessions \ {s} :
                /\ queue'[t] = queue[t] /\ writing'[t] = writing[t]
                /\ file'[t] = file[t] /\ failed'[t] = failed[t]
           /\ queue[s] \in Seq(Ops) /\ queue[s] # <<>>
           /\ Saving(s) /\ sessions[s] \notin {"unborn", "lost"}
<1>1. sessions[s] \notin {"unborn", "lost"} /\ queue[s] # <<>>
  BY DEF FileEffect, PersistenceInv, QueuesInOrder
<1>2. sessions[s] \in Phases /\ queue[s] \in Seq(Ops)
  BY DEF PersistenceInv, TypeOK, Phases, Ops
<1>3. Saving(s)
  BY <1>1, <1>2 DEF Saving, Phases
<1> QED
  BY <1>1, <1>2, <1>3 DEF FileEffect, memory, Snapshot

\* What the step does to the session's file and write.
Starting(s) == /\ queue[s][1] = "save" /\ writing[s] = Idle /\ writing'[s] = Snapshot(s)
               /\ queue'[s] = queue[s] /\ file'[s] = file[s]

Written(s) == /\ writing[s] # Idle /\ file'[s] = writing[s] /\ ~failed'[s] /\ Removes(s)

Failing(s) == /\ writing[s] # Idle /\ file'[s] \in {file[s], Torn} /\ failed'[s]
              /\ Removes(s)

Deleting(s) == /\ sessions[s] = "ended" /\ Removes(s) /\ writing[s] = Idle
               /\ \/ file'[s] = NoFile
                  \/ file'[s] = file[s] /\ failed'[s]

LEMMA FileCases ==
    ASSUME PersistenceInv, NEW s \in Sessions, FileEffect(s)
    PROVE  Starting(s) \/ Written(s) \/ Failing(s) \/ Deleting(s)
<1>1. queue[s][1] = "delete" => sessions[s] = "ended" /\ writing[s] = Idle
  <2>1. queue[s] \in Seq(Ops) /\ queue[s] # <<>>
    BY FileFrame
  <2>2. 1 \in 1..Len(queue[s])
    BY <2>1, TailFacts
  <2> QED
    BY <2>2 DEF PersistenceInv, QueuesInOrder
<1> QED
  BY <1>1 DEF FileEffect, Starting, Written, Failing, Deleting, Removes

LEMMA FileQueues ==
    ASSUME PersistenceInv, NEW s \in Sessions, FileEffect(s) PROVE QueuesInOrder'
<1>1. QueuesInOrder /\ queue[s] \in Seq(Ops) /\ queue[s] # <<>> /\ up'
      /\ sessions' = sessions /\ sessions[s] \notin {"unborn", "lost"}
  BY FileFrame DEF PersistenceInv
<1>2. InOrder(writing[s], queue[s], sessions[s] = "ended")
  BY <1>1, QueuesAreInOrder
<1>3. InOrder(writing'[s], queue'[s], sessions[s] = "ended")
  <2>1. CASE Starting(s)
    BY <1>1, <1>2, <2>1 DEF Starting, InOrder
  <2>2. CASE Removes(s)
    <3>1. InOrder(Idle, Tail(queue[s]), sessions[s] = "ended")
      BY <1>1, <1>2, InOrderTail
    <3> QED
      BY <2>2, <3>1 DEF Removes
  <2> QED
    BY <2>1, <2>2, FileCases DEF Written, Failing, Deleting
<1>4. \A t \in Sessions : InOrder(writing'[t], queue'[t], sessions'[t] = "ended")
  BY <1>1, <1>3, FileFrame, QueuesAreInOrder
<1>5. \A t \in Sessions : /\ sessions'[t] \in {"unborn", "lost"} => queue'[t] = <<>>
                          /\ sessions'[t] = "unborn" => file'[t] = NoFile
  BY <1>1, FileFrame, QueuesAreInOrder
<1> QED
  BY <1>1, <1>4, <1>5 DEF QueuesInOrder, InOrder

LEMMA FileQuestions ==
    ASSUME PersistenceInv, NEW s \in Sessions, FileEffect(s)
    PROVE  QuestionsHaveOneSession'
<1>1. \A q \in Questions : Snapshot(s)[q] # "unasked" => q \in asked[s]
  BY DEF Snapshot
<1>2. \A t \in Sessions, q \in Questions : Keeps(t, q)' => Keeps(t, q)
  <2>1. \A q \in Questions : Keeps(s, q)' => Keeps(s, q)
    <3>1. asked'[s] = asked[s]
      BY FileFrame
    <3> QED
      BY <1>1, <3>1, FileCases, FileFacts
         DEF Starting, Written, Failing, Deleting, Removes, Keeps, Loadable
  <2> QED
    BY <2>1, FileFrame DEF Keeps, Loadable
<1>3. status' = status
  BY FileFrame
<1> QED
  BY <1>2, <1>3 DEF PersistenceInv, QuestionsHaveOneSession

LEMMA FileWrites ==
    ASSUME PersistenceInv, NEW s \in Sessions, FileEffect(s) PROVE WritesAreKnown'
<1>1. ASSUME NEW t \in Sessions \ {s}
      PROVE  /\ Saving(t)' <=> Saving(t)
             /\ Loadable(t)' <=> Loadable(t)
             /\ Knows(t, file[t])' <=> Knows(t, file[t])
             /\ Knows(t, writing[t])' <=> Knows(t, writing[t])
             /\ file'[t] = file[t] /\ writing'[t] = writing[t]
  BY <1>1, FileFrame DEF Saving, Loadable, Knows
<1>2. Saving(s) /\ asked' = asked /\ status' = status
  BY FileFrame
<1>3. /\ Loadable(s) => Knows(s, file[s])
      /\ writing[s] # Idle => Knows(s, writing[s])
      /\ writing[s] # Idle /\ Loadable(s) =>
           \A q \in Questions : file[s][q] = "answered" => writing[s][q] = "answered"
  BY <1>2 DEF PersistenceInv, WritesAreKnown
<1>4. Knows(s, Snapshot(s))
  BY DEF Knows, Snapshot
<1>5. Loadable(s) => \A q \in Questions : file[s][q] = "answered" => Snapshot(s)[q] = "answered"
  BY <1>3 DEF Knows, Snapshot
<1>6. /\ Loadable(s)' => Knows(s, file[s])'
      /\ writing'[s] # Idle => Knows(s, writing[s])'
      /\ writing'[s] # Idle /\ Loadable(s)' =>
           \A q \in Questions : file'[s][q] = "answered" => writing'[s][q] = "answered"
  <2>1. CASE Starting(s)
    BY <1>2, <1>3, <1>4, <1>5, <2>1 DEF Starting, Knows, Loadable
  <2>2. CASE Written(s)
    BY <1>2, <1>3, <2>2 DEF Written, Removes, Knows
  <2>3. CASE Failing(s) \/ Deleting(s)
    BY <1>2, <1>3, <2>3 DEF Failing, Deleting, Removes, Knows, Loadable
  <2> QED
    BY <2>1, <2>2, <2>3, FileCases
<1> QED
  BY <1>1, <1>6 DEF PersistenceInv, WritesAreKnown

LEMMA FileFiles ==
    ASSUME PersistenceInv, NEW s \in Sessions, FileEffect(s)
    PROVE  LastSaveAgrees' /\ QuietFileAgrees' /\ EndedLeavesNoFile' /\ ResumableIsOpen'
<1>1. ASSUME NEW t \in Sessions
      PROVE  /\ file'[t] = file[t] => (Agrees(file[t], t)' <=> Agrees(file[t], t))
             /\ file'[t] = writing[t] => (Agrees(file[t], t)' <=> Agrees(writing[t], t))
             /\ writing'[t] = writing[t] => (Agrees(writing[t], t)' <=> Agrees(writing[t], t))
             /\ writing'[t] = Snapshot(t) => Agrees(writing[t], t)'
             /\ file'[t] = file[t] => (Loadable(t)' <=> Loadable(t))
  <2>1. Snapshot(t)' = Snapshot(t)
    BY FileFrame
  <2> QED
    BY <2>1 DEF Agrees, Loadable
<1>2. \A t \in Sessions \ {s} :
        queue'[t] = queue[t] /\ writing'[t] = writing[t] /\ file'[t] = file[t]
        /\ failed'[t] = failed[t]
  BY FileFrame
<1>3. sessions' = sessions /\ up' /\ up /\ resumable' = resumable
      /\ queue[s] \in Seq(Ops) /\ queue[s] # <<>>
  BY FileFrame
<1>4. Tail(queue[s]) = <<>> <=> Len(queue[s]) = 1
  BY <1>3, TailFacts
<1>5. LastSaveAgrees'
  <2>1. sessions[s] = "open" /\ Len(queue'[s]) = 1 /\ writing'[s] # Idle => Agrees(writing[s], s)'
    BY <1>1, FileCases DEF Starting, Written, Failing, Deleting, Removes
  <2> QED
    BY <1>1, <1>2, <1>3, <2>1 DEF LastSaveAgrees, PersistenceInv
<1>6. QuietFileAgrees'
  <2>1. ASSUME sessions[s] = "open", queue'[s] = <<>>, ~failed'[s]
        PROVE  Loadable(s)' /\ Agrees(file[s], s)'
    <3>1. Written(s) /\ Len(queue[s]) = 1
      BY <1>3, <1>4, <2>1, FileCases DEF Starting, Written, Failing, Deleting, Removes
    <3>2. Agrees(writing[s], s) /\ writing[s] \in Snapshots
      BY <2>1, <3>1 DEF Written, PersistenceInv, LastSaveAgrees, TypeOK
    <3> QED
      BY <1>1, <3>1, <3>2, FileFacts DEF Written, Loadable
  <2> QED
    BY <1>1, <1>2, <1>3, <2>1 DEF QuietFileAgrees, PersistenceInv
<1>7. EndedLeavesNoFile'
  <2>1. ASSUME sessions[s] = "ended", queue'[s] = <<>>, ~failed'[s]
        PROVE  ~Loadable(s)'
    <3>1. ~Starting(s) /\ ~Failing(s)
      BY <1>3, <2>1 DEF Starting, Failing
    <3>2. ~Written(s)
      <4>1. SUFFICES ASSUME Written(s) PROVE FALSE
        OBVIOUS
      <4>2. Len(queue[s]) = 1 /\ queue[s][1] = "save"
        BY <1>4, <2>1, <4>1 DEF Written, Removes, PersistenceInv, QueuesInOrder
      <4>3. queue[s][1] = "delete"
        BY <2>1, <4>2 DEF PersistenceInv, QueuesInOrder
      <4> QED
        BY <4>2, <4>3
    <3>3. Deleting(s)
      BY <3>1, <3>2, FileCases
    <3> QED
      BY <2>1, <3>3 DEF Deleting, Loadable
  <2> QED
    BY <1>1, <1>2, <1>3, <2>1 DEF EndedLeavesNoFile, PersistenceInv
<1>8. ResumableIsOpen'
  BY <1>3 DEF ResumableIsOpen, PersistenceInv
<1> QED
  BY <1>5, <1>6, <1>7, <1>8

-----------------------------------------------------------------------------
(* Crashes and start-ups keep the invariant                                *)

LEMMA CrashStays ==
    ASSUME PersistenceInv, CrashEffect
    PROVE  /\ QueuesInOrder' /\ QuestionsHaveOneSession' /\ WritesAreKnown'
           /\ LastSaveAgrees' /\ QuietFileAgrees' /\ EndedLeavesNoFile' /\ ResumableIsOpen'
<1>1. \A s \in Sessions :
        /\ sessions'[s] \in {"unborn", "ended", "lost"}
        /\ sessions'[s] = "unborn" => sessions[s] = "unborn"
        /\ asked'[s] = {} /\ queue'[s] = <<>> /\ writing'[s] = Idle
  BY DEF CrashEffect, PersistenceInv, TypeOK
<1>2. ~up' /\ resumable' = {} /\ status' = status
  BY DEF CrashEffect
<1>3. ASSUME NEW s \in Sessions
      PROVE  \/ file'[s] = file[s]
             \/ writing[s] # Idle /\ file'[s] \in {writing[s], Torn}
  BY DEF CrashEffect
<1>4. QueuesInOrder'
  <2>1. \A s \in Sessions : sessions'[s] = "unborn" => file'[s] = NoFile
    BY <1>1, <1>3 DEF PersistenceInv, QueuesInOrder
  <2>2. Len(<<>>) = 0
    OBVIOUS
  <2> QED
    BY <1>1, <1>2, <2>1, <2>2 DEF QueuesInOrder
<1>5. QuestionsHaveOneSession'
  <2>1. \A s \in Sessions, q \in Questions : Keeps(s, q)' => Keeps(s, q)
    BY <1>1, <1>3, FileFacts DEF Keeps, Loadable
  <2> QED
    BY <1>2, <2>1 DEF PersistenceInv, QuestionsHaveOneSession
<1>6. WritesAreKnown'
  BY <1>1 DEF WritesAreKnown, Saving
<1>7. LastSaveAgrees' /\ QuietFileAgrees'
  BY <1>1 DEF LastSaveAgrees, QuietFileAgrees
<1>8. EndedLeavesNoFile' /\ ResumableIsOpen'
  BY <1>2 DEF EndedLeavesNoFile, ResumableIsOpen
<1> QED
  BY <1>4, <1>5, <1>6, <1>7, <1>8

LEMMA StartStays ==
    ASSUME PersistenceInv, StartEffect
    PROVE  /\ QueuesInOrder' /\ QuestionsHaveOneSession' /\ WritesAreKnown'
           /\ LastSaveAgrees' /\ QuietFileAgrees' /\ EndedLeavesNoFile' /\ ResumableIsOpen'
<1> DEFINE Back(s) == /\ Loadable(s) /\ file'[s] = file[s] /\ sessions'[s] = "open"
                      /\ asked'[s] = InFile(s)
                      /\ \A q \in InFile(s) : status'[q] = file[s][q]
           Gone(s) == /\ file'[s] \in {NoFile, Torn} /\ sessions'[s] = sessions[s]
                      /\ file[s] = NoFile => file'[s] = NoFile
                      /\ asked'[s] = {}
<1>1. ~up /\ up' /\ UNCHANGED <<resumable, queue, writing, failed>>
  BY DEF StartEffect
<1>2. \A s \in Sessions : Back(s) \/ Gone(s)
  BY DEF StartEffect
<1>3. \A s \in Sessions :
        queue[s] = <<>> /\ writing[s] = Idle /\ sessions[s] \notin {"opening", "open"}
  BY <1>1 DEF PersistenceInv, QueuesInOrder
<1>4. \A s \in Sessions : Loadable(s)' => Back(s)
  BY <1>2 DEF Loadable
<1>5. \A s \in Sessions : sessions'[s] \in {"opening", "open"} => Back(s)
  BY <1>2, <1>3
<1>6. \A s \in Sessions : Back(s) => Knows(s, file[s])' /\ Agrees(file[s], s)' /\ Loadable(s)'
  <2>1. ASSUME NEW s \in Sessions, Back(s)
        PROVE  Knows(s, file[s])' /\ Agrees(file[s], s)' /\ Loadable(s)'
    <3>1. \A q \in Questions :
            IF file[s][q] # "unasked" THEN q \in asked'[s] /\ status'[q] = file[s][q]
                                      ELSE q \notin asked'[s]
      BY <2>1 DEF InFile
    <3>2. file'[s] = file[s] /\ Loadable(s)'
      BY <2>1 DEF Loadable
    <3>3. Knows(s, file[s])'
      BY <3>1, <3>2 DEF Knows
    <3>4. Agrees(file[s], s)'
      BY <3>1, <3>2 DEF Agrees, Snapshot
    <3> QED
      BY <3>2, <3>3, <3>4
  <2> QED
    BY <2>1
<1>7. QueuesInOrder'
  <2>1. \A s \in Sessions : sessions'[s] = "unborn" => file'[s] = NoFile
    BY <1>2 DEF PersistenceInv, QueuesInOrder
  <2>2. Len(<<>>) = 0
    OBVIOUS
  <2> QED
    BY <1>1, <1>3, <2>1, <2>2 DEF QueuesInOrder
<1>8. QuestionsHaveOneSession'
  <2>1. \A s \in Sessions, q \in Questions : Keeps(s, q)' => Keeps(s, q)
    BY <1>1, <1>2, <1>3 DEF Keeps, Loadable, InFile
  <2>2. \A q \in Questions : status[q] # "unasked" => status'[q] # "unasked"
    BY DEF StartEffect, InFile
  <2> QED
    BY <2>1, <2>2 DEF PersistenceInv, QuestionsHaveOneSession
<1>9. WritesAreKnown'
  BY <1>1, <1>3, <1>4, <1>6 DEF WritesAreKnown
<1>10. LastSaveAgrees' /\ QuietFileAgrees'
  BY <1>1, <1>3, <1>5, <1>6 DEF LastSaveAgrees, QuietFileAgrees
<1>11. EndedLeavesNoFile'
  BY <1>4 DEF EndedLeavesNoFile
<1>12. ResumableIsOpen'
  BY <1>1 DEF PersistenceInv, ResumableIsOpen
<1> QED
  BY <1>7, <1>8, <1>9, <1>10, <1>11, <1>12

-----------------------------------------------------------------------------
(* Theorems                                                                *)

LEMMA PersistenceInit == Init => PersistenceInv
<1> SUFFICES ASSUME Init PROVE PersistenceInv
  OBVIOUS
<1>1. \A s \in Sessions : /\ sessions[s] = "unborn" /\ queue[s] = <<>> /\ asked[s] = {}
                          /\ writing[s] = Idle /\ file[s] = NoFile
  BY DEF Init
<1>2. up /\ resumable = {}
  BY DEF Init
<1>3. Len(<<>>) = 0
  OBVIOUS
<1>4. QueuesInOrder
  BY <1>1, <1>2, <1>3 DEF QueuesInOrder
<1>5. QuestionsHaveOneSession /\ WritesAreKnown /\ LastSaveAgrees
  BY <1>1 DEF QuestionsHaveOneSession, WritesAreKnown, LastSaveAgrees, Keeps, Loadable, Saving
<1>6. QuietFileAgrees /\ MemoryNotBehindFile /\ EndedLeavesNoFile /\ ResumableIsOpen
  BY <1>1, <1>2 DEF QuietFileAgrees, MemoryNotBehindFile, EndedLeavesNoFile, ResumableIsOpen
<1> QED
  BY <1>4, <1>5, <1>6, TypeInit DEF PersistenceInv

LEMMA PersistenceStep == PersistenceInv /\ [Next]_vars => PersistenceInv'
<1> SUFFICES ASSUME PersistenceInv, [Next]_vars PROVE PersistenceInv'
  OBVIOUS
<1>1. TypeOK /\ ResumableIsOpen /\ QueuesInOrder /\ QuestionsHaveOneSession
  BY DEF PersistenceInv
<1> DEFINE Rest == /\ QueuesInOrder /\ QuestionsHaveOneSession /\ WritesAreKnown
                   /\ LastSaveAgrees /\ QuietFileAgrees /\ EndedLeavesNoFile
                   /\ ResumableIsOpen
<1>2. ASSUME NEW s \in Sessions, StoreStep(s) PROVE TypeOK' /\ Rest'
  <2>1. StoreEffect(s)
    BY <1>1, <1>2, StoreSteps
  <2> QED
    BY <1>1, <1>2, <2>1, StoreType, StoreQueues, StoreQuestions, StoreWrites, StoreFiles
<1>3. ASSUME NEW s \in Sessions, FileStep(s) PROVE TypeOK' /\ Rest'
  <2>1. FileEffect(s)
    BY <1>1, <1>3, FileSteps
  <2> QED
    BY <1>1, <1>3, <2>1, FileType, FileQueues, FileQuestions, FileWrites, FileFiles
<1>4. ASSUME Crash PROVE TypeOK' /\ Rest'
  BY <1>1, <1>4, CrashType, CrashSteps, CrashStays
<1>5. ASSUME Starts PROVE TypeOK' /\ Rest'
  BY <1>1, <1>5, RestartType, StartSteps, StartStays
<1>6. ASSUME UNCHANGED vars PROVE TypeOK' /\ Rest'
  <2>1. TypeOK'
    BY <1>1, <1>6 DEF vars, TypeOK
  <2>2. QueuesInOrder' /\ ResumableIsOpen' /\ EndedLeavesNoFile'
    BY <1>6 DEF vars, PersistenceInv, QueuesInOrder, ResumableIsOpen, EndedLeavesNoFile,
                Loadable
  <2>3. QuestionsHaveOneSession' /\ WritesAreKnown'
    BY <1>6 DEF vars, PersistenceInv, QuestionsHaveOneSession, WritesAreKnown, Keeps,
                Knows, Saving, Loadable
  <2>4. LastSaveAgrees' /\ QuietFileAgrees'
    BY <1>6 DEF vars, PersistenceInv, LastSaveAgrees, QuietFileAgrees, Agrees, Snapshot,
                Loadable
  <2> QED
    BY <2>1, <2>2, <2>3, <2>4
<1>7. TypeOK' /\ Rest'
  BY <1>2, <1>3, <1>4, <1>5, <1>6, NextSteps
<1>8. MemoryNotBehindFile'
  BY <1>7 DEF WritesAreKnown, Saving, MemoryNotBehindFile
<1> QED
  BY <1>7, <1>8 DEF PersistenceInv

\* The files of octto sessions and what the store has in memory agree as far
\* as the queue of file operations allows, through crashes, restarts and
\* failed writes (src/octto/persistence).
THEOREM FilesFollowMemory == Spec => []PersistenceInv
  BY PersistenceInit, PersistenceStep, PTL DEF Spec

LEMMA AnswersStep ==
    ASSUME PersistenceInv, Next, NEW s \in Sessions, NEW q \in Questions,
           Loadable(s), file[s][q] = "answered"
    PROVE  file'[s] \in {NoFile, Torn} \/ file'[s][q] = "answered"
<1>1. TypeOK /\ ResumableIsOpen /\ QueuesInOrder /\ QuestionsHaveOneSession /\ WritesAreKnown
  BY DEF PersistenceInv
<1>2. writing[s] # Idle => writing[s][q] = "answered"
  BY <1>1 DEF WritesAreKnown
<1>3. ASSUME NEW t \in Sessions, StoreStep(t) PROVE file' = file
  BY <1>1, <1>3, StoreSteps DEF StoreEffect, OthersStay
<1>4. ASSUME NEW t \in Sessions, FileStep(t)
      PROVE  \/ file'[s] \in {file[s], NoFile, Torn}
             \/ writing[s] # Idle /\ file'[s] = writing[s]
  BY <1>1, <1>4, FileSteps DEF FileEffect
<1>5. CASE Crash
  BY <1>2, <1>5, CrashSteps DEF CrashEffect
<1>6. CASE Starts
  BY <1>1, <1>6, StartSteps DEF StartEffect
<1> QED
  BY <1>2, <1>3, <1>4, <1>5, <1>6, NextSteps

\* A file that holds an answer is never replaced by one without it, however
\* saves, crashes and restarts interleave (src/octto/persistence/store.ts).
THEOREM AnswersSurvive == Spec => FileKeepsAnswers
<1>1. PersistenceInv /\ [Next]_vars =>
        [\A s \in Sessions, q \in Questions :
            Loadable(s) /\ file[s][q] = "answered" =>
                file'[s] \in {NoFile, Torn} \/ file'[s][q] = "answered"]_vars
  BY AnswersStep
<1> QED
  BY <1>1, FilesFollowMemory, PTL DEF Spec, FileKeepsAnswers
=============================================================================
