-------------------------- MODULE OcttoPersistence --------------------------
(***************************************************************************)
(* Octto sessions on disk and across restarts: the persistence listener of *)
(* src/octto/persistence/listener.ts with its queue per session, the files *)
(* of store.ts, the start-up pass of reconcile.ts, and the listeners that  *)
(* src/index.ts attaches to the session store.                             *)
(*                                                                         *)
(* The session store is reduced to what its listeners see: which questions *)
(* a session has and their status (OcttoSessions has the rest).  A save    *)
(* runs in two steps, because Bun.write is asynchronous and not atomic:    *)
(* the snapshot is taken when the operation starts, and a process that     *)
(* dies before it ends leaves the old file, the new one, or a torn one.    *)
(***************************************************************************)
EXTENDS Naturals, Sequences, FiniteSets

CONSTANTS
    Sessions,   \* octto session ids
    Questions,  \* question ids
    Idle,       \* no save of the session is running
    NoFile,     \* the session has no file
    Torn        \* the file is cut short: load() returns null

ASSUME FileAssumption ==
    LET Snapshot == [Questions -> {"unasked", "pending", "answered", "cancelled"}]
    IN NoFile # Torn /\ {Idle, NoFile, Torn} \cap Snapshot = {}

VARIABLES
    up,        \* the plugin process runs and has started
    server,    \* this process has started the shared HTTP server
    sessions,  \* phase of each session id
    asked,     \* the questions of each session in memory
    status,    \* status of each question, as last known in memory
    resumable, \* sessions the auto-resume registry knows
    queue,     \* operations queued per session, the running one first
    writing,   \* the snapshot a running save writes
    file,      \* <session id>.json
    failed     \* the session's last finished operation failed

vars == <<up, server, sessions, asked, status, resumable, queue,
          writing, file, failed>>
memory == <<up, server, sessions, asked, status, resumable>>

Statuses == {"unasked", "pending", "answered", "cancelled"}
\* What toPersisted writes of a session: the status of its questions.
Snapshots == [Questions -> Statuses]

TypeOK ==
    /\ up \in BOOLEAN /\ server \in BOOLEAN
    /\ sessions \in [Sessions -> {"unborn", "opening", "open", "ended", "lost"}]
    /\ asked \in [Sessions -> SUBSET Questions]
    /\ status \in [Questions -> Statuses]
    /\ resumable \subseteq Sessions
    /\ queue \in [Sessions -> Seq({"save", "delete"})]
    /\ writing \in [Sessions -> Snapshots \cup {Idle}]
    /\ file \in [Sessions -> Snapshots \cup {NoFile, Torn}]
    /\ failed \in [Sessions -> BOOLEAN]

Init ==
    /\ up = TRUE /\ server = FALSE
    /\ sessions = [s \in Sessions |-> "unborn"]
    /\ asked = [s \in Sessions |-> {}]
    /\ status = [q \in Questions |-> "unasked"]
    /\ resumable = {}
    /\ queue = [s \in Sessions |-> <<>>]
    /\ writing = [s \in Sessions |-> Idle]
    /\ file = [s \in Sessions |-> NoFile]
    /\ failed = [s \in Sessions |-> FALSE]

Enqueue(s, op) == queue' = [queue EXCEPT ![s] = Append(@, op)]

Snapshot(s) ==
    [q \in Questions |-> IF q \in asked[s] THEN status[q] ELSE "unasked"]

Loadable(s) == file[s] \notin {NoFile, Torn}

-----------------------------------------------------------------------------
(* The session store and its listeners                                     *)

\* initSession up to the await of the browser command; the server is started
\* here and nowhere else.
StartSession(s, initial) ==
    /\ up /\ sessions[s] = "unborn"
    /\ \A q \in initial : status[q] = "unasked"
    /\ server' = TRUE
    /\ sessions' = [sessions EXCEPT ![s] = "opening"]
    /\ asked' = [asked EXCEPT ![s] = initial]
    /\ status' = [q \in Questions |-> IF q \in initial THEN "pending" ELSE status[q]]
    /\ UNCHANGED <<up, resumable, queue, writing, file, failed>>

\* The browser command returns: onSessionStarted saves, start_session returns
\* and the tracker registers the owner, before any other callback runs.
SessionStarted(s) ==
    /\ up /\ sessions[s] = "opening"
    /\ sessions' = [sessions EXCEPT ![s] = "open"]
    /\ resumable' = resumable \cup {s}
    /\ Enqueue(s, "save")
    /\ UNCHANGED <<up, server, asked, status, writing, file, failed>>

PushQuestion(s, q) ==
    /\ up /\ sessions[s] = "open" /\ status[q] = "unasked"
    /\ asked' = [asked EXCEPT ![s] = @ \cup {q}]
    /\ status' = [status EXCEPT ![q] = "pending"]
    /\ Enqueue(s, "save")
    /\ UNCHANGED <<up, server, sessions, resumable, writing, file, failed>>

\* Mutant of QuestionAnswered: the answer is not saved.
AnsweredUnsaved(s, q) ==
    /\ up /\ server /\ sessions[s] \in {"opening", "open"}
    /\ q \in asked[s] /\ status[q] = "pending"
    /\ status' = [status EXCEPT ![q] = "answered"]
    /\ UNCHANGED <<up, server, sessions, asked, resumable, queue, writing, file,
                   failed>>

\* onWsMessage accepts an answer; the listeners save the session and, when
\* the registry knows its owner, raise an auto-resume event, which is where
\* OcttoAutoResume begins.
QuestionAnswered(s, q) ==
    /\ up /\ server /\ sessions[s] \in {"opening", "open"}
    /\ q \in asked[s] /\ status[q] = "pending"
    /\ status' = [status EXCEPT ![q] = "answered"]
    /\ Enqueue(s, "save")
    /\ UNCHANGED <<up, server, sessions, asked, resumable, writing, file, failed>>

\* cancelPendingQuestion has no listener: nothing is saved.
CancelQuestion(s, q) ==
    /\ up /\ sessions[s] = "open"
    /\ q \in asked[s] /\ status[q] = "pending"
    /\ status' = [status EXCEPT ![q] = "cancelled"]
    /\ UNCHANGED <<up, server, sessions, asked, resumable, queue,
                   writing, file, failed>>

EndSession(s) ==
    /\ up /\ sessions[s] = "open"
    /\ sessions' = [sessions EXCEPT ![s] = "ended"]
    /\ resumable' = resumable \ {s}
    /\ Enqueue(s, "delete")
    /\ UNCHANGED <<up, server, asked, status, writing, file, failed>>

-----------------------------------------------------------------------------
(* The queue of file operations                                            *)

\* saveSession starts: toPersisted reads the session as it is now.
SaveStarts(s) ==
    /\ up /\ queue[s] # <<>> /\ Head(queue[s]) = "save" /\ writing[s] = Idle
    /\ writing' = [writing EXCEPT ![s] = Snapshot(s)]
    /\ UNCHANGED <<memory, queue, file, failed>>

SaveEnds(s) ==
    /\ up /\ writing[s] # Idle
    /\ file' = [file EXCEPT ![s] = writing[s]]
    /\ writing' = [writing EXCEPT ![s] = Idle]
    /\ queue' = [queue EXCEPT ![s] = Tail(@)]
    /\ failed' = [failed EXCEPT ![s] = FALSE]
    /\ UNCHANGED memory

\* Mutant of SaveFails: a rejected operation is never followed by the next.
SaveFailsStuck(s) ==
    /\ up /\ writing[s] # Idle
    /\ writing' = [writing EXCEPT ![s] = Idle]
    /\ queue' = [queue EXCEPT ![s] = <<"rejected">> \o Tail(@)]
    /\ failed' = [failed EXCEPT ![s] = TRUE]
    /\ UNCHANGED <<memory, file>>

\* Bun.write rejects, possibly after truncating the file; saveSession logs it
\* and the queue goes on.
SaveFails(s) ==
    /\ up /\ writing[s] # Idle
    /\ file' \in {file, [file EXCEPT ![s] = Torn]}
    /\ writing' = [writing EXCEPT ![s] = Idle]
    /\ queue' = [queue EXCEPT ![s] = Tail(@)]
    /\ failed' = [failed EXCEPT ![s] = TRUE]
    /\ UNCHANGED memory

\* Mutant of DeleteRuns: onSessionEnded deletes at once, not in the queue.
DeleteRunsUnqueued(s) ==
    /\ up /\ queue[s] # <<>> /\ queue[s][Len(queue[s])] = "delete"
    /\ file' = [file EXCEPT ![s] = NoFile]
    /\ queue' = [queue EXCEPT ![s] = SubSeq(@, 1, Len(@) - 1)]
    /\ failed' = [failed EXCEPT ![s] = FALSE]
    /\ UNCHANGED <<memory, writing>>

\* deleteSession: rmSync removes the file in one step, or throws.
DeleteRuns(s) ==
    /\ up /\ queue[s] # <<>> /\ Head(queue[s]) = "delete"
    /\ \/ file' = [file EXCEPT ![s] = NoFile] /\ failed' = [failed EXCEPT ![s] = FALSE]
       \/ UNCHANGED file /\ failed' = [failed EXCEPT ![s] = TRUE]
    /\ queue' = [queue EXCEPT ![s] = Tail(@)]
    /\ UNCHANGED <<memory, writing>>

-----------------------------------------------------------------------------
(* Crash and start-up                                                      *)

\* The process dies: memory and queues are gone, and the file a save was
\* writing is as before, complete, or torn.
Crash ==
    /\ up
    /\ up' = FALSE /\ server' = FALSE
    /\ sessions' = [s \in Sessions |->
            IF sessions[s] \in {"opening", "open"} THEN "lost" ELSE sessions[s]]
    /\ asked' = [s \in Sessions |-> {}]
    /\ resumable' = {}
    /\ \E torn, done \in SUBSET {s \in Sessions : writing[s] # Idle} :
        /\ torn \cap done = {}
        /\ file' = [s \in Sessions |-> IF s \in torn THEN Torn
                                       ELSE IF s \in done THEN writing[s]
                                       ELSE file[s]]
    /\ queue' = [s \in Sessions |-> <<>>]
    /\ writing' = [s \in Sessions |-> Idle]
    /\ failed' = [s \in Sessions |-> FALSE]
    /\ UNCHANGED status

InFile(s) == {q \in Questions : file[s][q] # "unasked"}

\* Mutant of Restore: questions come back as they were asked.
RestorePending(loaded) ==
    /\ sessions' = [s \in Sessions |-> IF s \in loaded THEN "open" ELSE sessions[s]]
    /\ asked' = [s \in Sessions |-> IF s \in loaded THEN InFile(s) ELSE {}]
    /\ status' = [q \in Questions |->
            IF \E s \in loaded : q \in InFile(s) THEN "pending" ELSE status[q]]

\* restoreSession for the sessions of the files in loaded.
Restore(loaded) ==
    /\ sessions' = [s \in Sessions |-> IF s \in loaded THEN "open" ELSE sessions[s]]
    /\ asked' = [s \in Sessions |-> IF s \in loaded THEN InFile(s) ELSE {}]
    /\ status' = [q \in Questions |->
            IF \E s \in loaded : q \in InFile(s)
            THEN file[CHOOSE s \in loaded : q \in InFile(s)][q] ELSE status[q]]

\* reconcilePersistedSessions, which ends before any tool can be called: files
\* older than the TTL are deleted, torn ones skipped, the others injected.
\* Nothing is registered for auto-resume and no server is started.
Restart(expired) ==
    /\ ~up
    /\ up' = TRUE
    /\ Restore({s \in Sessions \ expired : Loadable(s)})
    /\ file' = [s \in Sessions |-> IF s \in expired THEN NoFile ELSE file[s]]
    /\ UNCHANGED <<server, resumable, queue, writing, failed>>

Next ==
    \/ \E s \in Sessions :
        \/ \E initial \in SUBSET Questions : StartSession(s, initial)
        \/ SessionStarted(s)
        \/ EndSession(s)
        \/ SaveStarts(s)
        \/ SaveEnds(s)
        \/ SaveFails(s)
        \/ DeleteRuns(s)
    \/ \E s \in Sessions, q \in Questions :
        PushQuestion(s, q) \/ QuestionAnswered(s, q) \/ CancelQuestion(s, q)
    \/ Crash
    \/ \E expired \in SUBSET {s \in Sessions : Loadable(s)} : Restart(expired)

\* While the process runs, a promise chain runs its operations and a write
\* ends one way or the other.
Fairness ==
    \A s \in Sessions :
        WF_vars(SaveStarts(s) \/ SaveEnds(s) \/ SaveFails(s) \/ DeleteRuns(s))

Spec == Init /\ [][Next]_vars
FairSpec == Spec /\ Fairness

-----------------------------------------------------------------------------
(* Properties                                                              *)

\* A snapshot agrees with the session but for a cancellation, which reaches
\* the file only when a later event saves the session.
Agrees(snapshot, s) ==
    \A q \in Questions :
        \/ snapshot[q] = Snapshot(s)[q]
        \/ Snapshot(s)[q] = "cancelled" /\ snapshot[q] = "pending"

\* Once its queue is empty and nothing failed, an open session's file holds
\* every question with its status: no event between a snapshot and the end of
\* its write is forgotten.
QuietFileAgrees ==
    \A s \in Sessions :
        sessions[s] = "open" /\ queue[s] = <<>> /\ ~failed[s] =>
            Loadable(s) /\ Agrees(file[s], s)

\* What a snapshot says was asked, answered or cancelled is known in memory.
Knows(s, snapshot) ==
    \A q \in Questions :
        /\ snapshot[q] # "unasked" => q \in asked[s]
        /\ snapshot[q] \in {"answered", "cancelled"} => status[q] = snapshot[q]

\* Memory is never behind the file: whatever a file says was asked, answered
\* or cancelled, the running process knows, also after restarts.
MemoryNotBehindFile ==
    \A s \in Sessions :
        sessions[s] = "open" /\ Loadable(s) => Knows(s, file[s])

\* A session that ended cannot come back: once its queue is empty and nothing
\* failed, no save that was queued or running has left a file to load.
EndedLeavesNoFile ==
    \A s \in Sessions :
        up /\ sessions[s] = "ended" /\ queue[s] = <<>> /\ ~failed[s]
            => ~Loadable(s)

\* A file that holds an answer is never replaced by one that does not, however
\* saves, crashes and restarts interleave: it can only be torn or deleted.
FileKeepsAnswers ==
    [][\A s \in Sessions, q \in Questions :
        Loadable(s) /\ file[s][q] = "answered" =>
            file'[s] \in {NoFile, Torn} \/ file'[s][q] = "answered"]_vars

\* Queued saves and deletes are carried out, or the process dies: a failed
\* one does not hold up those behind it.
QueuesDrain == \A s \in Sessions : queue[s] # <<>> ~> queue[s] = <<>>

\* The auto-resume registry names sessions that are open in this process: no
\* answer resumes the owner of one that ended or that only the file recalls.
ResumableIsOpen == \A s \in resumable : up /\ sessions[s] = "open"

\* A delete is the last operation of a session that ended, a running write
\* belongs to a save at the head of its queue, and a dead process runs nothing.
QueuesInOrder ==
    /\ \A s \in Sessions :
        /\ writing[s] # Idle => queue[s] # <<>> /\ queue[s][1] = "save"
        /\ \A i \in 1..Len(queue[s]) :
             queue[s][i] = "delete" <=> i = Len(queue[s]) /\ sessions[s] = "ended"
        /\ sessions[s] \in {"unborn", "lost"} => queue[s] = <<>>
        /\ sessions[s] = "unborn" => file[s] = NoFile
    /\ ~up => \A s \in Sessions :
                queue[s] = <<>> /\ sessions[s] \notin {"opening", "open"}

\* Where a question is kept.
Keeps(s, q) ==
    \/ q \in asked[s]
    \/ Loadable(s) /\ file[s][q] # "unasked"
    \/ writing[s] # Idle /\ writing[s][q] # "unasked"

\* A question belongs to one session, in memory, in files and in writes.
QuestionsHaveOneSession ==
    \A q \in Questions, s \in Sessions :
        Keeps(s, q) => /\ status[q] # "unasked"
                       /\ \A t \in Sessions : Keeps(t, q) => s = t

\* Memory is not behind what is on disk or on its way there, as long as an
\* operation can still write it, and no write takes an answer back.
Saving(s) == \/ sessions[s] \in {"opening", "open"}
             \/ sessions[s] = "ended" /\ queue[s] # <<>>

WritesAreKnown ==
    \A s \in Sessions :
        /\ Saving(s) => /\ Loadable(s) => Knows(s, file[s])
                        /\ writing[s] # Idle => Knows(s, writing[s])
        /\ writing[s] # Idle /\ Loadable(s) =>
             \A q \in Questions : file[s][q] = "answered" => writing[s][q] = "answered"

\* The last save in the queue of an open session writes it as it is.
LastSaveAgrees ==
    \A s \in Sessions :
        sessions[s] = "open" /\ Len(queue[s]) = 1 /\ writing[s] # Idle =>
            Agrees(writing[s], s)

\* The file and the memory of every session agree as far as the queue of file
\* operations allows (src/octto/persistence).
PersistenceInv ==
    /\ TypeOK
    /\ QuietFileAgrees
    /\ MemoryNotBehindFile
    /\ EndedLeavesNoFile
    /\ ResumableIsOpen
    /\ QueuesInOrder
    /\ QuestionsHaveOneSession
    /\ WritesAreKnown
    /\ LastSaveAgrees
=============================================================================
