-------------------------- MODULE SessionRecovery --------------------------
(***************************************************************************)
(* src/hooks/session-recovery.ts for one session: the recoveries of errors *)
(* that abort and resume the session, and the bounded retries of upstream  *)
(* errors, which only prompt it again after an interval.                   *)
(*                                                                         *)
(* A failed turn is reported twice, by session.error and by                *)
(* message.updated, and the reports can come late.                         *)
(***************************************************************************)
EXTENDS Naturals, FiniteSets

CONSTANTS
    ErrorTypes,   \* the recoverable error types
    Recoveries,   \* concurrent calls of attemptRecovery
    MaxScheduled, \* WORKFLOW_CONTINUATION_RETRY_POLICY.maxAttempts, 20
    MaxRecovery,  \* MAX_RECOVERY_ATTEMPTS, 3
    MaxTurns      \* bound on failed turns

ASSUME RecoveryAssumption ==
    /\ {MaxScheduled, MaxRecovery, MaxTurns} \subseteq Nat
    /\ "upstream" \notin ErrorTypes

Errors == ErrorTypes \cup {"upstream"}

VARIABLES
    turn,      \* what the session does: a turn runs, has failed or was stopped
    reports,   \* reports of failures the hook has not handled yet
    failed,    \* failures so far (bounded)
    exists,    \* session.deleted has not come
    seen,      \* processingErrors
    expiries,  \* armed timers that end a deduplication
    tries,     \* recoveryAttempts
    scheduled, \* upstreamScheduledAttempts
    locked,    \* the processing lock of the upstream key
    armed,     \* upstreamTimers: how many
    recovery,  \* where each recovery is: its error type and await
    resumed,   \* ghost: prompts sent to the living session, per error
    refused    \* ghost: the host did not accept a prompt

recoveryVars == <<turn, reports, failed, exists, seen, expiries, tries,
                  scheduled, locked, armed, recovery, resumed, refused>>

Turns == {"running", "stopped", "failed", "failed_upstream"}
NoRecovery == [at |-> "none", type |-> "upstream"]

RecoveryTypeOK ==
    /\ turn \in Turns /\ exists \in BOOLEAN /\ locked \in BOOLEAN
    /\ reports \in [Errors -> 0..(2 * MaxTurns)] /\ failed \in 0..MaxTurns
    /\ seen \subseteq ErrorTypes
    /\ expiries \in [ErrorTypes -> Nat]
    /\ tries \in [ErrorTypes -> 0..MaxRecovery]
    /\ scheduled \in 0..MaxScheduled /\ armed \in Nat
    /\ recovery \in [Recoveries ->
            [at : {"none", "aborting", "settling", "reading"}, type : Errors]]
    /\ \A r \in Recoveries : recovery[r].at # "none" => recovery[r].type \in ErrorTypes
    /\ resumed \in [Errors -> Nat] /\ refused \in BOOLEAN

RecoveryInit ==
    /\ turn = "running" /\ failed = 0 /\ exists = TRUE
    /\ reports = [x \in Errors |-> 0]
    /\ seen = {} /\ expiries = [k \in ErrorTypes |-> 0]
    /\ tries = [k \in ErrorTypes |-> 0]
    /\ scheduled = 0 /\ locked = FALSE /\ armed = 0
    /\ recovery = [r \in Recoveries |-> NoRecovery]
    /\ resumed = [x \in Errors |-> 0] /\ refused = FALSE

-----------------------------------------------------------------------------
(* The session                                                             *)

TurnFails(x) ==
    /\ exists /\ turn = "running" /\ failed < MaxTurns
    /\ failed' = failed + 1
    /\ turn' = IF x = "upstream" THEN "failed_upstream" ELSE "failed"
    /\ reports' = [reports EXCEPT ![x] = @ + 2]
    /\ UNCHANGED <<exists, seen, expiries, tries, scheduled, locked, armed,
                   recovery, resumed, refused>>

Reported(x) ==
    /\ reports[x] > 0
    /\ reports' = [reports EXCEPT ![x] = @ - 1]

\* session.prompt, whose failure is swallowed.
Prompted(x) ==
    \/ /\ exists
       /\ turn' = "running" /\ resumed' = [resumed EXCEPT ![x] = @ + 1]
       /\ UNCHANGED refused
    \/ refused' = TRUE /\ UNCHANGED <<turn, resumed>>

-----------------------------------------------------------------------------
(* Upstream errors                                                         *)

\* Mutant of UpstreamReported: attempts are counted, not bounded.
UpstreamReportedUnbounded ==
    /\ Reported("upstream")
    /\ IF locked
       THEN UNCHANGED <<scheduled, locked, armed>>
       ELSE /\ scheduled' = scheduled + 1
            /\ locked' = TRUE /\ armed' = armed + 1
    /\ UNCHANGED <<turn, failed, exists, seen, expiries, tries, recovery,
                   resumed, refused>>

\* handleUpstreamRecoverable: a report that meets the lock, or a count at its
\* maximum, changes nothing; any other arms a timer under the lock.
UpstreamReported ==
    /\ Reported("upstream")
    /\ IF locked \/ scheduled >= MaxScheduled
       THEN UNCHANGED <<scheduled, locked, armed>>
       ELSE /\ scheduled' = scheduled + 1
            /\ locked' = TRUE /\ armed' = armed + 1
    /\ UNCHANGED <<turn, failed, exists, seen, expiries, tries, recovery,
                   resumed, refused>>

\* Mutant of RetryTimer: the lock is not released.
RetryTimerLocked ==
    /\ armed > 0 /\ armed' = armed - 1
    /\ Prompted("upstream")
    /\ UNCHANGED <<reports, failed, exists, seen, expiries, tries, scheduled,
                   locked, recovery>>

RetryTimer ==
    /\ armed > 0 /\ armed' = armed - 1
    /\ locked' = FALSE
    /\ Prompted("upstream")
    /\ UNCHANGED <<reports, failed, exists, seen, expiries, tries, scheduled,
                   recovery>>

-----------------------------------------------------------------------------
(* Other errors                                                            *)

\* Mutant of RecoveryStarts: the attempt is counted when it is over.
RecoveryStartsUncounted(k, r) ==
    /\ Reported(k)
    /\ IF k \in seen
       THEN UNCHANGED <<seen, expiries, tries, recovery>>
       ELSE /\ seen' = seen \cup {k}
            /\ expiries' = [expiries EXCEPT ![k] = @ + 1]
            /\ recovery[r] = NoRecovery
            /\ IF tries[k] >= MaxRecovery
               THEN UNCHANGED <<tries, recovery>>
               ELSE /\ tries' = tries
                    /\ recovery' = [recovery EXCEPT
                                        ![r] = [at |-> "aborting", type |-> k]]
    /\ UNCHANGED <<turn, failed, exists, scheduled, locked, armed, resumed,
                   refused>>

\* deduplicateError and the part of attemptRecovery before its first await.
RecoveryStarts(k, r) ==
    /\ Reported(k)
    /\ IF k \in seen
       THEN UNCHANGED <<seen, expiries, tries, recovery>>
       ELSE /\ seen' = seen \cup {k}
            /\ expiries' = [expiries EXCEPT ![k] = @ + 1]
            /\ recovery[r] = NoRecovery
            /\ IF tries[k] >= MaxRecovery
               THEN UNCHANGED <<tries, recovery>>
               ELSE /\ tries' = [tries EXCEPT ![k] = @ + 1]
                    /\ recovery' = [recovery EXCEPT
                                        ![r] = [at |-> "aborting", type |-> k]]
    /\ UNCHANGED <<turn, failed, exists, scheduled, locked, armed, resumed,
                   refused>>

\* The session is aborted, whatever it was doing; errors of abort are ignored.
Aborted(r) ==
    /\ recovery[r].at = "aborting"
    /\ turn' = IF exists THEN "stopped" ELSE turn
    /\ recovery' = [recovery EXCEPT ![r].at = "settling"]
    /\ UNCHANGED <<reports, failed, exists, seen, expiries, tries, scheduled,
                   locked, armed, resumed, refused>>

\* The settle delay is over, resumeSession asks for the messages.
Settled(r) ==
    /\ recovery[r].at = "settling"
    /\ recovery' = [recovery EXCEPT ![r].at = "reading"]
    /\ UNCHANGED <<turn, reports, failed, exists, seen, expiries, tries,
                   scheduled, locked, armed, resumed, refused>>

\* resumeSession prompts, or finds no text to continue from.
Resumes(r) ==
    /\ recovery[r].at = "reading"
    /\ recovery' = [recovery EXCEPT ![r] = NoRecovery]
    /\ \/ Prompted(recovery[r].type)
       \/ UNCHANGED <<turn, resumed, refused>>
    /\ UNCHANGED <<reports, failed, exists, seen, expiries, tries, scheduled,
                   locked, armed>>

DedupeExpires(k) ==
    /\ expiries[k] > 0
    /\ expiries' = [expiries EXCEPT ![k] = @ - 1]
    /\ seen' = seen \ {k}
    /\ UNCHANGED <<turn, reports, failed, exists, tries, scheduled, locked,
                   armed, recovery, resumed, refused>>

-----------------------------------------------------------------------------

\* Mutant of SessionDeleted: the armed timers are forgotten, not cleared.
SessionDeletedTimersRun ==
    /\ exists /\ exists' = FALSE
    /\ turn' = "stopped"
    /\ locked' = FALSE /\ scheduled' = 0
    /\ tries' = [k \in ErrorTypes |-> 0] /\ seen' = {}
    /\ UNCHANGED <<reports, failed, expiries, armed, recovery, resumed, refused>>

\* cleanupSession.  A recovery in flight and the dedupe timers go on.
SessionDeleted ==
    /\ exists /\ exists' = FALSE
    /\ turn' = "stopped"
    /\ armed' = 0 /\ locked' = FALSE /\ scheduled' = 0
    /\ tries' = [k \in ErrorTypes |-> 0] /\ seen' = {}
    /\ UNCHANGED <<reports, failed, expiries, recovery, resumed, refused>>

RecoveryNext ==
    \/ \E x \in Errors : TurnFails(x)
    \/ UpstreamReported \/ RetryTimer
    \/ \E k \in ErrorTypes, r \in Recoveries : RecoveryStarts(k, r)
    \/ \E r \in Recoveries : Aborted(r) \/ Settled(r) \/ Resumes(r)
    \/ \E k \in ErrorTypes : DedupeExpires(k)
    \/ SessionDeleted

RecoverySpec == RecoveryInit /\ [][RecoveryNext]_recoveryVars

\* Events are delivered and timers fire.
RecoveryFairness ==
    /\ WF_recoveryVars(UpstreamReported)
    /\ WF_recoveryVars(RetryTimer)

-----------------------------------------------------------------------------
(* Properties                                                              *)

\* The upstream key is locked exactly while one retry is armed for it, also
\* when reports come late, double, or around the deletion of the session: no
\* failure is retried twice at once and no lock outlives its timer.
LockIsTimed == armed = (IF locked THEN 1 ELSE 0)

\* However reports, timers and recoveries interleave, the living session is
\* prompted at most maxAttempts times for upstream errors and at most
\* MAX_RECOVERY_ATTEMPTS times for each other error.
PromptsAreBounded ==
    exists => /\ resumed["upstream"] <= MaxScheduled
              /\ \A k \in ErrorTypes : resumed[k] <= MaxRecovery

\* The recoveries of an error that are under way.
InFlight(k) == {r \in Recoveries : recovery[r].at # "none" /\ recovery[r].type = k}

\* Why they are bounded: an attempt is counted before anything is awaited, so
\* the prompts sent and those still to come are never more than were counted,
\* and each failure is reported twice.
PromptsAreCounted ==
    /\ \A x \in Errors : reports[x] <= 2 * failed
    /\ \A k \in ErrorTypes : IsFiniteSet(InFlight(k))
    /\ exists =>
        /\ resumed["upstream"] + armed <= scheduled
        /\ \A k \in ErrorTypes : resumed[k] + Cardinality(InFlight(k)) <= tries[k]

RecoveryInv ==
    RecoveryTypeOK /\ LockIsTimed /\ PromptsAreCounted /\ PromptsAreBounded

\* A turn that failed with an upstream error is resumed, unless its retries
\* are exhausted, the host refused a prompt (then nothing retries it: its
\* failure is left to an event that need not come) or the session is deleted.
UpstreamFailureResumes ==
    turn = "failed_upstream" ~>
        \/ turn # "failed_upstream"
        \/ scheduled = MaxScheduled \/ refused
=============================================================================
