-------------------------- MODULE SpawnAgentProofs --------------------------
(* The calls of spawn_agent leave neither records nor sessions behind, and   *)
(* the retries, recoveries and compactions that go on by themselves keep to  *)
(* their bounds and locks, for any number of each.                           *)
EXTENDS MCProgress, FiniteSetTheorems, TLAPS

----------------------------------------------------------------------------
(* Sessions                                                                  *)

LEMMA SessionFacts ==
  ASSUME TypeOK, NEW c \in Calls
  PROVE  /\ calls[c] \in CallRecords
         /\ AttemptSession(c) \in Sessions /\ AttemptSession(c)[1] = c
         /\ AttemptSession(c) # None
         /\ None \notin Sessions
         /\ \A s \in Sessions : s[1] \in Calls
<1>1. calls[c] \in CallRecords /\ calls[c].retries \in 0 .. Retries /\ Retries \in Nat
  BY SpawnAssumption DEF TypeOK, CallRecords
<1>2. calls[c].retries + 1 \in 1 .. (Retries + 1)
  BY <1>1
<1>3. None \notin Sessions
  BY SpawnAssumption DEF Sessions
<1> QED
  BY <1>1, <1>2, <1>3 DEF AttemptSession, Sessions

\* A deletion makes no session live, and leaves s live only as a stray.
LEMMA DeleteFacts ==
  ASSUME NEW s, live \subseteq Sessions, stray \subseteq live, Delete(s)
  PROVE  /\ live' \subseteq live /\ stray' \subseteq live'
         /\ live' \ stray' \subseteq (live \ stray) \ {s}
  BY DEF Delete

----------------------------------------------------------------------------
(* What a step of a call does                                                *)

\* The call ends up in one of the steps that the test of the retry loop
\* leads to.
LEMMA RetryFacts ==
  ASSUME TypeOK, NEW c \in Calls, NEW recs \in [Sessions -> {"none", "running", "aborted"}],
         RetryOrSettle(c, recs)
  PROVE  /\ \/ /\ MayRetry(c) /\ records' = recs
               /\ calls' = [calls EXCEPT ![c].pc = "backoff"]
            \/ /\ \E outcome \in Classes : calls' = [calls EXCEPT ![c] = SettledCall(c, outcome)]
               /\ records' = Reregistered(c, recs)
  BY DEF RetryOrSettle, Classes

LEMMA ReregisteredFacts ==
  ASSUME TypeOK, NEW c \in Calls, NEW recs \in [Sessions -> {"none", "running", "aborted"}]
  PROVE  /\ Reregistered(c, recs) \in [Sessions -> {"none", "running", "aborted"}]
         /\ \A s \in Sessions : Reregistered(c, recs)[s] =
              IF s = calls[c].session THEN "running" ELSE recs[s]
  BY SessionFacts DEF Reregistered, TypeOK, CallRecords

LEMMA SettledFacts ==
  ASSUME TypeOK, NEW c \in Calls, NEW outcome
  PROVE  /\ SettledCall(c, outcome).pc = "settled"
         /\ SettledCall(c, outcome).session = calls[c].session
  BY DEF SettledCall, TypeOK, CallRecords

LEMMA TypeInit == Init => TypeOK
  BY SpawnAssumption DEF Init, TypeOK, CallRecords, Cleanups, NoCleanup

LEMMA StepType ==
  ASSUME TypeOK, CallsHoldTheirSessions, NEW c \in Calls, Step(c)
  PROVE  TypeOK'
<1> DEFINE Recs == [Sessions -> {"none", "running", "aborted"}]
<1>1. /\ calls \in [Calls -> CallRecords] /\ calls[c] \in CallRecords
      /\ records \in Recs /\ live \subseteq Sessions /\ stray \subseteq live
      /\ cleanup \in Cleanups
  BY DEF TypeOK
<1>2. \A outcome \in Classes : SettledCall(c, outcome) \in CallRecords
  BY <1>1 DEF SettledCall, CallRecords
<1>3. ASSUME NEW recs \in Recs, RetryOrSettle(c, recs)
      PROVE  calls' \in [Calls -> CallRecords] /\ records' \in Recs
  <2>1. [calls[c] EXCEPT !.pc = "backoff"] \in CallRecords
    BY <1>1 DEF CallRecords
  <2> QED
    BY <1>1, <1>2, <1>3, <2>1, RetryFacts, ReregisteredFacts
<1>4. CASE Created(c)
  <2>1. [calls[c] EXCEPT !.pc = "prompting", !.session = AttemptSession(c)] \in CallRecords
    BY <1>1, SessionFacts DEF CallRecords
  <2> QED
    BY <1>1, <1>4, <2>1, SessionFacts DEF Created, TypeOK
<1>5. CASE CreateFails(c)
  BY <1>1, <1>2, <1>5 DEF CreateFails, TypeOK, Classes
<1>6. CASE CreateInterrupted(c)
  <2>1. live' \subseteq Sessions /\ stray' \subseteq live' /\ cleanup' = cleanup
    BY <1>1, <1>6, SessionFacts DEF CreateInterrupted
  <2>2. calls' \in [Calls -> CallRecords] /\ records' \in Recs
    BY <1>1, <1>3, <1>6 DEF CreateInterrupted
  <2> QED
    BY <1>1, <2>1, <2>2 DEF TypeOK
<1>7. CASE PromptEnds(c)
  <2>1. /\ [calls[c] EXCEPT !.pc = "dropping"] \in CallRecords
        /\ [calls[c] EXCEPT !.pc = "verifying"] \in CallRecords
    BY <1>1 DEF CallRecords
  <2> QED
    BY <1>1, <1>2, <1>7, <2>1 DEF PromptEnds, TypeOK
<1>8. CASE DropSession(c)
  <2>1. /\ calls[c].session \in Sessions
        /\ [records EXCEPT ![calls[c].session] = "none"] \in Recs
    BY <1>1, <1>8 DEF DropSession, CallsHoldTheirSessions, HoldsItsSession, CallRecords
  <2>2. calls' \in [Calls -> CallRecords] /\ records' \in Recs
    BY <1>3, <1>8, <2>1 DEF DropSession
  <2>3. live' \subseteq Sessions /\ stray' \subseteq live' /\ cleanup' = cleanup
    BY <1>1, <1>8, <2>1, DeleteFacts DEF DropSession
  <2> QED
    BY <1>1, <2>2, <2>3 DEF TypeOK
<1>9. CASE BackoffEnds(c)
  <2>1. calls[c].retries + 1 \in 0 .. Retries
    BY <1>1, <1>9, SpawnAssumption DEF BackoffEnds, CallsHoldTheirSessions, HoldsItsSession, CallRecords
  <2>2. [calls[c] EXCEPT !.pc = "creating", !.session = None, !.retries = @ + 1] \in CallRecords
    BY <1>1, <2>1 DEF CallRecords
  <2>3. Reregistered(c, records) \in Recs
    BY <1>1, ReregisteredFacts
  <2> QED
    BY <1>1, <1>2, <1>9, <2>2, <2>3 DEF BackoffEnds, TypeOK, Classes
<1>10. ASSUME NEW outcome \in Classes \cup {"fenced", None}, Close(c, outcome)
       PROVE  TypeOK'
  <2>1. [calls[c] EXCEPT !.pc = IF calls[c].session = None THEN "done" ELSE "closing",
                         !.outcome = outcome] \in CallRecords
    BY <1>1 DEF CallRecords
  <2>2. records' \in Recs
    BY <1>1, <1>10 DEF Close
  <2> QED
    BY <1>1, <1>10, <2>1, <2>2 DEF Close, TypeOK
<1>11. CASE Finalize(c)
  BY <1>1, <1>10, <1>11 DEF Finalize, CallRecords
<1>12. CASE Verified(c)
  BY <1>10, <1>12 DEF Verified, Classes
<1>13. CASE Closed(c)
  <2>1. [calls[c] EXCEPT !.pc = "done"] \in CallRecords
    BY <1>1 DEF CallRecords
  <2> QED
    BY <1>1, <1>13, <2>1, DeleteFacts DEF Closed, TypeOK
<1> QED
  BY <1>4, <1>5, <1>6, <1>7, <1>8, <1>9, <1>11, <1>12, <1>13 DEF Step

LEMMA CleanupType ==
  ASSUME TypeOK,
         \/ \E owner, run \in Owners : CleanupStarts(owner, run)
         \/ AbortGeneration
         \/ \E s \in Sessions : CleanupDeletes(s)
         \/ Sweep
  PROVE  TypeOK'
<1>1. /\ calls \in [Calls -> CallRecords] /\ cleanup \in Cleanups
      /\ records \in [Sessions -> {"none", "running", "aborted"}]
      /\ live \subseteq Sessions /\ stray \subseteq live
  BY DEF TypeOK
<1>2. NextGeneration \in Cleanups /\ CleanupMax \in Nat \ {0}
  <2>1. CleanupMax \in Nat \ {0} /\ NoCleanup \in Cleanups
    BY SpawnAssumption DEF NoCleanup, Cleanups
  <2>2. CASE cleanup.generation # CleanupMax
    <3>1. cleanup.generation + 1 \in 0 .. CleanupMax
      BY <1>1, <2>1, <2>2 DEF Cleanups
    <3>2. [cleanup EXCEPT !.generation = @ + 1, !.deleting = {}] \in Cleanups
      BY <1>1, <3>1 DEF Cleanups
    <3> QED
      BY <2>1, <2>2, <3>2 DEF NextGeneration
  <2> QED
    BY <2>1, <2>2 DEF NextGeneration
<1>3. ASSUME NEW owner \in Owners, NEW run \in Owners, CleanupStarts(owner, run)
      PROVE  TypeOK'
  BY <1>1, <1>2, <1>3 DEF CleanupStarts, TypeOK, Cleanups, Running
<1>4. CASE AbortGeneration
  <2>1. [cleanup EXCEPT !.deleting = InGeneration(cleanup.generation)] \in Cleanups
    BY <1>1 DEF Cleanups, InGeneration, Running
  <2>2. cleanup' \in Cleanups
    BY <1>2, <1>4, <2>1 DEF AbortGeneration
  <2>3. records' \in [Sessions -> {"none", "running", "aborted"}]
    BY <1>1, <1>4 DEF AbortGeneration
  <2> QED
    BY <1>1, <1>4, <2>2, <2>3 DEF AbortGeneration, TypeOK
<1>5. ASSUME NEW s \in Sessions, CleanupDeletes(s) PROVE TypeOK'
  <2>1. [cleanup EXCEPT !.deleting = @ \ {s}] \in Cleanups
    BY <1>1 DEF Cleanups
  <2>2. cleanup' \in Cleanups
    BY <1>2, <1>5, <2>1 DEF CleanupDeletes
  <2> QED
    BY <1>1, <1>5, <2>2, DeleteFacts DEF CleanupDeletes, TypeOK
<1>6. CASE Sweep
  BY <1>1, <1>6 DEF Sweep, TypeOK
<1> QED
  BY <1>3, <1>4, <1>5, <1>6

LEMMA LaunchType ==
  ASSUME TypeOK, NEW c \in Calls, NEW m \in Meta, Launch(c, m) PROVE TypeOK'
<1>1. /\ [calls[c] EXCEPT !.pc = "creating", !.meta = m] \in CallRecords
      /\ [calls[c] EXCEPT !.pc = "done", !.meta = m, !.outcome = "fenced"] \in CallRecords
  BY DEF TypeOK, CallRecords
<1> QED
  BY <1>1 DEF Launch, TypeOK

LEMMA TypeStep == TypeOK /\ CallsHoldTheirSessions /\ [Next]_vars => TypeOK'
<1>1. TypeOK /\ UNCHANGED vars => TypeOK'
  BY DEF vars, TypeOK
<1> QED
  BY <1>1, LaunchType, StepType, CleanupType DEF Next

----------------------------------------------------------------------------
(* What a step of a call leaves                                              *)

RecordedSteps == {"prompting", "dropping", "verifying", "settled"}
SessionSteps == RecordedSteps \cup {"closing"}

\* RecordsAreOwned and NoOrphanSessions, session by session.
Owned(s) == records[s] # "none" =>
              calls[s[1]].session = s /\ calls[s[1]].pc \in RecordedSteps
Used(s) == s \in live \ stray =>
             calls[s[1]].session = s /\ calls[s[1]].pc \in SessionSteps

LEMMA EachCall ==
  /\ RecordsAreOwned <=> \A s \in Sessions : Owned(s)
  /\ TypeOK => (NoOrphanSessions <=> \A s \in Sessions : Used(s))
  BY DEF RecordsAreOwned, NoOrphanSessions, Owned, Used, RecordedSteps, SessionSteps,
         TypeOK

\* A step of c changes nothing of the other calls, holds what it works on, and
\* revives no session of an aborted record.
Effect(c) ==
  /\ \A d \in Calls \ {c} : calls'[d] = calls[d]
  /\ cleanup' = cleanup
  /\ HoldsItsSession(c)'
  /\ \A s \in Sessions :
       /\ s[1] # c => /\ records'[s] = records[s]
                      /\ s \in live' \ stray' => s \in live \ stray
       /\ s[1] = c => Owned(s)' /\ Used(s)'
       /\ records'[s] = "aborted" /\ s \in live' \ stray'
            => records[s] = "aborted" /\ s \in live \ stray

LEMMA StepEffect ==
  ASSUME TypeOK, CallsHoldTheirSessions, RecordsAreOwned, NoOrphanSessions,
         NEW c \in Calls, Step(c)
  PROVE  Effect(c)
<1> DEFINE Recs == [Sessions -> {"none", "running", "aborted"}]
<1>1. /\ calls \in [Calls -> CallRecords] /\ calls[c] \in CallRecords
      /\ records \in Recs /\ live \subseteq Sessions /\ stray \subseteq live
  BY DEF TypeOK
<1>2. /\ HoldsItsSession(c) /\ \A s \in Sessions : Owned(s) /\ Used(s)
      /\ None \notin Sessions
  BY EachCall, SessionFacts DEF CallsHoldTheirSessions
<1>3. calls[c].session \in Sessions \cup {None} /\ \A s \in Sessions : s[1] \in Calls
  BY <1>1, SessionFacts DEF CallRecords
<1>4. ASSUME NEW recs \in Recs, RetryOrSettle(c, recs),
             calls[c].pc \in {"creating", "dropping"}, cleanup' = cleanup,
             \A s \in Sessions : s[1] # c => recs[s] = records[s],
             \A s \in Sessions : s[1] = c => recs[s] = "none",
             \A s \in Sessions : s \in live' \ stray' => s \in live \ stray /\ s[1] # c
      PROVE  Effect(c)
  <2>1. CASE /\ MayRetry(c) /\ records' = recs
             /\ calls' = [calls EXCEPT ![c].pc = "backoff"]
    <3>1. calls'[c] = [calls[c] EXCEPT !.pc = "backoff"]
      BY <1>1, <2>1
    <3>2. calls'[c].pc = "backoff" /\ calls'[c].session = calls[c].session
          /\ calls'[c].retries < Retries
      BY <1>1, <2>1, <3>1 DEF MayRetry, CallRecords
    <3>3. HoldsItsSession(c)'
      BY <1>2, <3>2 DEF HoldsItsSession
    <3> QED
      BY <1>1, <1>4, <2>1, <3>2, <3>3 DEF Effect, Owned, Used
  <2>2. ASSUME NEW outcome \in Classes, calls' = [calls EXCEPT ![c] = SettledCall(c, outcome)],
               records' = Reregistered(c, recs)
        PROVE  Effect(c)
    <3>1. calls'[c].pc = "settled" /\ calls'[c].session = calls[c].session
      BY <1>1, <2>2 DEF SettledCall, CallRecords
    <3>2. HoldsItsSession(c)'
      BY <1>2, <3>1 DEF HoldsItsSession
    <3>3. \A s \in Sessions : records'[s] = IF s = calls[c].session THEN "running" ELSE recs[s]
      BY <1>4, <2>2, ReregisteredFacts
    <3>4. \A s \in Sessions : s = calls[c].session => s[1] = c
      BY <1>2 DEF HoldsItsSession
    <3> QED
      BY <1>1, <1>4, <2>2, <3>1, <3>2, <3>3, <3>4 DEF Effect, Owned, Used, RecordedSteps
  <2> QED
    BY <1>4, <2>1, <2>2, RetryFacts
<1>5. CASE Created(c)
  <2>1. /\ calls'[c].pc = "prompting" /\ calls'[c].session = AttemptSession(c)
        /\ \A d \in Calls \ {c} : calls'[d] = calls[d]
    BY <1>1, <1>5 DEF Created, CallRecords
  <2>2. HoldsItsSession(c)'
    BY <2>1, SessionFacts DEF HoldsItsSession
  <2>3. \A s \in Sessions : s[1] = c => records[s] = "none" /\ s \notin live \ stray
    BY <1>2, <1>5 DEF Created, Owned, Used, RecordedSteps, SessionSteps
  <2>4. /\ \A s \in Sessions : records'[s] = IF s = AttemptSession(c) THEN "running" ELSE records[s]
        /\ live' = live \cup {AttemptSession(c)} /\ stray' = stray /\ cleanup' = cleanup
    BY <1>1, <1>5, SessionFacts DEF Created
  <2> QED
    BY <2>1, <2>2, <2>3, <2>4, SessionFacts DEF Effect, Owned, Used, RecordedSteps, SessionSteps
<1>6. CASE CreateFails(c) \/ PromptEnds(c)
  <2>1. /\ calls'[c].session = calls[c].session
        /\ calls'[c].pc \in {"settled", "dropping", "verifying"}
        /\ calls[c].pc = "creating" => calls'[c].pc = "settled"
        /\ \A d \in Calls \ {c} : calls'[d] = calls[d]
    <3>1. \/ \E outcome : calls' = [calls EXCEPT ![c] = SettledCall(c, outcome)]
          \/ /\ calls[c].pc = "prompting"
             /\ \/ calls' = [calls EXCEPT ![c].pc = "dropping"]
                \/ calls' = [calls EXCEPT ![c].pc = "verifying"]
      BY <1>6 DEF CreateFails, PromptEnds
    <3> QED
      BY <1>1, <3>1, SettledFacts DEF CallRecords
  <2>2. UNCHANGED <<records, live, stray, cleanup>> /\ calls[c].pc \in {"creating", "prompting"}
    BY <1>6 DEF CreateFails, PromptEnds
  <2>3. HoldsItsSession(c)'
    BY <1>2, <2>1, <2>2 DEF HoldsItsSession
  <2> QED
    BY <1>2, <2>1, <2>2, <2>3 DEF Effect, Owned, Used, RecordedSteps, SessionSteps
<1>7. CASE CreateInterrupted(c)
  <2>1. \A s \in Sessions : s[1] = c => records[s] = "none" /\ s \notin live \ stray
    BY <1>2, <1>7 DEF CreateInterrupted, Owned, Used, RecordedSteps, SessionSteps
  <2>2. live' \ stray' \subseteq live \ stray
    BY <1>7 DEF CreateInterrupted
  <2> QED
    BY <1>1, <1>4, <1>7, <2>1, <2>2 DEF CreateInterrupted
<1>8. CASE DropSession(c)
  <2>1. calls[c].session \in Sessions /\ calls[c].session[1] = c
    BY <1>2, <1>3, <1>8 DEF DropSession, HoldsItsSession
  <2>2. \A s \in Sessions \ {calls[c].session} : s[1] = c => records[s] = "none" /\ s \notin live \ stray
    BY <1>2 DEF Owned, Used
  <2>3. live' \ stray' \subseteq (live \ stray) \ {calls[c].session}
    BY <1>1, <1>8, DeleteFacts DEF DropSession
  <2>4. [records EXCEPT ![calls[c].session] = "none"] \in Recs
    BY <1>1
  <2> QED
    BY <1>1, <1>4, <1>8, <2>1, <2>2, <2>3, <2>4 DEF DropSession
<1>9. CASE BackoffEnds(c)
  <2>1. \A s \in Sessions : s[1] = c => records[s] = "none" /\ s \notin live \ stray
    BY <1>2, <1>9 DEF BackoffEnds, Owned, Used, RecordedSteps, SessionSteps
  <2>2. UNCHANGED <<live, stray, cleanup>> /\ \A d \in Calls \ {c} : calls'[d] = calls[d]
    BY <1>1, <1>9 DEF BackoffEnds
  <2>3. CASE calls'[c].pc = "creating"
    <3>1. calls'[c].session = None /\ records' = records
      BY <1>1, <1>9, <2>3, SettledFacts DEF BackoffEnds, CallRecords
    <3>2. HoldsItsSession(c)'
      BY <2>3, <3>1 DEF HoldsItsSession
    <3> QED
      BY <2>1, <2>2, <3>1, <3>2 DEF Effect, Owned, Used
  <2>4. CASE calls'[c].pc # "creating"
    <3>1. /\ calls'[c].pc = "settled" /\ calls'[c].session = calls[c].session
          /\ records' = Reregistered(c, records)
      BY <1>1, <1>9, <2>4, SettledFacts DEF BackoffEnds, CallRecords
    <3>2. HoldsItsSession(c)'
      BY <1>2, <3>1 DEF HoldsItsSession
    <3>3. \A s \in Sessions : records'[s] = IF s = calls[c].session THEN "running" ELSE records[s]
      BY <1>1, <3>1, ReregisteredFacts
    <3>4. \A s \in Sessions : s = calls[c].session => s[1] = c
      BY <1>2 DEF HoldsItsSession
    <3> QED
      BY <2>1, <2>2, <3>1, <3>2, <3>3, <3>4 DEF Effect, Owned, Used, RecordedSteps
  <2> QED
    BY <2>3, <2>4
<1>10. ASSUME NEW outcome, Close(c, outcome) PROVE Effect(c)
  <2>1. /\ calls'[c].session = calls[c].session
        /\ calls'[c].pc = IF calls[c].session = None THEN "done" ELSE "closing"
        /\ \A d \in Calls \ {c} : calls'[d] = calls[d]
    BY <1>1, <1>10 DEF Close, CallRecords
  <2>2. /\ UNCHANGED <<live, stray, cleanup>>
        /\ \A s \in Sessions : records'[s] = IF s = calls[c].session THEN "none" ELSE records[s]
    BY <1>10 DEF Close
  <2>3. HoldsItsSession(c)'
    BY <1>2, <2>1 DEF HoldsItsSession
  <2>4. \A s \in Sessions : s = calls[c].session => s[1] = c
    BY <1>2 DEF HoldsItsSession
  <2> QED
    BY <1>2, <2>1, <2>2, <2>3, <2>4 DEF Effect, Owned, Used, SessionSteps
<1>11. CASE Closed(c)
  <2>1. /\ calls'[c].session = calls[c].session /\ calls'[c].pc = "done"
        /\ \A d \in Calls \ {c} : calls'[d] = calls[d]
        /\ UNCHANGED <<records, cleanup>>
    BY <1>1, <1>11 DEF Closed, CallRecords
  <2>2. live' \ stray' \subseteq (live \ stray) \ {calls[c].session}
    BY <1>1, <1>11, DeleteFacts DEF Closed
  <2>3. HoldsItsSession(c)'
    BY <1>2, <2>1 DEF HoldsItsSession
  <2>4. \A s \in Sessions : s[1] = c => records[s] = "none" /\ s \notin live' \ stray'
    BY <1>2, <1>11, <2>2 DEF Closed, Owned, Used, RecordedSteps
  <2> QED
    BY <2>1, <2>2, <2>3, <2>4 DEF Effect, Owned, Used
<1> QED
  BY <1>5, <1>6, <1>7, <1>8, <1>9, <1>10, <1>11 DEF Step, Finalize, Verified

----------------------------------------------------------------------------
(* The invariant is inductive                                                *)

LEMMA NothingInit == Init => LeavesNothing
<1> SUFFICES ASSUME Init PROVE LeavesNothing
  OBVIOUS
<1>1. \A s \in Sessions : records[s] = "none" /\ s \notin live
  BY DEF Init
<1>2. CallsHoldTheirSessions
  BY DEF Init, CallsHoldTheirSessions, HoldsItsSession, NoCleanup
<1> QED
  BY <1>1, <1>2, TypeInit
     DEF Init, LeavesNothing, RecordsAreOwned, NoOrphanSessions, AbortedAreDeleted

LEMMA CallStepStays ==
  ASSUME LeavesNothing, NEW c \in Calls, Step(c)
  PROVE  LeavesNothing'
<1>1. /\ TypeOK /\ CallsHoldTheirSessions /\ AbortedAreDeleted /\ Effect(c)
      /\ \A s \in Sessions : Owned(s) /\ Used(s)
  BY StepEffect, EachCall DEF LeavesNothing
<1>2. TypeOK'
  BY <1>1, StepType
<1>3. \A s \in Sessions : s[1] \in Calls
  BY DEF Sessions
<1>4. \A s \in Sessions : Owned(s)' /\ Used(s)'
  BY <1>1, <1>3 DEF Effect, Owned, Used
<1>5. CallsHoldTheirSessions'
  BY <1>1 DEF Effect, CallsHoldTheirSessions, HoldsItsSession
<1>6. AbortedAreDeleted'
  BY <1>1 DEF Effect, AbortedAreDeleted
<1>7. RecordsAreOwned' /\ NoOrphanSessions'
  BY <1>2, <1>4
     DEF RecordsAreOwned, NoOrphanSessions, Owned, Used, RecordedSteps, SessionSteps, TypeOK
<1> QED
  BY <1>2, <1>5, <1>6, <1>7 DEF LeavesNothing

LEMMA LaunchStays ==
  ASSUME LeavesNothing, NEW c \in Calls, NEW m \in Meta, Launch(c, m)
  PROVE  LeavesNothing'
<1>1. /\ TypeOK /\ CallsHoldTheirSessions /\ AbortedAreDeleted
      /\ \A s \in Sessions : Owned(s) /\ Used(s)
  BY EachCall DEF LeavesNothing
<1>2. TypeOK'
  BY <1>1, LaunchType
<1>3. /\ calls'[c].session = calls[c].session /\ calls'[c].pc \in {"creating", "done"}
      /\ calls[c].pc = "idle" /\ \A d \in Calls \ {c} : calls'[d] = calls[d]
      /\ UNCHANGED <<records, live, stray, cleanup>>
  BY <1>1 DEF Launch, TypeOK, CallRecords
<1>4. \A s \in Sessions : s[1] \in Calls
  BY DEF Sessions
<1>5. RecordsAreOwned' /\ NoOrphanSessions'
  BY <1>1, <1>3, <1>4
     DEF RecordsAreOwned, NoOrphanSessions, Owned, Used, RecordedSteps, SessionSteps, TypeOK
<1>6. CallsHoldTheirSessions'
  BY <1>1, <1>3 DEF CallsHoldTheirSessions, HoldsItsSession
<1>7. AbortedAreDeleted'
  BY <1>1, <1>3 DEF AbortedAreDeleted
<1> QED
  BY <1>2, <1>5, <1>6, <1>7 DEF LeavesNothing

LEMMA CleanupStays ==
  ASSUME LeavesNothing,
         \/ \E owner, run \in Owners : CleanupStarts(owner, run)
         \/ AbortGeneration
         \/ \E s \in Sessions : CleanupDeletes(s)
         \/ Sweep
  PROVE  LeavesNothing'
<1>1. /\ TypeOK /\ CallsHoldTheirSessions /\ AbortedAreDeleted
      /\ \A s \in Sessions : Owned(s) /\ Used(s)
      /\ stray \subseteq live /\ live \subseteq Sessions /\ cleanup \in Cleanups
      /\ records \in [Sessions -> {"none", "running", "aborted"}]
  BY EachCall DEF LeavesNothing, TypeOK
<1>2. TypeOK' /\ calls' = calls
  BY <1>1, CleanupType DEF CleanupStarts, AbortGeneration, CleanupDeletes, Sweep
<1>3. live' \ stray' \subseteq live \ stray
  BY <1>1, DeleteFacts DEF CleanupStarts, AbortGeneration, CleanupDeletes, Sweep
<1>4. \A s \in Sessions : records'[s] # "none" => records[s] # "none"
  BY <1>1
     DEF CleanupStarts, AbortGeneration, CleanupDeletes, Sweep, InGeneration, Running
<1>5. RecordsAreOwned' /\ NoOrphanSessions'
  BY <1>1, <1>2, <1>3, <1>4
     DEF RecordsAreOwned, NoOrphanSessions, Owned, Used, RecordedSteps, SessionSteps, TypeOK
<1>6. NextGeneration.deleting = {} /\ NoCleanup.deleting = {}
  BY <1>1 DEF NextGeneration, NoCleanup, Cleanups
<1>7. cleanup'.owner = None => cleanup'.deleting = {}
  <2>1. ASSUME NEW owner, NEW run, CleanupStarts(owner, run) PROVE cleanup'.deleting = {}
    BY <2>1 DEF CleanupStarts
  <2>2. ASSUME AbortGeneration \/ \E s \in Sessions : CleanupDeletes(s),
               cleanup'.owner = None
        PROVE  cleanup'.deleting = {}
    <3>1. cleanup.owner # None
      BY <1>1, <2>2 DEF AbortGeneration, CleanupDeletes, CallsHoldTheirSessions
    <3> QED
      BY <1>1, <1>6, <2>2, <3>1 DEF AbortGeneration, CleanupDeletes, Cleanups
  <2>3. Sweep => cleanup' = cleanup
    BY DEF Sweep
  <2> QED
    BY <1>1, <2>1, <2>2, <2>3 DEF CallsHoldTheirSessions
<1>8. CallsHoldTheirSessions'
  BY <1>1, <1>2, <1>7 DEF CallsHoldTheirSessions, HoldsItsSession
<1>9. AbortedAreDeleted'
  <2>1. ASSUME NEW owner \in Owners, NEW run \in Owners, CleanupStarts(owner, run)
        PROVE  AbortedAreDeleted'
    BY <1>1, <2>1 DEF CleanupStarts, AbortedAreDeleted, CallsHoldTheirSessions
  <2>2. CASE AbortGeneration
    <3>1. /\ \A s \in Sessions : records'[s] =
               IF s \in InGeneration(cleanup.generation) THEN "aborted" ELSE records[s]
          /\ live' = live /\ stray' = stray /\ cleanup.deleting = {}
      BY <2>2 DEF AbortGeneration
    <3>2. \/ InGeneration(cleanup.generation) = {}
          \/ cleanup'.deleting = InGeneration(cleanup.generation)
      BY <1>1, <2>2 DEF AbortGeneration, Cleanups
    <3> QED
      BY <1>1, <3>1, <3>2 DEF AbortedAreDeleted
  <2>3. ASSUME NEW s \in Sessions, CleanupDeletes(s) PROVE AbortedAreDeleted'
    <3>1. records' = records /\ live' \ stray' \subseteq (live \ stray) \ {s}
      BY <1>1, <2>3, DeleteFacts DEF CleanupDeletes
    <3>2. cleanup.deleting \ {s} \subseteq cleanup'.deleting
      BY <1>1, <2>3 DEF CleanupDeletes, Cleanups
    <3> QED
      BY <1>1, <3>1, <3>2 DEF AbortedAreDeleted
  <2>4. CASE Sweep
    BY <1>1, <2>4 DEF Sweep, AbortedAreDeleted
  <2> QED
    BY <2>1, <2>2, <2>3, <2>4
<1> QED
  BY <1>2, <1>5, <1>8, <1>9 DEF LeavesNothing

LEMMA NothingStep == LeavesNothing /\ [Next]_vars => LeavesNothing'
<1> SUFFICES ASSUME LeavesNothing, [Next]_vars PROVE LeavesNothing'
  OBVIOUS
<1>1. CASE UNCHANGED vars
  <2>1. UNCHANGED <<calls, records, live, stray, cleanup>>
    BY <1>1 DEF vars
  <2> QED
    BY <2>1
       DEF LeavesNothing, TypeOK, RecordsAreOwned, NoOrphanSessions, AbortedAreDeleted,
           CallsHoldTheirSessions, HoldsItsSession
<1>2. CASE Next
  BY <1>2, LaunchStays, CallStepStays, CleanupStays DEF Next
<1> QED
  BY <1>1, <1>2

----------------------------------------------------------------------------
(* What a cleanup has passed stays passed                                    *)

LEMMA NothingLeft == Spec => []LeavesNothing
  BY NothingInit, NothingStep, PTL DEF Spec

\* What a step of a call may do to its metadata, session and attempts.
CallMoves(c) ==
  /\ \A d \in Calls \ {c} : calls'[d] = calls[d]
  /\ calls'[c].meta = calls[c].meta /\ calls'[c].pc # "idle"
  /\ calls'[c].session \in {None, <<c, calls'[c].retries + 1>>}
  /\ \/ calls'[c].retries = calls[c].retries /\ calls'[c].pc # "creating"
     \/ calls'[c].retries = calls[c].retries + 1 /\ calls'[c].pc = "creating"
  /\ calls'[c].pc = "prompting" =>
       /\ calls[c].pc = "creating" /\ calls'[c].session # None
       /\ calls'[c].retries = calls[c].retries

\* Most steps only move the call on.
MovesOn(c) ==
  /\ \A d \in Calls \ {c} : calls'[d] = calls[d]
  /\ calls'[c].meta = calls[c].meta /\ calls'[c].session = calls[c].session
  /\ calls'[c].retries = calls[c].retries
  /\ calls'[c].pc \in {"settled", "dropping", "verifying", "backoff", "done", "closing"}

LEMMA MovesOnFacts ==
  ASSUME TypeOK, NEW c \in Calls
  PROVE  /\ \A outcome : calls' = [calls EXCEPT ![c] = SettledCall(c, outcome)] => MovesOn(c)
         /\ \A pc \in {"dropping", "verifying", "backoff", "done"} :
              calls' = [calls EXCEPT ![c].pc = pc] => MovesOn(c)
         /\ \A outcome : \A pc \in {"done", "closing"} :
              calls' = [calls EXCEPT ![c].pc = pc, ![c].outcome = outcome] => MovesOn(c)
<1>1. calls \in [Calls -> CallRecords] /\ calls[c] \in CallRecords
  BY DEF TypeOK
<1>2. ASSUME NEW outcome, calls' = [calls EXCEPT ![c] = SettledCall(c, outcome)]
      PROVE  MovesOn(c)
  <2>1. calls'[c] = SettledCall(c, outcome) /\ \A d \in Calls \ {c} : calls'[d] = calls[d]
    BY <1>1, <1>2
  <2> QED
    BY <1>1, <2>1 DEF SettledCall, MovesOn, CallRecords
<1>3. ASSUME NEW pc \in {"dropping", "verifying", "backoff", "done"},
             calls' = [calls EXCEPT ![c].pc = pc]
      PROVE  MovesOn(c)
  <2>1. calls'[c] = [calls[c] EXCEPT !.pc = pc] /\ \A d \in Calls \ {c} : calls'[d] = calls[d]
    BY <1>1, <1>3
  <2> QED
    BY <1>1, <2>1 DEF MovesOn, CallRecords
<1>4. ASSUME NEW outcome, NEW pc \in {"done", "closing"},
             calls' = [calls EXCEPT ![c].pc = pc, ![c].outcome = outcome]
      PROVE  MovesOn(c)
  <2>1. calls'[c] = [calls[c] EXCEPT !.pc = pc, !.outcome = outcome]
        /\ \A d \in Calls \ {c} : calls'[d] = calls[d]
    BY <1>1, <1>4
  <2> QED
    BY <1>1, <2>1 DEF MovesOn, CallRecords
<1> QED
  BY <1>2, <1>3, <1>4

LEMMA StepMoves ==
  ASSUME TypeOK, CleanupWalks, NEW c \in Calls, Step(c) PROVE CallMoves(c)
<1>1. calls \in [Calls -> CallRecords] /\ calls[c] \in CallRecords
      /\ calls[c].session \in {None, AttemptSession(c)}
  BY DEF TypeOK, CleanupWalks
<1>2. CASE Created(c)
  <2>1. calls' = [calls EXCEPT ![c].pc = "prompting", ![c].session = AttemptSession(c)]
        /\ calls[c].pc = "creating" /\ AttemptSession(c) # None
    BY <1>2, SessionFacts DEF Created
  <2> QED
    BY <1>1, <2>1 DEF CallMoves, CallRecords, AttemptSession
<1>3. CASE calls' = [calls EXCEPT ![c].pc = "creating", ![c].session = None,
                                  ![c].retries = @ + 1]
  BY <1>1, <1>3 DEF CallMoves, CallRecords
<1>4. CASE MovesOn(c)
  BY <1>1, <1>4 DEF MovesOn, CallMoves, AttemptSession
<1>5. ASSUME NEW recs, RetryOrSettle(c, recs) PROVE MovesOn(c)
  BY <1>5, MovesOnFacts DEF RetryOrSettle
<1>6. ASSUME NEW outcome, Close(c, outcome) PROVE MovesOn(c)
  <2>1. PICK pc \in {"done", "closing"} :
          calls' = [calls EXCEPT ![c].pc = pc, ![c].outcome = outcome]
    BY <1>6 DEF Close
  <2> QED
    BY <2>1, MovesOnFacts
<1>7. CASE BackoffEnds(c)
  BY <1>3, <1>4, <1>7, MovesOnFacts DEF BackoffEnds
<1>8. CASE CreateFails(c) \/ PromptEnds(c) \/ Closed(c)
  BY <1>4, <1>8, MovesOnFacts DEF CreateFails, PromptEnds, Closed
<1>9. CASE CreateInterrupted(c) \/ DropSession(c)
  BY <1>4, <1>5, <1>9 DEF CreateInterrupted, DropSession
<1>10. CASE Finalize(c) \/ Verified(c)
  BY <1>4, <1>6, <1>10 DEF Finalize, Verified
<1> QED
  BY <1>2, <1>7, <1>8, <1>9, <1>10 DEF Step

LEMMA WalksInit == Init => CleanupWalks
  BY DEF Init, CleanupWalks, NoCleanup

LEMMA WalksType ==
  ASSUME TypeOK, CleanupWalks, NEW s \in Sessions
  PROVE  /\ s[1] \in Calls /\ s[2] \in Nat /\ s = <<s[1], s[2]>>
         /\ calls[s[1]] \in CallRecords /\ calls[s[1]].retries \in Nat
         /\ calls[s[1]].pc # "idle" => calls[s[1]].meta.generation \in Nat \ {0}
         /\ cleanup \in Cleanups /\ cleanup.generation \in Nat
         /\ cleanup.generation <= CleanupMax
<1>1. s[1] \in Calls /\ s[2] \in Nat /\ s = <<s[1], s[2]>>
  BY SpawnAssumption DEF Sessions
<1>2. calls[s[1]] \in CallRecords /\ calls[s[1]].retries \in Nat
  BY <1>1, SpawnAssumption DEF TypeOK, CallRecords
<1>3. calls[s[1]].pc # "idle" => calls[s[1]].meta.generation \in Nat \ {0}
  BY <1>1, SpawnAssumption DEF CleanupWalks, Meta
<1>4. cleanup \in Cleanups /\ cleanup.generation \in 0..CleanupMax
  BY DEF TypeOK, Cleanups
<1> QED
  BY <1>1, <1>2, <1>3, <1>4, SpawnAssumption

LEMMA WalksStep ==
  ASSUME LeavesNothing, CleanupWalks, NEW c \in Calls, Step(c) PROVE CleanupWalks'
<1>1. /\ TypeOK /\ CallMoves(c) /\ Effect(c)
  BY StepMoves, StepEffect DEF LeavesNothing
<1>2. cleanup' = cleanup
  BY <1>1 DEF Effect
<1>3. \A d \in Calls : calls'[d].session \in {None, AttemptSession(d)'}
                       /\ (calls'[d].pc # "idle" => calls'[d].meta \in Meta)
  <2>1. calls[c].pc # "idle"
    BY DEF Step, Created, CreateFails, CreateInterrupted, PromptEnds, DropSession,
           BackoffEnds, Finalize, Verified, Closed
  <2> QED
    BY <1>1, <2>1 DEF CallMoves, CleanupWalks, AttemptSession
<1>4. ASSUME NEW s \in Sessions, PassedBy(s) PROVE PassedBy(s)'
  <2>1. CASE s[1] # c
    <3>1. calls'[s[1]] = calls[s[1]] /\ records'[s] = records[s]
      BY <1>1, <1>4, <2>1, WalksType DEF CallMoves, Effect
    <3> QED
      BY <1>2, <1>4, <3>1 DEF PassedBy
  <2>2. CASE s[1] = c
    <3>1. calls[c].retries \in Nat /\ s[2] \in Nat /\ s = <<c, s[2]>>
      BY <1>1, <2>2, WalksType
    <3>2. calls'[c].pc = "prompting" => records'[s] # "running"
      <4>1. SUFFICES ASSUME calls'[c].pc = "prompting" PROVE records'[s] # "running"
        OBVIOUS
      <4>2. s[2] <= calls[c].retries /\ calls'[c].session = <<c, calls[c].retries + 1>>
        BY <1>1, <1>4, <2>2, <4>1 DEF CallMoves, PassedBy
      <4>3. calls'[c].session # s
        BY <3>1, <4>2
      <4>4. Owned(s)'
        BY <1>1, <2>2 DEF Effect
      <4> QED
        BY <2>2, <4>3, <4>4 DEF Owned
    <3>3. s[2] <= calls'[c].retries + 1 /\ (calls'[c].pc = "creating" => s[2] <= calls'[c].retries)
      BY <1>1, <1>4, <2>2, <3>1 DEF CallMoves, PassedBy
    <3> QED
      BY <1>1, <1>2, <1>4, <2>2, <3>2, <3>3 DEF PassedBy, CallMoves
  <2> QED
    BY <2>1, <2>2
<1> QED
  BY <1>2, <1>3, <1>4 DEF CleanupWalks

LEMMA WalksLaunch ==
  ASSUME LeavesNothing, CleanupWalks, NEW c \in Calls, NEW m \in Meta, Launch(c, m)
  PROVE  CleanupWalks'
<1>1. TypeOK /\ calls \in [Calls -> CallRecords] /\ calls[c] \in CallRecords
  BY DEF LeavesNothing, TypeOK
<1>2. /\ calls'[c].session = calls[c].session /\ calls'[c].retries = calls[c].retries
      /\ calls'[c].meta = m /\ calls[c].pc = "idle"
      /\ \A d \in Calls \ {c} : calls'[d] = calls[d]
      /\ UNCHANGED <<records, cleanup>>
  BY <1>1 DEF Launch, CallRecords
<1>3. \A d \in Calls : calls'[d].session \in {None, AttemptSession(d)'}
                       /\ (calls'[d].pc # "idle" => calls'[d].meta \in Meta)
  BY <1>2 DEF CleanupWalks, AttemptSession
<1>4. ASSUME NEW s \in Sessions, PassedBy(s) PROVE PassedBy(s)'
  <2>1. s[1] # c /\ s[1] \in Calls
    BY <1>1, <1>2, <1>4, WalksType DEF PassedBy
  <2> QED
    BY <1>2, <1>4, <2>1 DEF PassedBy
<1> QED
  BY <1>2, <1>3, <1>4 DEF CleanupWalks

\* What a cleanup does as it leaves a generation.
LEMMA WalksNext ==
  ASSUME TypeOK, cleanup.owner # None
  PROVE  \/ NextGeneration = NoCleanup /\ cleanup.generation = CleanupMax
         \/ /\ NextGeneration.owner = cleanup.owner /\ NextGeneration.run = cleanup.run
            /\ NextGeneration.asked = cleanup.asked /\ NextGeneration.deleting = {}
            /\ NextGeneration.generation = cleanup.generation + 1
            /\ NextGeneration # NoCleanup
  BY DEF TypeOK, Cleanups, NextGeneration, NoCleanup

\* A step of a cleanup keeps what it has passed behind it, and its last step
\* leaves nothing of its own prompting.
LEMMA WalksCleanup ==
  ASSUME LeavesNothing, CleanupWalks,
         \/ \E owner, run \in Owners : CleanupStarts(owner, run)
         \/ AbortGeneration
         \/ \E s \in Sessions : CleanupDeletes(s)
         \/ Sweep
  PROVE  /\ CleanupWalks'
         /\ cleanup.owner # None /\ cleanup' = NoCleanup =>
              \A s \in cleanup.asked \cap Running' :
                \/ MetaOf(s).owner # cleanup.owner
                \/ MetaOf(s).generation > CleanupMax
                \/ calls[s[1]].pc # "prompting"
<1>1. /\ TypeOK /\ cleanup \in Cleanups
      /\ calls' = calls /\ (cleanup.owner = None => cleanup.deleting = {})
      /\ \A s \in Sessions : Owned(s)
      /\ records \in [Sessions -> {"none", "running", "aborted"}]
  BY EachCall DEF LeavesNothing, TypeOK, CleanupStarts, AbortGeneration, CleanupDeletes,
                   Sweep, CallsHoldTheirSessions
<1>2. \A d \in Calls : calls'[d].session \in {None, AttemptSession(d)'}
                       /\ (calls'[d].pc # "idle" => calls'[d].meta \in Meta)
  BY <1>1 DEF CleanupWalks, AttemptSession
<1> DEFINE Reached(s) == records'[s] = "running" /\ calls[s[1]].pc = "prompting"
                         /\ MetaOf(s).owner = cleanup.owner
<1>3. ASSUME NEW owner \in Owners, NEW run \in Owners, CleanupStarts(owner, run)
      PROVE  CleanupWalks' /\ cleanup.owner = None
  <2>1. /\ cleanup.owner = None /\ cleanup'.run = run /\ cleanup'.generation = 1
        /\ cleanup'.deleting = {} /\ records' = records
        /\ cleanup'.asked = {s \in Running : MetaOf(s).run = run}
    BY <1>3 DEF CleanupStarts
  <2>2. ASSUME NEW s \in cleanup'.asked PROVE s \in Sessions /\ PassedBy(s)'
    <3>1. s \in Sessions /\ records[s] = "running" /\ calls[s[1]].meta.run = run
      BY <2>1, <2>2 DEF Running, MetaOf
    <3>2. calls[s[1]].session = s /\ calls[s[1]].pc \in RecordedSteps
      BY <1>1, <3>1 DEF Owned
    <3>3. s[1] \in Calls /\ s[2] \in Nat /\ calls[s[1]].retries \in Nat
          /\ calls[s[1]].meta.generation \in Nat \ {0} /\ s # None
      BY <1>1, <3>1, <3>2, WalksType, SessionFacts DEF RecordedSteps
    <3>4. s[2] = calls[s[1]].retries + 1
      BY <3>2, <3>3 DEF CleanupWalks, AttemptSession
    <3> QED
      BY <1>1, <2>1, <3>1, <3>2, <3>3, <3>4 DEF PassedBy, RecordedSteps
  <2> QED
    BY <1>2, <2>1, <2>2 DEF CleanupWalks
<1>4. ASSUME cleanup.owner # None,
             \A s \in cleanup.asked : Reached(s) => MetaOf(s).generation > cleanup.generation,
             cleanup' = NextGeneration
      PROVE  /\ CleanupWalks'
             /\ cleanup' = NoCleanup => cleanup.generation = CleanupMax
  <2>1. CASE NextGeneration = NoCleanup /\ cleanup.generation = CleanupMax
    BY <1>2, <1>4, <2>1 DEF CleanupWalks, NoCleanup
  <2>2. CASE NextGeneration # NoCleanup
    <3>1. /\ cleanup'.owner = cleanup.owner /\ cleanup'.run = cleanup.run
          /\ cleanup'.asked = cleanup.asked /\ cleanup'.deleting = {}
          /\ cleanup'.generation = cleanup.generation + 1
      BY <1>1, <1>4, <2>2, WalksNext
    <3>2. ASSUME NEW s \in cleanup.asked PROVE s \in Sessions /\ PassedBy(s)'
      <4>1. s \in Sessions /\ PassedBy(s)
        BY <1>4, <3>2 DEF CleanupWalks
      <4>2. calls[s[1]].meta.generation \in Nat /\ cleanup.generation \in Nat
        BY <1>1, <4>1, WalksType DEF PassedBy
      <4> QED
        BY <1>1, <1>4, <3>1, <3>2, <4>1, <4>2 DEF PassedBy, MetaOf
    <3> QED
      BY <1>2, <1>4, <2>2, <3>1, <3>2 DEF CleanupWalks
  <2> QED
    BY <1>1, <1>4, <2>1, <2>2, WalksNext
<1>5. ASSUME cleanup.owner # None, cleanup'.owner = cleanup.owner,
             cleanup'.run = cleanup.run, cleanup'.asked = cleanup.asked,
             cleanup'.generation = cleanup.generation,
             \A s \in cleanup.asked : Reached(s) => /\ MetaOf(s).generation >= cleanup.generation
                                                    /\ cleanup'.deleting # {} => MetaOf(s).generation > cleanup.generation
      PROVE  CleanupWalks' /\ cleanup' # NoCleanup
  <2>1. ASSUME NEW s \in cleanup.asked PROVE s \in Sessions /\ PassedBy(s)'
    <3>1. s \in Sessions /\ PassedBy(s)
      BY <1>5, <2>1 DEF CleanupWalks
    <3> QED
      BY <1>1, <1>5, <2>1, <3>1 DEF PassedBy, MetaOf
  <2> QED
    BY <1>2, <1>5, <2>1 DEF CleanupWalks, NoCleanup
<1>6. cleanup.owner # None => \A s \in cleanup.asked : s \in Sessions /\ PassedBy(s)
  BY DEF CleanupWalks
<1>7. ASSUME cleanup.owner # None, NEW s \in cleanup.asked, Reached(s),
             records[s] = "running"
      PROVE  /\ MetaOf(s).generation >= cleanup.generation
             /\ cleanup.deleting # {} => MetaOf(s).generation > cleanup.generation
             /\ MetaOf(s).run = cleanup.run /\ s \in Running
             /\ MetaOf(s).generation \in Nat /\ cleanup.generation \in Nat
             /\ s \in Sessions
  BY <1>1, <1>6, <1>7, WalksType DEF PassedBy, MetaOf, Running
<1>8. CASE AbortGeneration
  <2> DEFINE gone == InGeneration(cleanup.generation)
  <2>1. /\ cleanup.owner # None /\ cleanup.deleting = {}
        /\ \A s \in Sessions : records'[s] = IF s \in gone THEN "aborted" ELSE records[s]
        /\ cleanup' = IF gone = {} THEN NextGeneration ELSE [cleanup EXCEPT !.deleting = gone]
    BY <1>8 DEF AbortGeneration
  <2>2. ASSUME NEW s \in cleanup.asked, Reached(s)
        PROVE  MetaOf(s).generation > cleanup.generation
    <3>1. s \in Sessions
      BY <1>6, <2>1, <2>2
    <3>2. records[s] = "running" /\ s \notin gone
      BY <2>1, <2>2, <3>1
    <3> QED
      BY <1>7, <2>1, <2>2, <3>2 DEF InGeneration
  <2>3. CASE gone = {}
    <3>1. cleanup' = NextGeneration
      BY <2>1, <2>3
    <3> QED
      BY <1>4, <1>1, <2>1, <2>2, <3>1 DEF Running, MetaOf
  <2>4. CASE gone # {}
    <3>1. /\ cleanup'.owner = cleanup.owner /\ cleanup'.run = cleanup.run
          /\ cleanup'.asked = cleanup.asked /\ cleanup'.generation = cleanup.generation
      BY <1>1, <2>1, <2>4 DEF Cleanups
    <3>2. \A s \in cleanup.asked : Reached(s) => MetaOf(s).generation >= cleanup.generation
      BY <1>7, <2>1, <2>2, <1>6
    <3> QED
      BY <1>5, <2>1, <2>2, <3>1, <3>2
  <2> QED
    BY <2>3, <2>4
<1>9. ASSUME NEW t \in Sessions, CleanupDeletes(t)
      PROVE  /\ CleanupWalks'
             /\ cleanup' = NoCleanup => \A s \in cleanup.asked : Reached(s) => MetaOf(s).generation > CleanupMax
  <2>1. /\ cleanup.deleting # {} /\ cleanup.owner # None /\ records' = records
        /\ cleanup' = IF cleanup.deleting = {t} THEN NextGeneration
                      ELSE [cleanup EXCEPT !.deleting = @ \ {t}]
    BY <1>1, <1>9 DEF CleanupDeletes
  <2>2. \A s \in cleanup.asked : Reached(s) => /\ MetaOf(s).generation > cleanup.generation
                                               /\ MetaOf(s).generation >= cleanup.generation
    BY <1>7, <2>1
  <2>3. CASE cleanup.deleting = {t}
    <3>1. cleanup' = NextGeneration
      BY <2>1, <2>3
    <3> QED
      BY <1>4, <2>1, <2>2, <3>1
  <2>4. CASE cleanup.deleting # {t}
    <3>1. /\ cleanup'.owner = cleanup.owner /\ cleanup'.run = cleanup.run
          /\ cleanup'.asked = cleanup.asked /\ cleanup'.generation = cleanup.generation
      BY <1>1, <2>1, <2>4 DEF Cleanups
    <3> QED
      BY <1>5, <2>1, <2>2, <3>1
  <2> QED
    BY <2>3, <2>4
<1>10. CASE Sweep
  <2>1. /\ cleanup' = cleanup /\ \A s \in Sessions : records'[s] = "running" => records[s] = "running"
    BY <1>10 DEF Sweep
  <2>2. CASE cleanup.owner = None
    BY <1>2, <2>1, <2>2 DEF CleanupWalks
  <2>3. CASE cleanup.owner # None
    <3>1. \A s \in cleanup.asked : Reached(s) => /\ MetaOf(s).generation >= cleanup.generation
                                                 /\ cleanup'.deleting # {} => MetaOf(s).generation > cleanup.generation
      BY <1>6, <1>7, <2>1, <2>3
    <3> QED
      BY <1>5, <2>1, <2>3, <3>1
  <2> QED
    BY <2>2, <2>3
<1> QED
  BY <1>1, <1>3, <1>8, <1>9, <1>10 DEF Running, MetaOf

LEMMA WalksStays == LeavesNothing /\ CleanupWalks /\ [Next]_vars => CleanupWalks'
<1> SUFFICES ASSUME LeavesNothing, CleanupWalks, [Next]_vars PROVE CleanupWalks'
  OBVIOUS
<1>1. CASE UNCHANGED vars
  BY <1>1 DEF vars, CleanupWalks, PassedBy, AttemptSession
<1>2. CASE Next
  BY <1>2, WalksLaunch, WalksStep, WalksCleanup DEF Next
<1> QED
  BY <1>1, <1>2

\* However attempts, retries, cleanup_parent_run and the sweep interleave, every
\* record belongs to a call that is running its session, every child session
\* that can be deleted has a call that uses it or will delete it, and what a
\* cleanup has aborted and gone past is deleted (src/tools/spawn-agent).
THEOREM SpawnLeavesNothing == Spec => []SpawnInv
<1>1. LeavesNothing /\ CleanupWalks <=> SpawnInv
  BY DEF SpawnInv
<1> QED
  BY <1>1, WalksInit, WalksStays, NothingLeft, PTL DEF Spec

\* A cleanup_parent_run of its own run leaves none of the children it was asked
\* about prompting in the generations it walks, for any number of calls,
\* generations and retries (src/index.ts).
THEOREM CleanupReaches == Spec => CleanupReachesOwnRun
<1>1. SpawnInv /\ [Next]_vars =>
        [cleanup.owner # None /\ cleanup' = NoCleanup =>
           \A s \in cleanup.asked \cap Running' :
             \/ MetaOf(s).owner # cleanup.owner
             \/ MetaOf(s).generation > CleanupMax
             \/ calls[s[1]].pc # "prompting"]_vars
  <2> SUFFICES ASSUME LeavesNothing, CleanupWalks, Next,
                      cleanup.owner # None, cleanup' = NoCleanup
               PROVE  \A s \in cleanup.asked \cap Running' :
                        \/ MetaOf(s).owner # cleanup.owner
                        \/ MetaOf(s).generation > CleanupMax
                        \/ calls[s[1]].pc # "prompting"
    BY DEF SpawnInv
  <2>1. cleanup' # cleanup
    BY DEF NoCleanup
  <2>2. ~ \E c \in Calls, m \in Meta : Launch(c, m)
    BY <2>1 DEF Launch
  <2>3. ~ \E c \in Calls : Step(c)
    BY <2>1, StepEffect DEF LeavesNothing, Effect
  <2> QED
    BY <2>2, <2>3, WalksCleanup DEF Next
<1> QED
  BY <1>1, SpawnLeavesNothing, PTL DEF Spec, CleanupReachesOwnRun

----------------------------------------------------------------------------
(* Session recovery                                                          *)

\* What the counts of one error say of its recoveries.
LEMMA OneMoreInFlight ==
  ASSUME NEW S, IsFiniteSet(S), NEW x, x \notin S
  PROVE  /\ IsFiniteSet(S \cup {x})
         /\ Cardinality(S) \in Nat
         /\ Cardinality(S \cup {x}) = Cardinality(S) + 1
  BY FS_AddElement, FS_CardinalityType

LEMMA OneLessInFlight ==
  ASSUME NEW S, IsFiniteSet(S), NEW x \in S
  PROVE  /\ IsFiniteSet(S \ {x})
         /\ Cardinality(S) \in Nat /\ Cardinality(S \ {x}) \in Nat
         /\ Cardinality(S \ {x}) = Cardinality(S) - 1
  BY FS_RemoveElement, FS_CardinalityType

\* A step that leaves the recoveries alone leaves what is in flight alone.
LEMMA SameInFlight ==
  ASSUME recovery' = recovery
  PROVE  \A k \in ErrorTypes : InFlight(k)' = InFlight(k)
  BY DEF InFlight

\* A step of recovery r that stays at an await.
LEMMA StillInFlight ==
  ASSUME RecoveryTypeOK, NEW r \in Recoveries, NEW at \in {"aborting", "settling", "reading"},
         recovery[r].at # "none", recovery' = [recovery EXCEPT ![r].at = at]
  PROVE  /\ \A k \in ErrorTypes : InFlight(k)' = InFlight(k)
         /\ recovery' \in [Recoveries ->
              [at : {"none", "aborting", "settling", "reading"}, type : Errors]]
         /\ \A q \in Recoveries : recovery'[q].at # "none" => recovery'[q].type \in ErrorTypes
<1>1. recovery \in [Recoveries ->
            [at : {"none", "aborting", "settling", "reading"}, type : Errors]]
  BY DEF RecoveryTypeOK
<1>2. /\ recovery'[r].at = at /\ recovery'[r].type = recovery[r].type
      /\ \A q \in Recoveries \ {r} : recovery'[q] = recovery[q]
  BY <1>1
<1>3. \A q \in Recoveries, k \in ErrorTypes :
        (recovery'[q].at # "none" /\ recovery'[q].type = k) <=>
        (recovery[q].at # "none" /\ recovery[q].type = k)
  BY <1>2
<1>4. \A q \in Recoveries : recovery[q].at # "none" => recovery[q].type \in ErrorTypes
  BY DEF RecoveryTypeOK
<1>5. recovery' \in [Recoveries ->
            [at : {"none", "aborting", "settling", "reading"}, type : Errors]]
  BY <1>1
<1> QED
  BY <1>2, <1>3, <1>4, <1>5 DEF InFlight

LEMMA RecoveryInitially == RecoveryInit => RecoveryInv
<1> SUFFICES ASSUME RecoveryInit PROVE RecoveryInv
  OBVIOUS
<1> USE RecoveryAssumption
<1>1. \A r \in Recoveries : recovery[r].at = "none"
  BY DEF RecoveryInit, NoRecovery
<1>2. \A k \in ErrorTypes : InFlight(k) = {}
  BY <1>1 DEF InFlight
<1>3. \A k \in ErrorTypes : IsFiniteSet(InFlight(k)) /\ Cardinality(InFlight(k)) = 0
  BY <1>2, FS_EmptySet
<1>4. "upstream" \in Errors /\ ErrorTypes \subseteq Errors
  BY DEF Errors
<1>5. RecoveryTypeOK
  <2>1. /\ reports \in [Errors -> 0..(2 * MaxTurns)]
        /\ resumed \in [Errors -> Nat] /\ expiries \in [ErrorTypes -> Nat]
        /\ tries \in [ErrorTypes -> 0..MaxRecovery]
    BY DEF RecoveryInit
  <2>3. failed \in 0..MaxTurns /\ scheduled \in 0..MaxScheduled /\ armed \in Nat
    BY DEF RecoveryInit
  <2>2. recovery \in [Recoveries ->
            [at : {"none", "aborting", "settling", "reading"}, type : Errors]]
    BY <1>4 DEF RecoveryInit, NoRecovery
  <2> QED
    BY <1>1, <2>1, <2>2, <2>3 DEF RecoveryInit, RecoveryTypeOK, Turns
<1>6. PromptsAreCounted
  BY <1>3, <1>4 DEF RecoveryInit, PromptsAreCounted
<1> QED
  BY <1>4, <1>5, <1>6 DEF RecoveryInv, RecoveryInit, LockIsTimed, PromptsAreBounded

\* The bound on prompts is what the counts allow.
LEMMA CountedIsBounded ==
  RecoveryTypeOK /\ PromptsAreCounted => PromptsAreBounded
<1> SUFFICES ASSUME RecoveryTypeOK, PromptsAreCounted, exists PROVE /\ resumed["upstream"] <= MaxScheduled
                                 /\ \A k \in ErrorTypes : resumed[k] <= MaxRecovery
  BY DEF PromptsAreBounded
<1>1. resumed["upstream"] <= MaxScheduled
  BY RecoveryAssumption DEF RecoveryTypeOK, PromptsAreCounted, Errors
<1>2. ASSUME NEW k \in ErrorTypes PROVE resumed[k] <= MaxRecovery
  <2>1. /\ Cardinality(InFlight(k)) \in Nat /\ resumed[k] \in Nat
        /\ tries[k] \in 0 .. MaxRecovery
        /\ resumed[k] + Cardinality(InFlight(k)) <= tries[k]
    BY FS_CardinalityType DEF RecoveryTypeOK, PromptsAreCounted, Errors
  <2> QED
    BY <2>1, RecoveryAssumption
<1> QED
  BY <1>1, <1>2

\* A report is taken from those of its failure.
LEMMA ReportTaken ==
  ASSUME RecoveryTypeOK, PromptsAreCounted, NEW x \in Errors, Reported(x),
         failed' = failed
  PROVE  /\ reports' \in [Errors -> 0..(2 * MaxTurns)]
         /\ \A y \in Errors : reports'[y] <= 2 * failed'
<1>1. \A y \in Errors : /\ reports[y] \in 0..(2 * MaxTurns) /\ reports[y] <= 2 * failed
                        /\ reports'[y] = IF y = x THEN reports[y] - 1 ELSE reports[y]
  BY DEF RecoveryTypeOK, PromptsAreCounted, Reported
<1>2. reports[x] > 0 /\ failed \in Nat /\ 2 * failed \in Nat /\ MaxTurns \in Nat
  BY RecoveryAssumption DEF Reported, RecoveryTypeOK
<1>3. \A y \in Errors : reports'[y] \in 0..(2 * MaxTurns) /\ reports'[y] <= 2 * failed
  BY <1>1, <1>2
<1> QED
  BY <1>3 DEF Reported, RecoveryTypeOK

\* A prompt is counted where it reached the living session.
LEMMA PromptCounted ==
  ASSUME RecoveryTypeOK, NEW x \in Errors, Prompted(x)
  PROVE  /\ turn' \in Turns /\ refused' \in BOOLEAN
         /\ resumed' \in [Errors -> Nat]
         /\ \A y \in Errors : resumed[y] \in Nat /\ resumed'[y] \in Nat
         /\ \A y \in Errors \ {x} : resumed'[y] = resumed[y]
         /\ resumed'[x] <= resumed[x] + 1
<1>1. resumed \in [Errors -> Nat] /\ turn \in Turns /\ refused \in BOOLEAN
  BY DEF RecoveryTypeOK
<1>2. CASE exists /\ turn' = "running" /\ resumed' = [resumed EXCEPT ![x] = @ + 1]
           /\ UNCHANGED refused
  BY <1>1, <1>2 DEF Turns
<1>3. CASE refused' = TRUE /\ UNCHANGED <<turn, resumed>>
  BY <1>1, <1>3
<1> QED
  BY <1>2, <1>3 DEF Prompted

LEMMA RecoveryStep == RecoveryInv /\ [RecoveryNext]_recoveryVars => RecoveryInv'
<1> SUFFICES ASSUME RecoveryInv, [RecoveryNext]_recoveryVars
             PROVE  RecoveryTypeOK' /\ LockIsTimed' /\ PromptsAreCounted'
  <2>2. (RecoveryTypeOK /\ PromptsAreCounted => PromptsAreBounded)'
    BY CountedIsBounded, PTL
  <2> QED
    BY <2>2 DEF RecoveryInv
<1> USE RecoveryAssumption
<1>0. RecoveryTypeOK /\ LockIsTimed /\ PromptsAreCounted
  BY DEF RecoveryInv
<1>t. "upstream" \in Errors /\ ErrorTypes \subseteq Errors /\ "upstream" \notin ErrorTypes
  BY DEF Errors
<1>c. \A k \in ErrorTypes : IsFiniteSet(InFlight(k)) /\ Cardinality(InFlight(k)) \in Nat
  BY <1>0, FS_CardinalityType DEF PromptsAreCounted
<1>1. ASSUME NEW x \in Errors, TurnFails(x)
      PROVE  RecoveryTypeOK' /\ LockIsTimed' /\ PromptsAreCounted'
  <2>1. /\ \A y \in Errors : reports[y] \in 0..(2 * MaxTurns) /\ reports[y] <= 2 * failed
        /\ failed \in Nat /\ failed < MaxTurns
    BY <1>0, <1>1 DEF RecoveryTypeOK, PromptsAreCounted, TurnFails
  <2>2. reports' = [reports EXCEPT ![x] = reports[x] + 2] /\ failed' = failed + 1
    BY <1>1 DEF TurnFails
  <2>3. \A y \in Errors : /\ reports[y] + 2 \in 0..(2 * MaxTurns)
                          /\ reports[y] + 2 <= 2 * failed'
                          /\ reports[y] <= 2 * failed'
    BY <2>1, <2>2
  <2>4. /\ reports' \in [Errors -> 0..(2 * MaxTurns)] /\ failed' \in 0..MaxTurns
        /\ \A y \in Errors : reports'[y] <= 2 * failed'
    BY <2>1, <2>2, <2>3, <1>0 DEF RecoveryTypeOK
  <2>5. \A k \in ErrorTypes : InFlight(k)' = InFlight(k)
    BY <1>1, SameInFlight DEF TurnFails
  <2>6. RecoveryTypeOK'
    BY <1>0, <1>1, <2>4 DEF RecoveryTypeOK, TurnFails, Turns
  <2>7. LockIsTimed'
    BY <1>0, <1>1 DEF LockIsTimed, TurnFails
  <2>8. PromptsAreCounted'
    BY <1>0, <1>1, <2>4, <2>5 DEF PromptsAreCounted, TurnFails
  <2> QED
    BY <2>6, <2>7, <2>8
<1>2. CASE UpstreamReported
  <2>1. /\ reports' \in [Errors -> 0..(2 * MaxTurns)]
        /\ \A y \in Errors : reports'[y] <= 2 * failed'
    BY <1>0, <1>2, <1>t, ReportTaken DEF UpstreamReported
  <2>2. \A k \in ErrorTypes : InFlight(k)' = InFlight(k)
    BY <1>2, SameInFlight DEF UpstreamReported
  <2>3. CASE UNCHANGED <<scheduled, locked, armed>>
    <3>1. RecoveryTypeOK' /\ LockIsTimed'
      BY <1>0, <1>2, <2>1, <2>3 DEF RecoveryTypeOK, UpstreamReported, LockIsTimed
    <3>2. PromptsAreCounted'
      BY <1>0, <1>2, <2>1, <2>2, <2>3 DEF PromptsAreCounted, UpstreamReported
    <3> QED
      BY <3>1, <3>2
  <2>4. CASE /\ ~locked /\ ~(scheduled >= MaxScheduled)
             /\ scheduled' = scheduled + 1 /\ locked' = TRUE /\ armed' = armed + 1
    <3>1. armed = 0 /\ scheduled \in Nat
      BY <1>0, <2>4 DEF LockIsTimed, RecoveryTypeOK
    <3>2. LockIsTimed' /\ scheduled' \in 0..MaxScheduled /\ armed' \in Nat
      BY <2>4, <3>1 DEF LockIsTimed
    <3>3. RecoveryTypeOK'
      BY <1>0, <1>2, <2>1, <2>4, <3>2 DEF RecoveryTypeOK, UpstreamReported
    <3>4. exists => resumed'["upstream"] + armed' <= scheduled'
      BY <1>0, <1>2, <1>t, <2>4, <3>1 DEF RecoveryTypeOK, PromptsAreCounted, UpstreamReported
    <3>5. PromptsAreCounted'
      BY <1>0, <1>2, <2>1, <2>2, <3>4 DEF PromptsAreCounted, UpstreamReported
    <3> QED
      BY <3>2, <3>3, <3>5
  <2> QED
    BY <1>2, <2>3, <2>4 DEF UpstreamReported
<1>3. CASE RetryTimer
  <2>1. /\ turn' \in Turns /\ refused' \in BOOLEAN
        /\ resumed' \in [Errors -> Nat]
        /\ resumed["upstream"] \in Nat /\ resumed'["upstream"] \in Nat
        /\ resumed'["upstream"] <= resumed["upstream"] + 1
        /\ \A k \in ErrorTypes : resumed'[k] = resumed[k]
    BY <1>0, <1>3, <1>t, PromptCounted DEF RetryTimer
  <2>2. \A k \in ErrorTypes : InFlight(k)' = InFlight(k)
    BY <1>3, SameInFlight DEF RetryTimer
  <2>3. /\ locked' = FALSE /\ armed \in Nat /\ armed > 0 /\ armed' = armed - 1
        /\ scheduled \in Nat
    BY <1>0, <1>3 DEF RetryTimer, RecoveryTypeOK
  <2>4. armed' = 0
    BY <1>0, <2>3 DEF LockIsTimed
  <2>5. LockIsTimed'
    BY <2>3, <2>4 DEF LockIsTimed
  <2>9. UNCHANGED <<reports, failed, exists, seen, expiries, tries, scheduled, recovery>>
    BY <1>3 DEF RetryTimer
  <2>10. armed' \in Nat
    BY <2>4
  <2>11. locked' \in BOOLEAN
    BY <2>3
  <2>8. RecoveryTypeOK'
    BY <1>0, <2>1, <2>9, <2>10, <2>11 DEF RecoveryTypeOK
  <2>6. exists => resumed'["upstream"] + armed' <= scheduled
    BY <1>0, <2>1, <2>3 DEF PromptsAreCounted
  <2>7. PromptsAreCounted'
    BY <1>0, <1>3, <2>1, <2>2, <2>6 DEF PromptsAreCounted, RetryTimer
  <2> QED
    BY <2>5, <2>7, <2>8
<1>4. ASSUME NEW k \in ErrorTypes, NEW r \in Recoveries, RecoveryStarts(k, r)
      PROVE  RecoveryTypeOK' /\ LockIsTimed' /\ PromptsAreCounted'
  <2>1. /\ reports' \in [Errors -> 0..(2 * MaxTurns)]
        /\ \A y \in Errors : reports'[y] <= 2 * failed'
    BY <1>0, <1>4, <1>t, ReportTaken DEF RecoveryStarts
  <2>2. /\ UNCHANGED <<turn, failed, exists, scheduled, locked, armed, resumed, refused>>
        /\ seen' \subseteq ErrorTypes /\ expiries' \in [ErrorTypes -> Nat]
    BY <1>0, <1>4 DEF RecoveryTypeOK, RecoveryStarts
  <2>3. LockIsTimed'
    BY <1>0, <2>2 DEF LockIsTimed
  <2>4. CASE UNCHANGED <<tries, recovery>>
    <3>1. \A j \in ErrorTypes : InFlight(j)' = InFlight(j)
      BY <2>4, SameInFlight
    <3>2. RecoveryTypeOK'
      BY <1>0, <2>1, <2>2, <2>4 DEF RecoveryTypeOK
    <3>3. PromptsAreCounted'
      BY <1>0, <2>1, <2>2, <2>4, <3>1 DEF PromptsAreCounted
    <3> QED
      BY <2>3, <3>2, <3>3
  <2>5. CASE /\ recovery[r] = NoRecovery /\ ~(tries[k] >= MaxRecovery)
             /\ tries' = [tries EXCEPT ![k] = @ + 1]
             /\ recovery' = [recovery EXCEPT ![r] = [at |-> "aborting", type |-> k]]
    <3>1. /\ recovery \in [Recoveries ->
                [at : {"none", "aborting", "settling", "reading"}, type : Errors]]
          /\ tries \in [ErrorTypes -> 0..MaxRecovery]
      BY <1>0 DEF RecoveryTypeOK
    <3>2. /\ \A j \in ErrorTypes \ {k} : tries'[j] = tries[j] /\ InFlight(j)' = InFlight(j)
          /\ tries'[k] = tries[k] + 1
          /\ InFlight(k)' = InFlight(k) \cup {r} /\ r \notin InFlight(k)
      BY <2>5, <3>1 DEF InFlight, NoRecovery
    <3>3. RecoveryTypeOK'
      <4>1. tries' \in [ErrorTypes -> 0..MaxRecovery]
        BY <2>5, <3>1
      <4>2. recovery' \in [Recoveries ->
                [at : {"none", "aborting", "settling", "reading"}, type : Errors]]
        BY <2>5, <3>1, <1>t
      <4>3. \A q \in Recoveries : recovery'[q].at # "none" => recovery'[q].type \in ErrorTypes
        BY <1>0, <2>5, <3>1 DEF RecoveryTypeOK
      <4> QED
        BY <1>0, <2>1, <2>2, <4>1, <4>2, <4>3 DEF RecoveryTypeOK
    <3>4. /\ IsFiniteSet(InFlight(k)')
          /\ Cardinality(InFlight(k)') = Cardinality(InFlight(k)) + 1
      BY <1>c, <3>2, OneMoreInFlight
    <3>5. \A j \in ErrorTypes : IsFiniteSet(InFlight(j)')
      BY <1>c, <3>2, <3>4
    <3>6. exists => \A j \in ErrorTypes :
              resumed[j] + Cardinality(InFlight(j)') <= tries'[j]
      <4> SUFFICES ASSUME exists, NEW j \in ErrorTypes
                   PROVE  resumed[j] + Cardinality(InFlight(j)') <= tries'[j]
        OBVIOUS
      <4>1. /\ resumed[j] \in Nat /\ Cardinality(InFlight(j)) \in Nat /\ tries[j] \in Nat
            /\ resumed[j] + Cardinality(InFlight(j)) <= tries[j]
        BY <1>0, <1>c, <1>t DEF RecoveryTypeOK, PromptsAreCounted
      <4>2. CASE j = k
        BY <3>2, <3>4, <4>1, <4>2
      <4>3. CASE j # k
        BY <3>2, <4>1, <4>3
      <4> QED
        BY <4>2, <4>3
    <3>7. PromptsAreCounted'
      BY <1>0, <2>1, <2>2, <3>5, <3>6 DEF PromptsAreCounted
    <3> QED
      BY <2>3, <3>3, <3>7
  <2> QED
    BY <1>4, <2>4, <2>5 DEF RecoveryStarts
<1>5. ASSUME NEW r \in Recoveries, Aborted(r) \/ Settled(r)
      PROVE  RecoveryTypeOK' /\ LockIsTimed' /\ PromptsAreCounted'
  <2>1. /\ recovery[r].at # "none"
        /\ \E at \in {"aborting", "settling", "reading"} :
              recovery' = [recovery EXCEPT ![r].at = at]
        /\ turn' \in Turns
        /\ UNCHANGED <<reports, failed, exists, seen, expiries, tries, scheduled,
                       locked, armed, resumed, refused>>
    BY <1>0, <1>5 DEF Aborted, Settled, RecoveryTypeOK, Turns
  <2>2. /\ \A k \in ErrorTypes : InFlight(k)' = InFlight(k)
        /\ recovery' \in [Recoveries ->
              [at : {"none", "aborting", "settling", "reading"}, type : Errors]]
        /\ \A q \in Recoveries : recovery'[q].at # "none" => recovery'[q].type \in ErrorTypes
    BY <1>0, <2>1, StillInFlight
  <2>3. RecoveryTypeOK' /\ LockIsTimed'
    BY <1>0, <2>1, <2>2 DEF RecoveryTypeOK, LockIsTimed
  <2>4. PromptsAreCounted'
    BY <1>0, <2>1, <2>2 DEF PromptsAreCounted
  <2> QED
    BY <2>3, <2>4
<1>6. ASSUME NEW r \in Recoveries, Resumes(r)
      PROVE  RecoveryTypeOK' /\ LockIsTimed' /\ PromptsAreCounted'
  <2> PICK x : x = recovery[r].type
    OBVIOUS
  <2>0. /\ recovery \in [Recoveries ->
              [at : {"none", "aborting", "settling", "reading"}, type : Errors]]
        /\ x \in Errors /\ recovery[r].at = "reading"
        /\ recovery' = [recovery EXCEPT ![r] = NoRecovery]
        /\ UNCHANGED <<reports, failed, exists, seen, expiries, tries, scheduled,
                       locked, armed>>
    BY <1>0, <1>6 DEF RecoveryTypeOK, Resumes
  <2>1. Prompted(x) \/ UNCHANGED <<turn, resumed, refused>>
    BY <1>6 DEF Resumes
  <2>2. /\ turn' \in Turns /\ refused' \in BOOLEAN /\ resumed' \in [Errors -> Nat]
        /\ \A y \in Errors : resumed[y] \in Nat /\ resumed'[y] \in Nat
        /\ \A y \in Errors \ {x} : resumed'[y] = resumed[y]
        /\ resumed'[x] <= resumed[x] + 1
    <3>1. CASE Prompted(x)
      BY <1>0, <2>0, <3>1, PromptCounted
    <3>2. CASE UNCHANGED <<turn, resumed, refused>>
      BY <1>0, <2>0, <3>2 DEF RecoveryTypeOK
    <3> QED
      BY <2>1, <3>1, <3>2
  <2>3. \A k \in ErrorTypes \ {x} : InFlight(k)' = InFlight(k)
    BY <2>0 DEF InFlight, NoRecovery
  <2>4. x \in ErrorTypes => r \in InFlight(x) /\ InFlight(x)' = InFlight(x) \ {r}
    <3>1. recovery[r].type = x /\ recovery[r].at # "none"
      BY <2>0
    <3>2. /\ recovery'[r].at = "none"
          /\ \A q \in Recoveries \ {r} : recovery'[q] = recovery[q]
      BY <2>0 DEF NoRecovery
    <3> QED
      BY <3>1, <3>2 DEF InFlight
  <2>5. x \in ErrorTypes => /\ IsFiniteSet(InFlight(x)')
                            /\ Cardinality(InFlight(x)') \in Nat
                            /\ Cardinality(InFlight(x)') = Cardinality(InFlight(x)) - 1
    BY <1>c, <2>4, OneLessInFlight
  <2>6. RecoveryTypeOK'
    <3>1. recovery' \in [Recoveries ->
              [at : {"none", "aborting", "settling", "reading"}, type : Errors]]
      BY <2>0, <1>t DEF NoRecovery
    <3>2. \A q \in Recoveries : recovery'[q].at # "none" => recovery'[q].type \in ErrorTypes
      BY <1>0, <2>0 DEF RecoveryTypeOK, NoRecovery
    <3> QED
      BY <1>0, <2>0, <2>2, <3>1, <3>2 DEF RecoveryTypeOK
  <2>7. LockIsTimed'
    BY <1>0, <2>0 DEF LockIsTimed
  <2>8. exists => resumed'["upstream"] + armed <= scheduled
    <3>1. x \in ErrorTypes
      BY <1>0, <2>0 DEF RecoveryTypeOK
    <3> QED
      BY <1>0, <1>t, <2>2, <3>1 DEF PromptsAreCounted
  <2>9. PromptsAreCounted'
    <3>1. \A k \in ErrorTypes : IsFiniteSet(InFlight(k)')
      BY <1>c, <2>3, <2>5
    <3>2. exists => \A k \in ErrorTypes :
              resumed'[k] + Cardinality(InFlight(k)') <= tries[k]
      <4> SUFFICES ASSUME exists, NEW k \in ErrorTypes
                   PROVE  resumed'[k] + Cardinality(InFlight(k)') <= tries[k]
        OBVIOUS
      <4>1. /\ resumed[k] \in Nat /\ resumed'[k] \in Nat
            /\ Cardinality(InFlight(k)) \in Nat /\ tries[k] \in Nat
            /\ resumed[k] + Cardinality(InFlight(k)) <= tries[k]
        BY <1>0, <1>c, <1>t, <2>2 DEF RecoveryTypeOK, PromptsAreCounted
      <4>2. CASE k = x
        BY <2>2, <2>5, <4>1, <4>2
      <4>3. CASE k # x
        BY <2>2, <2>3, <1>t, <4>1, <4>3
      <4> QED
        BY <4>2, <4>3
    <3> QED
      BY <1>0, <2>0, <2>8, <3>1, <3>2 DEF PromptsAreCounted
  <2> QED
    BY <2>6, <2>7, <2>9
<1>7. ASSUME NEW k \in ErrorTypes, DedupeExpires(k)
      PROVE  RecoveryTypeOK' /\ LockIsTimed' /\ PromptsAreCounted'
  <2>1. expiries \in [ErrorTypes -> Nat] /\ expiries[k] > 0
        /\ expiries' = [expiries EXCEPT ![k] = @ - 1] /\ seen' = seen \ {k}
    BY <1>0, <1>7 DEF RecoveryTypeOK, DedupeExpires
  <2>2. expiries' \in [ErrorTypes -> Nat]
    BY <2>1
  <2>3. \A j \in ErrorTypes : InFlight(j)' = InFlight(j)
    BY <1>7, SameInFlight DEF DedupeExpires
  <2>4. RecoveryTypeOK' /\ LockIsTimed'
    BY <1>0, <1>7, <2>1, <2>2 DEF RecoveryTypeOK, LockIsTimed, DedupeExpires
  <2>5. PromptsAreCounted'
    BY <1>0, <1>7, <2>3 DEF PromptsAreCounted, DedupeExpires
  <2> QED
    BY <2>4, <2>5
<1>8. CASE SessionDeleted
  <2>1. \A j \in ErrorTypes : InFlight(j)' = InFlight(j)
    BY <1>8, SameInFlight DEF SessionDeleted
  <2>5. scheduled' \in 0..MaxScheduled /\ armed' \in Nat /\ tries' \in [ErrorTypes -> 0..MaxRecovery]
    BY <1>8 DEF SessionDeleted
  <2>6. turn' \in Turns /\ exists' \in BOOLEAN /\ locked' \in BOOLEAN /\ seen' \subseteq ErrorTypes
    BY <1>8 DEF SessionDeleted, Turns
  <2>7. UNCHANGED <<reports, failed, expiries, recovery, resumed, refused>>
    BY <1>8 DEF SessionDeleted
  <2>2. RecoveryTypeOK'
    BY <1>0, <2>5, <2>6, <2>7 DEF RecoveryTypeOK
  <2>4. LockIsTimed'
    BY <1>8 DEF LockIsTimed, SessionDeleted
  <2>3. PromptsAreCounted'
    BY <1>0, <1>8, <2>1 DEF PromptsAreCounted, SessionDeleted
  <2> QED
    BY <2>2, <2>3, <2>4
<1>9. CASE UNCHANGED recoveryVars
  <2>1. \A j \in ErrorTypes : InFlight(j)' = InFlight(j)
    BY <1>9, SameInFlight DEF recoveryVars
  <2>2. RecoveryTypeOK' /\ LockIsTimed'
    BY <1>0, <1>9 DEF RecoveryTypeOK, LockIsTimed, recoveryVars
  <2>3. PromptsAreCounted'
    BY <1>0, <1>9, <2>1 DEF PromptsAreCounted, recoveryVars
  <2> QED
    BY <2>2, <2>3
<1> QED
  BY <1>1, <1>2, <1>3, <1>4, <1>5, <1>6, <1>7, <1>8, <1>9 DEF RecoveryNext

----------------------------------------------------------------------------
(* Compactions                                                               *)

\* One call at a time, said of any two calls.
LEMMA OneAtATime ==
  ASSUME NEW S, \A c, d \in S : c = d
  PROVE  IsFiniteSet(S) /\ Cardinality(S) <= 1
<1>1. CASE S = {}
  BY <1>1, FS_EmptySet
<1>2. CASE S # {}
  <2>1. PICK c : S = {c}
    BY <1>2
  <2>2. IsFiniteSet({c}) /\ Cardinality({c}) = 1
    BY FS_Singleton
  <2> QED
    BY <2>1, <2>2
<1> QED
  BY <1>1, <1>2

\* What OneCompaction says of two calls, if the calls are not infinitely many.
CompactingCalls == {c \in Compactions : compaction[c] # "none"}
AloneCompacting == alive => \A c, d \in CompactingCalls : c = d

LEMMA CompactInitially == CompactInit => CompactInv /\ AloneCompacting
<1> SUFFICES ASSUME CompactInit PROVE CompactInv /\ AloneCompacting
  OBVIOUS
<1>1. CompactingCalls = {}
  BY DEF CompactInit, CompactingCalls
<1>2. AloneCompacting
  BY <1>1 DEF AloneCompacting
<1>3. OneCompaction
  BY <1>1, OneAtATime DEF OneCompaction, CompactingCalls
<1>4. CompactTypeOK /\ CompactingIsMarked /\ WaitIsTimed
  BY DEF CompactInit, CompactTypeOK, Stages, CompactingIsMarked, WaitIsTimed
<1> QED
  BY <1>2, <1>3, <1>4 DEF CompactInv

\* A call that goes from one await to the next.
LEMMA CallGoesOn ==
  ASSUME CompactTypeOK, CompactingIsMarked, AloneCompacting,
         NEW c \in Compactions, compaction[c] # "none",
         NEW at \in Stages \ {"none"}, compaction' = [compaction EXCEPT ![c] = at],
         UNCHANGED <<alive, inProgress>>
  PROVE  /\ compaction' \in [Compactions -> Stages]
         /\ CompactingIsMarked' /\ AloneCompacting'
<1>1. /\ compaction'[c] = at
      /\ \A d \in Compactions \ {c} : compaction'[d] = compaction[d]
      /\ compaction' \in [Compactions -> Stages]
  BY DEF CompactTypeOK
<1>2. CompactingCalls' = CompactingCalls
  BY <1>1 DEF CompactingCalls
<1> QED
  BY <1>1, <1>2 DEF CompactingIsMarked, AloneCompacting

\* A call that ends takes the session's mark with it: it is the only one.
LEMMA CallEnds ==
  ASSUME CompactTypeOK, CompactingIsMarked, AloneCompacting,
         NEW c \in Compactions, compaction[c] # "none",
         compaction' = [compaction EXCEPT ![c] = "none"],
         UNCHANGED alive
  PROVE  /\ compaction' \in [Compactions -> Stages]
         /\ CompactingIsMarked' /\ AloneCompacting'
<1>1. /\ compaction'[c] = "none"
      /\ \A d \in Compactions \ {c} : compaction'[d] = compaction[d]
      /\ compaction' \in [Compactions -> Stages]
  BY DEF CompactTypeOK, Stages
<1>2. CompactingCalls' = CompactingCalls \ {c} /\ c \in CompactingCalls
  BY <1>1 DEF CompactingCalls
<1>3. alive => CompactingCalls' = {}
  BY <1>2 DEF AloneCompacting
<1> QED
  BY <1>1, <1>3 DEF CompactingIsMarked, AloneCompacting, CompactingCalls

LEMMA CompactStep ==
  CompactInv /\ AloneCompacting /\ [CompactNext]_compactVars
    => CompactInv' /\ AloneCompacting'
<1> SUFFICES ASSUME CompactInv, AloneCompacting, [CompactNext]_compactVars
             PROVE  /\ CompactTypeOK' /\ WaitIsTimed'
                    /\ CompactingIsMarked' /\ AloneCompacting'
  <2>1. AloneCompacting => OneCompaction
    BY OneAtATime DEF AloneCompacting, OneCompaction, CompactingCalls
  <2>2. AloneCompacting' => OneCompaction'
    BY OneAtATime DEF AloneCompacting, OneCompaction, CompactingCalls
  <2> QED
    BY <2>2 DEF CompactInv
<1> USE CompactAssumption
<1>0. CompactTypeOK /\ CompactingIsMarked /\ WaitIsTimed
  BY DEF CompactInv
<1>1. ASSUME NEW c \in Compactions, OverThreshold(c)
      PROVE  CompactTypeOK' /\ WaitIsTimed' /\ CompactingIsMarked' /\ AloneCompacting'
  <2>1. /\ compaction' = [compaction EXCEPT ![c] = "toast"] /\ inProgress' = TRUE
        /\ ~inProgress /\ UNCHANGED <<waiting, waitTimers, cooling, alive>>
        /\ settled' = [settled EXCEPT ![c] = "open"]
    BY <1>1 DEF OverThreshold
  <2>2. alive => CompactingCalls = {}
    BY <1>0, <2>1 DEF CompactingIsMarked, CompactingCalls
  <2>3. CompactingCalls' = CompactingCalls \cup {c}
    BY <1>0, <2>1 DEF CompactingCalls, CompactTypeOK
  <2>4. CompactTypeOK' /\ WaitIsTimed'
    BY <1>0, <2>1 DEF CompactTypeOK, Stages, WaitIsTimed
  <2>5. CompactingIsMarked' /\ AloneCompacting'
    BY <2>1, <2>2, <2>3 DEF CompactingIsMarked, AloneCompacting
  <2> QED
    BY <2>4, <2>5
<1>2. ASSUME NEW c \in Compactions, WaitStarts(c) \/ SummarizeReturns(c) \/ LedgerWritten(c)
      PROVE  CompactTypeOK' /\ WaitIsTimed' /\ CompactingIsMarked' /\ AloneCompacting'
  <2>1. /\ compaction[c] # "none"
        /\ \E at \in Stages \ {"none"} : compaction' = [compaction EXCEPT ![c] = at]
        /\ UNCHANGED <<settled, inProgress, cooling, alive>>
    BY <1>2 DEF WaitStarts, SummarizeReturns, LedgerWritten, Stages
  <2>2. /\ compaction' \in [Compactions -> Stages]
        /\ CompactingIsMarked' /\ AloneCompacting'
    BY <1>0, <2>1, CallGoesOn
  <2>3. /\ waiting' \in Compactions \cup {NoCompaction} /\ waitTimers' \subseteq Compactions
        /\ WaitIsTimed'
    BY <1>0, <1>2 DEF CompactTypeOK, WaitIsTimed, WaitStarts, SummarizeReturns, LedgerWritten
  <2>4. CompactTypeOK'
    BY <1>0, <2>1, <2>2, <2>3 DEF CompactTypeOK
  <2> QED
    BY <2>2, <2>3, <2>4
<1>3. ASSUME NEW c \in Compactions, SummarizeFails(c) \/ Continued(c)
      PROVE  CompactTypeOK' /\ WaitIsTimed' /\ CompactingIsMarked' /\ AloneCompacting'
  <2>1. /\ compaction[c] # "none" /\ compaction' = [compaction EXCEPT ![c] = "none"]
        /\ inProgress' = FALSE
        /\ UNCHANGED <<waiting, waitTimers, settled, cooling, alive>>
    BY <1>3 DEF SummarizeFails, Continued
  <2>2. /\ compaction' \in [Compactions -> Stages]
        /\ CompactingIsMarked' /\ AloneCompacting'
    BY <1>0, <2>1, CallEnds
  <2>3. CompactTypeOK' /\ WaitIsTimed'
    BY <1>0, <2>1, <2>2 DEF CompactTypeOK, WaitIsTimed
  <2> QED
    BY <2>2, <2>3
<1>4. ASSUME NEW c \in Compactions, WaitEnds(c)
      PROVE  CompactTypeOK' /\ WaitIsTimed' /\ CompactingIsMarked' /\ AloneCompacting'
  <2>1. compaction[c] # "none" /\ UNCHANGED <<waiting, waitTimers, settled, alive>>
    BY <1>4 DEF WaitEnds
  <2>2. CASE /\ compaction' = [compaction EXCEPT ![c] = "ledger"]
             /\ cooling' = TRUE /\ UNCHANGED inProgress
    <3>1. "ledger" \in Stages \ {"none"}
      BY DEF Stages
    <3>2. /\ compaction' \in [Compactions -> Stages]
          /\ CompactingIsMarked' /\ AloneCompacting'
      BY <1>0, <2>1, <2>2, <3>1, CallGoesOn
    <3> QED
      BY <1>0, <2>1, <2>2, <3>2 DEF CompactTypeOK, WaitIsTimed
  <2>3. CASE /\ compaction' = [compaction EXCEPT ![c] = "none"]
             /\ inProgress' = FALSE /\ UNCHANGED cooling
    <3>1. /\ compaction' \in [Compactions -> Stages]
          /\ CompactingIsMarked' /\ AloneCompacting'
      BY <1>0, <2>1, <2>3, CallEnds
    <3> QED
      BY <1>0, <2>1, <2>3, <3>1 DEF CompactTypeOK, WaitIsTimed
  <2> QED
    BY <1>4, <2>2, <2>3 DEF WaitEnds
<1>5. ASSUME NEW c \in Compactions, WaitTimesOut(c)
      PROVE  CompactTypeOK' /\ WaitIsTimed' /\ CompactingIsMarked' /\ AloneCompacting'
  <2>1. CompactingIsMarked' /\ AloneCompacting'
    BY <1>0, <1>5 DEF WaitTimesOut, CompactingIsMarked, AloneCompacting, CompactingCalls
  <2>2. CompactTypeOK' /\ WaitIsTimed'
    BY <1>0, <1>5 DEF WaitTimesOut, CompactTypeOK, WaitIsTimed
  <2> QED
    BY <2>1, <2>2
<1>6. CASE SummaryMessage \/ CooldownEnds
  <2>1. CompactingIsMarked' /\ AloneCompacting'
    BY <1>0, <1>6 DEF SummaryMessage, CooldownEnds, CompactingIsMarked, AloneCompacting,
                      CompactingCalls
  <2>2. CompactTypeOK' /\ WaitIsTimed'
    BY <1>0, <1>6 DEF SummaryMessage, CooldownEnds, CompactTypeOK, WaitIsTimed
  <2> QED
    BY <2>1, <2>2
<1>7. CASE CompactingSessionDeleted
  <2>1. CompactingIsMarked' /\ AloneCompacting'
    BY <1>7 DEF CompactingSessionDeleted, CompactingIsMarked, AloneCompacting
  <2>2. CompactTypeOK' /\ WaitIsTimed'
    BY <1>0, <1>7 DEF CompactingSessionDeleted, CompactTypeOK, WaitIsTimed
  <2> QED
    BY <2>1, <2>2
<1>8. CASE UNCHANGED compactVars
  BY <1>0, <1>8 DEF compactVars, CompactTypeOK, WaitIsTimed, CompactingIsMarked,
                    AloneCompacting, CompactingCalls
<1> QED
  BY <1>1, <1>2, <1>3, <1>4, <1>5, <1>6, <1>7, <1>8 DEF CompactNext

----------------------------------------------------------------------------
(* What keeps failing calls going, and from going on for ever                *)

\* Retries, recoveries and compactions keep to their bounds and locks, for any
\* number of recoveries, compactions, attempts and error types: an upstream
\* retry is armed exactly while the session is locked for it, the living session
\* is prompted no oftener than was counted, one compaction runs at a time and
\* what it waits for has a timeout (src/hooks/session-recovery.ts,
\* src/hooks/auto-compact.ts).
THEOREM ProgressIsBounded == ProgressSpec => []ProgressInv
<1> DEFINE IInv == ProgressInv /\ AloneCompacting
<1>1. ProgressInit => IInv
  BY RecoveryInitially, CompactInitially DEF ProgressInit, ProgressInv
<1>2. IInv /\ [ProgressNext]_progressVars => IInv'
  <2> SUFFICES ASSUME ProgressInv, AloneCompacting, [ProgressNext]_progressVars
               PROVE  ProgressInv' /\ AloneCompacting'
    OBVIOUS
  <2>1. [RecoveryNext]_recoveryVars /\ [CompactNext]_compactVars
    BY DEF ProgressNext, progressVars
  <2> QED
    BY <2>1, RecoveryStep, CompactStep DEF ProgressInv
<1> QED
  BY <1>1, <1>2, PTL DEF ProgressSpec
=============================================================================
