----------------------------- MODULE SpawnAgent -----------------------------
(* The spawn_agent tool: the calls that run a child session, with their      *)
(* transient retries; the registry of running children that the generation   *)
(* fence reads; cleanup_parent_run, which aborts the children of an earlier  *)
(* run; and the sweep that expires records.  src/tools/spawn-agent/ and the  *)
(* cleanup tool and sweep timer of src/index.ts.                              *)
(*                                                                            *)
(* A session id is <<c, n>>: the session that the n-th attempt of call c      *)
(* asks OpenCode for.  A record of the registry carries the owner, run,       *)
(* generation and task of the call that registered it, so that only its       *)
(* state is kept here.  "preserved" is not a state: no code outside the tests *)
(* calls preserve or markPreserved.                                           *)
EXTENDS Naturals, FiniteSets

CONSTANTS Calls,              \* tasks handed to the tool
          Owners,             \* sessions that call it; run ids are session ids
          Tasks,              \* task identities
          Generations,        \* generations that spawn metadata may carry
          CleanupMax,         \* CLEANUP_GENERATION_MAX
          Retries,            \* config.subagent.transientRetries
          None

ASSUME SpawnAssumption ==
  /\ Generations \subseteq Nat \ {0}
  /\ CleanupMax \in Nat \ {0}
  /\ Retries \in Nat
  /\ None \notin Calls \X (1..Retries + 1)

VARIABLES calls,    \* the call: its step, metadata, last session and outcome
          records,  \* SpawnSessionRegistry: the state of each record
          live,     \* sessions that exist in OpenCode
          stray,    \* live sessions whose deletion failed for good, or whose
                    \* creation was answered by an error
          cleanup   \* the cleanup_parent_run call in progress
vars == <<calls, records, live, stray, cleanup>>

Sessions == Calls \X (1..Retries + 1)
Classes == {"success", "task_error", "blocked", "hard_failure",
            "review_changes_requested"}
Meta == [owner : Owners, run : Owners, generation : Generations, task : Tasks]

CallRecords ==
  [pc : {"idle", "creating", "prompting", "dropping", "backoff", "verifying",
         "settled", "closing", "done"},
   meta : Meta \cup {None}, session : Sessions \cup {None},
   retries : 0..Retries, outcome : Classes \cup {"fenced", None}]
Cleanups == [owner : Owners \cup {None}, run : Owners \cup {None},
             generation : 0..CleanupMax, deleting : SUBSET Sessions,
             asked : SUBSET Sessions]

TypeOK ==
  /\ calls \in [Calls -> CallRecords]
  /\ records \in [Sessions -> {"none", "running", "aborted"}]
  /\ live \subseteq Sessions /\ stray \subseteq live
  /\ cleanup \in Cleanups

NoCleanup == [owner |-> None, run |-> None, generation |-> 0,
              deleting |-> {}, asked |-> {}]

Init ==
  /\ calls = [c \in Calls |-> [pc |-> "idle", meta |-> None, session |-> None,
                               retries |-> 0, outcome |-> None]]
  /\ records = [s \in Sessions |-> "none"]
  /\ live = {} /\ stray = {} /\ cleanup = NoCleanup

MetaOf(s) == calls[s[1]].meta
Running == {s \in Sessions : records[s] = "running"}
AttemptSession(c) == <<c, calls[c].retries + 1>>

(* deleteInternalSession: up to three tries, and it never throws. *)
Delete(s) ==
  \/ live' = live \ {s} /\ stray' = stray \ {s}
  \/ live' = live /\ stray' = stray \cup ({s} \cap live)

----------------------------------------------------------------------------
(* evaluateFence: running children of the same owner and task that belong to *)
(* another run or generation.                                                 *)
Conflicts(m) ==
  {s \in Running : /\ MetaOf(s).owner = m.owner
                   /\ MetaOf(s).task = m.task
                   /\ \/ MetaOf(s).run # m.run
                      \/ MetaOf(s).generation # m.generation}

(* runAgent up to its first await: the fence, then session.create. *)
Launch(c, m) ==
  /\ calls[c].pc = "idle"
  /\ calls' = [calls EXCEPT ![c] =
       IF Conflicts(m) = {} THEN [@ EXCEPT !.pc = "creating", !.meta = m]
       ELSE [@ EXCEPT !.pc = "done", !.meta = m, !.outcome = "fenced"]]
  /\ UNCHANGED <<records, live, stray, cleanup>>

(* session.create answered: onCreated registers the child and the prompt is   *)
(* sent, in one synchronous step.                                             *)
Created(c) ==
  LET s == AttemptSession(c) IN
  /\ calls[c].pc = "creating"
  /\ calls' = [calls EXCEPT ![c].pc = "prompting", ![c].session = s]
  /\ records' = [records EXCEPT ![s] = "running"]
  /\ live' = live \cup {s}
  /\ UNCHANGED <<stray, cleanup>>

(* runSpawnAttempt after its last attempt: a session that is no longer        *)
(* registered is registered again.                                            *)
SettledCall(c, outcome) ==
  [calls[c] EXCEPT !.pc = "settled", !.outcome = outcome]
Reregistered(c, recs) ==
  IF calls[c].session = None THEN recs
  ELSE [recs EXCEPT ![calls[c].session] = "running"]

MayRetryOnceMore(c) == calls[c].retries <= Retries
MayRetry(c) == calls[c].retries < Retries

(* The loop test of retryOnTransient after a transient attempt; the time      *)
(* budget may be spent at each test.  recs: the registry after the attempt.   *)
RetryOrSettle(c, recs) ==
  \/ /\ MayRetry(c)
     /\ calls' = [calls EXCEPT ![c].pc = "backoff"]
     /\ records' = recs
  \/ /\ MayRetry(c)
     /\ calls' = [calls EXCEPT ![c] = SettledCall(c, "task_error")]
     /\ records' = Reregistered(c, recs)
  \/ /\ ~MayRetry(c)
     /\ calls' = [calls EXCEPT ![c] = SettledCall(c, "hard_failure")]
     /\ records' = Reregistered(c, recs)

(* session.create failed for good: the call has no session. *)
CreateFails(c) ==
  /\ calls[c].pc = "creating"
  /\ calls' = [calls EXCEPT ![c] = SettledCall(c, "hard_failure")]
  /\ UNCHANGED <<records, live, stray, cleanup>>

(* session.create failed in a way that is retried; the session may exist all  *)
(* the same when only the answer was lost.                                    *)
CreateInterrupted(c) ==
  /\ calls[c].pc = "creating"
  /\ \E made \in {{}, {AttemptSession(c)}} :
       live' = live \cup made /\ stray' = stray \cup made
  /\ RetryOrSettle(c, records)
  /\ UNCHANGED cleanup

(* session.prompt and the guarded reads of its output end with an output or   *)
(* an error of some class.                                                    *)
PromptEnds(c) ==
  /\ calls[c].pc = "prompting"
  /\ \/ \E class \in Classes :
          calls' = [calls EXCEPT ![c] = SettledCall(c, class)]
     \/ calls' = [calls EXCEPT ![c].pc = "dropping"]
     \/ calls' = [calls EXCEPT ![c].pc = "verifying"]
  /\ UNCHANGED <<records, live, stray, cleanup>>

DropSessionOnlyRecord(c) ==
  /\ calls[c].pc = "dropping"
  /\ RetryOrSettle(c, [records EXCEPT ![calls[c].session] = "none"])
  /\ UNCHANGED <<live, stray, cleanup>>

(* classifyThrown on a transient error: delete the session, then forget it. *)
DropSession(c) ==
  LET s == calls[c].session IN
  /\ calls[c].pc = "dropping"
  /\ Delete(s)
  /\ RetryOrSettle(c, [records EXCEPT ![s] = "none"])
  /\ UNCHANGED cleanup

BackoffEndsUncounted(c) ==
  /\ calls[c].pc = "backoff"
  /\ calls' = [calls EXCEPT ![c].pc = "creating", ![c].session = None]
  /\ UNCHANGED <<records, live, stray, cleanup>>

BackoffEnds(c) ==
  /\ calls[c].pc = "backoff"
  /\ \/ /\ calls' = [calls EXCEPT ![c].pc = "creating", ![c].session = None,
                                  ![c].retries = @ + 1]
        /\ UNCHANGED records
     \/ /\ calls' = [calls EXCEPT ![c] = SettledCall(c, "task_error")]
        /\ records' = Reregistered(c, records)
  /\ UNCHANGED <<live, stray, cleanup>>

(* cleanupSession: drop the record, then wait for the deletion.  Every        *)
(* outcome comes here.                                                        *)
Close(c, outcome) ==
  LET s == calls[c].session IN
  /\ calls' = [calls EXCEPT ![c].pc = IF s = None THEN "done" ELSE "closing",
                            ![c].outcome = outcome]
  /\ records' = [r \in Sessions |-> IF r = s THEN "none" ELSE records[r]]
  /\ UNCHANGED <<live, stray, cleanup>>

FinalizeUnlessReviewed(c) ==
  /\ calls[c].pc = "settled"
  /\ IF calls[c].outcome = "review_changes_requested"
     THEN /\ calls' = [calls EXCEPT ![c].pc = "done"]
          /\ UNCHANGED <<records, live, stray, cleanup>>
     ELSE Close(c, calls[c].outcome)

Finalize(c) == calls[c].pc = "settled" /\ Close(c, calls[c].outcome)

(* handleVerification: the verifier confirms the marker, or the output is     *)
(* taken as a success.                                                        *)
Verified(c) ==
  /\ calls[c].pc = "verifying"
  /\ \E outcome \in {"success", "task_error", "blocked"} : Close(c, outcome)

Closed(c) ==
  /\ calls[c].pc = "closing"
  /\ Delete(calls[c].session)
  /\ calls' = [calls EXCEPT ![c].pc = "done"]
  /\ UNCHANGED <<records, cleanup>>

----------------------------------------------------------------------------
NextGenerationStopsEarly ==
  IF cleanup.generation + 1 >= CleanupMax THEN NoCleanup
  ELSE [cleanup EXCEPT !.generation = @ + 1, !.deleting = {}]

(* cleanup_parent_run walks the generations in order.  asked is a history     *)
(* field: the children of that run that were running when it was called.      *)
CleanupStarts(owner, run) ==
  /\ cleanup.owner = None
  /\ cleanup' = [owner |-> owner, run |-> run, generation |-> 1,
                 deleting |-> {},
                 asked |-> {s \in Running : MetaOf(s).run = run}]
  /\ UNCHANGED <<calls, records, live, stray>>

InGeneration(g) ==
  {s \in Running : /\ MetaOf(s).owner = cleanup.owner
                   /\ MetaOf(s).run = cleanup.run
                   /\ MetaOf(s).generation = g}

NextGeneration ==
  IF cleanup.generation = CleanupMax THEN NoCleanup
  ELSE [cleanup EXCEPT !.generation = @ + 1, !.deleting = {}]

AbortGenerationWithoutWaiting ==
  LET aborted == InGeneration(cleanup.generation) IN
  /\ cleanup.owner # None /\ cleanup.deleting = {}
  /\ records' = [s \in Sessions |-> IF s \in aborted THEN "aborted"
                                    ELSE records[s]]
  /\ cleanup' = NextGeneration
  /\ UNCHANGED <<calls, live, stray>>

(* abortGeneration, then the deletions of its sessions side by side. *)
AbortGeneration ==
  LET aborted == InGeneration(cleanup.generation) IN
  /\ cleanup.owner # None /\ cleanup.deleting = {}
  /\ records' = [s \in Sessions |-> IF s \in aborted THEN "aborted"
                                    ELSE records[s]]
  /\ cleanup' = IF aborted = {} THEN NextGeneration
                ELSE [cleanup EXCEPT !.deleting = aborted]
  /\ UNCHANGED <<calls, live, stray>>

CleanupDeletes(s) ==
  /\ s \in cleanup.deleting
  /\ Delete(s)
  /\ cleanup' = IF cleanup.deleting = {s} THEN NextGeneration
                ELSE [cleanup EXCEPT !.deleting = @ \ {s}]
  /\ UNCHANGED <<calls, records>>

(* The sweep timer drops the records whose time to live has passed: an hour   *)
(* for a running one, a day for an aborted one.                               *)
Sweep ==
  \E expired \in SUBSET {s \in Sessions : records[s] # "none"} :
     /\ expired # {}
     /\ records' = [s \in Sessions |-> IF s \in expired THEN "none"
                                       ELSE records[s]]
     /\ UNCHANGED <<calls, live, stray, cleanup>>

Step(c) ==
  \/ Created(c) \/ CreateFails(c) \/ CreateInterrupted(c)
  \/ PromptEnds(c) \/ DropSession(c) \/ BackoffEnds(c)
  \/ Finalize(c) \/ Verified(c) \/ Closed(c)

Next ==
  \/ \E c \in Calls, m \in Meta : Launch(c, m)
  \/ \E c \in Calls : Step(c)
  \/ \E owner, run \in Owners : CleanupStarts(owner, run)
  \/ AbortGeneration
  \/ \E s \in Sessions : CleanupDeletes(s)
  \/ Sweep

Spec == Init /\ [][Next]_vars

(* A request to OpenCode is answered at some time, and a timer fires. *)
StepFairness == \A c \in Calls : WF_vars(Step(c))
FairSpec == Spec /\ StepFairness

----------------------------------------------------------------------------
(* A record is in the registry only while its call is still running the       *)
(* session of that record: whatever way an attempt ends, retries, aborts and  *)
(* sweeps included, no record is left behind to make the fence refuse a later *)
(* generation for nothing.                                                    *)
RecordsAreOwned ==
  \A s \in Sessions : records[s] # "none" =>
    /\ calls[s[1]].session = s
    /\ calls[s[1]].pc \in {"prompting", "dropping", "verifying", "settled"}

(* The tool leaves no child session behind: one that exists, and that         *)
(* OpenCode did not refuse to delete, is the last session of a call that is   *)
(* using it or about to delete it; a retry never runs beside the session of   *)
(* the attempt before it.                                                     *)
NoOrphanSessions ==
  \A s \in live \ stray :
    /\ calls[s[1]].session = s
    /\ calls[s[1]].pc \in {"prompting", "dropping", "verifying", "settled",
                           "closing"}

(* Once cleanup_parent_run has gone past a record it aborted, the session of  *)
(* that record no longer exists unless its deletion failed.                   *)
AbortedAreDeleted ==
  \A s \in Sessions :
    records[s] = "aborted" /\ s \notin cleanup.deleting => s \notin live \ stray

(* A cleanup_parent_run asked by the owner of the run leaves none of the      *)
(* children it was asked about running, in the generations it walks; a child  *)
(* whose call just gave up shows as running until that call finishes.         *)
CleanupReachesOwnRun ==
  [][cleanup.owner # None /\ cleanup' = NoCleanup =>
       \A s \in cleanup.asked \cap Running' :
         \/ MetaOf(s).owner # cleanup.owner
         \/ MetaOf(s).generation > CleanupMax
         \/ calls[s[1]].pc # "prompting"]_vars

(* A call that was launched returns a result, whatever the attempts and the   *)
(* cleanups running beside it do.                                             *)
LaunchedCallsReturn ==
  \A c \in Calls : calls[c].pc = "creating" ~> calls[c].pc = "done"

(* A call works on the session it asked for itself, has one exactly when a    *)
(* step needs it, and retries only while it may; no cleanup deletes for       *)
(* nobody.                                                                    *)
HoldsItsSession(c) ==
  /\ calls[c].session # None => calls[c].session[1] = c
  /\ calls[c].pc \in {"idle", "creating"} => calls[c].session = None
  /\ calls[c].pc \in {"prompting", "dropping", "verifying", "closing"}
       => calls[c].session # None
  /\ calls[c].pc = "backoff" => calls[c].retries < Retries

CallsHoldTheirSessions ==
  /\ \A c \in Calls : HoldsItsSession(c)
  /\ cleanup.owner = None => cleanup.deleting = {}

(* The registry, the sessions at OpenCode and the calls agree.                *)
LeavesNothing == /\ TypeOK /\ RecordsAreOwned /\ NoOrphanSessions /\ AbortedAreDeleted
                 /\ CallsHoldTheirSessions

(* A cleanup has left none of the children it was asked about prompting in    *)
(* the generations it has passed, and none comes back: a retry runs in a new  *)
(* session.                                                                   *)
PassedBy(s) ==
  LET c == calls[s[1]] IN
  /\ c.pc # "idle" /\ c.meta.run = cleanup.run
  /\ s[2] <= c.retries + 1 /\ (c.pc = "creating" => s[2] <= c.retries)
  /\ records[s] = "running" /\ c.pc = "prompting" /\ c.meta.owner = cleanup.owner =>
       /\ c.meta.generation >= cleanup.generation
       /\ cleanup.deleting # {} => c.meta.generation > cleanup.generation

CleanupWalks ==
  /\ \A c \in Calls : calls[c].session \in {None, AttemptSession(c)}
                      /\ (calls[c].pc # "idle" => calls[c].meta \in Meta)
  /\ cleanup.owner # None => /\ cleanup.asked \subseteq Sessions
                             /\ \A s \in cleanup.asked : PassedBy(s)

(* What the calls of spawn_agent leave behind, in the registry and at         *)
(* OpenCode (src/tools/spawn-agent, src/utils/internal-session.ts).           *)
SpawnInv == LeavesNothing /\ CleanupWalks
=============================================================================
