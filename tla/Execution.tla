----------------------------- MODULE Execution -----------------------------
(***************************************************************************)
(* Restartable execution of a plan: the journal of one issue               *)
(* (src/lifecycle/journal), the lease file (src/lifecycle/lease), commit   *)
(* markers (src/lifecycle/markers.ts, index.ts) and the recovery decision  *)
(* (src/lifecycle/recovery/inspect.ts).                                    *)
(*                                                                         *)
(* The stores are synchronous code: a call is not interrupted by another   *)
(* call of its own process, only by other processes, which share the       *)
(* files, and by the death of its process.  What calls them is an executor *)
(* that works through the batches of a plan as the design of 2026-04-29    *)
(* describes; it is external to src/.                                      *)
(***************************************************************************)
EXTENDS Naturals, Sequences, FiniteSets

CONSTANTS
    Executors,   \* lease owners: OpenCode sessions
    Processes,   \* OpenCode processes
    NumBatches,  \* the plan's batches, carried out in order
    Ttl,         \* ttlMs of every lease, in ticks
    MaxClock,    \* bound on the clock
    MaxCrashes,  \* bound on process deaths
    MaxPlain,    \* bound on commits without a batch id
    MaxEvents,   \* bound on the journal's length
    NoOne        \* no lease, no temporary file, no batch

ASSUME ExecutionAssumption ==
    /\ NoOne \notin Executors
    /\ {NumBatches, Ttl, MaxClock, MaxCrashes, MaxPlain, MaxEvents} \subseteq Nat

Batches == 1..NumBatches
NoBatch == 0

VARIABLES
    home,      \* the process of each executor
    journal,   \* the lines of the journal file
    lease,     \* the lease file: its owner and heartbeatAt, or NoOne
    temp,      \* the temporary file a lease is written to before the rename
    head,      \* HEAD of the issue branch: the marker of its commit, if any
    committed, \* batches whose work has been committed
    ex,        \* what each executor is doing
    torn,      \* the journal ends in a line that a crash cut off
    clock, crashes, plain,
    excuses    \* ghost: what can hide a commit from a recovery, and has happened

executionVars ==
    <<home, journal, torn, lease, temp, head, committed, ex, clock, crashes,
      plain, excuses>>

\* Two processes were inside calls on the lease at once; an executor lost its
\* lease while it was at work; a line was appended to a torn one and neither
\* can be read; a commit without a batch id hides the one below it.
Excuses == {"raced", "stolen", "line_lost", "hidden"}

Kinds == {"batch_dispatched", "batch_completed", "commit_observed"}
Events == [kind : Kinds, batch : Batches, seq : Nat]
Leases == [owner : Executors, beat : 0..MaxClock]
Markers == [batch : Batches, seq : Nat]
NoMarker == [batch |-> NoBatch, seq |-> 0]

(* pc: "off" no session; "idle" holds no lease; "acquire", "heartbeat",    *)
(* "release": inside a call that has read the lease file; "renaming": the  *)
(* temporary file is written; "held"; "deciding": decideRecovery has read  *)
(* the journal; "working" on batch cur; "committing" with a marker;        *)
(* "made": the commit exists; "observed" in the journal; "appending": an   *)
(* append has computed its sequence number.                                *)
Pcs == {"off", "idle", "acquire", "heartbeat", "release", "renaming", "held",
        "deciding", "ready", "working", "committing", "made", "observed",
        "appending"}
Offline == [pc |-> "off", cur |-> NoBatch, todo |-> {}, done |-> {},
            events |-> <<>>, seq |-> 0, kind |-> "batch_dispatched",
            then |-> "off", beat |-> 0, holds |-> FALSE]

\* Where an append or a refresh of the lease continues.
Thens == {"off", "held", "ready", "working", "observed"}

States == [pc : Pcs, cur : Batches \cup {NoBatch}, todo : SUBSET Batches,
           done : SUBSET Batches, events : Seq(Events), seq : Nat, kind : Kinds,
           then : Thens, beat : 0..MaxClock, holds : BOOLEAN]

Returning == {"acquire", "heartbeat", "renaming", "appending"}

\* An executor that works on a batch, and one that has not been through acquire.
AtBatch == {"working", "committing", "made", "observed", "appending"}
Unleased == {"off", "idle", "acquire"}

ExecutionTypeOK ==
    /\ home \in [Executors -> Processes]
    /\ journal \in Seq(Events) /\ Len(journal) <= MaxEvents
    /\ lease \in Leases \cup {NoOne}
    /\ temp \in Leases \cup {NoOne}
    /\ head \in Markers \cup {NoMarker}
    /\ committed \subseteq Batches
    /\ ex \in [Executors -> States]
    /\ \A e \in Executors :
        /\ ex[e].pc \in Returning => ex[e].then # "off"
        /\ {ex[e].pc, ex[e].then} \cap AtBatch # {} => ex[e].cur # NoBatch
        /\ ex[e].pc # "renaming" => (ex[e].holds <=> ex[e].pc \notin Unleased)
    /\ clock \in 0..MaxClock /\ crashes \in 0..MaxCrashes
    /\ plain \in 0..MaxPlain /\ torn \in BOOLEAN
    /\ excuses \subseteq Excuses

ExecutionInit ==
    /\ home \in [Executors -> Processes]
    /\ journal = <<>> /\ torn = FALSE /\ lease = NoOne /\ temp = NoOne
    /\ head = NoMarker /\ committed = {}
    /\ ex = [e \in Executors |-> Offline]
    /\ clock = 0 /\ crashes = 0 /\ plain = 0 /\ excuses = {}

-----------------------------------------------------------------------------
(* The event loop                                                          *)

\* Mutant of InCall: append gives way between reading and writing.
InCallAppendYields(e) == ex[e].pc \in {"acquire", "heartbeat", "release",
                                       "renaming"}

\* An executor is inside a synchronous call.
InCall(e) == ex[e].pc \in {"acquire", "heartbeat", "release", "renaming",
                           "appending"}

\* e may run: no other executor of its process is inside a synchronous call.
MayRun(e) == \A f \in Executors \ {e} : home[f] = home[e] => ~InCall(f)

Moves(e, changed) == ex' = [ex EXCEPT ![e] = changed]

-----------------------------------------------------------------------------
(* The journal                                                             *)

\* lastSeq: the sequence number of the last line.
LastSeq(events) == IF events = <<>> THEN 0 ELSE events[Len(events)].seq

\* Mutant of AppendReads: the batch id is dropped.
AppendReadsNoBatch(e, kind, batch, then) ==
    /\ Len(journal) < MaxEvents
    /\ Moves(e, [ex[e] EXCEPT !.pc = "appending", !.cur = NoBatch, !.kind = kind,
                              !.seq = LastSeq(journal) + 1, !.then = then])
    /\ UNCHANGED <<home, journal, torn, lease, temp, head, committed, clock, crashes,
                   plain, excuses>>

\* append up to reading the file: the sequence number is settled.
AppendReads(e, kind, batch, then) ==
    /\ Len(journal) < MaxEvents
    /\ Moves(e, [ex[e] EXCEPT !.pc = "appending", !.cur = batch, !.kind = kind,
                              !.seq = LastSeq(journal) + 1, !.then = then])
    /\ UNCHANGED <<home, journal, torn, lease, temp, head, committed, clock, crashes,
                   plain, excuses>>

\* appendFileSync.
AppendWrites(e) ==
    /\ ex[e].pc = "appending"
    /\ Len(journal) < MaxEvents
    /\ torn' = FALSE
    /\ IF torn
       THEN /\ journal' = journal
            /\ excuses' = excuses \cup {"line_lost"}
       ELSE /\ journal' = Append(journal, [kind |-> ex[e].kind,
                                          batch |-> ex[e].cur, seq |-> ex[e].seq])
            /\ excuses' = excuses
    /\ Moves(e, [ex[e] EXCEPT !.pc = ex[e].then, !.then = "off", !.seq = 0,
                              !.kind = "batch_dispatched"])
    /\ UNCHANGED <<home, lease, temp, head, committed, clock, crashes, plain>>

-----------------------------------------------------------------------------
(* The lease                                                               *)

\* The caller enters a call on the lease that another one is inside of.
Raced(e) ==
    IF \E f \in Executors \ {e} :
        ex[f].pc \in {"acquire", "heartbeat", "release", "renaming"}
    THEN {"raced"} ELSE {}

\* isExpired.
Expired(l) == clock - l.beat > Ttl

\* Mutant of MayTake: an expired lease is one whose time is up, not past.
MayTakeEarly(e) ==
    lease # NoOne /\ lease.owner # e => clock - lease.beat >= Ttl

\* acquireLease decides: the file is missing, the caller's, or expired.
MayTake(e) == lease # NoOne /\ lease.owner # e => Expired(lease)

\* acquire, reading the file.
AcquireReads(e) ==
    /\ ex[e].pc = "idle" /\ MayRun(e)
    /\ MayTake(e)
    /\ Moves(e, [ex[e] EXCEPT !.pc = "acquire", !.then = "held",
                              !.beat = clock])
    /\ excuses' = IF \E f \in Executors \ {e} :
                        ex[f].holds /\ lease # NoOne /\ lease.owner = f
                  THEN excuses \cup {"stolen"} \cup Raced(e)
                  ELSE excuses \cup Raced(e)
    /\ UNCHANGED <<home, journal, torn, lease, temp, head, committed, clock, crashes, plain>>

\* heartbeat, reading the file: only the owner's own lease is refreshed.
HeartbeatReads(e) ==
    /\ ex[e].pc \in {"held", "working"} /\ MayRun(e)
    /\ lease # NoOne /\ lease.owner = e
    /\ lease.beat # clock
    /\ Moves(e, [ex[e] EXCEPT !.then = ex[e].pc, !.pc = "heartbeat",
                              !.beat = clock])
    /\ excuses' = excuses \cup Raced(e)
    /\ UNCHANGED <<home, journal, torn, lease, temp, head, committed, clock, crashes,
                   plain>>

\* Mutant of HeartbeatRefused: a lost lease goes unnoticed.
HeartbeatRefusedUnnoticed(e) ==
    /\ ex[e].pc \in {"held", "working"} /\ MayRun(e)
    /\ ~(lease # NoOne /\ lease.owner = e)
    /\ Moves(e, [ex[e] EXCEPT !.beat = clock])
    /\ UNCHANGED <<home, journal, torn, lease, temp, head, committed, clock, crashes,
                   plain, excuses>>

\* heartbeat returns null: the lease is another's, and the executor stops.
HeartbeatRefused(e) ==
    /\ ex[e].pc \in {"held", "working"} /\ MayRun(e)
    /\ ~(lease # NoOne /\ lease.owner = e)
    /\ Moves(e, Offline)
    /\ UNCHANGED <<home, journal, torn, lease, temp, head, committed, clock, crashes,
                   plain, excuses>>

\* writeLease: the temporary file, whose name all processes share.
LeaseToTemp(e) ==
    /\ ex[e].pc \in {"acquire", "heartbeat"}
    /\ temp' = [owner |-> e, beat |-> ex[e].beat]
    /\ Moves(e, [ex[e] EXCEPT !.pc = "renaming"])
    /\ UNCHANGED <<home, journal, torn, lease, head, committed, clock, crashes, plain, excuses>>

\* writeLease: the rename installs whatever the temporary file holds, and
\* throws when another process has renamed it away.
LeaseRenamed(e) ==
    /\ ex[e].pc = "renaming"
    /\ \/ /\ temp # NoOne
          /\ lease' = temp /\ temp' = NoOne
          /\ Moves(e, [ex[e] EXCEPT !.pc = ex[e].then, !.then = "off",
                                    !.holds = TRUE])
       \/ /\ temp = NoOne
          /\ Moves(e, Offline)
          /\ UNCHANGED <<lease, temp>>
    /\ UNCHANGED <<home, journal, torn, head, committed, clock, crashes, plain, excuses>>

\* release, reading the file; a lease that is another's is left alone.
ReleaseReads(e) ==
    /\ ex[e].pc \in {"held", "ready"} /\ MayRun(e)
    /\ ex[e].todo = {}
    /\ IF lease # NoOne /\ lease.owner = e
       THEN Moves(e, [ex[e] EXCEPT !.pc = "release"])
       ELSE Moves(e, Offline)
    /\ excuses' = excuses \cup Raced(e)
    /\ UNCHANGED <<home, journal, torn, lease, temp, head, committed, clock, crashes,
                   plain>>

ReleaseRemoves(e) ==
    /\ ex[e].pc = "release"
    /\ lease' = NoOne
    /\ Moves(e, Offline)
    /\ UNCHANGED <<home, journal, torn, temp, head, committed, clock, crashes, plain, excuses>>

-----------------------------------------------------------------------------
(* The recovery decision                                                   *)

Monotonic(events) ==
    \A i \in 2..Len(events) : events[i - 1].seq < events[i].seq

Has(events, batch, kind) ==
    \E i \in DOMAIN events : events[i].batch = batch /\ events[i].kind = kind

\* batchNeedsCommitMarker.
NeedsMarker(events, batch) ==
    /\ Has(events, batch, "batch_dispatched")
    /\ ~Has(events, batch, "batch_completed")
    /\ ~Has(events, batch, "commit_observed")

\* Mutant of Recovered: no commit is read.
RecoveredNothing(events) == events

\* recoverCommitEvents: the marker of HEAD, and of HEAD only, stands for the
\* event whose append it outlived.
Recovered(events) ==
    IF /\ head # NoMarker
       /\ head.seq > LastSeq(events)
       /\ NeedsMarker(events, head.batch)
    THEN Append(events, [kind |-> "commit_observed", batch |-> head.batch,
                         seq |-> head.seq])
    ELSE events

\* leaseActiveForOtherOwner.
LeaseActive(e) == lease # NoOne /\ lease.owner # e /\ ~Expired(lease)

\* summarize and inspectBatches.
Completed(events) == {b \in Batches : Has(events, b, "batch_completed")}
Reconciled(events) ==
    {b \in Batches \ Completed(events) : Has(events, b, "commit_observed")}
FirstAt(events, b) ==
    CHOOSE i \in DOMAIN events :
        events[i].batch = b /\ \A j \in 1..(i - 1) : events[j].batch # b
Unfinished(events) ==
    {b \in Batches \ (Completed(events) \cup Reconciled(events)) :
        Has(events, b, "batch_dispatched")}

\* inspectRecovery, once the runtime identity matches the record: its kind,
\* the batch that was dispatched first and never finished, and the batches
\* before it that only their commits finish.
Decision(events, e) ==
    LET pending == {b \in Unfinished(events) :
                        \A c \in Unfinished(events) :
                            FirstAt(events, b) <= FirstAt(events, c)}
    IN IF ~Monotonic(events) THEN [kind |-> "journal_corrupt", pending |-> {}]
       ELSE IF LeaseActive(e) THEN [kind |-> "lease_active", pending |-> {}]
       ELSE [kind |-> IF pending # {} THEN "partial_resume"
                      ELSE IF Reconciled(events) # {} THEN "reconciled_resume"
                      ELSE "clean_resume",
             pending |-> pending]

\* decideRecovery up to its first await: the journal has been read.
DecideReads(e) ==
    /\ ex[e].pc = "held" /\ MayRun(e)
    /\ Moves(e, [ex[e] EXCEPT !.pc = "deciding", !.events = journal])
    /\ UNCHANGED <<home, journal, torn, lease, temp, head, committed, clock, crashes,
                   plain, excuses>>

\* The rest: lease and git are read later than the journal.  A blocked
\* executor stops; any other goes on with the pending batch, or with the first
\* one after those the decision names as completed or backfilled, and
\* backfills what only a commit finishes.
Decides(e) ==
    LET events == Recovered(ex[e].events)
        decision == Decision(events, e)
    IN
    /\ ex[e].pc = "deciding" /\ MayRun(e)
    /\ IF decision.kind \in {"journal_corrupt", "lease_active"}
       THEN Moves(e, Offline)
       ELSE Moves(e, [ex[e] EXCEPT
                !.pc = "ready", !.events = <<>>,
                !.todo = {b \in Batches :
                            IF decision.pending # {}
                            THEN \A c \in decision.pending : b >= c
                            ELSE \A c \in Completed(events) \cup Reconciled(events) :
                                     b > c},
                !.done = Reconciled(events) \ Reconciled(ex[e].events)])
    /\ UNCHANGED <<home, journal, torn, lease, temp, head, committed, clock, crashes,
                   plain, excuses>>

\* The executor journals the commit that the decision recovered.
Backfill(e, b) ==
    /\ ex[e].pc = "ready" /\ MayRun(e)
    /\ b \in ex[e].done
    /\ Len(journal) < MaxEvents
    /\ Moves(e, [ex[e] EXCEPT !.pc = "appending", !.cur = b,
                              !.kind = "commit_observed",
                              !.seq = LastSeq(journal) + 1, !.then = "ready",
                              !.done = @ \ {b}])
    /\ UNCHANGED <<home, journal, torn, lease, temp, head, committed, clock, crashes,
                   plain, excuses>>

\* recordExecutorEvent: the next batch is dispatched.
Dispatch(e, b) ==
    /\ ex[e].pc = "ready" /\ MayRun(e)
    /\ ex[e].done = {}
    /\ b \in ex[e].todo /\ \A c \in ex[e].todo : b <= c
    /\ AppendReads(e, "batch_dispatched", b, "working")

-----------------------------------------------------------------------------
(* lifecycle_commit                                                        *)

\* createCommitMarker: the marker carries the next sequence number.
CommitStarts(e) ==
    /\ ex[e].pc = "working" /\ MayRun(e)
    /\ Moves(e, [ex[e] EXCEPT !.pc = "committing", !.seq = LastSeq(journal) + 1])
    /\ UNCHANGED <<home, journal, torn, lease, temp, head, committed, clock, crashes,
                   plain, excuses>>

\* git commit, with something to commit.
CommitMade(e) ==
    /\ ex[e].pc = "committing" /\ MayRun(e)
    /\ head' = [batch |-> ex[e].cur, seq |-> ex[e].seq]
    /\ committed' = committed \cup {ex[e].cur}
    /\ Moves(e, [ex[e] EXCEPT !.pc = "made", !.seq = 0])
    /\ UNCHANGED <<home, journal, torn, lease, temp, clock, crashes, plain, excuses>>

\* Nothing to commit, or the commit fails: no event is written.
CommitEmpty(e) ==
    /\ ex[e].pc = "committing" /\ MayRun(e)
    /\ Moves(e, [ex[e] EXCEPT !.pc = "observed", !.seq = 0])
    /\ UNCHANGED <<home, journal, torn, lease, temp, head, committed, clock, crashes,
                   plain, excuses>>

\* recordCommitObserved.
CommitObserved(e) ==
    /\ ex[e].pc = "made" /\ MayRun(e)
    /\ AppendReads(e, "commit_observed", ex[e].cur, "observed")

\* The batch is reviewed and its completion recorded.
Complete(e) ==
    /\ ex[e].pc = "observed" /\ MayRun(e)
    /\ Len(journal) < MaxEvents
    /\ Moves(e, [ex[e] EXCEPT !.pc = "appending", !.kind = "batch_completed",
                              !.seq = LastSeq(journal) + 1, !.then = "ready",
                              !.todo = @ \ {ex[e].cur}])
    /\ UNCHANGED <<home, journal, torn, lease, temp, head, committed, clock, crashes,
                   plain, excuses>>

\* A commit of the same branch made without a batch id.
PlainCommit ==
    /\ plain < MaxPlain
    /\ plain' = plain + 1
    /\ head' = NoMarker
    /\ excuses' = IF head # NoMarker THEN excuses \cup {"hidden"} ELSE excuses
    /\ UNCHANGED <<home, journal, torn, lease, temp, committed, ex, clock, crashes>>

-----------------------------------------------------------------------------
(* Sessions, time and failure                                              *)

Starts(e) ==
    /\ ex[e].pc = "off"
    /\ Moves(e, [Offline EXCEPT !.pc = "idle"])
    /\ UNCHANGED <<home, journal, torn, lease, temp, head, committed, clock, crashes,
                   plain, excuses>>

Tick ==
    /\ clock < MaxClock
    /\ clock' = clock + 1
    /\ UNCHANGED <<home, journal, torn, lease, temp, head, committed, ex, crashes, plain, excuses>>

\* OpenCode dies, with every executor in it; an append may be cut short.
Crash(p) ==
    /\ crashes < MaxCrashes
    /\ \E e \in Executors : home[e] = p /\ ex[e].pc # "off"
    /\ crashes' = crashes + 1
    /\ ex' = [e \in Executors |-> IF home[e] = p THEN Offline ELSE ex[e]]
    /\ torn' \in {torn, torn \/ \E e \in Executors :
                        home[e] = p /\ ex[e].pc = "appending"}
    /\ UNCHANGED <<home, journal, lease, temp, head, committed, clock, plain, excuses>>

LeaseStep(e) ==
    \/ AcquireReads(e) \/ LeaseToTemp(e) \/ LeaseRenamed(e)
    \/ HeartbeatReads(e) \/ ReleaseReads(e) \/ ReleaseRemoves(e)
BatchStep(e) ==
    \/ DecideReads(e) \/ Decides(e) \/ AppendWrites(e)
    \/ \E b \in Batches : Backfill(e, b) \/ Dispatch(e, b)
    \/ CommitStarts(e) \/ CommitMade(e) \/ CommitEmpty(e)
    \/ CommitObserved(e) \/ Complete(e)
ExecutorStep(e) ==
    Starts(e) \/ HeartbeatRefused(e) \/ LeaseStep(e) \/ BatchStep(e)

ExecutionNext ==
    \/ \E e \in Executors : ExecutorStep(e)
    \/ PlainCommit \/ Tick
    \/ \E p \in Processes : Crash(p)

ExecutionSpec == ExecutionInit /\ [][ExecutionNext]_executionVars

-----------------------------------------------------------------------------
(* Properties                                                              *)

\* The journal's sequence numbers grow, so no recovery is refused as
\* journal_corrupt: always when all executors are in one process, and across
\* processes as long as the lease kept its holders apart.
SeqsIncrease ==
    \/ \A e, f \in Executors : home[e] = home[f]
    \/ excuses \cap {"raced", "stolen"} = {}
    => Monotonic(journal)

\* Two executors never both hold a lease that is still valid by the time they
\* last wrote into it: one is taken over only after it has expired.  Only two
\* processes inside acquire or heartbeat at once can break it.
LeaseExclusive ==
    "raced" \notin excuses =>
        \A e, f \in Executors :
            e # f /\ ex[e].holds /\ ex[f].holds =>
                clock - ex[e].beat > Ttl \/ clock - ex[f].beat > Ttl

\* A batch whose work is committed is dispatched again.
Redoes(b) ==
    /\ b \in committed
    /\ Len(journal') > Len(journal)
    /\ journal'[Len(journal')].batch = b
    /\ journal'[Len(journal')].kind = "batch_dispatched"

\* A committed batch is not done again, wherever the process died between the
\* commit and its journal entry: HEAD's marker stands in for the entry.  Four
\* things can excuse it, and nothing else does.
CommittedNotRedone == [][excuses = {} => \A b \in Batches : ~Redoes(b)]_executionVars

\* An executor is inside a call on the lease.
AtLease(e) == ex[e].pc \in {"acquire", "heartbeat", "release", "renaming"}

\* The time of the lease e last wrote, or is writing, is up.
Lapsed(e) == clock - ex[e].beat > Ttl

Owns(e) == /\ lease # NoOne /\ lease.owner = e
           /\ ex[e].pc \in {"heartbeat", "renaming"} \/ lease.beat = ex[e].beat

\* Why leases exclude each other: a holder has the lease file or is late, and
\* while one executor is inside a call on the lease no other is and all others
\* are late.
LateOrOwner ==
    "raced" \notin excuses =>
        \A e \in Executors :
            /\ ex[e].holds => Lapsed(e) \/ Owns(e)
            /\ ex[e].pc = "renaming" => temp = [owner |-> e, beat |-> ex[e].beat]
            /\ AtLease(e) => \A f \in Executors \ {e} :
                                ~AtLease(f) /\ (ex[f].holds => Lapsed(f))

\* Unless a lease was stolen, there is one holder, and it has the lease file.
OneHolder ==
    excuses \cap {"raced", "stolen"} = {} =>
        \A e \in Executors :
            /\ ex[e].holds => lease # NoOne /\ lease.owner = e
            /\ AtLease(e) => \A f \in Executors \ {e} : ~ex[f].holds

\* Why the sequence numbers grow: one append at a time, with the next number.
OneAppend ==
    \/ \A e, f \in Executors : home[e] = home[f]
    \/ excuses \cap {"raced", "stolen"} = {}
    => \A e \in Executors : ex[e].pc = "appending" =>
            /\ ex[e].seq = LastSeq(journal) + 1
            /\ \A f \in Executors \ {e} : ex[f].pc # "appending"

Finished(events) == Completed(events) \cup Reconciled(events)

\* The commit at HEAD is newer than every line of the journal.
Unlogged == head # NoMarker /\ head.seq > LastSeq(journal)

\* What the files say of the batches: one at most is open, all before it are
\* over, and a commit is in the journal or is the one at HEAD, whose marker has
\* the number of the next line.
BatchesInOrder ==
    /\ \A c \in Unfinished(journal) :
        /\ Unfinished(journal) = {c}
        /\ \A b \in Finished(journal) : b < c
    /\ head.seq <= LastSeq(journal) + 1
    /\ Unlogged => head.batch \in Unfinished(journal)
    /\ \A b \in committed \ Finished(journal) : Unlogged /\ b = head.batch

\* Where a call of the executor returns to.
Stage(r) == IF r.pc \in Returning THEN r.then ELSE r.pc

Before(batches, todo) == \A c \in batches : \A b \in todo : c < b

\* What an executor r goes by agrees with the files: what it still has to do
\* comes after all that is over or is to be backfilled, an open batch is the one
\* it is at or takes next, and the batch it dispatches has no commit.
OnPlan(r) ==
    /\ r.pc \in {"acquire", "heartbeat", "renaming"} => r.then \in {"held", "working"}
    /\ r.pc = "deciding" => r.events = journal
    /\ r.pc = "ready" =>
        /\ r.done \subseteq Unfinished(journal)
        /\ Before(Finished(journal) \cup r.done, r.todo)
        /\ \A c \in Unfinished(journal) \ r.done :
                c \in r.todo /\ \A b \in r.todo : c <= b
        /\ Unlogged => head.batch \in r.done
    /\ Stage(r) \in {"working", "committing", "made", "observed"} =>
        /\ r.done = {} /\ r.cur \in r.todo /\ Unfinished(journal) \subseteq {r.cur}
        /\ \A b \in r.todo : r.cur <= b
        /\ \A c \in Finished(journal) : c <= r.cur
    /\ Stage(r) \in {"working", "committing"} /\ r.pc # "appending" =>
        r.cur \in Unfinished(journal)
    /\ r.pc = "committing" => r.seq = LastSeq(journal) + 1
    /\ r.pc = "appending" =>
        \/ /\ r.kind = "batch_dispatched" /\ r.then = "working"
           /\ r.cur \notin committed \cup Finished(journal)
        \/ r.kind = "commit_observed" /\ r.then = "observed"
        \/ /\ r.kind # "batch_dispatched" /\ r.then = "ready" /\ r.done = {}
           /\ Unfinished(journal) \subseteq {r.cur}
           /\ Before(Finished(journal) \cup {r.cur}, r.todo)

\* Why no commit is repeated: while nothing excuses it, files and executors
\* agree on which batch is open, and HEAD's marker fills the one gap there is
\* between a commit and its line in the journal.
WorkInOrder ==
    excuses = {} => BatchesInOrder /\ \A e \in Executors : OnPlan(ex[e])

\* The journal and the lease keep executors apart, and the batches in
\* order (src/lifecycle/journal, src/lifecycle/lease, src/lifecycle/recovery).
ExecutionInv ==
    /\ ExecutionTypeOK /\ SeqsIncrease /\ LeaseExclusive
    /\ LateOrOwner /\ OneHolder /\ OneAppend /\ WorkInOrder
=============================================================================
