--------------------------- MODULE ExecutionProofs ---------------------------
(* Theorems about the journal and the lease, for any executors, processes,  *)
(* batches, bounds and time to live.                                        *)
EXTENDS Execution, TLAPS, WellFoundedInduction

\* The part of the type that is about one executor.
Fit(r) ==
    /\ r \in States
    /\ r.pc \in Returning => r.then # "off"
    /\ {r.pc, r.then} \cap AtBatch # {} => r.cur # NoBatch
    /\ r.pc # "renaming" => (r.holds <=> r.pc \notin Unleased)

FilesFit ==
    /\ home \in [Executors -> Processes]
    /\ journal \in Seq(Events) /\ Len(journal) <= MaxEvents
    /\ lease \in Leases \cup {NoOne}
    /\ temp \in Leases \cup {NoOne}
    /\ head \in Markers \cup {NoMarker}
    /\ committed \subseteq Batches
    /\ clock \in 0..MaxClock /\ crashes \in 0..MaxCrashes
    /\ plain \in 0..MaxPlain /\ torn \in BOOLEAN
    /\ excuses \subseteq Excuses

LEMMA TypeParts ==
    ExecutionTypeOK <=> /\ FilesFit
                        /\ ex \in [Executors -> States]
                        /\ \A e \in Executors : Fit(ex[e])
  BY DEF ExecutionTypeOK, FilesFit, Fit

LEMMA TypeAgain ==
    ASSUME FilesFit', ex' \in [Executors -> States], \A e \in Executors : Fit(ex'[e])
    PROVE  ExecutionTypeOK'
  BY DEF ExecutionTypeOK, FilesFit, Fit

LEMMA BoundFacts ==
    /\ NumBatches \in Nat /\ Ttl \in Nat /\ MaxClock \in Nat /\ MaxCrashes \in Nat
    /\ MaxPlain \in Nat /\ MaxEvents \in Nat
    /\ NoBatch \notin Batches
  BY ExecutionAssumption DEF Batches, NoBatch

LEMMA OfflineFits == Fit(Offline)
  BY BoundFacts
     DEF Fit, Offline, States, Pcs, Thens, Kinds, Returning, AtBatch, Unleased, NoBatch

\* An executor that moves to a record that fits.
LEMMA MovesFit ==
    ASSUME ExecutionTypeOK, NEW e \in Executors, NEW r, Fit(r), Moves(e, r)
    PROVE  /\ ex' \in [Executors -> States]
           /\ \A f \in Executors : Fit(ex'[f])
<1>1. ex \in [Executors -> States] /\ \A f \in Executors : Fit(ex[f])
  BY TypeParts
<1>2. r \in States
  BY DEF Fit
<1>3. \A f \in Executors : ex'[f] = IF f = e THEN r ELSE ex[f]
  BY <1>1 DEF Moves
<1> QED
  BY <1>1, <1>2, <1>3 DEF Moves

LEMMA LastSeqType ==
    ASSUME NEW events \in Seq(Events) PROVE LastSeq(events) \in Nat
<1>1. CASE events = <<>>
  BY <1>1 DEF LastSeq
<1>2. CASE events # <<>>
  <2>1. Len(events) \in 1..Len(events)
    BY <1>2
  <2>2. events[Len(events)] \in Events
    BY <2>1
  <2>3. events[Len(events)].seq \in Nat
    BY <2>2 DEF Events
  <2> QED
    BY <1>2, <2>3 DEF LastSeq
<1> QED
  BY <1>1, <1>2

LEMMA TypeInit == ExecutionInit => ExecutionTypeOK
<1> SUFFICES ASSUME ExecutionInit PROVE ExecutionTypeOK
  OBVIOUS
<1>1. journal \in Seq(Events) /\ Len(journal) <= MaxEvents
  <2>1. <<>> \in Seq(Events) /\ Len(<<>>) = 0
    OBVIOUS
  <2> QED
    BY <2>1, BoundFacts DEF ExecutionInit
<1>2. clock \in 0..MaxClock /\ crashes \in 0..MaxCrashes /\ plain \in 0..MaxPlain
  BY BoundFacts DEF ExecutionInit
<1>3. FilesFit
  BY <1>1, <1>2 DEF ExecutionInit, FilesFit
<1>4. ex \in [Executors -> States] /\ \A e \in Executors : Fit(ex[e])
  BY OfflineFits DEF ExecutionInit, Fit
<1> QED
  BY <1>3, <1>4, TypeParts

\* What a call on the lease leaves in the files and of its executor.
LEMMA LeaseType ==
    ASSUME ExecutionTypeOK, NEW e \in Executors, LeaseStep(e)
    PROVE  ExecutionTypeOK'
<1>1. /\ FilesFit /\ Fit(ex[e]) /\ ex[e] \in States
      /\ clock \in 0..MaxClock
  BY TypeParts DEF FilesFit, Fit
<1>2. Raced(e) \subseteq Excuses
  BY DEF Raced, Excuses
<1> USE DEF Fit, States, Pcs, Thens, Returning, AtBatch, Unleased
<1>3. CASE AcquireReads(e)
  <2>1. Fit([ex[e] EXCEPT !.pc = "acquire", !.then = "held", !.beat = clock])
    BY <1>1, <1>3 DEF AcquireReads
  <2>2. excuses' \subseteq Excuses
    BY <1>1, <1>2, <1>3 DEF AcquireReads, FilesFit, Excuses
  <2>3. FilesFit'
    BY <1>1, <1>3, <2>2 DEF AcquireReads, FilesFit, Events, Leases, Markers
  <2> QED
    BY <1>3, <2>1, <2>3, MovesFit, TypeAgain DEF AcquireReads
<1>4. CASE LeaseToTemp(e)
  <2>1. Fit([ex[e] EXCEPT !.pc = "renaming"])
    BY <1>1, <1>4 DEF LeaseToTemp
  <2>2. FilesFit'
    BY <1>1, <1>4 DEF LeaseToTemp, FilesFit, Events, Leases, Markers
  <2> QED
    BY <1>4, <2>1, <2>2, MovesFit, TypeAgain DEF LeaseToTemp
<1>5. CASE LeaseRenamed(e)
  <2>1. Fit([ex[e] EXCEPT !.pc = ex[e].then, !.then = "off", !.holds = TRUE])
    BY <1>1, <1>5 DEF LeaseRenamed
  <2>2. FilesFit'
    BY <1>1, <1>5 DEF LeaseRenamed, FilesFit, Events, Leases, Markers
  <2> QED
    BY <1>5, <2>1, <2>2, MovesFit, OfflineFits, TypeAgain DEF LeaseRenamed
<1>6. CASE HeartbeatReads(e)
  <2>1. Fit([ex[e] EXCEPT !.then = ex[e].pc, !.pc = "heartbeat", !.beat = clock])
    BY <1>1, <1>6 DEF HeartbeatReads
  <2>2. FilesFit'
    BY <1>1, <1>2, <1>6 DEF HeartbeatReads, FilesFit, Events, Leases, Markers
  <2> QED
    <3>1. Moves(e, [ex[e] EXCEPT !.then = ex[e].pc, !.pc = "heartbeat", !.beat = clock])
      BY <1>6 DEF HeartbeatReads
    <3>2. ex' \in [Executors -> States] /\ \A f \in Executors : Fit(ex'[f])
      BY <2>1, <3>1, MovesFit, Zenon
    <3> QED
      BY <2>2, <3>2, TypeAgain
<1>7. CASE ReleaseReads(e)
  <2>1. Fit([ex[e] EXCEPT !.pc = "release"])
    BY <1>1, <1>7 DEF ReleaseReads
  <2>2. FilesFit'
    BY <1>1, <1>2, <1>7 DEF ReleaseReads, FilesFit, Events, Leases, Markers
  <2> QED
    BY <1>7, <2>1, <2>2, MovesFit, OfflineFits, TypeAgain DEF ReleaseReads
<1>8. CASE ReleaseRemoves(e)
  <2>1. FilesFit'
    BY <1>1, <1>8 DEF ReleaseRemoves, FilesFit, Events, Leases, Markers
  <2> QED
    BY <1>8, <2>1, MovesFit, OfflineFits, TypeAgain DEF ReleaseRemoves
<1> QED
  BY <1>3, <1>4, <1>5, <1>6, <1>7, <1>8 DEF LeaseStep

\* Reading the journal to append to it.
LEMMA AppendReadsType ==
    ASSUME ExecutionTypeOK, NEW e \in Executors, NEW b \in Batches, NEW kind \in Kinds,
           NEW then \in Thens \ {"off"}, ex[e].pc \notin Unleased \cup {"renaming"},
           AppendReads(e, kind, b, then)
    PROVE  ExecutionTypeOK'
<1>1. FilesFit /\ Fit(ex[e]) /\ LastSeq(journal) + 1 \in Nat
  BY TypeParts, LastSeqType DEF FilesFit
<1>2. \A n \in Nat : Fit([ex[e] EXCEPT !.pc = "appending", !.cur = b, !.kind = kind,
                                       !.seq = n, !.then = then])
  BY <1>1, BoundFacts DEF Fit, States, Pcs, Thens, Returning, AtBatch, Unleased
<1>3. FilesFit'
  BY <1>1 DEF AppendReads, FilesFit, Events, Leases, Markers
<1> QED
  BY <1>1, <1>2, <1>3, MovesFit, TypeAgain DEF AppendReads

LEMMA BatchType ==
    ASSUME ExecutionTypeOK, NEW e \in Executors, BatchStep(e)
    PROVE  ExecutionTypeOK'
<1>1. /\ FilesFit /\ Fit(ex[e]) /\ ex[e] \in States
      /\ journal \in Seq(Events) /\ LastSeq(journal) + 1 \in Nat
      /\ <<>> \in Seq(Events)
  BY TypeParts, LastSeqType DEF FilesFit, Fit
<1>2. {"ready", "made", "observed"} \cap (Unleased \cup {"renaming"}) = {}
  BY DEF Unleased
<1>3. CASE DecideReads(e)
  <2>1. Fit([ex[e] EXCEPT !.pc = "deciding", !.events = journal])
    BY <1>1, <1>3 DEF DecideReads, Fit, States, Pcs, Thens, Returning, AtBatch, Unleased
  <2>2. FilesFit'
    BY <1>1, <1>3 DEF DecideReads, FilesFit, Events, Leases, Markers
  <2> QED
    BY <1>3, <2>1, <2>2, MovesFit, TypeAgain DEF DecideReads
<1>4. CASE Decides(e)
  <2>1. ASSUME NEW todo \in SUBSET Batches, NEW done \in SUBSET Batches
        PROVE  Fit([ex[e] EXCEPT !.pc = "ready", !.events = <<>>, !.todo = todo,
                                 !.done = done])
    BY <1>1, <1>4, <2>1
       DEF Decides, Fit, States, Pcs, Thens, Returning, AtBatch, Unleased
  <2>2. \A events : Reconciled(events) \in SUBSET Batches
    BY DEF Reconciled
  <2>3. \/ Moves(e, Offline)
        \/ \E todo, done \in SUBSET Batches :
             Moves(e, [ex[e] EXCEPT !.pc = "ready", !.events = <<>>, !.todo = todo,
                                    !.done = done])
    BY <1>4, <2>2, Zenon DEF Decides
  <2>4. FilesFit'
    BY <1>1, <1>4 DEF Decides, FilesFit, Events, Leases, Markers
  <2> QED
    BY <2>1, <2>3, <2>4, MovesFit, OfflineFits, TypeAgain
<1>5. CASE AppendWrites(e)
  <2>1. Fit([ex[e] EXCEPT !.pc = ex[e].then, !.then = "off", !.seq = 0,
                          !.kind = "batch_dispatched"])
    BY <1>1, <1>5
       DEF AppendWrites, Fit, States, Pcs, Thens, Kinds, Returning, AtBatch, Unleased
  <2>2. [kind |-> ex[e].kind, batch |-> ex[e].cur, seq |-> ex[e].seq] \in Events
    BY <1>1, <1>5 DEF AppendWrites, Fit, States, AtBatch, Events
  <2>3. journal' \in Seq(Events) /\ Len(journal') <= MaxEvents
    <3>1. ASSUME NEW v \in Events
          PROVE  Append(journal, v) \in Seq(Events) /\ Len(Append(journal, v)) = Len(journal) + 1
      BY <1>1
    <3>2. Len(journal) \in Nat /\ Len(journal) + 1 <= MaxEvents
      BY <1>1, <1>5, BoundFacts DEF AppendWrites
    <3> QED
      BY <1>1, <1>5, <2>2, <3>1, <3>2 DEF AppendWrites, FilesFit
  <2>4. excuses' \subseteq Excuses
    BY <1>1, <1>5 DEF AppendWrites, FilesFit, Excuses
  <2>5. FilesFit'
    BY <1>1, <1>5, <2>3, <2>4 DEF AppendWrites, FilesFit, Events, Leases, Markers
  <2> QED
    BY <1>5, <2>1, <2>5, MovesFit, TypeAgain DEF AppendWrites
<1>6. ASSUME NEW b \in Batches, Backfill(e, b) PROVE ExecutionTypeOK'
  <2>1. \A n \in Nat :
          Fit([ex[e] EXCEPT !.pc = "appending", !.cur = b, !.kind = "commit_observed",
                            !.seq = n, !.then = "ready", !.done = @ \ {b}])
    BY <1>1, <1>6, BoundFacts
       DEF Backfill, Fit, States, Pcs, Thens, Kinds, Returning, AtBatch, Unleased
  <2>2. FilesFit'
    BY <1>1, <1>6 DEF Backfill, FilesFit, Events, Leases, Markers
  <2> QED
    BY <1>1, <1>6, <2>1, <2>2, MovesFit, TypeAgain DEF Backfill
<1>7. ASSUME NEW b \in Batches, Dispatch(e, b) PROVE ExecutionTypeOK'
  BY <1>2, <1>7, AppendReadsType DEF Dispatch, Kinds, Thens
<1>8. CASE CommitObserved(e)
  <2>1. ex[e].cur \in Batches
    BY <1>1, <1>8 DEF CommitObserved, Fit, States, AtBatch
  <2> QED
    BY <1>2, <1>8, <2>1, AppendReadsType DEF CommitObserved, Kinds, Thens
<1>9. CASE CommitStarts(e) \/ CommitEmpty(e)
  <2>1. ASSUME CommitStarts(e)
        PROVE  \A n \in Nat : Fit([ex[e] EXCEPT !.pc = "committing", !.seq = n])
    BY <1>1, <2>1 DEF CommitStarts, Fit, States, Pcs, Thens, Returning, AtBatch, Unleased
  <2>2. ASSUME CommitEmpty(e) PROVE Fit([ex[e] EXCEPT !.pc = "observed", !.seq = 0])
    BY <1>1, <2>2 DEF CommitEmpty, Fit, States, Pcs, Thens, Returning, AtBatch, Unleased
  <2>3. FilesFit'
    BY <1>1, <1>9 DEF CommitStarts, CommitEmpty, FilesFit, Events, Leases, Markers
  <2>4. ASSUME CommitStarts(e) PROVE ExecutionTypeOK'
    BY <1>1, <2>1, <2>3, <2>4, MovesFit, TypeAgain DEF CommitStarts
  <2>5. ASSUME CommitEmpty(e) PROVE ExecutionTypeOK'
    BY <2>2, <2>3, <2>5, MovesFit, TypeAgain DEF CommitEmpty
  <2> QED
    BY <1>9, <2>4, <2>5
<1>10. CASE CommitMade(e)
  <2>1. Fit([ex[e] EXCEPT !.pc = "made", !.seq = 0])
    BY <1>1, <1>10 DEF CommitMade, Fit, States, Pcs, Thens, Returning, AtBatch, Unleased
  <2>2. ex[e].cur \in Batches /\ ex[e].seq \in Nat
    BY <1>1, <1>10 DEF CommitMade, Fit, States, AtBatch
  <2>3. FilesFit'
    BY <1>1, <1>10, <2>2 DEF CommitMade, FilesFit, Events, Leases, Markers
  <2> QED
    BY <1>10, <2>1, <2>3, MovesFit, TypeAgain DEF CommitMade
<1>11. CASE Complete(e)
  <2>1. \A n \in Nat :
          Fit([ex[e] EXCEPT !.pc = "appending", !.kind = "batch_completed",
                            !.seq = n, !.then = "ready", !.todo = @ \ {ex[e].cur}])
    BY <1>1, <1>11
       DEF Complete, Fit, States, Pcs, Thens, Kinds, Returning, AtBatch, Unleased
  <2>2. FilesFit'
    BY <1>1, <1>11 DEF Complete, FilesFit, Events, Leases, Markers
  <2> QED
    BY <1>1, <1>11, <2>1, <2>2, MovesFit, TypeAgain DEF Complete
<1> QED
  BY <1>3, <1>4, <1>5, <1>6, <1>7, <1>8, <1>9, <1>10, <1>11 DEF BatchStep

LEMMA TypeStep == ExecutionTypeOK /\ [ExecutionNext]_executionVars => ExecutionTypeOK'
<1> SUFFICES ASSUME ExecutionTypeOK, [ExecutionNext]_executionVars PROVE ExecutionTypeOK'
  OBVIOUS
<1>1. FilesFit /\ ex \in [Executors -> States] /\ \A e \in Executors : Fit(ex[e])
  BY TypeParts
<1>2. ASSUME NEW e \in Executors, Starts(e) PROVE ExecutionTypeOK'
  <2>1. Fit([Offline EXCEPT !.pc = "idle"])
    BY OfflineFits
       DEF Fit, Offline, States, Pcs, Thens, Returning, AtBatch, Unleased, NoBatch
  <2>2. FilesFit'
    BY <1>1, <1>2 DEF Starts, FilesFit, Events, Leases, Markers
  <2> QED
    BY <1>2, <2>1, <2>2, MovesFit, TypeAgain DEF Starts
<1>3. ASSUME NEW e \in Executors, HeartbeatRefused(e) PROVE ExecutionTypeOK'
  <2>1. FilesFit'
    BY <1>1, <1>3 DEF HeartbeatRefused, FilesFit, Events, Leases, Markers
  <2> QED
    BY <1>3, <2>1, OfflineFits, MovesFit, TypeAgain DEF HeartbeatRefused
<1>4. ASSUME PlainCommit \/ Tick \/ UNCHANGED executionVars PROVE ExecutionTypeOK'
  <2>1. FilesFit'
    <3>1. CASE PlainCommit
      <4>1. plain' \in 0..MaxPlain /\ excuses' \subseteq Excuses
        BY <1>1, <3>1, BoundFacts DEF PlainCommit, FilesFit, Excuses
      <4> QED
        BY <1>1, <3>1, <4>1 DEF PlainCommit, FilesFit, Events, Leases, Markers
    <3>2. CASE Tick
      <4>1. clock' \in 0..MaxClock
        BY <1>1, <3>2, BoundFacts DEF Tick, FilesFit
      <4> QED
        BY <1>1, <3>2, <4>1 DEF Tick, FilesFit, Events, Leases, Markers
    <3>3. CASE UNCHANGED executionVars
      BY <1>1, <3>3 DEF executionVars, FilesFit, Events, Leases, Markers
    <3> QED
      BY <1>4, <3>1, <3>2, <3>3
  <2>2. ex' = ex
    BY <1>4 DEF PlainCommit, Tick, executionVars
  <2>3. \A e \in Executors : Fit(ex'[e])
    BY <1>1, <2>2
  <2>4. ex' \in [Executors -> States]
    BY <1>1, <2>2
  <2> QED
    BY <2>1, <2>3, <2>4, TypeAgain
<1>5. ASSUME NEW p \in Processes, Crash(p) PROVE ExecutionTypeOK'
  <2>1. FilesFit'
    <3>1. crashes' \in 0..MaxCrashes
      BY <1>1, <1>5, BoundFacts DEF Crash, FilesFit
    <3>2. torn' \in BOOLEAN
      <4>1. torn \in BOOLEAN
        BY <1>1 DEF FilesFit
      <4> QED
        BY <1>5, <4>1, Zenon DEF Crash
    <3> QED
      BY <1>1, <1>5, <3>1, <3>2 DEF Crash, FilesFit, Events, Leases, Markers
  <2>2. \A e \in Executors : ex'[e] = Offline \/ ex'[e] = ex[e]
    BY <1>5 DEF Crash
  <2>3. \A e \in Executors : Fit(ex'[e])
    BY <1>1, <2>2, OfflineFits
  <2>4. ex' \in [Executors -> States]
    BY <1>5, <2>3 DEF Crash, Fit
  <2> QED
    BY <2>1, <2>3, <2>4, TypeAgain
<1> QED
  BY <1>2, <1>3, <1>4, <1>5, LeaseType, BatchType DEF ExecutionNext, ExecutorStep

\* The files and the executors keep their types.
THEOREM ExecutionTyped == ExecutionSpec => []ExecutionTypeOK
  BY TypeInit, TypeStep, PTL DEF ExecutionSpec
-----------------------------------------------------------------------------
(* What a step of an executor does                                          *)

LEMMA Frame ==
    ASSUME ExecutionTypeOK, NEW e \in Executors, ExecutorStep(e)
    PROVE  /\ home' = home /\ clock' = clock /\ excuses \subseteq excuses'
           /\ \A f \in Executors \ {e} : ex'[f] = ex[f]
<1>1. ex \in [Executors -> States]
  BY TypeParts
<1>2. \E r : Moves(e, r)
  <2>1. CASE Starts(e) \/ HeartbeatRefused(e)
    BY <2>1 DEF Starts, HeartbeatRefused
  <2>2. CASE LeaseStep(e)
    BY <2>2 DEF LeaseStep, AcquireReads, LeaseToTemp, LeaseRenamed, HeartbeatReads,
                ReleaseReads, ReleaseRemoves
  <2>3. CASE BatchStep(e)
    BY <2>3, Zenon DEF BatchStep, DecideReads, Decides, AppendWrites, Backfill, Dispatch,
                AppendReads, CommitStarts, CommitMade, CommitEmpty, CommitObserved, Complete
  <2> QED
    BY <2>1, <2>2, <2>3 DEF ExecutorStep
<1>3. home' = home /\ clock' = clock
  BY DEF ExecutorStep, Starts, HeartbeatRefused, LeaseStep, BatchStep, AcquireReads,
         LeaseToTemp, LeaseRenamed, HeartbeatReads, ReleaseReads, ReleaseRemoves,
         DecideReads, Decides, AppendWrites, Backfill, Dispatch, AppendReads,
         CommitStarts, CommitMade, CommitEmpty, CommitObserved, Complete
<1>4. excuses \subseteq excuses'
  BY DEF ExecutorStep, Starts, HeartbeatRefused, LeaseStep, BatchStep, AcquireReads,
         LeaseToTemp, LeaseRenamed, HeartbeatReads, ReleaseReads, ReleaseRemoves,
         DecideReads, Decides, AppendWrites, Backfill, Dispatch, AppendReads,
         CommitStarts, CommitMade, CommitEmpty, CommitObserved, Complete
<1> QED
  BY <1>1, <1>2, <1>3, <1>4 DEF Moves

LeasePcs == {"acquire", "heartbeat", "release", "renaming"}

\* A step that has nothing to do with the lease file.
Quiet(e) ==
    /\ lease' = lease /\ temp' = temp
    /\ ex[e].pc \notin LeasePcs /\ ex'[e].pc \notin LeasePcs
    /\ ex'[e].holds => ex[e].holds /\ ex'[e].beat = ex[e].beat

LEMMA QuietSteps ==
    ASSUME ExecutionTypeOK, NEW e \in Executors,
           Starts(e) \/ HeartbeatRefused(e) \/ BatchStep(e)
    PROVE  Quiet(e)
<1>1. /\ ex \in [Executors -> States] /\ ex[e] \in States
      /\ Offline.pc \notin LeasePcs /\ ~Offline.holds
  BY TypeParts DEF Offline, LeasePcs
<1>2. CASE Starts(e)
  BY <1>1, <1>2 DEF Starts, Moves, Quiet, LeasePcs, Offline
<1>3. CASE HeartbeatRefused(e)
  BY <1>1, <1>3 DEF HeartbeatRefused, Moves, Quiet, LeasePcs
<1>4. CASE Decides(e)
  <2>1. \/ ex'[e] = Offline
        \/ \E todo, done : ex'[e] = [ex[e] EXCEPT !.pc = "ready", !.events = <<>>,
                                                  !.todo = todo, !.done = done]
    <3>1. \/ Moves(e, Offline)
          \/ \E todo, done : Moves(e, [ex[e] EXCEPT !.pc = "ready", !.events = <<>>,
                                                    !.todo = todo, !.done = done])
      BY <1>4, Zenon DEF Decides
    <3> QED
      BY <1>1, <3>1 DEF Moves
  <2> QED
    BY <1>1, <1>4, <2>1 DEF Decides, Quiet, LeasePcs, States
<1>5. CASE AppendWrites(e)
  <2>1. ex'[e] = [ex[e] EXCEPT !.pc = ex[e].then, !.then = "off", !.seq = 0,
                               !.kind = "batch_dispatched"]
    BY <1>1, <1>5 DEF AppendWrites, Moves
  <2>2. ex[e].then \notin LeasePcs
    BY <1>1 DEF States, Thens, LeasePcs
  <2> QED
    BY <1>1, <1>5, <2>1, <2>2 DEF AppendWrites, Quiet, LeasePcs, States
<1>6. ASSUME NEW kind, NEW b, NEW then, ex[e].pc \notin LeasePcs, AppendReads(e, kind, b, then)
      PROVE  Quiet(e)
  BY <1>1, <1>6 DEF AppendReads, Moves, Quiet, LeasePcs, States
<1>7. CASE CommitObserved(e) \/ \E b \in Batches : Dispatch(e, b)
  BY <1>6, <1>7 DEF CommitObserved, Dispatch, LeasePcs
<1>8. CASE DecideReads(e) \/ CommitStarts(e) \/ CommitMade(e) \/ CommitEmpty(e)
  <2>1. CASE DecideReads(e)
    BY <1>1, <2>1 DEF DecideReads, Moves, Quiet, LeasePcs, States
  <2>2. CASE CommitStarts(e)
    BY <1>1, <2>2 DEF CommitStarts, Moves, Quiet, LeasePcs, States
  <2>3. CASE CommitMade(e)
    BY <1>1, <2>3 DEF CommitMade, Moves, Quiet, LeasePcs, States
  <2>4. CASE CommitEmpty(e)
    BY <1>1, <2>4 DEF CommitEmpty, Moves, Quiet, LeasePcs, States
  <2> QED
    BY <1>8, <2>1, <2>2, <2>3, <2>4
<1>9. CASE Complete(e)
  BY <1>1, <1>9 DEF Complete, Moves, Quiet, LeasePcs, States
<1>10. ASSUME NEW b \in Batches, Backfill(e, b) PROVE Quiet(e)
  BY <1>1, <1>10 DEF Backfill, Moves, Quiet, LeasePcs, States
<1> QED
  BY <1>2, <1>3, <1>4, <1>5, <1>7, <1>8, <1>9, <1>10 DEF BatchStep

-----------------------------------------------------------------------------
(* The lease                                                                *)

\* Time only makes leases later.
LEMMA LateStays ==
    ASSUME ExecutionTypeOK, NEW e \in Executors, NEW f \in Executors,
           clock' >= clock, clock' \in Nat, ex'[f].beat = ex[e].beat, Lapsed(e)
    PROVE  Lapsed(f)'
<1>1. ex[e].beat \in Nat /\ clock \in Nat /\ Ttl \in Nat
  BY BoundFacts, TypeParts DEF FilesFit, Fit, States
<1> QED
  BY <1>1 DEF Lapsed

LEMMA LeaseQuiet ==
    ASSUME ExecutionTypeOK, LateOrOwner, OneHolder, NEW e \in Executors,
           ExecutorStep(e), Quiet(e)
    PROVE  LateOrOwner' /\ OneHolder'
<1>1. /\ clock' = clock /\ clock \in Nat /\ excuses \subseteq excuses'
      /\ \A f \in Executors \ {e} : ex'[f] = ex[f]
  BY Frame, TypeParts, BoundFacts DEF FilesFit
<1>2. \A f \in Executors : AtLease(f)' => f # e /\ AtLease(f)
  BY <1>1 DEF AtLease, Quiet, LeasePcs
<1>3. \A f \in Executors : ex'[f].holds => ex[f].holds /\ ex'[f].beat = ex[f].beat
  BY <1>1 DEF Quiet
<1>4. \A f \in Executors : ex'[f].holds /\ Lapsed(f) => Lapsed(f)'
  BY <1>1, <1>3, LateStays
<1>5. \A f \in Executors : ex'[f].holds /\ Owns(f) => Owns(f)'
  BY <1>1, <1>3 DEF Owns, Quiet, LeasePcs
<1>6. ASSUME "raced" \notin excuses', NEW f \in Executors
      PROVE  /\ ex'[f].holds => Lapsed(f)' \/ Owns(f)'
             /\ ex'[f].pc = "renaming" => temp' = [owner |-> f, beat |-> ex'[f].beat]
             /\ AtLease(f)' => \A g \in Executors \ {f} :
                                 ~AtLease(g)' /\ (ex'[g].holds => Lapsed(g)')
  <2>1. "raced" \notin excuses
    BY <1>1, <1>6
  <2>2. ex'[f].holds => Lapsed(f)' \/ Owns(f)'
    BY <1>3, <1>4, <1>5, <2>1 DEF LateOrOwner
  <2>3. ex'[f].pc = "renaming" => temp' = [owner |-> f, beat |-> ex'[f].beat]
    BY <1>1, <2>1 DEF LateOrOwner, Quiet, LeasePcs
  <2>4. AtLease(f)' => \A g \in Executors \ {f} :
                         ~AtLease(g)' /\ (ex'[g].holds => Lapsed(g)')
    BY <1>2, <1>3, <1>4, <2>1 DEF LateOrOwner
  <2> QED
    BY <2>2, <2>3, <2>4
<1>7. LateOrOwner'
  BY <1>6 DEF LateOrOwner
<1>8. OneHolder'
  BY <1>1, <1>2, <1>3 DEF OneHolder, Quiet
<1> QED
  BY <1>7, <1>8

\* An executor that enters a call on the lease, or leaves one, while no other
\* is inside one and all others are late.
LEMMA LeaseEnters ==
    ASSUME ExecutionTypeOK, LateOrOwner, OneHolder, NEW e \in Executors,
           ExecutorStep(e), lease' = lease, temp' = temp, ex'[e].pc \notin {"renaming"},
           "raced" \notin excuses' =>
                /\ \A f \in Executors \ {e} :
                      ~AtLease(f) /\ (ex[f].holds => Lapsed(f))
                /\ ex'[e].holds => Lapsed(e)' \/ Owns(e)',
           excuses' \cap {"raced", "stolen"} = {} =>
                /\ \A f \in Executors \ {e} : ~ex[f].holds
                /\ ex'[e].holds => lease # NoOne /\ lease.owner = e
    PROVE  LateOrOwner' /\ OneHolder'
<1>1. /\ clock' = clock /\ clock \in Nat /\ excuses \subseteq excuses'
      /\ \A f \in Executors \ {e} : ex'[f] = ex[f]
  BY Frame, TypeParts, BoundFacts DEF FilesFit
<1>2. \A f \in Executors \ {e} : Lapsed(f) => Lapsed(f)'
  BY <1>1, LateStays
<1>3. \A f \in Executors \ {e} : AtLease(f)' <=> AtLease(f)
  BY <1>1 DEF AtLease
<1>4. ASSUME "raced" \notin excuses' PROVE LateOrOwner'
  <2>1. \A f \in Executors \ {e} : ~AtLease(f)' /\ (ex'[f].holds => Lapsed(f)')
    BY <1>1, <1>2, <1>3, <1>4
  <2>2. \A f \in Executors \ {e} : ex'[f].pc # "renaming"
    BY <2>1 DEF AtLease
  <2> QED
    BY <1>4, <2>1, <2>2 DEF LateOrOwner
<1>5. LateOrOwner'
  BY <1>4 DEF LateOrOwner
<1>6. OneHolder'
  BY <1>1, <1>3 DEF OneHolder, AtLease
<1> QED
  BY <1>5, <1>6

\* The rest of a call: the others stay late and outside.
LEMMA LeaseInside ==
    ASSUME ExecutionTypeOK, LateOrOwner, OneHolder, NEW e \in Executors,
           ExecutorStep(e), AtLease(e), excuses' = excuses,
           "raced" \notin excuses =>
                /\ ex'[e].pc = "renaming" => temp' = [owner |-> e, beat |-> ex'[e].beat]
                /\ ex'[e].holds => Lapsed(e)' \/ Owns(e)',
           excuses \cap {"raced", "stolen"} = {} =>
                (ex'[e].holds => lease' # NoOne /\ lease'.owner = e)
    PROVE  LateOrOwner' /\ OneHolder'
<1>1. /\ clock' = clock /\ clock \in Nat
      /\ \A f \in Executors \ {e} : ex'[f] = ex[f]
  BY Frame, TypeParts, BoundFacts DEF FilesFit
<1>2. \A f \in Executors \ {e} : Lapsed(f) => Lapsed(f)'
  BY <1>1, LateStays
<1>3. \A f \in Executors \ {e} : AtLease(f)' <=> AtLease(f)
  BY <1>1 DEF AtLease
<1>4. ASSUME "raced" \notin excuses PROVE LateOrOwner'
  <2>1. \A f \in Executors \ {e} : ~AtLease(f)' /\ (ex'[f].holds => Lapsed(f)')
    BY <1>1, <1>2, <1>3, <1>4 DEF LateOrOwner
  <2>2. \A f \in Executors \ {e} : ex'[f].pc # "renaming"
    BY <2>1 DEF AtLease
  <2> QED
    BY <1>4, <2>1, <2>2 DEF LateOrOwner
<1>5. LateOrOwner'
  BY <1>4 DEF LateOrOwner
<1>6. ASSUME excuses \cap {"raced", "stolen"} = {} PROVE OneHolder'
  <2>1. \A f \in Executors \ {e} : ~ex'[f].holds
    BY <1>1, <1>6 DEF OneHolder
  <2>2. \A f \in Executors \ {e} : ~AtLease(f)'
    BY <1>3, <1>6 DEF LateOrOwner
  <2> QED
    BY <1>6, <2>1, <2>2 DEF OneHolder
<1>7. OneHolder'
  BY <1>6 DEF OneHolder
<1> QED
  BY <1>5, <1>7

LEMMA LeaseSteps ==
    ASSUME ExecutionTypeOK, LateOrOwner, OneHolder, NEW e \in Executors, LeaseStep(e)
    PROVE  LateOrOwner' /\ OneHolder'
<1>1. /\ ex \in [Executors -> States] /\ ex[e] \in States /\ Fit(ex[e])
      /\ clock \in Nat /\ Offline.pc \notin LeasePcs /\ ~Offline.holds
      /\ ExecutorStep(e)
  BY TypeParts, BoundFacts DEF Offline, LeasePcs, FilesFit, ExecutorStep
<1>2. /\ clock' = clock /\ excuses \subseteq excuses'
      /\ \A f \in Executors \ {e} : ex'[f] = ex[f]
  BY <1>1, Frame
<1>3. Raced(e) = {} => \A f \in Executors \ {e} : ~AtLease(f)
  BY DEF Raced, AtLease
<1>4. Raced(e) \subseteq {"raced"} /\ (Raced(e) = {} \/ "raced" \in Raced(e))
  BY DEF Raced
\* Who else holds the lease has it in the file, as he wrote it, or is late.
<1>5. ASSUME "raced" \notin excuses, \A f \in Executors \ {e} : ~AtLease(f)
      PROVE  \A f \in Executors \ {e} : ex[f].holds =>
                \/ Lapsed(f)
                \/ lease # NoOne /\ lease.owner = f /\ lease.beat = ex[f].beat
  BY <1>5 DEF LateOrOwner, Owns, AtLease
<1>6. CASE AcquireReads(e)
  <2>1. ex'[e] = [ex[e] EXCEPT !.pc = "acquire", !.then = "held", !.beat = clock]
    BY <1>1, <1>6 DEF AcquireReads, Moves
  <2>2. ex'[e].pc = "acquire" /\ ~ex'[e].holds
    BY <1>1, <1>6, <2>1 DEF AcquireReads, Fit, States, Unleased
  <2>3. Raced(e) \subseteq excuses' /\ lease' = lease /\ temp' = temp
    BY <1>6 DEF AcquireReads
  <2>4. ASSUME "raced" \notin excuses'
        PROVE  \A f \in Executors \ {e} : ~AtLease(f) /\ (ex[f].holds => Lapsed(f))
    <3>1. "raced" \notin excuses /\ \A f \in Executors \ {e} : ~AtLease(f)
      BY <1>2, <1>3, <1>4, <2>3, <2>4
    <3>2. lease # NoOne /\ lease.owner # e => clock - lease.beat > Ttl
      BY <1>6 DEF AcquireReads, MayTake, Expired
    <3> QED
      BY <1>5, <3>1, <3>2 DEF Lapsed
  <2>5. ASSUME excuses' \cap {"raced", "stolen"} = {}
        PROVE  \A f \in Executors \ {e} : ~ex[f].holds
    <3>1. ~\E f \in Executors \ {e} : ex[f].holds /\ lease # NoOne /\ lease.owner = f
      BY <1>6, <2>5 DEF AcquireReads
    <3>2. excuses \cap {"raced", "stolen"} = {}
      BY <1>2, <2>5
    <3> QED
      BY <3>1, <3>2 DEF OneHolder
  <2> QED
    BY <1>1, <2>2, <2>3, <2>4, <2>5, LeaseEnters
<1>7. CASE HeartbeatReads(e)
  <2>1. ex'[e] = [ex[e] EXCEPT !.then = ex[e].pc, !.pc = "heartbeat", !.beat = clock]
    BY <1>1, <1>7 DEF HeartbeatReads, Moves
  <2>2. ex'[e].pc = "heartbeat"
    BY <1>1, <2>1 DEF States
  <2>3. /\ Raced(e) \subseteq excuses' /\ lease' = lease /\ temp' = temp
        /\ lease # NoOne /\ lease.owner = e
    BY <1>7 DEF HeartbeatReads
  <2>4. ASSUME "raced" \notin excuses'
        PROVE  \A f \in Executors \ {e} : ~AtLease(f) /\ (ex[f].holds => Lapsed(f))
    <3>1. "raced" \notin excuses /\ \A f \in Executors \ {e} : ~AtLease(f)
      BY <1>2, <1>3, <1>4, <2>3, <2>4
    <3> QED
      BY <1>5, <2>3, <3>1
  <2>5. ASSUME excuses' \cap {"raced", "stolen"} = {}
        PROVE  \A f \in Executors \ {e} : ~ex[f].holds
    <3>1. excuses \cap {"raced", "stolen"} = {}
      BY <1>2, <2>5
    <3> QED
      BY <2>3, <3>1 DEF OneHolder
  <2>6. Owns(e)'
    BY <2>2, <2>3 DEF Owns
  <2> QED
    BY <1>1, <2>2, <2>3, <2>4, <2>5, <2>6, LeaseEnters
<1>8. CASE ReleaseReads(e) /\ lease # NoOne /\ lease.owner = e
  <2>1. ex'[e] = [ex[e] EXCEPT !.pc = "release"]
    BY <1>1, <1>8 DEF ReleaseReads, Moves
  <2>2. ex'[e].pc = "release" /\ ex'[e].beat = ex[e].beat /\ (ex'[e].holds <=> ex[e].holds)
    BY <1>1, <2>1 DEF States
  <2>3. /\ Raced(e) \subseteq excuses' /\ lease' = lease /\ temp' = temp
        /\ ex[e].pc \in {"held", "ready"}
    BY <1>8 DEF ReleaseReads
  <2>4. ASSUME "raced" \notin excuses'
        PROVE  /\ \A f \in Executors \ {e} : ~AtLease(f) /\ (ex[f].holds => Lapsed(f))
               /\ ex'[e].holds => Lapsed(e)' \/ Owns(e)'
    <3>1. "raced" \notin excuses /\ \A f \in Executors \ {e} : ~AtLease(f)
      BY <1>2, <1>3, <1>4, <2>3, <2>4
    <3>2. ex[e].holds => Lapsed(e) \/ lease.beat = ex[e].beat
      BY <2>3, <3>1 DEF LateOrOwner, Owns
    <3>3. ex'[e].holds => Lapsed(e)' \/ Owns(e)'
      BY <1>1, <1>2, <1>8, <2>2, <2>3, <3>2 DEF Lapsed, Owns
    <3> QED
      BY <1>5, <1>8, <3>1, <3>3
  <2>5. ASSUME excuses' \cap {"raced", "stolen"} = {}
        PROVE  \A f \in Executors \ {e} : ~ex[f].holds
    <3>1. excuses \cap {"raced", "stolen"} = {}
      BY <1>2, <2>5
    <3> QED
      BY <1>8, <3>1 DEF OneHolder
  <2> QED
    BY <1>1, <1>8, <2>2, <2>3, <2>4, <2>5, LeaseEnters
<1>9. CASE ReleaseReads(e) /\ ~(lease # NoOne /\ lease.owner = e)
  <2>1. ex'[e] = Offline /\ lease' = lease /\ temp' = temp /\ ex[e].pc \in {"held", "ready"}
    BY <1>1, <1>9 DEF ReleaseReads, Moves
  <2> QED
    BY <1>1, <2>1, LeaseQuiet DEF Quiet, LeasePcs
<1>10. CASE LeaseToTemp(e)
  <2>1. ex'[e] = [ex[e] EXCEPT !.pc = "renaming"]
    BY <1>1, <1>10 DEF LeaseToTemp, Moves
  <2>2. ex'[e].pc = "renaming" /\ ex'[e].beat = ex[e].beat /\ (ex'[e].holds <=> ex[e].holds)
    BY <1>1, <2>1 DEF States
  <2>3. /\ excuses' = excuses /\ lease' = lease /\ ex[e].pc \in {"acquire", "heartbeat"}
        /\ temp' = [owner |-> e, beat |-> ex'[e].beat]
    BY <1>10, <2>2 DEF LeaseToTemp
  <2>4. "raced" \notin excuses => (ex'[e].holds => Lapsed(e)' \/ Owns(e)')
    BY <1>1, <1>2, <2>2, <2>3 DEF LateOrOwner, Lapsed, Owns
  <2> QED
    BY <1>1, <2>2, <2>3, <2>4, LeaseInside DEF AtLease, OneHolder
<1>11. CASE LeaseRenamed(e) /\ temp # NoOne
  <2>1. ex'[e] = [ex[e] EXCEPT !.pc = ex[e].then, !.then = "off", !.holds = TRUE]
    BY <1>1, <1>11 DEF LeaseRenamed, Moves
  <2>2. ex'[e].beat = ex[e].beat /\ ex'[e].pc # "renaming"
    BY <1>1, <2>1 DEF States, Thens
  <2>3. excuses' = excuses /\ lease' = temp /\ ex[e].pc = "renaming"
    BY <1>11 DEF LeaseRenamed
  <2>4. "raced" \notin excuses => Owns(e)'
    BY <1>11, <2>2, <2>3 DEF LateOrOwner, Owns
  <2> QED
    BY <1>1, <2>2, <2>3, <2>4, LeaseInside DEF AtLease, Owns
<1>12. CASE (LeaseRenamed(e) /\ temp = NoOne) \/ ReleaseRemoves(e)
  <2>1. ex'[e] = Offline /\ excuses' = excuses /\ AtLease(e)
    BY <1>1, <1>12 DEF LeaseRenamed, ReleaseRemoves, Moves, AtLease
  <2> QED
    BY <1>1, <2>1, LeaseInside DEF LeasePcs
<1> QED
  BY <1>6, <1>7, <1>8, <1>9, <1>10, <1>11, <1>12 DEF LeaseStep

\* Commits without a batch, time and crashes.
LEMMA LeaseWorld ==
    ASSUME ExecutionTypeOK, LateOrOwner, OneHolder,
           \/ PlainCommit \/ Tick \/ UNCHANGED executionVars
           \/ \E p \in Processes : Crash(p)
    PROVE  LateOrOwner' /\ OneHolder'
<1>1. /\ clock \in Nat /\ MaxClock \in Nat /\ Offline.pc \notin LeasePcs /\ ~Offline.holds
  BY TypeParts, BoundFacts DEF FilesFit, Offline, LeasePcs
<1>2. /\ lease' = lease /\ temp' = temp /\ excuses \subseteq excuses'
      /\ clock' \in Nat /\ clock' >= clock
      /\ \A f \in Executors : ex'[f] = ex[f] \/ ex'[f] = Offline
  <2>1. CASE PlainCommit \/ UNCHANGED executionVars
    BY <1>1, <2>1 DEF PlainCommit, executionVars
  <2>2. CASE Tick
    BY <1>1, <2>2 DEF Tick
  <2>3. ASSUME NEW p \in Processes, Crash(p)
        PROVE  /\ UNCHANGED <<lease, temp, excuses, clock>>
               /\ \A f \in Executors : ex'[f] = ex[f] \/ ex'[f] = Offline
    BY <2>3 DEF Crash
  <2> QED
    BY <1>1, <2>1, <2>2, <2>3
<1>3. \A f \in Executors : ex'[f].holds \/ AtLease(f)' => ex'[f] = ex[f]
  BY <1>1, <1>2 DEF AtLease, LeasePcs
<1>4. \A f \in Executors : ex'[f].holds /\ Lapsed(f) => Lapsed(f)'
  BY <1>2, <1>3, LateStays
<1>5. \A f \in Executors : ex'[f].holds /\ Owns(f) => Owns(f)'
  BY <1>2, <1>3 DEF Owns
<1>6. \A f \in Executors : AtLease(f)' => AtLease(f)
  BY <1>3 DEF AtLease
<1>7. \A f \in Executors : ex'[f].pc = "renaming" => ex'[f] = ex[f]
  BY <1>3 DEF AtLease
<1>8. ASSUME "raced" \notin excuses' PROVE LateOrOwner'
  <2>1. "raced" \notin excuses
    BY <1>2, <1>8
  <2>2. \A f \in Executors : ex'[f].holds => Lapsed(f)' \/ Owns(f)'
    BY <1>3, <1>4, <1>5, <2>1 DEF LateOrOwner
  <2>3. \A f \in Executors :
          ex'[f].pc = "renaming" => temp' = [owner |-> f, beat |-> ex'[f].beat]
    BY <1>2, <1>7, <2>1 DEF LateOrOwner
  <2>4. \A f \in Executors : AtLease(f)' => \A g \in Executors \ {f} :
          ~AtLease(g)' /\ (ex'[g].holds => Lapsed(g)')
    BY <1>3, <1>4, <1>6, <2>1 DEF LateOrOwner
  <2> QED
    BY <2>2, <2>3, <2>4 DEF LateOrOwner
<1>9. LateOrOwner'
  BY <1>8 DEF LateOrOwner
<1>10. OneHolder'
  BY <1>2, <1>3, <1>6 DEF OneHolder
<1> QED
  BY <1>9, <1>10

\* Two holders in time would both have the lease file.
LEMMA OwnersExclude == ExecutionTypeOK /\ LateOrOwner => LeaseExclusive
  BY DEF LateOrOwner, LeaseExclusive, Lapsed, Owns
-----------------------------------------------------------------------------
(* The journal                                                              *)

\* What a step of an executor makes of the journal and of its own append.
JournalStays(e) == journal' = journal /\ ex'[e].pc # "appending"

BeginsAppend(e) ==
    /\ journal' = journal /\ MayRun(e) /\ ex[e].holds
    /\ ex'[e].seq = LastSeq(journal) + 1

EndsAppend(e) ==
    /\ ex[e].pc = "appending" /\ ex'[e].pc # "appending"
    /\ \/ journal' = journal
       \/ \E v \in Events : v.seq = ex[e].seq /\ journal' = Append(journal, v)

LEMMA JournalSteps ==
    ASSUME ExecutionTypeOK, NEW e \in Executors, ExecutorStep(e)
    PROVE  JournalStays(e) \/ BeginsAppend(e) \/ EndsAppend(e)
<1>1. /\ ex \in [Executors -> States] /\ ex[e] \in States /\ Fit(ex[e])
      /\ Offline.pc # "appending" /\ ex[e].then # "appending"
  BY TypeParts DEF Offline, Fit, States, Thens
<1>2. CASE Starts(e)
  BY <1>1, <1>2 DEF Starts, Moves, Offline, JournalStays
<1>3. CASE HeartbeatRefused(e) \/ ReleaseReads(e) \/ ReleaseRemoves(e)
  BY <1>1, <1>3 DEF HeartbeatRefused, ReleaseReads, ReleaseRemoves, Moves, JournalStays, States
<1>4. CASE AcquireReads(e) \/ HeartbeatReads(e) \/ LeaseToTemp(e)
  BY <1>1, <1>4 DEF AcquireReads, HeartbeatReads, LeaseToTemp, Moves, JournalStays, States
<1>5. CASE LeaseRenamed(e)
  <2>1. \/ ex'[e] = Offline
        \/ ex'[e] = [ex[e] EXCEPT !.pc = ex[e].then, !.then = "off", !.holds = TRUE]
    BY <1>1, <1>5 DEF LeaseRenamed, Moves
  <2>2. ex'[e].pc # "appending"
    BY <1>1, <2>1 DEF States
  <2> QED
    BY <1>5, <2>2 DEF LeaseRenamed, JournalStays
<1>6. CASE DecideReads(e) \/ CommitStarts(e) \/ CommitMade(e) \/ CommitEmpty(e)
  <2>1. CASE DecideReads(e)
    BY <1>1, <2>1 DEF DecideReads, Moves, JournalStays, States
  <2>2. CASE CommitStarts(e)
    BY <1>1, <2>2 DEF CommitStarts, Moves, JournalStays, States
  <2>3. CASE CommitMade(e)
    BY <1>1, <2>3 DEF CommitMade, Moves, JournalStays, States
  <2>4. CASE CommitEmpty(e)
    BY <1>1, <2>4 DEF CommitEmpty, Moves, JournalStays, States
  <2> QED
    BY <1>6, <2>1, <2>2, <2>3, <2>4
<1>7. CASE Decides(e)
  <2>1. \/ Moves(e, Offline)
        \/ \E todo, done : Moves(e, [ex[e] EXCEPT !.pc = "ready", !.events = <<>>,
                                                  !.todo = todo, !.done = done])
    BY <1>7, Zenon DEF Decides
  <2> QED
    BY <1>1, <1>7, <2>1 DEF Decides, Moves, JournalStays, States
<1>8. ASSUME NEW kind, NEW b, NEW then, AppendReads(e, kind, b, then), MayRun(e), ex[e].holds
      PROVE  BeginsAppend(e)
  BY <1>1, <1>8 DEF AppendReads, Moves, BeginsAppend, States
<1>9. ex[e].pc \in {"ready", "made", "observed"} => ex[e].holds
  BY <1>1 DEF Fit, Unleased
<1>10. CASE CommitObserved(e) \/ \E b \in Batches : Dispatch(e, b)
  BY <1>8, <1>9, <1>10 DEF CommitObserved, Dispatch
<1>11. CASE Complete(e)
  BY <1>1, <1>9, <1>11 DEF Complete, Moves, BeginsAppend, States
<1>12. ASSUME NEW b \in Batches, Backfill(e, b) PROVE BeginsAppend(e)
  BY <1>1, <1>9, <1>12 DEF Backfill, Moves, BeginsAppend, States
<1>13. CASE AppendWrites(e)
  <2>1. ex'[e] = [ex[e] EXCEPT !.pc = ex[e].then, !.then = "off", !.seq = 0,
                               !.kind = "batch_dispatched"]
    BY <1>1, <1>13 DEF AppendWrites, Moves
  <2>2. ex[e].pc = "appending" /\ ex'[e].pc # "appending"
    BY <1>1, <1>13, <2>1 DEF AppendWrites, States
  <2>3. [kind |-> ex[e].kind, batch |-> ex[e].cur, seq |-> ex[e].seq] \in Events
    BY <1>1, <2>2 DEF Fit, States, AtBatch, Events
  <2> QED
    BY <1>13, <2>2, <2>3 DEF AppendWrites, EndsAppend
<1> QED
  BY <1>2, <1>3, <1>4, <1>5, <1>6, <1>7, <1>10, <1>11, <1>12, <1>13
     DEF ExecutorStep, LeaseStep, BatchStep

\* The executors are kept apart by their process or by the lease.
Apart == \/ \A e, f \in Executors : home[e] = home[f]
         \/ excuses \cap {"raced", "stolen"} = {}

LEMMA AppendGrows ==
    ASSUME NEW events \in Seq(Events), Monotonic(events), NEW v \in Events,
           v.seq = LastSeq(events) + 1
    PROVE  /\ Monotonic(Append(events, v))
           /\ LastSeq(Append(events, v)) = v.seq
<1> DEFINE n == Len(events)
<1>1. /\ n \in Nat /\ Len(Append(events, v)) = n + 1
      /\ Append(events, v)[n + 1] = v
      /\ \A i \in 1..n : Append(events, v)[i] = events[i] /\ events[i] \in Events
  OBVIOUS
<1>2. Append(events, v) # <<>>
  <2>1. Len(Append(events, v)) # 0
    BY <1>1
  <2>2. Len(<<>>) = 0
    OBVIOUS
  <2> QED
    BY <2>1, <2>2, Zenon
<1>3. LastSeq(Append(events, v)) = v.seq
  BY <1>1, <1>2 DEF LastSeq
<1>4. n > 0 => LastSeq(events) = events[n].seq /\ events[n].seq \in Nat
  BY <1>1 DEF LastSeq, Events
<1>5. ASSUME NEW i \in 2..(n + 1)
      PROVE  Append(events, v)[i - 1].seq < Append(events, v)[i].seq
  <2>1. CASE i = n + 1
    <3>1. n > 0 /\ i - 1 = n
      BY <1>1, <2>1
    <3>2. Append(events, v)[n] = events[n]
      BY <1>1, <3>1
    <3>3. events[n].seq \in Nat /\ v.seq = events[n].seq + 1
      BY <1>4, <3>1
    <3>4. Append(events, v)[i - 1].seq = events[n].seq /\ Append(events, v)[i].seq = v.seq
      BY <1>1, <2>1, <3>1, <3>2
    <3> QED
      BY <3>3, <3>4
  <2>2. CASE i \in 2..n
    <3>1. i - 1 \in 1..n /\ i \in 1..n
      BY <1>1, <2>2
    <3> QED
      BY <1>1, <2>2, <3>1 DEF Monotonic
  <2> QED
    BY <1>1, <2>1, <2>2
<1> QED
  BY <1>1, <1>3, <1>5 DEF Monotonic

LEMMA JournalParts ==
    /\ SeqsIncrease <=> (Apart => Monotonic(journal))
    /\ OneAppend <=> (Apart => \A e \in Executors : ex[e].pc = "appending" =>
            /\ ex[e].seq = LastSeq(journal) + 1
            /\ \A f \in Executors \ {e} : ex[f].pc # "appending")
  BY DEF SeqsIncrease, OneAppend, Apart

LEMMA JournalAgain ==
    ASSUME Apart' => /\ Monotonic(journal')
                     /\ \A e \in Executors : ex'[e].pc = "appending" =>
                            /\ ex'[e].seq = LastSeq(journal') + 1
                            /\ \A f \in Executors \ {e} : ex'[f].pc # "appending"
    PROVE  SeqsIncrease' /\ OneAppend'
  BY DEF SeqsIncrease, OneAppend, Apart

LEMMA JournalGrows ==
    ASSUME ExecutionTypeOK, OneHolder, SeqsIncrease, OneAppend, NEW e \in Executors,
           ExecutorStep(e)
    PROVE  SeqsIncrease' /\ OneAppend'
<1>1. /\ home' = home /\ excuses \subseteq excuses'
      /\ \A f \in Executors \ {e} : ex'[f] = ex[f]
  BY Frame
<1>2. SUFFICES ASSUME Apart'
               PROVE  /\ Monotonic(journal')
                      /\ \A d \in Executors : ex'[d].pc = "appending" =>
                            /\ ex'[d].seq = LastSeq(journal') + 1
                            /\ \A f \in Executors \ {d} : ex'[f].pc # "appending"
  BY JournalAgain
<1>3. Apart
  BY <1>1, <1>2 DEF Apart
<1>4. /\ Monotonic(journal) /\ journal \in Seq(Events)
      /\ \A d \in Executors : ex[d].pc = "appending" =>
            /\ ex[d].seq = LastSeq(journal) + 1
            /\ \A f \in Executors \ {d} : ex[f].pc # "appending"
  BY <1>3, JournalParts, TypeParts DEF FilesFit
<1>5. CASE JournalStays(e)
  BY <1>1, <1>4, <1>5 DEF JournalStays
<1>6. CASE BeginsAppend(e)
  <2>1. ASSUME NEW f \in Executors \ {e} PROVE ex[f].pc # "appending"
    <3>1. CASE \A d, g \in Executors : home[d] = home[g]
      BY <1>6, <3>1 DEF BeginsAppend, MayRun, InCall
    <3>2. CASE excuses \cap {"raced", "stolen"} = {}
      <4>1. ex[f].pc = "appending" => ex[f].holds
        BY TypeParts DEF Fit, Unleased
      <4> QED
        BY <1>6, <3>2, <4>1 DEF BeginsAppend, OneHolder
    <3> QED
      BY <1>3, <3>1, <3>2 DEF Apart
  <2> QED
    BY <1>1, <1>4, <1>6, <2>1 DEF BeginsAppend
<1>7. CASE EndsAppend(e)
  <2>1. \A d \in Executors : ex'[d].pc # "appending"
    BY <1>1, <1>4, <1>7 DEF EndsAppend
  <2>2. Monotonic(journal')
    BY <1>4, <1>7, AppendGrows DEF EndsAppend
  <2> QED
    BY <2>1, <2>2
<1> QED
  BY <1>5, <1>6, <1>7, JournalSteps

LEMMA JournalWorld ==
    ASSUME ExecutionTypeOK, SeqsIncrease, OneAppend,
           \/ PlainCommit \/ Tick \/ UNCHANGED executionVars
           \/ \E p \in Processes : Crash(p)
    PROVE  SeqsIncrease' /\ OneAppend'
<1>1. /\ home' = home /\ journal' = journal /\ excuses \subseteq excuses'
      /\ \A f \in Executors : ex'[f] = ex[f] \/ ex'[f] = Offline
  <2>1. CASE PlainCommit \/ Tick \/ UNCHANGED executionVars
    BY <2>1 DEF PlainCommit, Tick, executionVars
  <2>2. ASSUME NEW p \in Processes, Crash(p)
        PROVE  /\ UNCHANGED <<home, journal, excuses>>
               /\ \A f \in Executors : ex'[f] = ex[f] \/ ex'[f] = Offline
    BY <2>2 DEF Crash
  <2> QED
    BY <2>1, <2>2
<1>2. Apart' => Apart
  BY <1>1 DEF Apart
<1>3. Offline.pc # "appending"
  BY DEF Offline
<1> QED
  BY <1>1, <1>2, <1>3, JournalParts, JournalAgain
-----------------------------------------------------------------------------
(* The batches                                                              *)

LEMMA LeastNumber ==
    ASSUME NEW T \in SUBSET Nat, T # {}
    PROVE  \E x \in T : \A y \in T : x <= y
<1>1. PICK x \in T : \A y \in T : ~ (<<y, x>> \in OpToRel(<, Nat))
  BY NatLessThanWellFounded, WFMin
<1>2. \A y \in T : ~(y < x)
  BY <1>1 DEF OpToRel
<1> QED
  BY <1>2

\* A batch that occurs in the journal has a first line.
LEMMA FirstAtType ==
    ASSUME NEW events \in Seq(Events), NEW b, NEW kind, Has(events, b, kind)
    PROVE  FirstAt(events, b) \in Nat
<1> DEFINE at == {i \in DOMAIN events : events[i].batch = b}
<1>1. at \in SUBSET Nat /\ at # {} /\ DOMAIN events = 1..Len(events) /\ Len(events) \in Nat
  BY DEF Has
<1>2. PICK x \in at : \A y \in at : x <= y
  BY <1>1, LeastNumber
<1>3. \A j \in 1..(x - 1) : events[j].batch # b
  BY <1>1, <1>2
<1>4. FirstAt(events, b) \in DOMAIN events
  BY <1>2, <1>3 DEF FirstAt
<1> QED
  BY <1>1, <1>4

LEMMA BatchSets ==
    ASSUME NEW events
    PROVE  /\ \A b : b \in Finished(events) <=>
                b \in Batches /\ (Has(events, b, "batch_completed") \/ Has(events, b, "commit_observed"))
           /\ \A b : b \in Unfinished(events) <=>
                b \in Batches \ Finished(events) /\ Has(events, b, "batch_dispatched")
           /\ \A b \in Batches : b \in Unfinished(events) <=> NeedsMarker(events, b)
           /\ Finished(events) \subseteq Batches /\ Unfinished(events) \subseteq Batches
           /\ Finished(events) = Completed(events) \cup Reconciled(events)
  BY DEF Finished, Unfinished, Completed, Reconciled, NeedsMarker

\* The line that an append adds.
LEMMA AppendHas ==
    ASSUME NEW events \in Seq(Events), NEW v \in Events
    PROVE  /\ \A b, kind : Has(Append(events, v), b, kind) <=>
                Has(events, b, kind) \/ (v.batch = b /\ v.kind = kind)
           /\ LastSeq(Append(events, v)) = v.seq
<1> DEFINE longer == Append(events, v)
<1>1. /\ Len(events) \in Nat /\ DOMAIN events = 1..Len(events)
      /\ DOMAIN longer = 1..(Len(events) + 1) /\ Len(longer) = Len(events) + 1
      /\ longer[Len(events) + 1] = v
      /\ \A i \in 1..Len(events) : longer[i] = events[i]
  OBVIOUS
<1>2. longer # <<>>
  <2>1. Len(longer) # 0 /\ Len(<<>>) = 0
    BY <1>1
  <2> QED
    BY <2>1, Zenon
<1>3. LastSeq(longer) = v.seq
  BY <1>1, <1>2 DEF LastSeq
<1> HIDE DEF longer
<1>4. ASSUME NEW b, NEW kind
      PROVE  Has(longer, b, kind) <=> Has(events, b, kind) \/ (v.batch = b /\ v.kind = kind)
  <2>1. ASSUME Has(events, b, kind) PROVE Has(longer, b, kind)
    <3>1. PICK i \in 1..Len(events) : events[i].batch = b /\ events[i].kind = kind
      BY <1>1, <2>1 DEF Has
    <3>2. i \in DOMAIN longer /\ longer[i] = events[i]
      BY <1>1, <3>1
    <3> QED
      BY <3>1, <3>2 DEF Has
  <2>2. ASSUME v.batch = b, v.kind = kind PROVE Has(longer, b, kind)
    <3>1. Len(events) + 1 \in DOMAIN longer
      BY <1>1
    <3> QED
      BY <1>1, <2>2, <3>1 DEF Has
  <2>3. ASSUME Has(longer, b, kind), ~(v.batch = b /\ v.kind = kind)
        PROVE  Has(events, b, kind)
    <3>1. PICK i \in 1..(Len(events) + 1) : longer[i].batch = b /\ longer[i].kind = kind
      BY <1>1, <2>3 DEF Has
    <3>2. i \in 1..Len(events)
      BY <1>1, <2>3, <3>1
    <3>3. i \in DOMAIN events /\ events[i] = longer[i]
      BY <1>1, <3>2
    <3> QED
      BY <3>1, <3>3 DEF Has
  <2> QED
    BY <2>1, <2>2, <2>3
<1> QED
  BY <1>3, <1>4 DEF longer

\* A dispatch opens a batch that is not over; a commit or a completion ends it.
LEMMA AppendBatches ==
    ASSUME NEW events \in Seq(Events), NEW v \in Events
    PROVE  /\ v.kind = "batch_dispatched" /\ v.batch \notin Finished(events) =>
                /\ Finished(Append(events, v)) = Finished(events)
                /\ Unfinished(Append(events, v)) = Unfinished(events) \cup {v.batch}
           /\ v.kind # "batch_dispatched" =>
                /\ Finished(Append(events, v)) = Finished(events) \cup {v.batch}
                /\ Unfinished(Append(events, v)) = Unfinished(events) \ {v.batch}
<1> DEFINE longer == Append(events, v)
<1>1. \A b, kind : Has(longer, b, kind) <=>
            Has(events, b, kind) \/ (v.batch = b /\ v.kind = kind)
  BY AppendHas
<1>2. v.batch \in Batches /\ v.kind \in Kinds
  BY DEF Events
<1> HIDE DEF longer
<1>3. CASE v.kind = "batch_dispatched" /\ v.batch \notin Finished(events)
  <2>1. \A b : b \in Finished(longer) <=> b \in Finished(events)
    BY <1>1, <1>3, BatchSets
  <2>2. \A b : b \in Unfinished(longer) <=> b \in Unfinished(events) \cup {v.batch}
    BY <1>1, <1>2, <1>3, <2>1, BatchSets
  <2> QED
    BY <1>3, <2>1, <2>2 DEF longer
<1>4. CASE v.kind # "batch_dispatched"
  <2>1. \A b : b \in Finished(longer) <=> b \in Finished(events) \cup {v.batch}
    BY <1>1, <1>2, <1>4, BatchSets DEF Kinds
  <2>2. \A b : b \in Unfinished(longer) <=> b \in Unfinished(events) \ {v.batch}
    BY <1>1, <1>2, <1>4, <2>1, BatchSets
  <2> QED
    BY <1>4, <2>1, <2>2 DEF longer
<1> QED
  BY <1>3, <1>4


LEMMA FilesRest ==
    ASSUME BatchesInOrder, UNCHANGED <<journal, head, committed>>
    PROVE  BatchesInOrder'
  BY DEF BatchesInOrder, Unlogged

LEMMA PlanRests ==
    ASSUME UNCHANGED <<journal, head, committed>>,
           NEW f \in Executors, ex'[f] = ex[f], OnPlan(ex[f])
    PROVE  OnPlan(ex[f])'
  BY DEF OnPlan, Unlogged, Stage

\* An executor that is not at a batch has nothing to agree on.
LEMMA OffPlan ==
    ASSUME NEW f \in Executors, ex'[f].pc \in {"off", "idle", "held", "release"}
    PROVE  OnPlan(ex[f])'
  BY DEF OnPlan, Stage, Returning

LEMMA OfflineOffPlan ==
    ASSUME NEW f \in Executors, ex'[f] = Offline
    PROVE  OnPlan(ex[f])'
  BY OffPlan DEF Offline

\* A call on the lease, a session that starts, an owner that is refused.
LEMMA LeasePlan ==
    ASSUME ExecutionTypeOK, NEW e \in Executors, OnPlan(ex[e]),
           Starts(e) \/ HeartbeatRefused(e) \/ LeaseStep(e)
    PROVE  UNCHANGED <<journal, head, committed>> /\ OnPlan(ex[e])'
<1>1. ex \in [Executors -> States] /\ ex[e] \in States /\ Fit(ex[e])
  BY TypeParts
<1>2. UNCHANGED <<journal, head, committed>>
  BY DEF Starts, HeartbeatRefused, LeaseStep, AcquireReads, LeaseToTemp, LeaseRenamed,
         HeartbeatReads, ReleaseReads, ReleaseRemoves
<1>3. CASE Starts(e)
  <2>1. ex'[e].pc = "idle"
    BY <1>1, <1>3 DEF Starts, Moves, Offline
  <2> QED
    BY <1>2, <2>1, OffPlan
<1>4. CASE HeartbeatRefused(e) \/ ReleaseRemoves(e) \/ ReleaseReads(e)
  <2>1. ex'[e] = Offline \/ ex'[e].pc = "release"
    BY <1>1, <1>4 DEF HeartbeatRefused, ReleaseRemoves, ReleaseReads, Moves, States
  <2> QED
    BY <1>2, <2>1, OffPlan, OfflineOffPlan
<1>5. CASE AcquireReads(e)
  <2>1. ex'[e].pc = "acquire" /\ ex'[e].then = "held"
    BY <1>1, <1>5 DEF AcquireReads, Moves, States
  <2> QED
    BY <1>2, <2>1 DEF OnPlan, Stage, Returning
<1>6. CASE HeartbeatReads(e)
  <2>1. /\ ex'[e].pc = "heartbeat" /\ ex'[e].then = ex[e].pc
        /\ ex'[e].todo = ex[e].todo /\ ex'[e].done = ex[e].done /\ ex'[e].cur = ex[e].cur
        /\ ex[e].pc \in {"held", "working"}
    BY <1>1, <1>6 DEF HeartbeatReads, Moves, States
  <2> QED
    BY <1>2, <2>1 DEF OnPlan, Stage, Returning
<1>7. CASE LeaseToTemp(e)
  <2>1. /\ ex'[e].pc = "renaming" /\ ex'[e].then = ex[e].then
        /\ ex'[e].todo = ex[e].todo /\ ex'[e].done = ex[e].done /\ ex'[e].cur = ex[e].cur
        /\ ex[e].pc \in {"acquire", "heartbeat"}
    BY <1>1, <1>7 DEF LeaseToTemp, Moves, States
  <2> QED
    BY <1>2, <2>1 DEF OnPlan, Stage, Returning
<1>8. CASE LeaseRenamed(e)
  <2>1. CASE temp = NoOne
    <3>1. ex'[e] = Offline
      BY <1>1, <1>8, <2>1 DEF LeaseRenamed, Moves
    <3> QED
      BY <1>2, <3>1, OfflineOffPlan
  <2>2. CASE temp # NoOne
    <3>1. /\ ex'[e].pc = ex[e].then
          /\ ex'[e].todo = ex[e].todo /\ ex'[e].done = ex[e].done /\ ex'[e].cur = ex[e].cur
          /\ ex[e].pc = "renaming"
      <4>1. /\ ex'[e] = [ex[e] EXCEPT !.pc = ex[e].then, !.then = "off", !.holds = TRUE]
            /\ ex[e].pc = "renaming"
        BY <1>1, <1>8, <2>2 DEF LeaseRenamed, Moves
      <4> QED
        BY <1>1, <4>1 DEF States
    <3>2. ex[e].then \in {"held", "working"}
      BY <3>1 DEF OnPlan
    <3> QED
      BY <1>2, <3>1, <3>2 DEF OnPlan, Stage, Returning
  <2> QED
    BY <2>1, <2>2
<1> QED
  BY <1>3, <1>4, <1>5, <1>6, <1>7, <1>8 DEF LeaseStep

LEMMA NumbersFit ==
    ASSUME ExecutionTypeOK, NEW e \in Executors
    PROVE  /\ journal \in Seq(Events) /\ LastSeq(journal) \in Nat /\ head.seq \in Nat
           /\ Batches \subseteq Nat /\ committed \subseteq Batches
           /\ head # NoMarker => head \in Markers /\ head.batch \in Batches
           /\ ex \in [Executors -> States] /\ ex[e] \in States
           /\ ex[e].todo \subseteq Batches /\ ex[e].done \subseteq Batches
           /\ ex[e].seq \in Nat /\ ex[e].kind \in Kinds
           /\ Stage(ex[e]) \in AtBatch => ex[e].cur \in Batches
<1>1. journal \in Seq(Events) /\ committed \subseteq Batches
  BY TypeParts DEF FilesFit
<1>2. LastSeq(journal) \in Nat
  BY <1>1, LastSeqType
<1>3. head.seq \in Nat /\ (head # NoMarker => head \in Markers /\ head.batch \in Batches)
  BY TypeParts DEF FilesFit, Markers, NoMarker
<1>4. Batches \subseteq Nat
  BY BoundFacts DEF Batches
<1>5. ex \in [Executors -> States] /\ ex[e] \in States /\ Fit(ex[e])
  BY TypeParts
<1>6. Stage(ex[e]) \in AtBatch => ex[e].cur \in Batches
  BY <1>5 DEF Fit, Stage, States
<1>7. /\ ex[e].todo \subseteq Batches /\ ex[e].done \subseteq Batches
      /\ ex[e].seq \in Nat /\ ex[e].kind \in Kinds
  BY <1>5 DEF States
<1> QED
  BY <1>1, <1>2, <1>3, <1>4, <1>5, <1>6, <1>7

\* What a decision makes of a journal in order.
LEMMA DecidesPlan ==
    ASSUME ExecutionTypeOK, BatchesInOrder, NEW e \in Executors, OnPlan(ex[e]), Decides(e)
    PROVE  OnPlan(ex[e])'
<1> DEFINE events == Recovered(journal)
           decision == Decision(events, e)
           todo == {b \in Batches :
                        IF decision.pending # {}
                        THEN \A c \in decision.pending : b >= c
                        ELSE \A c \in Completed(events) \cup Reconciled(events) : b > c}
           done == Reconciled(events) \ Reconciled(journal)
<1>1. /\ journal \in Seq(Events) /\ LastSeq(journal) \in Nat /\ Batches \subseteq Nat
      /\ ex \in [Executors -> States] /\ ex[e] \in States
      /\ head # NoMarker => head \in Markers /\ head.batch \in Batches
  BY NumbersFit
<1>2. ex[e].pc = "deciding" /\ ex[e].events = journal
      /\ UNCHANGED <<journal, head, committed>>
  BY DEF Decides, OnPlan
<1>3. CASE Moves(e, Offline)
  <2>1. ex'[e] = Offline
    BY <1>1, <1>3 DEF Moves
  <2> QED
    BY <2>1, OfflineOffPlan
<1>4. CASE /\ decision.kind \notin {"journal_corrupt", "lease_active"}
           /\ Moves(e, [ex[e] EXCEPT !.pc = "ready", !.events = <<>>, !.todo = todo,
                                     !.done = done])
  <2>1. ex'[e].pc = "ready" /\ ex'[e].todo = todo /\ ex'[e].done = done
    BY <1>1, <1>4 DEF Moves, States
  <2>2. decision.pending = {b \in Unfinished(events) :
                              \A c \in Unfinished(events) :
                                FirstAt(events, b) <= FirstAt(events, c)}
    BY <1>4 DEF Decision
  <2> HIDE DEF decision
  <2>3. SUFFICES /\ done \subseteq Unfinished(journal)
                 /\ Before(Finished(journal) \cup done, todo)
                 /\ \A c \in Unfinished(journal) \ done :
                        c \in todo /\ \A b \in todo : c <= b
                 /\ Unlogged => head.batch \in done
    BY <1>2, <2>1 DEF OnPlan, Unlogged, Stage, Returning
  <2>4. CASE Unlogged
    <3> DEFINE v == [kind |-> "commit_observed", batch |-> head.batch, seq |-> head.seq]
    <3>1. head.batch \in Unfinished(journal) /\ head # NoMarker /\ head.seq > LastSeq(journal)
      BY <2>4 DEF BatchesInOrder, Unlogged
    <3>2. v \in Events /\ v.kind # "batch_dispatched" /\ v.batch = head.batch
      BY <1>1, <3>1 DEF Events, Markers, Kinds
    <3>3. events = Append(journal, v)
      BY <1>1, <3>1, BatchSets DEF Recovered
    <3> HIDE DEF v, events
    <3>4. /\ Finished(events) = Finished(journal) \cup {head.batch}
          /\ Unfinished(events) = Unfinished(journal) \ {head.batch}
          /\ Unfinished(journal) = {head.batch}
      BY <1>1, <3>1, <3>2, <3>3, AppendBatches DEF BatchesInOrder
    <3>5. decision.pending = {}
      BY <2>2, <3>4
    <3>6. todo = {b \in Batches : \A c \in Finished(events) : b > c}
      BY <3>5 DEF Finished
    <3>7. done = {head.batch}
      <4>1. \A b, kind : Has(events, b, kind) <=>
                Has(journal, b, kind) \/ (head.batch = b /\ kind = "commit_observed")
        BY <1>1, <3>2, <3>3, AppendHas DEF v
      <4>2. /\ head.batch \in Batches /\ ~Has(journal, head.batch, "batch_completed")
            /\ ~Has(journal, head.batch, "commit_observed")
        BY <3>1, BatchSets
      <4>3. \A b : b \in done <=> b = head.batch
        BY <4>1, <4>2 DEF Reconciled, Completed
      <4> QED
        BY <4>3
    <3> HIDE DEF todo, done
    <3>8. Before(Finished(journal) \cup done, todo)
      <4>1. \A c \in Finished(events) : c \in Nat
        BY <1>1, BatchSets
      <4> QED
        BY <1>1, <3>4, <3>6, <3>7, <4>1 DEF Before
    <3> QED
      BY <3>1, <3>4, <3>7, <3>8
  <2>5. CASE ~Unlogged
    <3>1. events = journal
      <4>1. LastSeq(journal) < head.seq <=> head.seq > LastSeq(journal)
        BY NumbersFit
      <4> QED
        BY <2>5, <4>1 DEF Recovered, Unlogged
    <3>2. done = {}
      BY <3>1
    <3> HIDE DEF events, done
    <3>3. CASE Unfinished(journal) = {}
      <4>1. todo = {b \in Batches : \A c \in Finished(journal) : b > c}
        BY <2>2, <3>1, <3>3 DEF Finished
      <4>2. Finished(journal) \subseteq Nat
        BY <1>1, BatchSets
      <4> HIDE DEF todo
      <4>3. Before(Finished(journal) \cup done, todo)
        BY <1>1, <3>2, <4>1, <4>2 DEF Before
      <4> QED
        BY <2>5, <3>2, <3>3, <4>3
    <3>4. ASSUME NEW c \in Unfinished(journal)
          PROVE  /\ Before(Finished(journal) \cup done, todo)
                 /\ c \in todo /\ \A b \in todo : c <= b
      <4>1. Unfinished(journal) = {c} /\ \A b \in Finished(journal) : b < c
        BY DEF BatchesInOrder
      <4>2. FirstAt(journal, c) \in Nat
        BY <1>1, BatchSets, FirstAtType
      <4>3. decision.pending = {c}
        BY <2>2, <3>1, <4>1, <4>2
      <4>4. todo = {b \in Batches : b >= c} /\ c \in Batches
        BY <4>3, BatchSets
      <4>5. Finished(journal) \subseteq Nat
        BY <1>1, BatchSets
      <4> HIDE DEF todo
      <4> QED
        BY <1>1, <3>2, <4>1, <4>4, <4>5 DEF Before
    <3>5. ASSUME NEW c \in Unfinished(journal)
          PROVE  Unfinished(journal) = {c}
      BY DEF BatchesInOrder
    <3> HIDE DEF todo
    <3> QED
      BY <2>5, <3>2, <3>3, <3>4, <3>5
  <2> QED
    BY <2>4, <2>5
<1> QED
  BY <1>2, <1>3, <1>4 DEF Decides


\* An append begins, at the point where its line is not in the journal yet.
LEMMA BeginsPlan ==
    ASSUME ExecutionTypeOK, BatchesInOrder, NEW e \in Executors, OnPlan(ex[e]),
           \/ CommitObserved(e) \/ Complete(e)
           \/ \E b \in Batches : Backfill(e, b) \/ Dispatch(e, b)
    PROVE  UNCHANGED <<journal, head, committed>> /\ OnPlan(ex[e])'
<1>1. /\ ex \in [Executors -> States] /\ ex[e] \in States /\ ex[e].todo \subseteq Batches
      /\ Batches \subseteq Nat /\ Finished(journal) \subseteq Batches
      /\ Stage(ex[e]) \in AtBatch => ex[e].cur \in Batches
  BY NumbersFit, BatchSets
<1>2. UNCHANGED <<journal, head, committed>>
  BY DEF CommitObserved, Complete, Backfill, Dispatch, AppendReads
<1> USE DEF Stage, Returning
<1>3. CASE CommitObserved(e)
  <2>1. /\ ex'[e].pc = "appending" /\ ex'[e].then = "observed" /\ ex'[e].cur = ex[e].cur
        /\ ex'[e].todo = ex[e].todo /\ ex'[e].done = ex[e].done
        /\ ex'[e].kind = "commit_observed" /\ ex[e].pc = "made"
    BY <1>1, <1>3 DEF CommitObserved, AppendReads, Moves, States
  <2> QED
    BY <1>2, <2>1 DEF OnPlan
<1>4. CASE Complete(e)
  <2>1. /\ ex'[e].pc = "appending" /\ ex'[e].then = "ready" /\ ex'[e].cur = ex[e].cur
        /\ ex'[e].todo = ex[e].todo \ {ex[e].cur} /\ ex'[e].done = ex[e].done
        /\ ex'[e].kind = "batch_completed" /\ ex[e].pc = "observed"
    BY <1>1, <1>4 DEF Complete, Moves, States
  <2>2. /\ ex[e].done = {} /\ Unfinished(journal) \subseteq {ex[e].cur}
        /\ \A b \in ex[e].todo : ex[e].cur <= b
        /\ \A c \in Finished(journal) : c <= ex[e].cur
        /\ ex[e].cur \in Batches
    BY <1>1, <2>1 DEF OnPlan, AtBatch
  <2>3. ASSUME NEW c \in Finished(journal) \cup {ex[e].cur},
               NEW b \in ex[e].todo \ {ex[e].cur}
        PROVE  c < b
    <3>1. c <= ex[e].cur /\ ex[e].cur <= b /\ b # ex[e].cur
      BY <1>1, <2>2
    <3>2. c \in Nat /\ b \in Nat /\ ex[e].cur \in Nat
      BY <1>1, <2>2
    <3> QED
      BY <3>1, <3>2
  <2>4. Before(Finished(journal) \cup {ex[e].cur}, ex[e].todo \ {ex[e].cur})
    BY <2>3 DEF Before
  <2> QED
    BY <1>2, <2>1, <2>2, <2>4 DEF OnPlan
<1>5. ASSUME NEW b \in Batches, Backfill(e, b) PROVE OnPlan(ex[e])'
  <2>1. /\ ex'[e].pc = "appending" /\ ex'[e].then = "ready" /\ ex'[e].cur = b
        /\ ex'[e].todo = ex[e].todo /\ ex'[e].done = ex[e].done \ {b}
        /\ ex'[e].kind = "commit_observed" /\ ex[e].pc = "ready" /\ b \in ex[e].done
    BY <1>1, <1>5 DEF Backfill, Moves, States
  <2>2. /\ ex[e].done \subseteq Unfinished(journal)
        /\ Before(Finished(journal) \cup ex[e].done, ex[e].todo)
    BY <2>1 DEF OnPlan
  <2>3. Unfinished(journal) = {b}
    BY <2>1, <2>2 DEF BatchesInOrder
  <2>4. ex'[e].done = {} /\ Before(Finished(journal) \cup {b}, ex[e].todo)
    BY <2>1, <2>2, <2>3 DEF Before
  <2> QED
    BY <1>2, <2>1, <2>3, <2>4 DEF OnPlan
<1>6. ASSUME NEW b \in Batches, Dispatch(e, b) PROVE OnPlan(ex[e])'
  <2>1. /\ ex'[e].pc = "appending" /\ ex'[e].then = "working" /\ ex'[e].cur = b
        /\ ex'[e].todo = ex[e].todo /\ ex'[e].done = ex[e].done
        /\ ex'[e].kind = "batch_dispatched" /\ ex[e].pc = "ready"
        /\ ex[e].done = {} /\ b \in ex[e].todo /\ \A c \in ex[e].todo : b <= c
    BY <1>1, <1>6 DEF Dispatch, AppendReads, Moves, States
  <2>2. /\ Before(Finished(journal), ex[e].todo) /\ ~Unlogged
        /\ \A c \in Unfinished(journal) : c \in ex[e].todo /\ \A d \in ex[e].todo : c <= d
    BY <2>1 DEF OnPlan
  <2>3. Unfinished(journal) \subseteq {b}
    <3>1. ASSUME NEW c \in Unfinished(journal) PROVE c = b
      <4>1. c \in ex[e].todo /\ c <= b /\ b <= c
        BY <2>1, <2>2
      <4>2. c \in Nat /\ b \in Nat
        BY <1>1, <4>1
      <4> QED
        BY <4>1, <4>2
    <3> QED
      BY <3>1
  <2>4. b \notin Finished(journal) /\ \A c \in Finished(journal) : c <= b
    BY <1>1, <2>1, <2>2 DEF Before
  <2>5. b \notin committed
    BY <2>2, <2>4 DEF BatchesInOrder
  <2> QED
    BY <1>2, <2>1, <2>3, <2>4, <2>5 DEF OnPlan
<1> QED
  BY <1>2, <1>3, <1>4, <1>5, <1>6

\* A journal that is read, a commit that is prepared or has nothing to commit.
LEMMA WorkPlan ==
    ASSUME ExecutionTypeOK, NEW e \in Executors, OnPlan(ex[e]),
           DecideReads(e) \/ CommitStarts(e) \/ CommitEmpty(e)
    PROVE  UNCHANGED <<journal, head, committed>> /\ OnPlan(ex[e])'
<1>1. ex \in [Executors -> States] /\ ex[e] \in States
  BY TypeParts
<1>2. UNCHANGED <<journal, head, committed>>
  BY DEF DecideReads, CommitStarts, CommitEmpty
<1> USE DEF Stage, Returning
<1>3. CASE DecideReads(e)
  <2>1. ex'[e].pc = "deciding" /\ ex'[e].events = journal
    BY <1>1, <1>3 DEF DecideReads, Moves, States
  <2> QED
    BY <1>2, <2>1 DEF OnPlan
<1>4. CASE CommitStarts(e)
  <2>1. /\ ex'[e].pc = "committing" /\ ex'[e].cur = ex[e].cur /\ ex[e].pc = "working"
        /\ ex'[e].todo = ex[e].todo /\ ex'[e].done = ex[e].done
        /\ ex'[e].seq = LastSeq(journal) + 1
    BY <1>1, <1>4 DEF CommitStarts, Moves, States
  <2> QED
    BY <1>2, <2>1 DEF OnPlan
<1>5. CASE CommitEmpty(e)
  <2>1. /\ ex'[e].pc = "observed" /\ ex'[e].cur = ex[e].cur /\ ex[e].pc = "committing"
        /\ ex'[e].todo = ex[e].todo /\ ex'[e].done = ex[e].done
    BY <1>1, <1>5 DEF CommitEmpty, Moves, States
  <2> QED
    BY <1>2, <2>1 DEF OnPlan
<1> QED
  BY <1>2, <1>3, <1>4, <1>5

\* The commit of the open batch.
LEMMA CommitPlan ==
    ASSUME ExecutionTypeOK, BatchesInOrder, NEW e \in Executors, OnPlan(ex[e]), CommitMade(e)
    PROVE  BatchesInOrder' /\ OnPlan(ex[e])'
<1>1. /\ ex \in [Executors -> States] /\ ex[e] \in States
      /\ LastSeq(journal) \in Nat /\ ex[e].seq \in Nat
  BY NumbersFit
<1>2. /\ ex[e].pc = "committing" /\ journal' = journal
      /\ head' = [batch |-> ex[e].cur, seq |-> ex[e].seq]
      /\ committed' = committed \cup {ex[e].cur}
      /\ ex'[e].pc = "made" /\ ex'[e].cur = ex[e].cur
      /\ ex'[e].todo = ex[e].todo /\ ex'[e].done = ex[e].done
  BY <1>1 DEF CommitMade, Moves, States
<1>3. /\ ex[e].cur \in Unfinished(journal) /\ ex[e].seq = LastSeq(journal) + 1
      /\ ex[e].done = {} /\ ex[e].cur \in ex[e].todo
      /\ Unfinished(journal) \subseteq {ex[e].cur}
      /\ \A b \in ex[e].todo : ex[e].cur <= b
      /\ \A c \in Finished(journal) : c <= ex[e].cur
  BY <1>2 DEF OnPlan, Stage, Returning
<1>4. OnPlan(ex[e])'
  BY <1>2, <1>3 DEF OnPlan, Stage, Returning
<1>5. head'.batch = ex[e].cur /\ head'.seq = LastSeq(journal) + 1 /\ head' # NoMarker
  <2>1. ex[e].cur \in Batches
    BY <1>3, BatchSets
  <2> QED
    BY <1>2, <1>3, <2>1, BoundFacts DEF NoMarker
<1>6. Unlogged'
  BY <1>1, <1>2, <1>5 DEF Unlogged
<1>7. \A b \in committed' \ Finished(journal) : b = ex[e].cur
  BY <1>2, <1>3 DEF BatchesInOrder
<1>8. BatchesInOrder'
  BY <1>1, <1>2, <1>3, <1>5, <1>6, <1>7 DEF BatchesInOrder
<1> QED
  BY <1>4, <1>8

\* An append ends.
LEMMA WritesPlan ==
    ASSUME ExecutionTypeOK, BatchesInOrder, NEW e \in Executors, OnPlan(ex[e]),
           ex[e].seq = LastSeq(journal) + 1, AppendWrites(e), ~torn
    PROVE  BatchesInOrder' /\ OnPlan(ex[e])'
<1> DEFINE v == [kind |-> ex[e].kind, batch |-> ex[e].cur, seq |-> ex[e].seq]
<1>1. /\ journal \in Seq(Events) /\ LastSeq(journal) \in Nat /\ head.seq \in Nat
      /\ ex \in [Executors -> States] /\ ex[e] \in States /\ ex[e].kind \in Kinds
      /\ Batches \subseteq Nat /\ Finished(journal) \subseteq Batches
      /\ ex[e].todo \subseteq Batches
  BY NumbersFit, BatchSets
<1>2. ex[e].pc = "appending" /\ ex[e].cur \in Batches
  <2>1. ex[e].pc = "appending" /\ Fit(ex[e])
    BY TypeParts DEF AppendWrites
  <2> QED
    BY <1>1, <2>1 DEF Fit, States, AtBatch
<1>3. v \in Events /\ v.kind = ex[e].kind /\ v.batch = ex[e].cur /\ v.seq = LastSeq(journal) + 1
  BY <1>1, <1>2 DEF Events
<1>4. journal' = Append(journal, v) /\ UNCHANGED <<head, committed>>
  BY DEF AppendWrites
<1> HIDE DEF v
<1>5. /\ ex'[e].pc = ex[e].then /\ ex'[e].cur = ex[e].cur
      /\ ex'[e].todo = ex[e].todo /\ ex'[e].done = ex[e].done
  <2>1. ex'[e] = [ex[e] EXCEPT !.pc = ex[e].then, !.then = "off", !.seq = 0,
                               !.kind = "batch_dispatched"]
    BY <1>1 DEF AppendWrites, Moves
  <2> QED
    BY <1>1, <2>1 DEF States
<1>6. LastSeq(journal') = LastSeq(journal) + 1
  BY <1>1, <1>3, <1>4, AppendHas
<1>7. head'.seq <= LastSeq(journal') /\ ~Unlogged'
  BY <1>1, <1>4, <1>6 DEF BatchesInOrder, Unlogged
<1>8. CASE ex[e].kind = "batch_dispatched"
  <2>1. /\ ex[e].then = "working" /\ ex[e].cur \notin committed \cup Finished(journal)
        /\ ex[e].done = {} /\ ex[e].cur \in ex[e].todo
        /\ Unfinished(journal) \subseteq {ex[e].cur}
        /\ \A b \in ex[e].todo : ex[e].cur <= b
        /\ \A c \in Finished(journal) : c <= ex[e].cur
    BY <1>2, <1>8 DEF OnPlan, Stage, Returning
  <2>2. Finished(journal') = Finished(journal) /\ Unfinished(journal') = {ex[e].cur}
    BY <1>1, <1>3, <1>4, <1>8, <2>1, AppendBatches
  <2>3. OnPlan(ex[e])'
    BY <1>5, <2>1, <2>2 DEF OnPlan, Stage, Returning
  <2>4. ASSUME NEW c \in Finished(journal') PROVE c < ex[e].cur
    <3>1. c \in Finished(journal) /\ c <= ex[e].cur /\ c # ex[e].cur
      BY <2>1, <2>2
    <3>2. c \in Nat /\ ex[e].cur \in Nat
      BY <1>1, <1>2, <3>1
    <3> QED
      BY <3>1, <3>2
  <2>5. committed' \subseteq Finished(journal')
    BY <1>4, <2>1, <2>2 DEF BatchesInOrder
  <2> QED
    BY <1>1, <1>4, <1>6, <1>7, <2>2, <2>3, <2>4, <2>5 DEF BatchesInOrder
<1>9. CASE ex[e].kind # "batch_dispatched"
  <2>1. ex[e].then \in {"observed", "ready"} /\ Unfinished(journal) \subseteq {ex[e].cur}
    BY <1>2, <1>9 DEF OnPlan, Stage, Returning
  <2>2. /\ Finished(journal') = Finished(journal) \cup {ex[e].cur}
        /\ Unfinished(journal') = {}
    BY <1>1, <1>3, <1>4, <1>9, <2>1, AppendBatches
  <2>3. ASSUME ex[e].then = "observed" PROVE OnPlan(ex[e])'
    <3>1. /\ ex[e].done = {} /\ ex[e].cur \in ex[e].todo
          /\ \A b \in ex[e].todo : ex[e].cur <= b
          /\ \A c \in Finished(journal) : c <= ex[e].cur
      BY <1>2, <2>3 DEF OnPlan, Stage, Returning
    <3>2. \A c \in Finished(journal') : c <= ex[e].cur
      BY <1>1, <1>2, <2>2, <3>1
    <3> QED
      BY <1>5, <2>2, <2>3, <3>1, <3>2 DEF OnPlan, Stage, Returning
  <2>4. ASSUME ex[e].then = "ready" PROVE OnPlan(ex[e])'
    <3>1. ex[e].done = {} /\ Before(Finished(journal) \cup {ex[e].cur}, ex[e].todo)
      BY <1>2, <2>4 DEF OnPlan
    <3> QED
      BY <1>5, <1>7, <2>2, <2>4, <3>1 DEF OnPlan, Stage, Returning
  <2>5. OnPlan(ex[e])'
    BY <2>1, <2>3, <2>4
  <2>6. committed' \subseteq Finished(journal')
    <3>1. ASSUME NEW b \in committed \ Finished(journal) PROVE b = ex[e].cur
      BY <2>1 DEF BatchesInOrder
    <3> QED
      BY <1>4, <2>2, <3>1
  <2> QED
    BY <1>1, <1>4, <1>6, <1>7, <2>2, <2>5, <2>6 DEF BatchesInOrder
<1> QED
  BY <1>8, <1>9


\* The work of one executor.  While no lease was stolen the others hold none,
\* and have nothing that the journal could contradict.
LEMMA WorkSteps ==
    ASSUME ExecutionTypeOK, OneHolder, OneAppend, WorkInOrder, NEW e \in Executors,
           ExecutorStep(e)
    PROVE  WorkInOrder'
<1>1. SUFFICES ASSUME excuses' = {}
               PROVE  BatchesInOrder' /\ \A f \in Executors : OnPlan(ex[f])'
  BY DEF WorkInOrder
<1>2. /\ excuses = {} /\ BatchesInOrder /\ \A f \in Executors : OnPlan(ex[f])
      /\ \A f \in Executors \ {e} : ex'[f] = ex[f]
  BY <1>1, Frame DEF WorkInOrder
<1>3. ASSUME UNCHANGED <<journal, head, committed>>, OnPlan(ex[e])'
      PROVE  BatchesInOrder' /\ \A f \in Executors : OnPlan(ex[f])'
  BY <1>2, <1>3, FilesRest, PlanRests
<1>4. ASSUME BatchesInOrder', OnPlan(ex[e])', ex[e].holds
      PROVE  BatchesInOrder' /\ \A f \in Executors : OnPlan(ex[f])'
  <2>1. ASSUME NEW f \in Executors \ {e} PROVE OnPlan(ex[f])'
    <3>1. ~ex[f].holds /\ ~AtLease(f)
      BY <1>2, <1>4 DEF OneHolder
    <3>2. ex[f].pc \in {"off", "idle"}
      BY <3>1, TypeParts DEF Fit, Unleased, AtLease
    <3>3. f \in Executors /\ ex'[f].pc \in {"off", "idle"}
      BY <1>2, <3>2
    <3> QED
      BY <3>3, OffPlan
  <2> QED
    BY <1>4, <2>1
<1>5. CASE Starts(e) \/ HeartbeatRefused(e) \/ LeaseStep(e)
  BY <1>2, <1>3, <1>5, LeasePlan
<1>6. CASE DecideReads(e) \/ CommitStarts(e) \/ CommitEmpty(e)
  BY <1>2, <1>3, <1>6, WorkPlan
<1>7. CASE Decides(e)
  <2>1. UNCHANGED <<journal, head, committed>>
    BY <1>7 DEF Decides
  <2> QED
    BY <1>2, <1>3, <1>7, <2>1, DecidesPlan
<1>8. CASE \/ CommitObserved(e) \/ Complete(e)
           \/ \E b \in Batches : Backfill(e, b) \/ Dispatch(e, b)
  BY <1>2, <1>3, <1>8, BeginsPlan
<1>9. CASE CommitMade(e)
  <2>1. ex[e].holds
    BY <1>9, TypeParts DEF CommitMade, Fit, Unleased
  <2> QED
    BY <1>2, <1>4, <1>9, <2>1, CommitPlan
<1>10. CASE AppendWrites(e)
  <2>1. ex[e].pc = "appending" /\ ex[e].holds
    BY <1>10, TypeParts DEF AppendWrites, Fit, Unleased
  <2>2. ~torn
    BY <1>1, <1>10 DEF AppendWrites
  <2>3. ex[e].seq = LastSeq(journal) + 1
    BY <1>2, <2>1 DEF OneAppend
  <2> QED
    BY <1>2, <1>4, <1>10, <2>1, <2>2, <2>3, WritesPlan
<1> QED
  BY <1>5, <1>6, <1>7, <1>8, <1>9, <1>10 DEF ExecutorStep, BatchStep

LEMMA WorkWorld ==
    ASSUME WorkInOrder,
           \/ PlainCommit \/ Tick \/ UNCHANGED executionVars
           \/ \E p \in Processes : Crash(p)
    PROVE  WorkInOrder'
<1>1. SUFFICES ASSUME excuses' = {}
               PROVE  BatchesInOrder' /\ \A f \in Executors : OnPlan(ex[f])'
  BY DEF WorkInOrder
<1>2. /\ excuses = {} /\ UNCHANGED <<journal, head, committed>>
      /\ \A f \in Executors : ex'[f] = ex[f] \/ ex'[f] = Offline
  <2>1. CASE PlainCommit
    BY <1>1, <2>1 DEF PlainCommit
  <2>2. CASE Tick \/ UNCHANGED executionVars
    BY <1>1, <2>2 DEF Tick, executionVars
  <2>3. ASSUME NEW p \in Processes, Crash(p)
        PROVE  /\ excuses = {} /\ UNCHANGED <<journal, head, committed>>
               /\ \A f \in Executors : ex'[f] = ex[f] \/ ex'[f] = Offline
    BY <1>1, <2>3 DEF Crash
  <2> QED
    BY <2>1, <2>2, <2>3
<1>3. BatchesInOrder /\ \A f \in Executors : OnPlan(ex[f])
  BY <1>2 DEF WorkInOrder
<1> QED
  BY <1>2, <1>3, FilesRest, PlanRests, OfflineOffPlan

LEMMA WorkInit == ExecutionInit => WorkInOrder
<1> SUFFICES ASSUME ExecutionInit PROVE WorkInOrder
  OBVIOUS
<1>1. Unfinished(journal) = {}
  <2>1. \A b, kind : ~Has(<<>>, b, kind)
    BY DEF Has
  <2> QED
    BY <2>1 DEF ExecutionInit, Unfinished
<1>2. BatchesInOrder
  BY <1>1 DEF ExecutionInit, BatchesInOrder, Unlogged, NoMarker, LastSeq
<1>3. \A e \in Executors : OnPlan(ex[e])
  BY DEF ExecutionInit, Offline, OnPlan, Stage, Returning
<1> QED
  BY <1>2, <1>3 DEF WorkInOrder

\* A line that dispatches a batch is written only while the batch has no commit.
LEMMA NothingRedone ==
    ASSUME ExecutionInv, [ExecutionNext]_executionVars, excuses = {}, NEW b \in Batches
    PROVE  ~Redoes(b)
<1>1. SUFFICES ASSUME Redoes(b) PROVE FALSE
  OBVIOUS
<1>2. journal' # journal /\ ExecutionTypeOK /\ \A f \in Executors : OnPlan(ex[f])
  BY <1>1, NumbersFit DEF Redoes, ExecutionInv, WorkInOrder
<1>3. PICK e \in Executors : ExecutorStep(e)
  BY <1>2 DEF ExecutionNext, executionVars, PlainCommit, Tick, Crash
<1>4. AppendWrites(e) /\ ~torn
  BY <1>2, <1>3
     DEF ExecutorStep, Starts, HeartbeatRefused, LeaseStep, BatchStep, AcquireReads,
         LeaseToTemp, LeaseRenamed, HeartbeatReads, ReleaseReads, ReleaseRemoves,
         DecideReads, Decides, AppendWrites, Backfill, Dispatch, AppendReads,
         CommitStarts, CommitMade, CommitEmpty, CommitObserved, Complete
<1> DEFINE v == [kind |-> ex[e].kind, batch |-> ex[e].cur, seq |-> ex[e].seq]
<1>5. journal' = Append(journal, v) /\ ex[e].pc = "appending" /\ journal \in Seq(Events)
  BY <1>2, <1>4, NumbersFit DEF AppendWrites
<1>6. v.kind = "batch_dispatched" /\ v.batch = b
  <2>1. Len(Append(journal, v)) = Len(journal) + 1
        /\ Append(journal, v)[Len(journal) + 1] = v
    BY <1>5
  <2> QED
    BY <1>1, <1>5, <2>1 DEF Redoes
<1>7. b \notin committed
  BY <1>2, <1>5, <1>6 DEF OnPlan
<1> QED
  BY <1>1, <1>7 DEF Redoes

-----------------------------------------------------------------------------
LEMMA ExecutionStart == ExecutionInit => ExecutionInv
<1> SUFFICES ASSUME ExecutionInit PROVE ExecutionInv
  OBVIOUS
<1>1. \A e \in Executors : ex[e].pc = "off" /\ ~ex[e].holds
  BY DEF ExecutionInit, Offline
<1>2. LateOrOwner /\ OneHolder /\ OneAppend /\ LeaseExclusive
  BY <1>1 DEF LateOrOwner, OneHolder, OneAppend, LeaseExclusive, AtLease
<1>3. SeqsIncrease
  BY DEF ExecutionInit, SeqsIncrease, Monotonic
<1> QED
  BY <1>2, <1>3, TypeInit, WorkInit DEF ExecutionInv

LEMMA ExecutionStays == ExecutionInv /\ [ExecutionNext]_executionVars => ExecutionInv'
<1> SUFFICES ASSUME ExecutionInv, [ExecutionNext]_executionVars PROVE ExecutionInv'
  OBVIOUS
<1>1. /\ ExecutionTypeOK /\ LateOrOwner /\ OneHolder /\ SeqsIncrease /\ OneAppend
      /\ WorkInOrder
      /\ ExecutionTypeOK'
  BY TypeStep DEF ExecutionInv
<1>2. ASSUME NEW e \in Executors, ExecutorStep(e)
      PROVE  LateOrOwner' /\ OneHolder' /\ SeqsIncrease' /\ OneAppend'
  <2>1. LateOrOwner' /\ OneHolder'
    BY <1>1, <1>2, QuietSteps, LeaseQuiet, LeaseSteps DEF ExecutorStep
  <2> QED
    BY <1>1, <1>2, <2>1, JournalGrows
<1>3. ASSUME \/ PlainCommit \/ Tick \/ UNCHANGED executionVars
             \/ \E p \in Processes : Crash(p)
      PROVE  LateOrOwner' /\ OneHolder' /\ SeqsIncrease' /\ OneAppend'
  <2>1. LateOrOwner' /\ OneHolder'
    BY <1>1, <1>3, LeaseWorld
  <2>2. SeqsIncrease' /\ OneAppend'
    BY <1>1, <1>3, JournalWorld
  <2> QED
    BY <2>1, <2>2
<1>4. LateOrOwner' /\ OneHolder' /\ SeqsIncrease' /\ OneAppend'
  BY <1>2, <1>3 DEF ExecutionNext
<1>5. WorkInOrder'
  BY <1>1, WorkSteps, WorkWorld DEF ExecutionNext
<1>6. LeaseExclusive'
  BY <1>4 DEF LateOrOwner, LeaseExclusive, Lapsed, Owns
<1> QED
  BY <1>1, <1>4, <1>5, <1>6 DEF ExecutionInv

\* The journal's sequence numbers grow while executors share a process or the
\* lease keeps them apart, two executors never both hold a lease that is still
\* in time unless two processes were inside a call on it at once, and batches
\* are opened and ended in the order of the plan
\* (src/lifecycle/journal/store.ts, src/lifecycle/lease/store.ts).
THEOREM ExecutorsKeptApart == ExecutionSpec => []ExecutionInv
  BY ExecutionStart, ExecutionStays, PTL DEF ExecutionSpec

\* A batch whose work is committed is not dispatched again, wherever a process
\* died and whoever took over, unless a commit without a batch id, a torn line, a
\* race on the lease or a stolen lease hid it
\* (src/lifecycle/recovery/inspect.ts, src/lifecycle/markers.ts).
THEOREM CommittedStaysDone == ExecutionSpec => CommittedNotRedone
<1>1. ExecutionInv /\ [ExecutionNext]_executionVars
        => [excuses = {} => \A b \in Batches : ~Redoes(b)]_executionVars
  BY NothingRedone
<1> QED
  BY <1>1, ExecutorsKeptApart, PTL DEF ExecutionSpec, CommittedNotRedone
=============================================================================
