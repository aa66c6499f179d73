--------------------------- MODULE ProjectMemory ---------------------------
(***************************************************************************)
(* Project memory: the SQLite store (src/project-memory/store.ts) of one   *)
(* project and one entity, promotion into it (promote.ts), lookup and      *)
(* forget, and the maintenance worker (src/project-memory/maintenance).    *)
(*                                                                         *)
(* A call on the store is one synchronous transaction; everything between  *)
(* two calls is an await at which other tool calls run.  An entry is named *)
(* by its id, which is a digest of its content: promoting the same text    *)
(* again writes the same row.                                              *)
(***************************************************************************)
EXTENDS Naturals, FiniteSets

CONSTANTS
    Memories,      \* entry ids; ids compare as the code's strings do
    Twins,         \* ids that differ in white space only: exact duplicates
    Decisions,     \* entries of a type that maintenance leaves to a review
    Notes,         \* entries of a low-signal type
    Leaks,         \* entries in which detectSecret finds a secret
    Promoters,     \* promotions that may be under way
    Workers,       \* maintenance runs that may be under way
    StaleAfter,    \* staleAfterMs, in ticks
    MaxNow,        \* bound on the clock
    MaxPromotions, MaxForgets, MaxRuns, \* bounds on calls
    NoWorker

ASSUME MemoryAssumption ==
    /\ Memories \subseteq Nat /\ NoWorker \notin Workers \cup Promoters
    /\ Twins \cup Decisions \cup Notes \cup Leaks \subseteq Memories
    /\ {StaleAfter, MaxNow, MaxPromotions, MaxForgets, MaxRuns} \subseteq Nat

VARIABLES
    row,       \* the entries table
    indexed,   \* ids with a row in entries_fts
    sourced,   \* ids with a row in sources
    entity,    \* the entity has its row
    now,
    promotion, \* what each promoter is doing
    worker,    \* what each maintenance run is doing
    lock,      \* the record in locks: its worker, and whether it is active
    called,    \* how many calls of each kind were made
    touched    \* ghost: entries another call has changed under a promotion

memoryVars == <<row, indexed, sourced, entity, now, promotion, worker, lock,
                called, touched>>

Statuses == {"active", "tentative", "superseded", "stale", "archived"}
Rows == [status : Statuses, created : 0..MaxNow, updated : 0..MaxNow]
Absent == [status |-> "absent", created |-> 0, updated |-> 0]
Known == {e \in Memories : row[e] # Absent}
Actions == {"supersede", "archive", "mark_stale", "hard_delete_secret",
            "needs_review"}
Resting == [at |-> "idle", entry |-> 0, status |-> "active", created |-> 0,
            began |-> 0]

Promotions == [at : {"idle", "entity", "entry", "source", "done"},
               entry : Memories \cup {0}, status : {"active", "tentative"},
               created : 0..MaxNow, began : 0..MaxNow]
Plans == UNION {[es -> Actions] : es \in SUBSET Memories}
Runs == [at : {"idle", "plan", "apply"}, plan : Plans, late : BOOLEAN]

MemoryTypeOK ==
    /\ row \in [Memories -> Rows \cup {Absent}]
    /\ sourced \subseteq Memories /\ entity \in BOOLEAN /\ now \in 0..MaxNow
    /\ promotion \in [Promoters -> Promotions]
    /\ \A p \in Promoters : promotion[p].at # "idle" => promotion[p].entry \in Memories
    /\ worker \in [Workers -> Runs]
    /\ lock \in [worker : Workers \cup {NoWorker}, active : BOOLEAN]
    /\ called \in [{"promote", "forget", "maintain"} -> Nat]
    /\ touched \in [Promoters -> BOOLEAN]

MemoryInit ==
    \E old \in SUBSET (Memories \cap Leaks) :
        /\ row = [e \in Memories |-> IF e \in old
                    THEN [status |-> "active", created |-> 0, updated |-> 0]
                    ELSE Absent]
        /\ indexed = old /\ sourced = {} /\ entity = (old # {}) /\ now = 0
        /\ promotion = [p \in Promoters |-> Resting]
        /\ worker = [w \in Workers |-> [at |-> "idle", plan |-> <<>>,
                                        late |-> FALSE]]
        /\ lock = [worker |-> NoWorker, active |-> FALSE]
        /\ called = [promote |-> 0, forget |-> 0, maintain |-> 0]
        /\ touched = [p \in Promoters |-> FALSE]

Calls(kind, most) ==
    /\ called[kind] < most
    /\ called' = [called EXCEPT ![kind] = @ + 1]

\* Another call has changed entries of es under the promotions of them.
Disturbs(es, by) ==
    touched' = [p \in Promoters |-> touched[p] \/
        (p # by /\ promotion[p].entry \in es /\ promotion[p].at # "idle")]

-----------------------------------------------------------------------------
(* The store                                                               *)

\* upsertEntryInDb: the row and its full-text row in one transaction.
EntryUpserted(e, r) ==
    /\ row' = [row EXCEPT ![e] = r]
    /\ indexed' = indexed \cup {e}

\* updateEntryStatusInDb: an entry that has gone stays away.
StatusUpdated(e, status) ==
    IF row[e] = Absent THEN UNCHANGED <<row, indexed>>
    ELSE EntryUpserted(e, [row[e] EXCEPT !.status = status, !.updated = now])

\* Mutant of EntriesForgotten: the full-text rows stay.
EntriesForgottenIndexed(es) ==
    /\ row' = [e \in Memories |-> IF e \in es THEN Absent ELSE row[e]]
    /\ sourced' = sourced \ es
    /\ UNCHANGED indexed

\* deleteEntryRows, for each entry of a forgetEntry, forgetEntity or
\* forgetProject.
EntriesForgotten(es) ==
    /\ row' = [e \in Memories |-> IF e \in es THEN Absent ELSE row[e]]
    /\ sourced' = sourced \ es
    /\ indexed' = indexed \ es

\* searchEntriesInDb: in the index, and of the status asked for.
Searched(e, status) == e \in indexed /\ row[e].status = status

\* lookup: loadHit finds the entity of the hit.
Found(e, status) == Searched(e, status) /\ entity

-----------------------------------------------------------------------------
(* Promotion                                                               *)

\* extractCandidates finds any of the entries in the text it is given;
\* secretRejection takes out those with a secret.
Acceptable == Memories \ Leaks

\* acceptCandidate for a candidate of promoteMarkdown.
PromotionStarts(p, e, status) ==
    /\ promotion[p].at \in {"idle", "done"}
    /\ e \in Acceptable
    /\ Calls("promote", MaxPromotions)
    /\ promotion' = [promotion EXCEPT ![p] =
           [at |-> "entity", entry |-> e, status |-> status, created |-> now,
            began |-> now]]
    /\ touched' = [touched EXCEPT ![p] = FALSE]
    /\ UNCHANGED <<row, indexed, sourced, entity, now, worker, lock>>

\* Mutant of EntityEnsured: a known entry is taken to have its entity.
EntityEnsuredUnlessStored(p) ==
    /\ promotion[p].at = "entity"
    /\ entity' = (entity \/ row[promotion[p].entry] = Absent)
    /\ promotion' = [promotion EXCEPT ![p].at = "entry",
           ![p].created = IF row[promotion[p].entry] = Absent
                          THEN promotion[p].began
                          ELSE row[promotion[p].entry].created]
    /\ UNCHANGED <<row, indexed, sourced, now, worker, lock, called, touched>>

\* ensureEntity, and the entry loaded for its createdAt.
EntityEnsured(p) ==
    /\ promotion[p].at = "entity"
    /\ entity' = TRUE
    /\ promotion' = [promotion EXCEPT ![p].at = "entry",
           ![p].created = IF row[promotion[p].entry] = Absent
                          THEN promotion[p].began
                          ELSE row[promotion[p].entry].created]
    /\ UNCHANGED <<row, indexed, sourced, now, worker, lock, called, touched>>

\* upsertEntry.
EntryPromoted(p) ==
    LET c == promotion[p] IN
    /\ c.at = "entry"
    /\ EntryUpserted(c.entry, [status |-> c.status, created |-> c.created,
                               updated |-> c.began])
    /\ promotion' = [promotion EXCEPT ![p].at = "source"]
    /\ Disturbs({c.entry}, p)
    /\ UNCHANGED <<sourced, entity, now, worker, lock, called>>

\* upsertSource, and the candidate is accepted.
SourcePromoted(p) ==
    /\ promotion[p].at = "source"
    /\ sourced' = sourced \cup {promotion[p].entry}
    /\ promotion' = [promotion EXCEPT ![p].at = "done"]
    /\ UNCHANGED <<row, indexed, entity, now, worker, lock, called, touched>>

-----------------------------------------------------------------------------
(* Forgetting                                                              *)

ForgetEntry(e) ==
    /\ Calls("forget", MaxForgets)
    /\ EntriesForgotten({e}) /\ Disturbs({e}, NoWorker)
    /\ UNCHANGED <<entity, now, promotion, worker, lock>>

\* forgetEntity and, with one entity, forgetProject.
ForgetEntity ==
    /\ Calls("forget", MaxForgets)
    /\ EntriesForgotten(Known) /\ entity' = FALSE
    /\ Disturbs(Memories, NoWorker)
    /\ UNCHANGED <<now, promotion, worker, lock>>

\* forgetSource: the entries that one kind and pointer stands behind.
ForgetSource(es) ==
    /\ Calls("forget", MaxForgets)
    /\ sourced' = sourced \ es
    /\ UNCHANGED <<row, indexed, entity, now, promotion, worker, lock, touched>>

-----------------------------------------------------------------------------
(* Maintenance                                                             *)

IsOld(e) == now - row[e].updated > StaleAfter

\* newerEntryFirst.
Newer(d, e) ==
    \/ row[d].updated > row[e].updated
    \/ /\ row[d].updated = row[e].updated
       /\ \/ row[d].created > row[e].created
          \/ row[d].created = row[e].created /\ d > e

\* duplicateEntryIds: all of a group but its newest.
Duplicate(e) == e \in Twins /\ \E d \in Twins \cap Known : Newer(d, e)

Unsourced(e) ==
    IF e \in Notes THEN "archive"
    ELSE IF e \in Decisions THEN "needs_review" ELSE "mark_stale"

\* classifyEntry; "none" plans nothing.
Classified(e) ==
    CASE e \in Leaks -> "hard_delete_secret"
      [] e \notin Leaks /\ Duplicate(e) -> "supersede"
      [] e \notin Leaks /\ ~Duplicate(e) ->
         IF row[e].status \in {"archived", "stale"} THEN "none"
         ELSE IF IsOld(e) /\ row[e].status = "superseded" THEN "archive"
         ELSE IF e \notin sourced THEN Unsourced(e)
         ELSE IF IsOld(e) /\ row[e].status = "active"
              THEN IF e \in Decisions THEN "needs_review" ELSE "mark_stale"
         ELSE "none"

\* runProjectMemoryMaintenance: acquireMaintenanceLock.  A run that finds an
\* active lock returns with a line in the journal.
WorkerStarts(w) ==
    /\ worker[w].at = "idle" /\ Calls("maintain", MaxRuns)
    /\ IF lock.active THEN UNCHANGED <<worker, lock>>
       ELSE /\ lock' = [worker |-> w, active |-> TRUE]
            /\ worker' = [worker EXCEPT ![w] =
                   [at |-> "plan", plan |-> <<>>, late |-> FALSE]]
    /\ UNCHANGED <<row, indexed, sourced, entity, now, promotion, touched>>

\* buildMaintenancePlan: one snapshot.
WorkerPlans(w) ==
    /\ worker[w].at = "plan"
    /\ worker' = [worker EXCEPT ![w].at = "apply", ![w].plan =
           [e \in {d \in Known : Classified(d) # "none"} |-> Classified(e)]]
    /\ UNCHANGED <<row, indexed, sourced, entity, now, promotion, lock, called,
                   touched>>

ItemDone(w, e) ==
    LET plan == worker[w].plan IN
    worker' = [worker EXCEPT ![w].plan =
                  [d \in DOMAIN plan \ {e} |-> plan[d]]]

\* applyPlanItem, for the item it has come to.
WorkerApplies(w, e) ==
    LET action == worker[w].plan[e] IN
    /\ worker[w].at = "apply" /\ e \in DOMAIN worker[w].plan
    /\ ItemDone(w, e)
    /\ CASE action = "needs_review" ->
              UNCHANGED <<row, indexed, sourced, touched>>
         [] action = "hard_delete_secret" ->
              EntriesForgotten({e}) /\ Disturbs({e}, NoWorker)
         [] OTHER ->
              /\ StatusUpdated(e, CASE action = "supersede" -> "superseded"
                                    [] action = "archive" -> "archived"
                                    [] action = "mark_stale" -> "stale")
              /\ Disturbs({e}, NoWorker) /\ UNCHANGED sourced
    /\ UNCHANGED <<entity, now, promotion, lock, called>>

\* Mutant of LockReleased: whoever holds the lock loses it.
LockReleasedForAll(w) == lock' = [worker |-> NoWorker, active |-> FALSE]

\* release: only the record with the run's own token is removed.
LockReleased(w) ==
    lock' = IF lock.worker = w /\ ~worker[w].late
            THEN [worker |-> NoWorker, active |-> FALSE] ELSE lock

\* The plan is carried out, or the journal could not be written and the rest
\* of it is left.
WorkerEnds(w) ==
    /\ worker[w].at = "apply"
    /\ LockReleased(w)
    /\ worker' = [worker EXCEPT ![w] = [at |-> "idle", plan |-> <<>>,
                                        late |-> FALSE]]
    /\ UNCHANGED <<row, indexed, sourced, entity, now, promotion, called,
                   touched>>

\* maintenanceLockTtlMs passes under a run.
LockExpires ==
    /\ lock.active
    /\ lock' = [lock EXCEPT !.active = FALSE]
    /\ worker' = [worker EXCEPT ![lock.worker].late = TRUE]
    /\ UNCHANGED <<row, indexed, sourced, entity, now, promotion, called,
                   touched>>

Ages ==
    /\ now < MaxNow /\ now' = now + 1
    /\ UNCHANGED <<row, indexed, sourced, entity, promotion, worker, lock,
                   called, touched>>

\* OpenCode dies: the locks and every call are gone, the database stays.
MemoryCrash ==
    /\ \E p \in Promoters : promotion[p].at # "idle"
    /\ promotion' = [p \in Promoters |-> Resting]
    /\ worker' = [w \in Workers |-> [at |-> "idle", plan |-> <<>>,
                                     late |-> FALSE]]
    /\ lock' = [worker |-> NoWorker, active |-> FALSE]
    /\ UNCHANGED <<row, indexed, sourced, entity, now, called, touched>>

MemoryNext ==
    \/ \E p \in Promoters :
        \/ \E e \in Memories, status \in {"active", "tentative"} :
               PromotionStarts(p, e, status)
        \/ EntityEnsured(p) \/ EntryPromoted(p) \/ SourcePromoted(p)
    \/ \E e \in Memories : ForgetEntry(e)
    \/ ForgetEntity
    \/ \E es \in (SUBSET sourced) \ {{}} : ForgetSource(es)
    \/ \E w \in Workers :
        \/ WorkerStarts(w) \/ WorkerPlans(w) \/ WorkerEnds(w)
        \/ \E e \in Memories : WorkerApplies(w, e)
    \/ LockExpires \/ Ages \/ MemoryCrash

MemorySpec == MemoryInit /\ [][MemoryNext]_memoryVars

-----------------------------------------------------------------------------
(* Properties                                                              *)

\* An index row belongs to an entry and each entry has one.
IndexAgrees == indexed = Known

\* A run under way whose time is not up is the one the lock names, so no other
\* can have begun.
RunHoldsLock ==
    \A w \in Workers : worker[w].at # "idle" /\ ~worker[w].late =>
        lock.worker = w /\ lock.active

\* What a promotion has written so far stands while no other call touches it.
PromotedStands ==
    \A p \in Promoters : ~touched[p] =>
        /\ promotion[p].at \in {"entry", "source", "done"} => entity
        /\ promotion[p].at \in {"source", "done"} =>
               row[promotion[p].entry].status = promotion[p].status

\* Rows, full-text rows, locks and promotions agree (src/project-memory).
MemoryInv == MemoryTypeOK /\ IndexAgrees /\ RunHoldsLock /\ PromotedStands

\* What a promotion reports as accepted is there: while no other call has
\* touched the entry since the promotion began, a lookup for the reported
\* status finds it, with a source, whatever was forgotten or left behind by a
\* crash before.
AcceptedIsFound ==
    \A p \in Promoters : promotion[p].at = "done" /\ ~touched[p] =>
        Found(promotion[p].entry, promotion[p].status)
=============================================================================
