------------------------- MODULE PluginStoresProofs -------------------------
(***************************************************************************)
(* Theorems of the stores of the plugin and of what it reads when it       *)
(* starts: project memory and identity, the artifact index, capsules, the  *)
(* Atlas vault, the resolution of the current issue and the models of the  *)
(* agents.  They share no state: each section proves the inductive         *)
(* invariant of one of them, from its assumption on the constants alone.   *)
(***************************************************************************)
EXTENDS ProjectMemory, ProjectIdentity, ArtifactIndex, ContextCapsules,
        AtlasVault, IssueResolver, AgentModels, TLAPS

-----------------------------------------------------------------------------
(* Project memory: rows, full-text rows, the maintenance lock, promotions. *)

LEMMA MemoryFacts ==
    /\ MaxNow \in Nat /\ NoWorker \notin Workers \cup Promoters
    /\ Memories \subseteq Nat
    /\ Absent \notin Rows /\ Absent.status \notin {"active", "tentative"}
    /\ <<>> \in Plans /\ Resting \in Promotions
    /\ 0 \in 0..MaxNow
<1>1. MaxNow \in Nat /\ NoWorker \notin Workers \cup Promoters /\ Memories \subseteq Nat
  BY MemoryAssumption
<1>2. <<>> \in Plans
  <2>1. <<>> \in [{} -> Actions] /\ {} \in SUBSET Memories
    OBVIOUS
  <2> QED
    BY <2>1 DEF Plans
<1>3. Absent \notin Rows /\ Absent.status \notin {"active", "tentative"}
  BY DEF Absent, Rows, Statuses
<1>4. Resting \in Promotions /\ 0 \in 0..MaxNow
  BY <1>1 DEF Resting, Promotions
<1> QED
  BY <1>1, <1>2, <1>3, <1>4

LEMMA MemoryStart == MemoryInit => MemoryInv
<1> SUFFICES ASSUME MemoryInit PROVE MemoryInv
  OBVIOUS
<1>1. PICK old \in SUBSET (Memories \cap Leaks) :
        /\ row = [e \in Memories |-> IF e \in old
                    THEN [status |-> "active", created |-> 0, updated |-> 0]
                    ELSE Absent]
        /\ indexed = old /\ entity = (old # {})
  BY DEF MemoryInit
<1>2. [status |-> "active", created |-> 0, updated |-> 0] \in Rows
  BY MemoryFacts DEF Rows, Statuses
<1>3. MemoryTypeOK
  <2>1. row \in [Memories -> Rows \cup {Absent}]
    BY <1>1, <1>2
  <2>2. promotion \in [Promoters -> Promotions]
        /\ \A p \in Promoters : promotion[p].at = "idle"
    BY MemoryFacts DEF MemoryInit, Resting
  <2>3. worker \in [Workers -> Runs]
    BY MemoryFacts DEF MemoryInit, Runs
  <2>4. /\ sourced \subseteq Memories /\ entity \in BOOLEAN /\ now \in 0..MaxNow
        /\ lock \in [worker : Workers \cup {NoWorker}, active : BOOLEAN]
        /\ called \in [{"promote", "forget", "maintain"} -> Nat]
        /\ touched \in [Promoters -> BOOLEAN]
    BY <1>1, MemoryFacts DEF MemoryInit
  <2> QED
    BY <2>1, <2>2, <2>3, <2>4 DEF MemoryTypeOK
<1>4. IndexAgrees
  BY <1>1, <1>2, MemoryFacts DEF IndexAgrees, Known
<1>5. RunHoldsLock /\ PromotedStands
  BY DEF MemoryInit, RunHoldsLock, PromotedStands, Resting
<1> QED
  BY <1>3, <1>4, <1>5 DEF MemoryInv

\* A store call that replaces the rows of some entries and keeps the full-text
\* rows in step.
Writes(es) ==
    /\ row' \in [Memories -> Rows \cup {Absent}]
    /\ \A e \in Memories \ es : row'[e] = row[e]
    /\ indexed' = Known'

LEMMA MemoryUpsertSteps ==
    ASSUME MemoryTypeOK, IndexAgrees, NEW e \in Memories, NEW r \in Rows,
           EntryUpserted(e, r)
    PROVE  Writes({e}) /\ row'[e] = r
<1>1. /\ row' \in [Memories -> Rows \cup {Absent}] /\ row'[e] = r
      /\ \A d \in Memories \ {e} : row'[d] = row[d]
  BY DEF EntryUpserted, MemoryTypeOK
<1>2. indexed' = Known'
  BY <1>1, MemoryFacts DEF EntryUpserted, IndexAgrees, Known
<1> QED
  BY <1>1, <1>2 DEF Writes

LEMMA ForgetWrites ==
    ASSUME MemoryTypeOK, IndexAgrees, NEW es \in SUBSET Memories, EntriesForgotten(es)
    PROVE  Writes(es) /\ sourced' \subseteq Memories
<1>1. /\ row' \in [Memories -> Rows \cup {Absent}]
      /\ \A d \in Memories \ es : row'[d] = row[d]
      /\ \A d \in es : row'[d] = Absent
      /\ sourced' \subseteq Memories
  BY DEF EntriesForgotten, MemoryTypeOK
<1>2. indexed' = Known'
  BY <1>1 DEF EntriesForgotten, IndexAgrees, Known
<1> QED
  BY <1>1, <1>2 DEF Writes

\* Whoever writes entries disturbs the promotions of them.
LEMMA DisturbedStand ==
    ASSUME MemoryTypeOK, PromotedStands, NEW es, NEW by, Writes(es), Disturbs(es, by),
           entity' = entity \/ Memories \subseteq es,
           \A p \in Promoters : p # by => promotion'[p] = promotion[p]
    PROVE  /\ touched' \in [Promoters -> BOOLEAN]
           /\ \A p \in Promoters : p # by /\ ~touched'[p] =>
                /\ ~touched[p]
                /\ promotion'[p].at \in {"entry", "source", "done"} => entity'
                /\ promotion'[p].at \in {"source", "done"} =>
                       row'[promotion'[p].entry].status = promotion'[p].status
<1>1. touched' \in [Promoters -> BOOLEAN]
      /\ \A p \in Promoters : p # by /\ ~touched'[p] =>
            ~touched[p] /\ (promotion[p].at # "idle" => promotion[p].entry \notin es)
  BY DEF Disturbs, MemoryTypeOK
<1>2. \A p \in Promoters : promotion[p].at # "idle" => promotion[p].entry \in Memories
  BY DEF MemoryTypeOK
<1> QED
  BY <1>1, <1>2 DEF PromotedStands, Writes

LEMMA PromotionSteps ==
    ASSUME MemoryInv, NEW p \in Promoters,
           \/ \E e \in Memories, status \in {"active", "tentative"} :
                  PromotionStarts(p, e, status)
           \/ EntityEnsured(p) \/ EntryPromoted(p) \/ SourcePromoted(p)
    PROVE  MemoryInv'
<1> USE DEF MemoryInv
<1>1. CASE \E e \in Memories, status \in {"active", "tentative"} :
               PromotionStarts(p, e, status)
  <2>1. PICK e \in Memories, status \in {"active", "tentative"} :
            PromotionStarts(p, e, status)
    BY <1>1
  <2>2. [at |-> "entity", entry |-> e, status |-> status, created |-> now,
         began |-> now] \in Promotions
    BY DEF Promotions, MemoryTypeOK
  <2>3. MemoryTypeOK'
    BY <2>1, <2>2 DEF PromotionStarts, MemoryTypeOK, Calls
  <2>4. IndexAgrees' /\ RunHoldsLock'
    BY <2>1 DEF PromotionStarts, IndexAgrees, Known, RunHoldsLock
  <2>5. PromotedStands'
    BY <2>1 DEF PromotionStarts, PromotedStands, MemoryTypeOK
  <2> QED
    BY <2>3, <2>4, <2>5
<1>2. CASE EntityEnsured(p)
  <2>1. PICK n : promotion' = [promotion EXCEPT ![p] =
                    [promotion[p] EXCEPT !.at = "entry", !.created = n]]
                 /\ n \in 0..MaxNow
    <3>1. promotion[p].entry \in Memories /\ promotion[p].began \in 0..MaxNow
      BY <1>2 DEF EntityEnsured, MemoryTypeOK, Promotions
    <3>2. row[promotion[p].entry] # Absent =>
              row[promotion[p].entry].created \in 0..MaxNow
      BY <3>1 DEF MemoryTypeOK, Rows
    <3> QED
      BY <1>2, <3>1, <3>2 DEF EntityEnsured
  <2>2. [promotion[p] EXCEPT !.at = "entry", !.created = n] \in Promotions
    BY <2>1 DEF Promotions, MemoryTypeOK
  <2>3. MemoryTypeOK'
    <3>1. promotion' \in [Promoters -> Promotions]
          /\ \A q \in Promoters : promotion'[q].entry = promotion[q].entry
      BY <2>1, <2>2 DEF MemoryTypeOK, Promotions
    <3>2. promotion[p].at # "idle"
          /\ \A q \in Promoters \ {p} : promotion'[q] = promotion[q]
      BY <1>2, <2>1 DEF EntityEnsured, MemoryTypeOK
    <3>3. \A q \in Promoters : promotion'[q].at # "idle" => promotion'[q].entry \in Memories
      BY <3>1, <3>2 DEF MemoryTypeOK
    <3>4. entity' \in BOOLEAN
      BY <1>2 DEF EntityEnsured
    <3> QED
      BY <1>2, <3>1, <3>3, <3>4 DEF EntityEnsured, MemoryTypeOK
  <2>4. IndexAgrees' /\ RunHoldsLock'
    BY <1>2 DEF EntityEnsured, IndexAgrees, Known, RunHoldsLock
  <2>5. PromotedStands'
    BY <1>2, <2>1 DEF EntityEnsured, PromotedStands, MemoryTypeOK, Promotions
  <2> QED
    BY <2>3, <2>4, <2>5
<1>3. CASE EntryPromoted(p)
  <2> DEFINE c == promotion[p]
             r == [status |-> c.status, created |-> c.created, updated |-> c.began]
  <2>1. c \in Promotions /\ c.at = "entry" /\ c.entry \in Memories /\ r \in Rows
    BY <1>3 DEF EntryPromoted, MemoryTypeOK, Promotions, Rows, Statuses
  <2>2. Writes({c.entry}) /\ row'[c.entry] = r
    BY <1>3, <2>1, MemoryUpsertSteps DEF EntryPromoted
  <2>3. /\ promotion' = [promotion EXCEPT ![p] = [c EXCEPT !.at = "source"]]
        /\ [c EXCEPT !.at = "source"] \in Promotions
    BY <1>3, <2>1 DEF EntryPromoted, Promotions
  <2>4. /\ touched' \in [Promoters -> BOOLEAN] /\ touched'[p] = touched[p]
        /\ \A q \in Promoters : q # p /\ ~touched'[q] =>
                /\ ~touched[q]
                /\ promotion'[q].at \in {"entry", "source", "done"} => entity'
                /\ promotion'[q].at \in {"source", "done"} =>
                       row'[promotion'[q].entry].status = promotion'[q].status
    <3>1. \A q \in Promoters : q # p => promotion'[q] = promotion[q]
      BY <2>3
    <3>2. Disturbs({c.entry}, p) /\ entity' = entity
      BY <1>3 DEF EntryPromoted
    <3>3. touched'[p] = touched[p]
      BY <3>2 DEF Disturbs, MemoryTypeOK
    <3> QED
      BY <2>2, <3>1, <3>2, <3>3, DisturbedStand
  <2>5. MemoryTypeOK'
    <3>1. promotion' \in [Promoters -> Promotions]
          /\ \A q \in Promoters \ {p} : promotion'[q] = promotion[q]
      BY <2>3 DEF MemoryTypeOK
    <3>2. promotion'[p].entry \in Memories
      BY <2>1, <2>3 DEF MemoryTypeOK, Promotions
    <3>3. \A q \in Promoters : promotion'[q].at # "idle" => promotion'[q].entry \in Memories
      BY <3>1, <3>2 DEF MemoryTypeOK
    <3> QED
      BY <1>3, <2>2, <2>4, <3>1, <3>3 DEF EntryPromoted, MemoryTypeOK, Writes
  <2>6. IndexAgrees' /\ RunHoldsLock'
    BY <1>3, <2>2 DEF EntryPromoted, IndexAgrees, RunHoldsLock, Writes
  <2>7. PromotedStands'
    <3>1. promotion'[p] = [c EXCEPT !.at = "source"]
      BY <2>3 DEF MemoryTypeOK
    <3>2. promotion'[p].entry = c.entry /\ promotion'[p].status = r.status
      BY <2>1, <3>1 DEF Promotions
    <3>3. ~touched'[p] => entity'
      BY <1>3, <2>1, <2>4 DEF EntryPromoted, PromotedStands
    <3> QED
      BY <2>2, <2>4, <3>2, <3>3 DEF PromotedStands
  <2> QED
    BY <2>5, <2>6, <2>7
<1>4. CASE SourcePromoted(p)
  <2>1. /\ promotion' = [promotion EXCEPT ![p] = [promotion[p] EXCEPT !.at = "done"]]
        /\ [promotion[p] EXCEPT !.at = "done"] \in Promotions
        /\ promotion[p].at = "source" /\ promotion[p].entry \in Memories
    BY <1>4 DEF SourcePromoted, Promotions, MemoryTypeOK
  <2>2. MemoryTypeOK'
    BY <1>4, <2>1 DEF SourcePromoted, MemoryTypeOK, Promotions
  <2>3. IndexAgrees' /\ RunHoldsLock'
    BY <1>4 DEF SourcePromoted, IndexAgrees, Known, RunHoldsLock
  <2>4. PromotedStands'
    BY <1>4, <2>1 DEF SourcePromoted, PromotedStands, MemoryTypeOK, Promotions
  <2> QED
    BY <2>2, <2>3, <2>4
<1> QED
  BY <1>1, <1>2, <1>3, <1>4

\* A call that writes entries under the promotions and leaves runs and lock alone.
LEMMA WritesStay ==
    ASSUME MemoryInv, NEW es, Writes(es), Disturbs(es, NoWorker),
           entity' \in BOOLEAN, entity' = entity \/ Memories \subseteq es,
           sourced' \subseteq Memories, worker' \in [Workers -> Runs],
           \A w \in Workers : worker'[w].at # "idle" =>
                worker[w].at # "idle" /\ worker'[w].late = worker[w].late,
           called' \in [{"promote", "forget", "maintain"} -> Nat],
           UNCHANGED <<now, promotion, lock>>
    PROVE  MemoryInv'
<1> USE DEF MemoryInv
<1>1. /\ touched' \in [Promoters -> BOOLEAN]
      /\ \A p \in Promoters : ~touched'[p] =>
                /\ promotion'[p].at \in {"entry", "source", "done"} => entity'
                /\ promotion'[p].at \in {"source", "done"} =>
                       row'[promotion'[p].entry].status = promotion'[p].status
  <2>1. \A p \in Promoters : p # NoWorker /\ promotion'[p] = promotion[p]
    BY MemoryFacts
  <2> QED
    BY <2>1, DisturbedStand
<1>2. MemoryTypeOK'
  BY <1>1 DEF MemoryTypeOK, Writes
<1>3. IndexAgrees' /\ RunHoldsLock'
  BY DEF IndexAgrees, RunHoldsLock, Writes
<1>4. PromotedStands'
  BY <1>1 DEF PromotedStands
<1> QED
  BY <1>2, <1>3, <1>4

LEMMA ForgetSteps ==
    ASSUME MemoryInv,
           \/ \E e \in Memories : ForgetEntry(e)
           \/ ForgetEntity
           \/ \E es \in (SUBSET sourced) \ {{}} : ForgetSource(es)
    PROVE  MemoryInv'
<1>1. /\ MemoryTypeOK /\ IndexAgrees /\ worker \in [Workers -> Runs]
      /\ entity \in BOOLEAN /\ sourced \subseteq Memories
  BY DEF MemoryInv, MemoryTypeOK
<1>2. ASSUME NEW kind \in {"promote", "forget", "maintain"}, NEW most, Calls(kind, most)
      PROVE  called' \in [{"promote", "forget", "maintain"} -> Nat]
  BY <1>1, <1>2 DEF Calls, MemoryTypeOK
<1>3. ASSUME NEW e \in Memories, ForgetEntry(e) PROVE MemoryInv'
  <2>1. Writes({e}) /\ sourced' \subseteq Memories
    BY <1>1, <1>3, ForgetWrites DEF ForgetEntry
  <2> QED
    BY <1>1, <1>2, <1>3, <2>1, WritesStay DEF ForgetEntry
<1>4. CASE ForgetEntity
  <2>1. Known \in SUBSET Memories
    BY DEF Known
  <2>2. Writes(Known) /\ sourced' \subseteq Memories
    BY <1>1, <1>4, <2>1, ForgetWrites DEF ForgetEntity
  <2>3. Writes(Memories)
    BY <2>1, <2>2 DEF Writes
  <2> QED
    BY <1>1, <1>2, <1>4, <2>2, <2>3, WritesStay DEF ForgetEntity
<1>5. ASSUME NEW es \in SUBSET sourced, ForgetSource(es) PROVE MemoryInv'
  <2>1. called' \in [{"promote", "forget", "maintain"} -> Nat]
    BY <1>2, <1>5 DEF ForgetSource
  <2>2. MemoryTypeOK'
    BY <1>1, <1>5, <2>1 DEF ForgetSource, MemoryTypeOK
  <2> QED
    BY <1>5, <2>2
       DEF ForgetSource, MemoryInv, IndexAgrees, Known, RunHoldsLock, PromotedStands
<1> QED
  BY <1>3, <1>4, <1>5

LEMMA PlanTyped ==
    ASSUME MemoryTypeOK
    PROVE  [e \in {d \in Known : Classified(d) # "none"} |-> Classified(e)] \in Plans
<1> DEFINE es == {d \in Known : Classified(d) # "none"}
<1>1. es \in SUBSET Memories
  BY DEF Known
<1>2. \A e : Classified(e) \in Actions \cup {"none"}
  BY DEF Classified, Unsourced, Actions
<1>3. [e \in es |-> Classified(e)] \in [es -> Actions]
  BY <1>2
<1> QED
  BY <1>1, <1>3 DEF Plans

LEMMA PlanShrinks ==
    ASSUME NEW plan \in Plans, NEW e
    PROVE  [d \in DOMAIN plan \ {e} |-> plan[d]] \in Plans
<1>1. PICK es \in SUBSET Memories : plan \in [es -> Actions]
  BY DEF Plans
<1>2. es \ {e} \in SUBSET Memories
      /\ [d \in es \ {e} |-> plan[d]] \in [es \ {e} -> Actions]
  BY <1>1
<1> QED
  BY <1>1, <1>2 DEF Plans

LEMMA WorkerApplySteps ==
    ASSUME MemoryInv, NEW w \in Workers, NEW e \in Memories, WorkerApplies(w, e)
    PROVE  MemoryInv'
<1>1. /\ MemoryTypeOK /\ IndexAgrees /\ worker[w] \in Runs /\ worker[w].plan \in Plans
      /\ row \in [Memories -> Rows \cup {Absent}]
      /\ entity \in BOOLEAN /\ sourced \subseteq Memories /\ now \in 0..MaxNow
  BY DEF MemoryInv, MemoryTypeOK, Runs
<1>2. worker[w].plan[e] \in Actions
  BY <1>1 DEF WorkerApplies, Plans
<1>3. PICK plan \in Plans : worker' = [worker EXCEPT ![w] = [worker[w] EXCEPT !.plan = plan]]
  BY <1>1, PlanShrinks DEF WorkerApplies, ItemDone
<1>4. /\ worker' \in [Workers -> Runs]
      /\ \A v \in Workers : worker'[v].at = worker[v].at /\ worker'[v].late = worker[v].late
  BY <1>1, <1>3 DEF MemoryTypeOK, Runs
<1>5. called' \in [{"promote", "forget", "maintain"} -> Nat]
  BY <1>1 DEF WorkerApplies, MemoryTypeOK
<1>6. CASE worker[w].plan[e] = "needs_review"
  <2>1. UNCHANGED <<row, indexed, sourced, touched>>
    BY <1>6 DEF WorkerApplies
  <2>2. MemoryTypeOK'
    BY <1>1, <1>4, <2>1 DEF WorkerApplies, MemoryTypeOK
  <2>3. IndexAgrees' /\ PromotedStands'
    BY <2>1 DEF WorkerApplies, MemoryInv, IndexAgrees, Known, PromotedStands
  <2>4. RunHoldsLock'
    BY <1>4 DEF WorkerApplies, MemoryInv, RunHoldsLock
  <2> QED
    BY <2>2, <2>3, <2>4 DEF MemoryInv
<1>7. CASE worker[w].plan[e] = "hard_delete_secret"
  <2>1. EntriesForgotten({e}) /\ Disturbs({e}, NoWorker)
    BY <1>7 DEF WorkerApplies
  <2>2. Writes({e}) /\ sourced' \subseteq Memories
    BY <1>1, <2>1, ForgetWrites
  <2> QED
    BY <1>1, <1>4, <1>5, <2>1, <2>2, WritesStay DEF WorkerApplies
<1>8. CASE worker[w].plan[e] \in {"supersede", "archive", "mark_stale"}
  <2>1. PICK status \in Statuses : StatusUpdated(e, status)
    BY <1>8 DEF WorkerApplies, Statuses
  <2>2. Disturbs({e}, NoWorker) /\ UNCHANGED sourced
    BY <1>8 DEF WorkerApplies
  <2>3. Writes({e})
    <3>1. CASE row[e] = Absent
      BY <1>1, <2>1, <3>1 DEF StatusUpdated, Writes, IndexAgrees, Known
    <3>2. CASE row[e] # Absent
      <4>1. [row[e] EXCEPT !.status = status, !.updated = now] \in Rows
        BY <1>1, <3>2 DEF Rows
      <4> QED
        BY <1>1, <2>1, <3>2, <4>1, MemoryUpsertSteps DEF StatusUpdated
    <3> QED
      BY <3>1, <3>2
  <2> QED
    BY <1>1, <1>4, <1>5, <2>2, <2>3, WritesStay DEF WorkerApplies
<1> QED
  BY <1>2, <1>6, <1>7, <1>8 DEF Actions

\* What changes runs, lock, clock and calls only.
LEMMA RunsStay ==
    ASSUME MemoryInv, UNCHANGED <<row, indexed, sourced, entity, touched>>,
           promotion' = promotion \/ promotion' = [p \in Promoters |-> Resting],
           now' \in 0..MaxNow, worker' \in [Workers -> Runs],
           lock' \in [worker : Workers \cup {NoWorker}, active : BOOLEAN],
           called' \in [{"promote", "forget", "maintain"} -> Nat], RunHoldsLock'
    PROVE  MemoryInv'
<1>1. promotion' \in [Promoters -> Promotions]
      /\ \A p \in Promoters : promotion'[p] = promotion[p] \/ promotion'[p].at = "idle"
  BY MemoryFacts DEF MemoryInv, MemoryTypeOK, Resting
<1>2. MemoryTypeOK'
  BY <1>1 DEF MemoryInv, MemoryTypeOK
<1>3. PromotedStands'
  BY <1>1 DEF MemoryInv, PromotedStands
<1> QED
  BY <1>2, <1>3 DEF MemoryInv, IndexAgrees, Known

LEMMA MaintenanceSteps ==
    ASSUME MemoryInv,
           \/ \E w \in Workers : WorkerStarts(w) \/ WorkerPlans(w) \/ WorkerEnds(w)
           \/ LockExpires \/ Ages \/ MemoryCrash
    PROVE  MemoryInv'
<1>1. /\ MemoryTypeOK /\ RunHoldsLock /\ worker \in [Workers -> Runs]
      /\ lock \in [worker : Workers \cup {NoWorker}, active : BOOLEAN]
      /\ now \in 0..MaxNow /\ called \in [{"promote", "forget", "maintain"} -> Nat]
  BY DEF MemoryInv, MemoryTypeOK
<1>2. /\ [worker |-> NoWorker, active |-> FALSE] \in
             [worker : Workers \cup {NoWorker}, active : BOOLEAN]
      /\ [at |-> "idle", plan |-> <<>>, late |-> FALSE] \in Runs
      /\ [at |-> "plan", plan |-> <<>>, late |-> FALSE] \in Runs
  BY MemoryFacts DEF Runs
<1>3. ASSUME NEW w \in Workers, WorkerStarts(w) PROVE MemoryInv'
  <2>1. called' \in [{"promote", "forget", "maintain"} -> Nat]
    BY <1>1, <1>3 DEF WorkerStarts, Calls
  <2>2. CASE lock.active
    BY <1>1, <1>3, <2>1, <2>2, RunsStay DEF WorkerStarts, RunHoldsLock
  <2>3. CASE ~lock.active
    <3>1. /\ lock' = [worker |-> w, active |-> TRUE]
          /\ worker' = [worker EXCEPT ![w] =
                           [at |-> "plan", plan |-> <<>>, late |-> FALSE]]
      BY <1>3, <2>3 DEF WorkerStarts
    <3>2. /\ lock' \in [worker : Workers \cup {NoWorker}, active : BOOLEAN]
          /\ worker' \in [Workers -> Runs] /\ RunHoldsLock'
      BY <1>1, <1>2, <2>3, <3>1 DEF RunHoldsLock
    <3> QED
      BY <1>1, <1>3, <2>1, <3>2, RunsStay DEF WorkerStarts
  <2> QED
    BY <2>2, <2>3
<1>4. ASSUME NEW w \in Workers, WorkerPlans(w) PROVE MemoryInv'
  <2>1. PICK plan \in Plans : worker' = [worker EXCEPT ![w] =
                [worker[w] EXCEPT !.at = "apply", !.plan = plan]]
    BY <1>1, <1>4, PlanTyped DEF WorkerPlans
  <2> DEFINE run == [worker[w] EXCEPT !.at = "apply", !.plan = plan]
  <2>0. run \in Runs /\ run.late = worker[w].late
    <3>1. worker[w] \in Runs
      BY <1>1
    <3> QED
      BY <3>1 DEF Runs
  <2>2. worker' \in [Workers -> Runs] /\ lock' = lock
        /\ \A v \in Workers \ {w} : worker'[v] = worker[v]
    <3>1. worker' = [worker EXCEPT ![w] = run]
      BY <2>1
    <3> HIDE DEF run
    <3> QED
      BY <1>1, <1>4, <2>0, <3>1 DEF WorkerPlans
  <2>3. worker'[w].late = worker[w].late /\ worker[w].at = "plan"
    BY <1>1, <1>4, <2>0, <2>1 DEF WorkerPlans
  <2>4. RunHoldsLock'
    BY <1>1, <2>2, <2>3 DEF RunHoldsLock
  <2> QED
    BY <1>1, <1>4, <2>2, <2>4, RunsStay DEF WorkerPlans
<1>5. ASSUME NEW w \in Workers, WorkerEnds(w) PROVE MemoryInv'
  <2>1. worker' = [worker EXCEPT ![w] = [at |-> "idle", plan |-> <<>>, late |-> FALSE]]
    BY <1>5 DEF WorkerEnds
  <2>2. lock' = lock \/ (lock.worker = w /\ lock' = [worker |-> NoWorker, active |-> FALSE])
    BY <1>5 DEF WorkerEnds, LockReleased
  <2>3. /\ lock' \in [worker : Workers \cup {NoWorker}, active : BOOLEAN]
        /\ worker' \in [Workers -> Runs] /\ RunHoldsLock'
    BY <1>1, <1>2, <2>1, <2>2 DEF RunHoldsLock
  <2> QED
    BY <1>1, <1>5, <2>3, RunsStay DEF WorkerEnds
<1>6. CASE LockExpires
  <2> DEFINE h == lock.worker
  <2>1. worker' = [worker EXCEPT ![h] = [worker[h] EXCEPT !.late = TRUE]]
        /\ lock' = [lock EXCEPT !.active = FALSE]
    BY <1>6 DEF LockExpires
  <2>2. \A w \in Workers : worker'[w] = IF w = h THEN [worker[w] EXCEPT !.late = TRUE]
                                        ELSE worker[w]
    BY <1>1, <2>1
  <2>3. \A w \in Workers : [worker[w] EXCEPT !.late = TRUE] \in Runs
                           /\ [worker[w] EXCEPT !.late = TRUE].late
    BY <1>1 DEF Runs
  <2>4. worker' \in [Workers -> Runs] /\ RunHoldsLock'
    BY <1>1, <2>1, <2>2, <2>3 DEF RunHoldsLock
  <2> QED
    BY <1>1, <1>6, <2>1, <2>4, RunsStay DEF LockExpires
<1>7. CASE Ages
  BY <1>1, <1>7, MemoryFacts, RunsStay DEF Ages, RunHoldsLock
<1>8. CASE MemoryCrash
  BY <1>1, <1>2, <1>8, RunsStay DEF MemoryCrash, RunHoldsLock
<1> QED
  BY <1>3, <1>4, <1>5, <1>6, <1>7, <1>8

LEMMA MemoryStays == MemoryInv /\ [MemoryNext]_memoryVars => MemoryInv'
<1> SUFFICES ASSUME MemoryInv, [MemoryNext]_memoryVars PROVE MemoryInv'
  OBVIOUS
<1>1. CASE UNCHANGED memoryVars
  BY <1>1 DEF memoryVars, MemoryInv, MemoryTypeOK, IndexAgrees, Known, RunHoldsLock,
              PromotedStands
<1>2. CASE MemoryNext
  BY <1>2, PromotionSteps, ForgetSteps, WorkerApplySteps, MaintenanceSteps DEF MemoryNext
<1> QED
  BY <1>1, <1>2

\* Rows and full-text rows agree, a maintenance run in time is alone, and what
\* a promotion wrote stands until another call touches it
\* (src/project-memory/store.ts, promote.ts, maintenance).
THEOREM MemoryKept == MemorySpec => []MemoryInv
  BY MemoryStart, MemoryStays, PTL DEF MemorySpec

\* What a promotion reports as accepted is found by a lookup
\* (src/project-memory/promote.ts, lookup.ts).
THEOREM AcceptedStays == MemorySpec => []AcceptedIsFound
<1>1. MemoryInv => AcceptedIsFound
  <2> SUFFICES ASSUME MemoryInv, NEW p \in Promoters, promotion[p].at = "done",
                      ~touched[p]
               PROVE  Found(promotion[p].entry, promotion[p].status)
    BY DEF AcceptedIsFound
  <2>1. promotion[p] \in Promotions /\ promotion[p].entry \in Memories
    BY DEF MemoryInv, MemoryTypeOK
  <2>2. row[promotion[p].entry].status = promotion[p].status /\ entity
    BY DEF MemoryInv, PromotedStands
  <2>3. row[promotion[p].entry] # Absent
    BY <2>1, <2>2, MemoryFacts DEF Promotions
  <2> QED
    BY <2>1, <2>2, <2>3 DEF MemoryInv, IndexAgrees, Known, Found, Searched
<1> QED
  BY <1>1, MemoryKept, PTL

-----------------------------------------------------------------------------
(* Project identity: the registry, the targets of a call, the two resolvers.*)

LEMMA OnlyOfSingle ==
    ASSUME NEW s, Single(s)
    PROVE  /\ Only(s) \in s /\ s = {Only(s)} /\ ~ Several(s) /\ s # {}
BY DEF Single, Only, Several

LEMMA OnlyUnlessSeveral ==
    ASSUME NEW s, NEW x \in s, ~ Several(s)
    PROVE  Only(s) = x /\ s = {x} /\ Single(s)
BY DEF Single, Only, Several

\* What the resolvers return.
LEMMA OriginIdentity ==
    ASSUME NEW o
    PROVE  /\ IdentityForOrigin(o).status = "resolved"
           /\ IdentityForOrigin(o).id = ProjectIdFor(o)
           /\ IdentityForOrigin(o).kind = "origin"
           /\ IdentityForOrigin(o) # Unresolved
BY DEF IdentityForOrigin, Resolved, Unresolved

LEMMA OriginIsIdentity ==
    ASSUME NEW o \in Origins \union Aliases \union Worktrees
    PROVE  IdentityForOrigin(o) \in Identities
<1>1. ProjectIdFor(o) \in ProjectIds BY DEF ProjectIds
<1>. QED BY <1>1 DEF IdentityForOrigin, Resolved, Identities

LEMMA DirectoryIsIdentity ==
    ASSUME IdentityTypeOK, NEW d \in Worktrees
    PROVE  OfDirectory(d) \in Identities
<1>1. ProjectIdFor(d) \in ProjectIds BY DEF ProjectIds
<1>2. remotes[d] \in Origins \union {NoOrigin} BY DEF IdentityTypeOK
<1>3. CASE remotes[d] # NoOrigin
  BY <1>2, <1>3, OriginIsIdentity DEF OfDirectory
<1>4. CASE remotes[d] = NoOrigin
  BY <1>1, <1>4 DEF OfDirectory, Resolved, Identities
<1>. QED BY <1>3, <1>4

LEMMA RecordIsIdentity ==
    ASSUME NEW r \in RegistryRecords
    PROVE  ForTools(r) \in Identities
<1>1. r.id \in ProjectIds /\ r.origin \in Origins \union {NoOrigin}
  BY DEF RegistryRecords
<1>2. CASE r.origin # NoOrigin BY <1>1, <1>2, OriginIsIdentity DEF ForTools
<1>3. CASE r.origin = NoOrigin
  BY <1>1, <1>3 DEF ForTools, Resolved, Identities
<1>. QED BY <1>2, <1>3

LEMMA NotResolved ==
    /\ Refused("ambiguous").status # "resolved"
    /\ Refused("unknown").status # "resolved"
    /\ Refused("blocked").status # "resolved"
    /\ Unresolved.status # "resolved"
BY DEF Refused, Unresolved

LEMMA ByNames ==
    ASSUME NEW n
    PROVE  /\ ByAlias(n) \subseteq registry /\ ByOrigin(n) \subseteq registry
           /\ ByWorktree(n) \subseteq registry
BY DEF ByAlias, ByOrigin, ByWorktree

LEMMA CandidateIsIdentity ==
    ASSUME IdentityTypeOK, NEW f,
           NEW v \in Origins \union Aliases \union Worktrees,
           Candidate(f, v).status = "resolved"
    PROVE  Candidate(f, v) \in Identities
<1>. DEFINE matches == IF f = "worktree" THEN ByWorktree(v) ELSE ByAlias(v)
<1>1. matches \subseteq RegistryRecords BY ByNames DEF IdentityTypeOK
<1>2. Candidate(f, v) =
        IF f \in OriginFields THEN IdentityForOrigin(v)
        ELSE IF Several(matches) THEN Refused("ambiguous")
        ELSE IF Single(matches) THEN ForTools(Only(matches))
        ELSE IF f = "target" THEN IdentityForOrigin(v)
        ELSE Refused("unknown")
  BY DEF Candidate
<1>3. IdentityForOrigin(v) \in Identities BY OriginIsIdentity
<1>4. ASSUME Single(matches) PROVE ForTools(Only(matches)) \in Identities
  <2>1. Only(matches) \in RegistryRecords BY <1>1, <1>4, OnlyOfSingle
  <2>. QED BY <2>1, RecordIsIdentity
<1>. HIDE DEF matches
<1>. QED BY <1>2, <1>3, <1>4, NotResolved
-----------------------------------------------------------------------------
\* The maintenance's answer for a record and the tools' answer agree.
LEMMA SameRecordSameId ==
    ASSUME NEW r \in RegistryRecords, AssertMaintenance(IdentityForRecord(r))
    PROVE  IdentityForRecord(r).id = ForTools(r).id
<1>1. r.origin # NoOrigin
  BY DEF AssertMaintenance, Permits, IdentityForRecord, Resolved
<1>2. r.id = ProjectIdFor(r.origin) BY <1>1 DEF RegistryRecords
<1>. QED BY <1>1, <1>2, OriginIdentity
     DEF IdentityForRecord, ForTools, Resolved

\* A single record found by a name is what the tools find by that name.
LEMMA CandidateOfRecord ==
    ASSUME NEW v, NEW f \in {"alias", "worktree"},
           NEW m, m = (IF f = "worktree" THEN ByWorktree(v) ELSE ByAlias(v)),
           Single(m)
    PROVE  Candidate(f, v) = ForTools(Only(m))
<1>1. f \notin OriginFields BY DEF OriginFields
<1>2. ~ Several(m) BY OnlyOfSingle
<1>. QED BY <1>1, <1>2 DEF Candidate

LEMMA CandidateOfOrigin ==
    ASSUME NEW f \in OriginFields, NEW v
    PROVE  Candidate(f, v) = IdentityForOrigin(v)
BY DEF Candidate

\* What a target that is accepted resolves to, by its fields.
LEMMA TargetResolves ==
    ASSUME IdentityTypeOK, NEW c \in Askings,
           ResolveTarget(c.args, TRUE) # Unresolved,
           AssertMaintenance(ResolveTarget(c.args, TRUE))
    PROVE  \E f \in {"origin", "alias", "worktree"} :
              /\ c.args[f] # NoName
              /\ ResolveTarget(c.args, TRUE).id = Candidate(f, c.args[f]).id
<1>. DEFINE t == c.args
            it == ResolveTarget(t, TRUE)
            bare == t.alias = NoName /\ t.worktree = NoName
            m == Matches(t)
<1>1. it = IF t.origin # NoName /\ bare THEN IdentityForOrigin(t.origin)
           ELSE IF Single(m) THEN IdentityForRecord(Only(m))
           ELSE IF Several(m) THEN Refused("ambiguous")
           ELSE IF ~ bare THEN Refused("blocked")
           ELSE Unresolved
  BY DEF ResolveTarget
<1>2. it.status = "resolved" BY DEF AssertMaintenance, Permits
<1>3. \/ t.origin # NoName /\ bare /\ it = IdentityForOrigin(t.origin)
      \/ Single(m) /\ it = IdentityForRecord(Only(m))
  BY <1>1, <1>2, NotResolved
<1>4. CASE t.origin # NoName /\ bare /\ it = IdentityForOrigin(t.origin)
  <2>1. Candidate("origin", t["origin"]) = IdentityForOrigin(t.origin)
    BY CandidateOfOrigin DEF OriginFields
  <2>. QED BY <1>4, <2>1
<1>5. CASE Single(m) /\ it = IdentityForRecord(Only(m))
  <2>. DEFINE r == Only(m)
  <2>1. r \in m /\ m # {} BY <1>5, OnlyOfSingle
  <2>2. m \subseteq registry BY ByNames DEF Matches
  <2>3. r \in RegistryRecords BY <2>1, <2>2 DEF IdentityTypeOK
  <2>4. it.id = ForTools(r).id
    BY <1>5, <2>3, SameRecordSameId
  <2>5. CASE t.alias # NoName
    <3>1. m = ByAlias(t.alias) BY <2>5 DEF Matches
    <3>2. Candidate("alias", t["alias"]) = ForTools(r)
      BY <3>1, <1>5, CandidateOfRecord
    <3>. QED BY <2>4, <2>5, <3>2
  <2>6. CASE t.alias = NoName /\ t.origin # NoName
    <3>1. m = ByOrigin(t.origin) BY <2>6 DEF Matches
    <3>2. r.origin = t.origin BY <2>1, <3>1 DEF ByOrigin
    <3>3. t.origin \in Origins BY <2>6 DEF Askings, TargetsOfAnySize
    <3>4. r.origin # NoOrigin BY <3>2, <3>3, IdentityAssumption
    <3>5. ForTools(r) = IdentityForOrigin(t.origin)
      BY <3>2, <3>4 DEF ForTools
    <3>6. Candidate("origin", t["origin"]) = IdentityForOrigin(t.origin)
      BY CandidateOfOrigin DEF OriginFields
    <3>. QED BY <2>4, <2>6, <3>5, <3>6
  <2>7. CASE t.alias = NoName /\ t.origin = NoName /\ t.worktree # NoName
    <3>1. m = ByWorktree(t.worktree) BY <2>7 DEF Matches
    <3>2. Candidate("worktree", t["worktree"]) = ForTools(r)
      BY <3>1, <1>5, CandidateOfRecord
    <3>. QED BY <2>4, <2>7, <3>2
  <2>8. ~ (t.alias = NoName /\ t.origin = NoName /\ t.worktree = NoName)
    BY <2>1 DEF Matches
  <2>. QED BY <2>5, <2>6, <2>7, <2>8
<1>. QED BY <1>3, <1>4, <1>5

\* A target that is not resolved names neither alias, origin nor worktree.
LEMMA UnresolvedNamesNothing ==
    ASSUME NEW t, ResolveTarget(t, TRUE) = Unresolved
    PROVE  t.alias = NoName /\ t.worktree = NoName /\ t.origin = NoName
<1>1. /\ \A o : IdentityForOrigin(o) # Unresolved
      /\ \A r : IdentityForRecord(r).status # "none"
      /\ Refused("ambiguous") # Unresolved /\ Refused("blocked") # Unresolved
      /\ Unresolved.status = "none"
  BY DEF IdentityForOrigin, IdentityForRecord, Resolved, Refused, Unresolved
<1>2. \A r : IdentityForRecord(r) # Unresolved BY <1>1
<1>3. /\ ~ (t.origin # NoName /\ t.alias = NoName /\ t.worktree = NoName)
      /\ ~ (~ (t.alias = NoName /\ t.worktree = NoName))
  BY <1>1, <1>2 DEF ResolveTarget
<1>. QED BY <1>3

LEMMA ResolversAgreeAlways ==
    ASSUME IdentityTypeOK
    PROVE  ResolversAgree
<1>. SUFFICES ASSUME NEW c \in IdentityCalls, asked[c] # NotAsked,
        Given(asked[c].args) # {}, asked[c].args.target = NoName,
        Single({Candidate(f, asked[c].args[f]) : f \in Given(asked[c].args)}),
        AssertMaintenance(ResolveIdentity(asked[c].args, asked[c].directory))
     PROVE  ResolveIdentity(asked[c].args, asked[c].directory).id =
              Only({Candidate(f, asked[c].args[f]) :
                        f \in Given(asked[c].args)}).id
  BY DEF ResolversAgree
<1>. DEFINE args == asked[c].args
            d == asked[c].directory
            found == {Candidate(f, args[f]) : f \in Given(args)}
            explicit == ResolveTarget(args, TRUE)
            theirs == ResolveIdentity(args, d)
<1>0. asked[c] \in Askings BY DEF IdentityTypeOK
<1>1. \A it \in found : it = Only(found) BY OnlyOfSingle
<1>2. theirs = IF explicit # Unresolved THEN explicit
               ELSE IF args.session # NoName
                    THEN IdentityForOrigin(args.session)
               ELSE IF args.lifecycle # NoName
                    THEN IdentityForOrigin(args.lifecycle)
               ELSE ResolveDirectory(d)
  BY DEF ResolveIdentity
<1>3. SUFFICES \E f \in Fields : /\ args[f] # NoName
                                 /\ theirs.id = Candidate(f, args[f]).id
  <2>1. \A f \in Fields : args[f] # NoName => Candidate(f, args[f]) \in found
    BY DEF Given
  <2>. HIDE DEF args, theirs, found
  <2>2. theirs.id = Only(found).id BY <1>1, <1>3, <2>1
  <2>. QED BY <2>2 DEF args, theirs, found, d
<1>4. Fields = {"origin", "target", "alias", "worktree", "session",
                "lifecycle"}
  <2>1. 1..6 = {1, 2, 3, 4, 5, 6} OBVIOUS
  <2>2. Fields = {FieldPriority[i] : i \in {1, 2, 3, 4, 5, 6}}
    BY <2>1 DEF Fields
  <2>. QED BY <2>2 DEF FieldPriority
<1>5. CASE explicit # Unresolved
  <2>1. AssertMaintenance(explicit) /\ theirs = explicit BY <1>2, <1>5
  <2>2. PICK f \in {"origin", "alias", "worktree"} :
            /\ args[f] # NoName
            /\ explicit.id = Candidate(f, args[f]).id
    BY <1>0, <1>5, <2>1, TargetResolves
  <2>. HIDE DEF explicit, theirs, args
  <2>. QED BY <1>4, <2>1, <2>2
<1>6. CASE explicit = Unresolved
  <2>1. args.alias = NoName /\ args.worktree = NoName /\ args.origin = NoName
    BY <1>6, UnresolvedNamesNothing
  <2>2. CASE args.session # NoName
    <3>1. theirs = Candidate("session", args["session"])
      BY <1>2, <1>6, <2>2, CandidateOfOrigin DEF OriginFields
    <3>. QED BY <1>4, <2>2, <3>1
  <2>3. CASE args.session = NoName /\ args.lifecycle # NoName
    <3>1. theirs = Candidate("lifecycle", args["lifecycle"])
      BY <1>2, <1>6, <2>3, CandidateOfOrigin DEF OriginFields
    <3>. QED BY <1>4, <2>3, <3>1
  <2>4. CASE args.session = NoName /\ args.lifecycle = NoName
    <3>1. \A f \in Fields : args[f] = NoName BY <1>4, <2>1, <2>4
    <3>2. Given(args) = {} BY <3>1 DEF Given
    <3>. QED BY <3>2
  <2>. QED BY <2>2, <2>3, <2>4
<1>. QED BY <1>5, <1>6
-----------------------------------------------------------------------------
IdentityCore == IdentityTypeOK /\ RecordsAreUnique /\ ReadsAreUnique
                /\ FoundWhatIsNamed /\ WritesNameOneProject

LEMMA IdentityInitially == IdentityInit => IdentityCore
<1>. SUFFICES ASSUME IdentityInit PROVE IdentityCore OBVIOUS
<1>1. IdentityTypeOK BY DEF IdentityInit, IdentityTypeOK
<1>2. RecordsAreUnique BY DEF IdentityInit, RecordsAreUnique, UniqueIn
<1>3. ReadsAreUnique
  BY DEF IdentityInit, ReadsAreUnique, UniqueIn, NotUpserting
<1>4. FoundWhatIsNamed BY DEF IdentityInit, FoundWhatIsNamed
<1>5. WritesNameOneProject BY DEF IdentityInit, WritesNameOneProject
<1>. QED BY <1>1, <1>2, <1>3, <1>4, <1>5 DEF IdentityCore

LEMMA RemoteChangesKeep ==
    ASSUME IdentityCore, NEW d \in Worktrees, RemoteChanges(d)
    PROVE  IdentityCore'
<1>1. remotes' \in [Worktrees -> Origins \union {NoOrigin}]
  BY DEF RemoteChanges, IdentityCore, IdentityTypeOK
<1>2. UNCHANGED <<registry, upserting, asked, worked>> BY DEF RemoteChanges
<1>. QED BY <1>1, <1>2 DEF IdentityCore, IdentityTypeOK, RecordsAreUnique,
     ReadsAreUnique, UniqueIn, FoundWhatIsNamed, WritesNameOneProject

LEMMA RecordOfDirectory ==
    ASSUME IdentityTypeOK, NEW d \in Worktrees, NEW as \in SUBSET Aliases
    PROVE  [id |-> OfDirectory(d).id, origin |-> remotes[d],
            aliases |-> as, worktrees |-> {d}] \in RegistryRecords
<1>1. OfDirectory(d).id \in ProjectIds
  BY DirectoryIsIdentity DEF Identities
<1>2. remotes[d] \in Origins \union {NoOrigin} BY DEF IdentityTypeOK
<1>3. remotes[d] # NoOrigin => OfDirectory(d).id = ProjectIdFor(remotes[d])
  BY OriginIdentity DEF OfDirectory
<1>. QED BY <1>1, <1>2, <1>3 DEF RegistryRecords

LEMMA UpsertReadsKeeps ==
    ASSUME IdentityCore, NEW r \in Registrars, UpsertReads(r)
    PROVE  IdentityCore'
<1>1. PICK d \in Worktrees, as \in SUBSET Aliases :
        upserting' = [upserting EXCEPT ![r] =
            [record |-> [id |-> OfDirectory(d).id, origin |-> remotes[d],
                         aliases |-> as, worktrees |-> {d}],
             read |-> registry]]
  BY DEF UpsertReads
<1>2. UNCHANGED <<remotes, registry, asked, worked>> BY DEF UpsertReads
<1>. DEFINE new == [id |-> OfDirectory(d).id, origin |-> remotes[d],
                    aliases |-> as, worktrees |-> {d}]
            up == [record |-> new, read |-> registry]
<1>3. new \in RegistryRecords BY RecordOfDirectory DEF IdentityCore
<1>4. registry \in SUBSET RegistryRecords BY DEF IdentityCore, IdentityTypeOK
<1>. HIDE DEF new
<1>5. up \in [record : RegistryRecords, read : SUBSET RegistryRecords] /\ up.read = registry
  BY <1>3, <1>4
<1>6. upserting' = [upserting EXCEPT ![r] = up] BY <1>1 DEF new
<1>. HIDE DEF up
<1>7. upserting \in [Registrars ->
         {NotUpserting} \union [record : RegistryRecords, read : SUBSET RegistryRecords]]
  BY DEF IdentityCore, IdentityTypeOK
<1>8. IdentityTypeOK'
  BY <1>2, <1>5, <1>6, <1>7 DEF IdentityCore, IdentityTypeOK
<1>9. ReadsAreUnique'
  <2>1. ASSUME NEW q \in Registrars PROVE UniqueIn(upserting'[q].read)
    <3>1. CASE q = r
      BY <1>5, <1>6, <1>7, <3>1 DEF IdentityCore, RecordsAreUnique
    <3>2. CASE q # r
      BY <1>6, <1>7, <3>2 DEF IdentityCore, ReadsAreUnique
    <3>. QED BY <3>1, <3>2
  <2>. QED BY <2>1 DEF ReadsAreUnique, UniqueIn
<1>. QED BY <1>2, <1>8, <1>9 DEF IdentityCore, RecordsAreUnique, UniqueIn,
     FoundWhatIsNamed, WritesNameOneProject

LEMMA MergedIsUnique ==
    ASSUME NEW records, NEW new, UniqueIn(records)
    PROVE  UniqueIn(Merged(records, new))
BY DEF UniqueIn, Merged

LEMMA UpsertWritesKeeps ==
    ASSUME IdentityCore, NEW r \in Registrars, UpsertWrites(r)
    PROVE  IdentityCore'
<1>1. /\ upserting[r] # NotUpserting
      /\ registry' = Merged(upserting[r].read, upserting[r].record)
      /\ upserting' = [upserting EXCEPT ![r] = NotUpserting]
      /\ UNCHANGED <<remotes, asked, worked>>
  BY DEF UpsertWrites
<1>2. upserting \in [Registrars ->
         {NotUpserting} \union [record : RegistryRecords, read : SUBSET RegistryRecords]]
  BY DEF IdentityCore, IdentityTypeOK
<1>3. upserting[r] \in [record : RegistryRecords, read : SUBSET RegistryRecords]
  BY <1>1, <1>2
<1>4. registry' \subseteq RegistryRecords
  BY <1>1, <1>3 DEF Merged
<1>5. UniqueIn(upserting[r].read) BY DEF IdentityCore, ReadsAreUnique
<1>6. UniqueIn(registry') BY <1>1, <1>5, MergedIsUnique
<1>7. IdentityTypeOK'
  BY <1>1, <1>2, <1>4 DEF IdentityCore, IdentityTypeOK
<1>8. ReadsAreUnique'
  <2>1. ASSUME NEW q \in Registrars PROVE UniqueIn(upserting'[q].read)
    <3>1. CASE q = r
      BY <1>1, <1>2, <3>1 DEF UniqueIn, NotUpserting
    <3>2. CASE q # r
      BY <1>1, <1>2, <3>2 DEF IdentityCore, ReadsAreUnique
    <3>. QED BY <3>1, <3>2
  <2>. QED BY <2>1 DEF ReadsAreUnique, UniqueIn
<1>. QED BY <1>1, <1>6, <1>7, <1>8 DEF IdentityCore, RecordsAreUnique,
     UniqueIn, FoundWhatIsNamed, WritesNameOneProject

\* The asking of one call changes, to something of the right type.
LEMMA OneCallChanges ==
    ASSUME IdentityCore, NEW c \in IdentityCalls,
           NEW new \in {NotAsked} \union Askings,
           asked' = [asked EXCEPT ![c] = new],
           UNCHANGED <<remotes, registry, upserting>>,
           new # NotAsked =>
             \A f \in (OriginFields \intersect Given(new.args)) \ new.left :
                IdentityForOrigin(new.args[f]) \in new.found
    PROVE  /\ IdentityTypeOK' /\ RecordsAreUnique' /\ ReadsAreUnique'
           /\ FoundWhatIsNamed'
<1>1. asked \in [IdentityCalls -> {NotAsked} \union Askings]
  BY DEF IdentityCore, IdentityTypeOK
<1>2. asked' \in [IdentityCalls -> {NotAsked} \union Askings] BY <1>1
<1>3. IdentityTypeOK' BY <1>2 DEF IdentityCore, IdentityTypeOK
<1>4. RecordsAreUnique' /\ ReadsAreUnique'
  BY DEF IdentityCore, RecordsAreUnique, ReadsAreUnique, UniqueIn
<1>5. FoundWhatIsNamed'
  <2>1. ASSUME NEW b \in IdentityCalls, asked'[b] # NotAsked
        PROVE  \A f \in (OriginFields \intersect Given(asked'[b].args))
                        \ asked'[b].left :
                 IdentityForOrigin(asked'[b].args[f]) \in asked'[b].found
    <3>1. CASE b = c BY <1>1, <2>1, <3>1
    <3>2. CASE b # c
      BY <1>1, <2>1, <3>2 DEF IdentityCore, FoundWhatIsNamed
    <3>. QED BY <3>1, <3>2
  <2>. QED BY <2>1 DEF FoundWhatIsNamed, Given
<1>. QED BY <1>3, <1>4, <1>5

LEMMA GivenAreFields == \A args : Given(args) \subseteq Fields
BY DEF Given

LEMMA AskingStartsKeeps ==
    ASSUME IdentityCore, NEW c \in IdentityCalls, AskingStarts(c)
    PROVE  IdentityCore'
<1>1. PICK args \in Targets, d \in Worktrees, m \in {"read", "write"} :
         asked' = [asked EXCEPT ![c] = [mode |-> m, args |-> args,
                        directory |-> d, left |-> Given(args), found |-> {}]]
  BY DEF AskingStarts
<1>2. UNCHANGED <<remotes, registry, upserting, worked>> BY DEF AskingStarts
<1>. DEFINE new == [mode |-> m, args |-> args, directory |-> d,
                    left |-> Given(args), found |-> {}]
<1>3. Given(args) \in SUBSET Fields BY GivenAreFields
<1>5. new.left = Given(new.args) OBVIOUS
<1>4. new \in Askings BY <1>3, <1>5 DEF Askings, Targets
<1>. HIDE DEF new
<1>6. asked' = [asked EXCEPT ![c] = new] BY <1>1 DEF new
<1>7. \A f \in (OriginFields \intersect Given(new.args)) \ new.left :
         IdentityForOrigin(new.args[f]) \in new.found
  BY <1>5
<1>8. /\ IdentityTypeOK' /\ RecordsAreUnique' /\ ReadsAreUnique'
      /\ FoundWhatIsNamed'
  BY <1>2, <1>4, <1>6, <1>7, OneCallChanges
<1>. QED BY <1>2, <1>8 DEF IdentityCore, WritesNameOneProject

LEMMA FieldValue ==
    ASSUME NEW c \in Askings, NEW f \in Given(c.args)
    PROVE  c.args[f] \in Origins \union Aliases \union Worktrees
<1>1. 1..6 = {1, 2, 3, 4, 5, 6} OBVIOUS
<1>2. Fields = {FieldPriority[i] : i \in {1, 2, 3, 4, 5, 6}}
  BY <1>1 DEF Fields
<1>3. f \in {"origin", "target", "alias", "worktree", "session", "lifecycle"}
  BY <1>2, GivenAreFields DEF FieldPriority
<1>4. c.args[f] # NoName BY DEF Given
<1>. DEFINE args == c.args
<1>5. /\ args.origin \in Origins \union {NoName}
      /\ args.target \in Origins \union Aliases \union {NoName}
      /\ args.alias \in Aliases \union {NoName}
      /\ args.worktree \in Worktrees \union {NoName}
      /\ args.session \in Origins \union {NoName}
      /\ args.lifecycle \in Origins \union {NoName}
  BY DEF Askings, TargetsOfAnySize
<1>6. args[f] # NoName BY <1>4
<1>. HIDE DEF args
<1>7. args[f] \in Origins \union Aliases \union Worktrees BY <1>3, <1>5, <1>6
<1>. QED BY <1>7 DEF args

LEMMA FieldResolvedKeeps ==
    ASSUME IdentityCore, NEW c \in IdentityCalls, FieldResolved(c)
    PROVE  IdentityCore'
<1>. DEFINE call == asked[c]
<1>1. UNCHANGED <<remotes, registry, upserting, worked>> BY DEF FieldResolved
<1>2. call \in Askings /\ call # NotAsked
  BY DEF FieldResolved, IdentityCore, IdentityTypeOK
<1>3. PICK i \in 1..6 :
         /\ IsNextField(i, call.left)
         /\ asked' = [asked EXCEPT ![c] =
               IF Candidate(FieldPriority[i], call.args[FieldPriority[i]]).status
                    # "resolved" THEN NotAsked
               ELSE [call EXCEPT
                      !.left = @ \ {FieldPriority[i]},
                      !.found = @ \union {Candidate(FieldPriority[i],
                                             call.args[FieldPriority[i]])}]]
  BY DEF FieldResolved
<1>. DEFINE f == FieldPriority[i]
            it == Candidate(f, call.args[f])
            more == [call EXCEPT !.left = @ \ {f}, !.found = @ \union {it}]
            new == IF it.status # "resolved" THEN NotAsked ELSE more
<1>4. asked' = [asked EXCEPT ![c] = new] BY <1>3
<1>5. ASSUME it.status = "resolved"
      PROVE  /\ more \in Askings /\ more.args = call.args
             /\ more.left = call.left \ {f}
             /\ more.found = call.found \union {it}
  <2>1. f \in call.left BY <1>3 DEF IsNextField
  <2>2. call.left \in SUBSET Fields BY <1>2 DEF Askings
  <2>3. CASE f \in Given(call.args)
    <3>1. call.args[f] \in Origins \union Aliases \union Worktrees
      BY <1>2, <2>3, FieldValue
    <3>2. it \in Identities
      BY <3>1, <1>5, CandidateIsIdentity DEF IdentityCore
    <3>. HIDE DEF f, it, call
    <3>. QED BY <1>2, <3>2 DEF Askings
  <2>4. f \in Given(call.args) BY <1>2, <2>1 DEF Askings
  <2>. QED BY <2>3, <2>4
<1>. HIDE DEF it, more, f
<1>6. new \in {NotAsked} \union Askings BY <1>5
<1>7. ASSUME new # NotAsked
      PROVE  \A g \in (OriginFields \intersect Given(new.args)) \ new.left :
                IdentityForOrigin(new.args[g]) \in new.found
  <2>1. it.status = "resolved" /\ new = more BY <1>7
  <2>2. /\ new.args = call.args /\ new.left = call.left \ {f}
        /\ new.found = call.found \union {it}
    BY <1>5, <2>1
  <2>. SUFFICES ASSUME NEW g \in OriginFields, g \in Given(call.args),
                       g \notin call.left \ {f}
       PROVE  IdentityForOrigin(call.args[g]) \in call.found \union {it}
    BY <2>2
  <2>3. CASE g = f
    <3>1. it = Candidate(g, call.args[g]) BY <2>3 DEF it
    <3>. QED BY <3>1, CandidateOfOrigin
  <2>4. CASE g # f
    BY <1>2, <2>4 DEF IdentityCore, FoundWhatIsNamed
  <2>. QED BY <2>3, <2>4
<1>. HIDE DEF new
<1>8. /\ IdentityTypeOK' /\ RecordsAreUnique' /\ ReadsAreUnique'
      /\ FoundWhatIsNamed'
  BY <1>1, <1>4, <1>6, <1>7, OneCallChanges
<1>. QED BY <1>1, <1>8 DEF IdentityCore, WritesNameOneProject

LEMMA AskingEndsKeeps ==
    ASSUME IdentityCore, NEW c \in IdentityCalls, AskingEnds(c)
    PROVE  IdentityCore'
<1>. DEFINE call == asked[c]
            it == Settled(call.found, call.directory)
            w == [by |-> call.mode, id |-> it.id, args |-> call.args]
<1>1. /\ call # NotAsked /\ call.left = {}
      /\ worked' = worked \union (IF Permits(call.mode, it) THEN {w} ELSE {})
      /\ asked' = [asked EXCEPT ![c] = NotAsked]
      /\ UNCHANGED <<remotes, registry, upserting>>
  BY DEF AskingEnds
<1>2. call \in Askings BY <1>1 DEF IdentityCore, IdentityTypeOK
<1>3. /\ IdentityTypeOK' /\ RecordsAreUnique' /\ ReadsAreUnique'
      /\ FoundWhatIsNamed'
  BY <1>1, OneCallChanges
<1>4. ASSUME Permits(call.mode, it), NEW f \in OriginFields,
             call.args[f] # NoName
      PROVE  it.id = ProjectIdFor(call.args[f])
  <2>0. OriginFields \subseteq Fields
    <3>1. 1 \in 1..6 /\ 5 \in 1..6 /\ 6 \in 1..6 OBVIOUS
    <3>2. /\ FieldPriority[1] = "origin" /\ FieldPriority[5] = "session"
          /\ FieldPriority[6] = "lifecycle"
      BY DEF FieldPriority
    <3>. QED BY <3>1, <3>2 DEF OriginFields, Fields
  <2>1. f \in Given(call.args) BY <1>4, <2>0 DEF Given
  <2>2. IdentityForOrigin(call.args[f]) \in call.found
    BY <1>1, <2>1 DEF IdentityCore, FoundWhatIsNamed
  <2>3. it.status = "resolved" BY <1>4 DEF Permits
  <2>4. ~ Several(call.found)
    BY <2>2, <2>3, NotResolved DEF Settled
  <2>5. it = Only(call.found) BY <2>2, <2>4 DEF Settled
  <2>6. it = IdentityForOrigin(call.args[f])
    BY <2>2, <2>4, <2>5, OnlyUnlessSeveral
  <2>. QED BY <2>6, OriginIdentity
<1>5. WritesNameOneProject'
  <2>. SUFFICES ASSUME NEW x \in worked', x.by = "write",
                       NEW f \in OriginFields, x.args[f] # NoName
       PROVE  x.id = ProjectIdFor(x.args[f])
    BY DEF WritesNameOneProject
  <2>1. CASE x \in worked
    BY <2>1 DEF IdentityCore, WritesNameOneProject
  <2>2. CASE x \notin worked
    <3>1. Permits(call.mode, it) /\ x = w BY <1>1, <2>2
    <3>2. x.id = it.id /\ x.args = call.args BY <3>1
    <3>. HIDE DEF it, w, call
    <3>. QED BY <1>4, <3>1, <3>2
  <2>. QED BY <2>1, <2>2
<1>. QED BY <1>3, <1>5 DEF IdentityCore

LEMMA IdentityStep ==
    ASSUME IdentityCore, [IdentityNext]_identityVars PROVE IdentityCore'
<1>1. ASSUME NEW d \in Worktrees, MaintenanceScheduled(d) PROVE IdentityCore'
  <2>1. UNCHANGED <<remotes, registry, upserting, asked, worked>>
    BY <1>1 DEF MaintenanceScheduled
  <2>. QED BY <2>1 DEF IdentityCore, IdentityTypeOK, RecordsAreUnique,
       ReadsAreUnique, UniqueIn, FoundWhatIsNamed, WritesNameOneProject
<1>2. ASSUME JobFails \/ UNCHANGED identityVars PROVE IdentityCore'
  <2>1. UNCHANGED <<remotes, registry, upserting, asked, worked>>
    BY <1>2 DEF JobFails, identityVars
  <2>. QED BY <2>1 DEF IdentityCore, IdentityTypeOK, RecordsAreUnique,
       ReadsAreUnique, UniqueIn, FoundWhatIsNamed, WritesNameOneProject
<1>. QED BY <1>1, <1>2, RemoteChangesKeep, UpsertReadsKeeps,
     UpsertWritesKeeps, AskingStartsKeeps, FieldResolvedKeeps, AskingEndsKeeps
     DEF IdentityNext

\* The registry has one record per project, what a call writes is stored under
\* a project its own targets name, and the tools and the maintenance never take
\* two projects for one another (src/project-memory/registry.ts, identity.ts,
\* src/tools/project-memory/runtime.ts).
THEOREM IdentityKept == IdentitySpec => []IdentityInv
<1>1. IdentityCore => IdentityInv
  BY ResolversAgreeAlways DEF IdentityCore, IdentityInv
<1>2. IdentityCore /\ [IdentityNext]_identityVars => IdentityCore'
  BY IdentityStep
<1>. QED BY IdentityInitially, <1>1, <1>2, PTL DEF IdentitySpec

-----------------------------------------------------------------------------
(* The artifact index: rows and their full-text rows.                      *)

\* Only name-sakes share an id, and only one of them has a row.
LEMMA SameId ==
    ASSUME NEW f \in ArtifactFiles, NEW g \in ArtifactFiles,
           ArtifactId(f) = ArtifactId(g)
    PROVE  f = g \/ (f \in NameSakes /\ g \in NameSakes)
  BY ArtifactAssumption DEF ArtifactId

LEMMA OnlyRow ==
    ASSUME OneRowPerName, NEW f \in ArtifactFiles, NEW g \in ArtifactFiles,
           ArtifactId(f) = ArtifactId(g), rows[f] # NoText, rows[g] # NoText
    PROVE  f = g
  BY SameId DEF OneRowPerName

LEMMA RestFacts ==
    /\ IndexerResting.at = "rest" /\ MaxTexts \in Nat
    /\ IndexerResting \in [file : ArtifactFiles, text : 0..MaxTexts,
                          at : {"rest", "open", "select", "upsert", "insert"}]
    /\ \A f \in ArtifactFiles : ArtifactId(f) \in Ids
  BY ArtifactAssumption DEF IndexerResting, NoText, Ids

Writing(p) == indexing[p].at \in {"upsert", "insert"}

\* What the two properties need of a state.
LEMMA IndexSearchable ==
    RowAwaitsEntry /\ OldTextsAreShared => RowsAreSearchable /\ OldTextsAreDropped
<1> SUFFICES ASSUME RowAwaitsEntry, OldTextsAreShared
             PROVE  RowsAreSearchable /\ OldTextsAreDropped
  OBVIOUS
<1>1. ASSUME NEW f \in ArtifactFiles, AtRest(f)
      PROVE  \A p \in Indexers : Writing(p) => File(p) # f
  <2>1. \A p \in Indexers : Writing(p) => indexing[p] # IndexerResting
    BY RestFacts DEF Writing
  <2> QED
    BY <1>1, <2>1 DEF AtRest
<1>2. RowsAreSearchable
  BY <1>1 DEF RowsAreSearchable, RowAwaitsEntry, FileFound, Writing
<1>3. OldTextsAreDropped
  <2> SUFFICES ASSUME NEW f \in ArtifactFiles, NEW e \in FileFound(f),
                      AtRest(f), f \notin cut, e.text # rows[f]
               PROVE  \E d \in entries : d.id = e.id /\ d.by # e.by
    BY DEF OldTextsAreDropped
  <2>1. e \in entries /\ e.id = ArtifactId(f) /\ rows[f] # NoText
    BY DEF FileFound
  <2>2. Others(f, e.by)
    BY <2>1 DEF OldTextsAreShared
  <2> QED
    BY <1>1, <2>1, <2>2 DEF Others, Writing
<1> QED
  BY <1>2, <1>3

ArtifactCore ==
    ArtifactTypeOK /\ OneRowPerName /\ RowAwaitsEntry /\ EntriesHaveRows /\ OldTextsAreShared

LEMMA CoreSuffices == ArtifactCore <=> ArtifactInv
  BY IndexSearchable DEF ArtifactCore, ArtifactInv

LEMMA ArtifactStart == ArtifactInit => ArtifactCore
<1> SUFFICES ASSUME ArtifactInit PROVE ArtifactCore
  OBVIOUS
<1>1. ArtifactTypeOK
  BY RestFacts DEF ArtifactInit, ArtifactTypeOK, NoText
<1>2. /\ \A f \in ArtifactFiles : rows[f] = NoText
      /\ entries = {}
      /\ \A p \in Indexers : indexing[p].at = "rest"
  BY RestFacts DEF ArtifactInit
<1>3. OneRowPerName
  BY <1>2, ArtifactAssumption DEF OneRowPerName
<1>4. RowAwaitsEntry /\ OldTextsAreShared
  BY <1>2 DEF RowAwaitsEntry, OldTextsAreShared
<1>5. EntriesHaveRows
  BY <1>2 DEF EntriesHaveRows
<1> QED
  BY <1>1, <1>3, <1>4, <1>5 DEF ArtifactCore

\* Process p leaves rows and entries alone and is not, or is no longer, about
\* to write; what it was about to write is cut short or was never to have a row.
LEMMA IndexLeft ==
    ASSUME ArtifactCore, ArtifactTypeOK', NEW p \in Indexers,
           UNCHANGED <<rows, entries>>, cut \subseteq cut',
           \A q \in Indexers \ {p} : indexing'[q] = indexing[q],
           ~Writing(p)', Writing(p) => File(p) \in cut' \/ rows[File(p)] = NoText
    PROVE  ArtifactCore'
<1> USE DEF ArtifactCore
<1>1. OneRowPerName'
  BY DEF OneRowPerName
<1>2. \A q \in Indexers : Writing(q)' => q # p
  OBVIOUS
<1>3. RowAwaitsEntry'
  <2> SUFFICES ASSUME NEW f \in ArtifactFiles, rows[f] # NoText, f \notin cut'
               PROVE  \/ \E e \in entries : e.id = ArtifactId(f) /\ e.text = rows[f]
                      \/ \E q \in Indexers :
                          /\ File(q)' = f
                          /\ \/ indexing'[q].at = "upsert"
                             \/ indexing'[q].at = "insert" /\ indexing'[q].text = rows[f]
    BY DEF RowAwaitsEntry
  <2>1. CASE \E e \in entries : e.id = ArtifactId(f) /\ e.text = rows[f]
    BY <2>1
  <2>2. ASSUME NEW q \in Indexers, File(q) = f,
               \/ indexing[q].at = "upsert"
               \/ indexing[q].at = "insert" /\ indexing[q].text = rows[f]
        PROVE  indexing'[q] = indexing[q]
    BY <2>2 DEF Writing
  <2> QED
    BY <2>1, <2>2 DEF RowAwaitsEntry, File
<1>4. EntriesHaveRows'
  <2>1. \A q \in Indexers : indexing'[q].at \in {"upsert", "insert"} =>
            indexing'[q] = indexing[q]
    BY <1>2 DEF Writing
  <2> QED
    BY <2>1 DEF EntriesHaveRows, File
<1>5. ASSUME NEW f \in ArtifactFiles, NEW q, rows[f] # NoText, f \notin cut', Others(f, q)
      PROVE  Others(f, q)'
  <2>1. ASSUME NEW r \in Indexers \ {q}, File(r) = f, Writing(r)
        PROVE  indexing'[r] = indexing[r]
    BY <1>5, <2>1
  <2> QED
    BY <1>5, <2>1 DEF Others, Writing, File
<1>6. OldTextsAreShared'
  <2>1. \A q \in Indexers : indexing'[q].at = "insert" => indexing'[q] = indexing[q]
    BY <1>2 DEF Writing
  <2> QED
    BY <1>5, <2>1 DEF OldTextsAreShared, File
<1> QED
  BY <1>1, <1>3, <1>4, <1>6

\* SELECT and DELETE.
LEMMA DropSteps ==
    ASSUME ArtifactCore, NEW p \in Indexers, EntriesDropped(p)
    PROVE  ArtifactCore'
<1> USE DEF ArtifactCore
<1> DEFINE g == File(p)
<1>1. /\ UNCHANGED <<texts, rows, database, cut, deaths>> /\ entries' \subseteq entries
      /\ indexing' = [indexing EXCEPT ![p] = [indexing[p] EXCEPT !.at = "upsert"]]
      /\ indexing[p].at = "select" /\ g \in ArtifactFiles
  BY DEF EntriesDropped, Steps, File, ArtifactTypeOK
<1>2. /\ indexing'[p].at = "upsert" /\ File(p)' = g /\ indexing'[p].text = indexing[p].text
      /\ \A q \in Indexers \ {p} : indexing'[q] = indexing[q]
      /\ indexing'[p] \in [file : ArtifactFiles, text : 0..MaxTexts,
                           at : {"rest", "open", "select", "upsert", "insert"}]
  BY <1>1 DEF ArtifactTypeOK, File
<1>3. ArtifactTypeOK'
  BY <1>1, <1>2 DEF ArtifactTypeOK
<1>4. OneRowPerName'
  BY <1>1 DEF OneRowPerName
\* what is dropped belongs to the row of g, which p is about to replace
<1>5. \A e \in entries \ entries' : e.id = ArtifactId(g) /\ rows[g] # NoText
  BY DEF EntriesDropped
<1>6. ASSUME NEW f \in ArtifactFiles, rows[f] # NoText, NEW e \in entries \ entries',
             e.id = ArtifactId(f)
      PROVE  f = g
  BY <1>1, <1>5, <1>6, OnlyRow
<1>7. RowAwaitsEntry'
  <2> SUFFICES ASSUME NEW f \in ArtifactFiles, rows[f] # NoText, f \notin cut
               PROVE  \/ \E e \in entries' : e.id = ArtifactId(f) /\ e.text = rows[f]
                      \/ \E q \in Indexers :
                          /\ File(q)' = f
                          /\ \/ indexing'[q].at = "upsert"
                             \/ indexing'[q].at = "insert" /\ indexing'[q].text = rows[f]
    BY <1>1 DEF RowAwaitsEntry
  <2>1. ASSUME NEW e \in entries, e.id = ArtifactId(f), e.text = rows[f]
        PROVE  e \in entries' \/ (File(p)' = f /\ indexing'[p].at = "upsert")
    BY <1>2, <1>6, <2>1
  <2>2. ASSUME NEW q \in Indexers, indexing[q].at \in {"upsert", "insert"}
        PROVE  indexing'[q] = indexing[q]
    BY <1>1, <1>2, <2>2
  <2> QED
    BY <2>1, <2>2 DEF RowAwaitsEntry, File
<1>8. EntriesHaveRows'
  <2>1. \A e \in entries' : \E f \in ArtifactFiles : ArtifactId(f) = e.id /\ rows'[f] # NoText
    BY <1>1 DEF EntriesHaveRows
  <2>2. ASSUME NEW q \in Indexers
        PROVE  /\ indexing'[q].at = "insert" => rows'[File(q)'] # NoText
               /\ indexing'[q].at \in {"upsert", "insert"} /\ rows'[File(q)'] # NoText =>
                    \A e \in entries' : e.id = ArtifactId(File(q)') => e.by # q
    <3>1. CASE q # p
      BY <1>1, <1>2, <3>1 DEF EntriesHaveRows, File
    <3>2. CASE q = p
      <4>1. rows[g] # NoText => \A e \in entries' : e.id # ArtifactId(g)
        BY DEF EntriesDropped
      <4> QED
        BY <1>1, <1>2, <3>2, <4>1
    <3> QED
      BY <3>1, <3>2
  <2> QED
    BY <2>1, <2>2 DEF EntriesHaveRows
<1>9. ASSUME NEW f \in ArtifactFiles, NEW q, rows[f] # NoText, Others(f, q),
             q = p => \A e \in entries \ entries' : e.id # ArtifactId(f)
      PROVE  Others(f, q)'
  <2>1. PICK r \in Indexers \ {q} :
            \/ File(r) = f /\ indexing[r].at \in {"upsert", "insert"}
            \/ \E d \in entries : d.id = ArtifactId(f) /\ d.by = r
    BY <1>9 DEF Others
  <2>2. CASE File(r) = f /\ indexing[r].at \in {"upsert", "insert"}
    <3>1. indexing'[r] = indexing[r]
      BY <1>1, <1>2, <2>2
    <3> QED
      BY <2>2, <3>1 DEF Others, File
  <2>3. ASSUME NEW d \in entries, d.id = ArtifactId(f), d.by = r
        PROVE  Others(f, q)'
    <3>1. CASE d \in entries'
      BY <2>3, <3>1 DEF Others
    <3>2. CASE d \notin entries'
      <4>1. q # p /\ f = g
        BY <1>6, <1>9, <2>3, <3>2
      <4> QED
        BY <1>2, <4>1 DEF Others
    <3> QED
      BY <3>1, <3>2
  <2> QED
    BY <2>1, <2>2, <2>3
<1>10. OldTextsAreShared'
  <2> SUFFICES ASSUME NEW f \in ArtifactFiles, rows[f] # NoText, f \notin cut
               PROVE  /\ \A e \in entries' :
                            e.id = ArtifactId(f) /\ e.text # rows[f] => Others(f, e.by)'
                      /\ \A q \in Indexers :
                            File(q)' = f /\ indexing'[q].at = "insert"
                            /\ indexing'[q].text # rows[f] => Others(f, q)'
    BY <1>1 DEF OldTextsAreShared
  <2>1. ASSUME NEW e \in entries', e.id = ArtifactId(f), e.text # rows[f]
        PROVE  Others(f, e.by)'
    <3>1. e \in entries /\ Others(f, e.by)
      BY <1>1, <2>1 DEF OldTextsAreShared
    <3>2. \A d \in entries \ entries' : d.id # ArtifactId(f)
      BY <2>1 DEF EntriesDropped
    <3> QED
      BY <1>9, <3>1, <3>2
  <2>2. ASSUME NEW q \in Indexers, File(q)' = f, indexing'[q].at = "insert",
               indexing'[q].text # rows[f]
        PROVE  Others(f, q)'
    <3>1. q # p /\ indexing'[q] = indexing[q]
      BY <1>2, <2>2
    <3>2. Others(f, q)
      BY <2>2, <3>1 DEF OldTextsAreShared, File
    <3> QED
      BY <1>9, <3>1, <3>2
  <2> QED
    BY <2>1, <2>2
<1> QED
  BY <1>3, <1>4, <1>7, <1>8, <1>10

\* The row of a plan or ledger.
LEMMA UpsertSteps ==
    ASSUME ArtifactCore, NEW p \in Indexers, RowUpserted(p)
    PROVE  ArtifactCore'
<1> USE DEF ArtifactCore
<1> DEFINE g == File(p)
<1>1. /\ UNCHANGED <<texts, entries, database, cut, deaths>> /\ ~IdTaken(g)
      /\ rows' = [rows EXCEPT ![g] = indexing[p].text]
      /\ indexing' = [indexing EXCEPT ![p] = [indexing[p] EXCEPT !.at = "insert"]]
      /\ indexing[p].at = "upsert" /\ g \in ArtifactFiles
  BY DEF RowUpserted, Steps, File, ArtifactTypeOK
<1>2. /\ indexing'[p].at = "insert" /\ File(p)' = g /\ indexing'[p].text = indexing[p].text
      /\ \A q \in Indexers \ {p} : indexing'[q] = indexing[q]
      /\ indexing'[p] \in [file : ArtifactFiles, text : 0..MaxTexts,
                           at : {"rest", "open", "select", "upsert", "insert"}]
      /\ indexing[p].text # NoText /\ indexing[p].text \in 0..MaxTexts
  BY <1>1 DEF ArtifactTypeOK, File
<1>3. /\ rows'[g] = indexing[p].text /\ rows'[g] # NoText
      /\ \A f \in ArtifactFiles \ {g} : rows'[f] = rows[f]
      /\ rows' \in [ArtifactFiles -> 0..MaxTexts]
  BY <1>1, <1>2 DEF ArtifactTypeOK
<1>4. ArtifactTypeOK'
  BY <1>1, <1>2, <1>3 DEF ArtifactTypeOK
\* no other file of the id has a row
<1>5. \A f \in ArtifactFiles : ArtifactId(f) = ArtifactId(g) /\ f # g => rows[f] = NoText
  BY <1>1, SameId DEF IdTaken
<1>6. OneRowPerName'
  BY <1>1, <1>3, ArtifactAssumption DEF OneRowPerName, IdTaken
<1>7. RowAwaitsEntry'
  <2> SUFFICES ASSUME NEW f \in ArtifactFiles, rows'[f] # NoText, f \notin cut
               PROVE  \/ \E e \in entries : e.id = ArtifactId(f) /\ e.text = rows'[f]
                      \/ \E q \in Indexers :
                          /\ File(q)' = f
                          /\ \/ indexing'[q].at = "upsert"
                             \/ indexing'[q].at = "insert" /\ indexing'[q].text = rows'[f]
    BY <1>1 DEF RowAwaitsEntry
  <2>1. CASE f = g
    BY <1>2, <1>3, <2>1
  <2>2. CASE f # g
    <3>1. \A q \in Indexers : File(q) = f => indexing'[q] = indexing[q]
      BY <1>2, <2>2
    <3> QED
      BY <1>3, <2>2, <3>1 DEF RowAwaitsEntry, File
  <2> QED
    BY <2>1, <2>2
\* p has no entry of its own for g
<1>8. \A e \in entries : e.id = ArtifactId(g) => e.by # p
  <2>1. CASE rows[g] # NoText
    BY <1>1, <2>1 DEF EntriesHaveRows
  <2>2. CASE rows[g] = NoText
    BY <1>5, <2>2 DEF EntriesHaveRows
  <2> QED
    BY <2>1, <2>2
<1>9. EntriesHaveRows'
  <2>1. \A e \in entries' : \E f \in ArtifactFiles : ArtifactId(f) = e.id /\ rows'[f] # NoText
    BY <1>1, <1>3 DEF EntriesHaveRows
  <2>2. ASSUME NEW q \in Indexers
        PROVE  /\ indexing'[q].at = "insert" => rows'[File(q)'] # NoText
               /\ indexing'[q].at \in {"upsert", "insert"} /\ rows'[File(q)'] # NoText =>
                    \A e \in entries' : e.id = ArtifactId(File(q)') => e.by # q
    <3>1. CASE q = p
      BY <1>1, <1>2, <1>3, <1>8, <3>1
    <3>2. CASE q # p
      <4>1. indexing'[q] = indexing[q] /\ File(q)' = File(q) /\ File(q) \in ArtifactFiles
        BY <1>2, <3>2 DEF File, ArtifactTypeOK
      <4>2. CASE File(q) = g
        <5>1. ASSUME rows[g] = NoText PROVE \A e \in entries : e.id # ArtifactId(g)
          BY <1>5, <5>1 DEF EntriesHaveRows
        <5> QED
          BY <1>1, <1>3, <4>1, <4>2, <5>1 DEF EntriesHaveRows
      <4>3. CASE File(q) # g
        BY <1>1, <1>3, <4>1, <4>3 DEF EntriesHaveRows
      <4> QED
        BY <4>2, <4>3
    <3> QED
      BY <3>1, <3>2
  <2> QED
    BY <2>1, <2>2 DEF EntriesHaveRows
<1>10. \A f \in ArtifactFiles : \A q : Others(f, q) => Others(f, q)'
  <2>1. \A r \in Indexers : Writing(r) => Writing(r)' /\ File(r)' = File(r)
    BY <1>2 DEF Writing, File
  <2> QED
    BY <1>1, <2>1 DEF Others, Writing
<1>11. \A q : q # p => Others(g, q)'
  BY <1>2 DEF Others
<1>12. OldTextsAreShared'
  <2> SUFFICES ASSUME NEW f \in ArtifactFiles, rows'[f] # NoText, f \notin cut
               PROVE  /\ \A e \in entries :
                            e.id = ArtifactId(f) /\ e.text # rows'[f] => Others(f, e.by)'
                      /\ \A q \in Indexers :
                            File(q)' = f /\ indexing'[q].at = "insert"
                            /\ indexing'[q].text # rows'[f] => Others(f, q)'
    BY <1>1 DEF OldTextsAreShared
  <2>1. CASE f = g
    BY <1>2, <1>3, <1>8, <1>11, <2>1
  <2>2. CASE f # g
    <3>1. rows'[f] = rows[f]
      BY <1>3, <2>2
    <3>2. \A q \in Indexers : File(q)' = f => indexing'[q] = indexing[q]
      BY <1>2, <2>2
    <3> QED
      BY <1>10, <3>1, <3>2 DEF OldTextsAreShared, File
  <2> QED
    BY <2>1, <2>2
<1> QED
  BY <1>4, <1>6, <1>7, <1>9, <1>12

\* The full-text entry.
LEMMA InsertSteps ==
    ASSUME ArtifactCore, NEW p \in Indexers, EntryInserted(p)
    PROVE  ArtifactCore'
<1> USE DEF ArtifactCore
<1> DEFINE g == File(p)
           new == [id |-> ArtifactId(g), text |-> indexing[p].text, by |-> p]
<1>1. /\ UNCHANGED <<texts, rows, database, cut, deaths>>
      /\ entries' = entries \cup {new}
      /\ indexing' = [indexing EXCEPT ![p] = IndexerResting]
      /\ indexing[p].at = "insert" /\ g \in ArtifactFiles
      /\ indexing[p].text \in 0..MaxTexts /\ indexing[p].text # NoText
  BY DEF EntryInserted, Rests, File, ArtifactTypeOK
<1>2. /\ indexing'[p] = IndexerResting /\ ~Writing(p)'
      /\ \A q \in Indexers \ {p} : indexing'[q] = indexing[q]
  BY <1>1, RestFacts DEF ArtifactTypeOK, Writing
<1>3. new \in [id : Ids, text : 1..MaxTexts, by : Indexers]
  BY <1>1, RestFacts DEF NoText
<1>4. ArtifactTypeOK'
  BY <1>1, <1>2, <1>3, RestFacts DEF ArtifactTypeOK
<1>5. OneRowPerName'
  BY <1>1 DEF OneRowPerName
<1>6. rows[g] # NoText
  BY <1>1 DEF EntriesHaveRows
<1>7. RowAwaitsEntry'
  <2> SUFFICES ASSUME NEW f \in ArtifactFiles, rows[f] # NoText, f \notin cut
               PROVE  \/ \E e \in entries' : e.id = ArtifactId(f) /\ e.text = rows[f]
                      \/ \E q \in Indexers :
                          /\ File(q)' = f
                          /\ \/ indexing'[q].at = "upsert"
                             \/ indexing'[q].at = "insert" /\ indexing'[q].text = rows[f]
    BY <1>1 DEF RowAwaitsEntry
  <2>1. CASE f = g /\ indexing[p].text = rows[f]
    <3>1. new \in entries'
      BY <1>1
    <3>2. new.id = ArtifactId(f) /\ new.text = rows[f]
      BY <2>1
    <3> QED
      BY <3>1, <3>2
  <2>2. ASSUME NEW q \in Indexers, File(q) = f,
               \/ indexing[q].at = "upsert"
               \/ indexing[q].at = "insert" /\ indexing[q].text = rows[f],
               ~(f = g /\ indexing[p].text = rows[f])
        PROVE  indexing'[q] = indexing[q]
    BY <1>1, <1>2, <2>2
  <2> QED
    BY <1>1, <2>1, <2>2 DEF RowAwaitsEntry, File
<1>8. EntriesHaveRows'
  <2>1. \A e \in entries' : \E f \in ArtifactFiles : ArtifactId(f) = e.id /\ rows'[f] # NoText
    BY <1>1, <1>6 DEF EntriesHaveRows
  <2>2. \A q \in Indexers : indexing'[q].at \in {"upsert", "insert"} =>
            q # p /\ indexing'[q] = indexing[q]
    BY <1>2 DEF Writing
  <2> QED
    BY <1>1, <2>1, <2>2 DEF EntriesHaveRows, File
<1>9. \A f \in ArtifactFiles : \A q : Others(f, q) => Others(f, q)'
  <2> SUFFICES ASSUME NEW f \in ArtifactFiles, NEW q, NEW r \in Indexers \ {q},
                      \/ File(r) = f /\ indexing[r].at \in {"upsert", "insert"}
                      \/ \E d \in entries : d.id = ArtifactId(f) /\ d.by = r
               PROVE  \/ File(r)' = f /\ indexing'[r].at \in {"upsert", "insert"}
                      \/ \E d \in entries' : d.id = ArtifactId(f) /\ d.by = r
    BY DEF Others
  <2>1. CASE \E d \in entries : d.id = ArtifactId(f) /\ d.by = r
    BY <1>1, <2>1
  <2>2. CASE File(r) = f /\ r # p /\ indexing[r].at \in {"upsert", "insert"}
    BY <1>2, <2>2 DEF File
  <2>3. CASE File(r) = f /\ r = p
    <3>1. new \in entries' /\ new.id = ArtifactId(f) /\ new.by = r
      BY <1>1, <2>3
    <3> QED
      BY <3>1
  <2> QED
    BY <2>1, <2>2, <2>3
<1>10. OldTextsAreShared'
  <2>1. \A q \in Indexers : indexing'[q].at = "insert" => indexing'[q] = indexing[q]
    BY <1>2 DEF Writing
  <2>2. ASSUME NEW f \in ArtifactFiles, rows[f] # NoText, f \notin cut,
               NEW e \in entries', e.id = ArtifactId(f), e.text # rows[f]
        PROVE  Others(f, e.by)'
    <3>1. CASE e \in entries
      BY <1>9, <2>2, <3>1 DEF OldTextsAreShared
    <3>2. CASE e = new
      <4>1. f = g
        BY <1>1, <1>6, <2>2, <3>2, OnlyRow
      <4> QED
        BY <1>1, <1>9, <2>2, <3>2, <4>1 DEF OldTextsAreShared
    <3> QED
      BY <1>1, <2>2, <3>1, <3>2
  <2> QED
    BY <1>1, <1>9, <2>1, <2>2 DEF OldTextsAreShared, File
<1> QED
  BY <1>4, <1>5, <1>7, <1>8, <1>10

LEMMA OtherIndexSteps ==
    ASSUME ArtifactCore, NEW p \in Indexers,
           \/ \E f \in ArtifactFiles : FileWritten(p, f)
           \/ IndexOpened(p) \/ IndexRefused(p) \/ RowRefused(p) \/ IndexingCut(p)
    PROVE  ArtifactCore'
<1>1. ArtifactTypeOK /\ MaxTexts \in Nat /\ File(p) \in ArtifactFiles
  BY RestFacts DEF ArtifactCore, ArtifactTypeOK, File
<1>2. ASSUME NEW f \in ArtifactFiles, FileWritten(p, f) PROVE ArtifactCore'
  <2>1. ~Writing(p) /\ ~Writing(p)'
    BY <1>1, <1>2, RestFacts DEF FileWritten, Writing, ArtifactTypeOK
  <2>2. texts[f] + 1 \in 0..MaxTexts /\ texts[f] + 1 # NoText
    BY <1>1, <1>2 DEF FileWritten, ArtifactTypeOK, NoText
  <2>3. ArtifactTypeOK'
    BY <1>1, <1>2, <2>2 DEF FileWritten, ArtifactTypeOK
  <2> QED
    BY <1>1, <1>2, <2>1, <2>3, IndexLeft DEF FileWritten, ArtifactTypeOK
<1>3. CASE IndexOpened(p)
  <2>1. ~Writing(p) /\ ~Writing(p)'
    BY <1>1, <1>3 DEF IndexOpened, Steps, Writing, ArtifactTypeOK
  <2>2. ArtifactTypeOK'
    BY <1>1, <1>3 DEF IndexOpened, Steps, ArtifactTypeOK
  <2> QED
    BY <1>1, <1>3, <2>1, <2>2, IndexLeft DEF IndexOpened, Steps, ArtifactTypeOK
<1>4. CASE IndexRefused(p)
  <2>1. ~Writing(p) /\ ~Writing(p)'
    BY <1>1, <1>4, RestFacts DEF IndexRefused, Rests, Writing, ArtifactTypeOK
  <2>2. ArtifactTypeOK'
    BY <1>1, <1>4, RestFacts DEF IndexRefused, Rests, ArtifactTypeOK
  <2> QED
    BY <1>1, <1>4, <2>1, <2>2, IndexLeft DEF IndexRefused, Rests, ArtifactTypeOK
<1>5. CASE RowRefused(p)
  <2>1. ~Writing(p)'
    BY <1>1, <1>5, RestFacts DEF RowRefused, Rests, Writing, ArtifactTypeOK
  <2>2. rows[File(p)] = NoText
    BY <1>1, <1>5, ArtifactAssumption
       DEF RowRefused, IdTaken, ArtifactCore, OneRowPerName
  <2>3. ArtifactTypeOK'
    BY <1>1, <1>5, RestFacts DEF RowRefused, Rests, ArtifactTypeOK
  <2> QED
    BY <1>1, <1>5, <2>1, <2>2, <2>3, IndexLeft DEF RowRefused, Rests, ArtifactTypeOK
<1>6. CASE IndexingCut(p)
  <2>1. ~Writing(p)' /\ File(p) \in cut'
    BY <1>1, <1>6, RestFacts DEF IndexingCut, Rests, Writing, ArtifactTypeOK
  <2>2. ArtifactTypeOK'
    BY <1>1, <1>6, RestFacts DEF IndexingCut, Rests, ArtifactTypeOK
  <2> QED
    BY <1>1, <1>6, <2>1, <2>2, IndexLeft DEF IndexingCut, Rests, ArtifactTypeOK
<1> QED
  BY <1>2, <1>3, <1>4, <1>5, <1>6

LEMMA ArtifactStays == ArtifactCore /\ [ArtifactNext]_artifactVars => ArtifactCore'
<1> SUFFICES ASSUME ArtifactCore, [ArtifactNext]_artifactVars PROVE ArtifactCore'
  OBVIOUS
<1>1. CASE UNCHANGED artifactVars
  BY <1>1 DEF artifactVars, ArtifactCore, ArtifactTypeOK, OneRowPerName, RowAwaitsEntry,
              EntriesHaveRows, OldTextsAreShared, Others, File
<1>2. CASE ArtifactNext
  BY <1>2, DropSteps, UpsertSteps, InsertSteps, OtherIndexSteps DEF ArtifactNext
<1> QED
  BY <1>1, <1>2

\* What a row says can be searched for once nobody is indexing the file, and a
\* text that was replaced cannot unless two processes shared the file
\* (src/tools/artifact-index/index.ts).
THEOREM IndexKept == ArtifactSpec => []ArtifactInv
  BY ArtifactStart, ArtifactStays, CoreSuffices, PTL DEF ArtifactSpec

-----------------------------------------------------------------------------
(* Context capsules: builds, finds and what is judged fresh.               *)

CallStates == {Waiting} \cup Builds \cup Finds \cup Judgements

\* What the kind of a call says of it.
LEMMA CallKinds ==
    /\ Waiting.kind = "none"
    /\ \A x \in CallStates :
        /\ x.kind \in {"none", "build", "find", "judge"}
        /\ x.kind = "none" => x = Waiting
        /\ x.kind = "build" => x \in Builds
        /\ x.kind = "find" => x \in Finds
        /\ x.kind = "judge" => x \in Judgements
  BY DEF CallStates, Waiting, Builds, Finds, Judgements

\* A disturbed call is as it was but for that.
LEMMA DisturbedCall ==
    ASSUME NEW x \in CallStates, x # Waiting
    PROVE  LET y == [x EXCEPT !.calm = FALSE]
           IN  /\ y \in CallStates /\ y.kind = x.kind /\ y.calm = FALSE
               /\ x.kind = "judge" => y.found = x.found /\ y.git = x.git
<1> DEFINE y == [x EXCEPT !.calm = FALSE]
<1>1. CASE x \in Builds
  <2>1. y \in Builds /\ y.kind = x.kind /\ y.calm = FALSE /\ x.kind = "build"
    BY <1>1 DEF Builds
  <2> QED
    BY <2>1 DEF CallStates
<1>2. CASE x \in Finds
  <2>1. y \in Finds /\ y.kind = x.kind /\ y.calm = FALSE /\ x.kind = "find"
    BY <1>2 DEF Finds
  <2> QED
    BY <2>1 DEF CallStates
<1>3. CASE x \in Judgements
  <2>1. /\ y \in Judgements /\ y.kind = x.kind /\ y.calm = FALSE
        /\ y.found = x.found /\ y.git = x.git
    BY <1>3 DEF Judgements
  <2> QED
    BY <2>1 DEF CallStates
<1> QED
  BY <1>1, <1>2, <1>3 DEF CallStates

\* One call goes on; nothing else of it is disturbed.
LEMMA CallChanges ==
    ASSUME CapsuleInv, NEW c \in CapsuleCalls, NEW x \in CallStates,
           calls' = [calls EXCEPT ![c] = x], UNCHANGED checkout,
           builds' \in 0..MaxBuilds /\ builds' >= builds,
           x.kind = "build" => builds' > 0,
           x.kind \in {"find", "judge"} /\ x.calm => x.git = checkout,
           x.kind = "judge" => x.found.git.branch = x.git.branch
    PROVE  /\ calls' \in [CapsuleCalls -> CallStates]
           /\ \A d \in CapsuleCalls : calls'[d].kind = "build" => builds' > 0
           /\ FindsAreOfBranch'
<1>1. calls \in [CapsuleCalls -> CallStates] /\ builds \in Nat /\ builds' \in Nat
  BY CapsuleAssumption DEF CapsuleInv, CapsuleTypeOK, CallStates
<1>2. /\ calls'[c] = x
      /\ \A d \in CapsuleCalls \ {c} : calls'[d] = calls[d]
      /\ calls' \in [CapsuleCalls -> CallStates]
  BY <1>1
<1>3. \A d \in CapsuleCalls : calls'[d].kind = "build" => builds' > 0
  BY <1>1, <1>2 DEF CapsuleInv, NamesTell
<1>4. FindsAreOfBranch'
  BY <1>2 DEF CapsuleInv, FindsAreOfBranch
<1> QED
  BY <1>2, <1>3, <1>4

LEMMA CapsuleStart == CapsuleInit => CapsuleInv
<1> SUFFICES ASSUME CapsuleInit PROVE CapsuleInv
  OBVIOUS
<1>1. checkout \in Checkouts /\ source \in 1..MaxSourceTexts /\ builds \in 0..MaxBuilds
  BY CapsuleAssumption DEF CapsuleInit, Checkouts
<1>2. CapsuleTypeOK
  BY <1>1 DEF CapsuleInit, CapsuleTypeOK
<1>3. \A c \in CapsuleCalls : calls[c].kind = "none"
  BY CallKinds DEF CapsuleInit
<1> QED
  BY <1>2, <1>3 DEF CapsuleInit, CapsuleInv, NamesTell, FindsAreOfBranch, ReportsAreKept,
                    FreshIsTrue, NoSecretIsKept

LEMMA DisturbedSteps == CapsuleInv /\ (SourceEdited \/ CheckoutMoves) => CapsuleInv'
<1> SUFFICES ASSUME CapsuleInv, SourceEdited \/ CheckoutMoves PROVE CapsuleInv'
  OBVIOUS
<1>1. /\ calls' = Disturbed /\ UNCHANGED <<capsules, reported, verdicts, builds>>
      /\ calls \in [CapsuleCalls -> CallStates]
  BY DEF SourceEdited, CheckoutMoves, CapsuleInv, CapsuleTypeOK, CallStates
<1>2. checkout' \in Checkouts /\ source' \in 1..MaxSourceTexts
  <2>1. CASE SourceEdited
    BY <2>1, CapsuleAssumption DEF SourceEdited, CapsuleInv, CapsuleTypeOK
  <2>2. CASE CheckoutMoves
    BY <2>2, CapsuleAssumption DEF CheckoutMoves, CapsuleInv, CapsuleTypeOK, Checkouts
  <2> QED
    BY <2>1, <2>2
<1>3. \A c \in CapsuleCalls :
        /\ calls'[c] \in CallStates /\ calls'[c].kind = calls[c].kind
        /\ calls'[c].kind \in {"find", "judge"} => calls'[c].calm = FALSE
        /\ calls[c].kind = "judge" => /\ calls'[c].found = calls[c].found
                                      /\ calls'[c].git = calls[c].git
  <2> SUFFICES ASSUME NEW c \in CapsuleCalls
               PROVE  /\ calls'[c] \in CallStates /\ calls'[c].kind = calls[c].kind
                      /\ calls'[c].kind \in {"find", "judge"} => calls'[c].calm = FALSE
                      /\ calls[c].kind = "judge" => /\ calls'[c].found = calls[c].found
                                                    /\ calls'[c].git = calls[c].git
    OBVIOUS
  <2>1. calls[c] \in CallStates
    BY <1>1
  <2>2. CASE calls[c] = Waiting
    <3>1. calls'[c] = Waiting
      BY <1>1, <2>2 DEF Disturbed
    <3> QED
      BY <2>2, <3>1, CallKinds DEF CallStates
  <2>3. CASE calls[c] # Waiting
    <3>1. calls'[c] = [calls[c] EXCEPT !.calm = FALSE]
      BY <1>1, <2>3 DEF Disturbed
    <3> QED
      BY <2>1, <2>3, <3>1, DisturbedCall
  <2> QED
    BY <2>2, <2>3
<1>4. CapsuleTypeOK'
  <2>1. calls' = [c \in CapsuleCalls |-> calls'[c]]
    BY <1>1 DEF Disturbed
  <2>2. calls' \in [CapsuleCalls -> CallStates]
    BY <1>3, <2>1
  <2> QED
    BY <1>1, <1>2, <2>2 DEF CapsuleInv, CapsuleTypeOK, CallStates
<1>5. NamesTell'
  BY <1>1, <1>3 DEF CapsuleInv, NamesTell, Token
<1>6. FindsAreOfBranch'
  BY <1>3 DEF CapsuleInv, FindsAreOfBranch
<1> QED
  BY <1>1, <1>4, <1>5, <1>6
     DEF CapsuleInv, ReportsAreKept, FreshIsTrue, NoSecretIsKept

\* Steps that only change what a call is about.
LEMMA CallSteps ==
    ASSUME CapsuleInv, NEW c \in CapsuleCalls, NEW x \in CallStates,
           calls' = [calls EXCEPT ![c] = x],
           UNCHANGED <<checkout, source, capsules, reported, verdicts>>,
           builds' \in 0..MaxBuilds /\ builds' >= builds,
           x.kind = "build" => builds' > 0,
           x.kind \in {"find", "judge"} /\ x.calm => x.git = checkout,
           x.kind = "judge" => x.found.git.branch = x.git.branch
    PROVE  CapsuleInv'
<1>1. /\ calls' \in [CapsuleCalls -> CallStates]
      /\ \A d \in CapsuleCalls : calls'[d].kind = "build" => builds' > 0
      /\ FindsAreOfBranch'
  BY CallChanges
<1>2. CapsuleTypeOK'
  BY <1>1 DEF CapsuleInv, CapsuleTypeOK, CallStates
<1>3. NamesTell'
  BY <1>1 DEF CapsuleInv, NamesTell, Token
<1> QED
  BY <1>1, <1>2, <1>3 DEF CapsuleInv, ReportsAreKept, FreshIsTrue, NoSecretIsKept

LEMMA AskSteps ==
    ASSUME CapsuleInv, NEW c \in CapsuleCalls, NEW a \in Anchors, NEW i \in Topics,
           \/ \E facts \in {{x} : x \in Facts} : BuildAsked(c, a, i, facts)
           \/ FindAsked(c, a, i)
    PROVE  CapsuleInv'
<1>0. checkout \in Checkouts /\ source \in 1..MaxSourceTexts /\ builds \in 0..MaxBuilds
  BY DEF CapsuleInv, CapsuleTypeOK
<1>1. ASSUME NEW f \in Facts, BuildAsked(c, a, i, {f}) PROVE CapsuleInv'
  <2>1. PICK seen \in 1..source :
          calls' = [calls EXCEPT ![c] =
            [kind |-> "build", anchor |-> a, issue |-> i, facts |-> {f}, seen |-> seen,
             git |-> checkout, calm |-> TRUE]]
    BY <1>1 DEF BuildAsked
  <2> DEFINE x == [kind |-> "build", anchor |-> a, issue |-> i, facts |-> {f}, seen |-> seen,
                   git |-> checkout, calm |-> TRUE]
  <2>2. seen \in 1..MaxSourceTexts
    BY <1>0, CapsuleAssumption
  <2>3. x \in CallStates /\ x.kind = "build"
    BY <1>0, <2>2 DEF CallStates, Builds
  <2>4. /\ UNCHANGED <<checkout, source, capsules, reported, verdicts>>
        /\ builds' \in 0..MaxBuilds /\ builds' >= builds /\ builds' > 0
    BY <1>0, <1>1, CapsuleAssumption DEF BuildAsked
  <2> HIDE DEF x
  <2>5. calls' = [calls EXCEPT ![c] = x]
    BY <2>1 DEF x
  <2> QED
    BY <2>3, <2>4, <2>5, CallSteps
<1>2. CASE FindAsked(c, a, i)
  <2> DEFINE x == [kind |-> "find", anchor |-> a, issue |-> i, git |-> checkout, calm |-> TRUE]
  <2>1. x \in CallStates /\ x.kind = "find" /\ x.git = checkout
    BY <1>0 DEF CallStates, Finds
  <2>2. calls' = [calls EXCEPT ![c] = x]
    BY <1>2 DEF FindAsked
  <2>3. UNCHANGED <<checkout, source, capsules, reported, verdicts, builds>> /\ builds >= builds
    BY <1>0, <1>2, CapsuleAssumption DEF FindAsked
  <2> HIDE DEF x
  <2> QED
    BY <1>0, <2>1, <2>2, <2>3, CallSteps
<1> QED
  BY <1>1, <1>2

LEMMA BuildEnds ==
    ASSUME CapsuleInv, NEW c \in CapsuleCalls, Built(c) \/ BuildBlocked(c)
    PROVE  CapsuleInv'
<1> DEFINE x == calls[c]
<1>1. /\ x \in Builds /\ builds \in 1..MaxBuilds /\ UNCHANGED <<checkout, source, verdicts, builds>>
      /\ calls' = [calls EXCEPT ![c] = Waiting]
  <2>1. /\ calls[c] \in CallStates /\ calls[c].kind = "build" /\ builds > 0
        /\ builds \in 0..MaxBuilds
    BY DEF Built, BuildBlocked, CapsuleInv, CapsuleTypeOK, CallStates, NamesTell
  <2>2. calls[c] \in Builds
    BY <2>1, CallKinds
  <2> QED
    BY <2>1, <2>2, CapsuleAssumption DEF Built, BuildBlocked
<1>2. Waiting \in CallStates /\ Waiting.kind = "none"
  BY CallKinds DEF CallStates
<1>3. builds >= builds /\ builds \in 0..MaxBuilds
  BY <1>1, CapsuleAssumption
<1>4. CASE BuildBlocked(c)
  BY <1>1, <1>2, <1>3, <1>4, CallSteps DEF BuildBlocked
<1>5. CASE Built(c)
  <2>1. /\ calls' \in [CapsuleCalls -> CallStates]
        /\ \A d \in CapsuleCalls : calls'[d].kind = "build" => builds' > 0
        /\ FindsAreOfBranch'
    BY <1>1, <1>2, <1>3, CallChanges
  <2> DEFINE new == Capsule(c)
  <2>2. /\ new \in Capsules /\ new.token = Token(x) /\ Token(new) = Token(x)
        /\ new.git = x.git /\ new.seen = x.seen /\ new.facts = x.facts
    BY <1>1 DEF Capsule, Capsules, Token, Builds
  <2>3. /\ capsules' = IF Exists(Token(x)) THEN capsules ELSE capsules \cup {new}
        /\ reported' = reported \cup {[token |-> Token(x), seen |-> x.seen, git |-> x.git]}
        /\ x.facts \cap SecretFacts = {}
    BY <1>5 DEF Built, IsSafe
  <2> HIDE DEF new
  <2>4. capsules \subseteq capsules' /\ capsules' \subseteq capsules \cup {new}
    BY <2>3
  <2>5. CapsuleTypeOK'
    BY <1>1, <2>1, <2>2, <2>4 DEF CapsuleInv, CapsuleTypeOK, CallStates
  <2>6. NamesTell'
    BY <2>1, <2>2, <2>4 DEF CapsuleInv, NamesTell, Token
  <2>7. ReportsAreKept'
    <3>1. \E k \in capsules' : k.token = Token(x) /\ k.git = x.git /\ k.seen = x.seen
      <4>1. CASE Exists(Token(x))
        <5>1. PICK k \in capsules : k.token = Token(x)
          BY <4>1 DEF Exists
        <5>2. Token(k) = Token(x)
          BY <5>1 DEF CapsuleInv, NamesTell
        <5>3. k.git = x.git /\ k.seen = x.seen
          BY <5>2 DEF Token
        <5> QED
          BY <2>4, <5>1, <5>3
      <4>2. CASE ~Exists(Token(x))
        BY <2>2, <2>3, <4>2
      <4> QED
        BY <4>1, <4>2
    <3> SUFFICES ASSUME NEW r \in reported'
                 PROVE  \E k \in capsules' :
                            k.token = r.token /\ k.git = r.git /\ k.seen = r.seen
      BY DEF ReportsAreKept
    <3>2. CASE r \in reported
      BY <2>4, <3>2 DEF CapsuleInv, ReportsAreKept
    <3>3. CASE r = [token |-> Token(x), seen |-> x.seen, git |-> x.git]
      BY <3>1, <3>3
    <3> QED
      BY <2>3, <3>2, <3>3
  <2>8. FreshIsTrue'
    BY <1>1 DEF CapsuleInv, FreshIsTrue
  <2>9. NoSecretIsKept'
    BY <2>2, <2>3, <2>4 DEF CapsuleInv, NoSecretIsKept
  <2> QED
    BY <2>1, <2>5, <2>6, <2>7, <2>8, <2>9 DEF CapsuleInv
<1> QED
  BY <1>4, <1>5

\* What a find chooses from is of its branch.
LEMMA ReusableKinds ==
    ASSUME CapsuleInv, NEW f, NEW k \in Newest(Reusable(f))
    PROVE  k \in Capsules /\ k.git.branch = f.git.branch
  BY DEF Newest, Reusable, OfIssue, OfConversation, CapsuleInv, CapsuleTypeOK

LEMMA FindEnds ==
    ASSUME CapsuleInv, NEW c \in CapsuleCalls, Picked(c)
    PROVE  CapsuleInv'
<1>1. /\ calls[c] \in CallStates /\ calls[c].kind = "find" /\ builds \in 0..MaxBuilds
      /\ UNCHANGED <<checkout, source, capsules, reported, verdicts, builds>>
      /\ builds >= builds
  BY CapsuleAssumption DEF Picked, CapsuleInv, CapsuleTypeOK, CallStates
<1>2. calls[c] \in Finds /\ (calls[c].calm => calls[c].git = checkout)
  BY <1>1, CallKinds DEF CapsuleInv, FindsAreOfBranch
<1>3. CASE calls' = [calls EXCEPT ![c] = Waiting]
  <2>1. Waiting \in CallStates /\ Waiting.kind = "none"
    BY CallKinds DEF CallStates
  <2> QED
    BY <1>1, <1>3, <2>1, CallSteps
<1>4. ASSUME NEW k \in Newest(Reusable(calls[c])),
             calls' = [calls EXCEPT ![c] =
                [kind |-> "judge", found |-> k,
                 anchor |-> calls[c].anchor, issue |-> calls[c].issue,
                 git |-> calls[c].git, calm |-> calls[c].calm]]
      PROVE  CapsuleInv'
  <2> DEFINE x == [kind |-> "judge", found |-> k,
                 anchor |-> calls[c].anchor, issue |-> calls[c].issue,
                 git |-> calls[c].git, calm |-> calls[c].calm]
  <2>1. k \in Capsules /\ k.git.branch = calls[c].git.branch
    BY ReusableKinds
  <2>2. x \in Judgements /\ x.kind = "judge"
    BY <1>2, <2>1 DEF Judgements, Finds
  <2>3. x.git = calls[c].git /\ x.found = k /\ x.calm = calls[c].calm
    OBVIOUS
  <2>4. calls' = [calls EXCEPT ![c] = x]
    BY <1>4
  <2> HIDE DEF x
  <2>5. x \in CallStates
    BY <2>2 DEF CallStates
  <2> QED
    BY <1>1, <1>2, <2>1, <2>2, <2>3, <2>4, <2>5, CallSteps
<1> QED
  BY <1>3, <1>4 DEF Picked

LEMMA JudgeEnds ==
    ASSUME CapsuleInv, NEW c \in CapsuleCalls, Judged(c)
    PROVE  CapsuleInv'
<1>1. /\ calls[c] \in CallStates /\ calls[c].kind = "judge" /\ builds \in 0..MaxBuilds
      /\ UNCHANGED <<checkout, source, capsules, reported, builds>>
      /\ builds >= builds /\ calls' = [calls EXCEPT ![c] = Waiting]
  BY CapsuleAssumption DEF Judged, CapsuleInv, CapsuleTypeOK, CallStates
<1>2. Waiting \in CallStates /\ Waiting.kind = "none"
  BY CallKinds DEF CallStates
<1>3. /\ calls' \in [CapsuleCalls -> CallStates]
      /\ \A d \in CapsuleCalls : calls'[d].kind = "build" => builds' > 0
      /\ FindsAreOfBranch'
  BY <1>1, <1>2, CallChanges
<1>4. FreshIsTrue'
  <2> SUFFICES ASSUME Freshness(calls[c]) = "fresh", calls[c].calm
               PROVE  /\ calls[c].found.git = checkout /\ calls[c].found.seen = source
                      /\ calls[c].found.issue = calls[c].issue
    BY <1>1 DEF Judged, FreshIsTrue
  <2>1. calls[c] \in Judgements /\ calls[c].git = checkout
    BY <1>1, CallKinds DEF CapsuleInv, FindsAreOfBranch
  <2>2. ~Discarded(calls[c]) /\ ~Stale(calls[c])
    BY DEF Freshness
  <2>3. /\ calls[c].found.git.head = checkout.head /\ calls[c].found.seen = source
        /\ calls[c].found.issue = calls[c].issue
    BY <2>1, <2>2 DEF Discarded, Stale
  <2>4. calls[c].found.git.branch = checkout.branch
    BY <1>1, <2>1 DEF CapsuleInv, FindsAreOfBranch
  <2>5. calls[c].found.git \in Checkouts /\ checkout \in Checkouts
    BY <2>1 DEF Judgements, Capsules, CapsuleInv, CapsuleTypeOK
  <2>6. calls[c].found.git = checkout
    BY <2>3, <2>4, <2>5 DEF Checkouts
  <2> QED
    BY <2>3, <2>6
<1>5. CapsuleTypeOK'
  BY <1>1, <1>3 DEF CapsuleInv, CapsuleTypeOK, CallStates
<1>6. NamesTell'
  BY <1>1, <1>3 DEF CapsuleInv, NamesTell, Token
<1> QED
  BY <1>1, <1>3, <1>4, <1>5, <1>6 DEF CapsuleInv, ReportsAreKept, NoSecretIsKept

LEMMA CapsuleStep == CapsuleInv /\ [CapsuleNext]_capsuleVars => CapsuleInv'
<1> SUFFICES ASSUME CapsuleInv, [CapsuleNext]_capsuleVars PROVE CapsuleInv'
  OBVIOUS
<1>1. CASE SourceEdited \/ CheckoutMoves
  BY <1>1, DisturbedSteps
<1>2. ASSUME NEW c \in CapsuleCalls, NEW a \in Anchors, NEW i \in CapsuleIssues \cup {NoIssue},
             \/ \E facts \in {{x} : x \in Facts} : BuildAsked(c, a, i, facts)
             \/ FindAsked(c, a, i)
      PROVE  CapsuleInv'
  BY <1>2, AskSteps DEF Topics
<1>3. ASSUME NEW c \in CapsuleCalls, Built(c) \/ BuildBlocked(c) \/ Picked(c) \/ Judged(c)
      PROVE  CapsuleInv'
  BY <1>3, BuildEnds, FindEnds, JudgeEnds
<1>4. CASE UNCHANGED capsuleVars
  BY <1>4 DEF capsuleVars, CapsuleInv, CapsuleTypeOK, NamesTell, Token, FindsAreOfBranch,
              ReportsAreKept, FreshIsTrue, NoSecretIsKept
<1> QED
  BY <1>1, <1>2, <1>3, <1>4 DEF CapsuleNext

\* What a build reported is on disk, a find that says fresh and was not
\* disturbed is of the checkout and the sources as they are, and no capsule
\* holds a secret (src/agents/context-capsule/store.ts, freshness.ts).
THEOREM CapsulesKept == CapsuleSpec => []CapsuleInv
  BY CapsuleStart, CapsuleStep, PTL DEF CapsuleSpec

-----------------------------------------------------------------------------
(* The Atlas vault: cold inits and refreshes.                              *)

VaultCore == VaultTypeOK /\ InitsInTurn /\ RefreshesInTurn

\* What the three properties need of a state.
LEMMA VaultCoreSuffices == VaultCore => VaultInv
<1> SUFFICES ASSUME VaultCore PROVE VaultInv
  OBVIOUS
<1>1. StagedIsThere
  BY DEF VaultCore, InitsInTurn, StagedIsThere, Initialising, PagesFit
<1>2. OneRefresh
  BY DEF VaultCore, RefreshesInTurn, OneRefresh, Holding, Refreshing
<1>3. VaultIsWhole
  <2> SUFFICES ASSUME ~crossed
               PROVE  /\ marked => page = Planned
                      /\ \/ brokenOff
                         \/ \E r \in VaultRuns : vaultRun[r].at = "committing"
                         \/ page \in {{}, Planned}
    BY VaultAssumption DEF VaultIsWhole, Summarised, LookedUp, Planned
  <2>1. CASE Initialising = {}
    BY <2>1 DEF VaultCore, InitsInTurn
  <2>2. ASSUME NEW r \in Initialising
        PROVE  /\ ~marked
               /\ vaultRun[r].at = "committing" \/ page \in {{}, Planned}
    <3>1. PagesFit(r) /\ vaultRun[r].at \in InitSteps
      BY DEF VaultCore, InitsInTurn, Initialising
    <3> QED
      BY <3>1 DEF PagesFit, InitSteps
  <2> QED
    BY <2>1, <2>2 DEF Initialising
<1> QED
  BY <1>1, <1>2, <1>3 DEF VaultCore, VaultInv

LEMMA RunFacts ==
    /\ VaultAtRest \in RunStates /\ VaultAtRest.at = "idle"
    /\ \A left \in SUBSET VaultPages, at \in InitSteps \cup {"idle", "locking", "logging"} :
          [at |-> at, left |-> left] \in RunStates
    /\ \A v \in RunStates : \A at \in InitSteps \cup {"idle", "locking", "logging"} :
          [v EXCEPT !.at = at] \in RunStates /\ [v EXCEPT !.at = at].at = at
    /\ \A v \in RunStates : \A left \in SUBSET VaultPages :
          /\ [v EXCEPT !.left = left] \in RunStates
          /\ [v EXCEPT !.left = left].left = left /\ [v EXCEPT !.left = left].at = v.at
    /\ Unheld \in [by : VaultRuns \cup {NoRun}, stale : BOOLEAN]
    /\ InitSteps = {"discovering", "asking", "making", "staging", "committing", "marking"}
  BY DEF VaultAtRest, Unheld, InitSteps, RunStates

\* One run goes to another state.
LEMMA RunChanges ==
    ASSUME vaultRun \in [VaultRuns -> RunStates], NEW r \in VaultRuns, NEW v \in RunStates,
           vaultRun' = [vaultRun EXCEPT ![r] = v]
    PROVE  /\ vaultRun' \in [VaultRuns -> RunStates] /\ vaultRun'[r] = v
           /\ \A s \in VaultRuns \ {r} : vaultRun'[s] = vaultRun[s]
  OBVIOUS

LEMMA InitRunSteps ==
    ASSUME vaultRun \in [VaultRuns -> RunStates], NEW r \in VaultRuns,
           NEW at \in InitSteps \cup {"idle", "locking", "logging"}, At(r, at)
    PROVE  /\ vaultRun' \in [VaultRuns -> RunStates] /\ vaultRun'[r].at = at
           /\ \A s \in VaultRuns \ {r} : vaultRun'[s] = vaultRun[s]
<1>1. vaultRun' = [vaultRun EXCEPT ![r] = [vaultRun[r] EXCEPT !.at = at]]
  BY DEF At
<1>3. vaultRun[r] \in RunStates
  OBVIOUS
<1>2. [vaultRun[r] EXCEPT !.at = at] \in RunStates /\ [vaultRun[r] EXCEPT !.at = at].at = at
  BY <1>3 DEF RunStates
<1> QED
  BY <1>1, <1>2, RunChanges

\* A step of an init, of which there is no other, that fits its next step.
LEMMA InitGoesOn ==
    ASSUME VaultCore, NEW r \in Initialising,
           VaultTypeOK',
           \A s \in VaultRuns \ {r} : vaultRun'[s] = vaultRun[s],
           vaultRun'[r].at \in InitSteps \cup {"idle"},
           crossed' = crossed, contested' = contested, writeLock' = writeLock,
           ~crossed => PagesFit(r)',
           (~crossed /\ vaultRun'[r].at = "idle") =>
                /\ marked' => page' = Planned
                /\ brokenOff' \/ page' \in {{}, Planned}
    PROVE  VaultCore'
<1>1. r \in VaultRuns /\ vaultRun[r].at \in InitSteps
  BY DEF Initialising
<1>2. InitsInTurn'
  <2> SUFFICES ASSUME ~crossed
               PROVE  /\ \A q, s \in Initialising' : q = s
                      /\ \A s \in VaultRuns : PagesFit(s)'
                      /\ Initialising' = {} =>
                          /\ marked' => page' = Planned
                          /\ brokenOff' \/ page' \in {{}, Planned}
    BY DEF InitsInTurn
  <2>1. \A s \in VaultRuns \ {r} : vaultRun'[s].at \notin InitSteps
    BY DEF VaultCore, InitsInTurn, Initialising
  <2>2. \A q, s \in Initialising' : q = s
    BY <2>1 DEF Initialising
  <2>3. \A s \in VaultRuns \ {r} : PagesFit(s)'
    BY <2>1 DEF PagesFit, InitSteps
  <2>4. Initialising' = {} => vaultRun'[r].at = "idle"
    BY <1>1 DEF Initialising
  <2> QED
    BY <2>2, <2>3, <2>4
<1>3. RefreshesInTurn'
  <2>1. /\ vaultRun[r].at \notin {"locking", "logging"}
        /\ vaultRun'[r].at \notin {"locking", "logging"}
    BY <1>1 DEF InitSteps
  <2> QED
    BY <2>1 DEF VaultCore, RefreshesInTurn, Refreshing, Holding
<1> QED
  BY <1>2, <1>3 DEF VaultCore

\* A step of a refresh, which moves no page.
LEMMA RefreshGoesOn ==
    ASSUME VaultCore, NEW r \in VaultRuns \ Initialising,
           VaultTypeOK',
           \A s \in VaultRuns \ {r} : vaultRun'[s] = vaultRun[s],
           vaultRun'[r].at \notin InitSteps,
           UNCHANGED <<page, marked, staged, crossed, brokenOff>>
    PROVE  InitsInTurn'
<1>1. Initialising' = Initialising
  BY DEF Initialising
<1>2. ASSUME ~crossed, NEW s \in VaultRuns PROVE PagesFit(s)'
  <2>1. PagesFit(s)
    BY <1>2 DEF VaultCore, InitsInTurn
  <2>2. CASE s = r
    BY <2>2 DEF PagesFit, InitSteps
  <2>3. CASE s # r
    BY <2>1, <2>3 DEF PagesFit
  <2> QED
    BY <2>2, <2>3
<1> QED
  BY <1>1, <1>2 DEF VaultCore, InitsInTurn

LEMMA VaultStart == VaultInit => VaultCore
<1> SUFFICES ASSUME VaultInit PROVE VaultCore
  OBVIOUS
<1>1. VaultTypeOK
  <2>1. begun \in [init : 0..MaxInits, refresh : 0..MaxRefreshes]
    BY VaultAssumption DEF VaultInit
  <2> QED
    BY <2>1, RunFacts DEF VaultInit, VaultTypeOK
<1>2. \A r \in VaultRuns : vaultRun[r].at = "idle"
  BY RunFacts DEF VaultInit
<1>3. InitsInTurn
  BY <1>2, RunFacts DEF VaultInit, InitsInTurn, Initialising, PagesFit, InitSteps
<1>4. RefreshesInTurn
  BY <1>2 DEF RefreshesInTurn, Refreshing, Holding
<1> QED
  BY <1>1, <1>3, <1>4 DEF VaultCore

\* An init that begins finds no other under way, or crosses it.
LEMMA InitBeginsStep ==
    ASSUME VaultCore, NEW r \in VaultRuns, NEW rebuild \in BOOLEAN, InitBegins(r, rebuild)
    PROVE  VaultCore'
<1>1. /\ vaultRun[r].at = "idle" /\ vaultRun'[r].at = "discovering"
      /\ \A s \in VaultRuns \ {r} : vaultRun'[s] = vaultRun[s]
  BY DEF InitBegins, At, VaultCore, VaultTypeOK
<1>2. VaultTypeOK'
  <2>1. begun' \in [init : 0..MaxInits, refresh : 0..MaxRefreshes]
    BY VaultAssumption DEF InitBegins, VaultCore, VaultTypeOK
  <2>2. vaultRun' \in [VaultRuns -> RunStates]
    BY InitRunSteps, RunFacts DEF InitBegins, VaultCore, VaultTypeOK
  <2>3. crossed' \in BOOLEAN /\ contested' \in BOOLEAN
    BY Zenon DEF InitBegins
  <2> QED
    BY <2>1, <2>2, <2>3, RunFacts DEF InitBegins, VaultCore, VaultTypeOK
<1>3. InitsInTurn'
  <2> SUFFICES ASSUME ~crossed'
               PROVE  /\ \A q, s \in Initialising' : q = s
                      /\ \A s \in VaultRuns : PagesFit(s)'
                      /\ r \in Initialising'
    BY DEF InitsInTurn
  <2>1. Initialising = {}
    BY Zenon DEF InitBegins
  <2>2. \A s \in VaultRuns \ {r} : vaultRun'[s].at \notin InitSteps
    BY <1>1, <2>1 DEF Initialising
  <2>3. \A s \in VaultRuns \ {r} : PagesFit(s)'
    BY <2>2 DEF PagesFit, InitSteps
  <2>4. PagesFit(r)'
    BY <1>1 DEF InitBegins, PagesFit
  <2> QED
    BY <1>1, <2>2, <2>3, <2>4 DEF Initialising, InitSteps
<1>4. RefreshesInTurn'
  <2> SUFFICES ASSUME ~contested'
               PROVE  /\ \A q, s \in Refreshing' : q = s
                      /\ Holding' = {}
    BY DEF RefreshesInTurn
  <2>1. ~contested /\ Holding = {}
    BY Zenon DEF InitBegins
  <2> QED
    BY <1>1, <2>1 DEF VaultCore, RefreshesInTurn, Refreshing, Holding
<1> QED
  BY <1>2, <1>3, <1>4 DEF VaultCore

LEMMA InitSteppings ==
    ASSUME VaultCore, NEW r \in VaultRuns,
           ProjectDiscovered(r) \/ Answered(r) \/ DirsMade(r)
    PROVE  VaultCore'
<1>1. /\ vaultRun[r].at \in {"discovering", "asking", "making"} /\ r \in Initialising
      /\ UNCHANGED <<page, marked, staged, writeLock, begun, brokenOff, crossed, contested>>
      /\ rooted' \in BOOLEAN
      /\ vaultRun \in [VaultRuns -> RunStates]
  BY DEF VaultCore, VaultTypeOK, ProjectDiscovered, Answered, DirsMade, vaultFiles,
         Initialising, InitSteps
<1>2. /\ vaultRun' \in [VaultRuns -> RunStates]
      /\ \A s \in VaultRuns \ {r} : vaultRun'[s] = vaultRun[s]
      /\ \/ vaultRun'[r].at \in {"asking", "making"}
         \/ vaultRun'[r].at = "staging" /\ vaultRun'[r].left = Planned
  <2>1. CASE ProjectDiscovered(r)
    BY <1>1, <2>1, InitRunSteps, RunFacts DEF ProjectDiscovered
  <2>2. CASE Answered(r)
    BY <1>1, <2>2, InitRunSteps, RunFacts DEF Answered
  <2>3. CASE DirsMade(r)
    <3> DEFINE v == [at |-> "staging", left |-> Planned]
    <3>1. v \in RunStates /\ v.at = "staging" /\ v.left = Planned
      BY RunFacts DEF Planned
    <3>2. vaultRun' = [vaultRun EXCEPT ![r] = v]
      BY <2>3 DEF DirsMade
    <3> HIDE DEF v
    <3> QED
      BY <1>1, <3>1, <3>2, RunChanges
  <2> QED
    BY <2>1, <2>2, <2>3
<1>3. VaultTypeOK'
  BY <1>1, <1>2 DEF VaultCore, VaultTypeOK
<1>4. ~crossed => PagesFit(r)'
  <2> SUFFICES ASSUME ~crossed PROVE PagesFit(r)'
    OBVIOUS
  <2>1. ~marked /\ page = {} /\ staged[r] = {}
    BY <1>1 DEF VaultCore, InitsInTurn, PagesFit, InitSteps
  <2> QED
    BY <1>1, <1>2, <2>1 DEF PagesFit
<1>5. vaultRun'[r].at \in InitSteps \cup {"idle"} /\ vaultRun'[r].at # "idle"
  BY <1>2 DEF InitSteps
<1> QED
  BY <1>1, <1>2, <1>3, <1>4, <1>5, InitGoesOn

LEMMA PageStagedStep ==
    ASSUME VaultCore, NEW r \in VaultRuns, NEW n \in VaultPages, PageStaged(r, n)
    PROVE  VaultCore'
<1> DEFINE left == vaultRun[r].left
<1>1. /\ vaultRun[r].at = "staging" /\ r \in Initialising
      /\ n \in left /\ left \subseteq VaultPages
      /\ UNCHANGED <<page, marked, writeLock, begun, brokenOff, crossed, contested>>
      /\ rooted' \in BOOLEAN
      /\ staged' \in [VaultRuns -> SUBSET VaultPages]
      /\ staged'[r] = staged[r] \cup {n}
      /\ vaultRun \in [VaultRuns -> RunStates] /\ vaultRun[r] \in RunStates
  BY DEF VaultCore, VaultTypeOK, PageStaged, Initialising, InitSteps, RunStates
<1> DEFINE v == IF left = {n} THEN [at |-> "committing", left |-> Planned]
                ELSE [at |-> "staging", left |-> left \ {n}]
<1>2. /\ v \in RunStates
      /\ left = {n} => v.at = "committing" /\ v.left = Planned
      /\ left # {n} => v.at = "staging" /\ v.left = left \ {n}
  <2>1. CASE left = {n}
    BY <2>1 DEF RunStates, InitSteps, Planned
  <2>2. CASE left # {n}
    BY <1>1, <2>2 DEF RunStates, InitSteps
  <2> QED
    BY <2>1, <2>2
<1>3. vaultRun' = [vaultRun EXCEPT ![r] = v]
  BY DEF PageStaged
<1> HIDE DEF v
<1>7. /\ vaultRun' \in [VaultRuns -> RunStates] /\ vaultRun'[r] = v
      /\ \A s \in VaultRuns \ {r} : vaultRun'[s] = vaultRun[s]
  BY <1>1, <1>2, <1>3, RunChanges
<1>4. VaultTypeOK'
  BY <1>1, <1>7 DEF VaultCore, VaultTypeOK
<1>5. ~crossed => PagesFit(r)'
  <2> SUFFICES ASSUME ~crossed PROVE PagesFit(r)'
    OBVIOUS
  <2>1. ~marked /\ page = {} /\ staged[r] = Planned \ left
    BY <1>1 DEF VaultCore, InitsInTurn, PagesFit, InitSteps
  <2>2. CASE left = {n}
    <3>1. vaultRun'[r].at = "committing" /\ vaultRun'[r].left = Planned
      BY <1>2, <1>7, <2>2
    <3>2. staged'[r] = Planned /\ page' = Planned \ Planned
      BY <1>1, <2>1, <2>2 DEF Planned
    <3> QED
      BY <1>1, <2>1, <3>1, <3>2 DEF PagesFit
  <2>3. CASE left # {n}
    <3>1. vaultRun'[r].at = "staging" /\ vaultRun'[r].left = left \ {n}
      BY <1>2, <1>7, <2>3
    <3>2. staged'[r] = Planned \ (left \ {n})
      BY <1>1, <2>1 DEF Planned
    <3> QED
      BY <1>1, <2>1, <3>1, <3>2 DEF PagesFit
  <2> QED
    BY <2>2, <2>3
<1>6. vaultRun'[r].at \in InitSteps \cup {"idle"} /\ vaultRun'[r].at # "idle"
  BY <1>2, <1>7 DEF InitSteps
<1> QED
  BY <1>1, <1>4, <1>5, <1>6, <1>7, InitGoesOn

LEMMA PageCommittedStep ==
    ASSUME VaultCore, NEW r \in VaultRuns, NEW n \in VaultPages, PageCommitted(r, n)
    PROVE  VaultCore'
<1> DEFINE left == vaultRun[r].left
<1>1. /\ vaultRun[r].at = "committing" /\ r \in Initialising
      /\ n \in left /\ left \subseteq VaultPages
      /\ \A s \in VaultRuns \ {r} : vaultRun'[s] = vaultRun[s]
      /\ UNCHANGED <<marked, writeLock, begun, brokenOff, crossed, contested>>
      /\ rooted' \in BOOLEAN
      /\ staged' \in [VaultRuns -> SUBSET VaultPages]
      /\ page' \subseteq VaultPages
      /\ vaultRun \in [VaultRuns -> RunStates] /\ vaultRun[r] \in RunStates
  BY DEF VaultCore, VaultTypeOK, PageCommitted, RolledBack, Initialising, InitSteps, RunStates
<1>2. CASE n \in staged[r]
  <2> DEFINE v == IF left = {n} THEN [at |-> "marking", left |-> {}]
                  ELSE [at |-> "committing", left |-> left \ {n}]
  <2>1. /\ v \in RunStates
        /\ left = {n} => v.at = "marking"
        /\ left # {n} => v.at = "committing" /\ v.left = left \ {n}
    BY <1>1, RunFacts
  <2>7. page' = page \cup {n} /\ staged'[r] = staged[r] \ {n}
    BY <1>1, <1>2 DEF VaultCore, VaultTypeOK, PageCommitted
  <2>6. vaultRun' = [vaultRun EXCEPT ![r] = v]
    BY <1>2 DEF PageCommitted
  <2> HIDE DEF v
  <2>2. vaultRun' \in [VaultRuns -> RunStates] /\ vaultRun'[r] = v
    BY <1>1, <2>1, <2>6, RunChanges
  <2>3. VaultTypeOK'
    BY <1>1, <2>2 DEF VaultCore, VaultTypeOK
  <2>4. ~crossed => PagesFit(r)'
    <3> SUFFICES ASSUME ~crossed PROVE PagesFit(r)'
      OBVIOUS
    <3>1. ~marked /\ page = Planned \ left /\ staged[r] = left
      BY <1>1 DEF VaultCore, InitsInTurn, PagesFit, InitSteps
    <3>2. CASE left = {n}
      <4>1. vaultRun'[r].at = "marking" /\ page' = Planned
        BY <1>1, <2>1, <2>2, <2>7, <3>1, <3>2 DEF Planned
      <4> QED
        BY <1>1, <3>1, <4>1 DEF PagesFit
    <3>3. CASE left # {n}
      <4>1. /\ vaultRun'[r].at = "committing" /\ vaultRun'[r].left = left \ {n}
            /\ staged'[r] = left \ {n} /\ page' = Planned \ (left \ {n})
        BY <1>1, <2>1, <2>2, <2>7, <3>1, <3>3 DEF Planned
      <4> QED
        BY <1>1, <3>1, <4>1 DEF PagesFit
    <3> QED
      BY <3>2, <3>3
  <2>5. vaultRun'[r].at \in InitSteps \cup {"idle"} /\ vaultRun'[r].at # "idle"
    BY <2>1, <2>2 DEF InitSteps
  <2> QED
    BY <1>1, <2>3, <2>4, <2>5, InitGoesOn
<1>3. CASE n \notin staged[r]
  <2>1. crossed
    BY <1>1, <1>3 DEF VaultCore, InitsInTurn, PagesFit
  <2>2. /\ vaultRun' = [vaultRun EXCEPT ![r] = VaultAtRest]
    BY <1>3 DEF PageCommitted, RolledBack
  <2>3. vaultRun'[r].at = "idle"
    BY <2>2, RunFacts DEF VaultCore, VaultTypeOK
  <2>4. VaultTypeOK'
    BY <1>1, <2>2, RunFacts DEF VaultCore, VaultTypeOK
  <2> QED
    BY <1>1, <2>1, <2>3, <2>4, InitGoesOn
<1> QED
  BY <1>2, <1>3

LEMMA InitEnds ==
    ASSUME VaultCore, NEW r \in Initialising,
           CommitFails(r) \/ VaultMarked(r) \/ RunDies(r)
    PROVE  VaultCore'
<1>1. /\ r \in VaultRuns /\ vaultRun[r].at \in InitSteps
      /\ vaultRun' = [vaultRun EXCEPT ![r] = VaultAtRest]
      /\ UNCHANGED <<rooted, page, writeLock, begun, crossed, contested>>
      /\ staged' \in [VaultRuns -> SUBSET VaultPages]
  BY DEF CommitFails, VaultMarked, RunDies, RolledBack, Initialising, vaultFiles,
         VaultCore, VaultTypeOK
<1>2. marked' \in BOOLEAN /\ brokenOff' \in BOOLEAN
  BY Zenon DEF CommitFails, VaultMarked, RunDies, vaultFiles, VaultCore, VaultTypeOK
<1>3. /\ vaultRun'[r].at = "idle" /\ vaultRun'[r].left = {} /\ VaultTypeOK'
      /\ \A s \in VaultRuns \ {r} : vaultRun'[s] = vaultRun[s]
  BY <1>1, <1>2, RunFacts DEF VaultCore, VaultTypeOK, VaultAtRest
<1>4. PagesFit(r)'
  BY <1>3 DEF PagesFit, InitSteps
<1>5. ASSUME ~crossed
      PROVE  /\ marked' => page' = Planned
             /\ brokenOff' \/ page' \in {{}, Planned}
  <2>1. PagesFit(r)
    BY <1>1, <1>5 DEF VaultCore, InitsInTurn
  <2>2. CASE CommitFails(r)
    <3>1. ~marked /\ UNCHANGED marked
      BY <1>1, <2>1, <2>2 DEF CommitFails, PagesFit
    <3>2. vaultRun[r].at = "committing" => brokenOff'
      BY <2>2 DEF CommitFails
    <3>3. vaultRun[r].at = "staging" => page = {}
      BY <2>1 DEF PagesFit
    <3> QED
      BY <1>1, <2>2, <3>1, <3>2, <3>3 DEF CommitFails
  <2>3. CASE VaultMarked(r)
    BY <1>1, <2>1, <2>3 DEF VaultMarked, PagesFit
  <2>4. CASE RunDies(r)
    <3>1. ~marked /\ UNCHANGED marked
      BY <1>1, <2>1, <2>4 DEF RunDies, PagesFit, vaultFiles
    <3>2. vaultRun[r].at \in {"committing", "marking"} => brokenOff'
      BY <2>4 DEF RunDies
    <3>3. vaultRun[r].at \notin {"committing", "marking"} => page = {}
      BY <1>1, <2>1 DEF PagesFit, InitSteps
    <3> QED
      BY <1>1, <3>1, <3>2, <3>3
  <2> QED
    BY <2>2, <2>3, <2>4
<1> QED
  BY <1>1, <1>2, <1>3, <1>4, <1>5, InitGoesOn DEF CommitFails, VaultMarked, RunDies

\* The steps of refreshes.
LEMMA RefreshSteps ==
    ASSUME VaultCore, NEW r \in VaultRuns \ Initialising,
           RefreshBegins(r) \/ LockWritten(r) \/ RefreshEnds(r) \/ RunDies(r)
    PROVE  VaultCore'
<1> USE DEF VaultCore
<1>1. /\ UNCHANGED <<page, marked, staged, crossed>> /\ rooted' \in BOOLEAN
      /\ vaultRun \in [VaultRuns -> RunStates]
  BY DEF VaultTypeOK, RefreshBegins, LockWritten, RefreshEnds, RunDies, vaultFiles
<1>8. /\ \A s \in VaultRuns \ {r} : vaultRun'[s] = vaultRun[s]
      /\ vaultRun'[r].at \in {"idle", "locking", "logging"}
      /\ vaultRun' \in [VaultRuns -> RunStates]
  <2>1. CASE RefreshBegins(r)
    BY <1>1, <2>1, InitRunSteps DEF RefreshBegins
  <2>2. CASE LockWritten(r)
    BY <1>1, <2>2, InitRunSteps DEF LockWritten
  <2>3. CASE RefreshEnds(r)
    BY <1>1, <2>3, InitRunSteps DEF RefreshEnds
  <2>4. CASE RunDies(r)
    BY <1>1, <2>4, RunChanges, RunFacts DEF RunDies
  <2> QED
    BY <2>1, <2>2, <2>3, <2>4
<1>2. UNCHANGED brokenOff
  BY Zenon DEF RefreshBegins, LockWritten, RefreshEnds, RunDies, Initialising, InitSteps,
         VaultTypeOK
<1>9. begun' \in [init : 0..MaxInits, refresh : 0..MaxRefreshes]
  <2>1. CASE RefreshBegins(r)
    BY <2>1, VaultAssumption DEF VaultTypeOK, RefreshBegins
  <2> QED
    BY <2>1 DEF VaultTypeOK, LockWritten, RefreshEnds, RunDies
<1>3. writeLock' \in [by : VaultRuns \cup {NoRun}, stale : BOOLEAN]
  <2>1. writeLock' \in {writeLock, Unheld, [by |-> r, stale |-> FALSE]}
    BY DEF RefreshBegins, LockWritten, RefreshEnds, RunDies, LockRemoved, vaultFiles
  <2>2. [by |-> r, stale |-> FALSE] \in [by : VaultRuns \cup {NoRun}, stale : BOOLEAN]
    OBVIOUS
  <2> QED
    BY <2>1, <2>2, RunFacts DEF VaultTypeOK
<1>4. contested' \in BOOLEAN
  BY Zenon DEF VaultTypeOK, RefreshBegins, LockWritten, RefreshEnds, RunDies
<1>5. VaultTypeOK'
  BY <1>1, <1>2, <1>3, <1>4, <1>8, <1>9 DEF VaultTypeOK
<1>6. InitsInTurn'
  BY <1>1, <1>2, <1>5, <1>8, RefreshGoesOn DEF InitSteps
<1>7. RefreshesInTurn'
  <2> SUFFICES ASSUME ~contested'
               PROVE  /\ \A q, s \in Refreshing' : q = s
                      /\ \A s \in Holding' : writeLock' = [by |-> s, stale |-> FALSE]
    BY DEF RefreshesInTurn
  <2>1. ~contested
    BY Zenon DEF RefreshBegins, LockWritten, RefreshEnds, RunDies
  <2>2. CASE RefreshBegins(r)
    <3>1. \A s \in VaultRuns : vaultRun[s].at # "locking"
      BY <2>2, Zenon DEF RefreshBegins
    <3>2. \A s \in VaultRuns : vaultRun[s].at # "logging"
      BY <2>1, <2>2, VaultAssumption DEF RefreshBegins, RefreshesInTurn, Holding, Unheld
    <3>3. vaultRun'[r].at = "locking"
      BY <2>2 DEF RefreshBegins, At, VaultTypeOK
    <3> QED
      BY <1>8, <3>1, <3>2, <3>3 DEF Refreshing, Holding
  <2>3. CASE LockWritten(r)
    <3>1. \A s \in VaultRuns \ {r} : vaultRun[s].at \notin {"locking", "logging"}
      BY <2>1, <2>3 DEF LockWritten, RefreshesInTurn, Refreshing
    <3>2. vaultRun'[r].at = "logging" => writeLock' = [by |-> r, stale |-> FALSE]
      <4>1. CASE rooted
        BY <2>3, <4>1 DEF LockWritten
      <4>2. CASE ~rooted
        <5>1. vaultRun'[r].at = "idle"
          BY <1>1, <2>3, <4>2, InitRunSteps DEF LockWritten
        <5> QED
          BY <5>1
      <4> QED
        BY <4>1, <4>2
    <3> QED
      BY <1>8, <3>1, <3>2 DEF Refreshing, Holding
  <2>4. CASE RefreshEnds(r)
    <3>1. \A s \in VaultRuns \ {r} : vaultRun[s].at \notin {"locking", "logging"}
      BY <2>1, <2>4 DEF RefreshEnds, RefreshesInTurn, Refreshing
    <3>2. vaultRun'[r].at = "idle"
      BY <2>4 DEF RefreshEnds, At, VaultTypeOK
    <3> QED
      BY <1>8, <3>1, <3>2 DEF Refreshing, Holding
  <2>5. CASE RunDies(r)
    <3>1. vaultRun'[r].at = "idle" /\ writeLock' = writeLock
      BY <2>5, RunFacts DEF RunDies, VaultTypeOK, vaultFiles
    <3> QED
      BY <1>8, <2>1, <3>1 DEF Refreshing, Holding, RefreshesInTurn
  <2> QED
    BY <2>2, <2>3, <2>4, <2>5
<1> QED
  BY <1>5, <1>6, <1>7

LEMMA LockStaleStep == VaultCore /\ LockGoesStale => VaultCore'
<1> SUFFICES ASSUME VaultCore, LockGoesStale PROVE VaultCore'
  OBVIOUS
<1>1. UNCHANGED <<rooted, page, marked, staged, vaultRun, begun, brokenOff, crossed, contested>>
  BY DEF LockGoesStale
<1>2. VaultTypeOK'
  BY <1>1 DEF VaultCore, VaultTypeOK, LockGoesStale
<1>3. InitsInTurn'
  BY <1>1 DEF VaultCore, InitsInTurn, Initialising, PagesFit
<1>4. ~contested => Holding = {}
  BY DEF VaultCore, RefreshesInTurn, LockGoesStale, Holding
<1>5. RefreshesInTurn'
  BY <1>1, <1>4 DEF VaultCore, RefreshesInTurn, Refreshing, Holding
<1> QED
  BY <1>2, <1>3, <1>5 DEF VaultCore

LEMMA VaultStep == VaultCore /\ [VaultNext]_vaultVars => VaultCore'
<1> SUFFICES ASSUME VaultCore, [VaultNext]_vaultVars PROVE VaultCore'
  OBVIOUS
<1>1. ASSUME NEW r \in VaultRuns, NEW rebuild \in BOOLEAN, InitBegins(r, rebuild)
      PROVE  VaultCore'
  BY <1>1, InitBeginsStep
<1>2. ASSUME NEW r \in VaultRuns, ProjectDiscovered(r) \/ Answered(r) \/ DirsMade(r)
      PROVE  VaultCore'
  BY <1>2, InitSteppings
<1>3. ASSUME NEW r \in VaultRuns, NEW n \in VaultPages, PageStaged(r, n) \/ PageCommitted(r, n)
      PROVE  VaultCore'
  BY <1>3, PageStagedStep, PageCommittedStep
<1>4. ASSUME NEW r \in VaultRuns, CommitFails(r) \/ VaultMarked(r)
      PROVE  VaultCore'
  <2>1. r \in Initialising
    BY <1>4 DEF CommitFails, VaultMarked, Initialising, InitSteps
  <2> QED
    BY <1>4, <2>1, InitEnds
<1>5. ASSUME NEW r \in VaultRuns, RefreshBegins(r) \/ LockWritten(r) \/ RefreshEnds(r)
      PROVE  VaultCore'
  <2>1. r \notin Initialising
    BY <1>5 DEF RefreshBegins, LockWritten, RefreshEnds, Initialising, InitSteps
  <2> QED
    BY <1>5, <2>1, RefreshSteps
<1>6. ASSUME NEW r \in VaultRuns, RunDies(r)
      PROVE  VaultCore'
  BY <1>6, RefreshSteps, InitEnds
<1>7. CASE LockGoesStale
  BY <1>7, LockStaleStep
<1>8. CASE UNCHANGED vaultVars
  <2>1. /\ UNCHANGED <<rooted, page, marked, staged, writeLock, vaultRun>>
        /\ UNCHANGED <<begun, brokenOff, crossed, contested>>
    BY <1>8 DEF vaultVars, vaultFiles
  <2> QED
    BY <2>1 DEF VaultCore, VaultTypeOK, InitsInTurn, RefreshesInTurn, Initialising,
                PagesFit, Refreshing, Holding
<1> QED
  BY <1>1, <1>2, <1>3, <1>4, <1>5, <1>6, <1>7, <1>8 DEF VaultNext

\* Inits that did not cross leave a whole vault or none, what is staged is
\* there to be moved, and refreshes exclude each other as long as no lock was
\* broken under its holder (src/atlas).
THEOREM VaultKept == VaultSpec => []VaultInv
  BY VaultStart, VaultStep, VaultCoreSuffices, PTL DEF VaultSpec

-----------------------------------------------------------------------------
(* The resolution of the current issue.                                    *)

\* All that is so of a call and the issues worked on since it began.
Serves(lookup, working) ==
    /\ Sees(lookup, working)
    /\ lookup.step = "resolved" /\ ~ lookup.failed => working \subseteq {lookup.target}
    /\ lookup.step = "none" /\ ~ lookup.failed => working = {}

HasTarget(lookup) ==
    lookup.step \in {"own", "given", "own resolved", "resolved"} => lookup.target \in Issues

LEMMA ResolverInvParts ==
    ResolverInv <=> /\ ResolverTypeOK /\ HeadIsFree
                    /\ \A c \in ResolverCalls :
                        through[c] \subseteq Live /\ Serves(lookups[c], through[c])
  BY DEF ResolverInv, WorkIsSeen, Serves, OneIssueResolved, NoneMeansNone

\* The record of an issue that is worked on.
LEMMA LiveRecord ==
    ASSUME NEW n \in Live
    PROVE  n \in Issues /\ RecordOf(n) = [of |-> n, names |-> n, state |-> "open"]
  BY DEF Live, RecordOf

LEMMA ThroughShape ==
    ASSUME through' = [c \in ResolverCalls |->
                     IF lookups[c].step = "idle" THEN Live'
                     ELSE through[c] \intersect Live'],
           NEW c \in ResolverCalls
    PROVE  /\ through'[c] \subseteq Live'
           /\ lookups[c].step # "idle" => through'[c] = through[c] \cap Live'
  OBVIOUS

\* The issues go on, and the calls see no more of them than before.
LEMMA WorldKeeps ==
    ASSUME ResolverInv, ResolverTypeOK', HeadIsFree', UNCHANGED lookups,
           through' = [c \in ResolverCalls |->
                     IF lookups[c].step = "idle" THEN Live'
                     ELSE through[c] \intersect Live']
    PROVE  ResolverInv'
<1>1. ASSUME NEW c \in ResolverCalls
      PROVE  through'[c] \subseteq Live' /\ Serves(lookups[c], through[c])'
  <2>1. through'[c] \subseteq Live'
    BY ThroughShape
  <2>2. CASE lookups[c].step = "idle"
    BY <2>1, <2>2 DEF Serves, Sees
  <2>3. CASE lookups[c].step # "idle"
    <3>1. through'[c] = through[c] \cap Live'
      BY <2>3, ThroughShape
    <3>2. \A n \in through'[c] : n \in Live /\ RecordOf(n)' = RecordOf(n)
      <4>1. \A n \in through'[c] : n \in Live /\ n \in Live'
        BY <3>1 DEF ResolverInv, WorkIsSeen
      <4> QED
        BY <4>1 DEF Live, RecordOf
    <3>3. Serves(lookups[c], through[c])
      BY ResolverInvParts
    <3> QED
      BY <2>1, <3>1, <3>2, <3>3 DEF Serves, Sees
  <2> QED
    BY <2>2, <2>3
<1> QED
  BY <1>1 DEF ResolverInv, WorkIsSeen, Serves, OneIssueResolved, NoneMeansNone

\* An issue with anything to its name has begun.
LEMMA BornIssue ==
    ASSUME ResolverTypeOK, NEW n \in Issues,
           issues[n].branch \/ issues[n].landed \/ issues[n].file # "none"
    PROVE  issues[n].born
<1>1. ~ Unborn.branch /\ ~ Unborn.landed /\ Unborn.file = "none"
  BY DEF Unborn
<1> QED
  BY <1>1 DEF ResolverTypeOK

\* The issues themselves.
LEMMA IssueTypes ==
    ASSUME ResolverTypeOK, HeadIsFree, NEW n \in Issues, NEW i \in IssueStates,
           Becomes(n, i), i.born, issues[n].born => issues[n].tree \/ ~ i.tree,
           issues[n].born \/ head # n
    PROVE  /\ issues' \in [Issues -> IssueStates] /\ HeadIsFree' /\ UNCHANGED <<head, restores>>
           /\ \A m \in Issues : issues'[m].born \/ issues'[m] = Unborn
<1>1. /\ issues' = [issues EXCEPT ![n] = i] /\ UNCHANGED <<head, restores>>
      /\ issues \in [Issues -> IssueStates]
  BY DEF Becomes, ResolverTypeOK
<1>2. issues' \in [Issues -> IssueStates] /\ issues'[n] = i
      /\ \A m \in Issues \ {n} : issues'[m] = issues[m]
  BY <1>1
<1>3. HeadIsFree'
  BY <1>1, <1>2, ResolverAssumption DEF HeadIsFree, ResolverTypeOK, Heads
<1> QED
  BY <1>1, <1>2, <1>3 DEF ResolverTypeOK

LEMMA WorldStepKeeps ==
    ResolverInv /\ WorldStep => ResolverTypeOK' /\ HeadIsFree' /\ UNCHANGED lookups
<1> SUFFICES ASSUME ResolverInv, WorldStep
             PROVE  ResolverTypeOK' /\ HeadIsFree' /\ UNCHANGED lookups
  OBVIOUS
<1>0. ResolverTypeOK /\ HeadIsFree /\ UNCHANGED <<lookups, comments>>
  BY DEF ResolverInv, WorldStep
<1> DEFINE IssuesFit == /\ issues' \in [Issues -> IssueStates] /\ HeadIsFree'
                        /\ \A m \in Issues : issues'[m].born \/ issues'[m] = Unborn
<1> SUFFICES IssuesFit /\ head' \in Heads /\ restores' \in 0..MaxRestores
  BY <1>0 DEF ResolverTypeOK
<1>a. \A n \in Issues : issues[n] \in IssueStates /\ n \in Heads
  BY <1>0 DEF ResolverTypeOK, Heads
<1>b. head \in Heads /\ restores \in 0..MaxRestores /\ Main \in Heads
  BY <1>0 DEF ResolverTypeOK, Heads
<1>1. ASSUME NEW n \in Issues, IssueStarts(n)
      PROVE  IssuesFit /\ UNCHANGED <<head, restores>>
  <2>1. ~ issues[n].born /\ head # n
    BY <1>0, <1>1, ResolverAssumption DEF IssueStarts, HeadIsFree
  <2>2. PICK i \in { [born |-> TRUE, file |-> "open", names |-> n,
                      branch |-> TRUE, tree |-> TRUE, landed |-> FALSE],
                     [Unborn EXCEPT !.born = TRUE, !.file = "closed"] } : Becomes(n, i)
    BY <1>1 DEF IssueStarts
  <2>3. i \in IssueStates /\ i.born
    <3>1. [born |-> TRUE, file |-> "open", names |-> n,
           branch |-> TRUE, tree |-> TRUE, landed |-> FALSE] \in IssueStates
      BY <1>a DEF IssueStates
    <3>2. /\ [Unborn EXCEPT !.born = TRUE, !.file = "closed"] \in IssueStates
          /\ [Unborn EXCEPT !.born = TRUE, !.file = "closed"].born = TRUE
      BY <1>b DEF IssueStates, Unborn
    <3>3. \A m, t : [born |-> TRUE, file |-> "open", names |-> m, branch |-> TRUE,
                       tree |-> t, landed |-> FALSE].born = TRUE
      OBVIOUS
    <3> QED
      BY <2>2, <3>1, <3>2, <3>3
  <2> QED
    BY <1>0, <2>1, <2>2, <2>3, IssueTypes
<1>2. ASSUME NEW n \in Issues, IssueGoesOn(n)
      PROVE  IssuesFit /\ UNCHANGED <<head, restores>>
  <2> DEFINE i == issues[n]
  <2>1. i \in IssueStates
    BY <1>a
  <2>2. \E j \in {[i EXCEPT !.landed = TRUE], [i EXCEPT !.tree = FALSE],
                  [i EXCEPT !.branch = FALSE], [i EXCEPT !.file = "closed"],
                  [i EXCEPT !.file = "none"]} : Becomes(n, j)
    BY <1>2 DEF IssueGoesOn
  <2>3. PICK j \in {[i EXCEPT !.landed = TRUE], [i EXCEPT !.tree = FALSE],
                  [i EXCEPT !.branch = FALSE], [i EXCEPT !.file = "closed"],
                  [i EXCEPT !.file = "none"]} : Becomes(n, j)
    BY <2>2
  <2>4. j \in IssueStates /\ j.born = i.born /\ (j.tree => i.tree)
    <3> HIDE DEF i
    <3> QED
      BY <2>1 DEF IssueStates
  <2>5. i.born
    BY <1>0, <1>2, BornIssue DEF IssueGoesOn
  <2> HIDE DEF i
  <2>6. issues[n] = i
    BY DEF i
  <2> QED
    BY <1>0, <2>3, <2>4, <2>5, <2>6, IssueTypes
<1>3. ASSUME NEW n \in Issues, RecordRestored(n)
      PROVE  IssuesFit /\ UNCHANGED head /\ restores' \in 0..MaxRestores
  <2> DEFINE new == IF issues[n].tree THEN n ELSE head
  <2>1. /\ new \in Heads
        /\ issues' = [issues EXCEPT ![n].file = "open", ![n].names = new]
    BY <1>a, <1>b, <1>3 DEF RecordRestored
  <2> HIDE DEF new
  <2>4. issues[n].born
    BY <1>3 DEF RecordRestored
  <2>2. /\ issues' \in [Issues -> IssueStates]
        /\ \A m \in Issues \ {n} : issues'[m] = issues[m]
        /\ \A m \in Issues : issues'[m].born = issues[m].born /\ issues'[m].tree = issues[m].tree
    BY <1>0, <2>1 DEF ResolverTypeOK, IssueStates
  <2>3. UNCHANGED head /\ restores' \in 0..MaxRestores
    BY <1>b, <1>3, ResolverAssumption DEF RecordRestored
  <2> QED
    BY <1>0, <1>b, <2>2, <2>3, <2>4 DEF HeadIsFree, Heads, ResolverTypeOK
<1>4. ASSUME NEW b \in Heads, HeadMoves(b)
      PROVE  IssuesFit /\ UNCHANGED restores /\ head' \in Heads
  <2>1. UNCHANGED <<issues, restores>> /\ head' = b
    BY <1>4 DEF HeadMoves
  <2>2. b # Main => issues[b].born /\ ~ issues[b].tree
    BY <1>0, <1>4, BornIssue DEF HeadMoves, Heads
  <2> QED
    BY <1>0, <2>1, <2>2 DEF HeadIsFree, ResolverTypeOK
<1> QED
  BY <1>0, <1>b, <1>1, <1>2, <1>3, <1>4 DEF WorldStep, ResolverTypeOK

\* One call goes on.
LEMMA CallGoes ==
    ASSUME ResolverInv, NEW c \in ResolverCalls, NEW r \in Lookups,
           lookups' = [lookups EXCEPT ![c] = r], UNCHANGED <<issues, head, restores>>,
           comments' \in [Issues -> Nat], HasTarget(r),
           through' = [d \in ResolverCalls |->
                     IF lookups[d].step = "idle" THEN Live'
                     ELSE through[d] \intersect Live'],
           \/ lookups[c].step = "idle" /\ r.step \in {"branch", "given"}
           \/ lookups[c].step # "idle" /\ Serves(r, through[c])
    PROVE  ResolverInv'
<1>1. /\ lookups' \in [ResolverCalls -> Lookups] /\ lookups'[c] = r
      /\ \A d \in ResolverCalls \ {c} : lookups'[d] = lookups[d]
      /\ Live' = Live
  BY DEF ResolverInv, ResolverTypeOK, Live
<1>2. ResolverTypeOK'
  BY <1>1 DEF ResolverInv, ResolverTypeOK, HasTarget
<1>3. HeadIsFree'
  BY DEF ResolverInv, HeadIsFree
<1>4. \A n : RecordOf(n)' = RecordOf(n)
  BY DEF RecordOf
<1>5. ASSUME NEW d \in ResolverCalls
      PROVE  through'[d] \subseteq Live' /\ Serves(lookups[d], through[d])'
  <2>1. through'[d] \subseteq Live'
    BY ThroughShape
  <2>2. through[d] \subseteq Live
    BY DEF ResolverInv, WorkIsSeen
  <2>3. lookups[d].step # "idle" => through'[d] = through[d]
    BY <1>1, <2>2, ThroughShape
  <2>4. CASE d = c /\ lookups[c].step = "idle" /\ r.step \in {"branch", "given"}
    BY <1>1, <2>1, <2>4 DEF Serves, Sees
  <2>5. CASE d = c /\ lookups[c].step # "idle" /\ Serves(r, through[c])
    BY <1>1, <1>4, <2>1, <2>3, <2>5 DEF Serves, Sees
  <2>6. CASE d # c /\ lookups[d].step = "idle"
    BY <1>1, <2>1, <2>6 DEF Serves, Sees
  <2>7. CASE d # c /\ lookups[d].step # "idle"
    <3>1. Serves(lookups[d], through[d])
      BY ResolverInvParts
    <3> QED
      BY <1>1, <1>4, <2>1, <2>3, <2>7, <3>1 DEF Serves, Sees
  <2> QED
    BY <2>4, <2>5, <2>6, <2>7
<1> QED
  BY <1>2, <1>3, <1>5 DEF ResolverInv, WorkIsSeen, Serves, OneIssueResolved, NoneMeansNone

Through == through' = [c \in ResolverCalls |->
                     IF lookups[c].step = "idle" THEN Live'
                     ELSE through[c] \intersect Live']
Still == UNCHANGED <<issues, head, restores>> /\ Through

\* A step that reads nothing of the issues and cannot mislead the call.
LEMMA PlainSteps ==
    ASSUME ResolverInv, Still, NEW c \in ResolverCalls,
           \/ \E given \in Issues \union {0} : CallStarts(c, given)
           \/ BranchRead(c) \/ BranchUnreadable(c) \/ OwnLoaded(c)
           \/ ContextRead(c) \/ CallRefused(c)
    PROVE  ResolverInv'
<1>0. NoLookup \in Lookups
  BY DEF Lookups, NoLookup, LookupSteps
<1>1. lookups[c] \in Lookups /\ comments \in [Issues -> Nat] /\ NoLookup \in Lookups
  BY <1>0 DEF ResolverInv, ResolverTypeOK
<1> DEFINE L == lookups[c]
<1> SUFFICES \E r \in Lookups : /\ Goes(c, r) /\ HasTarget(r)
                                /\ \/ L.step = "idle" /\ r.step \in {"branch", "given"}
                                   \/ /\ L.step # "idle"
                                      /\ r.step \notin {"filtering", "loading", "probing",
                                                        "resolved", "none"}
  BY <1>1, CallGoes DEF Still, Through, Goes, Serves, Sees
<1>2. ASSUME NEW given \in Issues \union {0}, CallStarts(c, given)
      PROVE  \E r \in Lookups : /\ Goes(c, r) /\ HasTarget(r)
                                /\ L.step = "idle" /\ r.step \in {"branch", "given"}
  <2> DEFINE r == [NoLookup EXCEPT !.target = given,
                  !.step = IF given = 0 THEN "branch" ELSE "given"]
  <2>1. /\ r \in Lookups /\ r.target = given
        /\ r.step = IF given = 0 THEN "branch" ELSE "given"
    BY <1>1 DEF Lookups, LookupSteps
  <2>2. Goes(c, r) /\ L.step = "idle"
    BY <1>2 DEF CallStarts
  <2> HIDE DEF r
  <2> QED
    BY <2>1, <2>2 DEF HasTarget
<1>3. CASE BranchRead(c) \/ BranchUnreadable(c) \/ OwnLoaded(c)
  <2> DEFINE own == [L EXCEPT !.step = "own", !.target = head]
             listing == [L EXCEPT !.step = "listing"]
             failed == [L EXCEPT !.step = "listing", !.failed = TRUE]
             found == [L EXCEPT !.step = "own resolved"]
             lost == [L EXCEPT !.step = "listing", !.target = 0]
  <2>1. \/ Goes(c, own) /\ head \in Issues
        \/ Goes(c, listing) \/ Goes(c, failed) \/ Goes(c, lost)
        \/ Goes(c, found) /\ L.step = "own"
    BY <1>3, Zenon DEF BranchRead, BranchUnreadable, OwnLoaded
  <2>2. /\ L.step = "own" => L.target \in Issues
        /\ L.step \in {"branch", "own"} /\ L \in Lookups
    BY <1>1, <1>3 DEF ResolverInv, ResolverTypeOK, BranchRead, BranchUnreadable, OwnLoaded
  <2>3. /\ head \in Issues => own \in Lookups /\ own.step = "own" /\ own.target = head
        /\ listing \in Lookups /\ listing.step = "listing"
        /\ failed \in Lookups /\ failed.step = "listing"
        /\ lost \in Lookups /\ lost.step = "listing"
        /\ found \in Lookups /\ found.step = "own resolved" /\ found.target = L.target
    <3>1. L \in Lookups
      BY <2>2
    <3> HIDE DEF L
    <3> QED
      BY <3>1 DEF Lookups, LookupSteps
  <2> HIDE DEF own, listing, failed, found, lost
  <2> QED
    BY <2>1, <2>2, <2>3 DEF HasTarget
<1>4. CASE ContextRead(c) \/ CallRefused(c)
  <2>1. ContextRead(c) => Recent(L.target) \in 0..10
    <3> SUFFICES ASSUME ContextRead(c) PROVE Recent(L.target) \in 0..10
      OBVIOUS
    <3>1. L.target \in Issues
      BY DEF ContextRead, ResolverInv, ResolverTypeOK
    <3>2. comments[L.target] \in Nat
      BY <1>1, <3>1
    <3> HIDE DEF L
    <3> QED
      BY <3>2 DEF Recent
  <2>2. PICK r \in {[L EXCEPT !.step = "done", !.told = Recent(L.target)],
                    [L EXCEPT !.step = "done"]} :
            /\ Goes(c, r) /\ L.step # "idle"
            /\ r = [L EXCEPT !.step = "done"] \/ ContextRead(c)
    BY <1>4 DEF ContextRead, CallRefused
  <2> DEFINE told == Recent(L.target)
  <2> HIDE DEF told
  <2>3. r \in Lookups /\ r.step = "done"
    <3>1. L \in Lookups
      BY <1>1
    <3> HIDE DEF L
    <3>2. CASE r = [L EXCEPT !.step = "done"]
      BY <3>1, <3>2 DEF Lookups, LookupSteps
    <3>3. CASE r = [L EXCEPT !.step = "done", !.told = told] /\ told \in 0..10
      BY <3>1, <3>3 DEF Lookups, LookupSteps
    <3> QED
      BY <2>1, <2>2, <3>2, <3>3 DEF told
  <2> QED
    BY <2>2, <2>3 DEF HasTarget
<1> QED
  BY <1>2, <1>3, <1>4

\* The directory is listed and its files are read: an issue worked on since
\* the call began has an open file under its own branch.
LEMMA ReadingSteps ==
    ASSUME ResolverInv, Still, NEW c \in ResolverCalls,
           \/ ListingStarts(c) \/ LoadingStarts(c) \/ ProbingStarts(c)
           \/ \E n \in lookups[c].files : FileFiltered(c, n) \/ RecordLoaded(c, n)
    PROVE  ResolverInv'
<1>1. lookups[c] \in Lookups /\ comments \in [Issues -> Nat]
      /\ issues \in [Issues -> IssueStates]
  BY DEF ResolverInv, ResolverTypeOK
<1> DEFINE L == lookups[c]
           T == through[c]
<1>2. /\ \A n \in T : n \in Issues /\ issues[n].file = "open"
                      /\ RecordOf(n) = [of |-> n, names |-> n, state |-> "open"]
      /\ Sees(L, T)
  BY LiveRecord DEF ResolverInv, WorkIsSeen, Live
<1> SUFFICES \E r \in Lookups : /\ Goes(c, r) /\ L.step # "idle"
                                /\ r.step \in {"filtering", "loading", "probing", "none"}
                                /\ Serves(r, T)
  BY <1>1, CallGoes DEF Still, Through, Goes, HasTarget
<1>3. L \in Lookups
  BY <1>1
<1>4. CASE ListingStarts(c)
  <2> DEFINE fs == {n \in Issues : issues[n].file # "none"}
             r == [L EXCEPT !.step = "filtering", !.files = fs]
  <2>1. Goes(c, r) /\ L.step = "listing"
    BY <1>4 DEF ListingStarts
  <2>2. T \subseteq fs
    BY <1>2
  <2> HIDE DEF L, fs
  <2>3. r \in Lookups /\ r.step = "filtering" /\ r.files = fs
    <3>1. fs \in SUBSET Issues
      BY DEF fs
    <3> QED
      BY <1>3, <3>1 DEF Lookups, LookupSteps
  <2> HIDE DEF r
  <2> QED
    BY <2>1, <2>2, <2>3 DEF Serves, Sees
<1>5. ASSUME NEW n \in L.files, FileFiltered(c, n)
      PROVE  \E r \in Lookups : /\ Goes(c, r) /\ L.step # "idle"
                                /\ r.step \in {"filtering", "loading", "probing", "none"}
                                /\ Serves(r, T)
  <2> DEFINE fs == L.files \ {n}
             os == L.open \union {m \in {n} : issues[m].file = "open"}
             r == [L EXCEPT !.files = fs, !.open = os]
  <2>1. Goes(c, r) /\ L.step = "filtering"
    BY <1>5 DEF FileFiltered
  <2>2. T \subseteq fs \union os
    BY <1>2, <2>1 DEF Sees
  <2>3. fs \in SUBSET Issues /\ os \in SUBSET Issues
    BY <1>3 DEF Lookups
  <2> HIDE DEF L, fs, os
  <2>4. r \in Lookups /\ r.step = "filtering" /\ r.files = fs /\ r.open = os
    BY <1>3, <2>1, <2>3 DEF Lookups
  <2> HIDE DEF r
  <2> QED
    BY <2>1, <2>2, <2>4 DEF Serves, Sees
<1>6. CASE LoadingStarts(c)
  <2> DEFINE os == L.open
             r == [L EXCEPT !.step = "loading", !.files = os]
  <2>1. Goes(c, r) /\ L.step = "filtering"
    BY <1>6 DEF LoadingStarts
  <2>2. T \subseteq os /\ os \in SUBSET Issues
    BY <1>2, <1>3, <1>6 DEF Sees, LoadingStarts, Lookups
  <2> HIDE DEF L, os
  <2>3. r \in Lookups /\ r.step = "loading" /\ r.files = os
    BY <1>3, <2>2 DEF Lookups, LookupSteps
  <2> HIDE DEF r
  <2> QED
    BY <2>1, <2>2, <2>3 DEF Serves, Sees
<1>7. ASSUME NEW n \in L.files, RecordLoaded(c, n)
      PROVE  \E r \in Lookups : /\ Goes(c, r) /\ L.step # "idle"
                                /\ r.step \in {"filtering", "loading", "probing", "none"}
                                /\ Serves(r, T)
  <2> DEFINE fs == L.files \ {n}
             rs == L.loaded \union
                     {RecordOf(m) : m \in {m \in {n} : issues[m].file # "none"}}
             r == [L EXCEPT !.files = fs, !.loaded = rs]
  <2>1. Goes(c, r) /\ L.step = "loading"
    BY <1>7 DEF RecordLoaded
  <2>2. \A m \in T \ fs : RecordOf(m) \in rs
    BY <1>2, <2>1 DEF Sees
  <2>3. fs \in SUBSET Issues /\ rs \in SUBSET Records
    <3>1. \A m \in Issues : issues[m].file # "none" => RecordOf(m) \in Records
      BY <1>1 DEF RecordOf, Records, IssueStates
    <3> QED
      BY <1>3, <3>1 DEF Lookups
  <2> HIDE DEF L, fs, rs
  <2>4. r \in Lookups /\ r.step = "loading" /\ r.files = fs /\ r.loaded = rs
    BY <1>3, <2>1, <2>3 DEF Lookups
  <2> HIDE DEF r
  <2> QED
    BY <2>1, <2>2, <2>4 DEF Serves, Sees
<1>8. CASE ProbingStarts(c)
  <2>0. L.step = "loading" /\ \A m \in T : RecordOf(m) \in L.loaded
    BY <1>2, <1>8 DEF ProbingStarts, Sees
  <2>1. CASE L.loaded = {}
    <3> DEFINE r == [L EXCEPT !.step = "none"]
    <3>1. Goes(c, r) /\ T = {}
      BY <1>8, <2>0, <2>1 DEF ProbingStarts
    <3> HIDE DEF L
    <3>2. r \in Lookups /\ r.step = "none"
      BY <1>3 DEF Lookups, LookupSteps
    <3> HIDE DEF r
    <3> QED
      BY <2>0, <3>1, <3>2 DEF Serves, Sees
  <2>2. CASE L.loaded # {}
    <3> DEFINE ss == {q \in L.loaded : Closed(q.state)}
               r == [L EXCEPT !.step = "probing", !.stale = ss]
    <3>1. Goes(c, r)
      BY <1>8, <2>2 DEF ProbingStarts
    <3>2. \A m \in T : RecordOf(m) \in L.loaded \ ss
      BY <1>2, <2>0 DEF Closed
    <3>3. ss \in SUBSET Records
      BY <1>3 DEF Lookups
    <3> HIDE DEF L, ss
    <3>4. r \in Lookups /\ r.step = "probing" /\ r.stale = ss /\ r.loaded = L.loaded
      BY <1>3, <3>3 DEF Lookups, LookupSteps
    <3> HIDE DEF r
    <3> QED
      BY <2>0, <3>1, <3>2, <3>4 DEF Serves, Sees
  <2> QED
    BY <2>1, <2>2
<1> QED
  BY <1>4, <1>5, <1>6, <1>7, <1>8

\* The probes: git and the file system have an issue that is worked on, and
\* HEAD does not have its branch.
LEMMA LiveAnswers ==
    ASSUME ResolverInv, NEW n \in Live, NEW stage \in 1..3
    PROVE  Answer(RecordOf(n), stage)
<1>1. /\ RecordOf(n).of = n /\ RecordOf(n).names = n /\ n \in Issues /\ n # Main
      /\ issues[n].branch /\ issues[n].tree /\ ~ issues[n].landed
  BY LiveRecord, ResolverAssumption DEF Live
<1>2. head # n
  BY <1>1 DEF ResolverInv, HeadIsFree
<1> QED
  <2>1. BranchExists(n) /\ TreeThere(n, n) /\ ~ HeadHas(n)
    BY <1>1, <1>2 DEF BranchExists, TreeThere, HeadHas
  <2>2. /\ BranchExists(RecordOf(n).names)
        /\ TreeThere(RecordOf(n).of, RecordOf(n).names)
        /\ ~ HeadHas(RecordOf(n).names)
    BY <1>1, <2>1
  <2>3. CASE stage = 1
    BY <2>2, <2>3 DEF Answer
  <2>4. CASE stage = 2
    BY <2>2, <2>4 DEF Answer
  <2>5. CASE stage = 3
    BY <2>2, <2>5 DEF Answer
  <2> QED
    BY <2>3, <2>4, <2>5

LEMMA ProbingSteps ==
    ASSUME ResolverInv, Still, NEW c \in ResolverCalls, NEW q \in lookups[c].loaded,
           Probe(c, q) \/ ProbeFails(c, q)
    PROVE  ResolverInv'
<1>1. lookups[c] \in Lookups /\ comments \in [Issues -> Nat]
  BY DEF ResolverInv, ResolverTypeOK
<1> DEFINE L == lookups[c]
           T == through[c]
<1>2. Sees(L, T) /\ T \subseteq Live
  BY DEF ResolverInv, WorkIsSeen
<1>3. /\ L \in Lookups /\ L.step = "probing" /\ q \in Records
      /\ L.stage[q] \in 1..3
  BY <1>1 DEF Probe, ProbeFails, Lookups
<1>4. \E ss \in {L.stale, L.stale \union {q}}, ff \in BOOLEAN :
          /\ Goes(c, [L EXCEPT !.stage[q] = L.stage[q] + 1, !.failed = ff, !.stale = ss])
          /\ ~ ff => ~ L.failed /\ (Answer(q, L.stage[q]) => ss = L.stale)
  <2>1. CASE Probe(c, q)
    <3> DEFINE ss == IF Answer(q, L.stage[q]) THEN L.stale ELSE L.stale \union {q}
    <3>1. Goes(c, [L EXCEPT !.stage[q] = L.stage[q] + 1, !.stale = ss])
      BY <2>1 DEF Probe
    <3>2. [L EXCEPT !.stage[q] = L.stage[q] + 1, !.stale = ss] =
          [L EXCEPT !.stage[q] = L.stage[q] + 1, !.failed = L.failed, !.stale = ss]
      <4>1. L \in Lookups
        BY <1>3
      <4> HIDE DEF L, ss
      <4> QED
        BY <4>1 DEF Lookups
    <3>3. L.failed \in BOOLEAN
      BY <1>3 DEF Lookups
    <3> HIDE DEF L
    <3> QED
      BY <3>1, <3>2, <3>3
  <2>2. CASE ProbeFails(c, q)
    BY <2>2 DEF ProbeFails
  <2> QED
    BY <2>1, <2>2
<1>5. PICK ss \in {L.stale, L.stale \union {q}}, ff \in BOOLEAN :
          /\ Goes(c, [L EXCEPT !.stage[q] = L.stage[q] + 1, !.failed = ff, !.stale = ss])
          /\ ~ ff => ~ L.failed /\ (Answer(q, L.stage[q]) => ss = L.stale)
  BY <1>4
<1> DEFINE r == [L EXCEPT !.stage[q] = L.stage[q] + 1, !.failed = ff, !.stale = ss]
<1>6. /\ r \in Lookups /\ r.step = "probing" /\ r.failed = ff /\ r.stale = ss
      /\ r.loaded = L.loaded
  <2>1. L.stage \in [Records -> 1..4] /\ L.stage[q] + 1 \in 1..4 /\ ss \in SUBSET Records
    BY <1>3 DEF Lookups
  <2> DEFINE st == [L.stage EXCEPT ![q] = L.stage[q] + 1]
  <2>2. st \in [Records -> 1..4]
    BY <1>3, <2>1
  <2>3. r = [L EXCEPT !.stage = st, !.failed = ff, !.stale = ss]
    OBVIOUS
  <2> HIDE DEF L, st, r
  <2> QED
    BY <1>3, <2>1, <2>2, <2>3 DEF Lookups
<1>7. Serves(r, T)
  <2> SUFFICES ASSUME ~ ff, NEW n \in T PROVE RecordOf(n) \in L.loaded \ ss
    BY <1>6 DEF Serves, Sees
  <2>1. RecordOf(n) \in L.loaded \ L.stale
    BY <1>2, <1>3, <1>5 DEF Sees
  <2>2. RecordOf(n) = q => ss = L.stale
    BY <1>2, <1>3, <1>5, LiveAnswers
  <2> QED
    BY <2>1, <2>2
<1>8. HasTarget(r)
  BY <1>6 DEF HasTarget
<1> HIDE DEF r
<1>9. lookups' = [lookups EXCEPT ![c] = r] /\ UNCHANGED comments
  BY <1>5 DEF r, Goes
<1> QED
  BY <1>1, <1>3, <1>6, <1>7, <1>8, <1>9, CallGoes DEF Still, Through

\* The call settles on the one record left, which any issue worked on all the
\* while would be too.
LEMMA SettlingSteps ==
    ASSUME ResolverInv, Still, NEW c \in ResolverCalls, Resolves(c) \/ ProgressLogged(c)
    PROVE  ResolverInv'
<1>1. lookups[c] \in Lookups /\ comments \in [Issues -> Nat]
  BY DEF ResolverInv, ResolverTypeOK
<1> DEFINE L == lookups[c]
           T == through[c]
<1>2. Sees(L, T) /\ T \subseteq Live
  BY DEF ResolverInv, WorkIsSeen
<1>3. ASSUME NEW q \in Fresh(c), Fresh(c) = {q}, Probed(c),
             Goes(c, [L EXCEPT !.step = "resolved", !.target = q.of])
      PROVE  ResolverInv'
  <2> DEFINE r == [L EXCEPT !.step = "resolved", !.target = q.of]
  <2>1. q \in Records /\ q.of \in Issues
    BY <1>1 DEF Fresh, Lookups, Records
  <2>2. /\ r \in Lookups /\ r.step = "resolved" /\ r.target = q.of /\ r.failed = L.failed
    <3>1. L \in Lookups
      BY <1>1
    <3> HIDE DEF L
    <3> QED
      BY <2>1, <3>1 DEF Lookups, LookupSteps
  <2>3. Serves(r, T)
    <3> SUFFICES ASSUME ~ L.failed, NEW n \in T PROVE n = q.of
      BY <2>2 DEF Serves, Sees
    <3>1. RecordOf(n) \in Fresh(c)
      BY <1>2, <1>3 DEF Sees, Fresh, Probed
    <3> QED
      BY <1>2, <1>3, <3>1, LiveRecord
  <2>4. L.step # "idle" /\ HasTarget(r)
    BY <1>3, <2>1, <2>2 DEF Probed, HasTarget
  <2>5. lookups' = [lookups EXCEPT ![c] = r] /\ UNCHANGED comments
    BY <1>3 DEF Goes
  <2> HIDE DEF r
  <2> QED
    BY <1>1, <2>2, <2>3, <2>4, <2>5, CallGoes DEF Still, Through
<1>4. ASSUME NEW step \in {"ambiguous", "done"}, L.step # "idle",
             lookups' = [lookups EXCEPT ![c] = [L EXCEPT !.step = step]],
             comments' \in [Issues -> Nat]
      PROVE  ResolverInv'
  <2> DEFINE r == [L EXCEPT !.step = step]
  <2>1. r \in Lookups /\ r.step = step
    <3>1. L \in Lookups
      BY <1>1
    <3> HIDE DEF L
    <3> QED
      BY <3>1 DEF Lookups, LookupSteps
  <2>2. Serves(r, T) /\ HasTarget(r)
    BY <2>1 DEF Serves, Sees, HasTarget
  <2>3. lookups' = [lookups EXCEPT ![c] = r]
    BY <1>4
  <2> HIDE DEF r
  <2> QED
    BY <1>4, <2>1, <2>2, <2>3, CallGoes DEF Still, Through
<1>5. CASE Resolves(c)
  <2>1. L.step # "idle"
    BY <1>5 DEF Resolves, Probed
  <2>2. CASE \E q \in Fresh(c) : Fresh(c) = {q} /\
             Goes(c, [L EXCEPT !.step = "resolved", !.target = q.of])
    BY <1>3, <1>5, <2>2 DEF Resolves
  <2>3. CASE Goes(c, [L EXCEPT !.step = "ambiguous"])
    BY <1>1, <1>4, <2>1, <2>3 DEF Goes
  <2> QED
    BY <1>5, <2>2, <2>3 DEF Resolves
<1>6. CASE ProgressLogged(c)
  <2>1. L.step # "idle" /\ L.target \in Issues
    BY <1>6 DEF ProgressLogged, ResolverInv, ResolverTypeOK
  <2>2. lookups' = [lookups EXCEPT ![c] = [L EXCEPT !.step = "done"]]
    BY <1>6 DEF ProgressLogged
  <2>3. comments' \in [Issues -> Nat]
    <3> DEFINE t == L.target
    <3>1. comments' = comments \/ comments' = [comments EXCEPT ![t] = comments[t] + 1]
      BY <1>6 DEF ProgressLogged
    <3>2. t \in Issues
      BY <2>1
    <3> HIDE DEF t
    <3>3. comments[t] + 1 \in Nat
      BY <1>1, <3>2
    <3> QED
      BY <1>1, <3>1, <3>3
  <2> QED
    BY <1>4, <2>1, <2>2, <2>3
<1> QED
  BY <1>5, <1>6

LEMMA ResolverStart == ResolverInit => ResolverInv
<1> SUFFICES ASSUME ResolverInit PROVE ResolverInv
  OBVIOUS
<1>1. NoLookup \in Lookups /\ Unborn \in IssueStates
  BY DEF Lookups, NoLookup, LookupSteps, Unborn, IssueStates, Heads
<1>2. \A c \in ResolverCalls : lookups[c].step = "idle" /\ through[c] = {}
  BY DEF ResolverInit, NoLookup
<1>3. ResolverTypeOK
  <2>1. 0 \in 0..MaxRestores
    BY ResolverAssumption
  <2> QED
    BY <1>1, <1>2, <2>1 DEF ResolverInit, ResolverTypeOK, Heads
<1>4. HeadIsFree
  BY DEF ResolverInit, HeadIsFree
<1> QED
  BY <1>2, <1>3, <1>4
     DEF ResolverInv, WorkIsSeen, Sees, OneIssueResolved, NoneMeansNone

LEMMA ResolverStep == ResolverInv /\ [ResolverNext]_resolverVars => ResolverInv'
<1> SUFFICES ASSUME ResolverInv, [ResolverNext]_resolverVars PROVE ResolverInv'
  OBVIOUS
<1>1. CASE ResolverNext /\ WorldStep
  BY <1>1, WorldStepKeeps, WorldKeeps DEF ResolverNext
<1>2. ASSUME ResolverNext, NEW c \in ResolverCalls, CallStep(c)
      PROVE  ResolverInv'
  <2>1. Still
    BY <1>2 DEF ResolverNext, CallStep, Still, Through
  <2>2. CASE \/ \E given \in Issues \union {0} : CallStarts(c, given)
             \/ BranchRead(c) \/ BranchUnreadable(c) \/ OwnLoaded(c)
             \/ ContextRead(c) \/ CallRefused(c)
    BY <2>1, <2>2, PlainSteps
  <2>3. CASE \/ ListingStarts(c) \/ LoadingStarts(c) \/ ProbingStarts(c)
             \/ \E n \in lookups[c].files : FileFiltered(c, n) \/ RecordLoaded(c, n)
    BY <2>1, <2>3, ReadingSteps
  <2>4. ASSUME NEW q \in lookups[c].loaded, Probe(c, q) \/ ProbeFails(c, q)
        PROVE  ResolverInv'
    BY <2>1, <2>4, ProbingSteps
  <2>5. CASE Resolves(c) \/ ProgressLogged(c)
    BY <2>1, <2>5, SettlingSteps
  <2> QED
    BY <1>2, <2>2, <2>3, <2>4, <2>5 DEF CallStep
<1>3. CASE UNCHANGED resolverVars
  <2>1. UNCHANGED <<issues, head, restores, lookups, comments, through>>
    BY <1>3 DEF resolverVars
  <2> QED
    <3>1. ResolverTypeOK' /\ HeadIsFree'
      BY <2>1 DEF ResolverInv, ResolverTypeOK, HeadIsFree
    <3>2. Live' = Live /\ \A n : RecordOf(n)' = RecordOf(n)
      BY <2>1 DEF Live, RecordOf
    <3>3. WorkIsSeen'
      BY <2>1, <3>2 DEF ResolverInv, WorkIsSeen, Sees
    <3>4. OneIssueResolved' /\ NoneMeansNone'
      BY <2>1 DEF ResolverInv, OneIssueResolved, NoneMeansNone
    <3> QED
      BY <3>1, <3>3, <3>4 DEF ResolverInv
<1> QED
  BY <1>1, <1>2, <1>3 DEF ResolverNext

\* A call that names no issue never settles on one of two that were worked on
\* all the while, and is never told that there is none
\* (src/lifecycle/resolver.ts, stale-classifier.ts, store.ts).
THEOREM ResolverKept == ResolverSpec => []ResolverInv
  BY ResolverStart, ResolverStep, PTL DEF ResolverSpec

-----------------------------------------------------------------------------
(* The models of the agents.                                               *)

\* What the entries of micode.json are, told apart by their fields.
LEMMA EntryKinds ==
    /\ NoEntry \in Entries
    /\ \A e \in Entries : Sanitized(e) \in Entries /\ Sanitized(e) # Malformed
    /\ \A e \in Entries \ {NoEntry, Malformed} :
        /\ e.model \in Models \union {Builtin, NoModel, EmptyModel}
        /\ e.warm \in BOOLEAN
<1>1. NoEntry # Malformed
  BY DEF NoEntry, Malformed
<1>2. \A m, w : Override(m, w).model = m /\ Override(m, w).warm = w
  BY DEF Override
<1> QED
  BY <1>1, <1>2 DEF Entries, Sanitized

\* Whatever the files, their models and default are of the right kind.
LEMMA ReadKinds ==
    ASSUME NEW files \in [jsonc : OpencodeFiles, json : OpencodeFiles]
    PROVE  /\ ReadModels(files) \subseteq Models
           /\ ReadDefault(files) \in Models \union {NoModel}
<1>1. \A f \in OpencodeFiles : f.kind = "file" =>
          f.offered \subseteq Models /\ f.default \in Models \union {NoModel}
  BY DEF OpencodeFiles, Missing, Broken
<1>2. files.jsonc \in OpencodeFiles /\ files.json \in OpencodeFiles
  OBVIOUS
<1>3. Read(files) = Missing \/ (Read(files) \in OpencodeFiles /\ Read(files).kind = "file")
  BY <1>2 DEF Read
<1> QED
  BY <1>1, <1>3 DEF ReadModels, ReadDefault

\* What an agent is given, for any entry that was loaded for it.
LEMMA OverrideMeetsWish ==
    ASSUME NEW wish \in Entries, wish # Malformed,
           loaded.models \subseteq Models,
           NEW default \in Models \union {NoModel}
    PROVE  LET got == WithOverride(WithDefault(default), wish)
           IN  /\ wish # NoEntry => got.warm = wish.warm
               /\ wish = NoEntry => ~ got.warm
               /\ \/ got.model \in {OwnModel, Builtin} \union loaded.models
                  \/ loaded.models = {}
                  \/ wish # NoEntry /\ wish.model = EmptyModel
               /\ (wish # NoEntry /\ wish.model = got.model) \/
                    got.model = OwnModel \/ got.model \in Models
<1> DEFINE base == WithDefault(default)
           Meets(got) ==
               /\ wish # NoEntry => got.warm = wish.warm
               /\ wish = NoEntry => ~ got.warm
               /\ \/ got.model \in {OwnModel, Builtin} \union loaded.models
                  \/ loaded.models = {}
                  \/ wish # NoEntry /\ wish.model = EmptyModel
               /\ (wish # NoEntry /\ wish.model = got.model) \/
                    got.model = OwnModel \/ got.model \in Models
<1> SUFFICES Meets(WithOverride(base, wish))
  OBVIOUS
<1>1. /\ base = OwnModel \/ base \in Models
      /\ base = OwnModel \/ loaded.models = {} \/ base \in loaded.models \union {Builtin}
  BY DEF WithDefault, IsValid
<1> HIDE DEF base
<1> DEFINE got == WithOverride(base, wish)
<1>2. CASE wish = NoEntry
  <2>1. got.model = base /\ got.warm = FALSE
    BY <1>2 DEF WithOverride
  <2> HIDE DEF got
  <2>2. Meets(got)
    BY <1>1, <1>2, <2>1
  <2> QED
    BY <2>2 DEF got
<1>3. CASE wish # NoEntry
  <2>1. wish.model \in Models \union {Builtin, NoModel, EmptyModel}
    BY <1>3, EntryKinds
  <2>2. got.warm = wish.warm
    BY <1>3 DEF WithOverride
  <2>3. CASE wish.model = NoModel
    <3>1. got.model = base
      BY <1>3, <2>3, AgentModelsAssumption DEF WithOverride
    <3> HIDE DEF got
    <3>2. Meets(got)
      BY <1>1, <1>3, <2>2, <3>1
    <3> QED
      BY <3>2 DEF got
  <2>4. CASE wish.model = EmptyModel
    <3>1. got.model = EmptyModel
      BY <1>3, <2>4, AgentModelsAssumption DEF WithOverride
    <3> HIDE DEF got
    <3>2. Meets(got)
      BY <1>3, <2>2, <2>4, <3>1
    <3> QED
      BY <3>2 DEF got
  <2>5. CASE wish.model \notin {NoModel, EmptyModel}
    <3>1. got.model = IF IsValid(wish.model) THEN wish.model ELSE base
      BY <1>3, <2>5, Zenon DEF WithOverride
    <3> HIDE DEF got
    <3>2. Meets(got)
      BY <1>1, <1>3, <2>1, <2>2, <2>5, <3>1 DEF IsValid
    <3> QED
      BY <3>2 DEF got
  <2> QED
    BY <2>3, <2>4, <2>5
<1> QED
  BY <1>2, <1>3 DEF base

LEMMA AgentStart == AgentInit => AgentInv
<1> SUFFICES ASSUME AgentInit PROVE AgentInv
  OBVIOUS
<1>1. AgentTypeOK
  BY EntryKinds, AgentModelsAssumption
     DEF AgentInit, AgentTypeOK, NotLoaded, OpencodeFiles
<1>2. LoadedIsSanitized /\ WishesAreMet
  BY DEF AgentInit, LoadedIsSanitized, WishesAreMet, NotLoaded, NotMerged
<1> QED
  BY <1>1, <1>2 DEF AgentInv

LEMMA AgentStep == AgentInv /\ [AgentNext]_agentVars => AgentInv'
<1> SUFFICES ASSUME AgentInv, [AgentNext]_agentVars PROVE AgentInv'
  OBVIOUS
<1> USE DEF AgentInv
<1>1. CASE PluginStarts
  <2>1. /\ ReadModels(opencode) \subseteq Models
        /\ \A a \in Agents : Sanitized(micode[a]) \in Entries
    BY ReadKinds, EntryKinds DEF AgentTypeOK
  <2>2. AgentTypeOK'
    BY <1>1, <2>1 DEF PluginStarts, AgentTypeOK
  <2>3. LoadedIsSanitized'
    BY <1>1 DEF PluginStarts, LoadedIsSanitized, Sanitized
  <2>4. merged' = NotMerged
    BY <1>1 DEF PluginStarts, LoadedIsSanitized
  <2>5. WishesAreMet'
    BY <2>4 DEF WishesAreMet, NotMerged
  <2> QED
    BY <2>2, <2>3, <2>5
<1>2. CASE ConfigAsked
  <2>1. AgentTypeOK'
    BY <1>2 DEF ConfigAsked, AgentTypeOK
  <2>2. LoadedIsSanitized'
    BY <1>2 DEF ConfigAsked, LoadedIsSanitized, Sanitized
  <2> DEFINE default == ReadDefault(opencode)
  <2>3. default \in Models \union {NoModel} /\ loaded.models \subseteq Models
    BY ReadKinds DEF AgentTypeOK
  <2>4. UNCHANGED <<micode, loaded>>
    BY <1>2 DEF ConfigAsked
  <2>5. \A a \in Agents : merged'[a] = WithOverride(WithDefault(default), loaded.agents[a])
    BY <1>2 DEF ConfigAsked
  <2> HIDE DEF default
  <2>6. WishesAreMet'
    <3> SUFFICES ASSUME NEW a \in Agents, merged'[a] # NoEntry
                 PROVE  LET wish == Sanitized(micode[a])
                            got == merged'[a]
                        IN  /\ wish # NoEntry => got.warm = wish.warm
                            /\ wish = NoEntry => ~ got.warm
                            /\ \/ got.model \in {OwnModel, Builtin} \union loaded.models
                               \/ loaded.models = {}
                               \/ wish # NoEntry /\ wish.model = EmptyModel
                            /\ (wish # NoEntry /\ wish.model = got.model) \/
                                 got.model = OwnModel \/ got.model \in Models
      BY <2>4 DEF WishesAreMet, Sanitized
    <3>1. loaded.agents[a] = Sanitized(micode[a])
      BY <1>2 DEF ConfigAsked, LoadedIsSanitized
    <3>2. Sanitized(micode[a]) \in Entries /\ Sanitized(micode[a]) # Malformed
      BY EntryKinds DEF AgentTypeOK
    <3> QED
      BY <2>3, <2>5, <3>1, <3>2, OverrideMeetsWish
  <2> QED
    BY <2>1, <2>2, <2>6
<1>3. ASSUME NEW name \in {"jsonc", "json"}, NEW f \in OpencodeFiles, UserEdits(name, f)
      PROVE  AgentInv'
  <2>1. opencode' \in [jsonc : OpencodeFiles, json : OpencodeFiles]
    BY <1>3 DEF UserEdits, AgentTypeOK
  <2>2. edits' \in 0..MaxEdits
    BY <1>3, AgentModelsAssumption DEF UserEdits, AgentTypeOK
  <2>3. UNCHANGED <<micode, loaded, merged>>
    BY <1>3 DEF UserEdits
  <2> QED
    BY <2>1, <2>2, <2>3
       DEF AgentTypeOK, LoadedIsSanitized, WishesAreMet, Sanitized
<1>4. CASE UNCHANGED agentVars
  BY <1>4 DEF agentVars, AgentTypeOK, LoadedIsSanitized, WishesAreMet, Sanitized
<1> QED
  BY <1>1, <1>2, <1>3, <1>4 DEF AgentNext

\* What the user's files say of an agent is what the agent runs with
\* (src/config-loader.ts).
THEOREM WishesKept == AgentSpec => []AgentInv
  BY AgentStart, AgentStep, PTL DEF AgentSpec
=============================================================================
