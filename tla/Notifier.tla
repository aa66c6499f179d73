------------------------------ MODULE Notifier ------------------------------
(***************************************************************************)
(* Completion notices (src/notifications): the policy asks the dedupe      *)
(* store, an internal session of the courier agent delivers the message,   *)
(* and only then is the notice recorded.  Tool calls that finish at the    *)
(* same time notify at the same time.                                      *)
(***************************************************************************)
EXTENDS Integers, SequencesExt, FiniteSets

CONSTANTS
    NoticeKeys,  \* an issue and a status: buildKey puts both into the key
    Notifiers,   \* calls of notify that may be under way
    NoticeTtl,   \* dedupeTtlMs
    MaxNotices,  \* dedupeMaxEntries
    MaxTime,     \* bound on the clock
    MaxLosses    \* bound on failing deliveries

ASSUME NoticeAssumption ==
    {NoticeTtl, MaxNotices, MaxTime, MaxLosses} \subseteq Nat

VARIABLES
    recorded,  \* the Map of the dedupe store: its keys in the order of entry
    recordedAt,
    notice,    \* what each call of notify is doing
    couriers,  \* courier sessions there are in OpenCode
    time,
    losses,
    evicted    \* ghost: keys evicted before their time was up

noticeVars ==
    <<recorded, recordedAt, notice, couriers, time, losses, evicted>>

AnyKey == CHOOSE k \in NoticeKeys : TRUE
Quiet == [at |-> "idle", key |-> AnyKey]

\* No key was recorded less than NoticeTtl ago.
NoticeInit ==
    /\ recorded = <<>> /\ recordedAt = [k \in NoticeKeys |-> 0]
    /\ notice = [n \in Notifiers |-> Quiet]
    /\ couriers = 0 /\ time = NoticeTtl /\ losses = 0 /\ evicted = {}

IsExpired(k) == time - recordedAt[k] >= NoticeTtl

Holds(keys, k) == \E i \in DOMAIN keys : keys[i] = k

\* evictExpired leaves the entries that have not expired, in their order.
IsUnexpired(left) ==
    /\ \A k \in NoticeKeys : Holds(left, k) <=> Holds(recorded, k) /\ ~IsExpired(k)
    /\ \A i, j \in DOMAIN left : i < j =>
        \E a, b \in DOMAIN recorded :
            a < b /\ recorded[a] = left[i] /\ recorded[b] = left[j]

\* notify, as far as evaluate: the status is part of the key, so an entry
\* found has the status asked about.
Notify(n, k) ==
    /\ notice[n].at = "idle"
    /\ \E left \in SeqOf(NoticeKeys, Len(recorded)) :
        /\ IsUnexpired(left) /\ recorded' = left
        /\ notice' = IF Holds(left, k) THEN notice
                     ELSE [notice EXCEPT ![n] = [at |-> "creating", key |-> k]]
    /\ UNCHANGED <<recordedAt, couriers, time, losses, evicted>>

Fails(failing) ==
    /\ failing => losses < MaxLosses
    /\ losses' = losses + (IF failing THEN 1 ELSE 0)

\* createInternalSession, the prompt and deleteInternalSession of the courier;
\* every failure is logged and the delivery counts as made.
CourierCreated(n, failing) ==
    /\ notice[n].at = "creating" /\ Fails(failing)
    /\ notice' = [notice EXCEPT ![n].at =
                     IF failing THEN "recording" ELSE "prompting"]
    /\ couriers' = IF failing THEN couriers ELSE couriers + 1
    /\ UNCHANGED <<recorded, recordedAt, time, evicted>>

CourierPrompted(n, failing) ==
    /\ notice[n].at = "prompting" /\ Fails(failing)
    /\ notice' = [notice EXCEPT ![n].at = "deleting"]
    /\ UNCHANGED <<recorded, recordedAt, couriers, time, evicted>>

\* deleteInternalSession never throws: a session it cannot delete is left.
CourierDeleted(n, failing) ==
    /\ notice[n].at = "deleting" /\ Fails(failing)
    /\ notice' = [notice EXCEPT ![n].at = "recording"]
    /\ couriers' = IF failing THEN couriers ELSE couriers - 1
    /\ UNCHANGED <<recorded, recordedAt, time, evicted>>

\* Mutant of Entered: a key that is there already is entered again.
EnteredTwice(k) == Append(recorded, k)

\* Map.set: a key that is there keeps its place.
Entered(k) == IF Holds(recorded, k) THEN recorded ELSE Append(recorded, k)

\* record, with evictOldest.
Commit(n) ==
    LET k == notice[n].key
        all == Entered(k)
        over == IF Len(all) > MaxNotices THEN Len(all) - MaxNotices ELSE 0
        out == {all[i] : i \in 1..over}
    IN
    /\ notice[n].at = "recording"
    /\ recorded' = SubSeq(all, over + 1, Len(all))
    /\ recordedAt' = [recordedAt EXCEPT ![k] = time]
    /\ notice' = [notice EXCEPT ![n] = Quiet]
    /\ evicted' = (evicted \ {k}) \cup {o \in out : o = k \/ ~IsExpired(o)}
    /\ UNCHANGED <<couriers, time, losses>>

TimePasses ==
    /\ time < MaxTime /\ time' = time + 1
    /\ UNCHANGED <<recorded, recordedAt, notice, couriers, losses, evicted>>

NoticeNext ==
    \/ \E n \in Notifiers :
        \/ \E k \in NoticeKeys : Notify(n, k)
        \/ \E failing \in BOOLEAN :
            \/ CourierCreated(n, failing) \/ CourierPrompted(n, failing)
            \/ CourierDeleted(n, failing)
        \/ Commit(n)
    \/ TimePasses

NoticeSpec == NoticeInit /\ [][NoticeNext]_noticeVars

-----------------------------------------------------------------------------
(* Properties                                                              *)

NoticeTypeOK ==
    /\ recorded \in Seq(NoticeKeys) /\ recordedAt \in [NoticeKeys -> Nat]
    /\ notice \in [Notifiers ->
          [at : {"idle", "creating", "prompting", "deleting", "recording"},
           key : NoticeKeys \cup {AnyKey}]]
    /\ \A n \in Notifiers : notice[n].at # "idle" => notice[n].key \in NoticeKeys
    /\ {couriers, time} \subseteq Nat /\ losses \in 0..MaxLosses
    /\ evicted \subseteq NoticeKeys

\* The store holds each key once and at most MaxNotices of them, and every
\* key recorded less than NoticeTtl ago but those it had to evict: so a notice
\* goes out again within that time only when both were under way at once or
\* the store was full.
RecentIsHeld ==
    /\ Len(recorded) <= MaxNotices
    /\ \A i, j \in DOMAIN recorded : recorded[i] = recorded[j] => i = j
    /\ \A k \in NoticeKeys :
        Holds(recorded, k) \/ IsExpired(k) \/ k \in evicted

\* Courier sessions do not pile up: there are those in use, and those that
\* could not be deleted.
InUse == {n \in Notifiers : notice[n].at \in {"prompting", "deleting"}}
CouriersAreUsed ==
    /\ IsFiniteSet(InUse)
    /\ Cardinality(InUse) <= couriers /\ couriers <= losses + Cardinality(InUse)

NoticeInv == NoticeTypeOK /\ RecentIsHeld /\ CouriersAreUsed
=============================================================================
