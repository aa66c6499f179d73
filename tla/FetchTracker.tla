--------------------------- MODULE FetchTracker ----------------------------
(***************************************************************************)
(* src/hooks/fetch-tracker.ts for one session: what an agent is shown when *)
(* it fetches a resource again.  A result is the version the resource had; *)
(* the hook replaces it by the cached one, or by a refusal.                *)
(***************************************************************************)
EXTENDS Naturals, SequencesExt

CONSTANTS
    Resources,  \* normalized keys
    MaxEntries, \* config.fetch.cacheMaxEntries
    MaxCalls,   \* config.fetch.maxCallsPerResource
    MaxVersion  \* bound on changes of a resource

ASSUME FetchAssumption ==
    {MaxEntries, MaxCalls, MaxVersion} \subseteq Nat \ {0}

VARIABLES
    version, \* the version each resource has now
    calls,   \* sessionCallCounts
    cached,  \* sessionCaches: the LRU cache, oldest entry first
    expired, \* resources whose entry is older than cacheTtlMs
    shown,   \* ghost: versions the conversation was shown
    blocked, \* ghost: resources refused in this conversation
    empty    \* ghost: resources that have answered with nothing

fetchVars == <<version, calls, cached, expired, shown, blocked, empty>>

Entries == [key : Resources, version : 1..MaxVersion]

FetchTypeOK ==
    /\ version \in [Resources -> 1..MaxVersion]
    /\ calls \in [Resources -> 0..(MaxCalls + 1)]
    /\ cached \in Seq(Entries) /\ Len(cached) <= MaxEntries
    /\ shown \in [Resources -> SUBSET (1..MaxVersion)]
    /\ {expired, blocked, empty} \subseteq SUBSET Resources

FetchInit ==
    /\ version = [k \in Resources |-> 1]
    /\ calls = [k \in Resources |-> 0]
    /\ cached = <<>> /\ expired = {}
    /\ shown = [k \in Resources |-> {}] /\ blocked = {} /\ empty = {}

\* createLRUCache: set and get move an entry to the end, set makes room for
\* a new one.
Has(k) == \E e \in ToSet(cached) : e.key = k
PlaceOf(k) == CHOOSE i \in DOMAIN cached : cached[i].key = k
Without(k) == IF Has(k) THEN RemoveAt(cached, PlaceOf(k)) ELSE cached
EntryOf(k) == CHOOSE e \in ToSet(cached) : e.key = k

\* Mutant of Stored: a full cache makes no room.
StoredUnbounded(k, v) == Append(Without(k), [key |-> k, version |-> v])

Stored(k, v) ==
    Append(IF ~Has(k) /\ Len(cached) >= MaxEntries
           THEN Tail(cached) ELSE Without(k), [key |-> k, version |-> v])

Count(k) == IF calls[k] > MaxCalls THEN calls[k] ELSE calls[k] + 1

\* Mutant of FetchStored: an empty result is cached like any other.
FetchStoredEmpty(k, result) ==
    /\ Count(k) <= MaxCalls
    /\ ~(Count(k) > 1 /\ Has(k) /\ k \notin expired)
    /\ calls' = [calls EXCEPT ![k] = Count(k)]
    /\ cached' = Stored(k, version[k]) /\ expired' = expired \ {k}
    /\ shown' = IF result = "some"
                THEN [shown EXCEPT ![k] = @ \cup {version[k]}] ELSE shown
    /\ empty' = IF result = "some" THEN empty ELSE empty \cup {k}
    /\ UNCHANGED <<version, blocked>>

\* handleFetchAfter, the three ways out.  The count is kept at one above the
\* maximum, which is as far as it is told apart.
FetchBlocked(k) ==
    /\ Count(k) > MaxCalls
    /\ calls' = [calls EXCEPT ![k] = Count(k)]
    /\ blocked' = blocked \cup {k}
    /\ UNCHANGED <<version, cached, expired, shown, empty>>

FetchCached(k) ==
    /\ Count(k) <= MaxCalls /\ Count(k) > 1 /\ Has(k) /\ k \notin expired
    /\ calls' = [calls EXCEPT ![k] = Count(k)]
    /\ cached' = Append(Without(k), EntryOf(k))
    /\ shown' = [shown EXCEPT ![k] = @ \cup {EntryOf(k).version}]
    /\ UNCHANGED <<version, expired, blocked, empty>>

FetchStored(k, result) ==
    /\ Count(k) <= MaxCalls
    /\ ~(Count(k) > 1 /\ Has(k) /\ k \notin expired)
    /\ calls' = [calls EXCEPT ![k] = Count(k)]
    /\ IF result = "some"
       THEN /\ cached' = Stored(k, version[k]) /\ expired' = expired \ {k}
            /\ shown' = [shown EXCEPT ![k] = @ \cup {version[k]}]
            /\ UNCHANGED empty
       ELSE /\ empty' = empty \cup {k}
            /\ cached' = IF Has(k) THEN Append(Without(k), EntryOf(k))
                         ELSE cached
            /\ UNCHANGED <<expired, shown>>
    /\ UNCHANGED <<version, blocked>>

EntryExpires(k) ==
    /\ Has(k) /\ k \notin expired
    /\ expired' = expired \cup {k}
    /\ UNCHANGED <<version, calls, cached, shown, blocked, empty>>

ResourceChanges(k) ==
    /\ version[k] < MaxVersion
    /\ version' = [version EXCEPT ![k] = @ + 1]
    /\ UNCHANGED <<calls, cached, expired, shown, blocked, empty>>

\* clearSession; the next session has a conversation of its own.
FetchesCleared ==
    /\ calls' = [k \in Resources |-> 0]
    /\ cached' = <<>> /\ expired' = {}
    /\ shown' = [k \in Resources |-> {}] /\ blocked' = {} /\ empty' = {}
    /\ UNCHANGED version

FetchNext ==
    \/ \E k \in Resources :
        \/ FetchBlocked(k) \/ FetchCached(k)
        \/ \E result \in {"some", "none"} : FetchStored(k, result)
        \/ EntryExpires(k) \/ ResourceChanges(k)
    \/ FetchesCleared

FetchSpec == FetchInit /\ [][FetchNext]_fetchVars

-----------------------------------------------------------------------------
(* Properties                                                              *)

\* What a refusal or a cached answer stands for has been in this conversation,
\* whatever was evicted, expired or changed in between: a resource is refused
\* only after it was shown, unless it answered with nothing, and a cached
\* version is never one the conversation has not seen.
ShownBefore ==
    /\ \A k \in blocked : shown[k] # {} \/ k \in empty
    /\ \A e \in ToSet(cached) : e.version \in shown[e.key]

\* Why: each call that counts has shown the resource or found nothing.
CountedWasShown ==
    \A k \in Resources : calls[k] > 0 => shown[k] # {} \/ k \in empty

FetchInv == FetchTypeOK /\ ShownBefore /\ CountedWasShown
=============================================================================
