---------------------------- MODULE AutoCompact ----------------------------
(***************************************************************************)
(* src/hooks/auto-compact.ts for one session.  A message over the          *)
(* threshold starts a compaction: it asks the host to summarize, waits for *)
(* the summary message under a timeout, writes the ledger and prompts the  *)
(* session to continue.  The wait is registered by session, so what one    *)
(* compaction leaves behind the next one meets.                            *)
(***************************************************************************)
EXTENDS Naturals, FiniteSets

CONSTANTS
    Compactions,  \* calls of triggerCompaction that may be under way
    NoCompaction

ASSUME CompactAssumption == NoCompaction \notin Compactions

VARIABLES
    compaction, \* where each call is
    waiting,    \* state.pendingCompactions: the call that waits, if any
    waitTimers, \* calls whose timeout is armed
    settled,    \* how the promise of each call's wait was settled
    inProgress, \* state.inProgress
    cooling,    \* lastCompactTime is less than the cooldown ago
    alive        \* session.deleted has not come

compactVars == <<compaction, waiting, waitTimers, settled, inProgress, cooling,
                 alive>>

Stages == {"none", "toast", "summarizing", "waiting", "ledger", "continuing"}

CompactTypeOK ==
    /\ compaction \in [Compactions -> Stages]
    /\ waiting \in Compactions \cup {NoCompaction}
    /\ waitTimers \subseteq Compactions
    /\ settled \in [Compactions -> {"open", "resolved", "rejected"}]
    /\ {inProgress, cooling, alive} \subseteq BOOLEAN

CompactInit ==
    /\ compaction = [c \in Compactions |-> "none"]
    /\ waiting = NoCompaction /\ waitTimers = {}
    /\ settled = [c \in Compactions |-> "open"]
    /\ inProgress = FALSE /\ cooling = FALSE /\ alive = TRUE

\* Mutant of OverThreshold: only the pending wait keeps calls apart.
OverThresholdUnmarked(c) ==
    /\ waiting = NoCompaction
    /\ ~cooling
    /\ compaction[c] = "none" /\ c \notin waitTimers
    /\ inProgress' = TRUE
    /\ compaction' = [compaction EXCEPT ![c] = "toast"]
    /\ settled' = [settled EXCEPT ![c] = "open"]
    /\ UNCHANGED <<waiting, waitTimers, cooling, alive>>

\* handleMessageUpdated over the threshold and triggerCompaction up to the
\* toast.  Late messages of a deleted session do the same.
OverThreshold(c) ==
    /\ waiting = NoCompaction
    /\ ~inProgress /\ ~cooling
    /\ compaction[c] = "none" /\ c \notin waitTimers
    /\ inProgress' = TRUE
    /\ compaction' = [compaction EXCEPT ![c] = "toast"]
    /\ settled' = [settled EXCEPT ![c] = "open"]
    /\ UNCHANGED <<waiting, waitTimers, cooling, alive>>

\* Mutant of WaitStarts: the wait is registered without a timeout.
WaitStartsUntimed(c) ==
    /\ compaction[c] = "toast"
    /\ compaction' = [compaction EXCEPT ![c] = "summarizing"]
    /\ waiting' = c
    /\ UNCHANGED <<settled, waitTimers, inProgress, cooling, alive>>

\* waitForCompaction, before summarize is called.
WaitStarts(c) ==
    /\ compaction[c] = "toast"
    /\ compaction' = [compaction EXCEPT ![c] = "summarizing"]
    /\ waiting' = c /\ waitTimers' = waitTimers \cup {c}
    /\ UNCHANGED <<settled, inProgress, cooling, alive>>

SummarizeReturns(c) ==
    /\ compaction[c] = "summarizing"
    /\ compaction' = [compaction EXCEPT ![c] = "waiting"]
    /\ UNCHANGED <<waiting, waitTimers, settled, inProgress, cooling, alive>>

\* catch and finally: the wait and its timer stay behind.
SummarizeFails(c) ==
    /\ compaction[c] = "summarizing"
    /\ compaction' = [compaction EXCEPT ![c] = "none"]
    /\ inProgress' = FALSE
    /\ UNCHANGED <<waiting, waitTimers, settled, cooling, alive>>

\* resolvePendingAsComplete, for a summary the host or the user asked for.
SummaryMessage ==
    /\ waiting # NoCompaction
    /\ waiting' = NoCompaction
    /\ waitTimers' = waitTimers \ {waiting}
    /\ settled' = [settled EXCEPT ![waiting] = "resolved"]
    /\ UNCHANGED <<compaction, inProgress, cooling, alive>>

\* Mutant of WaitTimesOut: the entry is left for the session.
WaitTimesOutKept(c) ==
    /\ c \in waitTimers
    /\ waitTimers' = waitTimers \ {c}
    /\ settled' = [settled EXCEPT ![c] = "rejected"]
    /\ UNCHANGED <<compaction, waiting, inProgress, cooling, alive>>

\* The timeout of one call removes the session's entry, whosever it is.
WaitTimesOut(c) ==
    /\ c \in waitTimers
    /\ waitTimers' = waitTimers \ {c}
    /\ waiting' = NoCompaction
    /\ settled' = [settled EXCEPT ![c] = "rejected"]
    /\ UNCHANGED <<compaction, inProgress, cooling, alive>>

\* The wait is over: the cooldown starts, or the call ends with an error.
WaitEnds(c) ==
    /\ compaction[c] = "waiting" /\ settled[c] # "open"
    /\ IF settled[c] = "resolved"
       THEN /\ cooling' = TRUE
            /\ compaction' = [compaction EXCEPT ![c] = "ledger"]
            /\ UNCHANGED inProgress
       ELSE /\ compaction' = [compaction EXCEPT ![c] = "none"]
            /\ inProgress' = FALSE
            /\ UNCHANGED cooling
    /\ UNCHANGED <<waiting, waitTimers, settled, alive>>

\* writeSummaryToLedger, which never fails the call.
LedgerWritten(c) ==
    /\ compaction[c] = "ledger"
    /\ compaction' = [compaction EXCEPT ![c] = "continuing"]
    /\ UNCHANGED <<waiting, waitTimers, settled, inProgress, cooling, alive>>

\* autoContinueAfterCompaction and finally.
Continued(c) ==
    /\ compaction[c] = "continuing"
    /\ compaction' = [compaction EXCEPT ![c] = "none"]
    /\ inProgress' = FALSE
    /\ UNCHANGED <<waiting, waitTimers, settled, cooling, alive>>

CooldownEnds ==
    /\ cooling /\ cooling' = FALSE
    /\ UNCHANGED <<compaction, waiting, waitTimers, settled, inProgress, alive>>

\* handleSessionDeleted and resolvePendingWithError.
CompactingSessionDeleted ==
    /\ alive /\ alive' = FALSE
    /\ inProgress' = FALSE /\ cooling' = FALSE
    /\ waiting' = NoCompaction
    /\ waitTimers' = waitTimers \ {waiting}
    /\ settled' = [c \in Compactions |->
                        IF c = waiting THEN "rejected" ELSE settled[c]]
    /\ UNCHANGED <<compaction>>

CompactNext ==
    \/ \E c \in Compactions :
        \/ OverThreshold(c) \/ WaitStarts(c)
        \/ SummarizeReturns(c) \/ SummarizeFails(c)
        \/ WaitTimesOut(c) \/ WaitEnds(c) \/ LedgerWritten(c) \/ Continued(c)
    \/ SummaryMessage \/ CooldownEnds \/ CompactingSessionDeleted

CompactSpec == CompactInit /\ [][CompactNext]_compactVars

\* The calls go on, timers fire and the host answers summarize.
CompactFairness ==
    \A c \in Compactions :
        WF_compactVars(\/ WaitStarts(c) \/ SummarizeReturns(c)
                       \/ WaitTimesOut(c) \/ WaitEnds(c)
                       \/ LedgerWritten(c) \/ Continued(c))
CompactLive == CompactSpec /\ CompactFairness

-----------------------------------------------------------------------------
(* Properties                                                              *)

\* A session is compacted by one call at a time, also while the toast of the
\* call is awaited and before it has registered its wait.
OneCompaction ==
    alive => Cardinality({c \in Compactions : compaction[c] # "none"}) <= 1

\* A registered wait always has a timeout, so what a failed summarize leaves
\* behind cannot keep compactions off for ever.
WaitIsTimed == waiting # NoCompaction => waiting \in waitTimers

\* A call under way has the session marked, while it lives, until it ends.
CompactingIsMarked ==
    alive => \A c \in Compactions : compaction[c] # "none" => inProgress

CompactInv == CompactTypeOK /\ OneCompaction /\ CompactingIsMarked /\ WaitIsTimed

\* Every compaction ends, whatever becomes of the summary, of the session or
\* of a second compaction that takes its place in the map.
CompactionsEnd ==
    \A c \in Compactions : compaction[c] # "none" ~> compaction[c] = "none"
=============================================================================
