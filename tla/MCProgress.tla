----------------------------- MODULE MCProgress -----------------------------
(***************************************************************************)
(* What must come to an end by itself: the calls of spawn_agent, upstream  *)
(* retries and compactions.  A behaviour is one of the part it starts      *)
(* with, while the others stay as they began.                              *)
(***************************************************************************)
EXTENDS SpawnAgent, SessionRecovery, AutoCompact

VARIABLE part

progressVars == <<part, vars, recoveryVars, compactVars>>

ProgressInit ==
    /\ part \in {"spawn", "recovery", "compact"}
    /\ Init /\ RecoveryInit /\ CompactInit

ProgressNext ==
    /\ UNCHANGED part
    /\ \/ part = "spawn" /\ Next /\ UNCHANGED <<recoveryVars, compactVars>>
       \/ part = "recovery" /\ RecoveryNext /\ UNCHANGED <<vars, compactVars>>
       \/ part = "compact" /\ CompactNext /\ UNCHANGED <<vars, recoveryVars>>

\* What is fair is disabled in the parts that stay as they began.
ProgressSpec ==
    /\ ProgressInit /\ [][ProgressNext]_progressVars
    /\ StepFairness /\ RecoveryFairness /\ CompactFairness

(***************************************************************************)
(* What keeps failing calls from going on for ever, or from never going on *)
(* again: a lock or a wait always has a timer, and prompts are counted     *)
(* (src/hooks/session-recovery.ts, src/hooks/auto-compact.ts).             *)
(***************************************************************************)
ProgressInv == RecoveryInv /\ CompactInv
=============================================================================
