---------------------------- MODULE MCLifecycle ----------------------------
(***************************************************************************)
(* Two kinds of behaviour in one run.  When the calls come alone, there is *)
(* one at a time, of any length, and the process may die between any two   *)
(* steps: it makes two commits, or one commit and another artifact;        *)
(* otherwise two calls interleave as they like in a process that lives, on *)
(* a branch with one commit, and gh always edits the body.                 *)
(***************************************************************************)
EXTENDS Lifecycle, TLC

VARIABLE alone

mcVars == <<alone, vars>>

CallSymmetry == Permutations(Calls)

PointersUnused == \A c \in Calls : calls[c].rec.artifacts \cap Pointers = {}

Bounded ==
    IF alone THEN /\ Alone
                  /\ git.made <= 1 \/ PointersUnused
    ELSE crashes = 0 /\ git.made <= 1 /\ PointersUnused

\* The step of a call that edits the body edits it.
BodyEdited ==
    \A c \in Calls :
       calls[c].at \in {"saved", "marked"} /\ calls'[c].at # calls[c].at
       => body' = MarksOf(calls[c].rec)

MCInit == Init /\ alone \in BOOLEAN
MCNext == Next /\ UNCHANGED alone /\ Bounded' /\ (alone \/ BodyEdited)
MCSpec == MCInit /\ [][MCNext]_mcVars

(***************************************************************************)
(* When calls come one at a time, no save moves the record back or drops   *)
(* an artifact of it, crashes included; only lifecycle_resume may.         *)
(***************************************************************************)
RecordOnlyGrows == [][alone => RecordGrows]_mcVars

(***************************************************************************)
(* When calls come one at a time, the branch lands on the base only while  *)
(* the saved record says merging: a process that dies right after the push *)
(* leaves a record that says so.                                           *)
(***************************************************************************)
LandsUnderMark == [][alone => LandsMarked]_mcVars
=============================================================================
