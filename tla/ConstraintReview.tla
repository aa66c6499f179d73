-------------------------- MODULE ConstraintReview -------------------------
(***************************************************************************)
(* src/hooks/constraint-reviewer.ts for one session: every write is        *)
(* reviewed by an agent, a blocked one is retried a number of times before *)
(* it is raised to the user, who can override the review.  Reviews are     *)
(* awaited, so writes of one file, the override and the deletion of the    *)
(* session overlap with them.                                              *)
(***************************************************************************)
EXTENDS Naturals, FiniteSets

CONSTANTS
    Files,
    Reviews,     \* reviews that may be under way
    MaxRetries,  \* config.mindmodel.reviewMaxRetries
    MaxOverrides \* bound on overrides

ASSUME ReviewAssumption == {MaxRetries, MaxOverrides} \subseteq Nat

NoFile == "no file"

VARIABLES
    review,    \* the file each review is about and the state it will change
    retries,   \* retryCountByFile of the state the map holds
    orphaned,  \* retryCountByFile of a state that was dropped meanwhile
    override,  \* overrideActive
    dropped,   \* cleanupSession has come
    overrides, \* ghost: overrides given (bounded)
    skipped,   \* ghost: writes that were not reviewed
    rejected   \* ghost: rejections of a file since it last passed or was raised

reviewVars == <<review, retries, orphaned, override, dropped, overrides,
                skipped, rejected>>

Idle == [file |-> NoFile, orphan |-> FALSE]
Counts == [Files -> 0..MaxRetries]
NoRetries == [f \in Files |-> 0]

ReviewTypeOK ==
    /\ review \in [Reviews -> [file : Files \cup {NoFile}, orphan : BOOLEAN]]
    /\ retries \in Counts /\ orphaned \in Counts
    /\ {override, dropped} \subseteq BOOLEAN
    /\ overrides \in 0..MaxOverrides /\ skipped \in Nat
    /\ rejected \in [Files -> Nat]

ReviewInit ==
    /\ review = [r \in Reviews |-> Idle]
    /\ retries = NoRetries /\ orphaned = NoRetries
    /\ override = FALSE /\ dropped = FALSE
    /\ overrides = 0 /\ skipped = 0 /\ rejected = NoRetries

\* Mutant of WriteSkipped: the override is left for the rest of the turn.
WriteSkippedKeeps ==
    /\ override /\ UNCHANGED override
    /\ skipped' = skipped + 1
    /\ UNCHANGED <<review, retries, orphaned, dropped, overrides, rejected>>

\* reviewToolOutput with an override, which one write uses up.
WriteSkipped ==
    /\ override /\ override' = FALSE
    /\ skipped' = skipped + 1
    /\ UNCHANGED <<review, retries, orphaned, dropped, overrides, rejected>>

ReviewStarts(r, f) ==
    /\ ~override /\ review[r] = Idle
    /\ review' = [review EXCEPT ![r] = [file |-> f, orphan |-> FALSE]]
    /\ UNCHANGED <<retries, orphaned, override, dropped, overrides, skipped,
                   rejected>>

Ends(r) == review' = [review EXCEPT ![r] = Idle]

\* The counts of the state that review r holds become c.
CountsBecome(r, c) ==
    IF review[r].orphan
    THEN orphaned' = c /\ UNCHANGED <<retries, rejected>>
    ELSE /\ retries' = c /\ UNCHANGED orphaned
CountsOf(r) == IF review[r].orphan THEN orphaned ELSE retries

\* review and parseReviewResponse
Passed(r) ==
    /\ review[r] # Idle /\ Ends(r)
    /\ CountsBecome(r, [CountsOf(r) EXCEPT ![review[r].file] = 0])
    /\ ~review[r].orphan => rejected' = [rejected EXCEPT ![review[r].file] = 0]
    /\ UNCHANGED <<override, dropped, overrides, skipped>>

\* Mutant of Retried: the count is the one read when the review began.
RetriedUncounted(r) ==
    /\ review[r] # Idle /\ Ends(r)
    /\ CountsOf(r)[review[r].file] < MaxRetries
    /\ CountsBecome(r, [CountsOf(r) EXCEPT ![review[r].file] = 1])
    /\ ~review[r].orphan
        => rejected' = [rejected EXCEPT ![review[r].file] = @ + 1]
    /\ UNCHANGED <<override, dropped, overrides, skipped>>

\* handleViolations: retried, or raised to the user.
Retried(r) ==
    /\ review[r] # Idle /\ Ends(r)
    /\ CountsOf(r)[review[r].file] < MaxRetries
    /\ CountsBecome(r, [CountsOf(r) EXCEPT ![review[r].file] = @ + 1])
    /\ ~review[r].orphan
        => rejected' = [rejected EXCEPT ![review[r].file] = @ + 1]
    /\ UNCHANGED <<override, dropped, overrides, skipped>>

Raised(r) ==
    /\ review[r] # Idle /\ Ends(r)
    /\ CountsOf(r)[review[r].file] >= MaxRetries
    /\ CountsBecome(r, [CountsOf(r) EXCEPT ![review[r].file] = 0])
    /\ ~review[r].orphan => rejected' = [rejected EXCEPT ![review[r].file] = 0]
    /\ UNCHANGED <<override, dropped, overrides, skipped>>

\* handleReviewError: a failed review lets the write through.
ReviewFails(r) ==
    /\ review[r] # Idle /\ Ends(r)
    /\ UNCHANGED <<retries, orphaned, override, dropped, overrides, skipped,
                   rejected>>

\* handleChatMessage
OverrideGiven ==
    /\ overrides < MaxOverrides
    /\ override' = TRUE /\ overrides' = overrides + 1
    /\ UNCHANGED <<review, retries, orphaned, dropped, skipped, rejected>>

\* cleanupSession: reviews under way keep the state they took.
ReviewsCleaned ==
    /\ ~dropped /\ dropped' = TRUE
    /\ orphaned' = retries /\ retries' = NoRetries /\ override' = FALSE
    /\ review' = [r \in Reviews |->
                    [review[r] EXCEPT !.orphan = review[r] # Idle]]
    /\ rejected' = NoRetries
    /\ UNCHANGED <<overrides, skipped>>

ReviewNext ==
    \/ WriteSkipped \/ OverrideGiven \/ ReviewsCleaned
    \/ \E r \in Reviews :
        \/ \E f \in Files : ReviewStarts(r, f)
        \/ Passed(r) \/ Retried(r) \/ Raised(r) \/ ReviewFails(r)

ReviewSpec == ReviewInit /\ [][ReviewNext]_reviewVars

-----------------------------------------------------------------------------
(* Properties                                                              *)

\* However reviews of one file overlap, it is rejected at most MaxRetries times
\* before the user hears of it, and the count is of this session's rejections.
RaisedInTime ==
    \A f \in Files : rejected[f] <= MaxRetries /\ rejected[f] = retries[f]

\* Each override lets at most one write through unreviewed.
OverrideIsUsedUp == skipped <= overrides

\* Why: the one that is active has not been used, and only a review under way
\* can hold a dropped state.
OverridesAreCounted ==
    /\ override => skipped < overrides
    /\ \A r \in Reviews : review[r].orphan => review[r].file \in Files

ReviewInv ==
    ReviewTypeOK /\ RaisedInTime /\ OverrideIsUsedUp /\ OverridesAreCounted
=============================================================================
