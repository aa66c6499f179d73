-------------------------- MODULE OcttoAutoResume --------------------------
(***************************************************************************)
(* Auto-resume: when the user answers a question, the OpenCode session     *)
(* that owns the octto conversation is prompted to fetch the answer.       *)
(* src/octto/auto-resume/dispatcher.ts and registry.ts, with the attempt   *)
(* registry of src/workflow-retry/.                                        *)
(*                                                                         *)
(* Answers of one conversation that arrive within a quiet window form one  *)
(* batch.  A batch is prompted; when the provider fails in a way that may  *)
(* pass, the same batch is prompted again after an interval, a bounded     *)
(* number of times.  What interleaves are answers, quiet-window timers,    *)
(* prompts in flight (the model lookup and the prompt are awaited) and     *)
(* retry timers, of several conversations of the same owner.               *)
(***************************************************************************)
EXTENDS Naturals, FiniteSets

CONSTANTS
    Owners,         \* OpenCode session ids
    Conversations,  \* octto session ids
    QuestionIds,      \* question ids; each is answered at most once
    NoOwner,        \* lookup() returned null
    MaxAttempts     \* WORKFLOW_CONTINUATION_RETRY_POLICY.maxAttempts, 20

ASSUME OwnerAssumption == NoOwner \notin Owners
ASSUME AttemptAssumption == MaxAttempts \in Nat \ {0}

VARIABLES
    owner,     \* the registry: the owner of each conversation
    ended,     \* conversations whose session has been torn down
    pending,   \* per owner and conversation, the questions of the open batch;
               \* {} when there is none.  Its quiet-window timer is armed
               \* exactly while the batch exists
    prompting, \* batches whose prompt is in flight
    retrying,  \* batches whose retry timer is armed
    attempts,  \* upstreamAttempts: failures recorded per key
    locked,    \* upstreamAttempts: keys being processed
    outcome    \* what became of each question's answer

vars == <<owner, ended, pending, prompting, retrying, attempts, locked, outcome>>

\* buildPendingKey, and buildUpstreamAttemptKey without its error class.
Keys == Owners \X Conversations
Batches == [key : Keys, questions : (SUBSET QuestionIds) \ {{}}]
KeysOf(o) == {key \in Keys : key[1] = o}

Final == {"delivered", "unowned", "refused", "exhausted", "dropped"}
TypeOK ==
    /\ owner \in [Conversations -> Owners \cup {NoOwner}]
    /\ ended \subseteq Conversations
    /\ pending \in [Keys -> SUBSET QuestionIds]
    /\ prompting \subseteq Batches
    /\ retrying \subseteq Batches
    /\ attempts \in [Keys -> 0..MaxAttempts]
    /\ locked \subseteq Keys
    /\ outcome \in [QuestionIds -> {"unanswered", "accepted"} \cup Final]

Init ==
    /\ owner = [c \in Conversations |-> NoOwner]
    /\ ended = {}
    /\ pending = [key \in Keys |-> {}]
    /\ prompting = {} /\ retrying = {}
    /\ attempts = [key \in Keys |-> 0]
    /\ locked = {}
    /\ outcome = [q \in QuestionIds |-> "unanswered"]

-----------------------------------------------------------------------------
(* The attempt registry: a bounded counter and a lock per key.  A lock also  *)
(* expires by a timer, but this client releases it after intervalMs and      *)
(* creates the registry with expiryMs = 2 * intervalMs, so the release comes *)
(* first and the expiry is left out.                                         *)

\* record: one attempt more, which saturates at MaxAttempts.
Recorded(count, key) ==
    [count EXCEPT ![key] = IF @ >= MaxAttempts THEN @ ELSE @ + 1]

\* record(...).exhausted: this attempt must not be made.
Exhausted(count, key) == count[key] + 1 >= MaxAttempts

\* clearSession: forget the counts of the keys of one session.
Cleared(count, keys) ==
    [key \in DOMAIN count |-> IF key \in keys THEN 0 ELSE count[key]]

-----------------------------------------------------------------------------
(* Conversations                                                             *)

Becomes(questions, what) ==
    outcome' = [q \in QuestionIds |-> IF q \in questions THEN what ELSE outcome[q]]

\* octtoTracker.onCreated: start_session has returned.
Register(c, o) ==
    /\ owner[c] = NoOwner /\ c \notin ended
    /\ owner' = [owner EXCEPT ![c] = o]
    /\ UNCHANGED <<ended, pending, prompting, retrying, attempts, locked, outcome>>

\* onSessionEnded: the conversation takes no more answers, but batches and
\* retries that exist go on.
Unregister(c) ==
    /\ c \notin ended
    /\ owner' = [owner EXCEPT ![c] = NoOwner]
    /\ ended' = ended \cup {c}
    /\ UNCHANGED <<pending, prompting, retrying, attempts, locked, outcome>>

\* An answer of a conversation nobody is registered for: start_session has not
\* returned yet, or the conversation was restored from disk.
AnswerUnowned(q, c) ==
    /\ outcome[q] = "unanswered"
    /\ owner[c] = NoOwner /\ c \notin ended
    /\ Becomes({q}, "unowned")
    /\ UNCHANGED <<owner, ended, pending, prompting, retrying, attempts, locked>>

\* handle: the answer joins the conversation's open batch, whose quiet window
\* starts again.
AnswerOwned(q, c) ==
    /\ outcome[q] = "unanswered"
    /\ owner[c] # NoOwner
    /\ pending' = [pending EXCEPT ![<<owner[c], c>>] = @ \cup {q}]
    /\ Becomes({q}, "accepted")
    /\ UNCHANGED <<owner, ended, prompting, retrying, attempts, locked>>

\* Mutant of QuietWindowEnds: flush leaves the batch in the map.
QuietWindowEndsKeepsBatch(key) ==
    /\ pending[key] # {}
    /\ prompting' = prompting \cup {[key |-> key, questions |-> pending[key]]}
    /\ UNCHANGED <<owner, ended, pending, retrying, attempts, locked, outcome>>

\* flush: the batch is closed before its prompt is awaited, so later answers
\* open another.
QuietWindowEnds(key) ==
    /\ pending[key] # {}
    /\ pending' = [pending EXCEPT ![key] = {}]
    /\ prompting' = prompting \cup {[key |-> key, questions |-> pending[key]]}
    /\ UNCHANGED <<owner, ended, retrying, attempts, locked, outcome>>

\* The prompt is accepted: the owner's failures are forgotten, those of its
\* other conversations too, together with their locks.
PromptSucceeds(b) ==
    /\ b \in prompting
    /\ prompting' = prompting \ {b}
    /\ attempts' = Cleared(attempts, KeysOf(b.key[1]))
    /\ locked' = locked \ KeysOf(b.key[1])
    /\ Becomes(b.questions, "delivered")
    /\ UNCHANGED <<owner, ended, pending, retrying>>

\* The prompt fails with an error that is not a passing upstream failure.
PromptRefused(b) ==
    /\ b \in prompting
    /\ prompting' = prompting \ {b}
    /\ Becomes(b.questions, "refused")
    /\ UNCHANGED <<owner, ended, pending, retrying, attempts, locked>>

\* scheduleUpstreamRetry while the key is locked: beginProcessing refuses, and
\* the batch is forgotten.
FailureDropped(b) ==
    /\ b \in prompting
    /\ b.key \in locked
    /\ prompting' = prompting \ {b}
    /\ Becomes(b.questions, "dropped")
    /\ UNCHANGED <<owner, ended, pending, retrying, attempts, locked>>

\* scheduleUpstreamRetry with no attempts left.
FailureExhausted(b) ==
    /\ b \in prompting
    /\ b.key \notin locked
    /\ Exhausted(attempts, b.key)
    /\ prompting' = prompting \ {b}
    /\ attempts' = Recorded(attempts, b.key)
    /\ Becomes(b.questions, "exhausted")
    /\ UNCHANGED <<owner, ended, pending, retrying, locked>>

\* Mutant of FailureRetried: the failure is not recorded.
FailureRetriedUnrecorded(b) ==
    /\ b \in prompting
    /\ b.key \notin locked
    /\ ~Exhausted(attempts, b.key)
    /\ prompting' = prompting \ {b}
    /\ retrying' = retrying \cup {b}
    /\ locked' = locked \cup {b.key}
    /\ UNCHANGED <<owner, ended, pending, attempts, outcome>>

\* scheduleUpstreamRetry: the batch waits for its interval.
FailureRetried(b) ==
    /\ b \in prompting
    /\ b.key \notin locked
    /\ ~Exhausted(attempts, b.key)
    /\ prompting' = prompting \ {b}
    /\ retrying' = retrying \cup {b}
    /\ attempts' = Recorded(attempts, b.key)
    /\ locked' = locked \cup {b.key}
    /\ UNCHANGED <<owner, ended, pending, outcome>>

\* Mutant of RetryFires: the batch is queued again instead of being resent.
RetryFiresRebatched(b) ==
    /\ b \in retrying
    /\ retrying' = retrying \ {b}
    /\ locked' = locked \ {b.key}
    /\ pending' = [pending EXCEPT ![b.key] = @ \cup b.questions]
    /\ UNCHANGED <<owner, ended, prompting, attempts, outcome>>

\* Mutant of RetryFires: the lock is left to its expiry.
RetryFiresLocked(b) ==
    /\ b \in retrying
    /\ retrying' = retrying \ {b}
    /\ prompting' = prompting \cup {b}
    /\ UNCHANGED <<owner, ended, pending, attempts, locked, outcome>>

\* The retry timer of a batch: the same batch is prompted again.
RetryFires(b) ==
    /\ b \in retrying
    /\ retrying' = retrying \ {b}
    /\ prompting' = prompting \cup {b}
    /\ locked' = locked \ {b.key}
    /\ UNCHANGED <<owner, ended, pending, attempts, outcome>>

Next ==
    \/ \E c \in Conversations, o \in Owners : Register(c, o)
    \/ \E c \in Conversations : Unregister(c)
    \/ \E q \in QuestionIds, c \in Conversations :
         AnswerUnowned(q, c) \/ AnswerOwned(q, c)
    \/ \E key \in Keys : QuietWindowEnds(key)
    \/ \E b \in prompting :
         \/ PromptSucceeds(b) \/ PromptRefused(b)
         \/ FailureDropped(b) \/ FailureExhausted(b) \/ FailureRetried(b)
    \/ \E b \in retrying : RetryFires(b)

\* Timers fire, and a prompt request ends, well or not.
Fairness ==
    /\ \A key \in Keys : WF_vars(QuietWindowEnds(key))
    /\ \A b \in Batches :
        /\ WF_vars(RetryFires(b))
        /\ WF_vars(\/ PromptSucceeds(b) \/ PromptRefused(b) \/ FailureDropped(b)
                   \/ FailureExhausted(b) \/ FailureRetried(b))

Spec == Init /\ [][Next]_vars
FairSpec == Spec /\ Fairness

-----------------------------------------------------------------------------
(* Properties                                                              *)

\* Where an accepted answer is waiting to be delivered.
InPending(q) == {key \in Keys : q \in pending[key]}
InBatch(q) == {b \in prompting \cup retrying : q \in b.questions}

\* An accepted answer is in exactly one place until its outcome is known, so
\* it is neither forgotten nor sent by two batches, and a settled one is in
\* none.
OnePlacePerAnswer ==
    /\ prompting \cap retrying = {}
    /\ \A q \in QuestionIds :
        /\ outcome[q] = "accepted" => InPending(q) # {} \/ InBatch(q) # {}
        /\ outcome[q] # "accepted" => InPending(q) = {} /\ InBatch(q) = {}
        /\ \A k, l \in InPending(q) : k = l
        /\ \A b, d \in InBatch(q) : b = d
        /\ InPending(q) = {} \/ InBatch(q) = {}

\* A key stays locked only while a retry timer of that key will release it.
\* A lock that outlived its timer would refuse every later retry of the key.
LocksAreTimed ==
    \A key \in locked : \E b \in retrying : b.key = key

\* A batch that fails is retried as it was: its questions are neither merged
\* with later answers nor split.
BatchesKeepTheirQuestions ==
    [][\A b \in prompting \cup retrying :
            \/ b \in prompting' \cup retrying'
            \/ \A q \in b.questions : outcome'[q] \in Final]_vars

\* As many batches wait for a retry as failures have been recorded since the
\* owner's last success, or fewer: the count bounds the retries of a key.
RetriesAreCounted ==
    \A key \in locked : attempts[key] \in 1..(MaxAttempts - 1)

\* Every accepted answer is settled in the end: however failures and successes
\* alternate, no batch is retried for ever.
AnswersSettle ==
    \A q \in QuestionIds : outcome[q] = "accepted" ~> outcome[q] \in Final

\* The bookkeeping of answers, batches, locks and counts that the dispatcher
\* keeps (src/octto/auto-resume/dispatcher.ts).
ResumeInv ==
    /\ TypeOK
    /\ OnePlacePerAnswer
    /\ LocksAreTimed
    /\ RetriesAreCounted
=============================================================================
