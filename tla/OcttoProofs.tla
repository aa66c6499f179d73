------------------------------ MODULE OcttoProofs ------------------------------
(***************************************************************************)
(* Octto beside its session store, for any sets of sessions, questions,    *)
(* agents, instances, branches and options: the bookkeeping of the         *)
(* auto-resume dispatcher, what the browser's side keeps - the page, the   *)
(* tools, the portal and the forms - and the threads of a brainstorm.      *)
(***************************************************************************)
EXTENDS OcttoAutoResume, OcttoBrainstorm, MCOcttoBrowser, FiniteSetTheorems, SequenceTheorems, TLAPS

-----------------------------------------------------------------------------
(* Attempts                                                                 *)

LEMMA Counting ==
    ASSUME NEW key \in Keys, attempts \in [Keys -> 0 .. MaxAttempts]
    PROVE  /\ Recorded(attempts, key) \in [Keys -> 0 .. MaxAttempts]
           /\ \A k \in Keys \ {key} : Recorded(attempts, key)[k] = attempts[k]
           /\ ~Exhausted(attempts, key) =>
                Recorded(attempts, key)[key] \in 1 .. (MaxAttempts - 1)
  BY AttemptAssumption DEF Recorded, Exhausted

LEMMA Clearing ==
    ASSUME NEW keys \in SUBSET Keys, attempts \in [Keys -> 0 .. MaxAttempts]
    PROVE  /\ Cleared(attempts, keys) \in [Keys -> 0 .. MaxAttempts]
           /\ \A k \in Keys \ keys : Cleared(attempts, keys)[k] = attempts[k]
  BY AttemptAssumption DEF Cleared

-----------------------------------------------------------------------------
(* Types                                                                    *)

Outcomes == {"unanswered", "accepted"} \cup Final

PromptStep(b) == \/ PromptSucceeds(b) \/ PromptRefused(b) \/ FailureDropped(b)
                 \/ FailureExhausted(b) \/ FailureRetried(b)

LEMMA BecomesType ==
    ASSUME TypeOK, NEW some, NEW what \in Outcomes, Becomes(some, what)
    PROVE  /\ outcome' \in [QuestionIds -> Outcomes]
           /\ \A q \in QuestionIds :
                outcome'[q] = IF q \in some THEN what ELSE outcome[q]
  BY DEF TypeOK, Becomes, Outcomes

LEMMA TypeInit == Init => TypeOK
  BY AttemptAssumption, OwnerAssumption DEF Init, TypeOK

LEMMA RegistryType ==
    ASSUME TypeOK, NEW c \in Conversations,
           Unregister(c) \/ \E o \in Owners : Register(c, o)
    PROVE  TypeOK'
  BY DEF TypeOK, Register, Unregister

LEMMA AnswerType ==
    ASSUME TypeOK, NEW q \in QuestionIds, NEW c \in Conversations,
           AnswerUnowned(q, c) \/ AnswerOwned(q, c)
    PROVE  TypeOK'
<1>1. CASE AnswerUnowned(q, c)
  <2>1. outcome' \in [QuestionIds -> Outcomes]
    BY <1>1, BecomesType DEF AnswerUnowned, Outcomes, Final
  <2> QED
    BY <1>1, <2>1 DEF AnswerUnowned, TypeOK, Outcomes
<1>2. CASE AnswerOwned(q, c)
  <2>1. outcome' \in [QuestionIds -> Outcomes]
    BY <1>2, BecomesType DEF AnswerOwned, Outcomes
  <2>2. <<owner[c], c>> \in Keys
    BY <1>2 DEF AnswerOwned, TypeOK, Keys
  <2>3. pending' \in [Keys -> SUBSET QuestionIds]
    BY <1>2, <2>2 DEF AnswerOwned, TypeOK
  <2> QED
    BY <1>2, <2>1, <2>3 DEF AnswerOwned, TypeOK, Outcomes
<1> QED
  BY <1>1, <1>2

LEMMA WindowType ==
    ASSUME TypeOK, NEW key \in Keys, QuietWindowEnds(key) PROVE TypeOK'
<1>1. [key |-> key, questions |-> pending[key]] \in Batches
  BY DEF TypeOK, QuietWindowEnds, Batches
<1>2. pending' \in [Keys -> SUBSET QuestionIds]
  BY DEF TypeOK, QuietWindowEnds
<1> QED
  BY <1>1, <1>2 DEF TypeOK, QuietWindowEnds

LEMMA PromptType ==
    ASSUME TypeOK, NEW b \in prompting, PromptStep(b)
    PROVE  TypeOK'
<1>1. b \in Batches /\ b.key \in Keys
  BY DEF TypeOK, Batches
<1>2. KeysOf(b.key[1]) \subseteq Keys
  BY DEF KeysOf
<1>3. attempts' \in [Keys -> 0 .. MaxAttempts]
  BY <1>1, <1>2, Counting, Clearing
     DEF TypeOK, PromptStep, PromptSucceeds, PromptRefused, FailureDropped,
         FailureExhausted, FailureRetried
<1>4. outcome' \in [QuestionIds -> Outcomes]
  <2>1. CASE FailureRetried(b)
    BY <2>1 DEF FailureRetried, TypeOK, Outcomes
  <2>2. CASE ~FailureRetried(b)
    <3>1. PICK what \in Outcomes : Becomes(b.questions, what)
      BY <2>2 DEF PromptStep, PromptSucceeds, PromptRefused, FailureDropped,
                  FailureExhausted, Outcomes, Final
    <3> QED
      BY <3>1, BecomesType
  <2> QED
    BY <2>1, <2>2
<1>5. prompting' \subseteq Batches /\ retrying' \subseteq Batches /\ locked' \subseteq Keys
  BY <1>1
     DEF TypeOK, PromptStep, PromptSucceeds, PromptRefused, FailureDropped,
         FailureExhausted, FailureRetried
<1>6. UNCHANGED <<owner, ended, pending>>
  BY DEF PromptStep, PromptSucceeds, PromptRefused, FailureDropped,
         FailureExhausted, FailureRetried
<1> QED
  BY <1>3, <1>4, <1>5, <1>6 DEF TypeOK, Outcomes

LEMMA RetryType ==
    ASSUME TypeOK, NEW b \in retrying, RetryFires(b) PROVE TypeOK'
  BY DEF TypeOK, RetryFires

LEMMA TypeStep == TypeOK /\ [Next]_vars => TypeOK'
<1> SUFFICES ASSUME TypeOK, [Next]_vars PROVE TypeOK'
  OBVIOUS
<1>1. CASE UNCHANGED vars
  BY <1>1 DEF vars, TypeOK
<1>2. CASE Next
  BY <1>2, RegistryType, AnswerType, WindowType, PromptType, RetryType
     DEF Next, PromptStep
<1> QED
  BY <1>1, <1>2

-----------------------------------------------------------------------------
(* Answers                                                                  *)

Waiting == prompting \cup retrying

\* OnePlacePerAnswer, answer by answer.
Placed ==
    /\ \A b \in prompting : b \notin retrying
    /\ \A q \in QuestionIds : outcome[q] = "accepted" =>
          (\E k \in Keys : q \in pending[k]) \/ (\E b \in Waiting : q \in b.questions)
    /\ \A q \in QuestionIds, k \in Keys : q \in pending[k] => outcome[q] = "accepted"
    /\ \A q \in QuestionIds, b \in Waiting : q \in b.questions => outcome[q] = "accepted"
    /\ \A q \in QuestionIds, k, l \in Keys : q \in pending[k] /\ q \in pending[l] => k = l
    /\ \A q \in QuestionIds, b, d \in Waiting :
          q \in b.questions /\ q \in d.questions => b = d
    /\ \A q \in QuestionIds, k \in Keys, b \in Waiting :
          ~(q \in pending[k] /\ q \in b.questions)

LEMMA PlacedIsOnePlace == Placed <=> OnePlacePerAnswer
<1>1. Placed => OnePlacePerAnswer
  BY DEF Placed, Waiting, OnePlacePerAnswer, InPending, InBatch
<1>2. ASSUME OnePlacePerAnswer PROVE Placed
  <2>1. \A q \in QuestionIds, k \in Keys : q \in pending[k] <=> k \in InPending(q)
    BY DEF InPending
  <2>2. \A q \in QuestionIds, b \in Waiting : q \in b.questions <=> b \in InBatch(q)
    BY DEF InBatch, Waiting
  <2>3. /\ \A q \in QuestionIds : InPending(q) # {} => \E k \in Keys : q \in pending[k]
        /\ \A q \in QuestionIds : InBatch(q) # {} => \E b \in Waiting : q \in b.questions
    BY DEF InPending, InBatch, Waiting
  <2> QED
    BY <1>2, <2>1, <2>2, <2>3 DEF Placed, OnePlacePerAnswer
<1> QED
  BY <1>1, <1>2

LEMMA AnswerPlaced ==
    ASSUME TypeOK, Placed, NEW q \in QuestionIds, NEW c \in Conversations,
           AnswerUnowned(q, c) \/ AnswerOwned(q, c)
    PROVE  Placed'
<1>1. CASE AnswerUnowned(q, c)
  <2>1. \A r \in QuestionIds : outcome'[r] = IF r = q THEN "unowned" ELSE outcome[r]
    BY <1>1 DEF AnswerUnowned, Becomes
  <2>2. outcome[q] = "unanswered" /\ UNCHANGED <<pending, prompting, retrying>>
    BY <1>1 DEF AnswerUnowned
  <2> QED
    BY <2>1, <2>2 DEF Placed, Waiting
<1>2. CASE AnswerOwned(q, c)
  <2> DEFINE key == <<owner[c], c>>
  <2>1. key \in Keys
    BY <1>2 DEF AnswerOwned, TypeOK, Keys
  <2>2. \A k \in Keys : pending'[k] = IF k = key THEN pending[k] \cup {q} ELSE pending[k]
    BY <1>2, <2>1 DEF AnswerOwned, TypeOK
  <2>3. \A r \in QuestionIds : outcome'[r] = IF r = q THEN "accepted" ELSE outcome[r]
    BY <1>2 DEF AnswerOwned, Becomes
  <2>4. outcome[q] = "unanswered" /\ UNCHANGED <<prompting, retrying>>
    BY <1>2 DEF AnswerOwned
  <2>5. /\ \A k \in Keys : q \notin pending[k]
        /\ \A b \in Waiting : q \notin b.questions
    BY <2>4 DEF Placed
  <2> HIDE DEF key
  <2>6. \A r \in QuestionIds \ {q} : /\ outcome'[r] = outcome[r]
                                  /\ \A k \in Keys : r \in pending'[k] <=> r \in pending[k]
    BY <2>2, <2>3
  <2>7. /\ outcome'[q] = "accepted"
        /\ \A k \in Keys : q \in pending'[k] <=> k = key
    BY <2>2, <2>3, <2>5
  <2>8. Waiting' = Waiting /\ \A b \in prompting' : b \notin retrying'
    BY <2>4 DEF Placed, Waiting
  <2>9. \A r \in QuestionIds : outcome'[r] = "accepted" =>
           (\E k \in Keys : r \in pending'[k]) \/ (\E b \in Waiting : r \in b.questions)
    BY <2>1, <2>6, <2>7 DEF Placed
  <2>10. /\ \A r \in QuestionIds, k \in Keys : r \in pending'[k] => outcome'[r] = "accepted"
         /\ \A r \in QuestionIds, b \in Waiting : r \in b.questions => outcome'[r] = "accepted"
    BY <2>6, <2>7 DEF Placed
  <2>11. /\ \A r \in QuestionIds, k, l \in Keys :
               r \in pending'[k] /\ r \in pending'[l] => k = l
         /\ \A r \in QuestionIds, k \in Keys, b \in Waiting :
               ~(r \in pending'[k] /\ r \in b.questions)
    BY <2>5, <2>6, <2>7 DEF Placed
  <2>12. \A r \in QuestionIds, b, d \in Waiting :
            r \in b.questions /\ r \in d.questions => b = d
    BY DEF Placed
  <2> QED
    BY <2>8, <2>9, <2>10, <2>11, <2>12 DEF Placed
<1> QED
  BY <1>1, <1>2

LEMMA WindowPlaced ==
    ASSUME TypeOK, Placed, NEW key \in Keys, QuietWindowEnds(key)
    PROVE  Placed'
<1> DEFINE b == [key |-> key, questions |-> pending[key]]
<1>1. b.questions = pending[key] /\ \E q \in QuestionIds : q \in pending[key]
  BY DEF QuietWindowEnds, TypeOK
<1>2. b \notin Waiting
  BY <1>1 DEF Placed
<1>3. \A k \in Keys : pending'[k] = IF k = key THEN {} ELSE pending[k]
  BY DEF QuietWindowEnds, TypeOK
<1>4. prompting' = prompting \cup {b} /\ retrying' = retrying /\ outcome' = outcome
  BY DEF QuietWindowEnds
<1> HIDE DEF b
<1> QED
  BY <1>1, <1>2, <1>3, <1>4 DEF Placed, Waiting

LEMMA PromptPlaced ==
    ASSUME TypeOK, Placed, NEW b \in prompting, PromptStep(b)
    PROVE  Placed'
<1>1. CASE FailureRetried(b)
  <2>1. /\ prompting' = prompting \ {b} /\ retrying' = retrying \cup {b}
        /\ pending' = pending /\ outcome' = outcome
    BY <1>1 DEF FailureRetried
  <2> QED
    BY <2>1 DEF Placed, Waiting
<1>2. CASE ~FailureRetried(b)
  <2>1. PICK what \in Final : Becomes(b.questions, what)
    BY <1>2 DEF PromptStep, PromptSucceeds, PromptRefused, FailureDropped,
                FailureExhausted, Final
  <2>2. prompting' = prompting \ {b} /\ retrying' = retrying /\ pending' = pending
    BY <1>2 DEF PromptStep, PromptSucceeds, PromptRefused, FailureDropped,
                FailureExhausted
  <2>3. what # "accepted"
    BY DEF Final
  <2>4. \A q \in QuestionIds : outcome'[q] = IF q \in b.questions THEN what ELSE outcome[q]
    BY <2>1 DEF Becomes
  <2> QED
    BY <2>2, <2>3, <2>4 DEF Placed, Waiting
<1> QED
  BY <1>1, <1>2

LEMMA RetryPlaced ==
    ASSUME Placed, NEW b \in retrying, RetryFires(b) PROVE Placed'
<1>1. /\ retrying' = retrying \ {b} /\ prompting' = prompting \cup {b}
      /\ pending' = pending /\ outcome' = outcome
  BY DEF RetryFires
<1> QED
  BY <1>1 DEF Placed, Waiting

LEMMA PlacedStep == TypeOK /\ Placed /\ [Next]_vars => Placed'
<1> SUFFICES ASSUME TypeOK, Placed, [Next]_vars PROVE Placed'
  OBVIOUS
<1>1. CASE UNCHANGED <<pending, prompting, retrying, outcome>>
  BY <1>1 DEF Placed, Waiting
<1>2. CASE Next
  BY <1>1, <1>2, AnswerPlaced, WindowPlaced, PromptPlaced, RetryPlaced
     DEF Next, PromptStep, Register, Unregister
<1> QED
  BY <1>1, <1>2 DEF vars

-----------------------------------------------------------------------------
(* Locks                                                                    *)

LEMMA LocksStep ==
    TypeOK /\ LocksAreTimed /\ RetriesAreCounted /\ [Next]_vars
        => LocksAreTimed' /\ RetriesAreCounted'
<1> SUFFICES ASSUME TypeOK, LocksAreTimed, RetriesAreCounted, [Next]_vars
             PROVE  LocksAreTimed' /\ RetriesAreCounted'
  OBVIOUS
<1> USE DEF LocksAreTimed, RetriesAreCounted
<1>1. CASE UNCHANGED <<retrying, locked, attempts>>
  BY <1>1
<1>2. ASSUME NEW b \in prompting, PromptSucceeds(b)
      PROVE  LocksAreTimed' /\ RetriesAreCounted'
  <2>1. KeysOf(b.key[1]) \subseteq Keys /\ locked \subseteq Keys
    BY DEF KeysOf, TypeOK
  <2>2. \A key \in locked' : key \in locked /\ attempts'[key] = attempts[key]
    BY <1>2, <2>1, Clearing DEF PromptSucceeds, TypeOK
  <2> QED
    BY <1>2, <2>2 DEF PromptSucceeds
<1>3. ASSUME NEW b \in prompting, FailureExhausted(b) \/ FailureRetried(b)
      PROVE  LocksAreTimed' /\ RetriesAreCounted'
  <2>1. b.key \in Keys /\ locked \subseteq Keys /\ b.key \notin locked
    BY <1>3 DEF TypeOK, Batches, FailureExhausted, FailureRetried
  <2>2. \A key \in locked : attempts'[key] = attempts[key]
    BY <1>3, <2>1, Counting DEF FailureExhausted, FailureRetried, TypeOK
  <2>3. FailureRetried(b) => attempts'[b.key] \in 1 .. (MaxAttempts - 1)
    BY <2>1, Counting DEF FailureRetried, TypeOK
  <2> QED
    BY <1>3, <2>2, <2>3 DEF FailureExhausted, FailureRetried
<1>4. ASSUME NEW b \in retrying, RetryFires(b)
      PROVE  LocksAreTimed' /\ RetriesAreCounted'
  BY <1>4 DEF RetryFires
<1>5. CASE Next
  BY <1>1, <1>2, <1>3, <1>4, <1>5
     DEF Next, Register, Unregister, AnswerUnowned, AnswerOwned, QuietWindowEnds,
         PromptRefused, FailureDropped
<1> QED
  BY <1>1, <1>5 DEF vars

-----------------------------------------------------------------------------
(* Theorems                                                                 *)

LEMMA ResumeInit == Init => TypeOK /\ Placed /\ LocksAreTimed /\ RetriesAreCounted
<1> SUFFICES ASSUME Init PROVE Placed /\ LocksAreTimed /\ RetriesAreCounted
  BY TypeInit
<1> QED
  BY DEF Init, Placed, Waiting, LocksAreTimed, RetriesAreCounted

\* An accepted answer is in one place until it is settled, every lock is held
\* by a retry timer, and the retries of a key are counted, however answers,
\* quiet windows, prompts and retries of several conversations interleave
\* (src/octto/auto-resume/dispatcher.ts).
THEOREM ResumeBookkeeping == Spec => []ResumeInv
<1>1. Spec => [](TypeOK /\ Placed /\ LocksAreTimed /\ RetriesAreCounted)
  BY ResumeInit, TypeStep, PlacedStep, LocksStep, PTL DEF Spec
<1>2. TypeOK /\ Placed /\ LocksAreTimed /\ RetriesAreCounted => ResumeInv
  BY PlacedIsOnePlace DEF ResumeInv
<1> QED
  BY <1>1, <1>2, PTL

\* No failed batch is merged with later answers or split: it stays as it is
\* until its questions are settled.
LEMMA BatchStep ==
    ASSUME TypeOK, [Next]_vars
    PROVE  \A b \in prompting \cup retrying :
              \/ b \in prompting' \cup retrying'
              \/ \A q \in b.questions : outcome'[q] \in Final
<1> SUFFICES ASSUME NEW d \in prompting \cup retrying,
                    d \notin prompting' \cup retrying'
             PROVE  \A q \in d.questions : outcome'[q] \in Final
  OBVIOUS
<1>1. PICK b \in prompting : PromptStep(b) /\ ~FailureRetried(b) /\ d = b
  BY DEF Next, vars, PromptStep, Register, Unregister, AnswerUnowned, AnswerOwned,
         QuietWindowEnds, PromptSucceeds, PromptRefused, FailureDropped,
         FailureExhausted, FailureRetried, RetryFires
<1>2. PICK what \in Final : Becomes(b.questions, what)
  BY <1>1 DEF PromptStep, PromptSucceeds, PromptRefused, FailureDropped,
              FailureExhausted, Final
<1>3. b.questions \subseteq QuestionIds
  BY DEF TypeOK, Batches
<1> QED
  BY <1>1, <1>2, <1>3 DEF Becomes

\* A batch that fails is retried with the questions it had
\* (scheduleUpstreamRetry in src/octto/auto-resume/dispatcher.ts).
THEOREM BatchesKeep == Spec => BatchesKeepTheirQuestions
<1>1. TypeOK /\ [Next]_vars =>
        [\A b \in prompting \cup retrying :
            \/ b \in prompting' \cup retrying'
            \/ \A q \in b.questions : outcome'[q] \in Final]_vars
  BY BatchStep
<1> QED
  BY <1>1, TypeInit, TypeStep, PTL DEF Spec, BatchesKeepTheirQuestions

-----------------------------------------------------------------------------
(* Sequences and least numbers                                              *)

LEMMA TailFacts ==
    ASSUME NEW S, NEW s \in Seq(S), s # <<>>
    PROVE  /\ Tail(s) \in Seq(S) /\ Head(s) \in S
           /\ \A i \in DOMAIN Tail(s) : i + 1 \in DOMAIN s /\ Tail(s)[i] = s[i + 1]
           /\ \A i \in DOMAIN s : \/ s[i] = Head(s)
                                  \/ \E j \in DOMAIN Tail(s) : Tail(s)[j] = s[i]
<1>1. Tail(s) \in Seq(S) /\ Head(s) \in S /\ Len(s) # 0
  OBVIOUS
<1>2. \A i \in DOMAIN Tail(s) : i + 1 \in DOMAIN s /\ Tail(s)[i] = s[i + 1]
  OBVIOUS
<1>3. ASSUME NEW i \in DOMAIN s, s[i] # Head(s)
      PROVE  \E j \in DOMAIN Tail(s) : Tail(s)[j] = s[i]
  <2>1. i # 1 /\ i \in 1..Len(s)
    BY <1>1, <1>3
  <2>2. i - 1 \in DOMAIN Tail(s) /\ Tail(s)[i - 1] = s[i]
    BY <2>1
  <2> QED
    BY <2>2
<1> QED
  BY <1>1, <1>2, <1>3

LEMMA AppendFacts ==
    ASSUME NEW S, NEW s \in Seq(S), NEW e \in S
    PROVE  /\ Append(s, e) \in Seq(S) /\ ToSet(Append(s, e)) = ToSet(s) \cup {e}
           /\ DOMAIN Append(s, e) = 1..(Len(s) + 1) /\ DOMAIN s = 1..Len(s)
           /\ \A i \in 1..Len(s) : Append(s, e)[i] = s[i]
           /\ Append(s, e)[Len(s) + 1] = e
<1>1. /\ Append(s, e) \in Seq(S)
      /\ DOMAIN Append(s, e) = 1..(Len(s) + 1) /\ DOMAIN s = 1..Len(s)
      /\ \A i \in 1..Len(s) : Append(s, e)[i] = s[i]
      /\ Append(s, e)[Len(s) + 1] = e /\ Len(s) \in Nat
  OBVIOUS
<1>2. ToSet(Append(s, e)) = ToSet(s) \cup {e}
  BY <1>1 DEF ToSet
<1> QED
  BY <1>1, <1>2

LEMMA ConcatIndex ==
    ASSUME NEW S, NEW s \in Seq(S), NEW t \in Seq(S)
    PROVE  /\ s \o t \in Seq(S) /\ Len(s \o t) = Len(s) + Len(t)
           /\ DOMAIN (s \o t) = 1..(Len(s) + Len(t))
           /\ \A i \in 1..(Len(s) + Len(t)) :
                (s \o t)[i] = IF i <= Len(s) THEN s[i] ELSE t[i - Len(s)]
<1>1. /\ s \o t \in Seq(S) /\ Len(s \o t) = Len(s) + Len(t)
      /\ DOMAIN (s \o t) = 1..(Len(s) + Len(t))
  OBVIOUS
<1>2. \A i \in 1..(Len(s) + Len(t)) :
        (s \o t)[i] = IF i <= Len(s) THEN s[i] ELSE t[i - Len(s)]
  OBVIOUS
<1> QED
  BY <1>1, <1>2

LEMMA ConcatFacts ==
    ASSUME NEW S, NEW s \in Seq(S), NEW t \in Seq(S)
    PROVE  s \o t \in Seq(S) /\ ToSet(s \o t) = ToSet(s) \cup ToSet(t)
<1>1. /\ s \o t \in Seq(S) /\ Len(s) \in Nat /\ Len(t) \in Nat
      /\ DOMAIN (s \o t) = 1..(Len(s) + Len(t))
      /\ DOMAIN s = 1..Len(s) /\ DOMAIN t = 1..Len(t)
  OBVIOUS
<1>2. \A i \in 1..(Len(s) + Len(t)) :
        (s \o t)[i] = IF i <= Len(s) THEN s[i] ELSE t[i - Len(s)]
  OBVIOUS
<1>3. ToSet(s \o t) \subseteq ToSet(s) \cup ToSet(t)
  BY <1>1, <1>2 DEF ToSet
<1>4. ToSet(s) \subseteq ToSet(s \o t)
  BY <1>1, <1>2 DEF ToSet
<1>5. ToSet(t) \subseteq ToSet(s \o t)
  <2> SUFFICES ASSUME NEW j \in 1..Len(t) PROVE t[j] \in ToSet(s \o t)
    BY <1>1 DEF ToSet
  <2>1. Len(s) + j \in 1..(Len(s) + Len(t)) /\ ~(Len(s) + j <= Len(s))
        /\ (Len(s) + j) - Len(s) = j
    BY <1>1
  <2>2. (s \o t)[Len(s) + j] = t[j]
    BY <1>2, <2>1
  <2> QED
    BY <1>1, <2>1, <2>2 DEF ToSet
<1> QED
  BY <1>1, <1>3, <1>4, <1>5

\* The ends a and b of the list s leave out its place i.
EndsOf(S, s, i, a, b) ==
    /\ i \in 1..Len(s) /\ a \in Seq(S) /\ b \in Seq(S)
    /\ Len(a) = i - 1 /\ Len(b) = Len(s) - i
    /\ \A k \in 1..(i - 1) : a[k] = s[k]
    /\ \A k \in 1..(Len(s) - i) : b[k] = s[i + k]

\* The list t is s without its place i.
LeavesOut(S, s, i, t) ==
    /\ t \in Seq(S) /\ DOMAIN t = 1..(Len(s) - 1)
    /\ \A k \in 1..(Len(s) - 1) : t[k] = IF k < i THEN s[k] ELSE s[k + 1]

\* Two ends of a list, put together.
LEMMA EndsTogether ==
    ASSUME NEW S, NEW s \in Seq(S), NEW i, NEW a, NEW b, EndsOf(S, s, i, a, b)
    PROVE  LeavesOut(S, s, i, a \o b)
<1>7. /\ i \in 1..Len(s) /\ a \in Seq(S) /\ b \in Seq(S)
      /\ Len(a) = i - 1 /\ Len(b) = Len(s) - i
      /\ \A k \in 1..(i - 1) : a[k] = s[k]
      /\ \A k \in 1..(Len(s) - i) : b[k] = s[i + k]
  BY DEF EndsOf
<1>1. i \in Nat /\ Len(s) \in Nat /\ 1 <= i /\ i <= Len(s)
  BY <1>7
<1>2. a \o b \in Seq(S) /\ Len(a \o b) = Len(a) + Len(b)
  BY <1>7, ConcatIndex
<1>6. Len(a) + Len(b) = Len(s) - 1
  BY <1>1, <1>7
<1>3. Len(a \o b) = Len(s) - 1
  BY <1>6, <1>2
<1>4. DOMAIN (a \o b) = 1..(Len(s) - 1)
  BY <1>2, <1>3
<1>5. ASSUME NEW k \in 1..(Len(s) - 1)
      PROVE  (a \o b)[k] = IF k < i THEN s[k] ELSE s[k + 1]
  <2>1. k \in Nat /\ 1 <= k /\ k <= Len(s) - 1
    BY <1>1
  <2>2. k \in 1..(Len(a) + Len(b))
    BY <1>1, <1>7, <2>1
  <2>3. (a \o b)[k] = IF k <= Len(a) THEN a[k] ELSE b[k - Len(a)]
    BY <1>7, <2>2, ConcatIndex
  <2>4. CASE k < i
    <3>1. k <= Len(a) /\ k \in 1..(i - 1)
      BY <2>4, <1>1, <1>7, <2>1
    <3> QED
      BY <1>7, <2>3, <2>4, <3>1
  <2>5. CASE ~(k < i)
    <3>1. ~(k <= Len(a)) /\ k - Len(a) \in 1..(Len(s) - i) /\ i + (k - Len(a)) = k + 1
      BY <2>5, <1>1, <1>7, <2>1
    <3> QED
      BY <1>7, <2>3, <2>5, <3>1
  <2> QED
    BY <2>4, <2>5
<1> QED
  BY <1>2, <1>4, <1>5 DEF LeavesOut

LEMMA RemoveFacts ==
    ASSUME NEW S, NEW s \in Seq(S), IsInjective(s), NEW i \in DOMAIN s
    PROVE  /\ RemoveAt(s, i) \in Seq(S) /\ IsInjective(RemoveAt(s, i))
           /\ ToSet(RemoveAt(s, i)) = ToSet(s) \ {s[i]}
<1> DEFINE a == SubSeq(s, 1, i - 1)
           b == SubSeq(s, i + 1, Len(s))
           t == a \o b
<1>2. RemoveAt(s, i) = t
  BY DEF RemoveAt
<1>3. i \in 1..Len(s) /\ Len(s) \in Nat
  OBVIOUS
<1>4. /\ a \in Seq(S) /\ Len(a) = i - 1
      /\ \A k \in 1..(i - 1) : a[k] = s[k]
  BY <1>3
<1>9. /\ b \in Seq(S) /\ Len(b) = Len(s) - i
      /\ \A k \in 1..(Len(s) - i) : b[k] = s[i + k]
  BY <1>3
<1> HIDE DEF a, b
<1>5. /\ t \in Seq(S) /\ DOMAIN t = 1..(Len(s) - 1)
      /\ \A k \in 1..(Len(s) - 1) : t[k] = IF k < i THEN s[k] ELSE s[k + 1]
  <2> HIDE DEF t
  <2>1. EndsOf(S, s, i, a, b)
    BY <1>3, <1>4, <1>9 DEF EndsOf
  <2>2. LeavesOut(S, s, i, a \o b)
    BY <2>1, EndsTogether
  <2>3. LeavesOut(S, s, i, t)
    BY <2>2 DEF t
  <2> QED
    BY <2>3 DEF LeavesOut
<1> HIDE DEF t
<1>7. ASSUME NEW k \in 1..(Len(s) - 1) PROVE t[k] # s[i]
  <2>1. DOMAIN s = 1..Len(s)
    OBVIOUS
  <2>2. CASE k < i
    <3>1. k \in 1..Len(s) /\ k # i
      BY <2>2, <1>3
    <3> QED
      BY <3>1, <2>1, <2>2, <1>5 DEF IsInjective
  <2>3. CASE ~(k < i)
    <3>1. k + 1 \in 1..Len(s) /\ k + 1 # i
      BY <2>3, <1>3
    <3> QED
      BY <3>1, <2>1, <2>3, <1>5 DEF IsInjective
  <2> QED
    BY <2>2, <2>3
<1>8. IsInjective(t)
  BY <1>3, <1>5 DEF IsInjective
<1>12. ToSet(t) \subseteq ToSet(s) \ {s[i]}
  <2>1. \A k \in 1..(Len(s) - 1) : k \in 1..Len(s) /\ k + 1 \in 1..Len(s)
    BY <1>3
  <2>3. \A k \in 1..Len(s) : s[k] \in ToSet(s)
    BY DEF ToSet
  <2>2. \A k \in 1..(Len(s) - 1) : t[k] \in ToSet(s)
    BY <2>1, <2>3, <1>5
  <2> QED
    BY <2>2, <1>5, <1>7 DEF ToSet
<1>10. ASSUME NEW k \in 1..Len(s), s[k] # s[i] PROVE s[k] \in ToSet(t)
  <2>1. k # i
    BY <1>10
  <2>2. CASE k < i
    <3>1. k \in 1..(Len(s) - 1) /\ t[k] = s[k]
      BY <2>2, <1>3, <1>5
    <3> QED
      BY <3>1, <1>5 DEF ToSet
  <2>3. CASE k > i
    <3>1. k - 1 \in 1..(Len(s) - 1) /\ ~(k - 1 < i) /\ (k - 1) + 1 = k
      BY <2>3, <1>3
    <3>2. t[k - 1] = s[k]
      BY <3>1, <1>5
    <3> QED
      BY <3>1, <3>2, <1>5 DEF ToSet
  <2> QED
    BY <2>1, <2>2, <2>3, <1>3
<1>11. ToSet(s) \ {s[i]} \subseteq ToSet(t)
  BY <1>10 DEF ToSet
<1> QED
  BY <1>2, <1>5, <1>8, <1>12, <1>11

LEMMA LeastNumber ==
    ASSUME NEW T \in SUBSET Nat, T # {}
    PROVE  \E m \in T : \A n \in T : m <= n
<1> DEFINE R == StrictSubsetOrdering(Nat)
           below == {0..n : n \in T}
<1>1. below \subseteq FiniteSubsetsOf(Nat) /\ below # {}
  <2>1. \A n \in T : 0..n \in FiniteSubsetsOf(Nat)
    <3> TAKE n \in T
    <3>1. IsFiniteSet(0..n)
      BY FS_Interval
    <3> QED
      BY <3>1 DEF FiniteSubsetsOf
  <2> QED
    BY <2>1
<1>2. IsWellFoundedOn(R, FiniteSubsetsOf(Nat))
  BY FS_StrictSubsetOrderingWellFounded
<1> HIDE DEF R, below
<1>3. PICK U \in below : \A V \in below : <<V, U>> \notin R
  BY <1>1, <1>2, WFMin
<1>4. PICK m \in T : U = 0..m
  BY DEF below
<1>5. ASSUME NEW n \in T, n < m PROVE FALSE
  <2>1. 0..n \in below /\ 0..n \subseteq 0..m /\ m \in 0..m /\ m \notin 0..n
    BY <1>5 DEF below
  <2>2. <<0..n, U>> \in R
    BY <2>1, <1>4 DEF R, StrictSubsetOrdering
  <2> QED
    BY <2>1, <2>2, <1>3
<1>6. \A n \in T : m <= n
  BY <1>5
<1> QED
  BY <1>6

-----------------------------------------------------------------------------
(* The tools                                                                *)

ToolsCore ==
    /\ MailTypeOK /\ ToolsTypeOK /\ TrackedAgrees /\ DeletedOwnsNothing
    /\ OpenIsAccounted

LEMMA ToolsInitially == ToolsInit => ToolsCore
BY ToolsAssumption DEF ToolsInit, ToolsCore, MailInit, MailTypeOK, ToolsTypeOK,
   TrackedAgrees, DeletedOwnsNothing, OpenIsAccounted, Phases, Letters

\* Only End and Open change what the tools look at; the others move letters.
LEMMA LettersMove ==
    ASSUME MailTypeOK, NEW asked \in SUBSET Questions, NEW letter \in Letters,
           Become(asked, letter)
    PROVE  mail' \in [Questions -> Letters]
BY DEF Become, MailTypeOK

LEMMA OpenFacts ==
    ASSUME MailTypeOK, NEW s \in Sessions, NEW asked \in SUBSET Questions,
           Open(s, asked)
    PROVE  /\ MailTypeOK' /\ phase[s] = "unborn"
           /\ phase' = [phase EXCEPT ![s] = "open"]
BY LettersMove DEF Open, Ask, MailTypeOK, Phases, Letters

LEMMA EndFacts ==
    ASSUME MailTypeOK, NEW s \in Sessions, End(s)
    PROVE  /\ MailTypeOK' /\ phase[s] = "open"
           /\ phase' = [phase EXCEPT ![s] = "ended"]
BY DEF End, MailTypeOK, Phases

LEMMA QuietFacts ==
    ASSUME MailTypeOK, NEW s \in Sessions, NEW q \in Questions,
           \/ Push(s, q) \/ Take(s, q) \/ Cancel(s, q) \/ Answer(s, q, "answered")
    PROVE  MailTypeOK' /\ UNCHANGED phase
<1>1. CASE Push(s, q)
  BY <1>1, LettersMove DEF Push, Ask, MailTypeOK, Letters
<1>2. CASE Take(s, q)
  BY <1>2, LettersMove DEF Take, MailTypeOK, Letters
<1>3. CASE Cancel(s, q)
  BY <1>3, LettersMove DEF Cancel, MailTypeOK, Letters
<1>4. CASE Answer(s, q, "answered")
  BY <1>4, LettersMove DEF Answer, MailTypeOK, Letters
<1> QED
  BY <1>1, <1>2, <1>3, <1>4

LEMMA ToolsStep == ToolsCore /\ ToolsNext => ToolsCore'
<1> SUFFICES ASSUME ToolsCore, ToolsNext PROVE ToolsCore'
  OBVIOUS
<1> USE ToolsAssumption DEF ToolsCore
<1>s. ASSUME NEW a \in Agents, NEW s \in Sessions, StartCalled(a, s)
      PROVE  ToolsCore'
  <2>1. MailTypeOK' /\ phase[s] = "unborn" /\ phase' = [phase EXCEPT ![s] = "open"]
    BY <1>s, OpenFacts DEF StartCalled
  <2>2. ToolsTypeOK'
    BY <1>s, <2>1 DEF StartCalled, ToolsTypeOK, MailTypeOK, Phases
  <2>3. TrackedAgrees'
    BY <1>s, <2>1 DEF StartCalled, ToolsTypeOK, MailTypeOK, TrackedAgrees, OpenIsAccounted
  <2>4. DeletedOwnsNothing'
    BY <1>s, <2>1 DEF StartCalled, ToolsTypeOK, MailTypeOK, DeletedOwnsNothing
  <2>5. OpenIsAccounted'
    BY <1>s, <2>1 DEF StartCalled, ToolsTypeOK, MailTypeOK, TrackedAgrees, OpenIsAccounted
  <2> QED
    BY <2>1, <2>2, <2>3, <2>4, <2>5
<1>r. ASSUME NEW s \in Sessions, StartReturns(s)
      PROVE  ToolsCore'
  <2>1. MailTypeOK' /\ UNCHANGED phase
    BY <1>r DEF StartReturns, mailVars, MailTypeOK
  <2>0. ownerOf[s] \in Agents /\ phase[s] = "open"
    BY <1>r DEF StartReturns, ToolsTypeOK, OpenIsAccounted
  <2>2. ToolsTypeOK'
    BY <1>r, <2>0, <2>1 DEF StartReturns, ToolsTypeOK
  <2>3. TrackedAgrees'
    BY <1>r, <2>0, <2>1 DEF StartReturns, ToolsTypeOK, TrackedAgrees
  <2>4. DeletedOwnsNothing'
    BY <1>r, <2>0, <2>1 DEF StartReturns, ToolsTypeOK, DeletedOwnsNothing
  <2>5. OpenIsAccounted'
    BY <1>r, <2>0, <2>1 DEF StartReturns, ToolsTypeOK, OpenIsAccounted
  <2> QED
    BY <2>1, <2>2, <2>3, <2>4, <2>5
<1>e. ASSUME NEW a \in Agents, NEW s \in Sessions, EndCalled(a, s)
      PROVE  ToolsCore'
  <2>1. /\ MailTypeOK' /\ phase[s] = "open" /\ ownerOf[s] = a
        /\ phase' = [phase EXCEPT ![s] = "ended"]
    BY <1>e, EndFacts DEF EndCalled, Forbidden
  <2>2. ToolsTypeOK'
    BY <1>e, <2>1 DEF EndCalled, ToolsTypeOK, MailTypeOK
  <2>3. TrackedAgrees'
    BY <1>e, <2>1 DEF EndCalled, ToolsTypeOK, MailTypeOK, TrackedAgrees
  <2>4. DeletedOwnsNothing'
    BY <1>e, <2>1 DEF EndCalled, MailTypeOK, DeletedOwnsNothing
  <2>5. OpenIsAccounted'
    BY <1>e, <2>1 DEF EndCalled, ToolsTypeOK, MailTypeOK, OpenIsAccounted
  <2> QED
    BY <2>1, <2>2, <2>3, <2>4, <2>5
<1>c. ASSUME NEW a \in Agents, NEW s \in Sessions, CleanupEnds(a, s)
      PROVE  ToolsCore'
  <2>1. /\ MailTypeOK' /\ phase[s] = "open" /\ ownerOf[s] = a
        /\ phase' = [phase EXCEPT ![s] = "ended"]
    BY <1>c, EndFacts DEF CleanupEnds, TrackedAgrees
  <2>2. ToolsTypeOK'
    BY <1>c, <2>1 DEF CleanupEnds, ToolsTypeOK, MailTypeOK
  <2>3. TrackedAgrees'
    BY <1>c, <2>1 DEF CleanupEnds, ToolsTypeOK, MailTypeOK, TrackedAgrees
  <2>4. DeletedOwnsNothing'
    BY <1>c, <2>1 DEF CleanupEnds, MailTypeOK, DeletedOwnsNothing
  <2>5. OpenIsAccounted'
    BY <1>c, <2>1 DEF CleanupEnds, ToolsTypeOK, MailTypeOK, OpenIsAccounted
  <2> QED
    BY <2>1, <2>2, <2>3, <2>4, <2>5
<1>q. ASSUME MailTypeOK', UNCHANGED <<phase, toolVars>>
      PROVE  ToolsCore'
  BY <1>q DEF toolVars, ToolsTypeOK, TrackedAgrees, DeletedOwnsNothing, OpenIsAccounted
<1>p. ASSUME NEW a \in Agents, NEW s \in Sessions, NEW q \in Questions,
             PushCalled(a, s, q) \/ AnswerTaken(a, s, q)
      PROVE  ToolsCore'
  BY <1>p, <1>q, QuietFacts DEF PushCalled, AnswerTaken
<1>n. ASSUME NEW a \in Agents, NEW q \in Questions, CancelCalled(a, q)
      PROVE  ToolsCore'
  <2>1. home[q] \in Sessions
    BY <1>n DEF CancelCalled, MailTypeOK
  <2> QED
    BY <1>n, <1>q, <2>1, QuietFacts DEF CancelCalled
<1>w. ASSUME NEW s \in Sessions, NEW q \in Questions, Answered(s, q)
      PROVE  ToolsCore'
  BY <1>w, <1>q, QuietFacts DEF Answered
<1>d. ASSUME NEW a \in Agents, AgentDeleted(a)
      PROVE  ToolsCore'
  <2>1. MailTypeOK' /\ UNCHANGED phase
    BY <1>d DEF AgentDeleted, mailVars, MailTypeOK
  <2>2. ToolsTypeOK'
    BY <1>d, <2>1 DEF AgentDeleted, ToolsTypeOK
  <2>3. TrackedAgrees' /\ OpenIsAccounted'
    BY <1>d, <2>1 DEF AgentDeleted, TrackedAgrees, OpenIsAccounted
  <2>4. DeletedOwnsNothing'
    BY <1>d, <2>1 DEF AgentDeleted, ToolsTypeOK, DeletedOwnsNothing, OpenIsAccounted
  <2> QED
    BY <2>1, <2>2, <2>3, <2>4
<1>o. ASSUME NEW a \in Agents, CleanupDone(a)
      PROVE  ToolsCore'
  <2>1. MailTypeOK' /\ UNCHANGED phase
    BY <1>o DEF CleanupDone, mailVars, MailTypeOK
  <2>2. ToolsTypeOK'
    BY <1>o, <2>1 DEF CleanupDone, ToolsTypeOK
  <2>3. TrackedAgrees'
    BY <1>o, <2>1 DEF CleanupDone, ToolsTypeOK, TrackedAgrees, OpenIsAccounted
  <2>4. DeletedOwnsNothing'
    BY <1>o, <2>1 DEF CleanupDone, ToolsTypeOK, DeletedOwnsNothing, OpenIsAccounted
  <2>5. OpenIsAccounted'
    BY <1>o, <2>1 DEF CleanupDone, ToolsTypeOK, OpenIsAccounted
  <2> QED
    BY <2>1, <2>2, <2>3, <2>4, <2>5
<1>x. CASE PluginRestarts
  <2>1. MailTypeOK' /\ UNCHANGED phase
    BY <1>x DEF PluginRestarts, mailVars, MailTypeOK
  <2>2. ToolsTypeOK'
    BY <1>x, <2>1 DEF PluginRestarts, ToolsTypeOK
  <2>3. TrackedAgrees' /\ DeletedOwnsNothing' /\ OpenIsAccounted'
    BY <1>x, <2>1 DEF PluginRestarts, ToolsTypeOK, TrackedAgrees,
       DeletedOwnsNothing, OpenIsAccounted
  <2> QED
    BY <2>1, <2>2, <2>3
<1> QED
  BY <1>s, <1>r, <1>e, <1>c, <1>p, <1>n, <1>w, <1>d, <1>o, <1>x DEF ToolsNext

-----------------------------------------------------------------------------
(* The portal                                                               *)

\* Who has waited longest is a number of ticks.
LEMMA OldestIsNumber ==
    ASSUME PortalTypeOK, NEW s \in PortalSessions, PendingOf(s) # {}
    PROVE  OldestPending(s) \in Int
<1> DEFINE T == {questions[q].at : q \in PendingOf(s)}
           ages == {portalTime - questions[q].at : q \in PendingOf(s)}
<1>1. PendingOf(s) \subseteq PortalQuestions /\ portalTime \in Nat
      /\ \A q \in PendingOf(s) : questions[q].at \in Nat
  BY DEF PortalTypeOK, PendingOf, QuestionsOf, NotAsked
<1>2. T \in SUBSET Nat /\ T # {}
  BY <1>1
<1> HIDE DEF T
<1>3. PICK m \in T : \A n \in T : m <= n
  BY <1>2, LeastNumber
<1>4. PICK q \in PendingOf(s) : questions[q].at = m
  BY <1>3 DEF T
<1>5. \A p \in PendingOf(s) : questions[q].at <= questions[p].at
  BY <1>3, <1>4 DEF T
<1>6. \E a \in ages : \A b \in ages : b <= a
  <2>1. \A b \in ages : b <= portalTime - questions[q].at
    BY <1>1, <1>5
  <2> QED
    BY <2>1, <1>4
<1>7. OldestPending(s) \in ages
  BY <1>6 DEF OldestPending
<1> QED
  BY <1>7, <1>1

LEMMA ListsArePendingFirst == PortalTypeOK => PendingFirst
<1> SUFFICES ASSUME PortalTypeOK, NEW list \in HandleConversationsList,
                    NEW i \in 1..Len(list), NEW j \in 1..(i - 1),
                    PendingOf(list[i]) # {}
             PROVE  /\ PendingOf(list[j]) # {}
                    /\ OldestPending(list[j]) >= OldestPending(list[i])
  BY DEF PendingFirst
<1>1. PICK d : list \in [1..d -> CollectSessions]
  BY DEF HandleConversationsList, SetToSeqs
<1>2. DOMAIN list = 1..Len(list)
  BY <1>1
<1>3. i \in DOMAIN list /\ j \in DOMAIN list /\ j < i
  BY <1>2
<1>4. ~CompareConversations(list[i], list[j])
  BY <1>3 DEF HandleConversationsList
<1>5. list[i] \in PortalSessions /\ list[j] \in PortalSessions
  BY <1>1, <1>3 DEF CollectSessions
<1>6. PendingOf(list[j]) # {}
  BY <1>4 DEF CompareConversations
<1>7. OldestPending(list[i]) \in Int /\ OldestPending(list[j]) \in Int
  BY <1>5, <1>6, OldestIsNumber
<1>8. ~(OldestPending(list[j]) # OldestPending(list[i])
        /\ OldestPending(list[i]) > OldestPending(list[j]))
  BY <1>4, <1>6 DEF CompareConversations
<1> QED
  BY <1>6, <1>7, <1>8

PortalCore ==
    PortalTypeOK /\ IndexMatchesSessions /\ ConnectedIsReal /\ SessionsAreKnown

LEMMA PortalInitially == PortalInit => PortalCore
<1> SUFFICES ASSUME PortalInit PROVE PortalCore
  OBVIOUS
<1> USE PortalAssumption DEF PortalInit, NotAsked, NotHeld, NoSocket
<1>1. PortalTypeOK
  BY DEF PortalTypeOK
<1>2. IndexMatchesSessions /\ SessionsAreKnown
  BY DEF IndexMatchesSessions, SessionsAreKnown, Live
<1>3. ConnectedIsReal
  BY DEF ConnectedIsReal, Live
<1> QED
  BY <1>1, <1>2, <1>3 DEF PortalCore

\* A live session has all the fields of one.
LEMMA LiveFacts ==
    ASSUME PortalTypeOK, NEW s \in PortalSessions
    PROVE  /\ Live(s) => held[s] \in HeldRecords
           /\ ~Live(s) => held[s] \in {NotHeld, Ended}
BY DEF PortalTypeOK, Live, NotHeld, Ended, HeldRecords

LEMMA SessionStartsStep ==
    ASSUME PortalCore, NEW i \in Instances, NEW s \in PortalSessions,
           SessionStarts(i, s)
    PROVE  PortalCore'
<1> DEFINE new == [at |-> "opening", home |-> i, created |-> portalTime,
                   connected |-> FALSE, overtaken |-> FALSE]
<1>1. PICK qs \in SUBSET {q \in PortalQuestions : questions[q] = NotAsked} :
        /\ questions' = Added(qs, s)
        /\ questionIndex' = questionIndex \union qs
  BY DEF SessionStarts
<1>2. portalTime \in 1..MaxPortalTime
  BY DEF PortalCore, PortalTypeOK
<1>3. new \in HeldRecords /\ new.home = i /\ new.at = "opening" /\ ~new.connected
  BY <1>2 DEF HeldRecords
<1> HIDE DEF new
<1>4. /\ held' = [Overtaken(i) EXCEPT ![s] = new]
      /\ current' = i /\ held[s] = NotHeld
      /\ UNCHANGED <<sockets, landing, portalTime>>
  BY DEF SessionStarts, new
<1>5. held'[s] = new
  BY <1>4 DEF Overtaken
<1>6. ASSUME NEW r \in PortalSessions, r # s, Live(r)
      PROVE  /\ held'[r] \in HeldRecords /\ held'[r].at = held[r].at
             /\ held'[r].home = held[r].home
             /\ held'[r].connected = held[r].connected
             /\ held[r].overtaken => held'[r].overtaken
             /\ held[r].home # i => held'[r].overtaken
  <2>1. held[r] \in HeldRecords
    BY <1>6, LiveFacts DEF PortalCore
  <2>2. CASE held[r].home # i
    <3>1. held'[r] = [held[r] EXCEPT !.overtaken = TRUE]
      BY <1>4, <1>6, <2>2 DEF Overtaken
    <3> QED
      BY <3>1, <2>1 DEF HeldRecords
  <2>3. CASE held[r].home = i
    <3>1. held'[r] = held[r]
      BY <1>4, <1>6, <2>3 DEF Overtaken
    <3> QED
      BY <3>1, <2>1, <2>3
  <2> QED
    BY <2>2, <2>3
<1>7. ASSUME NEW r \in PortalSessions, r # s, ~Live(r)
      PROVE  held'[r] = held[r] /\ held[r] \in {NotHeld, Ended}
  BY <1>4, <1>7, LiveFacts DEF Overtaken, PortalCore
<1>8. \A r \in PortalSessions : r # s => (Live(r) <=> Live(r)')
  BY <1>6, <1>7 DEF Live
<1>9. Live(s)'
  BY <1>5, <1>3 DEF Live
<1>10. /\ \A q \in qs : questions'[q] = [of |-> s, status |-> "pending", at |-> portalTime]
       /\ \A q \in PortalQuestions \ qs : questions'[q] = questions[q]
       /\ DOMAIN questions' = PortalQuestions
  BY <1>1 DEF Added
<1>a. held' \in [PortalSessions -> {NotHeld, Ended} \cup HeldRecords]
  <2>1. held' \in [PortalSessions -> {held'[r] : r \in PortalSessions}]
    BY <1>4 DEF Overtaken
  <2>2. \A r \in PortalSessions : held'[r] \in {NotHeld, Ended} \cup HeldRecords
    BY <1>3, <1>5, <1>6, <1>7
  <2> QED
    BY <2>1, <2>2
<1>b. PortalTypeOK'
  <2>1. questions' \in [PortalQuestions -> {NotAsked} \cup
          [of : PortalSessions, status : {"pending", "answered", "cancelled"},
           at : 1..portalTime']]
    BY <1>1, <1>2, <1>4 DEF Added, PortalCore, PortalTypeOK
  <2>2. questionIndex' \subseteq {q \in PortalQuestions : questions'[q] # NotAsked}
    BY <1>1, <1>10 DEF PortalCore, PortalTypeOK, NotAsked
  <2> QED
    BY <1>a, <2>1, <2>2, <1>4 DEF PortalCore, PortalTypeOK
<1>c. IndexMatchesSessions'
  <2> SUFFICES ASSUME NEW q \in PortalQuestions, questions'[q] # NotAsked
               PROVE  q \in questionIndex' <=> Live(questions[q].of)'
    BY DEF IndexMatchesSessions
  <2>1. CASE q \in qs
    BY <2>1, <1>1, <1>9, <1>10
  <2>2. CASE q \notin qs
    <3>1. questions[q] # NotAsked /\ questions'[q] = questions[q]
          /\ questions[q].of \in PortalSessions /\ questions[q].of # s
      BY <2>2, <1>10, <1>4 DEF PortalCore, PortalTypeOK, SessionsAreKnown
    <3> QED
      BY <3>1, <2>2, <1>1, <1>8 DEF PortalCore, IndexMatchesSessions
  <2> QED
    BY <2>1, <2>2
<1>d. ConnectedIsReal'
  BY <1>3, <1>4, <1>5, <1>6, <1>8 DEF PortalCore, ConnectedIsReal
<1>e. SessionsAreKnown'
  <2>1. ASSUME NEW q \in PortalQuestions, questions'[q] # NotAsked
        PROVE  held'[questions'[q].of] # NotHeld
    <3>1. CASE q \in qs
      BY <3>1, <1>10, <1>9 DEF Live, NotHeld
    <3>2. CASE q \notin qs
      <4>1. questions[q] # NotAsked /\ questions'[q] = questions[q]
            /\ questions[q].of \in PortalSessions /\ questions[q].of # s
            /\ held[questions[q].of] # NotHeld
        BY <2>1, <3>2, <1>10, <1>4 DEF PortalCore, PortalTypeOK, SessionsAreKnown
      <4>2. CASE Live(questions[q].of)
        BY <4>1, <4>2, <1>8 DEF Live, NotHeld
      <4>3. CASE ~Live(questions[q].of)
        BY <4>1, <4>3, <1>7
      <4> QED
        BY <4>2, <4>3
    <3> QED
      BY <3>1, <3>2
  <2>2. ASSUME NEW r \in PortalSessions, Live(r)', held'[r].home # current'
        PROVE  held'[r].overtaken
    <3>1. r # s
      BY <2>2, <1>3, <1>4, <1>5
    <3> QED
      BY <3>1, <2>2, <1>4, <1>6, <1>8
  <2> QED
    BY <2>1, <2>2 DEF SessionsAreKnown
<1> QED
  BY <1>b, <1>c, <1>d, <1>e DEF PortalCore

\* An action that replaces the record of one session s.
OneHeld(s, r) ==
    /\ r \in {Ended} \cup HeldRecords
    /\ held' = [held EXCEPT ![s] = r]

LEMMA OneHeldFacts ==
    ASSUME PortalTypeOK, NEW s \in PortalSessions, NEW r, OneHeld(s, r)
    PROVE  /\ held' \in [PortalSessions -> {NotHeld, Ended} \cup HeldRecords]
           /\ held'[s] = r /\ r # NotHeld
           /\ \A o \in PortalSessions : o # s => held'[o] = held[o]
           /\ \A o \in PortalSessions : held[o] # NotHeld => held'[o] # NotHeld
           /\ \A o \in PortalSessions : o # s => (Live(o) <=> Live(o)')
BY DEF PortalTypeOK, OneHeld, NotHeld, Ended, HeldRecords, Live

\* The session goes, and with it the index of its questions.
LEMMA SessionGoes ==
    ASSUME PortalCore, NEW s \in PortalSessions, Live(s),
           held' = [held EXCEPT ![s] = Ended],
           questionIndex' = questionIndex \ QuestionsOf(s),
           UNCHANGED <<current, questions, sockets, landing, portalTime>>
    PROVE  PortalCore'
<1>1. OneHeld(s, Ended)
  BY DEF OneHeld
<1>2. PortalTypeOK'
  BY <1>1, OneHeldFacts DEF PortalCore, PortalTypeOK
<1>3. ~Live(s)'
  BY <1>1, OneHeldFacts DEF Live, Ended, PortalCore
<1>4. IndexMatchesSessions'
  <2> SUFFICES ASSUME NEW q \in PortalQuestions, questions[q] # NotAsked
               PROVE  q \in questionIndex' <=> Live(questions[q].of)'
    BY DEF IndexMatchesSessions
  <2>1. questions[q].of \in PortalSessions
    BY DEF PortalCore, PortalTypeOK
  <2>2. CASE questions[q].of = s
    BY <2>2, <1>3 DEF QuestionsOf
  <2>3. CASE questions[q].of # s
    BY <2>1, <2>3, <1>1, OneHeldFacts DEF QuestionsOf, PortalCore, IndexMatchesSessions
  <2> QED
    BY <2>2, <2>3
<1>5. ConnectedIsReal'
  BY <1>1, <1>3, OneHeldFacts DEF PortalCore, ConnectedIsReal
<1>6. SessionsAreKnown'
  <2>1. \A q \in PortalQuestions : questions[q] # NotAsked =>
            questions[q].of \in PortalSessions
    BY DEF PortalCore, PortalTypeOK
  <2> QED
    BY <1>1, <1>3, <2>1, OneHeldFacts DEF PortalCore, SessionsAreKnown
<1> QED
  BY <1>2, <1>4, <1>5, <1>6 DEF PortalCore

\* A live session changes and stays what it was to the others.
LEMMA SessionChanges ==
    ASSUME PortalCore, NEW s \in PortalSessions, Live(s), NEW r,
           OneHeld(s, r), r \in HeldRecords,
           r.home = held[s].home, r.overtaken = held[s].overtaken,
           UNCHANGED <<current, questions, questionIndex, landing, portalTime>>
    PROVE  /\ sockets' \in [Sockets -> {NoSocket} \cup [session : PortalSessions]]
               => PortalTypeOK'
           /\ IndexMatchesSessions' /\ SessionsAreKnown'
<1>1. PortalTypeOK
  BY DEF PortalCore
<1>2. Live(s)'
  BY <1>1, OneHeldFacts DEF Live, HeldRecords
<1>3. \A o \in PortalSessions : Live(o) <=> Live(o)'
  BY <1>1, <1>2, OneHeldFacts
<1>4. \A q \in PortalQuestions : questions[q] # NotAsked =>
            questions[q].of \in PortalSessions
  BY <1>1 DEF PortalTypeOK
<1>5. IndexMatchesSessions'
  <2> SUFFICES ASSUME NEW q \in PortalQuestions, questions[q] # NotAsked
               PROVE  q \in questionIndex <=> Live(questions[q].of)'
    BY DEF IndexMatchesSessions
  <2> QED
    BY <1>3, <1>4 DEF PortalCore, IndexMatchesSessions
<1>6. SessionsAreKnown'
  <2>1. \A q \in PortalQuestions :
            questions[q] # NotAsked => held'[questions[q].of] # NotHeld
    BY <1>1, <1>4, OneHeldFacts DEF PortalCore, SessionsAreKnown
  <2>2. ASSUME NEW o \in PortalSessions, Live(o)', held'[o].home # current
        PROVE  held'[o].overtaken
    <3>1. CASE o = s
      BY <1>1, <2>2, <3>1, OneHeldFacts DEF PortalCore, SessionsAreKnown
    <3>2. CASE o # s
      BY <1>1, <1>3, <2>2, <3>2, OneHeldFacts DEF PortalCore, SessionsAreKnown
    <3> QED
      BY <3>1, <3>2
  <2> QED
    BY <2>1, <2>2 DEF SessionsAreKnown
<1>7. ASSUME sockets' \in [Sockets -> {NoSocket} \cup [session : PortalSessions]]
      PROVE  PortalTypeOK'
  BY <1>1, <1>7, OneHeldFacts DEF PortalTypeOK
<1> QED
  BY <1>5, <1>6, <1>7

LEMMA BrowserOpensStep ==
    ASSUME PortalCore, NEW s \in PortalSessions, BrowserOpens(s)
    PROVE  PortalCore'
<1> DEFINE r == [held[s] EXCEPT !.at = "live"]
<1>1. Live(s) /\ held[s] \in HeldRecords
  BY LiveFacts DEF BrowserOpens, Live, PortalCore
<1>2. /\ r \in HeldRecords /\ r.home = held[s].home /\ r.connected = held[s].connected
      /\ r.overtaken = held[s].overtaken
  BY <1>1 DEF HeldRecords
<1>3. held' = [held EXCEPT ![s] = r]
  BY DEF BrowserOpens
<1> HIDE DEF r
<1>4. OneHeld(s, r)
  BY <1>2, <1>3 DEF OneHeld
<1>5. IndexMatchesSessions' /\ SessionsAreKnown' /\ PortalTypeOK'
  BY <1>1, <1>2, <1>4, SessionChanges DEF BrowserOpens, PortalCore, PortalTypeOK
<1>6. ConnectedIsReal'
  BY <1>1, <1>2, <1>4, OneHeldFacts DEF BrowserOpens, ConnectedIsReal, PortalCore
<1> QED
  BY <1>5, <1>6 DEF PortalCore

\* The current store notes a page that comes or goes.
LEMMA SocketEventFacts ==
    ASSUME PortalCore, NEW s \in PortalSessions, NEW c \in BOOLEAN,
           HasSession(current, s), held' = SocketEvent(s, c)
    PROVE  \E r \in HeldRecords :
              /\ OneHeld(s, r) /\ r.home = held[s].home /\ r.connected = c
              /\ r.overtaken = held[s].overtaken
<1> DEFINE r == [held[s] EXCEPT !.connected = c]
<1>1. held[s] \in HeldRecords
  BY LiveFacts DEF HasSession, PortalCore
<1>2. /\ r \in HeldRecords /\ r.home = held[s].home /\ r.connected = c
      /\ r.overtaken = held[s].overtaken
  BY <1>1 DEF HeldRecords
<1>3. held' = [held EXCEPT ![s] = r]
  BY DEF SocketEvent
<1> HIDE DEF r
<1> QED
  BY <1>2, <1>3 DEF OneHeld

LEMMA UpgradeStep ==
    ASSUME PortalCore, NEW k \in Sockets, NEW s \in PortalSessions, TryUpgrade(k, s)
    PROVE  PortalCore'
<1>1. PICK r \in HeldRecords :
        /\ OneHeld(s, r) /\ r.home = held[s].home /\ r.connected = TRUE
        /\ r.overtaken = held[s].overtaken
  BY SocketEventFacts DEF TryUpgrade
<1>2. /\ Live(s) /\ sockets[k] = NoSocket
      /\ sockets' = [sockets EXCEPT ![k] = [session |-> s]]
      /\ UNCHANGED <<current, questions, questionIndex, landing, portalTime>>
  BY DEF TryUpgrade, HasSession
<1>3. sockets' \in [Sockets -> {NoSocket} \cup [session : PortalSessions]]
  BY <1>2 DEF PortalCore, PortalTypeOK
<1>4. IndexMatchesSessions' /\ SessionsAreKnown' /\ PortalTypeOK'
  BY <1>1, <1>2, <1>3, SessionChanges
<1>5. ConnectedIsReal'
  <2> SUFFICES ASSUME NEW o \in PortalSessions,
                      Live(o)', held'[o].connected, ~held'[o].overtaken
               PROVE  \E j \in Sockets : sockets'[j].session = o
    BY DEF ConnectedIsReal
  <2>1. CASE o = s
    BY <2>1, <1>2 DEF PortalCore, PortalTypeOK
  <2>2. CASE o # s
    <3>1. Live(o) /\ held'[o] = held[o]
      BY <2>2, <1>1, OneHeldFacts DEF PortalCore
    <3>2. PICK j \in Sockets : sockets[j].session = o
      BY <3>1 DEF PortalCore, ConnectedIsReal
    <3>3. j # k
      BY <3>2, <1>2, PortalAssumption DEF NoSocket
    <3> QED
      BY <3>2, <3>3, <1>2 DEF PortalCore, PortalTypeOK
  <2> QED
    BY <2>1, <2>2
<1> QED
  BY <1>4, <1>5 DEF PortalCore

LEMMA ClosesStep ==
    ASSUME PortalCore, NEW k \in Sockets, SocketCloses(k)
    PROVE  PortalCore'
<1> DEFINE s == sockets[k].session
<1>1. s \in PortalSessions
  BY DEF PortalCore, PortalTypeOK, SocketCloses
<1>2. /\ held' = SocketEvent(s, FALSE)
      /\ sockets' = [sockets EXCEPT ![k] = NoSocket]
      /\ UNCHANGED <<current, questions, questionIndex, landing, portalTime>>
  BY DEF SocketCloses
<1>3. sockets' \in [Sockets -> {NoSocket} \cup [session : PortalSessions]]
  BY <1>2 DEF PortalCore, PortalTypeOK
<1>4. \A j \in Sockets : sockets[j].session # s => sockets'[j] = sockets[j]
  BY <1>2 DEF PortalCore, PortalTypeOK
<1> HIDE DEF s
<1>5. CASE HasSession(current, s)
  <2>1. PICK r \in HeldRecords :
          /\ OneHeld(s, r) /\ r.home = held[s].home /\ r.connected = FALSE
          /\ r.overtaken = held[s].overtaken
    BY <1>1, <1>2, <1>5, SocketEventFacts
  <2>2. IndexMatchesSessions' /\ SessionsAreKnown' /\ PortalTypeOK'
    BY <1>1, <1>2, <1>3, <1>5, <2>1, SessionChanges DEF HasSession
  <2>3. ConnectedIsReal'
    <3> SUFFICES ASSUME NEW o \in PortalSessions,
                        Live(o)', held'[o].connected, ~held'[o].overtaken
                 PROVE  \E j \in Sockets : sockets'[j].session = o
      BY DEF ConnectedIsReal
    <3>1. o # s
      BY <1>1, <2>1, OneHeldFacts DEF PortalCore
    <3>2. Live(o) /\ held'[o] = held[o]
      BY <1>1, <3>1, <2>1, OneHeldFacts DEF PortalCore
    <3>3. PICK j \in Sockets : sockets[j].session = o
      BY <3>2 DEF PortalCore, ConnectedIsReal
    <3> QED
      BY <3>1, <3>3, <1>4
  <2> QED
    BY <2>2, <2>3 DEF PortalCore
<1>6. CASE ~HasSession(current, s)
  <2>1. held' = held
    BY <1>2, <1>6 DEF SocketEvent
  <2>2. PortalTypeOK' /\ IndexMatchesSessions' /\ SessionsAreKnown'
    BY <1>2, <1>3, <2>1 DEF PortalCore, PortalTypeOK, IndexMatchesSessions,
       SessionsAreKnown, Live
  <2>3. ConnectedIsReal'
    <3> SUFFICES ASSUME NEW o \in PortalSessions,
                        Live(o), held[o].connected, ~held[o].overtaken
                 PROVE  \E j \in Sockets : sockets'[j].session = o
      BY <2>1 DEF ConnectedIsReal, Live
    <3>1. o # s
      BY <1>6 DEF PortalCore, SessionsAreKnown, HasSession
    <3>2. PICK j \in Sockets : sockets[j].session = o
      BY DEF PortalCore, ConnectedIsReal
    <3> QED
      BY <3>1, <3>2, <1>4
  <2> QED
    BY <2>2, <2>3 DEF PortalCore
<1> QED
  BY <1>5, <1>6

\* A question that is new gets a record of a session that is live.
LEMMA PushedStep ==
    ASSUME PortalCore, NEW s \in PortalSessions, NEW q \in PortalQuestions,
           QuestionPushed(s, q)
    PROVE  PortalCore'
<1>1. /\ held[s].at = "live" /\ questions[q] = NotAsked
      /\ questions' = Added({q}, s) /\ questionIndex' = questionIndex \union {q}
      /\ UNCHANGED <<current, held, sockets, landing, portalTime>>
  BY DEF QuestionPushed
<1>2. /\ questions'[q] = [of |-> s, status |-> "pending", at |-> portalTime]
      /\ \A p \in PortalQuestions : p # q => questions'[p] = questions[p]
      /\ portalTime \in 1..portalTime
  BY <1>1 DEF Added, PortalCore, PortalTypeOK
<1>3. PortalTypeOK'
  BY <1>1, <1>2 DEF PortalCore, PortalTypeOK, Added, NotAsked
<1>4. Live(s) /\ held[s] # NotHeld
  BY <1>1 DEF Live, NotHeld
<1>5. \A p \in PortalQuestions :
        Live(questions[p].of)' <=> Live(questions'[p].of)
  BY <1>1 DEF Live
<1>6. IndexMatchesSessions'
  <2> SUFFICES ASSUME NEW p \in PortalQuestions, questions'[p] # NotAsked
               PROVE  p \in questionIndex' <=> Live(questions'[p].of)
    BY <1>5 DEF IndexMatchesSessions
  <2>1. CASE p = q
    BY <2>1, <1>1, <1>2, <1>4
  <2>2. CASE p # q
    BY <2>2, <1>1, <1>2 DEF PortalCore, IndexMatchesSessions
  <2> QED
    BY <2>1, <2>2
<1>7. SessionsAreKnown'
  <2>1. ASSUME NEW p \in PortalQuestions, questions'[p] # NotAsked
        PROVE  held[questions'[p].of] # NotHeld
    BY <2>1, <1>2, <1>4 DEF PortalCore, SessionsAreKnown
  <2> QED
    BY <2>1, <1>1 DEF PortalCore, SessionsAreKnown, Live
<1>8. ConnectedIsReal'
  BY <1>1 DEF PortalCore, ConnectedIsReal, Live
<1> QED
  BY <1>3, <1>6, <1>7, <1>8 DEF PortalCore

\* The status of one question changes.
LEMMA SettledStep ==
    ASSUME PortalCore, NEW q \in PortalQuestions, questions[q] # NotAsked,
           NEW status \in {"answered", "cancelled"},
           questions' = [questions EXCEPT ![q].status = status],
           UNCHANGED <<current, held, questionIndex, sockets, landing, portalTime>>
    PROVE  PortalCore'
<1>1. /\ questions'[q] \in
          [of : PortalSessions, status : {"pending", "answered", "cancelled"},
           at : 1..portalTime]
      /\ questions'[q].of = questions[q].of
      /\ questions'[q] # NotAsked
      /\ \A p \in PortalQuestions : p # q => questions'[p] = questions[p]
      /\ DOMAIN questions' = PortalQuestions
  BY DEF PortalCore, PortalTypeOK, NotAsked
<1>2. PortalTypeOK'
  BY <1>1 DEF PortalCore, PortalTypeOK
<1>3. IndexMatchesSessions' /\ SessionsAreKnown' /\ ConnectedIsReal'
  BY <1>1 DEF PortalCore, IndexMatchesSessions, SessionsAreKnown,
     ConnectedIsReal, Live
<1> QED
  BY <1>2, <1>3 DEF PortalCore

\* The landing page changes, or time passes.
LEMMA QuietStep ==
    ASSUME PortalCore, PortalTypeOK',
           UNCHANGED <<current, held, questions, questionIndex, sockets>>
    PROVE  PortalCore'
BY DEF PortalCore, IndexMatchesSessions, SessionsAreKnown, ConnectedIsReal, Live

LEMMA PortalStep == PortalCore /\ PortalNext => PortalCore'
<1> SUFFICES ASSUME PortalCore, PortalNext PROVE PortalCore'
  OBVIOUS
<1>1. ASSUME NEW s \in PortalSessions, BrowserFails(s) \/ SessionEnds(s)
      PROVE  PortalCore'
  BY <1>1, SessionGoes DEF BrowserFails, SessionEnds, Unindexed, Live
<1>2. ASSUME NEW q \in PortalQuestions, QuestionCancelled(q)
      PROVE  PortalCore'
  BY <1>2, SettledStep DEF QuestionCancelled, PortalCore, PortalTypeOK
<1>3. ASSUME NEW q \in PortalQuestions, NEW k \in Sockets, HandleWsMessage(k, q)
      PROVE  PortalCore'
  BY <1>3, SettledStep DEF HandleWsMessage, PendingOf, QuestionsOf
<1>4. ASSUME NEW t \in BOOLEAN, HandleLanding(t)
      PROVE  PortalCore'
  <2>1. landing.cookie \in BOOLEAN /\ (landing.cookie \/ (PortalToken /\ t)) \in BOOLEAN
    BY PortalAssumption DEF PortalCore, PortalTypeOK
  <2>2. landing' \in [shows : {"nothing", "list", "unauthorized"},
                      rows : Seq(PortalSessions), cookie : BOOLEAN]
    BY <1>4, <2>1 DEF HandleLanding
  <2> QED
    BY <1>4, <2>2, QuietStep DEF HandleLanding, PortalCore, PortalTypeOK
<1>5. CASE LandingPolls
  <2>1. PICK list \in HandleConversationsList :
            landing' = [landing EXCEPT !.rows = list]
    BY <1>5 DEF LandingPolls
  <2>2. list \in Seq(PortalSessions)
    <3>1. Cardinality(CollectSessions) \in Nat
      BY PortalAssumption, FS_Subset, FS_CardinalityType DEF CollectSessions
    <3>2. list \in [1..Cardinality(CollectSessions) -> PortalSessions]
      BY DEF HandleConversationsList, SetToSeqs, CollectSessions
    <3> QED
      BY <3>1, <3>2, SeqDef
  <2> QED
    BY <1>5, <2>1, <2>2, QuietStep DEF LandingPolls, PortalCore, PortalTypeOK
<1>6. CASE PortalTicks
  <2>1. PortalTypeOK'
    BY <1>6, PortalAssumption DEF PortalTicks, PortalCore, PortalTypeOK
  <2> QED
    BY <1>6, <2>1, QuietStep DEF PortalTicks
<1> QED
  BY <1>1, <1>2, <1>3, <1>4, <1>5, <1>6, SessionStartsStep, BrowserOpensStep,
     UpgradeStep, ClosesStep, PushedStep DEF PortalNext

-----------------------------------------------------------------------------
(* Orders and lists of questions                                            *)

\* An order of a set of questions is a sequence of them all.
LEMMA OrderFacts ==
    ASSUME NEW S \in SUBSET Questions, NEW order \in SetToSeqs(S)
    PROVE  order \in Seq(S) /\ ToSet(order) = S
<1> DEFINE n == Cardinality(S)
<1>1. IsFiniteSet(S) /\ n \in Nat
  BY PageAssumption, FS_Subset, FS_CardinalityType
<1>2. order \in [1..n -> S] /\ \A i, j \in 1..n : i # j => order[i] # order[j]
  BY DEF SetToSeqs
<1> HIDE DEF n
<1>3. order \in Seq(S)
  BY <1>1, <1>2, SeqDef
<1>4. order \in Injection(1..n, S)
  BY <1>2 DEF Injection, IsInjective
<1>5. Cardinality(1..n) = n
  BY <1>1, FS_Interval
<1>6. order \in Surjection(1..n, S)
  BY <1>1, <1>4, <1>5, FS_Injection DEF n
<1>7. ToSet(order) = S
  BY <1>2, <1>6 DEF Surjection, ToSet
<1> QED
  BY <1>3, <1>7

LEMMA WithoutFacts ==
    ASSUME NEW S, NEW s \in Seq(S), IsInjective(s), NEW q
    PROVE  /\ Without(s, q) \in Seq(S) /\ IsInjective(Without(s, q))
           /\ ToSet(Without(s, q)) = ToSet(s) \ {q}
<1>1. CASE q \notin ToSet(s)
  BY <1>1 DEF Without
<1>2. CASE q \in ToSet(s)
  <2> DEFINE i == CHOOSE k \in DOMAIN s : s[k] = q
  <2>1. i \in DOMAIN s /\ s[i] = q
    BY <1>2 DEF ToSet
  <2>2. Without(s, q) = RemoveAt(s, i)
    BY <1>2 DEF Without
  <2> HIDE DEF i
  <2> QED
    BY <2>1, <2>2, RemoveFacts
<1> QED
  BY <1>1, <1>2

-----------------------------------------------------------------------------
(* The mailbox, as the page sees it                                         *)

Forward(asked) ==
    /\ MailTypeOK' /\ asked \subseteq {q \in Questions : mail[q] = "unasked"}
    /\ \A q \in Questions :
        /\ mail[q] # "unasked" => mail'[q] # "unasked"
        /\ mail[q] = "cancelled" => mail'[q] = "cancelled"
    /\ Pending' \subseteq Pending \cup asked
    /\ phase[PageSession] # "unborn" => phase'[PageSession] # "unborn"

LEMMA BecomeFacts ==
    ASSUME MailTypeOK, NEW asked \in SUBSET Questions, NEW letter \in Letters,
           Become(asked, letter)
    PROVE  /\ mail' \in [Questions -> Letters]
           /\ \A q \in Questions : mail'[q] = IF q \in asked THEN letter ELSE mail[q]
BY DEF Become, MailTypeOK

LEMMA AskForward ==
    ASSUME MailTypeOK, NEW asked \in SUBSET Questions, Ask(PageSession, asked),
           phase' \in [Sessions -> Phases], phase'[PageSession] = "open"
    PROVE  Forward(asked) /\ \A q \in asked : mail'[q] = "pending"
<1>1. /\ mail' \in [Questions -> Letters]
      /\ \A q \in Questions : mail'[q] = IF q \in asked THEN "pending" ELSE mail[q]
  BY BecomeFacts DEF Ask, Letters
<1>2. /\ home' \in [Questions -> Sessions \cup {NoSession}]
      /\ \A q \in Questions : home'[q] = IF q \in asked THEN PageSession ELSE home[q]
  BY PageAssumption DEF Ask, MailTypeOK
<1>3. Pending' \subseteq Pending \cup asked
  BY <1>1, <1>2 DEF Pending, In
<1> QED
  BY <1>1, <1>2, <1>3 DEF Ask, Forward, MailTypeOK

LEMMA OpenForward ==
    ASSUME MailTypeOK, NEW asked \in SUBSET Questions, Open(PageSession, asked)
    PROVE  Forward(asked) /\ phase[PageSession] = "unborn"
<1>1. phase' \in [Sessions -> Phases] /\ phase'[PageSession] = "open"
  BY PageAssumption DEF Open, MailTypeOK, Phases
<1> QED
  BY <1>1, AskForward DEF Open

LEMMA PushForward ==
    ASSUME MailTypeOK, NEW q \in Questions, Push(PageSession, q)
    PROVE  Forward({q}) /\ mail'[q] = "pending"
<1>1. phase' \in [Sessions -> Phases] /\ phase'[PageSession] = "open"
  BY PageAssumption DEF Push, MailTypeOK
<1> QED
  BY <1>1, AskForward DEF Push

LEMMA SettleForward ==
    ASSUME MailTypeOK, NEW q \in Questions, NEW letter \in {"answered", "cancelled"},
           q \in Pending, Become({q}, letter), UNCHANGED <<phase, home>>
    PROVE  Forward({}) /\ mail'[q] = letter /\ Pending' \subseteq Pending \ {q}
<1>1. /\ mail' \in [Questions -> Letters]
      /\ \A p \in Questions : mail'[p] = IF p = q THEN letter ELSE mail[p]
  BY BecomeFacts DEF Letters
<1>2. mail[q] = "pending"
  BY DEF Pending, In
<1>3. Pending' \subseteq Pending \ {q}
  BY <1>1 DEF Pending, In
<1> QED
  BY <1>1, <1>2, <1>3 DEF Forward, MailTypeOK

LEMMA EndForward ==
    ASSUME MailTypeOK, End(PageSession)
    PROVE  Forward({})
<1>1. MailTypeOK' /\ phase'[PageSession] = "ended"
  BY PageAssumption DEF End, MailTypeOK, Phases
<1>2. Pending' \subseteq Pending
  BY DEF End, Pending, In, MailTypeOK
<1> QED
  BY <1>1, <1>2 DEF Forward, End

-----------------------------------------------------------------------------
(* The page                                                                 *)

Heard == {down[i].question : i \in DOMAIN down}
PageCore ==
    /\ MailTypeOK /\ PageTypeOK /\ PendingIsListed /\ SentIsOnTheWay /\ PageKnows

LEMMA SentOnceFollows == PageTypeOK /\ PageKnows => SentOnce
BY DEF PageKnows, SentOnce

LEMMA ToSetType ==
    ASSUME NEW S, NEW s \in Seq(S) PROVE ToSet(s) \subseteq S
BY DEF ToSet

LEMMA HeardType == PageTypeOK => Heard \subseteq Questions
<1>1. PageTypeOK => \A i \in DOMAIN down : down[i] \in Messages
  BY DEF PageTypeOK
<1> QED
  BY <1>1 DEF Heard, Messages

LEMMA PageInitially == PageInit => PageCore
<1> SUFFICES ASSUME PageInit PROVE PageCore
  OBVIOUS
<1> USE PageAssumption DEF PageInit
<1>1. MailTypeOK
  BY DEF MailInit, MailTypeOK, Phases, Letters
<1>2. ToSet(<<>>) = {} /\ IsInjective(<<>>)
  BY DEF ToSet, IsInjective
<1>6. <<>> \in Seq(Messages) /\ <<>> \in Seq(Questions) /\ 0 \in 0..MaxLoads
  BY PageAssumption
<1>3. PageTypeOK
  BY <1>2, <1>6 DEF PageTypeOK
<1>4. PendingIsListed /\ SentIsOnTheWay
  BY DEF PendingIsListed, SentIsOnTheWay
<1>5. PageKnows
  BY <1>2 DEF PageKnows
<1> QED
  BY <1>1, <1>3, <1>4, <1>5 DEF PageCore

\* The server goes on and the page is not told, or the page is not connected.
LEMMA ServerGoesOn ==
    ASSUME PageCore, NEW asked, Forward(asked), UNCHANGED pageVars,
           asked = {} \/ ~(client /\ socket = "open")
    PROVE  PageCore'
<1>1. ToSet(listed) \subseteq Questions /\ Heard \subseteq Questions
  BY ToSetType, HeardType DEF PageCore, PageTypeOK
<1>2. PageTypeOK'
  BY DEF pageVars, PageCore, PageTypeOK
<1>3. PendingIsListed'
  BY DEF pageVars, PageCore, PendingIsListed, Forward
<1>4. sent \cap asked = {}
  BY <1>1 DEF PageCore, PageTypeOK, PageKnows, Forward
<1>5. SentIsOnTheWay'
  BY <1>4 DEF pageVars, PageCore, SentIsOnTheWay, Forward
<1>6. PageKnows'
  BY <1>1 DEF pageVars, PageCore, PageKnows, Forward, Heard
<1> QED
  BY <1>2, <1>3, <1>5, <1>6 DEF PageCore, Forward

\* The connection changes while the mailbox and the page stay.
LEMMA ConnectionChanges ==
    ASSUME PageCore, UNCHANGED <<mailVars, draftVars>>,
           PageTypeOK', ~(client' /\ socket' = "open"),
           socket' = "open" => socket = "open",
           \/ UNCHANGED <<up, down, dropped>>
           \/ down' = <<>> /\ ToSet(up) \subseteq dropped' /\ dropped \subseteq dropped'
    PROVE  PageCore'
<1>1. MailTypeOK' /\ PendingIsListed'
  BY DEF PageCore, MailTypeOK, mailVars, PendingIsListed
<1>2. Pending' = Pending
  BY DEF Pending, In, mailVars
<1>3. SentIsOnTheWay'
  BY <1>2 DEF PageCore, SentIsOnTheWay, draftVars
<1>4. PageKnows'
  BY DEF PageCore, PageKnows, mailVars, draftVars
<1> QED
  BY <1>1, <1>3, <1>4 DEF PageCore

LEMMA OpensStep == PageCore /\ SocketOpens => PageCore'
<1> SUFFICES ASSUME PageCore, SocketOpens PROVE PageCore'
  OBVIOUS
<1>0. Pending \in SUBSET Questions
  BY DEF Pending, In
<1>1. PICK order \in SetToSeqs(Pending) :
        down' = [i \in DOMAIN order |-> Message("question", order[i])]
  BY DEF SocketOpens
<1>2. order \in Seq(Pending) /\ ToSet(order) = Pending
  BY <1>0, <1>1, OrderFacts
<1>3. DOMAIN order = 1..Len(order) /\ Len(order) \in Nat
      /\ \A i \in DOMAIN order : order[i] \in Pending
  BY <1>2
<1>4. down' \in [1..Len(order) -> Messages]
  BY <1>0, <1>1, <1>3 DEF Message, Messages
<1>5. down' \in Seq(Messages)
  BY <1>3, <1>4, SeqDef
<1>6. \A i \in DOMAIN down' : /\ i \in DOMAIN order
                              /\ down'[i].question = order[i]
                              /\ down'[i].kind = "question"
  BY <1>1 DEF Message
<1>7. Pending \subseteq Heard'
  <2> SUFFICES ASSUME NEW q \in Pending PROVE q \in Heard'
    OBVIOUS
  <2>1. PICK i \in DOMAIN order : order[i] = q
    BY <1>2 DEF ToSet
  <2>2. i \in DOMAIN down' /\ down'[i].question = q
    BY <2>1, <1>1, <1>6
  <2> QED
    BY <2>2 DEF Heard
<1>8. UNCHANGED <<mailVars, unseen, up, draftVars, loads, dropped>>
      /\ socket' = "open" /\ client' = TRUE /\ phase[PageSession] = "open"
  BY DEF SocketOpens
<1>9. MailTypeOK' /\ PageTypeOK'
  BY <1>5, <1>8 DEF PageCore, MailTypeOK, PageTypeOK, mailVars, draftVars
<1>10. Pending' = Pending
  BY <1>8 DEF Pending, In, mailVars
<1>11. PendingIsListed' /\ SentIsOnTheWay'
  BY <1>7, <1>8, <1>10 DEF PageCore, PendingIsListed, SentIsOnTheWay, draftVars, Heard
<1>12. PageKnows'
  <2>1. \A i \in DOMAIN down' : mail[down'[i].question] = "pending"
    BY <1>3, <1>6 DEF Pending, In
  <2> QED
    BY <2>1, <1>6, <1>8 DEF PageCore, PageKnows, mailVars, draftVars
<1> QED
  BY <1>9, <1>11, <1>12 DEF PageCore

\* The server tells the page of question q.
LEMMA TellsStep ==
    ASSUME PageCore, NEW q \in Questions, NEW kind \in {"question", "cancel"},
           NEW asked, Forward(asked), asked \subseteq {q},
           mail'[q] # "unasked", kind = "cancel" => mail'[q] = "cancelled",
           Tells(Message(kind, q)), UNCHANGED <<netVars, up, draftVars, dropped>>
    PROVE  PageCore'
<1> DEFINE e == Message(kind, q)
<1>1. e \in Messages /\ e.question = q /\ e.kind = kind
  BY DEF Message, Messages
<1> HIDE DEF e
<1>2. down \in Seq(Messages) /\ ToSet(listed) \subseteq Questions
  BY ToSetType DEF PageCore, PageTypeOK
<1>3. PageTypeOK'
  <2>1. down' \in Seq(Messages)
    BY <1>1, <1>2, AppendFacts DEF Tells, e
  <2> QED
    BY <2>1 DEF PageCore, PageTypeOK, netVars, draftVars
<1>4. PendingIsListed'
  <2> SUFFICES ASSUME client, socket = "open", NEW p \in Pending'
               PROVE  p \in ToSet(listed) \cup Heard'
    BY DEF PendingIsListed, netVars, draftVars, Heard
  <2>1. down' = Append(down, e)
    BY DEF Tells, e
  <2>2. CASE p = q
    <3>1. Len(down) + 1 \in DOMAIN down' /\ down'[Len(down) + 1] = e
      BY <2>1, <1>1, <1>2, AppendFacts
    <3> QED
      BY <3>1, <2>2, <1>1 DEF Heard
  <2>3. CASE p # q
    <3>1. p \in ToSet(listed) \cup Heard
      BY <2>3 DEF PageCore, PendingIsListed, Forward, Heard
    <3>2. Heard \subseteq Heard'
      BY <2>1, <1>1, <1>2, AppendFacts DEF Heard
    <3> QED
      BY <3>1, <3>2
  <2> QED
    BY <2>2, <2>3
<1>5. SentIsOnTheWay'
  <2>1. sent \cap asked = {}
    BY <1>2 DEF PageCore, PageTypeOK, PageKnows, Forward
  <2> QED
    BY <2>1 DEF PageCore, SentIsOnTheWay, Forward, draftVars
<1>6. PageKnows'
  <2>1. ASSUME NEW i \in DOMAIN down'
        PROVE  /\ mail'[down'[i].question] # "unasked"
               /\ down'[i].kind = "cancel" => mail'[down'[i].question] = "cancelled"
    <3>1. CASE i \in DOMAIN down /\ down'[i] = down[i]
      <4>2. down[i] \in Messages
        BY <3>1, <1>2
      <4>1. down[i].question \in Questions
        BY <4>2 DEF Messages
      <4> QED
        BY <3>1, <4>1 DEF PageCore, PageKnows, Forward
    <3>2. CASE down'[i] = e
      BY <3>2, <1>1
    <3>3. \/ i \in DOMAIN down /\ down'[i] = down[i]
          \/ down'[i] = e
      <4>1. CASE down' = down
        BY <4>1, <2>1
      <4>2. CASE down' = Append(down, e)
        <5>1. /\ DOMAIN down' = 1..(Len(down) + 1) /\ DOMAIN down = 1..Len(down)
              /\ \A k \in 1..Len(down) : down'[k] = down[k]
              /\ down'[Len(down) + 1] = e /\ Len(down) \in Nat
          BY <4>2, <1>1, <1>2, AppendFacts
        <5> QED
          BY <5>1, <2>1
      <4> QED
        BY <4>1, <4>2 DEF Tells, e
    <3> QED
      BY <3>1, <3>2, <3>3
  <2> QED
    BY <2>1, <1>2 DEF PageCore, PageKnows, Forward, netVars, draftVars
<1> QED
  BY <1>3, <1>4, <1>5, <1>6 DEF PageCore, Forward

LEMMA ArrivesStep == PageCore /\ ResponseArrives => PageCore'
<1> SUFFICES ASSUME PageCore, ResponseArrives PROVE PageCore'
  OBVIOUS
<1> DEFINE q == Head(up)
<1>1. up \in Seq(Questions) /\ up # <<>>
  BY DEF PageCore, PageTypeOK, ResponseArrives
<1>2. /\ q \in Questions /\ Tail(up) \in Seq(Questions)
      /\ \A i \in DOMAIN up : up[i] = q \/ \E j \in DOMAIN Tail(up) : Tail(up)[j] = up[i]
  BY <1>1, TailFacts
<1>3. ToSet(up) \subseteq ToSet(Tail(up)) \cup {q}
  BY <1>2 DEF ToSet
<1>4. Forward({}) /\ Pending' \subseteq Pending \ {q}
  <2>1. CASE q \in Pending
    BY <1>2, <2>1, SettleForward DEF ResponseArrives, Answer, PageCore
  <2>2. CASE q \notin Pending
    <3>1. UNCHANGED mailVars
      BY <2>2 DEF ResponseArrives
    <3>2. Pending' = Pending
      BY <3>1 DEF Pending, In, mailVars
    <3> QED
      BY <3>1, <3>2, <2>2 DEF Forward, MailTypeOK, mailVars, PageCore
  <2> QED
    BY <2>1, <2>2
<1> HIDE DEF q
<1>5. up' = Tail(up) /\ UNCHANGED <<netVars, down, draftVars, dropped>>
  BY DEF ResponseArrives
<1>6. ToSet(listed) \subseteq Questions /\ Heard \subseteq Questions
  BY ToSetType, HeardType DEF PageCore, PageTypeOK
<1>7. PageTypeOK'
  BY <1>2, <1>5 DEF PageCore, PageTypeOK, netVars, draftVars
<1>8. PendingIsListed'
  BY <1>4, <1>5 DEF PageCore, PendingIsListed, netVars, draftVars
<1>9. SentIsOnTheWay'
  BY <1>3, <1>4, <1>5 DEF PageCore, SentIsOnTheWay, draftVars
<1>10. PageKnows'
  BY <1>4, <1>5, <1>6 DEF PageCore, PageKnows, Forward, netVars, draftVars, Heard
<1> QED
  BY <1>4, <1>7, <1>8, <1>9, <1>10 DEF PageCore, Forward

\* The page takes a message off the wire.
LEMMA HeardFacts ==
    ASSUME PageTypeOK, down # <<>>
    PROVE  /\ Head(down).question \in Questions /\ Tail(down) \in Seq(Messages)
           /\ Head(down).kind \in {"question", "cancel"}
           /\ 1 \in DOMAIN down /\ Head(down) = down[1]
           /\ \A i \in DOMAIN Tail(down) :
                i + 1 \in DOMAIN down /\ Tail(down)[i] = down[i + 1]
           /\ Heard \subseteq {Head(down).question}
                 \cup {Tail(down)[i].question : i \in DOMAIN Tail(down)}
<1>1. down \in Seq(Messages)
  BY DEF PageTypeOK
<1>2. /\ Tail(down) \in Seq(Messages) /\ Head(down) \in Messages
      /\ 1 \in DOMAIN down /\ Head(down) = down[1]
      /\ \A i \in DOMAIN Tail(down) :
            i + 1 \in DOMAIN down /\ Tail(down)[i] = down[i + 1]
      /\ \A i \in DOMAIN down : \/ down[i] = Head(down)
                                \/ \E j \in DOMAIN Tail(down) : Tail(down)[j] = down[i]
  BY <1>1, TailFacts
<1> QED
  BY <1>2 DEF Messages, Heard

LEMMA ShownStep == PageCore /\ QuestionShown => PageCore'
<1> SUFFICES ASSUME PageCore, QuestionShown PROVE PageCore'
  OBVIOUS
<1> DEFINE q == Head(down).question
<1>1. /\ down # <<>> /\ down' = Tail(down)
      /\ listed' = IF q \in ToSet(listed) THEN listed ELSE Append(listed, q)
      /\ UNCHANGED <<mailVars, netVars, up, drafted, sent, sending, responses,
                     dropped>>
  BY DEF QuestionShown
<1>2. /\ q \in Questions /\ Tail(down) \in Seq(Messages) /\ mail[q] # "unasked"
      /\ \A i \in DOMAIN Tail(down) :
            i + 1 \in DOMAIN down /\ Tail(down)[i] = down[i + 1]
      /\ Heard \subseteq {q} \cup {Tail(down)[i].question : i \in DOMAIN Tail(down)}
  BY <1>1, HeardFacts DEF PageCore, PageKnows
<1> HIDE DEF q
<1>3. listed \in Seq(Questions) /\ IsInjective(listed)
  BY DEF PageCore, PageTypeOK
<1>4. /\ listed' \in Seq(Questions) /\ IsInjective(listed')
      /\ ToSet(listed') = ToSet(listed) \cup {q}
  <2>1. CASE q \in ToSet(listed)
    BY <2>1, <1>1, <1>3
  <2>2. CASE q \notin ToSet(listed)
    <3>1. /\ listed' = Append(listed, q) /\ listed' \in Seq(Questions)
          /\ ToSet(listed') = ToSet(listed) \cup {q}
          /\ DOMAIN listed' = 1..(Len(listed) + 1) /\ DOMAIN listed = 1..Len(listed)
          /\ \A i \in 1..Len(listed) : listed'[i] = listed[i]
          /\ listed'[Len(listed) + 1] = q /\ Len(listed) \in Nat
      BY <2>2, <1>1, <1>2, <1>3, AppendFacts
    <3>2. \A i \in 1..Len(listed) : listed[i] # q
      BY <2>2, <3>1 DEF ToSet
    <3>3. IsInjective(listed')
      BY <3>1, <3>2, <1>3 DEF IsInjective
    <3> QED
      BY <3>1, <3>3
  <2> QED
    BY <2>1, <2>2
<1>5. PageTypeOK'
  BY <1>1, <1>2, <1>4 DEF PageCore, PageTypeOK, netVars
<1>6. MailTypeOK' /\ Pending' = Pending
  BY <1>1 DEF PageCore, MailTypeOK, mailVars, Pending, In
<1>7. PendingIsListed'
  <2>1. Heard \subseteq {q} \cup Heard'
    BY <1>1, <1>2 DEF Heard
  <2> QED
    BY <2>1, <1>1, <1>4, <1>6 DEF PageCore, PendingIsListed, netVars, Heard
<1>8. SentIsOnTheWay'
  BY <1>1, <1>6 DEF PageCore, SentIsOnTheWay
<1>9. PageKnows'
  BY <1>1, <1>2, <1>4 DEF PageCore, PageKnows, mailVars, netVars
<1> QED
  BY <1>5, <1>6, <1>7, <1>8, <1>9 DEF PageCore

LEMMA RemovedStep == PageCore /\ QuestionRemoved => PageCore'
<1> SUFFICES ASSUME PageCore, QuestionRemoved PROVE PageCore'
  OBVIOUS
<1> DEFINE q == Head(down).question
<1>1. /\ down # <<>> /\ Head(down).kind = "cancel" /\ down' = Tail(down)
      /\ \/ UNCHANGED <<listed, drafted>>
         \/ /\ q \notin sent /\ listed' = Without(listed, q)
            /\ drafted' = drafted \ {q}
      /\ UNCHANGED <<mailVars, netVars, up, sent, sending, responses, dropped>>
  BY DEF QuestionRemoved
<1>2. /\ q \in Questions /\ Tail(down) \in Seq(Messages) /\ mail[q] = "cancelled"
      /\ \A i \in DOMAIN Tail(down) :
            i + 1 \in DOMAIN down /\ Tail(down)[i] = down[i + 1]
      /\ Heard \subseteq {q} \cup {Tail(down)[i].question : i \in DOMAIN Tail(down)}
  BY <1>1, HeardFacts DEF PageCore, PageKnows
<1> HIDE DEF q
<1>3. listed \in Seq(Questions) /\ IsInjective(listed)
  BY DEF PageCore, PageTypeOK
<1>4. /\ listed' \in Seq(Questions) /\ IsInjective(listed')
      /\ ToSet(listed') \subseteq ToSet(listed)
      /\ ToSet(listed) \ {q} \subseteq ToSet(listed')
      /\ sent \subseteq drafted' /\ drafted' \subseteq ToSet(listed')
  <2>1. sent \subseteq drafted /\ drafted \subseteq ToSet(listed)
    BY DEF PageCore, PageTypeOK
  <2> QED
    BY <2>1, <1>1, <1>3, WithoutFacts
<1>5. PageTypeOK'
  BY <1>1, <1>2, <1>4 DEF PageCore, PageTypeOK, netVars
<1>6. MailTypeOK' /\ Pending' = Pending
  BY <1>1 DEF PageCore, MailTypeOK, mailVars, Pending, In
<1>7. PendingIsListed'
  <2>1. Heard \subseteq {q} \cup Heard'
    BY <1>1, <1>2 DEF Heard
  <2>2. q \notin Pending
    BY <1>2 DEF Pending, In
  <2> QED
    BY <2>1, <2>2, <1>1, <1>4, <1>6 DEF PageCore, PendingIsListed, netVars, Heard
<1>8. SentIsOnTheWay'
  BY <1>1, <1>6 DEF PageCore, SentIsOnTheWay
<1>9. PageKnows'
  BY <1>1, <1>2, <1>4 DEF PageCore, PageKnows, mailVars, netVars
<1> QED
  BY <1>5, <1>6, <1>7, <1>8, <1>9 DEF PageCore

\* Answering and editing move drafts only.
LEMMA DraftsStep ==
    ASSUME PageCore, sent \subseteq drafted', drafted' \subseteq ToSet(listed),
           UNCHANGED <<mailVars, netVars, down, up, listed, sent, sending,
                       responses, dropped>>
    PROVE  PageCore'
<1>1. MailTypeOK' /\ PageTypeOK' /\ Pending' = Pending
  BY DEF PageCore, MailTypeOK, PageTypeOK, mailVars, netVars, Pending, In
<1>2. PendingIsListed' /\ SentIsOnTheWay' /\ PageKnows'
  BY <1>1 DEF PageCore, PendingIsListed, SentIsOnTheWay, PageKnows, mailVars, netVars
<1> QED
  BY <1>1, <1>2 DEF PageCore

LEMMA SendsStep == PageCore /\ UserSends => PageCore'
<1> SUFFICES ASSUME PageCore, UserSends PROVE PageCore'
  OBVIOUS
<1>1. UNCHANGED <<mailVars, netVars, down, listed, drafted>>
  BY DEF UserSends
<1>2. MailTypeOK' /\ Pending' = Pending
  BY <1>1 DEF PageCore, MailTypeOK, mailVars, Pending, In
<1>3. PendingIsListed'
  BY <1>1, <1>2 DEF PageCore, PendingIsListed, netVars
<1>4. ToSet(listed) \subseteq Questions
  BY ToSetType DEF PageCore, PageTypeOK
<1>5. CASE socket = "connecting"
  <2>1. sending' = TRUE /\ UNCHANGED <<up, sent, responses, dropped>>
    BY <1>5 DEF UserSends
  <2>2. PageTypeOK'
    BY <1>1, <2>1 DEF PageCore, PageTypeOK, netVars
  <2>3. SentIsOnTheWay' /\ PageKnows'
    BY <1>1, <1>2, <2>1 DEF PageCore, SentIsOnTheWay, PageKnows, mailVars, netVars
  <2> QED
    BY <1>2, <1>3, <2>2, <2>3 DEF PageCore
<1>6. CASE socket # "connecting"
  <2>1. sent' = drafted /\ UNCHANGED sending /\ Counted /\ SentOff
    BY <1>6 DEF UserSends
  <2>2. Drafts \in SUBSET Questions /\ Drafts = drafted \ sent /\ sent \subseteq drafted
    BY <1>4 DEF Drafts, PageCore, PageTypeOK
  <2>3. /\ up' \in Seq(Questions) /\ dropped' \subseteq Questions
        /\ ToSet(up) \cup dropped \cup Drafts \subseteq ToSet(up') \cup dropped'
    <3>1. CASE socket = "open"
      <4>1. PICK order \in SetToSeqs(Drafts) : up' = up \o order /\ UNCHANGED dropped
        BY <2>1, <3>1 DEF SentOff
      <4>2. order \in Seq(Questions) /\ ToSet(order) = Drafts
        BY <2>2, OrderFacts
      <4> QED
        BY <4>1, <4>2, ConcatFacts DEF PageCore, PageTypeOK
    <3>2. CASE socket # "open"
      BY <2>1, <2>2, <3>2 DEF SentOff, PageCore, PageTypeOK
    <3> QED
      BY <3>1, <3>2
  <2>4. \A q \in Questions : responses'[q] = IF q \in sent' THEN 1 ELSE 0
    BY <2>1, <2>2 DEF Counted, PageCore, PageKnows
  <2>5. responses' \in [Questions -> Nat]
    BY <2>1 DEF Counted, PageCore, PageTypeOK
  <2>6. PageTypeOK'
    BY <1>1, <2>1, <2>3, <2>5 DEF PageCore, PageTypeOK, netVars
  <2>7. SentIsOnTheWay'
    BY <1>2, <2>1, <2>2, <2>3 DEF PageCore, SentIsOnTheWay
  <2>8. PageKnows'
    BY <1>1, <2>4 DEF PageCore, PageKnows, mailVars, netVars
  <2> QED
    BY <1>2, <1>3, <2>6, <2>7, <2>8 DEF PageCore
<1> QED
  BY <1>5, <1>6

LEMMA ReloadsStep == PageCore /\ PageReloads => PageCore'
<1> SUFFICES ASSUME PageCore, PageReloads PROVE PageCore'
  OBVIOUS
<1> USE DEF PageReloads, FreshPage
<1>1. ToSet(<<>>) = {} /\ IsInjective(<<>>)
  BY DEF ToSet, IsInjective
<1>2. ToSet(up) \subseteq Questions
  BY ToSetType DEF PageCore, PageTypeOK
<1>6. /\ <<>> \in Seq(Messages) /\ <<>> \in Seq(Questions)
      /\ loads + 1 \in 0..MaxLoads
  BY PageAssumption DEF PageCore, PageTypeOK
<1>7. /\ loads' \in 0..MaxLoads /\ dropped' \subseteq Questions
      /\ responses' \in [Questions -> Nat]
  BY <1>2, <1>6 DEF PageCore, PageTypeOK
<1>3. PageTypeOK'
  BY <1>1, <1>6, <1>7 DEF PageTypeOK
<1>4. MailTypeOK' /\ PendingIsListed' /\ SentIsOnTheWay'
  BY DEF PageCore, MailTypeOK, mailVars, PendingIsListed, SentIsOnTheWay
<1>5. PageKnows'
  BY <1>1 DEF PageKnows
<1> QED
  BY <1>3, <1>4, <1>5 DEF PageCore

LEMMA PageStep == PageCore /\ PageNext => PageCore'
<1> SUFFICES ASSUME PageCore, PageNext PROVE PageCore'
  OBVIOUS
<1>1. ASSUME SocketFails \/ PageNotices \/ Reconnects PROVE PageCore'
  <2>1. PageTypeOK'
    BY <1>1 DEF SocketFails, PageNotices, Reconnects, PageCore, PageTypeOK, draftVars
  <2> QED
    BY <1>1, <2>1, ConnectionChanges DEF SocketFails, PageNotices, Reconnects
<1>2. CASE ConnectionBreaks
  <2>1. ToSet(up) \subseteq Questions
    BY ToSetType DEF PageCore, PageTypeOK
  <2>2. PageTypeOK'
    BY <1>2, <2>1 DEF ConnectionBreaks, PageCore, PageTypeOK, draftVars
  <2> QED
    BY <1>2, <2>2, ConnectionChanges DEF ConnectionBreaks
<1>3. CASE ServerNotices
  <2>1. PageTypeOK'
    BY <1>3 DEF ServerNotices, PageCore, PageTypeOK, draftVars
  <2> QED
    BY <1>3, <2>1, ConnectionChanges DEF ServerNotices
<1>4. CASE SessionOpens
  <2>1. PICK asked \in SUBSET Questions : Open(PageSession, asked)
    BY <1>4 DEF SessionOpens
  <2>2. Forward(asked) /\ phase[PageSession] = "unborn" /\ socket # "open"
    BY <2>1, OpenForward DEF PageCore, PageKnows
  <2> QED
    BY <1>4, <2>2, ServerGoesOn DEF SessionOpens
<1>5. CASE SessionCloses
  BY <1>5, EndForward, ServerGoesOn DEF SessionCloses, PageCore
<1>6. ASSUME NEW q \in Questions, AnsweredElsewhere(q) PROVE PageCore'
  <2>1. Forward({})
    BY <1>6, SettleForward DEF AnsweredElsewhere, Answer, Pending, PageCore
  <2> QED
    BY <1>6, <2>1, ServerGoesOn DEF AnsweredElsewhere
<1>7. ASSUME NEW q \in Questions, ServerPushes(q) PROVE PageCore'
  <2>1. Forward({q}) /\ mail'[q] = "pending"
    BY <1>7, PushForward DEF ServerPushes, PageCore
  <2> QED
    BY <1>7, <2>1, TellsStep DEF ServerPushes
<1>8. ASSUME NEW q \in Questions, ServerCancels(q) PROVE PageCore'
  <2>1. Forward({}) /\ mail'[q] = "cancelled"
    BY <1>8, SettleForward DEF ServerCancels, Cancel, Pending, PageCore
  <2> QED
    BY <1>8, <2>1, TellsStep DEF ServerCancels
<1>9. ASSUME NEW q \in Questions, UserDrafts(q) \/ UserEdits(q) PROVE PageCore'
  <2>1. sent \subseteq drafted' /\ drafted' \subseteq ToSet(listed)
    BY <1>9 DEF UserDrafts, UserEdits, IsCurrent, PageCore, PageTypeOK
  <2> QED
    BY <1>9, <2>1, DraftsStep DEF UserDrafts, UserEdits
<1> QED
  BY <1>1, <1>2, <1>3, <1>4, <1>5, <1>6, <1>7, <1>8, <1>9, OpensStep,
     ArrivesStep, ShownStep, RemovedStep, SendsStep, ReloadsStep DEF PageNext

-----------------------------------------------------------------------------
(* The forms                                                                *)

Types == Listing \cup Reviews \cup Uploads \cup Texts
           \cup {"confirm", "thumbs", "emoji_react", "slider"}

\* The number of a key is that of no other, and each number is that of a key.
LEMMA KeyFacts ==
    ASSUME NEW K \in SUBSET Nat, IsFiniteSet(K), NEW i \in 1..Cardinality(K)
    PROVE  KeyAt(K, i) \in K
<1> DEFINE n == Cardinality(K)
           upTo(k) == {j \in K : j <= k}
           f == [k \in K |-> Place(K, k)]
<1>1. n \in Nat
  BY FS_CardinalityType
<1>2. ASSUME NEW k \in K
      PROVE  /\ IsFiniteSet(upTo(k)) /\ Cardinality(upTo(k)) \in Nat
             /\ Cardinality(upTo(k)) <= n /\ Cardinality(upTo(k)) # 0
  <2>1. upTo(k) \subseteq K /\ k \in upTo(k)
    OBVIOUS
  <2> QED
    BY <2>1, FS_Subset, FS_CardinalityType, FS_EmptySet
<1>3. f \in [K -> 1..n]
  BY <1>1, <1>2 DEF Place
<1>4. ASSUME NEW k \in K, NEW l \in K, k < l PROVE f[k] # f[l]
  <2>1. upTo(k) \subseteq upTo(l) /\ l \in upTo(l) /\ l \notin upTo(k)
    <3>1. \A j \in K : j <= k => j <= l
      BY <1>4
    <3>2. l <= l /\ ~(l <= k)
      BY <1>4
    <3> QED
      BY <3>1, <3>2
  <2>2. Cardinality(upTo(k)) # Cardinality(upTo(l))
    <3> HIDE DEF upTo
    <3> QED
      BY <2>1, <1>2, FS_Subset
  <2> QED
    BY <2>2 DEF Place
<1>5. f \in Injection(K, 1..n)
  <2> HIDE DEF f
  <2>1. \A k, l \in K : k # l => k < l \/ l < k
    OBVIOUS
  <2>2. \A k, l \in K : k # l => f[k] # f[l]
    BY <2>1, <1>4
  <2> QED
    BY <1>3, <2>2 DEF Injection, IsInjective
<1>6. Cardinality(1..n) = n /\ IsFiniteSet(1..n)
  BY <1>1, FS_Interval
<1>7. f \in Surjection(K, 1..n)
  BY <1>5, <1>6, FS_Injection
<1>8. PICK k \in K : f[k] = i
  BY <1>7 DEF Surjection
<1>9. \E l \in K : Place(K, l) = i
  BY <1>8
<1> QED
  BY <1>9 DEF KeyAt

LEMMA NormalType ==
    ASSUME NEW input \in OptionInputs
    PROVE  NormalizeSequence(input) \in Seq(FormOptions)
<1> USE FormAssumption
<1>1. CASE input.shape \in {"absent", "list", "item"}
  <2>1. <<>> \in Seq(FormOptions)
    OBVIOUS
  <2>2. input.shape = "item" => <<input.item>> \in Seq(FormOptions)
    OBVIOUS
  <2> QED
    BY <1>1, <2>1, <2>2 DEF NormalizeSequence
<1>2. CASE input.shape = "indexed"
  <2> DEFINE K == DOMAIN input.items
  <2>1. /\ IsFiniteSet(K) /\ K \in SUBSET Nat
        /\ \A k \in K : input.items[k] \in FormOptions
    BY <1>2
  <2>2. NormalizeSequence(input)
          = [i \in 1..Cardinality(K) |-> input.items[KeyAt(K, i)]]
    BY <1>2 DEF NormalizeSequence
  <2> HIDE DEF K
  <2>3. Cardinality(K) \in Nat
    BY <2>1, FS_CardinalityType
  <2>4. \A i \in 1..Cardinality(K) : input.items[KeyAt(K, i)] \in FormOptions
    BY <2>1, KeyFacts
  <2> QED
    BY <2>2, <2>3, <2>4, SeqDef
<1> QED
  BY <1>1, <1>2

LEMMA ConfigFacts ==
    ASSUME NEW c \in Configs
    PROVE  /\ c.type \in Types /\ c.options \in Seq(FormOptions) /\ c # Blank
           /\ c.scale.min \in Int /\ c.scale.max \in Int
<1>1. OptionLists \subseteq Seq(FormOptions) /\ <<>> \in Seq(FormOptions)
  BY NormalType DEF OptionLists
<1>2. NoScale \in Scales
  BY FormAssumption DEF NoScale
<1>3. \E t \in Types, l \in Seq(FormOptions), sc \in Scales, b \in BOOLEAN :
        c = Config(t, l, sc, b)
  <2>1. CASE c \in QuestionConfigs
    <3>1. {"pick_one", "rank", "pick_many", "rate", "confirm"} \subseteq Types
      BY DEF Types, Listing
    <3> DEFINE plain == {Config(t, l, NoScale, FALSE) :
                            t \in {"pick_one", "rank"}, l \in OptionLists}
               scaled == {Config(t, l, sc, FALSE) :
                            t \in {"pick_many", "rate"}, l \in OptionLists, sc \in Scales}
               confirm == {Config("confirm", <<>>, NoScale, b) : b \in BOOLEAN}
    <3>2. CASE c \in plain
      <4>1. PICK t \in {"pick_one", "rank"}, l \in OptionLists :
              c = Config(t, l, NoScale, FALSE)
        BY <3>2 DEF Config
      <4>2. t \in Types /\ l \in Seq(FormOptions)
        BY <3>1, <1>1
      <4> QED
        BY <4>1, <4>2, <1>2
    <3>3. CASE c \in scaled
      <4>1. PICK t \in {"pick_many", "rate"}, l \in OptionLists, sc \in Scales :
              c = Config(t, l, sc, FALSE)
        BY <3>3 DEF Config
      <4>2. t \in Types /\ l \in Seq(FormOptions)
        BY <3>1, <1>1
      <4> QED
        BY <4>1, <4>2
    <3>4. CASE c \in confirm
      BY <3>4, <3>1, <1>1, <1>2
    <3>5. QuestionConfigs = plain \cup scaled \cup confirm
      BY DEF QuestionConfigs
    <3> HIDE DEF plain, scaled, confirm
    <3> QED
      BY <2>1, <3>5, <3>2, <3>3, <3>4
  <2>2. CASE c \in InputConfigs
    BY <2>2, <1>1, <1>2 DEF InputConfigs, Types
  <2>3. CASE c \in PresentationConfigs
    <3>1. Reviews \subseteq Types /\ "show_options" \in Types
      BY DEF Types, Listing
    <3> DEFINE reviews == {Config(t, <<>>, NoScale, FALSE) : t \in Reviews}
               shows == {Config("show_options", l, NoScale, b) :
                            l \in OptionLists, b \in BOOLEAN}
    <3>2. CASE c \in reviews
      BY <3>2, <3>1, <1>1, <1>2
    <3>3. CASE c \in shows
      BY <3>3, <3>1, <1>1, <1>2
    <3>4. PresentationConfigs = reviews \cup shows
      BY DEF PresentationConfigs
    <3> HIDE DEF reviews, shows
    <3> QED
      BY <2>3, <3>4, <3>2, <3>3, <3>4
  <2>4. CASE c \in QuickConfigs
    BY <2>4, <1>1, <1>2 DEF QuickConfigs, Types
  <2> QED
    BY ONLY c \in Configs, <2>1, <2>2, <2>3, <2>4 DEF Configs
<1>4. "none" \notin Types
  BY DEF Types, Listing, Reviews, Uploads, Texts
<1>5. \A sc \in Scales : sc.min \in Int /\ sc.max \in Int
  BY FormAssumption
<1> QED
  BY <1>3, <1>4, <1>5 DEF Config, Blank

\* A form just drawn is a form of its question.
LEMMA DrawnFits ==
    ASSUME NEW c \in Configs
    PROVE  FormOf(Drawn(c), c)
<1>1. /\ c.options \in Seq(FormOptions)
      /\ c.scale.min \in Int /\ c.scale.max \in Int
  BY ConfigFacts
<1>2. (c.scale.min + c.scale.max) \div 2 \in Int
  BY <1>1
<1>3. Drawn(c) \in Forms
  BY <1>1, <1>2 DEF Drawn, Forms
<1>4. Range(c.options) \subseteq FormOptions
  BY <1>1 DEF Range
<1> QED
  BY <1>3, <1>4 DEF FormOf, Drawn

\* The question on show is one of the list without an answer.
LEMMA FirstUnanswered ==
    ASSUME NEW list \in Seq(FormQuestions), NEW given, Unanswered(list, given) # {}
    PROVE  /\ Min(Unanswered(list, given)) \in DOMAIN list
           /\ list[Min(Unanswered(list, given))] \in FormQuestions
           /\ list[Min(Unanswered(list, given))] \in Range(list)
           /\ given[list[Min(Unanswered(list, given))]] = NoAnswer
<1> DEFINE open == Unanswered(list, given)
<1>1. open \in SUBSET Nat /\ open \subseteq DOMAIN list
  BY DEF Unanswered
<1>2. \E m \in open : \A n \in open : m <= n
  BY <1>1, LeastNumber
<1>3. Min(open) \in open
  BY <1>2 DEF Min
<1>4. \A i \in open : /\ i \in DOMAIN list /\ list[i] \in FormQuestions
                     /\ list[i] \in Range(list) /\ given[list[i]] = NoAnswer
  BY DEF Unanswered, Range
<1> QED
  BY <1>3, <1>4

LEMMA RenderFits ==
    ASSUME FormTypeOK', form' = Render(onPage', drafts'),
           \A q \in Range(onPage') : asks'[q].config # Blank
    PROVE  FormFits'
<1> SUFFICES ASSUME SomeShown'
             PROVE  FormOf(form', asks'[Shown'].config)
  BY DEF FormFits
<1>1. Unanswered(onPage', drafts') # {} /\ Shown' = onPage'[Min(Unanswered(onPage', drafts'))]
  BY DEF SomeShown, Shown, Unanswered
<1>2. Shown' \in FormQuestions /\ Shown' \in Range(onPage')
  BY <1>1, FirstUnanswered DEF FormTypeOK
<1>3. asks'[Shown'].config \in Configs
  BY <1>2 DEF FormTypeOK
<1>4. form' = Drawn(asks'[Shown'].config)
  BY <1>1 DEF Render
<1> QED
  BY <1>3, <1>4, DrawnFits

\* Dragging an option keeps them all.
LEMMA SequenceTurns ==
    ASSUME NEW S, NEW s \in Seq(S), Len(s) > 1
    PROVE  /\ Append(Tail(s), Head(s)) \in Seq(S)
           /\ Len(Append(Tail(s), Head(s))) = Len(s)
           /\ Range(Append(Tail(s), Head(s))) = Range(s)
<1> DEFINE t == Append(Tail(s), Head(s))
           n == Len(s)
<1>1. /\ n \in Nat /\ n > 1 /\ Tail(s) \in Seq(S) /\ Head(s) \in S
      /\ Len(Tail(s)) = n - 1 /\ Head(s) = s[1] /\ DOMAIN s = 1..n
      /\ \A i \in 1..(n - 1) : Tail(s)[i] = s[i + 1]
  OBVIOUS
<1>2. /\ t \in Seq(S) /\ Len(t) = n /\ DOMAIN t = 1..n
      /\ \A i \in 1..(n - 1) : t[i] = Tail(s)[i]
      /\ t[n] = Head(s)
  BY <1>1, AppendProperties
<1> HIDE DEF t, n
<1>3. /\ \A i \in 1..(n - 1) : t[i] = s[i + 1]
      /\ t[n] = s[1]
  BY <1>1, <1>2
<1>4. \A i \in 1..n : t[i] \in Range(s)
  <2>1. \A i \in 1..n : i \in 1..(n - 1) \/ i = n
    BY <1>1
  <2>2. 1 \in 1..n /\ \A i \in 1..(n - 1) : i + 1 \in 1..n
    BY <1>1
  <2> QED
    BY <1>1, <1>3, <2>1, <2>2 DEF Range
<1>5. \A i \in 1..n : s[i] \in Range(t)
  <2>1. \A i \in 1..n : i = 1 \/ (i - 1 \in 1..(n - 1) /\ (i - 1) + 1 = i /\ i - 1 \in 1..n)
    BY <1>1
  <2>2. n \in 1..n /\ s[1] \in Range(t)
    <3>1. n \in 1..n
      BY <1>1
    <3> QED
      BY <3>1, <1>2, <1>3 DEF Range
  <2>3. ASSUME NEW i \in 1..n, i - 1 \in 1..(n - 1), (i - 1) + 1 = i, i - 1 \in 1..n
        PROVE  s[i] \in Range(t)
    <3>1. t[i - 1] = s[i]
      BY <1>3, <2>3
    <3> QED
      BY <3>1, <1>2, <2>3 DEF Range
  <2> QED
    BY <2>1, <2>2, <2>3
<1>6. Range(t) = Range(s)
  BY <1>1, <1>2, <1>4, <1>5 DEF Range
<1> QED
  BY <1>1, <1>2, <1>6 DEF t, n

\* What the user does leaves a form of the same question.
LEMMA InputsFit ==
    ASSUME NEW c \in Configs, FormOf(form, c),
           \/ \E o \in FormOptions : Picks(c, o)
           \/ Drags(c) \/ Writes(c)
           \/ \E o \in FormOptions, v \in Stars(c) : SetRating(c, o, v)
           \/ \E v \in c.scale.min..c.scale.max : Slides(c, v)
           \/ \E fs \in FileSets : Chooses(c, fs)
    PROVE  FormOf(form', c)
<1>1. /\ c.options \in Seq(FormOptions) /\ c.scale.min \in Int /\ c.scale.max \in Int
      /\ c.type \in Types
  BY ConfigFacts
<1>2. form \in Forms
  BY DEF FormOf
<1>3. ASSUME NEW o \in FormOptions, Picks(c, o) PROVE FormOf(form', c)
  <2>1. PICK picked \in SUBSET FormOptions :
          /\ form' = [form EXCEPT !.picked = picked]
          /\ picked \subseteq Range(c.options)
          /\ c.type \in Radio => \A p, q \in picked : p = q
    <3>1. CASE c.type \in Radio /\ form' = [form EXCEPT !.picked = {o}]
      <4>1. o \in Range(c.options)
        BY <1>3 DEF Picks
      <4>2. {o} \in SUBSET FormOptions /\ {o} \subseteq Range(c.options)
            /\ \A p, q \in {o} : p = q
        BY <4>1
      <4> QED
        BY <3>1, <4>2
    <3>2. CASE c.type = "pick_many" /\ form' = [form EXCEPT !.picked =
                        IF o \in @ THEN @ \ {o} ELSE @ \union {o}]
      <4>1. c.type \notin Radio
        BY <3>2 DEF Radio
      <4>2. form.picked \in SUBSET FormOptions /\ form.picked \subseteq Range(c.options)
        BY <1>2 DEF FormOf, Forms
      <4> QED
        BY <3>2, <4>1, <4>2, <1>3 DEF Picks
    <3> QED
      BY <3>1, <3>2, <1>3 DEF Picks
  <2>2. /\ form' \in Forms /\ form'.picked = picked /\ form'.order = form.order
        /\ form'.stars = form.stars
    BY <2>1, <1>2 DEF Forms
  <2> QED
    BY <2>1, <2>2 DEF FormOf
<1>4. ASSUME Drags(c) PROVE FormOf(form', c)
  <2>1. form.order \in Seq(FormOptions) /\ Len(form.order) > 1 /\ c.type = "rank"
    BY <1>2, <1>4 DEF Forms, Drags
  <2> DEFINE turned == Append(Tail(form.order), Head(form.order))
  <2>2. /\ turned \in Seq(FormOptions) /\ Len(turned) = Len(form.order)
        /\ Range(turned) = Range(form.order)
    BY <2>1, SequenceTurns
  <2>3. form' = [form EXCEPT !.order = turned]
    BY <1>4 DEF Drags
  <2> HIDE DEF turned
  <2>4. /\ form' \in Forms /\ form'.picked = form.picked /\ form'.order = turned
        /\ form'.stars = form.stars
    BY <2>2, <2>3, <1>2 DEF Forms
  <2> QED
    BY <2>1, <2>2, <2>4 DEF FormOf
<1>5. ASSUME Writes(c) \/ (\E v \in c.scale.min..c.scale.max : Slides(c, v))
             \/ (\E fs \in FileSets : Chooses(c, fs))
      PROVE  FormOf(form', c)
  <2>1. /\ form' \in Forms /\ form'.picked = form.picked /\ form'.order = form.order
        /\ form'.stars = form.stars
    <3>1. CASE Writes(c)
      BY <3>1, <1>2 DEF Writes, Forms
    <3>2. CASE \E v \in c.scale.min..c.scale.max : Slides(c, v)
      <4>1. PICK v \in c.scale.min..c.scale.max : Slides(c, v)
        BY <3>2
      <4>2. v \in Int
        BY <1>1
      <4> QED
        BY <4>1, <4>2, <1>2 DEF Slides, Forms
    <3>3. CASE \E fs \in FileSets : Chooses(c, fs)
      BY <3>3, <1>2 DEF Chooses, Forms
    <3> QED
      BY <3>1, <3>2, <3>3, <1>5
  <2> QED
    BY <2>1 DEF FormOf
<1>6. ASSUME NEW o \in FormOptions, NEW v \in Stars(c), SetRating(c, o, v)
      PROVE  FormOf(form', c)
  <2> DEFINE marked == {w \in Stars(c) : w <= v}
             low == IF c.scale.min = 0 THEN 1 ELSE c.scale.min
             high == IF c.scale.max = 0 THEN 5 ELSE c.scale.max
  <2>1. Stars(c) = low..high /\ low \in Int /\ high \in Int
    BY <1>1 DEF Stars
  <2>2. marked \in SUBSET Int /\ marked \subseteq Stars(c)
        /\ \E w \in marked : \A x \in marked : w <= x
    <3> HIDE DEF low, high
    <3>1. v \in Int /\ low <= v /\ v <= high
      BY <2>1
    <3>2. low \in marked /\ \A x \in marked : low <= x
      BY <2>1, <3>1
    <3> QED
      BY <2>1, <3>2
  <2>3. /\ form.stars \in [FormOptions -> SUBSET Int]
        /\ form.last \in [FormOptions -> Int] /\ v \in Int
    BY <1>2, <2>1 DEF Forms
  <2>4. form' = [form EXCEPT !.stars = [form.stars EXCEPT ![o] = marked],
                             !.last = [form.last EXCEPT ![o] = v]]
    BY <1>6, <1>2 DEF SetRating, Forms
  <2> HIDE DEF marked
  <2>5. /\ form' \in Forms /\ form'.picked = form.picked /\ form'.order = form.order
        /\ form'.stars = [form.stars EXCEPT ![o] = marked]
    BY <2>2, <2>3, <2>4, <1>2 DEF Forms
  <2>6. \A p \in FormOptions : form'.stars[p] = IF p = o THEN marked ELSE form.stars[p]
    BY <2>3, <2>5
  <2>7. Range(c.options) \subseteq FormOptions
    BY <1>1 DEF Range
  <2>8. c.type = "rate" /\ c.type \notin Radio
    BY <1>6 DEF SetRating, Radio
  <2>9. \A p \in Range(c.options) : form'.stars[p] # {} =>
          /\ form'.stars[p] \subseteq Stars(c)
          /\ \E w \in form'.stars[p] : \A x \in form'.stars[p] : w <= x
    <3> SUFFICES ASSUME NEW p \in Range(c.options), form'.stars[p] # {}
                 PROVE  /\ form'.stars[p] \subseteq Stars(c)
                        /\ \E w \in form'.stars[p] : \A x \in form'.stars[p] : w <= x
      OBVIOUS
    <3>1. CASE p = o
      <4>1. form'.stars[p] = marked
        BY <3>1, <2>6
      <4> QED
        BY <4>1, <2>2
    <3>2. CASE p # o
      <4>1. form'.stars[p] = form.stars[p]
        BY <3>2, <2>6, <2>7
      <4> QED
        BY <4>1, <2>8 DEF FormOf
    <3> QED
      BY <3>1, <3>2
  <2> QED
    BY <2>5, <2>8, <2>9 DEF FormOf
<1> QED
  BY <1>3, <1>4, <1>5, <1>6

Suits(c, a) == Readable(c, a) /\ Fits(c, a.value)

\* Every type's field is the one its summary and its view read.
LEMMA FieldIsRead ==
    ASSUME NEW t \in Types
    PROVE  SummaryReads(t) \in {Field(t), "nothing"} /\ Field(t) \in AnsweredReads(t)
<1> USE DEF SummaryReads, AnsweredReads, AnsweredChoiceReads, AnsweredMoreReads, Field,
            Reviews, Uploads, Texts
<1>1. CASE t \in Listing
  BY <1>1 DEF Listing
<1>2. CASE t \in Reviews
  BY <1>2
<1>3. CASE t \in Uploads
  BY <1>3
<1>4. CASE t \in Texts
  BY <1>4
<1>5. CASE t \in {"confirm", "thumbs", "emoji_react", "slider"}
  BY <1>5
<1> QED
  BY <1>1, <1>2, <1>3, <1>4, <1>5 DEF Types

\* Ranks are counted from one, without a gap.
LEMMA RanksFit ==
    ASSUME NEW c, NEW order \in Seq(FormOptions), Len(order) = Len(c.options),
           Range(order) = Range(c.options),
           NEW v, \A i \in DOMAIN order : [id |-> order[i], rank |-> i] \in v,
           \A e \in v : \E i \in DOMAIN order : e = [id |-> order[i], rank |-> i]
    PROVE  {e.id : e \in v} = Range(c.options) /\ {e.rank : e \in v} = 1..Len(c.options)
<1>1. \A i \in DOMAIN order : \E e \in v : e.id = order[i] /\ e.rank = i
  <2> TAKE i \in DOMAIN order
  <2> WITNESS [id |-> order[i], rank |-> i] \in v
  <2> QED
    OBVIOUS
<1>2. \A e \in v : \E i \in DOMAIN order : e.id = order[i] /\ e.rank = i
  OBVIOUS
<1>3. {e.id : e \in v} = {order[i] : i \in DOMAIN order}
  BY <1>1, <1>2
<1>6. /\ \A i \in DOMAIN order : \E e \in v : e.rank = i
      /\ \A e \in v : e.rank \in DOMAIN order
  BY <1>1, <1>2
<1>4. {e.rank : e \in v} = DOMAIN order
  BY ONLY <1>6
<1>5. Range(order) = {order[i] : i \in DOMAIN order} /\ DOMAIN order = 1..Len(c.options)
  BY DEF Range
<1> QED
  BY <1>3, <1>4, <1>5

\* The answer made of a form of the question suits it.
LEMMA MadeSuits ==
    ASSUME NEW c \in Configs, FormOf(form, c), NEW b \in Buttons(c)
    PROVE  Suits(c, Made(c, b))
<1>1. /\ Made(c, b).field = Field(c.type) /\ Made(c, b).value = Value(c, b)
  BY DEF Made
<1>2. c.type \in Types /\ c.options \in Seq(FormOptions)
  BY ConfigFacts
<1>3. Readable(c, Made(c, b))
  BY <1>1, <1>2, FieldIsRead DEF Readable
<1>4. ASSUME c.type \in Radio
      PROVE  Cardinality(Value(c, b)) = 1 /\ Value(c, b) \subseteq Range(c.options)
  <2>1. Value(c, b) = form.picked
    BY <1>4 DEF Value, Radio, Texts, Uploads
  <2>2. form.picked # {}
    BY <1>4 DEF Buttons, Radio, Reviews, Uploads
  <2>3. PICK o \in form.picked : form.picked = {o}
    BY <1>4, <2>2 DEF FormOf
  <2>4. Cardinality({o}) = 1
    BY FS_Singleton
  <2> QED
    BY <2>1, <2>3, <2>4 DEF FormOf
<1>5. ASSUME c.type = "rank"
      PROVE  /\ {e.id : e \in Value(c, b)} = Range(c.options)
             /\ {e.rank : e \in Value(c, b)} = 1..Len(c.options)
  <2>1. Value(c, b) = {[id |-> form.order[i], rank |-> i] : i \in DOMAIN form.order}
    BY <1>5 DEF Value, SubmitRank, Radio, Texts, Uploads
  <2>2. form.order \in Seq(FormOptions)
    BY DEF FormOf, Forms
  <2> QED
    <3>1. \A i \in DOMAIN form.order : [id |-> form.order[i], rank |-> i] \in Value(c, b)
      BY <2>1
    <3>2. \A e \in Value(c, b) : \E i \in DOMAIN form.order :
            e = [id |-> form.order[i], rank |-> i]
      BY <2>1
    <3>3. Len(form.order) = Len(c.options) /\ Range(form.order) = Range(c.options)
      BY <1>5 DEF FormOf
    <3> QED
      BY <3>1, <3>2, <3>3, <2>2, RanksFit
<1>6. ASSUME c.type = "rate"
      PROVE  /\ DOMAIN Value(c, b) \subseteq Range(c.options)
             /\ \A o \in DOMAIN Value(c, b) : Value(c, b)[o] \in Stars(c)
  <2>1. Value(c, b) = SubmitRate(c)
    BY <1>6 DEF Value, Radio, Texts, Uploads
  <2>2. ASSUME NEW o \in Range(c.options), form.stars[o] # {}
        PROVE  Min(form.stars[o]) \in Stars(c)
    <3>1. \E w \in form.stars[o] : \A x \in form.stars[o] : w <= x
      BY <1>6, <2>2 DEF FormOf
    <3>2. Min(form.stars[o]) \in form.stars[o]
      BY <3>1 DEF Min
    <3> QED
      BY <1>6, <2>2, <3>2 DEF FormOf
  <2>3. /\ DOMAIN SubmitRate(c) = {p \in Range(c.options) : form.stars[p] # {}}
        /\ \A o \in DOMAIN SubmitRate(c) : SubmitRate(c)[o] = Min(form.stars[o])
    BY DEF SubmitRate
  <2> QED
    BY <2>1, <2>2, <2>3
<1> QED
  BY <1>1, <1>3, <1>4, <1>5, <1>6 DEF Suits, Fits

FormCore ==
    /\ FormTypeOK /\ AnswersAreReadable /\ AnswersFitTheQuestion /\ DraftsFit
    /\ CheckedIsValid /\ FormFits

Asked(q) == asks[q].config # Blank

\* What a step must do to leave the answers right.
LEMMA AnswersStay ==
    ASSUME FormCore, FormTypeOK', CheckedIsValid', FormFits',
           \A q \in FormQuestions : Asked(q) => asks'[q] = asks[q],
           \A q \in FormQuestions :
                \/ drafts'[q] \in {NoAnswer, drafts[q]}
                \/ Asked(q) /\ Suits(asks[q].config, drafts'[q]),
           \A q \in FormQuestions : stored'[q] \in {stored[q], drafts[q]},
           \A r \in readers' :
                \/ r \in readers
                \/ Asked(r.of) /\ Suits(asks[r.of].config, r.made),
           \A q \in Range(onPage') : q \in Range(onPage) \/ asks'[q].config # Blank
    PROVE  FormCore'
<1>1. \A q \in FormQuestions : Asked(q) => asks'[q] = asks[q] /\ asks'[q].config # Blank
  BY DEF Asked
<1>2. ASSUME NEW q \in FormQuestions
      PROVE  /\ stored[q] # NoAnswer =>
                  Asked(q) /\ Suits(asks[q].config, stored[q])
             /\ drafts[q] # NoAnswer =>
                  Asked(q) /\ Suits(asks[q].config, drafts[q])
             /\ q \in Range(onPage) => Asked(q)
  BY DEF FormCore, AnswersAreReadable, AnswersFitTheQuestion, DraftsFit, HasDraft, Asked, Suits
<1>3. ASSUME NEW r \in readers
      PROVE  r.of \in FormQuestions /\ Asked(r.of) /\ Suits(asks[r.of].config, r.made)
  BY DEF FormCore, FormTypeOK, DraftsFit, Asked, Suits
<1>4. ASSUME NEW q \in FormQuestions
      PROVE  /\ stored'[q] # NoAnswer =>
                  asks'[q].config # Blank /\ Suits(asks'[q].config, stored'[q])
             /\ drafts'[q] # NoAnswer =>
                  asks'[q].config # Blank /\ Suits(asks'[q].config, drafts'[q])
             /\ q \in Range(onPage') => asks'[q].config # Blank
  BY <1>1, <1>2
<1>5. ASSUME NEW r \in readers'
      PROVE  asks'[r.of].config # Blank /\ Suits(asks'[r.of].config, r.made)
  <2>1. r.of \in FormQuestions
    BY DEF FormTypeOK
  <2> QED
    BY <1>1, <1>3, <2>1
<1>6. AnswersAreReadable' /\ AnswersFitTheQuestion'
  BY <1>4 DEF AnswersAreReadable, AnswersFitTheQuestion, Suits
<1>7. DraftsFit'
  BY <1>4, <1>5 DEF DraftsFit, HasDraft, Suits
<1> QED
  BY <1>6, <1>7 DEF FormCore

LEMMA FormInitially == FormInit => FormCore
<1> SUFFICES ASSUME FormInit PROVE FormCore
  OBVIOUS
<1>1. Range(<<>>) = {} /\ IsInjective(<<>>) /\ <<>> \in Seq(FormQuestions)
  BY DEF Range, IsInjective
<1>2. FormTypeOK
  BY <1>1 DEF FormInit, FormTypeOK
<1>3. AnswersAreReadable /\ AnswersFitTheQuestion /\ CheckedIsValid
  BY DEF FormInit, AnswersAreReadable, AnswersFitTheQuestion, CheckedIsValid
<1>4. DraftsFit
  BY <1>1 DEF FormInit, DraftsFit, HasDraft
<1>5. FormFits
  BY DEF FormInit, FormFits, SomeShown, Unanswered
<1> QED
  BY <1>2, <1>3, <1>4, <1>5 DEF FormCore

LEMMA RangeIsSet ==
    ASSUME NEW s PROVE Range(s) = ToSet(s)
BY DEF Range, ToSet

LEMMA ShownFacts ==
    ASSUME FormCore, SomeShown
    PROVE  /\ Shown \in FormQuestions /\ Shown \in Range(onPage) /\ Asked(Shown)
           /\ asks[Shown].config \in Configs /\ FormOf(form, asks[Shown].config)
<1>1. /\ Shown = onPage[Min(Unanswered(onPage, drafts))]
      /\ Unanswered(onPage, drafts) # {}
  BY DEF Shown, SomeShown
<1>2. Shown \in FormQuestions /\ Shown \in Range(onPage)
  BY <1>1, FirstUnanswered DEF FormCore, FormTypeOK
<1>3. asks[Shown].config # Blank
  BY <1>2 DEF FormCore, DraftsFit
<1> QED
  BY <1>2, <1>3 DEF FormCore, FormTypeOK, FormFits, Asked

LEMMA FormPushedStep ==
    ASSUME FormCore, NEW q \in FormQuestions, NEW c \in Configs, NEW b \in BOOLEAN,
           FormPushed(q, c, b)
    PROVE  FormCore'
<1> USE DEF FormPushed
<1>1. /\ onPage \in Seq(FormQuestions) /\ IsInjective(onPage) /\ q \notin Range(onPage)
      /\ asks \in [FormQuestions -> [config : Configs \cup {Blank}, checked : BOOLEAN]]
  BY DEF FormCore, FormTypeOK, DraftsFit
<1>2. /\ asks' \in [FormQuestions -> [config : Configs \cup {Blank}, checked : BOOLEAN]]
      /\ asks'[q].config = c /\ asks'[q].checked = b
      /\ \A p \in FormQuestions : p # q => asks'[p] = asks[p]
  <2>1. [config |-> c, checked |-> b] \in [config : Configs \cup {Blank}, checked : BOOLEAN]
    OBVIOUS
  <2> QED
    BY <1>1, <2>1
<1>3. /\ onPage' \in Seq(FormQuestions) /\ Range(onPage') = Range(onPage) \cup {q}
      /\ IsInjective(onPage')
  <2>1. /\ onPage' \in Seq(FormQuestions) /\ ToSet(onPage') = ToSet(onPage) \cup {q}
        /\ DOMAIN onPage' = 1..(Len(onPage) + 1) /\ DOMAIN onPage = 1..Len(onPage)
        /\ \A i \in 1..Len(onPage) : onPage'[i] = onPage[i]
        /\ onPage'[Len(onPage) + 1] = q
    BY <1>1, AppendFacts
  <2>2. \A i \in 1..Len(onPage) : onPage[i] # q
    BY <1>1, <2>1 DEF Range
  <2>3. Len(onPage) \in Nat
    BY <1>1
  <2>4. \A i \in 1..(Len(onPage) + 1) : i \in 1..Len(onPage) \/ i = Len(onPage) + 1
    BY <2>3
  <2>5. IsInjective(onPage')
    BY <1>1, <2>1, <2>2, <2>4 DEF IsInjective
  <2> QED
    BY <2>1, <2>5, RangeIsSet
<1>4. c # Blank
  BY ConfigFacts
<1>5. FormTypeOK'
  BY <1>2, <1>3 DEF FormCore, FormTypeOK
<1>6. CheckedIsValid'
  BY <1>2 DEF FormCore, CheckedIsValid
<1>7. \A p \in Range(onPage') : p \in Range(onPage) \/ asks'[p].config # Blank
  BY <1>2, <1>3, <1>4
<1>8. \A p \in FormQuestions : Asked(p) => asks'[p] = asks[p]
  BY <1>2 DEF Asked
<1>9. \A p \in Range(onPage') : asks'[p].config # Blank
  <2>1. Range(onPage) \subseteq FormQuestions
    BY <1>1 DEF Range
  <2> QED
    BY <2>1, <1>2, <1>3, <1>4 DEF FormCore, DraftsFit
<1>10. FormFits'
  BY <1>5, <1>9, RenderFits
<1> QED
  BY <1>5, <1>6, <1>7, <1>8, <1>10, AnswersStay

\* A step that asks nothing and draws the page anew.
LEMMA DrawnAnew ==
    ASSUME FormCore, UNCHANGED asks, FormTypeOK', Range(onPage') \subseteq Range(onPage),
           form' = Render(onPage', drafts'),
           \A q \in FormQuestions :
                \/ drafts'[q] \in {NoAnswer, drafts[q]}
                \/ Asked(q) /\ Suits(asks[q].config, drafts'[q]),
           \A q \in FormQuestions : stored'[q] \in {stored[q], drafts[q]},
           \A r \in readers' : r \in readers
    PROVE  FormCore'
<1>1. \A q \in Range(onPage') : q \in FormQuestions /\ asks'[q].config # Blank
  <2>1. Range(onPage) \subseteq FormQuestions
    BY DEF FormCore, FormTypeOK, Range
  <2> QED
    BY <2>1 DEF FormCore, DraftsFit
<1>2. FormFits'
  BY <1>1, RenderFits
<1>3. CheckedIsValid'
  BY DEF FormCore, CheckedIsValid
<1> QED
  BY <1>1, <1>2, <1>3, AnswersStay

LEMMA CancelledStep ==
    ASSUME FormCore, NEW q \in FormQuestions, FormCancelled(q)
    PROVE  FormCore'
<1> USE DEF FormCancelled
<1>1. PICK i \in DOMAIN onPage : onPage[i] = q /\ onPage' = RemoveAt(onPage, i)
  OBVIOUS
<1>2. /\ onPage' \in Seq(FormQuestions) /\ IsInjective(onPage')
      /\ Range(onPage') \subseteq Range(onPage)
  BY <1>1, RemoveFacts, RangeIsSet DEF FormCore, FormTypeOK
<1>3. FormTypeOK'
  BY <1>2 DEF FormCore, FormTypeOK
<1>4. \A p \in FormQuestions : drafts'[p] \in {NoAnswer, drafts[p]}
  BY DEF FormCore, FormTypeOK
<1> QED
  BY <1>2, <1>3, <1>4, DrawnAnew

LEMMA EditStep ==
    ASSUME FormCore, NEW q \in FormQuestions, EditAnswer(q)
    PROVE  FormCore'
<1> USE DEF EditAnswer
<1>1. FormTypeOK'
  BY DEF FormCore, FormTypeOK
<1>2. \A p \in FormQuestions : drafts'[p] \in {NoAnswer, drafts[p]}
  BY DEF FormCore, FormTypeOK
<1> QED
  BY <1>1, <1>2, DrawnAnew

LEMMA SentStep == FormCore /\ DraftsSent => FormCore'
<1> SUFFICES ASSUME FormCore, DraftsSent PROVE FormCore'
  OBVIOUS
<1> USE DEF DraftsSent
<1>1. Range(onPage) \subseteq FormQuestions
  BY DEF FormCore, FormTypeOK, Range
<1>2. FormTypeOK'
  BY <1>1 DEF FormCore, FormTypeOK
<1>3. \A p \in FormQuestions : stored'[p] \in {stored[p], drafts[p]}
  OBVIOUS
<1> QED
  BY <1>2, <1>3, DrawnAnew

LEMMA RedrawnStep == FormCore /\ Redrawn => FormCore'
<1> SUFFICES ASSUME FormCore, Redrawn PROVE FormCore'
  OBVIOUS
<1>1. FormTypeOK'
  BY DEF Redrawn, FormCore, FormTypeOK
<1> QED
  BY <1>1, DrawnAnew DEF Redrawn

LEMMA SubmittedStep ==
    ASSUME FormCore, NEW q \in FormQuestions, NEW a, Asked(q), Suits(asks[q].config, a),
           Submitted(q, a), readers' \subseteq readers, UNCHANGED <<onPage, stored>>
    PROVE  FormCore'
<1> USE DEF Submitted
<1>1. FormTypeOK'
  BY DEF FormCore, FormTypeOK
<1>2. \A p \in FormQuestions :
        \/ drafts'[p] \in {NoAnswer, drafts[p]}
        \/ Asked(p) /\ Suits(asks[p].config, drafts'[p])
  BY DEF FormCore, FormTypeOK
<1> QED
  BY <1>1, <1>2, DrawnAnew

LEMMA InputsStep == FormCore /\ UserInputs => FormCore'
<1> SUFFICES ASSUME FormCore, UserInputs PROVE FormCore'
  OBVIOUS
<1>1. SomeShown /\ UNCHANGED <<asks, onPage, drafts, delivered, stored, readers>>
  BY DEF UserInputs
<1> DEFINE c == asks[Shown].config
<1>2. c \in Configs /\ FormOf(form, c)
  BY <1>1, ShownFacts
<1>3. \/ \E o \in FormOptions : Picks(c, o)
      \/ Drags(c) \/ Writes(c)
      \/ \E o \in FormOptions, v \in Stars(c) : SetRating(c, o, v)
      \/ \E v \in c.scale.min..c.scale.max : Slides(c, v)
      \/ \E fs \in FileSets : Chooses(c, fs)
  BY DEF UserInputs
<1>4. c = asks'[Shown'].config
  BY <1>1 DEF Shown, Unanswered
<1> HIDE DEF c
<1>5. FormOf(form', c)
  BY <1>2, <1>3, InputsFit
<1>6. FormFits'
  BY <1>4, <1>5 DEF FormFits
<1>7. FormTypeOK' /\ CheckedIsValid'
  BY <1>1 DEF FormCore, FormTypeOK, CheckedIsValid
<1> QED
  BY <1>1, <1>6, <1>7, AnswersStay

LEMMA SubmitsStep == FormCore /\ UserSubmits => FormCore'
<1> SUFFICES ASSUME FormCore, UserSubmits PROVE FormCore'
  OBVIOUS
<1>1. SomeShown /\ UNCHANGED <<onPage, stored>>
  BY DEF UserSubmits
<1> DEFINE q == Shown
           c == asks[q].config
<1>2. /\ q \in FormQuestions /\ Asked(q) /\ c \in Configs /\ FormOf(form, c)
  BY <1>1, ShownFacts
<1>3. PICK b \in Buttons(c) :
        IF c.type \in Uploads
        THEN /\ readers' = readers \union {[of |-> q, made |-> Made(c, b)]}
             /\ UNCHANGED <<asks, form, drafts, delivered>>
        ELSE Submitted(q, Made(c, b)) /\ UNCHANGED readers
  BY DEF UserSubmits
<1>4. Suits(c, Made(c, b))
  BY <1>2, MadeSuits
<1>5. CASE c.type \notin Uploads
  <2> HIDE DEF q
  <2> QED
    BY <1>1, <1>2, <1>3, <1>4, <1>5, SubmittedStep
<1>6. CASE c.type \in Uploads
  <2> DEFINE r == [of |-> q, made |-> Made(c, b)]
  <2>1. /\ r.of = q /\ r.made = Made(c, b)
        /\ readers' = readers \cup {r} /\ UNCHANGED <<asks, form, drafts, delivered>>
    BY <1>3, <1>6
  <2>2. FormFits'
    BY <1>1, <2>1 DEF FormCore, FormFits, SomeShown, Shown, Unanswered
  <2> HIDE DEF q, r
  <2>3. FormTypeOK' /\ CheckedIsValid'
    BY <1>1, <1>2, <2>1 DEF FormCore, FormTypeOK, CheckedIsValid
  <2>4. \A s \in readers' :
            \/ s \in readers
            \/ Asked(s.of) /\ Suits(asks[s.of].config, s.made)
    BY <2>1, <1>2, <1>4
  <2> QED
    BY <1>1, <2>1, <2>2, <2>3, <2>4, AnswersStay
<1> QED
  BY <1>5, <1>6

LEMMA ReadStep == FormCore /\ FilesRead => FormCore'
<1> SUFFICES ASSUME FormCore, FilesRead PROVE FormCore'
  OBVIOUS
<1>1. PICK r \in readers : readers' = readers \ {r} /\ Submitted(r.of, r.made)
  BY DEF FilesRead
<1>2. r.of \in FormQuestions /\ Asked(r.of) /\ Suits(asks[r.of].config, r.made)
  BY DEF FormCore, FormTypeOK, DraftsFit, Asked, Suits
<1> QED
  BY <1>1, <1>2, SubmittedStep DEF FilesRead

LEMMA FormStep == FormCore /\ FormNext => FormCore'
BY FormPushedStep, CancelledStep, EditStep, InputsStep, SubmitsStep, ReadStep, SentStep,
   RedrawnStep DEF FormNext

LEMMA HeadFollows == FormCore => HeadCanBeAnswered
<1> SUFFICES ASSUME FormCore, SomeShown, asks[Shown].checked,
                    asks[Shown].config.type # "emoji_react",
                    asks[Shown].config.type \notin Uploads,
                    asks[Shown].config.options = <<>>
             PROVE  Buttons(asks[Shown].config) # {}
  BY DEF HeadCanBeAnswered
<1> DEFINE c == asks[Shown].config
<1>1. Valid(c) /\ c \in Configs
  BY ShownFacts DEF FormCore, CheckedIsValid
<1> HIDE DEF c
<1>2. c.type \notin Listing /\ c.type \in Types
  BY <1>1, ConfigFacts DEF Valid, c
<1> QED
  BY <1>2 DEF Buttons, Listing, Types, Radio, Reviews, Uploads, Texts, c

LEMMA FormInvIsCore == FormInv <=> FormCore
BY HeadFollows DEF FormInv, FormCore

-----------------------------------------------------------------------------
(* The browser's side                                                       *)

BrowserCore ==
    /\ part \in {"page", "tools", "portal", "forms"}
    /\ part = "page" => PageCore
    /\ part = "tools" => ToolsCore
    /\ PortalCore /\ FormCore

LEMMA BrowserInitially == BrowserInit => BrowserCore
BY PageInitially, ToolsInitially, PortalInitially, FormInitially
   DEF BrowserInit, BrowserCore

\* What a part looks at stays while the behaviour is about another.
LEMMA PageRests == PageCore /\ UNCHANGED <<mailVars, pageVars>> => PageCore'
<1> SUFFICES ASSUME PageCore, UNCHANGED <<mailVars, pageVars>> PROVE PageCore'
  OBVIOUS
<1>1. MailTypeOK' /\ PageTypeOK'
  BY DEF mailVars, pageVars, netVars, draftVars, PageCore, MailTypeOK, PageTypeOK
<1>2. PendingIsListed' /\ SentIsOnTheWay' /\ PageKnows'
  BY DEF mailVars, pageVars, netVars, draftVars, PageCore, PendingIsListed,
         SentIsOnTheWay, PageKnows, Pending, In, Drafts
<1> QED
  BY <1>1, <1>2 DEF PageCore

LEMMA ToolsRest == ToolsCore /\ UNCHANGED <<mailVars, toolVars>> => ToolsCore'
BY DEF mailVars, toolVars, ToolsCore, MailTypeOK, ToolsTypeOK, TrackedAgrees,
       DeletedOwnsNothing, OpenIsAccounted

LEMMA PortalRests == PortalCore /\ UNCHANGED portalVars => PortalCore'
BY DEF portalVars, PortalCore, PortalTypeOK, IndexMatchesSessions, SessionsAreKnown,
       ConnectedIsReal, Live

LEMMA FormsRest == FormCore /\ UNCHANGED formVars => FormCore'
<1> SUFFICES ASSUME FormCore, UNCHANGED formVars PROVE FormCore'
  OBVIOUS
<1> USE DEF formVars
<1>1. FormTypeOK' /\ CheckedIsValid'
  BY DEF FormCore, FormTypeOK, CheckedIsValid
<1>2. AnswersAreReadable' /\ AnswersFitTheQuestion' /\ DraftsFit'
  BY DEF FormCore, AnswersAreReadable, AnswersFitTheQuestion, DraftsFit, HasDraft
<1>3. FormFits'
  BY DEF FormCore, FormFits, SomeShown, Shown, Unanswered
<1> QED
  BY <1>1, <1>2, <1>3 DEF FormCore

LEMMA BrowserStep == BrowserCore /\ [BrowserNext]_browserVars => BrowserCore'
<1> SUFFICES ASSUME BrowserCore, [BrowserNext]_browserVars PROVE BrowserCore'
  OBVIOUS
<1>1. CASE part = "page" /\ PageNext /\ UNCHANGED <<part, toolVars, portalVars, formVars>>
  BY <1>1, PageStep, PortalRests, FormsRest DEF BrowserCore
<1>2. CASE part = "tools" /\ ToolsNext /\ UNCHANGED <<part, pageVars, portalVars, formVars>>
  BY <1>2, ToolsStep, PortalRests, FormsRest DEF BrowserCore
<1>3. CASE /\ part = "portal" /\ PortalNext
           /\ UNCHANGED <<part, mailVars, pageVars, toolVars, formVars>>
  BY <1>3, PortalStep, FormsRest DEF BrowserCore
<1>4. CASE /\ part = "forms" /\ FormNext
           /\ UNCHANGED <<part, mailVars, pageVars, toolVars, portalVars>>
  BY <1>4, FormStep, PortalRests DEF BrowserCore
<1>5. CASE UNCHANGED browserVars
  BY <1>5, PageRests, ToolsRest, PortalRests, FormsRest DEF BrowserCore, browserVars
<1> QED
  BY <1>1, <1>2, <1>3, <1>4, <1>5 DEF BrowserNext

LEMMA BrowserKeeps == BrowserSpec => []BrowserCore
BY BrowserInitially, BrowserStep, PTL DEF BrowserSpec

\* A connected page lists every pending question, sends each answer once, and
\* what it sent is on its way or went down with a connection, for any
\* questions, reloads, broken sockets and orders of the messages
\* (src/octto/ui/bundle.ts, src/octto/session/server.ts).
THEOREM PageKeepsItsWord == BrowserSpec => []PageInv
<1>1. BrowserCore => PageInv
  BY SentOnceFollows DEF BrowserCore, PageCore, PageInv
<1> QED
  BY <1>1, BrowserKeeps, PTL

\* What is tracked for an agent are the open sessions it owns, and a deleted
\* agent owns none once its cleanup is over, for any agents and sessions
\* (src/index.ts, src/tools/octto).
THEOREM ToolsKeepTrack == BrowserSpec => []ToolsInv
<1>1. BrowserCore => ToolsInv
  BY DEF BrowserCore, ToolsCore, ToolsInv
<1> QED
  BY <1>1, BrowserKeeps, PTL

\* The portal's index of questions agrees with the sessions it holds, whoever
\* waits longest is listed first, and a session that is shown as connected has
\* a socket, for any instances of the plugin, sessions and sockets
\* (src/octto/portal).
THEOREM PortalIsTrue == BrowserSpec => []PortalInv
<1>1. BrowserCore => PortalInv
  BY ListsArePendingFirst DEF BrowserCore, PortalCore, PortalInv
<1> QED
  BY <1>1, BrowserKeeps, PTL

\* An answer is one its question's summary and view can read, and one about
\* what was asked, and the queue of questions never sticks, for any questions,
\* options, scales and files (src/octto/ui/bundle.ts, src/tools/octto).
THEOREM AnswersFit == BrowserSpec => []FormInv
<1>1. BrowserCore => FormInv
  BY FormInvIsCore DEF BrowserCore
<1> QED
  BY <1>1, BrowserKeeps, PTL

-----------------------------------------------------------------------------
(* The mailbox of a brainstorm                                              *)

Begun == phase[Browser] = "open"

LEMMA BrainAskFacts ==
    ASSUME MailTypeOK, NEW asked, Ask(Browser, asked)
    PROVE  /\ mail' \in [Questions -> Letters]
           /\ home' \in [Questions -> Sessions \cup {NoSession}]
           /\ \A q \in Questions :
                /\ mail'[q] = IF q \in asked THEN "pending" ELSE mail[q]
                /\ home'[q] = IF q \in asked THEN Browser ELSE home[q]
                /\ q \in asked => mail[q] = "unasked"
  BY BrainstormAssumption DEF Ask, Become, MailTypeOK, Letters

LEMMA BrainOpenFacts ==
    ASSUME MailTypeOK, NEW asked, Open(Browser, asked)
    PROVE  /\ MailTypeOK' /\ phase[Browser] = "unborn" /\ phase'[Browser] = "open"
           /\ \A q \in Questions :
                /\ mail'[q] = IF q \in asked THEN "pending" ELSE mail[q]
                /\ home'[q] = IF q \in asked THEN Browser ELSE home[q]
<1>1. phase' \in [Sessions -> Phases] /\ phase[Browser] = "unborn" /\ phase'[Browser] = "open"
  BY BrainstormAssumption DEF Open, MailTypeOK, Phases
<1> QED
  BY <1>1, BrainAskFacts DEF Open, MailTypeOK

LEMMA BrainPushFacts ==
    ASSUME MailTypeOK, NEW q \in Questions, Push(Browser, q)
    PROVE  /\ MailTypeOK' /\ Begun /\ Begun' /\ mail[q] = "unasked"
           /\ mail'[q] = "pending" /\ home'[q] = Browser
           /\ \A p \in Questions \ {q} : mail'[p] = mail[p] /\ home'[p] = home[p]
<1>1. /\ phase' \in [Sessions -> Phases] /\ Begun /\ Begun'
      /\ Ask(Browser, {q})
  BY DEF Push, MailTypeOK, Begun
<1> QED
  BY <1>1, BrainAskFacts DEF MailTypeOK

LEMMA BrainSettleFacts ==
    ASSUME MailTypeOK, NEW q \in Questions,
           NEW from \in Letters, NEW letter \in Letters,
           Begun, q \in In(Browser, {from}), Become({q}, letter), UNCHANGED <<phase, home>>
    PROVE  /\ MailTypeOK' /\ Begun' /\ mail[q] = from /\ home[q] = Browser
           /\ mail'[q] = letter
           /\ \A p \in Questions \ {q} : mail'[p] = mail[p]
           /\ \A p \in Questions : home'[p] = home[p]
  BY DEF MailTypeOK, In, Become, Begun

LEMMA BrainEndFacts ==
    ASSUME MailTypeOK, End(Browser)
    PROVE  /\ MailTypeOK' /\ Begun /\ phase'[Browser] = "ended" /\ mail' = mail
  BY BrainstormAssumption DEF MailTypeOK, End, Phases, Begun

-----------------------------------------------------------------------------
(* Threads, question by question                                            *)

Alive(q) == \/ home[q] = Browser /\ mail[q] \in {"pending", "answered"}
            \/ process[q] \notin {"none", "over"}

Threaded ==
    Begun =>
      /\ \A q \in Questions :
            branchOf[q] # NoBranch /\ Alive(q) => finding[branchOf[q]] = NoQuestion
      /\ \A p, q \in Questions :
            branchOf[p] # NoBranch /\ branchOf[p] = branchOf[q] /\ Alive(p) /\ Alive(q) => p = q
      /\ \A b \in Branches :
            \/ finding[b] # NoQuestion \/ b \in lost
            \/ \E q \in Questions : branchOf[q] = b /\ Alive(q)

LEMMA ThreadsOf ==
    \A b : Threads(b) = {q \in Questions : branchOf[q] = b /\ Alive(q)}
  BY DEF Threads, Letter, In, Alive

LEMMA ThreadedIsOneThread ==
    BrainstormTypeOK /\ (Begun => file # "absent") => (Threaded <=> OneThreadPerBranch)
<1> SUFFICES ASSUME BrainstormTypeOK, Begun => file # "absent"
             PROVE  Threaded <=> OneThreadPerBranch
  OBVIOUS
<1>1. CASE ~ Begun
  BY <1>1 DEF Threaded, OneThreadPerBranch, Begun
<1>2. CASE Begun
  <2>1. OneThreadPerBranch <=>
          \A b \in Branches :
            IF Done(b) THEN Threads(b) = {}
            ELSE /\ \A p, q \in Threads(b) : p = q
                 /\ Threads(b) = {} => b \in lost
    BY <1>2 DEF OneThreadPerBranch, Begun
  <2>2. \A q \in Questions : branchOf[q] \in Branches \cup {NoBranch}
    BY DEF BrainstormTypeOK
  <2>3. NoBranch \notin Branches
    BY BrainstormAssumption
  <2>4. ASSUME Threaded PROVE OneThreadPerBranch
    <3> SUFFICES ASSUME NEW b \in Branches
                 PROVE  IF Done(b) THEN Threads(b) = {}
                        ELSE /\ \A p, q \in Threads(b) : p = q
                             /\ Threads(b) = {} => b \in lost
      BY <2>1
    <3>1. Threads(b) = {q \in Questions : branchOf[q] = b /\ Alive(q)}
      BY ThreadsOf
    <3> QED
      BY <3>1, <2>3, <2>4, <1>2 DEF Threaded, Done
  <2>5. ASSUME OneThreadPerBranch PROVE Threaded
    <3>1. \A b \in Branches :
            IF Done(b) THEN Threads(b) = {}
            ELSE /\ \A p, q \in Threads(b) : p = q
                 /\ Threads(b) = {} => b \in lost
      BY <2>1, <2>5
    <3>2. \A q \in Questions : branchOf[q] # NoBranch /\ Alive(q) =>
            branchOf[q] \in Branches /\ q \in Threads(branchOf[q])
      BY <2>2, ThreadsOf
    <3>3. \A b : Threads(b) # {} => \E q \in Questions : branchOf[q] = b /\ Alive(q)
      BY ThreadsOf
    <3>4. \A q \in Questions : branchOf[q] # NoBranch /\ Alive(q) => ~ Done(branchOf[q])
      BY <3>1, <3>2
    <3>5. ASSUME NEW p \in Questions, NEW q \in Questions, branchOf[p] # NoBranch,
                 branchOf[p] = branchOf[q], Alive(p), Alive(q)
          PROVE  p = q
      BY <3>1, <3>2, <3>4, <3>5
    <3>6. \A b \in Branches :
            Done(b) \/ b \in lost \/ \E q \in Questions : branchOf[q] = b /\ Alive(q)
      BY <3>1, <3>3
    <3> QED
      BY <3>4, <3>5, <3>6 DEF Threaded, Done
  <2> QED
    BY <2>4, <2>5
<1> QED
  BY <1>1, <1>2

\* Threads stay while no question changes its branch, no branch is done and none
\* loses its thread unsaid.
LEMMA ThreadsStay ==
    ASSUME Threaded, UNCHANGED <<finding, branchOf>>, Begun' => Begun, lost \subseteq lost',
           \A q \in Questions : Begun' /\ branchOf[q] # NoBranch =>
                /\ Alive(q)' => Alive(q)
                /\ Alive(q) => Alive(q)' \/ branchOf[q] \in lost'
    PROVE  Threaded'
<1> SUFFICES ASSUME Begun' PROVE Threaded'
  BY DEF Threaded
<1>1. Begun
  OBVIOUS
<1>2. finding' = finding /\ branchOf' = branchOf
  OBVIOUS
<1>3. \A q \in Questions :
        branchOf'[q] # NoBranch /\ Alive(q)' => finding'[branchOf'[q]] = NoQuestion
  BY <1>1, <1>2 DEF Threaded
<1>4. \A p, q \in Questions :
        branchOf'[p] # NoBranch /\ branchOf'[p] = branchOf'[q] /\ Alive(p)' /\ Alive(q)' => p = q
  BY <1>1 DEF Threaded
<1>5. ASSUME NEW b \in Branches
      PROVE  \/ finding'[b] # NoQuestion \/ b \in lost'
             \/ \E q \in Questions : branchOf'[q] = b /\ Alive(q)'
  <2>1. CASE finding[b] # NoQuestion \/ b \in lost
    BY <2>1, <1>2
  <2>2. CASE \E q \in Questions : branchOf[q] = b /\ Alive(q)
    BY <2>2, BrainstormAssumption
  <2> QED
    BY <2>1, <2>2, <1>1 DEF Threaded
<1> QED
  BY <1>3, <1>4, <1>5 DEF Threaded

-----------------------------------------------------------------------------
(* The parts of the invariant                                               *)

StoreType ==
    /\ file \in {"absent", "whole", "torn"}
    /\ finding \in [Branches -> Questions \cup {NoQuestion}]
    /\ branchOf \in [Questions -> Branches \cup {NoBranch}]
    /\ queue \in Seq(Operations)
    /\ process \in [Questions -> ProcessStages]
    /\ about \in [Questions -> Branches \cup {NoBranch}]
    /\ lost \subseteq Branches

CallsKnow ==
    /\ await \in [Awaits -> [at : AwaitStages, mine : SUBSET Questions,
                             left : 0..MaxIterations]]
    /\ \A c \in Awaits :
        /\ await[c].at \in Returned \cup {"review", "review waiting"} => Drained(c)
        /\ await[c].at \in {"asking", "waiting", "draining"} => await[c].left > 0

BrainCore ==
    /\ MailTypeOK /\ StoreType /\ CallsKnow
    /\ OperationsAreAwaited /\ QuestionsAreKnown /\ Threaded

LEMMA BrainstormInvIsCore == BrainstormInv <=> BrainCore
<1>1. BrainstormTypeOK /\ ReturnedIsDrained /\ CallsCount <=> MailTypeOK /\ StoreType /\ CallsKnow
  BY DEF BrainstormTypeOK, ReturnedIsDrained, CallsCount, StoreType, CallsKnow
<1>2. QuestionsAreKnown => (Begun => file # "absent")
  BY DEF QuestionsAreKnown, Begun
<1> QED
  BY <1>1, <1>2, ThreadedIsOneThread DEF BrainstormInv, BrainCore

LEMMA BrainInitially == BrainstormInit => BrainCore
<1> SUFFICES ASSUME BrainstormInit PROVE BrainCore
  OBVIOUS
<1> USE BrainstormAssumption DEF BrainstormInit, MailInit
<1>1. MailTypeOK
  BY DEF MailTypeOK, Phases, Letters
<1>2. StoreType
  <2>1. <<>> \in Seq(Operations)
    OBVIOUS
  <2> QED
    BY <2>1 DEF StoreType, ProcessStages
<1>3. CallsKnow
  <2>1. /\ NotCalled \in [at : AwaitStages, mine : SUBSET Questions, left : 0..MaxIterations]
        /\ NotCalled.at = "none"
    BY DEF NotCalled, AwaitStages
  <2>2. \A c \in Awaits : await[c] = NotCalled
    OBVIOUS
  <2>3. await \in [Awaits -> [at : AwaitStages, mine : SUBSET Questions,
                             left : 0..MaxIterations]]
    BY <2>1
  <2> QED
    BY <2>1, <2>2, <2>3 DEF CallsKnow, Returned
<1>4. OperationsAreAwaited
  BY DEF OperationsAreAwaited
<1>5. QuestionsAreKnown
  BY DEF QuestionsAreKnown, Known, Done
<1>6. Threaded
  BY DEF Threaded, Begun
<1> QED
  BY <1>1, <1>2, <1>3, <1>4, <1>5, <1>6 DEF BrainCore

-----------------------------------------------------------------------------
(* The queue of operations                                                  *)

LEMMA QueueRests ==
    ASSUME StoreType, OperationsAreAwaited, queue' = queue,
           file' = "torn" => file = "torn" \/ (queue # <<>> /\ Head(queue).kind # "delete"),
           \A op \in Operations : Awaited(op) => Awaited(op)'
    PROVE  OperationsAreAwaited'
<1>1. \A i \in DOMAIN queue : queue[i] \in Operations
  BY DEF StoreType
<1>2. \A i \in DOMAIN queue : Awaited(queue[i])
  BY DEF OperationsAreAwaited
<1>3. (\A i \in DOMAIN queue : Awaited(queue[i]))'
  BY <1>1, <1>2 DEF Awaited
<1>4. \A i, j \in DOMAIN queue' : i # j /\ queue'[i].kind # "delete" => Apart(queue'[i], queue'[j])
  BY DEF OperationsAreAwaited
<1>5. file' = "torn" => queue' # <<>> /\ Head(queue').kind # "delete"
  BY DEF OperationsAreAwaited
<1> QED
  BY <1>3, <1>4, <1>5 DEF OperationsAreAwaited, Apart

LEMMA QueueGrows ==
    ASSUME StoreType, OperationsAreAwaited, NEW e \in Operations,
           queue' = Append(queue, e), file' = file, Awaited(e)',
           \A op \in Operations : Awaited(op) => Awaited(op)',
           \A op \in Operations : Awaited(op) /\ op.kind # "delete" => Apart(op, e),
           \A op \in Operations : Awaited(op) /\ e.kind # "delete" => Apart(e, op)
    PROVE  OperationsAreAwaited' /\ queue' \in Seq(Operations)
<1>1. /\ queue' \in Seq(Operations) /\ Len(queue) \in Nat
      /\ DOMAIN queue' = 1..(Len(queue) + 1) /\ DOMAIN queue = 1..Len(queue)
      /\ \A i \in DOMAIN queue : queue[i] \in Operations /\ queue'[i] = queue[i]
      /\ queue'[Len(queue) + 1] = e
  BY DEF StoreType
<1>2. \A i \in DOMAIN queue' : i \in DOMAIN queue \/ (queue'[i] = e /\ i = Len(queue) + 1)
  BY <1>1
<1>3. \A i \in DOMAIN queue : Awaited(queue[i])
  BY DEF OperationsAreAwaited
<1>4. (\A i \in DOMAIN queue : Awaited(queue[i]))'
  BY <1>1, <1>2, <1>3 DEF Awaited
<1>5. ASSUME NEW i \in DOMAIN queue', NEW j \in DOMAIN queue', i # j, queue'[i].kind # "delete"
      PROVE  Apart(queue'[i], queue'[j])
  <2>1. CASE i \in DOMAIN queue /\ j \in DOMAIN queue
    BY <1>1, <1>5, <2>1 DEF OperationsAreAwaited
  <2>2. CASE i \in DOMAIN queue /\ j \notin DOMAIN queue
    BY <1>1, <1>2, <1>3, <1>5, <2>2
  <2>3. CASE i \notin DOMAIN queue /\ j \in DOMAIN queue
    BY <1>1, <1>2, <1>3, <1>5, <2>3
  <2> QED
    BY <1>2, <1>5, <2>1, <2>2, <2>3
<1>6. file' = "torn" => queue' # <<>> /\ Head(queue').kind # "delete"
  <2>1. file = "torn" => queue # <<>> /\ Head(queue).kind # "delete"
    BY DEF OperationsAreAwaited
  <2>2. queue # <<>> => queue' # <<>> /\ Head(queue') = Head(queue)
    BY DEF StoreType
  <2> QED
    BY <2>1, <2>2
<1> QED
  BY <1>1, <1>4, <1>5, <1>6 DEF OperationsAreAwaited, Apart

LEMMA QueueShrinks ==
    ASSUME StoreType, OperationsAreAwaited, queue # <<>>,
           queue' = Tail(queue), file' # "torn",
           \A op \in Operations :
              Awaited(op) /\ (Head(queue).kind = "delete" \/ Apart(Head(queue), op)) => Awaited(op)'
    PROVE  OperationsAreAwaited' /\ queue' \in Seq(Operations)
<1>1. /\ queue' \in Seq(Operations) /\ 1 \in DOMAIN queue /\ queue[1] = Head(queue)
      /\ \A i \in DOMAIN queue : queue[i] \in Operations
      /\ \A i \in DOMAIN queue' :
            i \in Nat /\ i + 1 # 1 /\ i + 1 \in DOMAIN queue /\ queue'[i] = queue[i + 1]
  BY DEF StoreType
<1>2. \A i \in DOMAIN queue : Awaited(queue[i])
  BY DEF OperationsAreAwaited
<1>3. \A i \in DOMAIN queue : i # 1 => Head(queue).kind = "delete" \/ Apart(Head(queue), queue[i])
  BY <1>1 DEF OperationsAreAwaited
<1>4. (\A i \in DOMAIN queue : Awaited(queue[i]))'
  BY <1>1, <1>2, <1>3 DEF Awaited
<1>5. ASSUME NEW i \in DOMAIN queue', NEW j \in DOMAIN queue', i # j, queue'[i].kind # "delete"
      PROVE  Apart(queue'[i], queue'[j])
  <2>1. i + 1 # j + 1
    BY <1>1, <1>5
  <2> QED
    BY <1>1, <1>5, <2>1 DEF OperationsAreAwaited
<1> QED
  BY <1>1, <1>4, <1>5 DEF OperationsAreAwaited, Apart

\* The head of the queue is one of the operations, and awaited.
LEMMA HeadIsAwaited ==
    ASSUME StoreType, OperationsAreAwaited, queue # <<>>
    PROVE  Head(queue) \in Operations /\ Awaited(Head(queue))
<1>1. 1 \in DOMAIN queue /\ queue[1] = Head(queue) /\ queue[1] \in Operations
  BY DEF StoreType
<1> QED
  BY <1>1 DEF OperationsAreAwaited

-----------------------------------------------------------------------------
(* Processings and calls                                                    *)

\* A call keeps what it knows while it stays where it is.
LEMMA CallsStay ==
    ASSUME CallsKnow, await' = await,
           \A q \in Questions : process[q] = "over" => process'[q] = "over"
    PROVE  CallsKnow'
<1>1. \A c \in Awaits : await[c].mine \subseteq Questions
  BY DEF CallsKnow
<1>2. \A c \in Awaits : Drained(c) => Drained(c)'
  BY <1>1 DEF Drained
<1> QED
  BY <1>2 DEF CallsKnow

\* A processing under way goes on, and says so when it leaves its branch.
LEMMA ProcessMoves ==
    ASSUME BrainCore, NEW q \in Questions, NEW stage \in ProcessStages \ {"none"},
           process[q] \notin {"none", "over"}, process' = [process EXCEPT ![q] = stage],
           UNCHANGED <<mailVars, finding, branchOf, about, await>>,
           file' \in {"absent", "whole", "torn"}, Begun => file' # "absent",
           lost \subseteq lost', lost' \subseteq Branches,
           stage \notin {"finding", "over"} => branchOf[q] # NoBranch,
           stage = "over" =>
              /\ branchOf[q] = NoBranch /\ about[q] # NoBranch => about[q] \in lost'
              /\ branchOf[q] # NoBranch /\ Begun => branchOf[q] \in lost'
    PROVE  /\ MailTypeOK' /\ CallsKnow' /\ QuestionsAreKnown' /\ Threaded'
           /\ queue' \in Seq(Operations) => StoreType'
<1>1. \A p \in Questions : process'[p] = IF p = q THEN stage ELSE process[p]
  BY DEF BrainCore, StoreType
<1>2. \A p \in Questions : Known(p)
  BY DEF BrainCore, QuestionsAreKnown
<1>3. mail[q] = "taken" /\ phase[Browser] # "unborn"
  BY <1>2 DEF BrainCore, QuestionsAreKnown, Known
<1>4. MailTypeOK'
  BY DEF BrainCore, MailTypeOK, mailVars
<1>5. CallsKnow'
  BY <1>1, CallsStay DEF BrainCore
<1>6. queue' \in Seq(Operations) => StoreType'
  BY <1>1 DEF BrainCore, StoreType
<1>7. ASSUME NEW p \in Questions PROVE Known(p)'
  BY <1>1, <1>2, <1>3 DEF Known, mailVars
<1>8. QuestionsAreKnown'
  BY <1>3, <1>7 DEF QuestionsAreKnown, mailVars, Begun
<1>9. Threaded'
  <2>1. \A p \in Questions : Begun' /\ branchOf[p] # NoBranch =>
            /\ Alive(p)' => Alive(p)
            /\ Alive(p) => Alive(p)' \/ branchOf[p] \in lost'
    BY <1>1 DEF Alive, Begun, mailVars
  <2> QED
    BY <2>1, ThreadsStay DEF BrainCore, Begun, mailVars
<1> QED
  BY <1>4, <1>5, <1>6, <1>8, <1>9

-----------------------------------------------------------------------------
(* The state store                                                          *)

LEMMA StartsStep == BrainCore /\ OperationStarts => BrainCore'
<1> SUFFICES ASSUME BrainCore, OperationStarts PROVE BrainCore'
  OBVIOUS
<1> DEFINE op == Head(queue)
<1>1. /\ queue # <<>> /\ file # "torn" /\ op \in Operations /\ Awaited(op)
      /\ UNCHANGED <<mailVars, finding, branchOf, await, about, lost>>
  BY HeadIsAwaited DEF BrainCore, OperationStarts
<1>2. lost \subseteq lost' /\ lost' \subseteq Branches
  BY <1>1 DEF BrainCore, StoreType
<1>3. CASE op.kind = "delete"
  <2>1. file' = "absent" /\ queue' = Tail(queue) /\ process' = process
    BY <1>3 DEF OperationStarts
  <2>2. phase[Browser] = "ended"
    BY <1>1, <1>3 DEF Awaited
  <2>3. OperationsAreAwaited' /\ queue' \in Seq(Operations)
    BY <1>1, <2>1, QueueShrinks DEF BrainCore, Awaited, mailVars
  <2>4. MailTypeOK' /\ StoreType'
    BY <1>1, <2>1, <2>3 DEF BrainCore, MailTypeOK, StoreType, mailVars
  <2>5. CallsKnow'
    BY <1>1, <2>1, CallsStay DEF BrainCore
  <2>6. QuestionsAreKnown'
    BY <1>1, <2>1, <2>2 DEF BrainCore, QuestionsAreKnown, Known, mailVars
  <2>7. Threaded'
    BY <1>1, <2>2 DEF Threaded, Begun, mailVars
  <2> QED
    BY <2>3, <2>4, <2>5, <2>6, <2>7 DEF BrainCore
<1>4. CASE op.kind # "delete" /\ file = "absent"
  <2>1. file' = "absent" /\ queue' = Tail(queue) /\ process' = [process EXCEPT ![op.by] = "over"]
    BY <1>4 DEF OperationStarts, Over
  <2>2. /\ op.by \in Questions /\ process[op.by] \in {"recording", "completing", "registering"}
    BY <1>1, <1>4 DEF Awaited
  <2>3. ~ Begun /\ branchOf[op.by] # NoBranch
    BY <1>4, <2>2 DEF BrainCore, QuestionsAreKnown, Known, Begun
  <2>4. \A p \in Questions : p # op.by => process'[p] = process[p]
    BY <2>1 DEF BrainCore, StoreType
  <2>5. OperationsAreAwaited' /\ queue' \in Seq(Operations)
    <3>1. ASSUME NEW o \in Operations, Awaited(o), Apart(op, o) PROVE Awaited(o)'
      BY <1>1, <2>4, <3>1 DEF Awaited, Apart, mailVars
    <3> QED
      BY <1>1, <1>4, <2>1, <3>1, QueueShrinks DEF BrainCore
  <2> HIDE DEF op
  <2>6. MailTypeOK' /\ CallsKnow' /\ QuestionsAreKnown' /\ Threaded' /\ StoreType'
    BY <1>1, <1>2, <2>1, <2>2, <2>3, <2>5, ProcessMoves DEF ProcessStages
  <2> QED
    BY <2>5, <2>6 DEF BrainCore
<1>5. CASE op.kind # "delete" /\ file # "absent"
  <2>1. file' = "torn" /\ queue' = queue /\ process' = process
    BY <1>5 DEF OperationStarts
  <2>3. OperationsAreAwaited'
    BY <1>1, <1>5, <2>1, QueueRests DEF BrainCore, Awaited, mailVars
  <2>4. MailTypeOK' /\ StoreType'
    BY <1>1, <2>1 DEF BrainCore, MailTypeOK, StoreType, mailVars
  <2>5. CallsKnow'
    BY <1>1, <2>1, CallsStay DEF BrainCore
  <2>6. QuestionsAreKnown'
    BY <1>1, <1>5, <2>1 DEF BrainCore, QuestionsAreKnown, Known, mailVars, Done
  <2>7. Threaded'
    BY <1>1, <2>1, ThreadsStay DEF BrainCore, Alive, Begun, mailVars
  <2> QED
    BY <2>3, <2>4, <2>5, <2>6, <2>7 DEF BrainCore
<1> QED
  BY <1>3, <1>4, <1>5

\* The processing whose operation is at the head of the queue leaves it.
LEMMA HeadLeaves ==
    ASSUME BrainCore, queue # <<>>, Head(queue).kind # "delete", queue' = Tail(queue),
           file' # "torn", UNCHANGED <<mailVars, about>>,
           \A p \in Questions : p # Head(queue).by => process'[p] = process[p],
           \A p \in Questions : \/ branchOf'[p] = branchOf[p]
                               \/ /\ Head(queue).kind = "register" /\ p = Head(queue).new
                                  /\ branchOf[p] = NoBranch
    PROVE  OperationsAreAwaited' /\ queue' \in Seq(Operations)
<1>1. ASSUME NEW o \in Operations, Awaited(o), Apart(Head(queue), o) PROVE Awaited(o)'
  BY <1>1, BrainstormAssumption DEF Awaited, Apart, mailVars, BrainCore, QuestionsAreKnown, Known
<1> QED
  BY <1>1, QueueShrinks DEF BrainCore

LEMMA FailsStep == BrainCore /\ SaveFails => BrainCore'
<1> SUFFICES ASSUME BrainCore, SaveFails PROVE BrainCore'
  OBVIOUS
<1> DEFINE op == Head(queue)
<1>1. /\ queue # <<>> /\ op \in Operations /\ Awaited(op) /\ op.kind # "delete"
  BY HeadIsAwaited DEF BrainCore, SaveFails, OperationsAreAwaited
<1>2. /\ file' = "whole" /\ queue' = Tail(queue)
      /\ process' = [process EXCEPT ![op.by] = "over"]
      /\ lost' = lost \cup {branchOf[op.by]}
      /\ UNCHANGED <<mailVars, finding, branchOf, await, about>>
  BY DEF SaveFails, Over, LosesIf
<1>3. /\ op.by \in Questions /\ process[op.by] \in {"recording", "completing", "registering"}
  BY <1>1 DEF Awaited
<1>4. branchOf[op.by] # NoBranch /\ branchOf[op.by] \in Branches
  BY <1>3 DEF BrainCore, QuestionsAreKnown, Known, StoreType
<1>5. \A p \in Questions : p # op.by => process'[p] = process[p]
  BY <1>2 DEF BrainCore, StoreType
<1>6. OperationsAreAwaited' /\ queue' \in Seq(Operations)
  BY <1>1, <1>2, <1>5, HeadLeaves
<1>7. lost \subseteq lost' /\ lost' \subseteq Branches
  BY <1>2, <1>4 DEF BrainCore, StoreType
<1> HIDE DEF op
<1>8. MailTypeOK' /\ CallsKnow' /\ QuestionsAreKnown' /\ Threaded' /\ StoreType'
  BY <1>2, <1>3, <1>4, <1>6, <1>7, ProcessMoves DEF ProcessStages
<1> QED
  BY <1>6, <1>8 DEF BrainCore

LEMMA SavedStep == BrainCore /\ OperationSaved => BrainCore'
<1> SUFFICES ASSUME BrainCore, OperationSaved PROVE BrainCore'
  OBVIOUS
<1>14. PICK op \in Operations : op = Head(queue)
  BY HeadIsAwaited DEF BrainCore, OperationSaved, OperationsAreAwaited
<1>1. queue # <<>> /\ Awaited(op) /\ op.kind # "delete"
  BY <1>14, HeadIsAwaited DEF BrainCore, OperationSaved, OperationsAreAwaited
<1>15. /\ op.by \in Questions /\ process[op.by] \in {"recording", "completing", "registering"}
       /\ op.kind \in {"record", "register", "complete"}
       /\ op.kind = "register" =>
            /\ op.new \in Questions /\ mail[op.new] # "unasked" /\ branchOf[op.new] = NoBranch
            /\ about[op.new] = branchOf[op.by]
  BY <1>1 DEF Awaited
<1>16. PICK q \in Questions : q = op.by
  BY <1>15
<1>17. PICK b \in Branches : b = branchOf[q]
  BY <1>15, <1>16 DEF BrainCore, QuestionsAreKnown, Known, StoreType
<1>2. /\ file = "torn" /\ file' = "whole" /\ queue' = Tail(queue)
      /\ process' = [process EXCEPT ![q] = IF op.kind = "record" THEN "rereading" ELSE "over"]
      /\ branchOf' = IF op.kind = "register" THEN [branchOf EXCEPT ![op.new] = b] ELSE branchOf
      /\ finding' = IF op.kind = "complete" THEN [finding EXCEPT ![b] = q] ELSE finding
      /\ UNCHANGED <<mailVars, await, about, lost>>
  BY <1>14, <1>16, <1>17 DEF OperationSaved
<1>3. /\ process[q] \in {"recording", "completing", "registering"}
      /\ op.kind \in {"record", "register", "complete"}
      /\ op.kind = "register" =>
            /\ op.new \in Questions /\ mail[op.new] # "unasked" /\ branchOf[op.new] = NoBranch
            /\ about[op.new] = b
  BY <1>15, <1>16, <1>17
<1>4. b # NoBranch /\ branchOf[q] = b /\ mail[q] = "taken" /\ phase[Browser] # "unborn"
  BY <1>3, <1>17, BrainstormAssumption DEF BrainCore, QuestionsAreKnown, Known
<1>5. \A p \in Questions : process'[p] =
         IF p = q THEN IF op.kind = "record" THEN "rereading" ELSE "over" ELSE process[p]
  BY <1>2 DEF BrainCore, StoreType
<1>6. \A p \in Questions : branchOf'[p] =
         IF op.kind = "register" /\ p = op.new THEN b ELSE branchOf[p]
  BY <1>2, <1>3 DEF BrainCore, StoreType
<1>7. \A d \in Branches : finding'[d] = IF op.kind = "complete" /\ d = b THEN q ELSE finding[d]
  BY <1>2, <1>4 DEF BrainCore, StoreType
<1>8. OperationsAreAwaited' /\ queue' \in Seq(Operations)
  BY <1>1, <1>2, <1>3, <1>5, <1>6, <1>14, <1>16, HeadLeaves
<1>9. MailTypeOK' /\ StoreType'
  BY <1>2, <1>3, <1>4, <1>8 DEF BrainCore, MailTypeOK, StoreType, mailVars, ProcessStages
<1>10. CallsKnow'
  BY <1>2, <1>3, <1>5, CallsStay DEF BrainCore
<1>11. QuestionsAreKnown'
  <2>1. ASSUME NEW p \in Questions PROVE Known(p)'
    <3>1. Known(p)
      BY DEF BrainCore, QuestionsAreKnown
    <3> QED
      BY <1>2, <1>3, <1>4, <1>5, <1>6, <3>1 DEF Known, mailVars
  <2> QED
    BY <1>2, <1>4, <2>1 DEF QuestionsAreKnown, mailVars
<1>12. ASSUME Begun' PROVE Threaded'
  <2>1. Begun /\ Threaded
    BY <1>2, <1>12 DEF Begun, mailVars, BrainCore
  <2>2. Alive(q) /\ \A p \in Questions : branchOf[p] = b /\ Alive(p) => p = q
    BY <1>3, <1>4, <2>1 DEF Threaded, Alive
  <2>3. finding[b] = NoQuestion
    BY <1>3, <1>4, <2>1, <2>2 DEF Threaded
  <2>4. ASSUME NEW p \in Questions, p # q PROVE Alive(p)' <=> Alive(p)
    BY <1>2, <1>5, <2>4 DEF Alive, mailVars
  <2>5. op.kind # "record" => ~ Alive(q)'
    BY <1>2, <1>4, <1>5, <1>3 DEF Alive, mailVars
  <2>6. op.kind = "record" => Alive(q)'
    BY <1>5, <1>3 DEF Alive
  <2>7. CASE op.kind = "record"
    BY <1>2, <2>1, <2>2, <2>4, <2>6, <2>7, ThreadsStay
  <2>8. CASE op.kind = "complete"
    <3>1. branchOf' = branchOf /\ lost' = lost
      BY <1>2, <2>8
    <3>2. ASSUME NEW p \in Questions, branchOf'[p] # NoBranch, Alive(p)'
          PROVE  Alive(p) /\ branchOf[p] # b /\ p # q /\ finding'[branchOf'[p]] = NoQuestion
      <4>1. p # q /\ Alive(p) /\ branchOf[p] # b
        BY <2>2, <2>4, <2>5, <2>8, <3>2
      <4>2. branchOf[p] \in Branches /\ finding[branchOf[p]] = NoQuestion
        BY <2>1, <3>1, <3>2, <4>1 DEF Threaded, BrainCore, StoreType
      <4> QED
        BY <1>7, <3>1, <4>1, <4>2
    <3>3. ASSUME NEW d \in Branches
          PROVE  \/ finding'[d] # NoQuestion \/ d \in lost'
                 \/ \E p \in Questions : branchOf'[p] = d /\ Alive(p)'
      <4>1. CASE d = b
        BY <1>3, <1>7, <2>8, <4>1, BrainstormAssumption
      <4>2. CASE d # b
        <5>1. finding'[d] = finding[d]
          BY <1>7, <4>2
        <5>2. ASSUME NEW p \in Questions, branchOf[p] = d, Alive(p)
              PROVE  branchOf'[p] = d /\ Alive(p)'
          BY <1>4, <2>4, <3>1, <4>2, <5>2
        <5> QED
          BY <2>1, <3>1, <5>1, <5>2 DEF Threaded
      <4> QED
        BY <4>1, <4>2
    <3> QED
      BY <2>1, <3>1, <3>2, <3>3 DEF Threaded
  <2>9. CASE op.kind = "register"
    <3> DEFINE n == op.new
    <3>1. /\ finding' = finding /\ lost' = lost /\ n \in Questions /\ n # q
          /\ branchOf[n] = NoBranch /\ branchOf'[n] = b /\ ~ Alive(q)'
      BY <1>2, <1>3, <1>4, <1>6, <2>5, <2>9
    <3>2. \A p \in Questions : p # n => branchOf'[p] = branchOf[p]
      BY <1>6
    <3>3. Alive(n)' \/ b \in lost
      <4>1. Known(n) /\ mail[n] # "unasked" /\ about[n] = b
        BY <1>3, <2>9, <3>1 DEF BrainCore, QuestionsAreKnown
      <4>2. mail[n] \in Letters
        BY <3>1 DEF BrainCore, MailTypeOK
      <4> QED
        BY <1>4, <2>1, <2>4, <3>1, <4>1, <4>2 DEF Known, Alive, Letters, Begun
    <3> HIDE DEF n
    <3>4. ASSUME NEW p \in Questions, branchOf'[p] # NoBranch, Alive(p)', p # n
          PROVE  /\ branchOf'[p] # b /\ branchOf[p] = branchOf'[p] /\ Alive(p)
                 /\ finding'[branchOf'[p]] = NoQuestion
      <4>1. p # q /\ Alive(p) /\ branchOf[p] = branchOf'[p]
        BY <2>4, <3>1, <3>2, <3>4
      <4> QED
        BY <2>1, <2>2, <3>1, <3>4, <4>1 DEF Threaded
    <3>5. ASSUME NEW p \in Questions, branchOf'[p] # NoBranch, Alive(p)'
          PROVE  finding'[branchOf'[p]] = NoQuestion
      BY <2>3, <3>1, <3>4, <3>5
    <3>6. ASSUME NEW p \in Questions, NEW r \in Questions, branchOf'[p] # NoBranch,
                 branchOf'[p] = branchOf'[r], Alive(p)', Alive(r)'
          PROVE  p = r
      <4>1. CASE p = n \/ r = n
        BY <1>4, <3>1, <3>4, <3>6, <4>1
      <4>2. CASE p # n /\ r # n
        BY <2>1, <3>4, <3>6, <4>2 DEF Threaded
      <4> QED
        BY <4>1, <4>2
    <3>7. ASSUME NEW d \in Branches
          PROVE  \/ finding'[d] # NoQuestion \/ d \in lost'
                 \/ \E p \in Questions : branchOf'[p] = d /\ Alive(p)'
      <4>1. CASE d = b
        BY <3>1, <3>3, <4>1
      <4>2. CASE d # b
        <5>1. CASE finding[d] # NoQuestion \/ d \in lost
          BY <3>1, <5>1
        <5>2. CASE \E p \in Questions : branchOf[p] = d /\ Alive(p)
          <6>1. PICK p \in Questions : branchOf[p] = d /\ Alive(p)
            BY <5>2
          <6>2. p # n /\ p # q
            BY <1>4, <3>1, <4>2, <6>1, BrainstormAssumption
          <6> QED
            BY <2>4, <3>2, <6>1, <6>2
        <5> QED
          BY <2>1, <5>1, <5>2 DEF Threaded
      <4> QED
        BY <4>1, <4>2
    <3> QED
      BY <3>5, <3>6, <3>7 DEF Threaded
  <2> QED
    BY <1>3, <2>7, <2>8, <2>9
<1>13. Threaded'
  BY <1>12 DEF Threaded
<1> QED
  BY <1>8, <1>9, <1>10, <1>11, <1>13 DEF BrainCore

-----------------------------------------------------------------------------
(* processAnswer                                                            *)

\* A processing that has no operation queued moves without touching the queue.
LEMMA QueueSpared ==
    ASSUME BrainCore, NEW q \in Questions, process[q] \in {"finding", "rereading", "probing"},
           queue' = queue, file' = file, UNCHANGED <<mailVars, branchOf, about>>,
           \A p \in Questions : p # q => process'[p] = process[p]
    PROVE  OperationsAreAwaited' /\ queue' \in Seq(Operations)
<1>1. ASSUME NEW o \in Operations, Awaited(o) PROVE Awaited(o)'
  BY <1>1 DEF Awaited, mailVars
<1> QED
  BY <1>1, QueueRests DEF BrainCore, StoreType

\* So does one that queues its operation.
LEMMA QueueTaken ==
    ASSUME BrainCore, NEW q \in Questions, process[q] \in {"finding", "rereading", "probing"},
           NEW e \in Operations, e.by = q, e.kind \in {"record", "complete"},
           queue' = Append(queue, e), file' = file, UNCHANGED <<mailVars, branchOf, about>>,
           process'[q] = IF e.kind = "record" THEN "recording" ELSE "completing",
           \A p \in Questions : p # q => process'[p] = process[p]
    PROVE  OperationsAreAwaited' /\ queue' \in Seq(Operations)
<1>1. ASSUME NEW o \in Operations, Awaited(o) PROVE Awaited(o)'
  BY <1>1 DEF Awaited, mailVars
<1>2. Awaited(e)'
  BY DEF Awaited
<1>3. ASSUME NEW o \in Operations, Awaited(o)
      PROVE  Apart(e, o) /\ Apart(o, e)
  BY <1>3, BrainstormAssumption DEF Awaited, Apart
<1> QED
  BY <1>1, <1>2, <1>3, QueueGrows DEF BrainCore

LEMMA FindsStep ==
    ASSUME BrainCore, NEW q \in Questions, FindsBranch(q)
    PROVE  BrainCore'
<1>1. /\ process[q] = "finding"
      /\ UNCHANGED <<mailVars, file, finding, branchOf, await, about>>
      /\ UNCHANGED mailVars
  BY DEF FindsBranch
<1>2. Known(q) /\ about[q] \in Branches \cup {NoBranch} /\ lost \subseteq Branches
      /\ file \in {"absent", "whole", "torn"}
  BY DEF BrainCore, QuestionsAreKnown, StoreType
<1>3. Begun => file' # "absent"
  BY <1>1 DEF BrainCore, QuestionsAreKnown, Begun
<1>4. CASE file # "whole" \/ branchOf[q] = NoBranch
  <2>1. /\ queue' = queue /\ process' = [process EXCEPT ![q] = "over"]
        /\ lost' = IF about[q] # NoBranch THEN lost \cup {about[q]} ELSE lost
    BY <1>4 DEF FindsBranch, Over, LosesIf
  <2>2. /\ lost \subseteq lost' /\ lost' \subseteq Branches
        /\ about[q] # NoBranch => about[q] \in lost'
        /\ branchOf[q] # NoBranch => branchOf[q] \in lost'
    BY <1>2, <2>1 DEF Known
  <2>3. OperationsAreAwaited' /\ queue' \in Seq(Operations)
    BY <1>1, <2>1, QueueSpared DEF BrainCore, StoreType
  <2> QED
    BY <1>1, <1>2, <1>3, <2>1, <2>2, <2>3, ProcessMoves DEF ProcessStages, BrainCore
<1>5. CASE ~ (file # "whole" \/ branchOf[q] = NoBranch) /\ Done(branchOf[q])
  <2>1. queue' = queue /\ process' = [process EXCEPT ![q] = "over"] /\ lost' = lost
    BY <1>5 DEF FindsBranch, Over
  <2>2. ~ Begun /\ branchOf[q] # NoBranch
    BY <1>1, <1>5 DEF BrainCore, Threaded, Alive, Done
  <2>3. OperationsAreAwaited' /\ queue' \in Seq(Operations)
    BY <1>1, <2>1, QueueSpared DEF BrainCore, StoreType
  <2> QED
    BY <1>1, <1>2, <1>3, <2>1, <2>2, <2>3, ProcessMoves DEF ProcessStages, BrainCore
<1>6. CASE ~ (file # "whole" \/ branchOf[q] = NoBranch) /\ ~ Done(branchOf[q])
  <2> DEFINE e == [kind |-> "record", by |-> q, new |-> NoQuestion]
  <2>1. /\ queue' = Append(queue, e) /\ process' = [process EXCEPT ![q] = "recording"]
        /\ lost' = lost
    BY <1>6 DEF FindsBranch, Enqueue
  <2>2. e \in Operations /\ e.by = q /\ e.kind = "record"
    BY DEF Operations
  <2> HIDE DEF e
  <2>3. OperationsAreAwaited' /\ queue' \in Seq(Operations)
    BY <1>1, <2>1, <2>2, QueueTaken DEF BrainCore, StoreType
  <2> QED
    BY <1>1, <1>2, <1>3, <1>6, <2>1, <2>3, ProcessMoves DEF ProcessStages, BrainCore
<1> QED
  BY <1>4, <1>5, <1>6

LEMMA RereadsStep ==
    ASSUME BrainCore, NEW q \in Questions, RereadsState(q)
    PROVE  BrainCore'
<1>1. /\ process[q] = "rereading"
      /\ UNCHANGED mailVars /\ UNCHANGED <<file, finding, branchOf, queue, await, about>>
  BY DEF RereadsState, stateVars
<1>2. /\ branchOf[q] # NoBranch /\ branchOf[q] \in Branches /\ lost \subseteq Branches
      /\ file \in {"absent", "whole", "torn"}
  BY <1>1 DEF BrainCore, QuestionsAreKnown, Known, StoreType
<1>3. Begun => file' # "absent"
  BY <1>1 DEF BrainCore, QuestionsAreKnown, Begun
<1>4. CASE file = "whole" /\ ~ Done(branchOf[q])
  <2>1. process' = [process EXCEPT ![q] = "probing"] /\ lost' = lost
    BY <1>4 DEF RereadsState
  <2>3. OperationsAreAwaited' /\ queue' \in Seq(Operations)
    BY <1>1, <2>1, QueueSpared DEF BrainCore, StoreType
  <2> QED
    BY <1>1, <1>2, <1>3, <2>1, <2>3, ProcessMoves DEF ProcessStages, BrainCore
<1>5. CASE ~ (file = "whole" /\ ~ Done(branchOf[q]))
  <2>1. /\ process' = [process EXCEPT ![q] = "over"]
        /\ lost' = IF file # "whole" THEN lost \cup {branchOf[q]} ELSE lost
    BY <1>5 DEF RereadsState, Over, LosesIf
  <2>2. Begun => branchOf[q] \in lost'
    BY <1>1, <1>2, <1>5, <2>1 DEF BrainCore, Threaded, Alive, Done
  <2>4. lost \subseteq lost' /\ lost' \subseteq Branches
    BY <1>2, <2>1
  <2>3. OperationsAreAwaited' /\ queue' \in Seq(Operations)
    BY <1>1, <2>1, QueueSpared DEF BrainCore, StoreType
  <2> QED
    BY <1>1, <1>2, <1>3, <2>1, <2>2, <2>3, <2>4, ProcessMoves DEF ProcessStages, BrainCore
<1> QED
  BY <1>4, <1>5

LEMMA DoneStep ==
    ASSUME BrainCore, NEW q \in Questions, ProbeDone(q)
    PROVE  BrainCore'
<1> DEFINE e == [kind |-> "complete", by |-> q, new |-> NoQuestion]
<1>1. /\ process[q] = "probing" /\ process' = [process EXCEPT ![q] = "completing"]
      /\ UNCHANGED mailVars /\ UNCHANGED <<file, finding, branchOf, await, about, lost>>
      /\ queue' = Append(queue, e)
  BY DEF ProbeDone, Enqueue
<1>2. /\ branchOf[q] # NoBranch /\ lost \subseteq Branches
      /\ file \in {"absent", "whole", "torn"}
  BY <1>1 DEF BrainCore, QuestionsAreKnown, Known, StoreType
<1>3. Begun => file' # "absent"
  BY <1>1 DEF BrainCore, QuestionsAreKnown, Begun
<1>4. e \in Operations /\ e.by = q /\ e.kind = "complete"
  BY DEF Operations
<1> HIDE DEF e
<1>5. OperationsAreAwaited' /\ queue' \in Seq(Operations)
  BY <1>1, <1>4, QueueTaken DEF BrainCore, StoreType
<1> QED
  BY <1>1, <1>2, <1>3, <1>5, ProcessMoves DEF ProcessStages, BrainCore

LEMMA ProbeFailsStep ==
    ASSUME BrainCore, NEW q \in Questions, ProbeFails(q)
    PROVE  BrainCore'
<1>1. /\ process[q] = "probing" /\ process' = [process EXCEPT ![q] = "over"]
      /\ UNCHANGED mailVars /\ UNCHANGED <<file, finding, branchOf, queue, await, about>>
      /\ lost' = lost \cup {branchOf[q]}
  BY DEF ProbeFails, Over, LosesIf, stateVars
<1>2. /\ branchOf[q] # NoBranch /\ branchOf[q] \in Branches
      /\ lost \subseteq lost' /\ lost' \subseteq Branches
      /\ file \in {"absent", "whole", "torn"}
  BY <1>1 DEF BrainCore, QuestionsAreKnown, Known, StoreType
<1>3. Begun => file' # "absent"
  BY <1>1 DEF BrainCore, QuestionsAreKnown, Begun
<1>4. OperationsAreAwaited' /\ queue' \in Seq(Operations)
  BY <1>1, QueueSpared DEF BrainCore, StoreType
<1> QED
  BY <1>1, <1>2, <1>3, <1>4, ProcessMoves DEF ProcessStages, BrainCore

LEMMA AsksStep ==
    ASSUME BrainCore, NEW q \in Questions, NEW new \in Questions, ProbeAsks(q, new)
    PROVE  BrainCore'
<1> DEFINE e == [kind |-> "register", by |-> q, new |-> new]
<1>1. /\ process[q] = "probing" /\ process' = [process EXCEPT ![q] = "registering"]
      /\ Push(Browser, new) /\ about' = [about EXCEPT ![new] = branchOf[q]]
      /\ queue' = Append(queue, e)
      /\ UNCHANGED <<file, finding, branchOf, await, lost>>
  BY DEF ProbeAsks, Enqueue
<1>2. /\ MailTypeOK' /\ Begun /\ Begun' /\ mail[new] = "unasked"
      /\ mail'[new] = "pending" /\ home'[new] = Browser
      /\ \A p \in Questions \ {new} : mail'[p] = mail[p] /\ home'[p] = home[p]
  BY <1>1, BrainPushFacts DEF BrainCore
<1>3. \A p \in Questions : Known(p)
  BY DEF BrainCore, QuestionsAreKnown
<1>4. /\ branchOf[q] # NoBranch /\ branchOf[q] \in Branches /\ mail[q] = "taken"
      /\ process[new] = "none" /\ branchOf[new] = NoBranch /\ q # new
  BY <1>1, <1>2, <1>3 DEF Known, BrainCore, StoreType
<1>5. /\ \A p \in Questions : process'[p] = IF p = q THEN "registering" ELSE process[p]
      /\ \A p \in Questions : about'[p] = IF p = new THEN branchOf[q] ELSE about[p]
  BY <1>1 DEF BrainCore, StoreType
<1>6. e \in Operations /\ e.by = q /\ e.kind = "register" /\ e.new = new
  BY DEF Operations
<1> HIDE DEF e
<1>7. OperationsAreAwaited' /\ queue' \in Seq(Operations)
  <2>1. ASSUME NEW o \in Operations, Awaited(o) PROVE Awaited(o)'
    BY <1>1, <1>2, <1>5, <2>1 DEF Awaited, Begun
  <2>2. Awaited(e)'
    BY <1>1, <1>2, <1>4, <1>5, <1>6 DEF Awaited
  <2>3. ASSUME NEW o \in Operations, Awaited(o) PROVE Apart(e, o) /\ Apart(o, e)
    BY <1>1, <1>2, <1>6, <2>3, BrainstormAssumption DEF Awaited, Apart
  <2> QED
    BY <1>1, <1>6, <2>1, <2>2, <2>3, QueueGrows DEF BrainCore
<1>8. StoreType'
  BY <1>1, <1>4, <1>7 DEF BrainCore, StoreType, ProcessStages
<1>9. CallsKnow'
  BY <1>1, <1>5, CallsStay DEF BrainCore
<1>10. QuestionsAreKnown'
  <2>1. ASSUME NEW p \in Questions PROVE Known(p)'
    BY <1>1, <1>2, <1>3, <1>4, <1>5 DEF Known, Begun
  <2> QED
    BY <1>1, <1>2, <2>1 DEF QuestionsAreKnown, Begun, BrainCore
<1>11. Threaded'
  <2>1. \A p \in Questions : branchOf[p] # NoBranch =>
            (Alive(p)' => Alive(p)) /\ (Alive(p) => Alive(p)')
    BY <1>1, <1>2, <1>4, <1>5 DEF Alive
  <2> QED
    BY <1>1, <1>2, <2>1, ThreadsStay DEF BrainCore
<1> QED
  BY <1>2, <1>7, <1>8, <1>9, <1>10, <1>11 DEF BrainCore

-----------------------------------------------------------------------------
(* create_brainstorm, and the two ways to end                               *)

LEMMA CreateStep ==
    ASSUME BrainCore, NEW usable \in SUBSET Branches, CreateBrainstorm(usable)
    PROVE  BrainCore'
<1> DEFINE n == Cardinality(usable)
<1>1. n \in Nat
  <2>1. IsFiniteSet(Branches)
    BY FS_Interval, BrainstormAssumption DEF Branches
  <2> QED
    BY <2>1, FS_Subset, FS_CardinalityType
<1>2. /\ Open(Browser, 1..n) /\ file' = "whole" /\ about' = branchOf'
      /\ branchOf' = [q \in Questions |-> IF q \in usable /\ q <= n THEN q ELSE NoBranch]
      /\ lost' = {b \in Branches : \A q \in Questions : branchOf'[q] # b}
      /\ UNCHANGED <<finding, queue, process, await>>
  BY DEF CreateBrainstorm
<1> HIDE DEF n
<1>3. /\ MailTypeOK' /\ phase[Browser] = "unborn" /\ phase'[Browser] = "open"
      /\ \A q \in Questions :
            /\ mail'[q] = IF q \in 1..n THEN "pending" ELSE mail[q]
            /\ home'[q] = IF q \in 1..n THEN Browser ELSE home[q]
  BY <1>2, BrainOpenFacts DEF BrainCore
<1>4. /\ \A q \in Questions : mail[q] = "unasked" /\ process[q] = "none"
      /\ \A b \in Branches : finding[b] = NoQuestion
      /\ queue = <<>>
  BY <1>3 DEF BrainCore, QuestionsAreKnown, Known, Done
<1>5. \A q \in Questions : branchOf'[q] # NoBranch =>
          branchOf'[q] = q /\ q \in Branches /\ q \in 1..n
  BY <1>1, <1>2, BrainstormAssumption DEF Branches
<1>6. \A q \in Questions : branchOf'[q] \in Branches \cup {NoBranch}
  BY <1>2
<1>7. StoreType'
  BY <1>2, <1>6 DEF BrainCore, StoreType
<1>8. CallsKnow'
  BY <1>2, CallsStay DEF BrainCore
<1>9. OperationsAreAwaited'
  BY <1>2, <1>4 DEF OperationsAreAwaited
<1>10. QuestionsAreKnown'
  <2>1. ASSUME NEW q \in Questions PROVE Known(q)'
    BY <1>2, <1>3, <1>4, <1>5 DEF Known
  <2> QED
    BY <1>2, <1>3, <2>1 DEF QuestionsAreKnown
<1>11. Threaded'
  <2>1. \A q \in Questions : branchOf'[q] # NoBranch => Alive(q)'
    BY <1>3, <1>5 DEF Alive
  <2>2. \A q \in Questions : branchOf'[q] # NoBranch => finding'[branchOf'[q]] = NoQuestion
    BY <1>2, <1>4, <1>5
  <2>3. \A p, q \in Questions : branchOf'[p] # NoBranch /\ branchOf'[p] = branchOf'[q] => p = q
    BY <1>5
  <2>4. ASSUME NEW b \in Branches
        PROVE  b \in lost' \/ \E q \in Questions : branchOf'[q] = b /\ Alive(q)'
    BY <1>2, <2>1, BrainstormAssumption
  <2> QED
    BY <2>2, <2>3, <2>4 DEF Threaded
<1> QED
  BY <1>3, <1>7, <1>8, <1>9, <1>10, <1>11 DEF BrainCore

\* What is left when the browser session ends.
LEMMA EndedKnows ==
    ASSUME BrainCore, End(Browser), UNCHANGED <<file, finding, branchOf, process, await, about, lost>>
    PROVE  /\ MailTypeOK' /\ CallsKnow' /\ QuestionsAreKnown' /\ Threaded' /\ ~ Begun'
           /\ queue' \in Seq(Operations) => StoreType'
           /\ \A op \in Operations : Awaited(op) => Awaited(op)'
<1>1. MailTypeOK' /\ Begun /\ phase'[Browser] = "ended" /\ mail' = mail
  BY BrainEndFacts DEF BrainCore
<1>2. CallsKnow'
  BY CallsStay DEF BrainCore
<1>3. QuestionsAreKnown'
  BY <1>1 DEF BrainCore, QuestionsAreKnown, Known
<1>4. ~ Begun' /\ Threaded'
  BY <1>1 DEF Threaded, Begun
<1>5. queue' \in Seq(Operations) => StoreType'
  BY DEF BrainCore, StoreType
<1>6. \A op \in Operations : Awaited(op) => Awaited(op)'
  BY <1>1 DEF Awaited
<1> QED
  BY <1>1, <1>2, <1>3, <1>4, <1>5, <1>6

LEMMA EndStep == BrainCore /\ EndBrainstorm => BrainCore'
<1> SUFFICES ASSUME BrainCore, EndBrainstorm PROVE BrainCore'
  OBVIOUS
<1> DEFINE e == [kind |-> "delete", by |-> NoQuestion, new |-> NoQuestion]
<1>1. /\ End(Browser) /\ UNCHANGED <<file, finding, branchOf, process, await, about, lost>>
      /\ queue' = Append(queue, e)
  BY DEF EndBrainstorm, Enqueue
<1>2. /\ MailTypeOK' /\ CallsKnow' /\ QuestionsAreKnown' /\ Threaded'
      /\ queue' \in Seq(Operations) => StoreType'
      /\ \A op \in Operations : Awaited(op) => Awaited(op)'
  BY <1>1, EndedKnows
<1>3. phase'[Browser] = "ended"
  BY <1>1, BrainEndFacts DEF BrainCore
<1>4. e \in Operations /\ e.kind = "delete" /\ e.by = NoQuestion
  BY DEF Operations
<1> HIDE DEF e
<1>5. Awaited(e)'
  BY <1>3, <1>4 DEF Awaited
<1>6. ASSUME NEW o \in Operations, Awaited(o), o.kind # "delete" PROVE Apart(o, e)
  BY <1>4, <1>6, BrainstormAssumption DEF Awaited, Apart
<1>7. OperationsAreAwaited' /\ queue' \in Seq(Operations)
  BY <1>1, <1>2, <1>4, <1>5, <1>6, QueueGrows DEF BrainCore
<1> QED
  BY <1>2, <1>7 DEF BrainCore

LEMMA BrowserEndsStep == BrainCore /\ BrowserSessionEnds => BrainCore'
<1> SUFFICES ASSUME BrainCore, BrowserSessionEnds PROVE BrainCore'
  OBVIOUS
<1>1. /\ End(Browser) /\ UNCHANGED <<file, finding, branchOf, process, await, about, lost>>
      /\ queue' = queue /\ file' = file
  BY DEF BrowserSessionEnds, stateVars
<1>2. /\ MailTypeOK' /\ CallsKnow' /\ QuestionsAreKnown' /\ Threaded'
      /\ queue' \in Seq(Operations) => StoreType'
      /\ \A op \in Operations : Awaited(op) => Awaited(op)'
  BY <1>1, EndedKnows
<1>3. OperationsAreAwaited' /\ queue' \in Seq(Operations)
  BY <1>1, <1>2, QueueRests DEF BrainCore, StoreType
<1> QED
  BY <1>2, <1>3 DEF BrainCore

-----------------------------------------------------------------------------
(* Answers and calls                                                        *)

\* An answer comes or is taken: by a processing, or by someone who loses it.
LEMMA LetterMoves ==
    ASSUME BrainCore, NEW q \in Questions, NEW from \in {"pending", "answered"},
           NEW letter \in {"answered", "taken"}, NEW given \in BOOLEAN,
           Begun, q \in In(Browser, {from}), Become({q}, letter), UNCHANGED <<phase, home>>,
           UNCHANGED stateVars, about' = about,
           process' = IF given THEN [process EXCEPT ![q] = "finding"] ELSE process,
           given => letter = "taken",
           lost \subseteq lost', lost' \subseteq Branches,
           letter = "taken" /\ ~ given /\ about[q] # NoBranch => about[q] \in lost'
    PROVE  /\ MailTypeOK' /\ StoreType' /\ OperationsAreAwaited' /\ QuestionsAreKnown'
           /\ Threaded'
           /\ \A p \in Questions : process[p] = "over" => process'[p] = "over"
<1>1. /\ MailTypeOK' /\ Begun' /\ mail[q] = from /\ home[q] = Browser /\ mail'[q] = letter
      /\ \A p \in Questions \ {q} : mail'[p] = mail[p]
      /\ \A p \in Questions : home'[p] = home[p]
  BY BrainSettleFacts DEF BrainCore, Letters
<1>2. \A p \in Questions : Known(p)
  BY DEF BrainCore, QuestionsAreKnown
<1>3. process[q] = "none"
  BY <1>1, <1>2 DEF Known
<1>4. \A p \in Questions : process'[p] = IF given /\ p = q THEN "finding" ELSE process[p]
  BY DEF BrainCore, StoreType
<1>5. StoreType'
  BY DEF BrainCore, StoreType, ProcessStages, stateVars
<1>6. OperationsAreAwaited'
  <2>1. ASSUME NEW o \in Operations, Awaited(o) PROVE Awaited(o)'
    BY <1>1, <1>3, <1>4, <2>1 DEF Awaited, stateVars
  <2> QED
    BY <2>1, QueueRests DEF BrainCore, stateVars
<1>7. QuestionsAreKnown'
  <2>1. ASSUME NEW p \in Questions PROVE Known(p)'
    BY <1>1, <1>2, <1>3, <1>4 DEF Known, stateVars
  <2> QED
    BY <1>1, <2>1 DEF QuestionsAreKnown, Begun, BrainCore, stateVars
<1>8. Threaded'
  <2>1. ASSUME NEW p \in Questions, branchOf[p] # NoBranch
        PROVE  (Alive(p)' => Alive(p)) /\ (Alive(p) => Alive(p)' \/ branchOf[p] \in lost')
    <3>1. p = q => about[p] = branchOf[p]
      BY <1>2, <2>1 DEF Known
    <3> QED
      BY <1>1, <1>3, <1>4, <2>1, <3>1 DEF Alive
  <2> QED
    BY <1>1, <2>1, ThreadsStay DEF BrainCore, stateVars
<1> QED
  BY <1>1, <1>3, <1>4, <1>5, <1>6, <1>7, <1>8

CallRecords == [at : AwaitStages, mine : SUBSET Questions, left : 0..MaxIterations]

\* A call moves on.
LEMMA CallMoves ==
    ASSUME CallsKnow, NEW c \in Awaits, NEW r \in CallRecords, await' = [await EXCEPT ![c] = r],
           \A q \in Questions : process[q] = "over" => process'[q] = "over",
           r.at \in Returned \cup {"review", "review waiting"} =>
                \A q \in r.mine : process'[q] = "over",
           r.at \in {"asking", "waiting", "draining"} => r.left > 0
    PROVE  CallsKnow'
<1>1. await' \in [Awaits -> CallRecords]
  BY DEF CallsKnow, CallRecords
<1>2. ASSUME NEW d \in Awaits
      PROVE  /\ await'[d].at \in Returned \cup {"review", "review waiting"} =>
                    \A q \in await'[d].mine : process'[q] = "over"
             /\ await'[d].at \in {"asking", "waiting", "draining"} => await'[d].left > 0
  <2>1. CASE d = c
    BY <2>1 DEF CallsKnow
  <2>2. CASE d # c
    <3>1. await'[d] = await[d] /\ await[d].mine \subseteq Questions
      BY <2>2 DEF CallsKnow
    <3> QED
      BY <3>1 DEF CallsKnow, Drained
  <2> QED
    BY <2>1, <2>2
<1> QED
  BY <1>1, <1>2 DEF CallsKnow, CallRecords, Drained

\* A call goes to a stage it may reach.
LEMMA CallGoes ==
    ASSUME CallsKnow, NEW c \in Awaits, NEW stage \in AwaitStages, Goes(c, stage),
           \A q \in Questions : process[q] = "over" => process'[q] = "over",
           stage \in Returned \cup {"review", "review waiting"} => Drained(c),
           stage \in {"asking", "waiting", "draining"} => await[c].left > 0
    PROVE  CallsKnow'
<1> DEFINE r == [await[c] EXCEPT !.at = stage]
<1>1. await[c] \in CallRecords
  BY DEF CallsKnow, CallRecords
<1>2. /\ r \in CallRecords /\ r.at = stage /\ r.left = await[c].left /\ r.mine = await[c].mine
      /\ r.mine \subseteq Questions
  BY <1>1 DEF CallRecords
<1>3. await' = [await EXCEPT ![c] = r]
  BY DEF Goes
<1> HIDE DEF r
<1>4. Drained(c) => \A q \in r.mine : process'[q] = "over"
  BY <1>2 DEF Drained
<1> QED
  BY <1>2, <1>3, <1>4, CallMoves

\* A call begins its next iteration, with other processings of its own.
LEMMA CallTurns ==
    ASSUME CallsKnow, NEW c \in Awaits, NEW mine \in SUBSET Questions,
           await[c].at \in {"asking", "waiting", "draining"},
           await' = [await EXCEPT ![c] = [at |-> "checking", left |-> @.left - 1,
                                          mine |-> mine]],
           \A q \in Questions : process[q] = "over" => process'[q] = "over"
    PROVE  CallsKnow'
<1> DEFINE r == [at |-> "checking", left |-> await[c].left - 1, mine |-> mine]
<1>1. await[c] \in CallRecords /\ await[c].left > 0
  BY DEF CallsKnow, CallRecords
<1>2. await[c].left - 1 \in 0..MaxIterations
  BY <1>1, BrainstormAssumption DEF CallRecords
<1>3. r \in CallRecords
  BY <1>2 DEF CallRecords, AwaitStages
<1>4. await' = [await EXCEPT ![c] = r]
  OBVIOUS
<1>5. r.at = "checking"
  OBVIOUS
<1> HIDE DEF r
<1> QED
  BY <1>3, <1>4, <1>5, CallMoves DEF Returned

LEMMA GivenCalls ==
    ASSUME CallsKnow, NEW c \in Awaits, NEW q \in Questions, Given(c, q), Asks(c) \/ Waits(c),
           \A p \in Questions : process[p] = "over" => process'[p] = "over"
    PROVE  CallsKnow'
<1>1. CASE await[c].at \in {"asking", "waiting"}
  <2>1. await' = [await EXCEPT ![c] = [at |-> "checking", left |-> @.left - 1,
                                         mine |-> await[c].mine \cup {q}]]
    BY <1>1 DEF Given
  <2>2. await[c].mine \cup {q} \in SUBSET Questions
    BY DEF CallsKnow
  <2> QED
    BY <1>1, <2>1, <2>2, CallTurns
<1>2. CASE await[c].at \notin {"asking", "waiting"}
  <2>1. await[c].at \in {"review", "review waiting"} /\ Drained(c)
    BY <1>2 DEF Asks, Waits, CallsKnow
  <2>2. Goes(c, "approved") \/ Goes(c, "changes")
    BY <1>2 DEF Given
  <2> QED
    BY <2>1, <2>2, CallGoes DEF AwaitStages
<1> QED
  BY <1>1, <1>2

\* An answer is given to a call, whether it was waiting for it or not.
LEMMA GivenStep ==
    ASSUME BrainCore, NEW c \in Awaits, NEW q \in Questions, NEW from \in {"pending", "answered"},
           Begun, q \in In(Browser, {from}), Become({q}, "taken"), UNCHANGED <<phase, home>>,
           UNCHANGED stateVars, about' = about, Given(c, q), Asks(c) \/ Waits(c)
    PROVE  BrainCore'
<1> DEFINE given == await[c].at \in {"asking", "waiting"}
<1>1. process' = IF given THEN [process EXCEPT ![q] = "finding"] ELSE process
  BY DEF Given
<1>2. lost' = IF ~ given /\ about[q] # NoBranch THEN lost \cup {about[q]} ELSE lost
  BY DEF Given, LosesIf
<1>3. given \in BOOLEAN
  OBVIOUS
<1> HIDE DEF given
<1>4. /\ lost \subseteq lost' /\ lost' \subseteq Branches
      /\ ~ given /\ about[q] # NoBranch => about[q] \in lost'
  BY <1>2 DEF BrainCore, StoreType
<1>5. /\ MailTypeOK' /\ StoreType' /\ OperationsAreAwaited' /\ QuestionsAreKnown'
      /\ Threaded'
      /\ \A p \in Questions : process[p] = "over" => process'[p] = "over"
  BY <1>1, <1>3, <1>4, LetterMoves
<1>6. CallsKnow'
  BY <1>5, GivenCalls DEF BrainCore
<1> QED
  BY <1>5, <1>6 DEF BrainCore

LEMMA TakesStep ==
    ASSUME BrainCore, NEW c \in Awaits, NEW q \in Questions, TakesAnswer(c, q)
    PROVE  BrainCore'
  BY GivenStep DEF TakesAnswer, Take, Begun

LEMMA UserStep ==
    ASSUME BrainCore, NEW q \in Questions, UserAnswers(q)
    PROVE  BrainCore'
<1>1. CASE /\ Answer(Browser, q, "answered")
           /\ UNCHANGED <<stateVars, process, await, about, lost>>
  <2>1. /\ Begun /\ q \in In(Browser, {"pending"}) /\ Become({q}, "answered")
        /\ UNCHANGED <<phase, home>> /\ UNCHANGED stateVars
        /\ process' = process /\ about' = about /\ lost' = lost /\ await' = await
    BY <1>1 DEF Answer, Begun
  <2>2. lost' \subseteq Branches /\ lost \subseteq lost'
    BY <2>1 DEF BrainCore, StoreType
  <2>3. process' = IF FALSE THEN [process EXCEPT ![q] = "finding"] ELSE process
    BY <2>1
  <2>4. /\ MailTypeOK' /\ StoreType' /\ OperationsAreAwaited' /\ QuestionsAreKnown'
        /\ Threaded'
    BY <2>1, <2>2, <2>3, LetterMoves
  <2> QED
    BY <2>1, <2>4, CallsStay DEF BrainCore
<1>2. CASE \E c \in Awaits :
            /\ Waits(c) /\ Answer(Browser, q, "taken") /\ Given(c, q)
            /\ UNCHANGED <<stateVars, about>>
  BY <1>2, GivenStep DEF Answer, Begun
<1> QED
  BY <1>1, <1>2 DEF UserAnswers

LEMMA AgentStep ==
    ASSUME BrainCore, NEW q \in Questions, AgentTakesAnswer(q)
    PROVE  BrainCore'
<1>1. /\ Begun /\ q \in In(Browser, {"answered"}) /\ Become({q}, "taken")
      /\ UNCHANGED <<phase, home>> /\ UNCHANGED stateVars
      /\ process' = process /\ about' = about /\ await' = await
      /\ lost' = IF about[q] # NoBranch THEN lost \cup {about[q]} ELSE lost
  BY DEF AgentTakesAnswer, Take, Begun, LosesIf
<1>2. /\ lost \subseteq lost' /\ lost' \subseteq Branches
      /\ about[q] # NoBranch => about[q] \in lost'
  BY <1>1 DEF BrainCore, StoreType
<1>3. process' = IF FALSE THEN [process EXCEPT ![q] = "finding"] ELSE process
  BY <1>1
<1>4. /\ MailTypeOK' /\ StoreType' /\ OperationsAreAwaited' /\ QuestionsAreKnown'
      /\ Threaded'
  BY <1>1, <1>2, <1>3, LetterMoves
<1> QED
  BY <1>1, <1>4, CallsStay DEF BrainCore

\* While only a call moves, the rest stays as it is.
LEMMA OnlyCallsMove ==
    ASSUME BrainCore, UNCHANGED <<mailVars, stateVars, process, about, lost>>
    PROVE  /\ MailTypeOK' /\ StoreType' /\ OperationsAreAwaited' /\ QuestionsAreKnown'
           /\ Threaded'
<1>1. MailTypeOK' /\ StoreType'
  BY DEF BrainCore, MailTypeOK, StoreType, mailVars, stateVars
<1>2. OperationsAreAwaited'
  BY QueueRests DEF BrainCore, Awaited, mailVars, stateVars
<1>3. QuestionsAreKnown'
  BY DEF BrainCore, QuestionsAreKnown, Known, Done, mailVars, stateVars
<1>4. Threaded'
  BY ThreadsStay DEF BrainCore, Alive, Begun, mailVars, stateVars
<1> QED
  BY <1>1, <1>2, <1>3, <1>4

LEMMA CallStep ==
    ASSUME BrainCore, NEW c \in Awaits,
           \/ AwaitCalled(c) \/ ChecksComplete(c) \/ WaitsForAnswer(c)
           \/ NothingPending(c) \/ AwaitTimesOut(c) \/ Drains(c)
    PROVE  BrainCore'
<1>1. UNCHANGED <<mailVars, stateVars, process, about, lost>>
  BY DEF AwaitCalled, ChecksComplete, WaitsForAnswer, NothingPending, AwaitTimesOut, Drains
<1>2. /\ MailTypeOK' /\ StoreType' /\ OperationsAreAwaited' /\ QuestionsAreKnown'
      /\ Threaded'
  BY <1>1, OnlyCallsMove
<1>3. await[c] \in CallRecords /\ process' = process
  BY <1>1 DEF BrainCore, CallsKnow, CallRecords
<1>4. CASE AwaitCalled(c)
  <2>1. Drained(c)
    BY <1>4 DEF AwaitCalled, NotCalled, Drained
  <2>2. Goes(c, "checking") \/ Goes(c, "lost")
    BY <1>4 DEF AwaitCalled
  <2>3. CallsKnow'
    BY <1>3, <2>1, <2>2, CallGoes DEF BrainCore, AwaitStages, Returned
  <2> QED
    BY <1>2, <2>3 DEF BrainCore
<1>5. CASE ChecksComplete(c)
  <2>1. Goes(c, "finishing") \/ (Goes(c, "asking") /\ await[c].left # 0)
    BY <1>5 DEF ChecksComplete
  <2>2. await[c].left # 0 => await[c].left > 0
    BY <1>3, BrainstormAssumption DEF CallRecords
  <2>3. CallsKnow'
    BY <1>3, <2>1, <2>2, CallGoes DEF BrainCore, AwaitStages, Returned
  <2> QED
    BY <1>2, <2>3 DEF BrainCore
<1>6. CASE WaitsForAnswer(c)
  <2>1. \/ await[c].at = "asking" /\ Goes(c, "waiting")
        \/ await[c].at = "review" /\ Goes(c, "review waiting")
    BY <1>6 DEF WaitsForAnswer, Asks
  <2>2. (await[c].at = "asking" => await[c].left > 0) /\ (await[c].at = "review" => Drained(c))
    BY DEF BrainCore, CallsKnow
  <2>3. CallsKnow'
    BY <1>3, <2>1, <2>2, CallGoes DEF BrainCore, AwaitStages, Returned
  <2> QED
    BY <1>2, <2>3 DEF BrainCore
<1>7. CASE NothingPending(c)
  <2>1. \/ await[c].at = "asking" /\ Goes(c, "draining")
        \/ await[c].at = "review" /\ Goes(c, "changes")
    BY <1>7 DEF NothingPending, Asks
  <2>2. (await[c].at = "asking" => await[c].left > 0) /\ (await[c].at = "review" => Drained(c))
    BY DEF BrainCore, CallsKnow
  <2>3. CallsKnow'
    BY <1>3, <2>1, <2>2, CallGoes DEF BrainCore, AwaitStages, Returned
  <2> QED
    BY <1>2, <2>3 DEF BrainCore
<1>8. CASE AwaitTimesOut(c)
  <2>1. \/ Goes(c, "finishing")
        \/ await[c].at = "review waiting" /\ Goes(c, "changes")
    BY <1>8 DEF AwaitTimesOut, Waits
  <2>2. await[c].at = "review waiting" => Drained(c)
    BY DEF BrainCore, CallsKnow
  <2>3. CallsKnow'
    BY <1>3, <2>1, <2>2, CallGoes DEF BrainCore, AwaitStages, Returned
  <2> QED
    BY <1>2, <2>3 DEF BrainCore
<1>9. CASE Drains(c)
  <2>1. /\ await[c].at = "draining"
        /\ await' = [await EXCEPT ![c] = [at |-> "checking", left |-> @.left - 1, mine |-> {}]]
    BY <1>9 DEF Drains
  <2>2. {} \in SUBSET Questions
    OBVIOUS
  <2>3. CallsKnow'
    BY <1>3, <2>1, <2>2, CallTurns DEF BrainCore
  <2> QED
    BY <1>2, <2>3 DEF BrainCore
<1> QED
  BY <1>4, <1>5, <1>6, <1>7, <1>8, <1>9

LEMMA FinishesStep ==
    ASSUME BrainCore, NEW c \in Awaits, NEW q \in Questions, Finishes(c, q)
    PROVE  BrainCore'
<1>1. Drained(c) /\ UNCHANGED <<stateVars, process, about, lost>> /\ process' = process
  BY DEF Finishes
<1>2. CASE Complete /\ phase[Browser] = "open"
  <2>1. Push(Browser, q) /\ Goes(c, "review")
    BY <1>2 DEF Finishes
  <2>2. /\ MailTypeOK' /\ Begun /\ Begun' /\ mail[q] = "unasked"
        /\ mail'[q] = "pending" /\ home'[q] = Browser
        /\ \A p \in Questions \ {q} : mail'[p] = mail[p] /\ home'[p] = home[p]
    BY <2>1, BrainPushFacts DEF BrainCore
  <2>3. \A p \in Questions : Known(p)
    BY DEF BrainCore, QuestionsAreKnown
  <2>4. branchOf[q] = NoBranch /\ process[q] = "none"
    BY <2>2, <2>3 DEF Known
  <2>5. StoreType'
    BY <1>1 DEF BrainCore, StoreType, stateVars
  <2>6. CallsKnow'
    BY <1>1, <2>1, CallGoes DEF BrainCore, AwaitStages
  <2>7. OperationsAreAwaited'
    <3>1. ASSUME NEW o \in Operations, Awaited(o) PROVE Awaited(o)'
      BY <1>1, <2>2, <3>1 DEF Awaited, stateVars, Begun
    <3> QED
      BY <1>1, <3>1, QueueRests DEF BrainCore, stateVars
  <2>8. QuestionsAreKnown'
    <3>1. ASSUME NEW p \in Questions PROVE Known(p)'
      BY <1>1, <2>2, <2>3, <2>4 DEF Known, stateVars, Begun
    <3> QED
      BY <1>1, <2>2, <3>1 DEF QuestionsAreKnown, Begun, BrainCore, stateVars
  <2>9. Threaded'
    <3>1. \A p \in Questions : branchOf[p] # NoBranch =>
              (Alive(p)' => Alive(p)) /\ (Alive(p) => Alive(p)')
      BY <1>1, <2>2, <2>4 DEF Alive
    <3> QED
      BY <1>1, <2>2, <3>1, ThreadsStay DEF BrainCore, stateVars
  <2> QED
    BY <2>2, <2>5, <2>6, <2>7, <2>8, <2>9 DEF BrainCore
<1>3. CASE ~ (Complete /\ phase[Browser] = "open")
  <2>1. /\ UNCHANGED mailVars
        /\ Goes(c, "lost") \/ Goes(c, "skipped") \/ Goes(c, "in progress")
    BY <1>3 DEF Finishes
  <2>2. /\ MailTypeOK' /\ StoreType' /\ OperationsAreAwaited' /\ QuestionsAreKnown'
        /\ Threaded'
    BY <1>1, <2>1, OnlyCallsMove
  <2>3. CallsKnow'
    BY <1>1, <2>1, CallGoes DEF BrainCore, AwaitStages
  <2> QED
    BY <2>2, <2>3 DEF BrainCore
<1> QED
  BY <1>2, <1>3

-----------------------------------------------------------------------------
(* The brainstorm                                                           *)

LEMMA BrainStep == BrainCore /\ [BrainstormNext]_brainstormVars => BrainCore'
<1> SUFFICES ASSUME BrainCore, [BrainstormNext]_brainstormVars PROVE BrainCore'
  OBVIOUS
<1>1. CASE UNCHANGED brainstormVars
  <2>1. UNCHANGED <<mailVars, stateVars, process, about, lost>> /\ await' = await /\ process' = process
    BY <1>1 DEF brainstormVars
  <2> QED
    BY <2>1, OnlyCallsMove, CallsStay DEF BrainCore
<1>2. CASE BrainstormNext
  <2>1. CASE \E usable \in SUBSET Branches : CreateBrainstorm(usable)
    BY <2>1, CreateStep
  <2>2. CASE EndBrainstorm \/ BrowserSessionEnds
    BY <2>2, EndStep, BrowserEndsStep
  <2>3. CASE OperationStarts \/ OperationSaved \/ SaveFails
    BY <2>3, StartsStep, SavedStep, FailsStep
  <2>4. CASE \E q \in Questions :
                \/ FindsBranch(q) \/ RereadsState(q) \/ ProbeDone(q) \/ ProbeFails(q)
                \/ \E new \in Questions : ProbeAsks(q, new)
                \/ UserAnswers(q) \/ AgentTakesAnswer(q)
    BY <2>4, FindsStep, RereadsStep, DoneStep, ProbeFailsStep, AsksStep, UserStep, AgentStep
  <2>5. CASE \E c \in Awaits :
                \/ AwaitCalled(c) \/ ChecksComplete(c) \/ WaitsForAnswer(c)
                \/ NothingPending(c) \/ AwaitTimesOut(c) \/ Drains(c)
                \/ \E q \in Questions : TakesAnswer(c, q) \/ Finishes(c, q)
    BY <2>5, CallStep, TakesStep, FinishesStep
  <2> QED
    BY <1>2, <2>1, <2>2, <2>3, <2>4, <2>5 DEF BrainstormNext
<1> QED
  BY <1>1, <1>2

\* However answers, probes and writes of the state file overlap, a branch that is
\* not done has one thread that moves it on unless one of the named accidents
\* broke it, one that is done has none, and a call that returns has awaited what
\* it took (src/tools/octto/processor.ts, brainstorm.ts, src/octto/state).
THEOREM BranchesMoveOn == BrainstormSpec => []BrainstormInv
<1>1. BrainstormInit => BrainCore
  BY BrainInitially
<1>2. BrainCore /\ [BrainstormNext]_brainstormVars => BrainCore'
  BY BrainStep
<1>3. BrainCore => BrainstormInv
  BY BrainstormInvIsCore
<1> QED
  BY <1>1, <1>2, <1>3, PTL DEF BrainstormSpec

\* No operation brings the state file of an ended brainstorm back: whatever comes
\* after the deletion finds no state to load (loadOrThrow, src/octto/state/store.ts).
THEOREM DeletedStays == BrainstormSpec => EndedStaysDeleted
<1>1. ASSUME [BrainstormNext]_brainstormVars, phase[Browser] = "ended", file = "absent"
      PROVE  file' = "absent"
  <2>1. CASE UNCHANGED brainstormVars
    BY <1>1, <2>1 DEF brainstormVars, stateVars
  <2>2. CASE BrainstormNext
    <3>1. \A usable \in SUBSET Branches : ~ CreateBrainstorm(usable)
      BY <1>1 DEF CreateBrainstorm, Open
    <3>2. OperationStarts => file' = "absent"
      BY <1>1 DEF OperationStarts
    <3>3. ~ OperationSaved /\ ~ SaveFails /\ ~ EndBrainstorm
      BY <1>1 DEF OperationSaved, SaveFails, EndBrainstorm
    <3>4. BrowserSessionEnds => file' = file
      BY DEF BrowserSessionEnds, stateVars
    <3>5. ASSUME NEW q \in Questions,
                 \/ FindsBranch(q) \/ RereadsState(q) \/ ProbeDone(q) \/ ProbeFails(q)
                 \/ \E new \in Questions : ProbeAsks(q, new)
                 \/ UserAnswers(q) \/ AgentTakesAnswer(q)
          PROVE  file' = file
      BY <3>5 DEF FindsBranch, RereadsState, ProbeDone, ProbeFails, ProbeAsks, UserAnswers,
                  AgentTakesAnswer, stateVars
    <3>6. ASSUME NEW c \in Awaits,
                 \/ AwaitCalled(c) \/ ChecksComplete(c) \/ WaitsForAnswer(c)
                 \/ NothingPending(c) \/ AwaitTimesOut(c) \/ Drains(c)
                 \/ \E q \in Questions : TakesAnswer(c, q) \/ Finishes(c, q)
          PROVE  file' = file
      BY <3>6 DEF AwaitCalled, ChecksComplete, WaitsForAnswer, NothingPending, AwaitTimesOut,
                  Drains, TakesAnswer, Finishes, stateVars
    <3> QED
      BY <1>1, <2>2, <3>1, <3>2, <3>3, <3>4, <3>5, <3>6 DEF BrainstormNext
  <2> QED
    BY <1>1, <2>1, <2>2
<1>2. [BrainstormNext]_brainstormVars =>
        [phase[Browser] = "ended" /\ file = "absent" => file' = "absent"]_brainstormVars
  BY <1>1
<1> QED
  BY <1>2, PTL DEF BrainstormSpec, EndedStaysDeleted
=============================================================================
