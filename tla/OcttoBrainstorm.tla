-------------------------- MODULE OcttoBrainstorm --------------------------
(***************************************************************************)
(* src/tools/octto/brainstorm.ts and processor.ts over src/octto/state: one *)
(* brainstorm, its state file and its browser session.                     *)
(*                                                                         *)
(* await_brainstorm_complete takes answers from the mailbox and hands each *)
(* to a processing of its own, which finds the question's branch in the    *)
(* state file, records the answer, asks the probe agent, and completes the *)
(* branch or asks a follow-up question.  Writes of the state file queue    *)
(* under the session's lock; reads do not, and Bun.write empties the file  *)
(* before it fills it.                                                     *)
(***************************************************************************)
EXTENDS AnswerMailbox, Naturals, Sequences

CONSTANTS
    Browser,      \* the browser session
    NumBranches,  \* branches are named by their place in branch_order
    NoBranch, NoQuestion,
    Awaits,       \* calls of await_brainstorm_complete
    MaxIterations \* config.octto.maxIterations, 50

Branches == 1..NumBranches

ASSUME BrainstormAssumption ==
    /\ Sessions = {Browser} /\ Questions \subseteq Nat
    /\ NoQuestion \notin Questions /\ NoBranch \notin Branches
    /\ NumBranches \in Nat /\ MaxIterations \in Nat

VARIABLES
    file,     \* the state file
    finding,  \* of each stored branch: the question that decided it, if done
    branchOf, \* the stored branch a question is registered in
    queue,    \* operations under the session's lock
    process,  \* where processAnswer is for each answer
    await,    \* where each await_brainstorm_complete is
    about,    \* ghost: the branch a question is, or is to be, registered in
    lost      \* ghost: branches whose question, answer or probe got lost

stateVars == <<file, finding, branchOf, queue>>
brainstormVars == <<mailVars, stateVars, process, await, about, lost>>

NotCalled == [at |-> "none", mine |-> {}, left |-> MaxIterations]
AwaitStages == {"none", "checking", "asking", "waiting", "draining",
                "finishing", "review", "review waiting", "lost", "in progress",
                "skipped", "approved", "changes"}
ProcessStages == {"none", "finding", "recording", "rereading", "probing",
                  "completing", "registering", "over"}
Returned == {"lost", "in progress", "skipped", "approved", "changes"}
Operations == [kind : {"record", "register", "complete", "delete"},
               by : Questions \cup {NoQuestion},
               new : Questions \cup {NoQuestion}]

BrainstormTypeOK ==
    /\ MailTypeOK
    /\ file \in {"absent", "whole", "torn"}
    /\ finding \in [Branches -> Questions \cup {NoQuestion}]
    /\ branchOf \in [Questions -> Branches \cup {NoBranch}]
    /\ queue \in Seq(Operations)
    /\ process \in [Questions -> ProcessStages]
    /\ await \in [Awaits -> [at : AwaitStages, mine : SUBSET Questions,
                             left : 0..MaxIterations]]
    /\ about \in [Questions -> Branches \cup {NoBranch}]
    /\ lost \subseteq Branches

BrainstormInit ==
    /\ MailInit
    /\ file = "absent"
    /\ finding = [b \in Branches |-> NoQuestion]
    /\ branchOf = [q \in Questions |-> NoBranch]
    /\ queue = <<>>
    /\ process = [q \in Questions |-> "none"]
    /\ await = [c \in Awaits |-> NotCalled]
    /\ about = [q \in Questions |-> NoBranch] /\ lost = {}

Done(b) == finding[b] # NoQuestion
AllDone == \A b \in Branches : Done(b)
Complete == file = "whole" /\ AllDone
Letter(letters) == In(Browser, letters)

\* Ids are generated in order; the bound on follow-up questions leaves one for
\* each review.
IsNext(q) ==
    /\ mail[q] = "unasked"
    /\ \A p \in Questions : mail[p] = "unasked" => q <= p
IsFollowUp(q) == IsNext(q) /\ q + Cardinality(Awaits) \in Questions

-----------------------------------------------------------------------------
(* create_brainstorm and end_brainstorm                                    *)

\* The k-th usable branch is asked the k-th question, but registerBranchQuestions
\* gives the i-th branch the i-th question.
CreateBrainstorm(usable) ==
    /\ usable # {}
    /\ Open(Browser, 1..Cardinality(usable))
    /\ branchOf' = [q \in Questions |->
            IF q \in usable /\ q <= Cardinality(usable) THEN q ELSE NoBranch]
    /\ about' = branchOf'
    /\ file' = "whole"
    /\ lost' = {b \in Branches : \A q \in Questions : branchOf'[q] # b}
    /\ UNCHANGED <<finding, queue, process, await>>

Enqueue(kind, by, new) ==
    queue' = Append(queue, [kind |-> kind, by |-> by, new |-> new])

\* end_brainstorm when the browser session is still there.
EndBrainstorm ==
    /\ file = "whole"
    /\ \A i \in DOMAIN queue : queue[i].kind # "delete"
    /\ End(Browser)
    /\ Enqueue("delete", NoQuestion, NoQuestion)
    /\ UNCHANGED <<file, finding, branchOf, process, await, about, lost>>

\* end_session, or the deletion of the agent's session: the file stays.
BrowserSessionEnds ==
    /\ End(Browser)
    /\ UNCHANGED <<stateVars, process, await, about, lost>>

-----------------------------------------------------------------------------
(* The state store: withSessionLock                                        *)

Over(q) == process' = [process EXCEPT ![q] = "over"]
LosesIf(condition, b) == lost' = IF condition THEN lost \cup {b} ELSE lost

\* Mutant of OperationStarts: the state is the one read before the lock.
OperationStartsUnread ==
    /\ queue # <<>> /\ file # "torn"
    /\ IF Head(queue).kind = "delete"
       THEN /\ file' = "absent" /\ queue' = Tail(queue)
            /\ UNCHANGED process
       ELSE file' = "torn" /\ UNCHANGED <<queue, process>>
    /\ UNCHANGED <<mailVars, finding, branchOf, await, about, lost>>

\* Mutant of OperationStarts: the lock is released before the save is over.
OperationStartsUnlocked ==
    /\ queue # <<>> /\ file # "torn"
    /\ queue' = Tail(queue)
    /\ file' = IF Head(queue).kind = "delete" THEN "absent" ELSE "torn"
    /\ UNCHANGED <<mailVars, finding, branchOf, process, await, about, lost>>

\* The head of the queue loads the state, or throws, and starts to save.
OperationStarts ==
    /\ queue # <<>> /\ file # "torn"
    /\ LET op == Head(queue) IN
        IF op.kind = "delete" \/ file = "absent"
        THEN /\ file' = "absent" /\ queue' = Tail(queue)
             /\ IF op.kind = "delete" THEN UNCHANGED process ELSE Over(op.by)
        ELSE file' = "torn" /\ UNCHANGED <<queue, process>>
    /\ UNCHANGED <<mailVars, finding, branchOf, await, about, lost>>

\* The save is over: recordAnswerOp, addQuestion, completeBranchOp.
OperationSaved ==
    /\ file = "torn" /\ file' = "whole" /\ queue' = Tail(queue)
    /\ LET op == Head(queue) IN
        /\ process' = [process EXCEPT ![op.by] =
                            IF op.kind = "record" THEN "rereading" ELSE "over"]
        /\ branchOf' = IF op.kind = "register"
                    THEN [branchOf EXCEPT ![op.new] = branchOf[op.by]] ELSE branchOf
        /\ finding' = IF op.kind = "complete"
                      THEN [finding EXCEPT ![branchOf[op.by]] = op.by] ELSE finding
    /\ UNCHANGED <<mailVars, await, about, lost>>

\* The disk refuses; processAnswer logs the error.
SaveFails ==
    /\ file = "torn" /\ file' = "whole" /\ queue' = Tail(queue)
    /\ Over(Head(queue).by) /\ LosesIf(TRUE, branchOf[Head(queue).by])
    /\ UNCHANGED <<mailVars, finding, branchOf, await, about>>

-----------------------------------------------------------------------------
(* processAnswer                                                           *)

\* The question's branch is looked up in the file.
FindsBranch(q) ==
    /\ process[q] = "finding"
    /\ IF file # "whole" \/ branchOf[q] = NoBranch
       THEN Over(q) /\ UNCHANGED queue /\ LosesIf(about[q] # NoBranch, about[q])
       ELSE IF Done(branchOf[q])
       THEN Over(q) /\ UNCHANGED <<queue, lost>>
       ELSE /\ process' = [process EXCEPT ![q] = "recording"]
            /\ Enqueue("record", q, NoQuestion) /\ UNCHANGED lost
    /\ UNCHANGED <<mailVars, file, finding, branchOf, await, about>>

\* The state is read again after the answer is in it.
RereadsState(q) ==
    /\ process[q] = "rereading"
    /\ IF file = "whole" /\ ~Done(branchOf[q])
       THEN process' = [process EXCEPT ![q] = "probing"] /\ UNCHANGED lost
       ELSE Over(q) /\ LosesIf(file # "whole", branchOf[q])
    /\ UNCHANGED <<mailVars, stateVars, await, about>>

ProbeDone(q) ==
    /\ process[q] = "probing"
    /\ process' = [process EXCEPT ![q] = "completing"]
    /\ Enqueue("complete", q, NoQuestion)
    /\ UNCHANGED <<mailVars, file, finding, branchOf, await, about, lost>>

\* Mutant of ProbeAsks: the branch is completed beside the follow-up.
ProbeAsksAndCompletes(q, new) ==
    /\ process[q] = "probing" /\ IsFollowUp(new)
    /\ Push(Browser, new)
    /\ about' = [about EXCEPT ![new] = branchOf[q]]
    /\ process' = [process EXCEPT ![q] = "registering"]
    /\ queue' = queue \o <<[kind |-> "register", by |-> q, new |-> new],
                  [kind |-> "complete", by |-> q, new |-> NoQuestion]>>
    /\ UNCHANGED <<file, finding, branchOf, await, lost>>

\* pushFollowUpQuestion: shown first, registered afterwards.
ProbeAsks(q, new) ==
    /\ process[q] = "probing" /\ IsFollowUp(new)
    /\ Push(Browser, new)
    /\ about' = [about EXCEPT ![new] = branchOf[q]]
    /\ process' = [process EXCEPT ![q] = "registering"]
    /\ Enqueue("register", q, new)
    /\ UNCHANGED <<file, finding, branchOf, await, lost>>

\* No answer, neither finding nor question, or no session to ask in.
ProbeFails(q) ==
    /\ process[q] = "probing"
    /\ Over(q) /\ LosesIf(TRUE, branchOf[q])
    /\ UNCHANGED <<mailVars, stateVars, await, about>>

-----------------------------------------------------------------------------
(* await_brainstorm_complete                                               *)

Goes(c, stage) == await' = [await EXCEPT ![c].at = stage]

AwaitCalled(c) ==
    /\ await[c] = NotCalled /\ phase[Browser] = "open"
    /\ Goes(c, IF file = "whole" THEN "checking" ELSE "lost")
    /\ UNCHANGED <<mailVars, stateVars, process, about, lost>>

\* isSessionComplete at the head of the loop.
ChecksComplete(c) ==
    /\ await[c].at = "checking"
    /\ Goes(c, IF await[c].left = 0 \/ Complete THEN "finishing" ELSE "asking")
    /\ UNCHANGED <<mailVars, stateVars, process, about, lost>>

\* Call c is given the answer to q: an answer to process, or the decision.
Given(c, q) ==
    IF await[c].at \in {"asking", "waiting"}
    THEN /\ await' = [await EXCEPT ![c] = [at |-> "checking", left |-> @.left - 1,
                                            mine |-> @.mine \cup {q}]]
         /\ process' = [process EXCEPT ![q] = "finding"]
         /\ UNCHANGED lost
    ELSE /\ Goes(c, "approved") \/ Goes(c, "changes")
         /\ LosesIf(about[q] # NoBranch, about[q])
         /\ UNCHANGED process

Asks(c) == await[c].at \in {"asking", "review"}
Waits(c) == await[c].at \in {"waiting", "review waiting"}

TakesAnswer(c, q) ==
    /\ Asks(c) /\ Take(Browser, q) /\ Given(c, q)
    /\ UNCHANGED <<stateVars, about>>

WaitsForAnswer(c) ==
    /\ Asks(c) /\ phase[Browser] = "open"
    /\ Letter({"answered"}) = {} /\ Letter({"pending"}) # {}
    /\ Goes(c, IF await[c].at = "asking" THEN "waiting" ELSE "review waiting")
    /\ UNCHANGED <<mailVars, stateVars, process, about, lost>>

\* Nothing is pending, or the browser session has ended.
NothingPending(c) ==
    /\ Asks(c) /\ Letter({"answered", "pending"}) = {}
    /\ Goes(c, IF await[c].at = "asking" THEN "draining" ELSE "changes")
    /\ UNCHANGED <<mailVars, stateVars, process, about, lost>>

AwaitTimesOut(c) ==
    /\ Waits(c)
    /\ Goes(c, IF await[c].at = "waiting" THEN "finishing" ELSE "changes")
    /\ UNCHANGED <<mailVars, stateVars, process, about, lost>>

Drained(c) == \A q \in await[c].mine : process[q] = "over"

\* Mutant of Drains: an idle round is no iteration.
DrainsUncounted(c) ==
    /\ await[c].at = "draining" /\ Drained(c)
    /\ await' = [await EXCEPT ![c].at = "checking", ![c].mine = {}]
    /\ UNCHANGED <<mailVars, stateVars, process, about, lost>>

\* drainPendingOnIdle, then the next iteration.
Drains(c) ==
    /\ await[c].at = "draining" /\ Drained(c)
    /\ await' = [await EXCEPT ![c] = [at |-> "checking", left |-> @.left - 1,
                                       mine |-> {}]]
    /\ UNCHANGED <<mailVars, stateVars, process, about, lost>>

\* Mutant of Finishes: the processings under way are not awaited.
FinishesEarly(c, q) ==
    /\ await[c].at = "finishing"
    /\ IF Complete /\ phase[Browser] = "open"
       THEN IsNext(q) /\ Push(Browser, q) /\ Goes(c, "review")
       ELSE /\ Goes(c, IF file # "whole" THEN "lost"
                       ELSE IF AllDone THEN "skipped" ELSE "in progress")
            /\ UNCHANGED mailVars
    /\ UNCHANGED <<stateVars, process, about, lost>>

\* The state is read, and when it is complete the review is asked for.
Finishes(c, q) ==
    /\ await[c].at = "finishing" /\ Drained(c)
    /\ IF Complete /\ phase[Browser] = "open"
       THEN IsNext(q) /\ Push(Browser, q) /\ Goes(c, "review")
       ELSE /\ Goes(c, IF file # "whole" THEN "lost"
                       ELSE IF AllDone THEN "skipped" ELSE "in progress")
            /\ UNCHANGED mailVars
    /\ UNCHANGED <<stateVars, process, about, lost>>

-----------------------------------------------------------------------------
(* The user, and the agent's own get_next_answer                           *)

UserAnswers(q) ==
    \/ /\ \A c \in Awaits : ~Waits(c)
       /\ Answer(Browser, q, "answered")
       /\ UNCHANGED <<stateVars, process, await, about, lost>>
    \/ \E c \in Awaits :
        /\ Waits(c) /\ Answer(Browser, q, "taken") /\ Given(c, q)
        /\ UNCHANGED <<stateVars, about>>

\* formatCreatedXml tells the agent to call get_next_answer, whose answers are
\* not processed.
AgentTakesAnswer(q) ==
    /\ Take(Browser, q)
    /\ LosesIf(about[q] # NoBranch, about[q])
    /\ UNCHANGED <<stateVars, process, await, about>>

BrainstormNext ==
    \/ \E usable \in SUBSET Branches : CreateBrainstorm(usable)
    \/ EndBrainstorm \/ BrowserSessionEnds
    \/ OperationStarts \/ OperationSaved \/ SaveFails
    \/ \E q \in Questions :
        \/ FindsBranch(q) \/ RereadsState(q) \/ ProbeDone(q) \/ ProbeFails(q)
        \/ \E new \in Questions : ProbeAsks(q, new)
        \/ UserAnswers(q) \/ AgentTakesAnswer(q)
    \/ \E c \in Awaits :
        \/ AwaitCalled(c) \/ ChecksComplete(c) \/ WaitsForAnswer(c)
        \/ NothingPending(c) \/ AwaitTimesOut(c) \/ Drains(c)
        \/ \E q \in Questions : TakesAnswer(c, q) \/ Finishes(c, q)

BrainstormSpec == BrainstormInit /\ [][BrainstormNext]_brainstormVars

\* The disk and the probe answer, timers fire and calls go on.
BrainstormFairness ==
    /\ WF_brainstormVars(OperationStarts)
    /\ WF_brainstormVars(OperationSaved \/ SaveFails)
    /\ \A q \in Questions :
        WF_brainstormVars(\/ FindsBranch(q) \/ RereadsState(q)
                          \/ ProbeDone(q) \/ ProbeFails(q))
    /\ \A c \in Awaits :
        WF_brainstormVars(\/ ChecksComplete(c) \/ WaitsForAnswer(c)
                          \/ NothingPending(c) \/ AwaitTimesOut(c) \/ Drains(c)
                          \/ \E q \in Questions :
                                TakesAnswer(c, q) \/ Finishes(c, q))

BrainstormLive == BrainstormSpec /\ BrainstormFairness

-----------------------------------------------------------------------------
(* Properties                                                              *)

\* What still moves a branch on: a question it owns that can be answered, or
\* an answer to one that is being processed.
Threads(b) ==
    {q \in Questions :
        /\ branchOf[q] = b
        /\ \/ q \in Letter({"pending", "answered"})
           \/ process[q] \notin {"none", "over"}}

\* While the brainstorm goes on every branch that is not done has exactly one
\* thread, and a branch that is done none, however answers, probes and writes
\* interleave: it is never probed twice at once, and it stops only where lost
\* says so: an unusable branch, an answer that beat the registration of its
\* question or was taken elsewhere, a read of a half-written file, a failed
\* write or probe.
OneThreadPerBranch ==
    file # "absent" /\ phase[Browser] = "open" =>
        \A b \in Branches :
            IF Done(b) THEN Threads(b) = {}
            ELSE /\ \A p, q \in Threads(b) : p = q
                 /\ Threads(b) = {} => b \in lost

\* Operations that were queued or begin after end_brainstorm never bring the
\* state file back.
EndedStaysDeleted ==
    [][phase[Browser] = "ended" /\ file = "absent"
        => file' = "absent"]_brainstormVars

\* A call that returns leaves none of the answers it took in processing.
ReturnedIsDrained ==
    \A c \in Awaits : await[c].at \in Returned => Drained(c)

\* await_brainstorm_complete returns, whatever the user, the probe and the
\* other calls do.
AwaitReturns ==
    \A c \in Awaits : await[c].at = "checking" ~> await[c].at \in Returned

\* Why: an operation belongs to a processing that waits for it, or deletes the
\* file after the end; and a question that waits to be registered is in no
\* branch yet.
Awaited(op) ==
    \/ op.kind = "delete" /\ op.by = NoQuestion /\ phase[Browser] = "ended"
    \/ /\ op.by \in Questions
       /\ \/ op.kind = "record" /\ process[op.by] = "recording"
          \/ op.kind = "complete" /\ process[op.by] = "completing"
          \/ /\ op.kind = "register" /\ process[op.by] = "registering"
             /\ op.new \in Questions /\ mail[op.new] # "unasked"
             /\ branchOf[op.new] = NoBranch /\ about[op.new] = branchOf[op.by]

\* Two operations are of two processings, and register two questions; and the
\* one that has emptied the file is the first in the queue.
Apart(op, other) ==
    /\ op.by # other.by
    /\ op.kind = "register" /\ other.kind = "register" => op.new # other.new

OperationsAreAwaited ==
    /\ \A i \in DOMAIN queue : Awaited(queue[i])
    /\ \A i, j \in DOMAIN queue :
        i # j /\ queue[i].kind # "delete" => Apart(queue[i], queue[j])
    /\ file = "torn" => queue # <<>> /\ Head(queue).kind # "delete"

\* What is processed was taken from the mailbox, and once found has a branch; and
\* a question that was taken before it was registered has lost its branch.
Known(q) ==
    /\ process[q] # "none" => mail[q] = "taken"
    /\ process[q] \notin {"none", "finding", "over"} => branchOf[q] # NoBranch
    /\ branchOf[q] # NoBranch => mail[q] # "unasked" /\ about[q] = branchOf[q]
    /\ mail[q] # "cancelled"
    /\ phase[Browser] = "open" /\ mail[q] # "unasked" => home[q] = Browser
    /\ mail[q] = "taken" /\ process[q] \in {"none", "over"}
         /\ branchOf[q] = NoBranch /\ about[q] # NoBranch => about[q] \in lost

\* Nothing is asked or stored before the brainstorm is created, and its file is
\* there until the end.
QuestionsAreKnown ==
    /\ \A q \in Questions : Known(q)
    /\ phase[Browser] = "unborn" =>
        /\ \A q \in Questions : mail[q] = "unasked"
        /\ \A b \in Branches : ~ Done(b)
        /\ queue = <<>> /\ file = "absent"
    /\ phase[Browser] = "open" => file # "absent"

\* A call that asks for an answer has an iteration left, and one that is in the
\* review has awaited its processings.
CallsCount ==
    \A c \in Awaits :
        /\ await[c].at \in {"asking", "waiting", "draining"} => await[c].left > 0
        /\ await[c].at \in {"review", "review waiting"} => Drained(c)

\* The branches of a brainstorm and the calls that wait for them
\* (src/octto/state, src/tools/octto/processor.ts, brainstorm.ts).
BrainstormInv ==
    /\ BrainstormTypeOK /\ OneThreadPerBranch /\ ReturnedIsDrained
    /\ OperationsAreAwaited /\ QuestionsAreKnown /\ CallsCount
=============================================================================
