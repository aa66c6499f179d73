----------------------------- MODULE OcttoTools -----------------------------
(***************************************************************************)
(* The Octto tools of src/tools/octto as agents call them, with the        *)
(* ownership of sessions, and what src/index.ts keeps to end the sessions  *)
(* of an agent that is deleted: octtoSessions and the auto-resume registry.*)
(***************************************************************************)
EXTENDS AnswerMailbox, Naturals

CONSTANTS Agents, NoAgent, MaxRestarts \* sessions of OpenCode; a bound

ASSUME ToolsAssumption == NoAgent \notin Agents /\ MaxRestarts \in Nat

VARIABLES
    ownerOf,  \* ownerSessionID of each session
    starting, \* sessions whose startSession has not returned
    tracked,  \* octtoSessions
    registry, \* autoResumeRegistry: the sessions in it
    deleted,  \* agents whose session.deleted has come
    cleaning, \* agents for whom cleanupDeletedSession is under way
    restarts, \* times the plugin was started again (bounded)
    late,     \* ghost: sessions whose start returned after their owner's cleanup
    forgotten \* ghost: sessions a restart has restored

toolVars == <<ownerOf, starting, tracked, registry, deleted, cleaning, restarts,
              late, forgotten>>

ToolsTypeOK ==
    /\ ownerOf \in [Sessions -> Agents \cup {NoAgent}]
    /\ tracked \in [Agents -> SUBSET Sessions]
    /\ {starting, registry, late, forgotten} \subseteq SUBSET Sessions
    /\ cleaning \subseteq deleted /\ deleted \subseteq Agents
    /\ restarts \in 0..MaxRestarts
    /\ \A s \in Sessions : phase[s] = "open" => ownerOf[s] # NoAgent

ToolsInit ==
    /\ MailInit
    /\ ownerOf = [s \in Sessions |-> NoAgent]
    /\ starting = {} /\ tracked = [a \in Agents |-> {}] /\ registry = {}
    /\ deleted = {} /\ cleaning = {} /\ restarts = 0
    /\ late = {} /\ forgotten = {}

Forbidden(a, s) == phase[s] = "open" /\ ownerOf[s] # a

-----------------------------------------------------------------------------
(* Sessions: start_session, create_brainstorm, the questions of atlas-init *)

StartCalled(a, s) ==
    /\ a \notin deleted
    /\ \E asked \in SUBSET Questions : asked # {} /\ Open(s, asked)
    /\ ownerOf' = [ownerOf EXCEPT ![s] = a] /\ starting' = starting \cup {s}
    /\ UNCHANGED <<tracked, registry, deleted, cleaning, restarts, late,
                   forgotten>>

\* startSession returned: onCreated.
StartReturns(s) ==
    /\ s \in starting /\ starting' = starting \ {s}
    /\ LET a == ownerOf[s] IN
        /\ tracked' = [tracked EXCEPT ![a] = @ \cup {s}]
        /\ registry' = registry \cup {s}
        /\ late' = IF a \in deleted \ cleaning THEN late \cup {s} ELSE late
    /\ UNCHANGED <<mailVars, ownerOf, deleted, cleaning, restarts, forgotten>>

\* Mutant of EndCalled: the tracker is not told.
EndCalledQuietly(a, s) ==
    /\ phase[s] = "open" /\ ~Forbidden(a, s) /\ s \notin starting
    /\ End(s) /\ registry' = registry \ {s}
    /\ UNCHANGED <<ownerOf, starting, tracked, deleted, cleaning, restarts,
                   late, forgotten>>

\* end_session and end_brainstorm by the owner: onSessionEnded and onEnded.
EndCalled(a, s) ==
    /\ phase[s] = "open" /\ ~Forbidden(a, s) /\ s \notin starting
    /\ End(s) /\ registry' = registry \ {s}
    /\ tracked' = [tracked EXCEPT ![a] = @ \ {s}]
    /\ UNCHANGED <<ownerOf, starting, deleted, cleaning, restarts, late,
                   forgotten>>

-----------------------------------------------------------------------------
(* Questions                                                               *)

\* Any question tool; a session that is gone, or another's, is refused.
PushCalled(a, s, q) ==
    /\ phase[s] = "open" /\ ~Forbidden(a, s) /\ s \notin starting
    /\ Push(s, q) /\ UNCHANGED toolVars

\* get_answer and get_next_answer
AnswerTaken(a, s, q) ==
    /\ ~Forbidden(a, s) /\ Take(s, q) /\ UNCHANGED toolVars

CancelCalled(a, q) ==
    /\ home[q] # NoSession /\ ~Forbidden(a, home[q])
    /\ Cancel(home[q], q) /\ UNCHANGED toolVars

Answered(s, q) == Answer(s, q, "answered") /\ UNCHANGED toolVars

-----------------------------------------------------------------------------
(* cleanupDeletedSession                                                   *)

AgentDeleted(a) ==
    /\ a \notin deleted /\ deleted' = deleted \cup {a}
    /\ cleaning' = IF tracked[a] = {} THEN cleaning ELSE cleaning \cup {a}
    /\ UNCHANGED <<mailVars, ownerOf, starting, tracked, registry, restarts,
                   late, forgotten>>

\* One endSession of the loop; onSessionEnded takes it out of the registry.
CleanupEnds(a, s) ==
    /\ a \in cleaning /\ s \in tracked[a]
    /\ End(s) /\ registry' = registry \ {s}
    /\ UNCHANGED <<ownerOf, starting, tracked, deleted, cleaning, restarts,
                   late, forgotten>>

\* Mutant of CleanupDone: the loop stops at the first session.
CleanupDoneEarly(a) ==
    /\ a \in cleaning
    /\ tracked[a] # {} => \E s \in tracked[a] : phase[s] = "ended"
    /\ cleaning' = cleaning \ {a}
    /\ tracked' = [tracked EXCEPT ![a] = {}]
    /\ UNCHANGED <<mailVars, ownerOf, starting, registry, deleted, restarts,
                   late, forgotten>>

CleanupDone(a) ==
    /\ a \in cleaning /\ \A s \in tracked[a] : phase[s] = "ended"
    /\ cleaning' = cleaning \ {a}
    /\ tracked' = [tracked EXCEPT ![a] = {}]
    /\ UNCHANGED <<mailVars, ownerOf, starting, registry, deleted, restarts,
                   late, forgotten>>

\* The plugin starts again and restores the open sessions, untracked.
PluginRestarts ==
    /\ restarts < MaxRestarts /\ restarts' = restarts + 1
    /\ starting' = {} /\ tracked' = [a \in Agents |-> {}] /\ registry' = {}
    /\ cleaning' = {}
    /\ forgotten' = forgotten \cup {s \in Sessions : phase[s] = "open"}
    /\ UNCHANGED <<mailVars, ownerOf, deleted, late>>

ToolsNext ==
    \/ \E a \in Agents, s \in Sessions :
        \/ StartCalled(a, s) \/ EndCalled(a, s) \/ CleanupEnds(a, s)
        \/ \E q \in Questions : PushCalled(a, s, q) \/ AnswerTaken(a, s, q)
    \/ \E a \in Agents :
        \/ AgentDeleted(a) \/ CleanupDone(a)
        \/ \E q \in Questions : CancelCalled(a, q)
    \/ \E s \in Sessions :
        \/ StartReturns(s) \/ \E q \in Questions : Answered(s, q)
    \/ PluginRestarts

ToolsSpec == ToolsInit /\ [][ToolsNext]_<<mailVars, toolVars>>

-----------------------------------------------------------------------------
(* Properties                                                              *)

\* What is tracked for an agent and what answers can be resumed for are the
\* same sessions, and they are open, whichever way sessions end and while
\* agents are deleted.
TrackedAgrees ==
    \A a \in Agents :
        /\ \A s \in tracked[a] :
            ownerOf[s] = a /\ (phase[s] = "open" \/ a \in cleaning)
        /\ \A s \in registry : ownerOf[s] = a => s \in tracked[a]

\* Why: an open session is being started, or tracked for its owner, or one that
\* a restart has restored, and what is started or registered is open.
OpenIsAccounted ==
    /\ \A s \in Sessions :
        /\ phase[s] = "unborn" => ownerOf[s] = NoAgent
        /\ phase[s] = "open" => \/ s \in starting \cup forgotten
                                \/ s \in tracked[ownerOf[s]]
    /\ \A s \in starting \cup registry : phase[s] = "open"
    /\ \A s \in starting : \A a \in Agents : s \notin tracked[a]

\* The sessions of a deleted agent are ended, except one whose start returned
\* when the clean-up was over and those a restart has restored.
DeletedOwnsNothing ==
    \A s \in Sessions :
        phase[s] = "open" /\ ownerOf[s] \in deleted \ cleaning =>
            s \in starting \cup late \cup forgotten
=============================================================================
