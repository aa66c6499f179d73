-------------------------- MODULE PromptInjection --------------------------
(***************************************************************************)
(* What src/hooks/mindmodel-injector.ts and src/hooks/context-injector.ts  *)
(* put into the prompts of the sessions of one plugin.  Both keep state    *)
(* that all sessions share across awaits: the one pending injection        *)
(* between the two transforms of a request, and the one map of root files  *)
(* that is emptied and filled again file by file.                          *)
(***************************************************************************)
EXTENDS Naturals, FiniteSets

CONSTANTS
    Sessions,
    Tasks,       \* texts of a request's last user message
    Matching,    \* tasks whose categories have examples
    RootFiles,   \* config.paths.rootContextFiles, those that exist
    MaxRequests, \* bound on requests
    NoTask

ASSUME InjectionAssumption ==
    Matching \subseteq Tasks /\ NoTask \notin Tasks /\ MaxRequests \in Nat

VARIABLES
    request,   \* where each session's request is: its await and its task
    pending,   \* pendingInjection: the task whose examples are held
    matched,   \* matchedTasks: tasks whose injection is cached
    loading,   \* root files each session has still to load, {} when done
    root,      \* cache.rootContent
    freshRoot, \* lastRootCheck is less than contextCacheTtlMs ago
    injected,  \* task whose examples the last prompt of each session got
    context,   \* root files the last prompt of each session got
    crossed,   \* ghost: sessions whose last request overlapped another one or
               \* followed an abandoned one
    abandoned, \* ghost: a request was given up and no prompt was built since
    requests   \* requests so far (bounded)

injectionVars == <<request, pending, matched, loading, root, freshRoot,
                   injected, context, crossed, abandoned, requests>>

NoRequest == [at |-> "none", task |-> NoTask]
Awaits == {"none", "mindmodel", "examples", "system", "params", "sent"}

InjectionTypeOK ==
    /\ request \in [Sessions -> [at : Awaits, task : Tasks \cup {NoTask}]]
    /\ pending \in Tasks \cup {NoTask} /\ matched \subseteq Tasks
    /\ loading \in [Sessions -> SUBSET RootFiles] /\ root \subseteq RootFiles
    /\ injected \in [Sessions -> Tasks \cup {NoTask}]
    /\ context \in [Sessions -> SUBSET RootFiles]
    /\ {freshRoot, abandoned} \subseteq BOOLEAN
    /\ crossed \subseteq Sessions /\ requests \in 0..MaxRequests

InjectionInit ==
    /\ request = [s \in Sessions |-> NoRequest]
    /\ pending = NoTask /\ matched = {}
    /\ loading = [s \in Sessions |-> {}] /\ root = {} /\ freshRoot = FALSE
    /\ injected = [s \in Sessions |-> NoTask]
    /\ context = [s \in Sessions |-> {}]
    /\ crossed = {} /\ abandoned = FALSE /\ requests = 0

Goes(s, at) == request' = [request EXCEPT ![s].at = at]
Busy == {s \in Sessions : request[s].at \notin {"none", "sent"}}

\* A request of a session, with or without text in its last user message.
RequestStarts(s, t) ==
    /\ request[s].at \in {"none", "sent"} /\ requests < MaxRequests
    /\ requests' = requests + 1
    /\ request' = [request EXCEPT ![s] = [at |-> "mindmodel", task |-> t]]
    /\ crossed' = IF Busy = {} /\ ~abandoned THEN crossed \ {s}
                ELSE crossed \cup Busy \cup {s}
    /\ UNCHANGED <<pending, matched, loading, root, freshRoot, injected,
                   context, abandoned>>

\* messages.transform after getMindmodel, up to the examples.
TaskMatched(s) ==
    /\ request[s].at = "mindmodel"
    /\ LET t == request[s].task IN
        IF t = NoTask
        THEN Goes(s, "system") /\ UNCHANGED <<pending, matched>>
        ELSE IF t \in matched \/ t \notin Matching
        THEN /\ pending' = IF t \in Matching THEN t ELSE NoTask
             /\ matched' = matched \cup {t}
             /\ Goes(s, "system")
        ELSE Goes(s, "examples") /\ UNCHANGED <<pending, matched>>
    /\ UNCHANGED <<loading, root, freshRoot, injected, context, crossed,
                   abandoned, requests>>

\* loadExamples: found, or failed and swallowed.
ExamplesLoaded(s) ==
    /\ request[s].at = "examples" /\ Goes(s, "system")
    /\ pending' = request[s].task /\ matched' = matched \cup {request[s].task}
    /\ UNCHANGED <<loading, root, freshRoot, injected, context, crossed,
                   abandoned, requests>>

\* Mutant of SystemTransformed: the injection is used and kept.
SystemTransformedKeeps(s) ==
    /\ request[s].at = "system" /\ Goes(s, "params")
    /\ injected' = [injected EXCEPT ![s] = pending] /\ abandoned' = FALSE
    /\ UNCHANGED <<pending, matched, loading, root, freshRoot, context,
                   crossed, requests>>

\* system.transform after getSystemMd: whatever is pending goes in.
SystemTransformed(s) ==
    /\ request[s].at = "system" /\ Goes(s, "params")
    /\ injected' = [injected EXCEPT ![s] = pending]
    /\ pending' = NoTask /\ abandoned' = FALSE
    /\ UNCHANGED <<matched, loading, root, freshRoot, context, crossed,
                   requests>>

\* loadRootFiles: the map as it is, or emptied to be filled again.
RootAsked(s) ==
    /\ request[s].at = "params" /\ loading[s] = {}
    /\ IF freshRoot /\ root # {}
       THEN /\ context' = [context EXCEPT ![s] = root] /\ Goes(s, "sent")
            /\ UNCHANGED <<loading, root, freshRoot>>
       ELSE /\ loading' = [loading EXCEPT ![s] = RootFiles]
            /\ root' = {} /\ freshRoot' = TRUE
            /\ UNCHANGED <<context, request>>
    /\ UNCHANGED <<pending, matched, injected, crossed, abandoned, requests>>

\* Mutant of RootFileLoaded: what one session loads replaces the map.
RootFileLoadedAlone(s, file) ==
    /\ file \in loading[s]
    /\ loading' = [loading EXCEPT ![s] = @ \ {file}]
    /\ root' = {file}
    /\ IF loading[s] = {file}
       THEN context' = [context EXCEPT ![s] = root'] /\ Goes(s, "sent")
       ELSE UNCHANGED <<context, request>>
    /\ UNCHANGED <<pending, matched, freshRoot, injected, crossed, abandoned,
                   requests>>

\* tryLoadFile, and after the last file the block of context.
RootFileLoaded(s, file) ==
    /\ file \in loading[s]
    /\ loading' = [loading EXCEPT ![s] = @ \ {file}]
    /\ root' = root \cup {file}
    /\ IF loading[s] = {file}
       THEN context' = [context EXCEPT ![s] = root'] /\ Goes(s, "sent")
       ELSE UNCHANGED <<context, request>>
    /\ UNCHANGED <<pending, matched, freshRoot, injected, crossed, abandoned,
                   requests>>

RootExpires ==
    /\ freshRoot /\ freshRoot' = FALSE
    /\ UNCHANGED <<request, pending, matched, loading, root, injected, context,
                   crossed, abandoned, requests>>

\* The host gives a request up between its two transforms.
RequestAbandoned(s) ==
    /\ request[s].at = "system" /\ Goes(s, "none")
    /\ abandoned' = TRUE
    /\ UNCHANGED <<pending, matched, loading, root, freshRoot, injected,
                   context, crossed, requests>>

InjectionNext ==
    \/ \E s \in Sessions :
        \/ \E t \in Tasks \cup {NoTask} : RequestStarts(s, t)
        \/ TaskMatched(s) \/ ExamplesLoaded(s) \/ SystemTransformed(s)
        \/ RootAsked(s) \/ RequestAbandoned(s)
        \/ \E file \in RootFiles : RootFileLoaded(s, file)
    \/ RootExpires

InjectionSpec == InjectionInit /\ [][InjectionNext]_injectionVars

-----------------------------------------------------------------------------
(* Properties                                                              *)

\* What the task of a session asks for, and what its last prompt should hold.
Wanted(s) == IF request[s].task \in Matching THEN request[s].task ELSE NoTask
Own(s) == injected[s] = Wanted(s) /\ context[s] = RootFiles

\* A prompt gets the examples of its own task and no others, and every root
\* file, unless its request overlapped another one or follows one that was given
\* up half-way; overlapping requests do swap examples and get part of the files.
PromptIsOwn ==
    \A s \in Sessions : request[s].at = "sent" /\ s \notin crossed => Own(s)

\* What overlapping requests disturb does not outlive them: when all are
\* through, no injection is left for a later prompt and the map of root files is
\* whole.
NothingIsLeft ==
    Busy = {} /\ ~abandoned => pending = NoTask /\ root \in {{}, RootFiles}

\* Why it is not left: what is pending has a system transform to come that takes
\* it, or a request was given up, and the files that are not in the map are
\* still being loaded for some session.
LeftForSomeone ==
    /\ pending = NoTask \/ abandoned \/ \E s \in Sessions : request[s].at = "system"
    /\ \A s \in Sessions : loading[s] # {} => request[s].at = "params"
    /\ \/ root = {} /\ \A s \in Sessions : loading[s] = {}
       \/ \A file \in RootFiles : file \in root \/ \E s \in Sessions : file \in loading[s]

\* Why it is one's own: a request that nothing crossed is alone, and what is
\* pending at each of its awaits is what its own task asks for.
AloneHasItsOwn ==
    \A s \in Busy \ crossed :
        /\ Busy = {s} /\ ~abandoned
        /\ request[s].at \in {"mindmodel", "examples", "params"} => pending = NoTask
        /\ request[s].at = "system" => pending = Wanted(s)
        /\ request[s].at = "params" => injected[s] = Wanted(s)

\* Examples are loaded only for a task that has some.
ExamplesAreMatched ==
    \A s \in Sessions : request[s].at = "examples" => request[s].task \in Matching

InjectionInv ==
    /\ InjectionTypeOK /\ PromptIsOwn /\ NothingIsLeft /\ LeftForSomeone
    /\ AloneHasItsOwn /\ ExamplesAreMatched
=============================================================================
