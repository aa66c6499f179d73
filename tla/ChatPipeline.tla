---------------------------- MODULE ChatPipeline ----------------------------
(***************************************************************************)
(* The handlers the plugin returns to OpenCode (index.ts) and the small    *)
(* per-session caches behind them: thinking mode, token usage              *)
(* (token-aware-truncation.ts), the context window monitor, the file       *)
(* operations of a session and the fragments of the project.  OpenCode     *)
(* does not wait for one event handler before it calls the next, so        *)
(* handlers interleave at every await.                                     *)
(***************************************************************************)
EXTENDS Naturals, Sequences, FiniteSets

CONSTANTS
    ChatSessions,   \* OpenCode sessions
    Handlers,       \* handler invocations that may be under way at once
    Paths,          \* files that the tools read and modify
    MaxRatio,       \* readings of the context window: 1 .. MaxRatio
    WarnAt,         \* config.contextWindow.warningThreshold
    Cooldown,       \* config.contextWindow.warningCooldownMs
    MaxChatTime,    \* bound on the clock
    MaxHandlers     \* bound on handler invocations

ASSUME ChatAssumption ==
    /\ WarnAt \in 1..MaxRatio /\ {MaxRatio, Cooldown, MaxHandlers} \subseteq Nat
    /\ MaxChatTime \in Nat \ {0}

Blocks == {"base", "fragments", "ledger", "atlas", "context", "status"}
Ops == {"read", "modified"} \X Paths
NoReading == 0
AnySession == CHOOSE s \in ChatSessions : TRUE
HandlerIdle == [kind |-> "none", session |-> AnySession, at |-> "end",
                reading |-> NoReading, system |-> <<>>]

VARIABLES
    thinkMode,      \* thinkModeState: the sessions whose entry is TRUE
    usageCache,     \* cache of the truncation hook
    ratios,         \* lastUsageRatio of the monitor
    warnedAt,       \* lastWarningTime of the monitor, 0 when absent
    fileOps,        \* sessionFileOps
    summarised,     \* operations listed in the last compaction prompt
    fragmentCache,  \* projectFragmentsCache: "unread", "none" or "some"
    fragmentFile,   \* .micode/fragments.json: "none" or "some"
    ledgers,        \* whether thoughts/ledgers holds a ledger
    handlers,       \* the handlers under way
    gone,           \* sessions whose deletion has been announced
    late,           \* sessions with a handler under way at their deletion
    toastTimes,     \* when toasts of a session were shown
    chatTime, started

chatVars == <<thinkMode, usageCache, ratios, warnedAt, fileOps, summarised,
              fragmentCache, fragmentFile, ledgers, handlers, gone, late,
              toastTimes, chatTime, started>>
caches == <<thinkMode, usageCache, ratios, warnedAt, fileOps>>
chatFiles == <<fragmentCache, fragmentFile, ledgers>>
history == <<summarised, gone, late, toastTimes>>

ChatInit ==
    /\ thinkMode = {} /\ usageCache = [s \in ChatSessions |-> NoReading]
    /\ ratios = [s \in ChatSessions |-> NoReading]
    /\ warnedAt = [s \in ChatSessions |-> 0]
    /\ fileOps = [s \in ChatSessions |-> {}]
    /\ summarised = [s \in ChatSessions |-> {}]
    /\ fragmentCache = "unread" /\ fragmentFile = "none" /\ ledgers = FALSE
    /\ handlers = [h \in Handlers |-> HandlerIdle]
    /\ gone = {} /\ late = {}
    /\ toastTimes = [s \in ChatSessions |-> <<>>]
    /\ chatTime = 1 /\ started = 0

At(h, kind, at) == handlers[h].kind = kind /\ handlers[h].at = at
GoTo(h, at) == handlers' = [handlers EXCEPT ![h].at = at]
Returns(h) == handlers' = [handlers EXCEPT ![h] = HandlerIdle]
HandlersUnderWay(s) == \E h \in Handlers : handlers[h] # HandlerIdle
                                   /\ handlers[h].session = s

Starts(h, kind, s, at, reading) ==
    /\ handlers[h] = HandlerIdle /\ started < MaxHandlers
    /\ started' = started + 1
    /\ handlers' = [handlers EXCEPT ![h] = [kind |-> kind, session |-> s,
                       at |-> at, reading |-> reading, system |-> <<"base">>]]

(***************************************************************************)
(* chat.message remembers whether the message asks for thinking; what the  *)
(* other hooks do with the message is in modules of their own.             *)
(***************************************************************************)
MessageArrives(s, thinks) ==
    /\ s \notin gone
    /\ thinkMode' = IF thinks THEN thinkMode \cup {s} ELSE thinkMode \ {s}
    /\ UNCHANGED <<usageCache, ratios, warnedAt, fileOps, chatFiles, history,
                   handlers, chatTime, started>>

(***************************************************************************)
(* chat.params: each hook in turn puts its block before or after the       *)
(* prompt built so far.                                                    *)
(***************************************************************************)
ParamsAsked(h, s) ==
    /\ s \notin gone /\ Starts(h, "params", s, "fragments", NoReading)
    /\ UNCHANGED <<caches, chatFiles, history, chatTime>>

Before(block, h) == <<block>> \o handlers[h].system
After(block, h) == Append(handlers[h].system, block)
Builds(h, system, at) ==
    handlers' = [handlers EXCEPT ![h].system = system, ![h].at = at]

\* getProjectFragments reads the file once and keeps what it found
ProjectFragments == IF fragmentCache = "unread" THEN fragmentFile
                                                ELSE fragmentCache
FragmentsInjected(h) ==
    /\ At(h, "params", "fragments")
    /\ fragmentCache' = ProjectFragments
    /\ Builds(h, IF fragmentCache' = "some" THEN Before("fragments", h)
                                            ELSE handlers[h].system, "ledger")
    /\ UNCHANGED <<caches, fragmentFile, ledgers, history, chatTime, started>>

LedgerInjected(h) ==
    /\ At(h, "params", "ledger")
    /\ Builds(h, IF ledgers THEN Before("ledger", h)
                            ELSE handlers[h].system, "atlas")
    /\ UNCHANGED <<caches, chatFiles, history, chatTime, started>>

\* brainstormer and planner only, when the vault has a summary
AtlasInjected(h) ==
    /\ At(h, "params", "atlas")
    /\ \E found \in BOOLEAN :
         Builds(h, IF found THEN Before("atlas", h) ELSE handlers[h].system,
                "context")
    /\ UNCHANGED <<caches, chatFiles, history, chatTime, started>>

ContextInjected(h) ==
    /\ At(h, "params", "context")
    /\ \E found \in BOOLEAN :
         Builds(h, IF found THEN After("context", h) ELSE handlers[h].system,
                "status")
    /\ UNCHANGED <<caches, chatFiles, history, chatTime, started>>

Fills(s) == ratios[s] >= WarnAt
StatusInjected(h) ==
    /\ At(h, "params", "status")
    /\ Builds(h, IF Fills(handlers[h].session) THEN After("status", h)
                 ELSE handlers[h].system, "built")
    /\ UNCHANGED <<caches, chatFiles, history, chatTime, started>>

ParamsReturn(h) ==
    /\ At(h, "params", "built") /\ Returns(h)
    /\ UNCHANGED <<caches, chatFiles, history, chatTime, started>>

(***************************************************************************)
(* Tool calls: a search waits for the token usage of its session before it *)
(* is truncated; a read, write or edit is recorded after the hooks that    *)
(* read files.                                                             *)
(***************************************************************************)
ToolReturns(h, s, kind) ==
    /\ s \notin gone /\ Starts(h, kind, s, "running", NoReading)
    /\ UNCHANGED <<caches, chatFiles, history, chatTime>>

\* fetchTokenUsage: a failed fetch falls back to the cache
UsageRead(h, reading) ==
    usageCache' = IF reading = NoReading THEN usageCache
                  ELSE [usageCache EXCEPT ![handlers[h].session] = reading]

SearchTruncated(h, reading) ==
    /\ At(h, "search", "running") /\ UsageRead(h, reading) /\ Returns(h)
    /\ UNCHANGED <<thinkMode, ratios, warnedAt, fileOps, chatFiles, history,
                   chatTime, started>>

FileOpTracked(h, op) ==
    /\ At(h, "file", "running") /\ Returns(h)
    /\ fileOps' = [fileOps EXCEPT ![handlers[h].session] = @ \cup {op}]
    /\ UNCHANGED <<thinkMode, usageCache, ratios, warnedAt, chatFiles, history,
                   chatTime, started>>

\* experimental.session.compacting lists the operations and keeps them
CompactingClears(s) ==
    /\ s \notin gone
    /\ summarised' = [summarised EXCEPT ![s] = fileOps[s]]
    /\ fileOps' = [fileOps EXCEPT ![s] = {}]
    /\ UNCHANGED <<thinkMode, usageCache, ratios, warnedAt, chatFiles, handlers,
                   gone, late, toastTimes, chatTime, started>>
Compacting(s) ==
    /\ s \notin gone
    /\ summarised' = [summarised EXCEPT ![s] = fileOps[s]]
    /\ UNCHANGED <<caches, chatFiles, handlers, gone, late, toastTimes,
                   chatTime, started>>

(***************************************************************************)
(* event: message.updated.  The truncation hook fetches the usage, then    *)
(* the monitor records the ratio the message carries.                      *)
(***************************************************************************)
MessageUpdated(h, s, reading) ==
    /\ s \notin gone /\ Starts(h, "updated", s, "usage", reading)
    /\ UNCHANGED <<caches, chatFiles, history, chatTime>>

UsageFetched(h, reading) ==
    /\ At(h, "updated", "usage") /\ UsageRead(h, reading)
    /\ GoTo(h, "monitor")
    /\ UNCHANGED <<thinkMode, ratios, warnedAt, fileOps, chatFiles, history,
                   chatTime, started>>

Cooled(s) == warnedAt[s] = 0 \/ chatTime - warnedAt[s] > Cooldown

Warns(h) == /\ handlers[h].reading >= WarnAt
            /\ Cooled(handlers[h].session)

\* a monitor that forgets the warning while the toast is on its way
RatioSeenUnmarked(h) ==
    LET s == handlers[h].session IN
    /\ At(h, "updated", "monitor")
    /\ ratios' = [ratios EXCEPT ![s] = handlers[h].reading]
    /\ toastTimes' = IF Warns(h)
                     THEN [toastTimes EXCEPT ![s] = Append(@, chatTime)]
                     ELSE toastTimes
    /\ Returns(h)
    /\ UNCHANGED <<thinkMode, usageCache, chatFiles, warnedAt, fileOps,
                   summarised, gone, late, chatTime, started>>
RatioSeen(h) ==
    LET s == handlers[h].session IN
    /\ At(h, "updated", "monitor")
    /\ ratios' = [ratios EXCEPT ![s] = handlers[h].reading]
    /\ warnedAt' = IF Warns(h) THEN [warnedAt EXCEPT ![s] = chatTime]
                   ELSE warnedAt
    /\ toastTimes' = IF Warns(h)
                     THEN [toastTimes EXCEPT ![s] = Append(@, chatTime)]
                     ELSE toastTimes
    /\ Returns(h)
    /\ UNCHANGED <<thinkMode, usageCache, fileOps, chatFiles, summarised, gone,
                   late, chatTime, started>>

(***************************************************************************)
(* event: session.deleted.  cleanupDeletedSession comes first and awaits   *)
(* the end of the octto sessions; then the hooks forget the session.       *)
(***************************************************************************)
SessionDeleted(h, s) ==
    /\ s \notin gone /\ Starts(h, "deleted", s, "cleanup", NoReading)
    /\ gone' = gone \cup {s}
    /\ late' = IF HandlersUnderWay(s) THEN late \cup {s} ELSE late
    /\ thinkMode' = thinkMode \ {s}
    /\ UNCHANGED <<usageCache, ratios, warnedAt, fileOps, chatFiles, summarised,
                   toastTimes, chatTime>>

\* a cleanup that misses the caches of one hook
ChatForgottenPartly(h) ==
    LET s == handlers[h].session IN
    /\ At(h, "deleted", "cleanup") /\ Returns(h)
    /\ usageCache' = [usageCache EXCEPT ![s] = NoReading]
    /\ ratios' = [ratios EXCEPT ![s] = NoReading]
    /\ fileOps' = [fileOps EXCEPT ![s] = {}]
    /\ toastTimes' = [toastTimes EXCEPT ![s] = <<>>]
    /\ UNCHANGED <<thinkMode, warnedAt, chatFiles, summarised, gone, late,
                   chatTime, started>>
ChatForgotten(h) ==
    LET s == handlers[h].session IN
    /\ At(h, "deleted", "cleanup") /\ Returns(h)
    /\ usageCache' = [usageCache EXCEPT ![s] = NoReading]
    /\ ratios' = [ratios EXCEPT ![s] = NoReading]
    /\ warnedAt' = [warnedAt EXCEPT ![s] = 0]
    /\ fileOps' = [fileOps EXCEPT ![s] = {}]
    /\ toastTimes' = [toastTimes EXCEPT ![s] = <<>>]
    /\ UNCHANGED <<thinkMode, chatFiles, summarised, gone, late, chatTime,
                   started>>

\* the user edits the fragments, an agent writes or removes a ledger
FilesChange ==
    /\ fragmentFile' \in {"none", "some"} /\ ledgers' \in BOOLEAN
    /\ <<fragmentFile', ledgers'>> # <<fragmentFile, ledgers>>
    /\ UNCHANGED <<caches, fragmentCache, history, handlers, chatTime,
                   started>>

ChatTick == /\ chatTime < MaxChatTime /\ chatTime' = chatTime + 1
            /\ UNCHANGED <<caches, chatFiles, history, handlers, started>>

ChatNext ==
    \/ \E s \in ChatSessions, thinks \in BOOLEAN : MessageArrives(s, thinks)
    \/ \E s \in ChatSessions : Compacting(s)
    \/ \E h \in Handlers, s \in ChatSessions :
         \/ ParamsAsked(h, s)
         \/ ToolReturns(h, s, "search")
         \/ ToolReturns(h, s, "file")
         \/ \E r \in 1..MaxRatio : MessageUpdated(h, s, r)
         \/ SessionDeleted(h, s)
    \/ \E h \in Handlers :
         \/ FragmentsInjected(h)
         \/ LedgerInjected(h)
         \/ AtlasInjected(h)
         \/ ContextInjected(h)
         \/ StatusInjected(h)
         \/ ParamsReturn(h)
         \/ \E r \in 0..MaxRatio : SearchTruncated(h, r)
         \/ \E r \in 0..MaxRatio : UsageFetched(h, r)
         \/ \E op \in Ops : FileOpTracked(h, op)
         \/ RatioSeen(h)
         \/ ChatForgotten(h)
    \/ FilesChange
    \/ ChatTick

ChatSpec == ChatInit /\ [][ChatNext]_chatVars

HandlerKinds == {"none", "params", "search", "file", "updated", "deleted"}
HandlerStages == {"end", "fragments", "ledger", "atlas", "context", "status", "built",
           "running", "usage", "monitor", "cleanup"}

ChatTypeOK ==
    /\ thinkMode \in SUBSET ChatSessions
    /\ usageCache \in [ChatSessions -> 0..MaxRatio]
    /\ ratios \in [ChatSessions -> 0..MaxRatio]
    /\ warnedAt \in [ChatSessions -> 0..MaxChatTime]
    /\ fileOps \in [ChatSessions -> SUBSET Ops]
    /\ summarised \in [ChatSessions -> SUBSET Ops]
    /\ fragmentCache \in {"unread", "none", "some"}
    /\ fragmentFile \in {"none", "some"} /\ ledgers \in BOOLEAN
    /\ handlers \in [Handlers ->
          [kind : HandlerKinds, session : ChatSessions \cup {AnySession}, at : HandlerStages,
           reading : 0..MaxRatio, system : Seq(Blocks)]]
    /\ \A h \in Handlers : IF handlers[h].kind = "none"
                           THEN handlers[h] = HandlerIdle
                           ELSE handlers[h].session \in ChatSessions
    /\ toastTimes \in [ChatSessions -> Seq(1..MaxChatTime)]
    /\ chatTime \in 1..MaxChatTime /\ started \in 0..MaxHandlers
    /\ gone \subseteq ChatSessions /\ late \subseteq ChatSessions

\* Once the deletion of a session has been handled nothing is kept about it,
\* unless a handler of that session was under way when the deletion came:
\* that one may still write its usage, its ratio or its file operation.
ForgottenUnlessLate ==
    \A s \in gone \ late :
        ~HandlersUnderWay(s) => /\ s \notin thinkMode
                        /\ usageCache[s] = NoReading
                        /\ ratios[s] = NoReading
                        /\ warnedAt[s] = 0
                        /\ fileOps[s] = {}

\* Two warnings of one session are more than the cooldown apart, however the
\* handlers of its messages interleave.
ToastsAreApart ==
    \A s \in ChatSessions : \A i \in 1..(Len(toastTimes[s]) - 1) :
        toastTimes[s][i + 1] - toastTimes[s][i] > Cooldown

\* A compaction forgets no file operation: what one summary listed, the next
\* one lists again, as long as the session lives.
SummariesAreKept ==
    \A s \in ChatSessions \ gone : summarised[s] \subseteq fileOps[s]

\* A handler under way is of a living session, or a late one, or the one that
\* forgets the session, which is alone.
HandlersOfTheGone ==
    /\ \A s \in gone : s \notin thinkMode
    /\ \A h \in Handlers : handlers[h].kind = "deleted" => handlers[h].session \in gone
    /\ \A h \in Handlers : handlers[h] # HandlerIdle /\ handlers[h].session \in gone \ late
           => handlers[h].kind = "deleted"

\* The monitor remembers the toast it showed last.
LastToastIsRemembered ==
    \A s \in ChatSessions :
        warnedAt[s] = IF toastTimes[s] = <<>> THEN 0
                      ELSE toastTimes[s][Len(toastTimes[s])]

ChatInv == /\ ChatTypeOK /\ ForgottenUnlessLate /\ ToastsAreApart
           /\ SummariesAreKept /\ HandlersOfTheGone /\ LastToastIsRemembered
=============================================================================
