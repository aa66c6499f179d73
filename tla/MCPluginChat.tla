---------------------------- MODULE MCPluginChat ----------------------------
(***************************************************************************)
(* The parts of the plugin that follow a conversation: hooks with state of *)
(* their own, the pipeline of chat hooks, the skill autopilot, notices and *)
(* terminals.  They share no state, so each is checked alone: a behaviour  *)
(* is one of the part it starts with, while the others stay as they began. *)
(***************************************************************************)
EXTENDS ConversationTitle, FetchTracker, ConstraintReview, PromptInjection,
        ChatPipeline, SkillAutopilot, Notifier, Terminals

VARIABLE part   \* the part this behaviour is about

pluginVars == <<part, titleVars, fetchVars, reviewVars, injectionVars,
                chatVars, skillVars, noticeVars, terminalVars>>

\* Where nothing happens to a part it need not begin in more than one state.
OneOwner ==
    LET owner == CHOOSE o \in TerminalOwners : TRUE
    IN  terminal = [t \in Terminals |-> Unborn(owner)]

PluginInit ==
    /\ part \in {"title", "fetch", "review", "injection", "chat", "skill",
                 "notice", "terminal"}
    /\ TitleInit /\ FetchInit /\ ReviewInit /\ InjectionInit
    /\ ChatInit /\ NoticeInit
    /\ SkillInit /\ (part # "skill" => counts = NoCounts)
    /\ TerminalInit /\ (part # "terminal" => OneOwner)

PluginNext ==
    /\ UNCHANGED part
    /\ \/ /\ part = "title" /\ TitleNext
          /\ UNCHANGED <<fetchVars, reviewVars, injectionVars, chatVars,
                         skillVars, noticeVars, terminalVars>>
       \/ /\ part = "fetch" /\ FetchNext
          /\ UNCHANGED <<titleVars, reviewVars, injectionVars, chatVars,
                         skillVars, noticeVars, terminalVars>>
       \/ /\ part = "review" /\ ReviewNext
          /\ UNCHANGED <<titleVars, fetchVars, injectionVars, chatVars,
                         skillVars, noticeVars, terminalVars>>
       \/ /\ part = "injection" /\ InjectionNext
          /\ UNCHANGED <<titleVars, fetchVars, reviewVars, chatVars,
                         skillVars, noticeVars, terminalVars>>
       \/ /\ part = "chat" /\ ChatNext
          /\ UNCHANGED <<titleVars, fetchVars, reviewVars, injectionVars,
                         skillVars, noticeVars, terminalVars>>
       \/ /\ part = "skill" /\ SkillNext
          /\ UNCHANGED <<titleVars, fetchVars, reviewVars, injectionVars,
                         chatVars, noticeVars, terminalVars>>
       \/ /\ part = "notice" /\ NoticeNext
          /\ UNCHANGED <<titleVars, fetchVars, reviewVars, injectionVars,
                         chatVars, skillVars, terminalVars>>
       \/ /\ part = "terminal" /\ TerminalNext
          /\ UNCHANGED <<titleVars, fetchVars, reviewVars, injectionVars,
                         chatVars, skillVars, noticeVars>>

PluginSpec == PluginInit /\ [][PluginNext]_pluginVars

(***************************************************************************)
(* What the hooks of src/hooks and src/index.ts that keep state promise:   *)
(* the title takes only the user's edits for edits, a refused resource was *)
(* shown, a constraint review is raised in time and an override used once, *)
(* a prompt gets its own injections, and the caches of the chat pipeline   *)
(* forget a deleted session and warn once in a cooldown.                   *)
(***************************************************************************)
HooksInv ==
    /\ part = "title" => TitleInv
    /\ part = "fetch" => FetchInv
    /\ part = "review" => ReviewInv
    /\ part = "injection" => InjectionInv
    /\ part = "chat" => ChatInv

(***************************************************************************)
(* What the services of src/skill-autopilot, src/notifications and         *)
(* src/tools/pty promise: a skill rests on evidence of several issues and  *)
(* has one writer, no notice is sent twice within its time, and a terminal *)
(* belongs to an agent that lives and shows what was printed, in order.    *)
(***************************************************************************)
ServicesInv ==
    /\ part = "skill" => SkillInv
    /\ part = "notice" => NoticeInv
    /\ part = "terminal" => TerminalInv

(***************************************************************************)
(* What the user wrote stays: the title the user gave a conversation and   *)
(* the skill files of the user are not written over.                       *)
(***************************************************************************)
UserTextsKept == UserTitleKept /\ SkillTextKept
=============================================================================
