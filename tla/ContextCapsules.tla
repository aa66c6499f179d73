-------------------------- MODULE ContextCapsules ---------------------------
(***************************************************************************)
(* Context capsules: immutable notes one agent leaves for the next         *)
(* (agents/context-capsule, tools/context-capsule).  A build writes a file *)
(* named after the state of the checkout; a find looks for the newest file *)
(* of the same issue or conversation and says how stale it is.  The        *)
(* checkout changes while both run.                                        *)
(***************************************************************************)
EXTENDS Naturals

CONSTANTS
    Branches, Anchors,   \* git branches; conversations
    CapsuleIssues,       \* lifecycle issues
    NoIssue,
    Facts, SecretFacts,  \* confirmed facts, those that look like a secret
    CapsuleCalls,        \* tool calls that may be under way at once
    MaxHeads,            \* bound on commits
    MaxSourceTexts,      \* bound on edits of the source file
    MaxBuilds            \* bound on builds

ASSUME CapsuleAssumption ==
    /\ SecretFacts \subseteq Facts /\ NoIssue \notin CapsuleIssues
    /\ Branches # {} /\ MaxBuilds \in Nat
    /\ {MaxHeads, MaxSourceTexts} \subseteq Nat \ {0}

Checkouts == [branch : Branches, head : 1..MaxHeads]
Waiting == [kind |-> "none"]

VARIABLES
    checkout,   \* branch and head of the worktree
    source,     \* version of the source file in the worktree
    capsules,   \* the files in thoughts/shared/context-capsules
    calls,      \* the tool calls under way
    reported,   \* [token, topic]: what builds said they built
    verdicts,   \* what the last finds said: [calm, status, capsule, ...]
    builds

capsuleVars == <<checkout, source, capsules, calls, reported, verdicts,
                 builds>>

CapsuleInit ==
    /\ checkout = [branch |-> CHOOSE b \in Branches : TRUE, head |-> 1]
    /\ source = 1 /\ capsules = {}
    /\ calls = [c \in CapsuleCalls |-> Waiting]
    /\ reported = {} /\ verdicts = {} /\ builds = 0

(***************************************************************************)
(* The checkout moves: an edit, a commit or a switch to another branch.    *)
(* A call under way is no longer calm.                                     *)
(***************************************************************************)
Disturbed == [c \in CapsuleCalls |->
    IF calls[c] = Waiting THEN Waiting ELSE [calls[c] EXCEPT !.calm = FALSE]]

SourceEdited ==
    /\ source < MaxSourceTexts /\ source' = source + 1
    /\ calls' = Disturbed
    /\ UNCHANGED <<checkout, capsules, reported, verdicts, builds>>

CheckoutMoves ==
    /\ \/ /\ checkout.head < MaxHeads
          /\ checkout' = [checkout EXCEPT !.head = @ + 1]
       \/ \E b \in Branches \ {checkout.branch} :
             checkout' = [checkout EXCEPT !.branch = b]
    /\ calls' = Disturbed
    /\ UNCHANGED <<source, capsules, reported, verdicts, builds>>

(***************************************************************************)
(* build_context_capsule.  The agent passes what it read of the source;    *)
(* git is asked first, then the file is written without waiting.           *)
(***************************************************************************)
BuildAsked(c, anchor, issue, facts) ==
    /\ calls[c] = Waiting /\ builds < MaxBuilds /\ builds' = builds + 1
    /\ \E seen \in 1..source :
         calls' = [calls EXCEPT ![c] =
            [kind |-> "build", anchor |-> anchor, issue |-> issue,
             facts |-> facts, seen |-> seen, git |-> checkout,
             calm |-> TRUE]]
    /\ UNCHANGED <<checkout, source, capsules, reported, verdicts>>

\* a name made of the issue alone
TokenOfTopic(k) == [issue |-> k.issue, anchor |-> NoIssue,
                    git |-> [branch |-> NoIssue, head |-> 0], seen |-> 0]
\* createCapsuleToken: what the name of the file depends on; the facts are
\* not part of it
Token(k) == [issue |-> k.issue, anchor |-> k.anchor, git |-> k.git,
             seen |-> k.seen]

Capsule(c) == [token |-> Token(calls[c]), issue |-> calls[c].issue,
               anchor |-> calls[c].anchor, git |-> calls[c].git,
               seen |-> calls[c].seen, facts |-> calls[c].facts,
               created |-> builds]
Exists(token) == \E k \in capsules : k.token = token
UncheckedSafe(c) == TRUE
IsSafe(c) == calls[c].facts \cap SecretFacts = {}

\* writeImmutableFile leaves a file that exists alone
Built(c) ==
    /\ calls[c].kind = "build" /\ IsSafe(c)
    /\ capsules' = IF Exists(Token(calls[c])) THEN capsules
                   ELSE capsules \cup {Capsule(c)}
    /\ reported' = reported \cup {[token |-> Token(calls[c]),
                                   seen |-> calls[c].seen,
                                   git |-> calls[c].git]}
    /\ calls' = [calls EXCEPT ![c] = Waiting]
    /\ UNCHANGED <<checkout, source, verdicts, builds>>

BuildBlocked(c) ==
    /\ calls[c].kind = "build" /\ ~IsSafe(c)
    /\ calls' = [calls EXCEPT ![c] = Waiting]
    /\ UNCHANGED <<checkout, source, capsules, reported, verdicts, builds>>

(***************************************************************************)
(* find_reusable_context_capsule                                           *)
(***************************************************************************)
FindAsked(c, anchor, issue) ==
    /\ calls[c] = Waiting
    /\ calls' = [calls EXCEPT ![c] =
          [kind |-> "find", anchor |-> anchor, issue |-> issue,
           git |-> checkout, calm |-> TRUE]]
    /\ UNCHANGED <<checkout, source, capsules, reported, verdicts, builds>>

\* files of the same moment come in the order of their names, which say nothing
Newest(ks) == {k \in ks : \A l \in ks : l.created <= k.created}
OfIssue(f) == {k \in capsules : f.issue # NoIssue /\ k.issue = f.issue
                                /\ k.git.branch = f.git.branch}
OfConversation(f) == {k \in capsules : k.anchor = f.anchor
                                       /\ k.git.branch = f.git.branch}
Reusable(f) == IF OfIssue(f) # {} THEN OfIssue(f) ELSE OfConversation(f)

Picked(c) ==
    /\ calls[c].kind = "find"
    /\ \/ /\ Reusable(calls[c]) = {}
          /\ calls' = [calls EXCEPT ![c] = Waiting]
       \/ \E k \in Newest(Reusable(calls[c])) :
             calls' = [calls EXCEPT ![c] =
                [kind |-> "judge", found |-> k,
                 anchor |-> calls[c].anchor, issue |-> calls[c].issue,
                 git |-> calls[c].git, calm |-> calls[c].calm]]
    /\ UNCHANGED <<checkout, source, capsules, reported, verdicts, builds>>

\* evaluateContextCapsuleFreshness: first what rules the capsule out, then
\* what makes it stale.  With an issue the conversation does not matter.
Discarded(f) == \/ f.found.issue # f.issue
                \/ f.issue = NoIssue /\ f.found.anchor # f.anchor
IsStaleByHead(f) == f.found.git.head # f.git.head
Stale(f) == f.found.git.head # f.git.head \/ f.found.seen # source

Freshness(f) == IF Discarded(f) THEN "discarded"
                ELSE IF Stale(f) THEN "partially-stale" ELSE "fresh"

Judged(c) ==
    /\ calls[c].kind = "judge"
    /\ verdicts' = {[status |-> Freshness(calls[c]), calm |-> calls[c].calm,
                     capsule |-> calls[c].found, issue |-> calls[c].issue,
                     at |-> checkout, source |-> source]}
    /\ calls' = [calls EXCEPT ![c] = Waiting]
    /\ UNCHANGED <<checkout, source, capsules, reported, builds>>

CapsuleNext ==
    \/ SourceEdited
    \/ CheckoutMoves
    \/ \E c \in CapsuleCalls, a \in Anchors, i \in CapsuleIssues \cup {NoIssue} :
         \/ \E facts \in {{x} : x \in Facts} : BuildAsked(c, a, i, facts)
         \/ FindAsked(c, a, i)
    \/ \E c \in CapsuleCalls :
         \/ Built(c)
         \/ BuildBlocked(c)
         \/ Picked(c)
         \/ Judged(c)

CapsuleSpec == CapsuleInit /\ [][CapsuleNext]_capsuleVars

Topics == CapsuleIssues \cup {NoIssue}
Capsules == [token : [issue : Topics, anchor : Anchors, git : Checkouts,
                      seen : 1..MaxSourceTexts],
             issue : Topics, anchor : Anchors, git : Checkouts,
             seen : 1..MaxSourceTexts, facts : SUBSET Facts, created : 1..MaxBuilds]
Builds == [kind : {"build"}, anchor : Anchors, issue : Topics, facts : SUBSET Facts,
           seen : 1..MaxSourceTexts, git : Checkouts, calm : BOOLEAN]
Finds == [kind : {"find"}, anchor : Anchors, issue : Topics, git : Checkouts,
          calm : BOOLEAN]
Judgements == [kind : {"judge"}, found : Capsules, anchor : Anchors, issue : Topics,
               git : Checkouts, calm : BOOLEAN]

CapsuleTypeOK ==
    /\ checkout \in Checkouts /\ source \in 1..MaxSourceTexts
    /\ capsules \subseteq Capsules
    /\ calls \in [CapsuleCalls -> {Waiting} \cup Builds \cup Finds \cup Judgements]
    /\ builds \in 0..MaxBuilds

\* A capsule is under the name of what it holds, and a build under way was
\* counted.
NamesTell ==
    /\ \A k \in capsules : k.token = Token(k)
    /\ \A c \in CapsuleCalls : calls[c].kind = "build" => builds > 0

\* A find that was not disturbed asks about the checkout as it is; what it
\* found is of the branch it asks about.
FindsAreOfBranch ==
    \A c \in CapsuleCalls :
        /\ calls[c].kind \in {"find", "judge"} /\ calls[c].calm =>
              calls[c].git = checkout
        /\ calls[c].kind = "judge" =>
              calls[c].found.git.branch = calls[c].git.branch

\* What a build reported is on disk: a capsule of that very state of the
\* checkout and of the sources, whoever wrote it first.
ReportsAreKept ==
    \A r \in reported : \E k \in capsules :
        k.token = r.token /\ k.git = r.git /\ k.seen = r.seen

\* A find that says "fresh" and was not disturbed returns a capsule of the
\* issue asked for, taken at the head the worktree is at and with the sources
\* as they are now.
FreshIsTrue ==
    \A v \in verdicts : v.status = "fresh" /\ v.calm =>
        /\ v.capsule.git = v.at /\ v.capsule.seen = v.source
        /\ v.capsule.issue = v.issue

\* No capsule on disk holds a fact that looks like a secret, in its text or
\* in the name it was found by.
NoSecretIsKept == \A k \in capsules : k.facts \cap SecretFacts = {}

CapsuleInv == /\ CapsuleTypeOK /\ NamesTell /\ FindsAreOfBranch
              /\ ReportsAreKept /\ FreshIsTrue /\ NoSecretIsKept
=============================================================================
