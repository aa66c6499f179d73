---------------------------- MODULE IssueResolver ----------------------------
(***************************************************************************)
(* Which issue a lifecycle tool means when its caller names none:          *)
(* resolver.current (lifecycle/resolver.ts), used by lifecycle_current,    *)
(* lifecycle_log_progress, lifecycle_context and lifecycle_finish.  The    *)
(* branch that is checked out names the issue; failing that, the only open *)
(* record that is not stale does.  The issues, their branches, worktrees   *)
(* and records change while the files and git are read one after another.  *)
(* What those changes are is the subject of Lifecycle.                     *)
(***************************************************************************)
EXTENDS Naturals

CONSTANTS
    Issues,        \* issue numbers
    ResolverCalls, \* the calls
    Main,          \* the base branch
    MaxRestores    \* bound: records rebuilt from the issue
ASSUME ResolverAssumption ==
    Issues \subseteq Nat \ {0} /\ Main \notin Issues /\ MaxRestores \in Nat

VARIABLES
    issues,    \* each issue: record, branch and worktree
    head,      \* the branch checked out in the plugin's directory
    restores,  \* records rebuilt so far
    lookups,     \* the calls
    comments,  \* progress comments on each issue, on GitHub
    through    \* history: the issues live since each call began

resolverVars == <<issues, head, restores, lookups, comments, through>>

Heads == Issues \union {Main}
Unborn == [born |-> FALSE, file |-> "none", names |-> Main,
           branch |-> FALSE, tree |-> FALSE, landed |-> FALSE]
Records == [of : Issues, names : Heads, state : {"open", "closed"}]
NoLookup == [step |-> "idle", target |-> 0, files |-> {}, open |-> {}, loaded |-> {},
             stage |-> [r \in Records |-> 1], stale |-> {}, failed |-> FALSE, told |-> 0]

ResolverInit ==
    /\ issues = [n \in Issues |-> Unborn]
    /\ head = Main /\ restores = 0
    /\ lookups = [c \in ResolverCalls |-> NoLookup]
    /\ comments = [n \in Issues |-> 0]
    /\ through = [c \in ResolverCalls |-> {}]

BranchExists(b) == IF b = Main THEN TRUE ELSE issues[b].branch
(* A record rebuilt without its worktree names the directory it was        *)
(* rebuilt in, which is always there.                                      *)
TreeThere(n, names) == names # n \/ issues[n].tree
(* Whether HEAD has the branch; an issue's branch is cut from main.        *)
HeadHas(b) ==
    BranchExists(b) /\ (b \in {Main, head} \/ (head = Main /\ issues[b].landed))

Live == {n \in Issues : /\ issues[n].file = "open" /\ issues[n].names = n
                        /\ issues[n].branch /\ issues[n].tree
                        /\ ~ issues[n].landed}

(***************************************************************************)
(* The issues go on: started (or aborted), merged, cleaned up, closed; a   *)
(* record is lost with its clone and rebuilt by lifecycle_resume, under    *)
(* its own branch if its worktree is registered, else under the branch     *)
(* checked out here.  Git lets no two worktrees hold one branch.           *)
(***************************************************************************)
Becomes(n, i) ==
    issues' = [issues EXCEPT ![n] = i] /\ UNCHANGED <<head, restores>>

IssueStarts(n) ==
    /\ ~ issues[n].born
    /\ \/ Becomes(n, [born |-> TRUE, file |-> "open", names |-> n,
                      branch |-> TRUE, tree |-> TRUE, landed |-> FALSE])
       \/ Becomes(n, [Unborn EXCEPT !.born = TRUE, !.file = "closed"])

IssueGoesOn(n) ==
    LET i == issues[n]
    IN  \/ i.branch /\ ~ i.landed /\ Becomes(n, [i EXCEPT !.landed = TRUE])
        \/ i.landed /\ i.tree /\ Becomes(n, [i EXCEPT !.tree = FALSE])
        \/ /\ i.landed /\ ~ i.tree /\ i.branch /\ head # n
           /\ Becomes(n, [i EXCEPT !.branch = FALSE])
        \/ /\ i.landed /\ i.file = "open"
           /\ Becomes(n, [i EXCEPT !.file = "closed"])
        \/ i.file # "none" /\ Becomes(n, [i EXCEPT !.file = "none"])

RecordRestored(n) ==
    /\ issues[n].born /\ issues[n].file = "none" /\ restores < MaxRestores
    /\ issues' = [issues EXCEPT ![n].file = "open",
                    ![n].names = IF issues[n].tree THEN n ELSE head]
    /\ restores' = restores + 1 /\ UNCHANGED head

HeadMoves(b) ==
    /\ b # head /\ (b # Main => issues[b].branch /\ ~ issues[b].tree)
    /\ head' = b /\ UNCHANGED <<issues, restores>>

(***************************************************************************)
(* A call that names its issue uses it.  One that does not reads HEAD, and *)
(* the record of the issue HEAD names.                                     *)
(***************************************************************************)
Goes(c, r) == lookups' = [lookups EXCEPT ![c] = r] /\ UNCHANGED comments

CallStarts(c, given) ==
    /\ lookups[c].step = "idle" /\ (given # 0 => issues[given].born)
    /\ Goes(c, [NoLookup EXCEPT !.target = given,
                  !.step = IF given = 0 THEN "branch" ELSE "given"])

BranchRead(c) ==
    /\ lookups[c].step = "branch"
    /\ IF head \in Issues
       THEN Goes(c, [lookups[c] EXCEPT !.step = "own", !.target = head])
       ELSE Goes(c, [lookups[c] EXCEPT !.step = "listing"])

BranchUnreadable(c) ==
    /\ lookups[c].step = "branch"
    /\ Goes(c, [lookups[c] EXCEPT !.step = "listing", !.failed = TRUE])

OwnLoaded(c) ==
    /\ lookups[c].step = "own"
    /\ IF issues[lookups[c].target].file # "none"
       THEN Goes(c, [lookups[c] EXCEPT !.step = "own resolved"])
       ELSE Goes(c, [lookups[c] EXCEPT !.step = "listing", !.target = 0])

(***************************************************************************)
(* The directory is listed at once, the files are read one by one; those   *)
(* of issues that are open are loaded once more, one by one.               *)
(***************************************************************************)
IsNext(n, files) == n \in files /\ \A m \in files : n <= m
Closed(state) == state = "closed"

ListingStarts(c) ==
    /\ lookups[c].step = "listing"
    /\ Goes(c, [lookups[c] EXCEPT !.step = "filtering",
                  !.files = {n \in Issues : issues[n].file # "none"}])

FileFiltered(c, n) ==
    /\ lookups[c].step = "filtering" /\ IsNext(n, lookups[c].files)
    /\ Goes(c, [lookups[c] EXCEPT !.files = @ \ {n},
                  !.open = @ \union {m \in {n} : issues[m].file = "open"}])

LoadingStarts(c) ==
    /\ lookups[c].step = "filtering" /\ lookups[c].files = {}
    /\ Goes(c, [lookups[c] EXCEPT !.step = "loading", !.files = lookups[c].open])

RecordOf(n) == [of |-> n, names |-> issues[n].names, state |-> issues[n].file]

RecordLoaded(c, n) ==
    /\ lookups[c].step = "loading" /\ IsNext(n, lookups[c].files)
    /\ Goes(c, [lookups[c] EXCEPT !.files = @ \ {n}, !.loaded = @ \union
                  {RecordOf(m) : m \in {m \in {n} : issues[m].file # "none"}}])

ProbingStarts(c) ==
    /\ lookups[c].step = "loading" /\ lookups[c].files = {}
    /\ IF lookups[c].loaded = {}
       THEN Goes(c, [lookups[c] EXCEPT !.step = "none"])
       ELSE Goes(c, [lookups[c] EXCEPT !.step = "probing",
              !.stale = {r \in lookups[c].loaded : Closed(r.state)}])

(***************************************************************************)
(* Every record is probed on its own: its branch, its worktree, and        *)
(* whether HEAD has the branch.  Git failing says no to the first and the  *)
(* last, and yes to the second.                                            *)
(***************************************************************************)
Answer(r, stage) ==
    CASE stage = 1 -> BranchExists(r.names)
      [] stage = 2 -> TreeThere(r.of, r.names)
      [] stage = 3 -> ~ HeadHas(r.names)

Probe(c, r) ==
    /\ lookups[c].step = "probing" /\ lookups[c].stage[r] <= 3
    /\ Goes(c, [lookups[c] EXCEPT !.stage[r] = @ + 1,
              !.stale = IF Answer(r, lookups[c].stage[r]) THEN @
                        ELSE @ \union {r}])

ProbeFails(c, r) ==
    /\ lookups[c].step = "probing" /\ lookups[c].stage[r] <= 3
    /\ Goes(c, [lookups[c] EXCEPT !.stage[r] = @ + 1, !.failed = TRUE,
              !.stale = IF lookups[c].stage[r] # 1 THEN @
                        ELSE @ \union {r}])

Probed(c) ==
    lookups[c].step = "probing" /\ \A r \in lookups[c].loaded :
                                    lookups[c].stage[r] > 3
Fresh(c) == lookups[c].loaded \ lookups[c].stale

\* Mutant: the first record that is not stale is taken.
ResolvesFirst(c) ==
    /\ Probed(c)
    /\ \/ \E r \in Fresh(c) :
             Goes(c, [lookups[c] EXCEPT !.step = "resolved", !.target = r.of])
       \/ Fresh(c) = {} /\ Goes(c, [lookups[c] EXCEPT !.step = "ambiguous"])

Resolves(c) ==
    /\ Probed(c)
    /\ \/ \E r \in Fresh(c) : Fresh(c) = {r} /\
             Goes(c, [lookups[c] EXCEPT !.step = "resolved", !.target = r.of])
       \/ /\ \A r \in Fresh(c) : Fresh(c) # {r}
          /\ Goes(c, [lookups[c] EXCEPT !.step = "ambiguous"])

(***************************************************************************)
(* What is done with the issue: a comment is posted (or gh fails), the     *)
(* last comments are read, or the number is handed on.                     *)
(***************************************************************************)
Recent(n) == IF comments[n] > 10 THEN 10 ELSE comments[n]

ProgressLogged(c) ==
    /\ lookups[c].step \in {"given", "own resolved", "resolved"}
    /\ lookups' = [lookups EXCEPT ![c].step = "done"]
    /\ \/ comments' = [comments EXCEPT ![lookups[c].target] = @ + 1]
       \/ comments' = comments

ContextRead(c) ==
    /\ lookups[c].step \in {"given", "own resolved", "resolved"}
    /\ Goes(c, [lookups[c] EXCEPT !.step = "done",
                  !.told = Recent(lookups[c].target)])

CallRefused(c) ==
    /\ lookups[c].step \in {"none", "ambiguous"}
    /\ Goes(c, [lookups[c] EXCEPT !.step = "done"])

WorldStep ==
    /\ \/ \E n \in Issues :
            IssueStarts(n) \/ IssueGoesOn(n) \/ RecordRestored(n)
       \/ \E b \in Heads : HeadMoves(b)
    /\ UNCHANGED <<lookups, comments>>

CallStep(c) ==
    /\ \/ \E given \in Issues \union {0} : CallStarts(c, given)
       \/ BranchRead(c) \/ BranchUnreadable(c) \/ OwnLoaded(c)
       \/ ListingStarts(c) \/ LoadingStarts(c) \/ ProbingStarts(c)
       \/ \E n \in lookups[c].files : FileFiltered(c, n) \/ RecordLoaded(c, n)
       \/ \E r \in lookups[c].loaded : Probe(c, r) \/ ProbeFails(c, r)
       \/ Resolves(c) \/ ProgressLogged(c) \/ ContextRead(c) \/ CallRefused(c)
    /\ UNCHANGED <<issues, head, restores>>

ResolverNext ==
    /\ WorldStep \/ \E c \in ResolverCalls : CallStep(c)
    /\ through' = [c \in ResolverCalls |->
                     IF lookups[c].step = "idle" THEN Live'
                     ELSE through[c] \intersect Live']

ResolverSpec == ResolverInit /\ [][ResolverNext]_resolverVars
-----------------------------------------------------------------------------
(* A call that settles on the one open record never picks between two      *)
(* issues that were both being worked on from its start to its end,        *)
(* whatever started, landed or was cleaned up meanwhile; only git failing  *)
(* during the probes can mislead it (resolver.ts:188-250).  So progress    *)
(* is not written to, and finish does not merge, another conversation's    *)
(* issue.                                                                  *)
OneIssueResolved ==
    \A c \in ResolverCalls :
        (lookups[c].step = "resolved" /\ ~ lookups[c].failed) =>
            through[c] \subseteq {lookups[c].target}

(* An issue that is being worked on all the while is never overlooked: a   *)
(* call is not told that there is none (resolver.ts:210-250,               *)
(* store.ts:120-145).                                                      *)
NoneMeansNone ==
    \A c \in ResolverCalls :
        (lookups[c].step = "none" /\ ~ lookups[c].failed) => through[c] = {}

IssueStates == [born : BOOLEAN, file : {"none", "open", "closed"}, names : Heads,
                branch : BOOLEAN, tree : BOOLEAN, landed : BOOLEAN]
LookupSteps == {"idle", "given", "branch", "own", "own resolved", "listing", "filtering",
                "loading", "probing", "resolved", "ambiguous", "none", "done"}
Lookups == [step : LookupSteps, target : Issues \union {0}, files : SUBSET Issues,
            open : SUBSET Issues, loaded : SUBSET Records, stage : [Records -> 1..4],
            stale : SUBSET Records, failed : BOOLEAN, told : 0..10]

ResolverTypeOK ==
    /\ issues \in [Issues -> IssueStates] /\ head \in Heads
    /\ \A n \in Issues : issues[n].born \/ issues[n] = Unborn
    /\ restores \in 0..MaxRestores
    /\ lookups \in [ResolverCalls -> Lookups]
    /\ \A c \in ResolverCalls :
         lookups[c].step \in {"own", "given", "own resolved", "resolved"} =>
            lookups[c].target \in Issues
    /\ comments \in [Issues -> Nat]

(* The branch checked out here is one that no worktree of its issue holds. *)
HeadIsFree == head # Main => issues[head].born /\ ~ issues[head].tree

(* An issue worked on all the while is still to be read, or was read as it *)
(* is, and no probe has found it stale.                                    *)
Sees(lookup, working) ==
    /\ lookup.step = "filtering" => working \subseteq lookup.files \union lookup.open
    /\ lookup.step = "loading" =>
         \A n \in working \ lookup.files : RecordOf(n) \in lookup.loaded
    /\ lookup.step = "probing" /\ ~ lookup.failed =>
         \A n \in working : RecordOf(n) \in lookup.loaded \ lookup.stale

WorkIsSeen ==
    \A c \in ResolverCalls :
        through[c] \subseteq Live /\ Sees(lookups[c], through[c])

ResolverInv == /\ ResolverTypeOK /\ HeadIsFree /\ WorkIsSeen
               /\ OneIssueResolved /\ NoneMeansNone
=============================================================================
