----------------------------- MODULE Lifecycle -----------------------------
(* The life of ONE issue under the lifecycle tools (src/src/lifecycle).     *)
(*                                                                         *)
(* The record of the issue is a JSON file.  Every tool call loads it, does *)
(* git and gh work that takes many awaits, and saves what it computed from *)
(* the copy it loaded; then it renders the copy into the issue body.       *)
(* Nothing serialises the calls: primary, planner and executor agents of   *)
(* one OpenCode process call the tools as they like, and the process may   *)
(* die between any two steps.                                              *)
(*                                                                         *)
(* A call is a process with its own program counter.  The commits of the   *)
(* issue branch are numbered, so each ref is the number of the last commit *)
(* it contains.                                                            *)
EXTENDS Naturals, Sequences, FiniteSets

CONSTANTS Calls,       \* calls that may run at the same time
          Pointers,    \* artifact pointers that lifecycle_record_artifact adds
          MaxCommits,  \* bound on the commits of the branch
          MaxCrashes,  \* bound on crashes of the process
          NoFile,      \* there is no record file
          Torn,        \* a crash left a record file that does not parse
          Plain        \* an issue body without lifecycle markers

(* The states of a record and the steps between them                       *)

Path == << "proposed", "issue_open", "branch_ready", "in_design", "in_plan",
           "in_progress", "tested", "merging", "closed", "cleaned" >>

States == {Path[i] : i \in DOMAIN Path} \cup {"aborted"}

\* Position of a state on the path; "aborted" is off it.
Rank(s) == IF s = "aborted" THEN 0 ELSE CHOOSE i \in DOMAIN Path : Path[i] = s

\* isValidTransition: re-entry, or the one successor on the path.
ValidTransition(s, t) ==
    \/ s = t
    \/ \E i \in 1 .. Len(Path) - 1 : Path[i] = s /\ Path[i + 1] = t

\* advanceTo walks the path step by step from s to t; anything that is not
\* ahead on the path is left to transitionTo, which throws.
CanAdvance(s, t) ==
    \/ ValidTransition(s, t)
    \/ \E i, j \in DOMAIN Path : i < j /\ Path[i] = s /\ Path[j] = t
-----------------------------------------------------------------------------
Artifacts == Pointers \cup 1 .. MaxCommits

\* The fields of LifecycleRecord that the tools read; branch is "main" when
\* the identity of the issue had to fall back to the checkout of the plugin.
Records == [state : States, branch : {"issue", "main"}, artifacts : SUBSET Artifacts]
Marks   == [state : States, artifacts : SUBSET Artifacts]

ASSUME LifecycleAssumption ==
    /\ MaxCommits \in Nat
    /\ MaxCrashes \in Nat
    /\ NoFile \notin Records /\ Torn \notin Records
    /\ Plain \notin Marks

VARIABLES file,    \* thoughts/lifecycle/<N>.json
          issue,   \* the GitHub issue
          body,    \* the lifecycle markers of the issue body
          git,     \* worktree, branch and remote refs of the issue
          temp,    \* the temporary merge worktree
          calls,   \* the running tool calls
          crashes

vars == << file, issue, body, git, temp, calls, crashes >>

Blank == [state |-> "issue_open", branch |-> "issue", artifacts |-> {}]

Places == {"idle",                                          \* no call
           "tree",                                          \* start
           "commit", "push",                                \* commit
           "mark", "marked", "resolve",                     \* finish, both ways
           "temp", "merge", "push_base", "remove_temp",     \* finish, local merge
           "pr", "pr_merge",                                \* finish, pull request
           "cleanup", "delete_branch", "close",
           "save", "saved",                                 \* saveAndSync
           "restore"}                                       \* resume

CallRecords == [at : Places, rec : Records, via : {"local", "pr"}]

\* What git and the remote have of the issue.
Refs == [worktree : BOOLEAN, dirty : BOOLEAN, branch : BOOLEAN,
         made : 0 .. MaxCommits, pushed : 0 .. MaxCommits,
         merged : 0 .. MaxCommits, landed : BOOLEAN]

\* The temporary worktree and how far its merge got.
Temps == [st : {"absent", "clean", "conflict", "staged", "committed", "merged"},
          has : 0 .. MaxCommits]

Idle == [at |-> "idle", rec |-> Blank, via |-> "local"]

Init ==
    /\ file = NoFile
    /\ issue = "none"
    /\ body = Plain
    /\ git = [worktree |-> FALSE, dirty |-> FALSE, branch |-> FALSE,
              made |-> 0, pushed |-> 0, merged |-> 0, landed |-> FALSE]
    /\ temp = [st |-> "absent", has |-> 0]
    /\ calls = [c \in Calls |-> Idle]
    /\ crashes = 0

Higher(m, n) == IF m > n THEN m ELSE n

Goes(c, place) == calls' = [calls EXCEPT ![c].at = place]

\* The call goes to a place with a new copy of the record.
Carries(c, place, rec) ==
    calls' = [calls EXCEPT ![c].at = place, ![c].rec = rec]

Returns(c) == calls' = [calls EXCEPT ![c] = Idle]

\* requireRecord: an absent or unreadable record makes the call throw, which
\* changes nothing.
Loadable == file \in Records
-----------------------------------------------------------------------------
(* saveAndSync: the file is written, then the issue body is edited from the *)
(* same copy; a failing gh is not noticed.                                 *)

Save(c) ==
    /\ calls[c].at \in {"save", "mark", "restore"}
    /\ file' = calls[c].rec
    /\ CASE calls[c].at = "save"    -> Goes(c, "saved")
         [] calls[c].at = "mark"    -> Goes(c, "marked")
         [] calls[c].at = "restore" -> Returns(c)
    /\ UNCHANGED << issue, body, git, temp, crashes >>

MarksOf(rec) == [state |-> rec.state, artifacts |-> rec.artifacts]

Sync(c) ==
    /\ calls[c].at \in {"saved", "marked"}
    /\ body' \in {MarksOf(calls[c].rec), body}
    /\ IF calls[c].at = "saved" THEN Returns(c) ELSE Goes(c, "resolve")
    /\ UNCHANGED << file, issue, git, temp, crashes >>
-----------------------------------------------------------------------------
(* lifecycle_start_request                                                 *)

Start(c) ==
    /\ calls[c].at = "idle"
    /\ issue = "none"
    /\ issue' = "open"
    /\ Carries(c, "tree", Blank)
    /\ UNCHANGED << file, body, git, temp, crashes >>

StartTree(c) ==
    /\ calls[c].at = "tree"
    /\ \/ /\ git' = [git EXCEPT !.worktree = TRUE, !.branch = TRUE]
          /\ Carries(c, "save", [calls[c].rec EXCEPT !.state = "branch_ready"])
       \/ /\ git' = git
          /\ Carries(c, "save", [calls[c].rec EXCEPT !.state = "aborted"])
    /\ UNCHANGED << file, issue, body, temp, crashes >>
-----------------------------------------------------------------------------
(* lifecycle_record_artifact                                               *)

RecordArtifact(c, p) ==
    /\ calls[c].at = "idle"
    /\ Loadable
    /\ Carries(c, "save", [file EXCEPT !.artifacts = @ \cup {p}])
    /\ UNCHANGED << file, issue, body, git, temp, crashes >>
-----------------------------------------------------------------------------
(* lifecycle_commit                                                        *)

Commit(c) ==
    /\ calls[c].at = "idle"
    /\ Loadable
    /\ Carries(c, "commit", file)
    /\ UNCHANGED << file, issue, body, git, temp, crashes >>

\* Nothing to commit, a failing git, or a record whose branch is the main
\* checkout's: the issue branch keeps its commits, the record is saved anyway.
CommitNothing(c) ==
    /\ calls[c].at = "commit"
    /\ Goes(c, "save")
    /\ UNCHANGED << file, issue, body, git, temp, crashes >>

\* Mutant: the artifacts of the record are replaced by the sha.
CommitMadeReplacesArtifacts(c) ==
    /\ calls[c].at = "commit"
    /\ calls[c].rec.branch = "issue"
    /\ git.worktree /\ git.dirty /\ git.made < MaxCommits
    /\ git' = [git EXCEPT !.made = @ + 1, !.dirty = FALSE]
    /\ Carries(c, "save", [calls[c].rec EXCEPT !.artifacts = {git.made + 1}])
    /\ UNCHANGED << file, issue, body, temp, crashes >>

\* git add --all, git commit.  The sha becomes an artifact when it can be
\* read back; only then is a push attempted, if one was asked for and the
\* pre-push hook allows it.
CommitMade(c) ==
    /\ calls[c].at = "commit"
    /\ calls[c].rec.branch = "issue"
    /\ git.worktree /\ git.dirty /\ git.made < MaxCommits
    /\ git' = [git EXCEPT !.made = @ + 1, !.dirty = FALSE]
    /\ \/ Goes(c, "save")
       \/ \E place \in {"push", "save"} :
             Carries(c, place, [calls[c].rec EXCEPT !.artifacts = @ \cup {git.made + 1}])
    /\ UNCHANGED << file, issue, body, temp, crashes >>

\* git push --set-upstream origin <branch>, tried twice; a failure retains the
\* commit locally.
CommitPush(c) ==
    /\ calls[c].at = "push"
    /\ \/ git.branch /\ git' = [git EXCEPT !.pushed = git.made]
       \/ git' = git
    /\ Goes(c, "save")
    /\ UNCHANGED << file, issue, body, temp, crashes >>
-----------------------------------------------------------------------------
(* lifecycle_finish                                                        *)

\* Mutant: the record is marked as merging in memory only.
FinishUnmarked(c) ==
    /\ calls[c].at = "idle"
    /\ Loadable
    /\ CanAdvance(file.state, "merging")
    /\ Carries(c, "resolve", [file EXCEPT !.state = "merging"])
    /\ UNCHANGED << file, issue, body, git, temp, crashes >>

\* A blocked task in the journal ends the call after a note is saved;
\* otherwise the record is first marked as merging.  advanceTo throws from
\* the states that come after it.
Finish(c) ==
    /\ calls[c].at = "idle"
    /\ Loadable
    /\ \/ Carries(c, "save", file)
       \/ /\ CanAdvance(file.state, "merging")
          /\ Carries(c, "mark", [file EXCEPT !.state = "merging"])
    /\ UNCHANGED << file, issue, body, git, temp, crashes >>

\* resolveFinishRecordIdentity and resolveStrategy: a record that lost its
\* branch gets it back from a registered worktree artifact, or the call ends.
ResolveIdentity(c) ==
    /\ calls[c].at = "resolve"
    /\ IF calls[c].rec.branch = "main" /\ ~git.worktree
       THEN Returns(c)
       ELSE \E way \in {"local", "pr"} :
               calls' = [calls EXCEPT ![c].at = IF way = "pr" THEN "pr" ELSE "temp",
                                      ![c].via = way, ![c].rec.branch = "issue"]
    /\ UNCHANGED << file, issue, body, git, temp, crashes >>

\* The temporary worktree is created from origin/<base> ...
CreateTemp(c) ==
    /\ calls[c].at = "temp"
    /\ temp.st = "absent"
    /\ temp' = [st |-> "clean", has |-> 0]
    /\ Goes(c, "merge")
    /\ UNCHANGED << file, issue, body, git, crashes >>

\* ... or the fetch or the add fails and an existing one, which must have
\* modified or unmerged files, is inspected.  A clean one is a failure.
CreateTempFails(c) ==
    /\ calls[c].at = "temp"
    /\ temp.st \in {"absent", "clean", "merged", "committed"}
    /\ Goes(c, "save")
    /\ UNCHANGED << file, issue, body, git, temp, crashes >>

\* Still unmerged, out of the resolver's scope, or git commit fails.
ExistingTempBlocks(c) ==
    /\ calls[c].at = "temp"
    /\ temp.st \in {"conflict", "staged"}
    /\ Goes(c, "save")
    /\ UNCHANGED << file, issue, body, git, temp, crashes >>

\* commitResolvedConflictMerge: the resolved merge is committed and pushed.
ContinueTemp(c) ==
    /\ calls[c].at = "temp"
    /\ temp.st = "staged"
    /\ temp' = [temp EXCEPT !.st = "merged"]
    /\ Goes(c, "push_base")
    /\ UNCHANGED << file, issue, body, git, crashes >>

\* Mutant: the merge commit is counted as a commit of the branch.
MergeBranchCountsMerge(c) ==
    /\ calls[c].at = "merge"
    /\ git.branch
    /\ temp' = [st |-> "merged", has |-> git.made + 1]
    /\ Goes(c, "push_base")
    /\ UNCHANGED << file, issue, body, git, crashes >>

\* git merge --no-ff <branch>; on failure the temporary worktree stays.
MergeBranch(c) ==
    /\ calls[c].at = "merge"
    /\ \/ /\ git.branch
          /\ temp' = [st |-> "merged", has |-> git.made]
          /\ Goes(c, "push_base")
       \/ /\ git.branch
          /\ temp' = [st |-> "conflict", has |-> git.made]
          /\ Goes(c, "save")
       \/ /\ temp' = temp
          /\ Goes(c, "save")
    /\ UNCHANGED << file, issue, body, git, crashes >>

PushBase(c) ==
    /\ calls[c].at = "push_base"
    /\ git' = [git EXCEPT !.merged = Higher(@, temp.has), !.landed = TRUE]
    /\ Goes(c, "remove_temp")
    /\ UNCHANGED << file, issue, body, temp, crashes >>

\* Mutant: the exit code of the push is not looked at.
PushBaseFailsUnnoticed(c) ==
    /\ calls[c].at = "push_base"
    /\ temp' \in {temp, [st |-> "absent", has |-> 0]}
    /\ Goes(c, "cleanup")
    /\ UNCHANGED << file, issue, body, git, crashes >>

\* A rejected push throws the temporary worktree away.
PushBaseFails(c) ==
    /\ calls[c].at = "push_base"
    /\ temp' \in {temp, [st |-> "absent", has |-> 0]}
    /\ Goes(c, "save")
    /\ UNCHANGED << file, issue, body, git, crashes >>

RemoveTemp(c) ==
    /\ calls[c].at = "remove_temp"
    /\ temp' \in {temp, [st |-> "absent", has |-> 0]}
    /\ Goes(c, "cleanup")
    /\ UNCHANGED << file, issue, body, git, crashes >>

\* upsertPullRequest, the review summary and waitForPrChecks.
OpenPullRequest(c) ==
    /\ calls[c].at = "pr"
    /\ \/ git.pushed > 0 /\ Goes(c, "pr_merge")
       \/ Goes(c, "save")
    /\ UNCHANGED << file, issue, body, git, temp, crashes >>

\* gh pr merge --squash merges what GitHub has of the branch.
MergePullRequest(c) ==
    /\ calls[c].at = "pr_merge"
    /\ \/ /\ git' = [git EXCEPT !.merged = Higher(@, git.pushed), !.landed = TRUE]
          /\ Goes(c, "cleanup")
       \/ /\ git' = git
          /\ Goes(c, "save")
    /\ UNCHANGED << file, issue, body, temp, crashes >>

\* runCleanup: git worktree remove without --force refuses a dirty worktree.
\* The branch is deleted after a local merge if the worktree is gone.
Cleanup(c) ==
    /\ calls[c].at = "cleanup"
    /\ \/ /\ ~git.dirty
          /\ git' = [git EXCEPT !.worktree = FALSE]
          /\ Goes(c, IF calls[c].via = "local" THEN "delete_branch" ELSE "close")
       \/ /\ git.worktree
          /\ git' = git
          /\ Goes(c, "close")
    /\ UNCHANGED << file, issue, body, temp, crashes >>

\* Mutant: git branch -D.
DeleteBranchForced(c) ==
    /\ calls[c].at = "delete_branch"
    /\ git' = [git EXCEPT !.branch = FALSE]
    /\ Goes(c, "close")
    /\ UNCHANGED << file, issue, body, temp, crashes >>

\* git branch -d refuses a branch that is ahead of its upstream.
DeleteBranch(c) ==
    /\ calls[c].at = "delete_branch"
    /\ \/ git.made = git.pushed /\ git' = [git EXCEPT !.branch = FALSE]
       \/ git' = git
    /\ Goes(c, "close")
    /\ UNCHANGED << file, issue, body, temp, crashes >>

\* closeMergedIssue, applyFinishOutcome: the record becomes cleaned whether
\* or not gh closed the issue.
CloseIssue(c) ==
    /\ calls[c].at = "close"
    /\ issue' \in {"closed", issue}
    /\ Carries(c, "save", [calls[c].rec EXCEPT !.state = "cleaned"])
    /\ UNCHANGED << file, body, git, temp, crashes >>
-----------------------------------------------------------------------------
(* lifecycle_resume                                                        *)

\* resolveIssueIdentity: a local record that knows the issue branch, else a
\* registered worktree, else the plugin's own checkout.
Identity ==
    IF \/ Loadable /\ file.branch = "issue"
       \/ git.worktree
    THEN "issue" ELSE "main"

\* Without force_refresh a readable local record is returned and nothing
\* changes; a body without markers is not a lifecycle issue.
Resume(c) ==
    /\ calls[c].at = "idle"
    /\ issue # "none"
    /\ body # Plain
    /\ Carries(c, "restore", [state |-> body.state, branch |-> Identity,
                              artifacts |-> body.artifacts])
    /\ UNCHANGED << file, issue, body, git, temp, crashes >>
-----------------------------------------------------------------------------
(* The world: agents edit the worktree and resolve conflicts, the process  *)
(* dies.                                                                   *)

Edit ==
    /\ git.worktree /\ ~git.dirty /\ git.made < MaxCommits
    /\ git' = [git EXCEPT !.dirty = TRUE]
    /\ UNCHANGED << file, issue, body, temp, calls, crashes >>

\* The resolver stages the resolved files, or also commits them.
ResolveConflict ==
    /\ temp.st = "conflict"
    /\ \E st \in {"staged", "committed"} : temp' = [temp EXCEPT !.st = st]
    /\ UNCHANGED << file, issue, body, git, calls, crashes >>

\* Bun.write is not atomic: a crash during a save may tear the file.
Crash ==
    /\ crashes < MaxCrashes
    /\ crashes' = crashes + 1
    /\ \/ file' = file
       \/ /\ \E c \in Calls : calls[c].at \in {"save", "mark", "restore"}
          /\ file' = Torn
    /\ calls' = [c \in Calls |-> Idle]
    /\ UNCHANGED << issue, body, git, temp >>
-----------------------------------------------------------------------------
StartStep(c)  == Start(c) \/ StartTree(c)
CommitStep(c) == Commit(c) \/ CommitNothing(c) \/ CommitMade(c) \/ CommitPush(c)
TempStep(c)   == \/ CreateTemp(c) \/ CreateTempFails(c) \/ ExistingTempBlocks(c)
                 \/ ContinueTemp(c) \/ MergeBranch(c) \/ PushBase(c)
                 \/ PushBaseFails(c) \/ RemoveTemp(c)
PrStep(c)     == OpenPullRequest(c) \/ MergePullRequest(c)
FinishStep(c) == \/ Finish(c) \/ ResolveIdentity(c) \/ TempStep(c) \/ PrStep(c)
                 \/ Cleanup(c) \/ DeleteBranch(c) \/ CloseIssue(c)

CallStep(c) ==
    \/ StartStep(c) \/ CommitStep(c) \/ FinishStep(c) \/ Resume(c)
    \/ \E p \in Pointers : RecordArtifact(c, p)
    \/ Save(c) \/ Sync(c)

Next == \/ \E c \in Calls : CallStep(c)
        \/ Edit \/ ResolveConflict \/ Crash

Spec == Init /\ [][Next]_vars

\* Calls that come one at a time, in a process that may die.
Busy == {c \in Calls : calls[c].at # "idle"}
Alone == \A c, d \in Busy : c = d
AloneSpec == Init /\ [][Next /\ Alone']_vars
-----------------------------------------------------------------------------
TypeOK ==
    /\ file \in Records \cup {NoFile, Torn}
    /\ issue \in {"none", "open", "closed"}
    /\ body \in Marks \cup {Plain}
    /\ git \in Refs
    /\ temp \in Temps
    /\ calls \in [Calls -> CallRecords]
    /\ crashes \in 0 .. MaxCrashes

\* Every commit of the issue stays reachable: from the local branch, from the
\* remote branch or from the base branch, whatever finish deletes and however
\* it interleaves with a commit.
NoCommitLost == git.made > 0 => \/ git.branch
                                \/ git.made <= Higher(git.pushed, git.merged)

\* Nothing reports the issue as delivered before its branch reached the base:
\* neither the record, nor the issue body, nor the state of the issue.
DeliveredOnlyWhenLanded ==
    (\/ Loadable /\ file.state = "cleaned"
     \/ body # Plain /\ body.state = "cleaned"
     \/ issue = "closed") => git.landed

\* What a step that lands the branch on the base finds in the record.
LandsMarked ==
    git'.landed /\ ~git.landed => Loadable /\ file.state = "merging"

\* No save moves the record back or drops one of its artifacts, except that
\* lifecycle_resume writes what the issue body says.
Grows(old, new) == /\ Rank(old.state) <= Rank(new.state)
                   /\ old.artifacts \subseteq new.artifacts

Restoring == \E c \in Calls : calls[c].at = "restore"

RecordGrows ==
    Loadable /\ file' \in Records => Grows(file, file') \/ Restoring

\* What keeps the commits of a deleted branch: the worktree stands on the
\* branch, and finish removes the worktree before it deletes the branch.
WorktreeOnBranch ==
    /\ git.worktree => git.branch
    /\ \A c \in Calls : calls[c].at = "delete_branch" => ~git.worktree

\* lifecycle_start_request works alone: no other tool has a record to load
\* before it saves the first one.
StartIsAlone ==
    /\ issue = "none" => /\ file = NoFile /\ body = Plain
                         /\ \A c \in Calls : calls[c] = Idle
    /\ \A c \in Calls : calls[c].at = "tree" =>
          /\ file = NoFile /\ body = Plain /\ issue # "none"
          /\ \A d \in Calls \ {c} : calls[d] = Idle

\* A finish that is past the merge, and a copy of the record that says so.
FinishedWhenLanded ==
    \A c \in Calls :
       (\/ calls[c].at \in {"remove_temp", "cleanup", "delete_branch", "close"}
        \/ calls[c].rec.state = "cleaned") => git.landed

\* Calls that come alone carry a copy that is ahead of the file, and finish
\* merges under a record that says merging.
CopyAhead ==
    \A c \in Calls :
       calls[c].at \notin {"idle", "restore"} /\ Loadable => Grows(file, calls[c].rec)

MarkedOnDisk ==
    \A c \in Calls :
       /\ calls[c].at = "mark" => calls[c].rec.state = "merging"
       /\ calls[c].at \in {"marked", "resolve", "temp", "merge", "push_base", "pr", "pr_merge"}
            => Loadable /\ file.state = "merging"

\* Whatever lifecycle_finish and the other tools interleave to, every commit of
\* the issue stays reachable and nothing says "delivered" before the branch is
\* on the base (src/lifecycle/index.ts, merge.ts, commits.ts).
LifecycleInv ==
    /\ TypeOK /\ NoCommitLost /\ DeliveredOnlyWhenLanded
    /\ WorktreeOnBranch /\ StartIsAlone /\ FinishedWhenLanded
=============================================================================
