-------------------------- MODULE LifecycleProofs --------------------------
(* Theorems about the lifecycle of an issue, for every set of calls and     *)
(* artifact pointers and any number of commits and crashes.                 *)
EXTENDS MCLifecycle, TLAPS

\* The states the tools write are states of a record.
LEMMA StateFacts ==
    {"issue_open", "branch_ready", "merging", "cleaned", "aborted"} \subseteq States
<1>1. /\ DOMAIN Path = 1 .. 10
      /\ Path[2] = "issue_open" /\ Path[3] = "branch_ready"
      /\ Path[8] = "merging" /\ Path[10] = "cleaned"
  BY DEF Path
<1> QED
  BY <1>1 DEF States

-----------------------------------------------------------------------------
(* Types                                                                    *)

LEMMA TypeInit == Init => TypeOK
  BY LifecycleAssumption, StateFacts
     DEF Init, TypeOK, Idle, Blank, Records, Places, CallRecords, Refs, Temps

\* What a call does to the table of calls.
LEMMA CallsType ==
    ASSUME TypeOK, NEW c \in Calls
    PROVE  /\ \A place \in Places : Goes(c, place) =>
                    calls' \in [Calls -> CallRecords]
           /\ \A place \in Places, rec \in Records : Carries(c, place, rec) =>
                    calls' \in [Calls -> CallRecords]
           /\ Returns(c) => calls' \in [Calls -> CallRecords]
<1>1. calls \in [Calls -> CallRecords] /\ Idle \in CallRecords
  BY StateFacts DEF TypeOK, Idle, Blank, CallRecords, Records, Places
<1>2. ASSUME NEW place \in Places PROVE [calls[c] EXCEPT !.at = place] \in CallRecords
  BY <1>1 DEF CallRecords
<1>3. ASSUME NEW place \in Places, NEW rec \in Records
      PROVE  [calls[c] EXCEPT !.at = place, !.rec = rec] \in CallRecords
  BY <1>1 DEF CallRecords
<1>4. \A place \in Places : Goes(c, place) => calls' \in [Calls -> CallRecords]
  BY <1>1, <1>2 DEF Goes
<1>5. \A place \in Places, rec \in Records : Carries(c, place, rec) =>
          calls' \in [Calls -> CallRecords]
  BY <1>1, <1>3 DEF Carries
<1>6. Returns(c) => calls' \in [Calls -> CallRecords]
  BY <1>1 DEF Returns
<1> QED
  BY <1>4, <1>5, <1>6

\* Records that are made of others.
LEMMA RecordType ==
    ASSUME TypeOK, NEW rec \in Records
    PROVE  /\ \A st \in States : [rec EXCEPT !.state = st] \in Records
           /\ \A p \in Artifacts :
                [rec EXCEPT !.artifacts = @ \cup {p}] \in Records
           /\ [rec EXCEPT !.branch = "issue"] \in Records
           /\ MarksOf(rec) \in Marks
  BY DEF Records, MarksOf, Marks

LEMMA StartType ==
    ASSUME TypeOK, NEW c \in Calls, StartStep(c) PROVE TypeOK'
<1>1. Blank \in Records /\ calls[c].rec \in Records
  BY StateFacts DEF Blank, Records, TypeOK, CallRecords
<1>2. CASE Start(c)
  BY <1>1, <1>2, CallsType DEF Start, TypeOK, Places, CallRecords
<1>3. CASE StartTree(c)
  <2>1. /\ [calls[c].rec EXCEPT !.state = "branch_ready"] \in Records
        /\ [calls[c].rec EXCEPT !.state = "aborted"] \in Records
    BY <1>1, RecordType, StateFacts
  <2>2. calls' \in [Calls -> CallRecords]
    BY <1>3, <2>1, CallsType DEF StartTree, Places
  <2>3. git' \in Refs
    BY <1>3 DEF StartTree, TypeOK, Refs
  <2> QED
    BY <1>3, <2>2, <2>3 DEF StartTree, TypeOK, CallRecords, Refs
<1> QED
  BY <1>2, <1>3 DEF StartStep

LEMMA CommitType ==
    ASSUME TypeOK, NEW c \in Calls, CommitStep(c) PROVE TypeOK'
<1>1. calls[c].rec \in Records /\ git \in Refs /\ MaxCommits \in Nat
  BY LifecycleAssumption DEF TypeOK, CallRecords
<1>2. CASE Commit(c)
  BY <1>2, CallsType DEF Commit, Loadable, TypeOK, Places, CallRecords
<1>3. CASE CommitNothing(c)
  BY <1>3, CallsType DEF CommitNothing, TypeOK, Places, CallRecords
<1>4. CASE CommitMade(c)
  <2>1. git.made + 1 \in 0 .. MaxCommits /\ git.made + 1 \in Artifacts
    BY <1>1, <1>4 DEF CommitMade, Refs, Artifacts
  <2>2. [calls[c].rec EXCEPT !.artifacts = @ \cup {git.made + 1}] \in Records
    BY <1>1, <2>1, RecordType
  <2>3. calls' \in [Calls -> CallRecords]
    BY <1>4, <2>2, CallsType DEF CommitMade, Places
  <2>4. git' \in Refs
    BY <1>1, <1>4, <2>1 DEF CommitMade, Refs
  <2> QED
    BY <1>4, <2>3, <2>4 DEF CommitMade, TypeOK, CallRecords, Refs
<1>5. CASE CommitPush(c)
  <2>1. git' \in Refs
    BY <1>1, <1>5 DEF CommitPush, Refs
  <2> QED
    BY <1>5, <2>1, CallsType DEF CommitPush, TypeOK, Places, CallRecords, Refs
<1> QED
  BY <1>2, <1>3, <1>4, <1>5 DEF CommitStep

LEMMA TempType ==
    ASSUME TypeOK, NEW c \in Calls, TempStep(c) PROVE TypeOK'
<1>1. git \in Refs /\ temp \in Temps /\ MaxCommits \in Nat
  BY LifecycleAssumption DEF TypeOK, Refs, Temps
<1>2. temp' \in Temps
  BY <1>1 DEF TempStep, CreateTemp, CreateTempFails, ExistingTempBlocks,
              ContinueTemp, MergeBranch, PushBase, PushBaseFails, RemoveTemp,
              Temps, Refs
<1>3. git' \in Refs
  <2>1. CASE PushBase(c)
    <3>1. Higher(git.merged, temp.has) \in 0 .. MaxCommits
      BY <1>1 DEF Refs, Temps, Higher
    <3> QED
      BY <1>1, <2>1, <3>1 DEF PushBase, Refs
  <2>2. CASE ~PushBase(c)
    BY <1>1, <2>2 DEF TempStep, CreateTemp, CreateTempFails, ExistingTempBlocks,
              ContinueTemp, MergeBranch, PushBaseFails, RemoveTemp
  <2> QED
    BY <2>1, <2>2
<1>4. calls' \in [Calls -> CallRecords]
  BY CallsType
     DEF TempStep, CreateTemp, CreateTempFails, ExistingTempBlocks, ContinueTemp,
         MergeBranch, PushBase, PushBaseFails, RemoveTemp, Places
<1>5. UNCHANGED << file, issue, body, crashes >>
  BY DEF TempStep, CreateTemp, CreateTempFails, ExistingTempBlocks,
         ContinueTemp, MergeBranch, PushBase, PushBaseFails, RemoveTemp
<1> QED
  BY <1>2, <1>3, <1>4, <1>5 DEF TypeOK, CallRecords, Refs, Temps

LEMMA FinishType ==
    ASSUME TypeOK, NEW c \in Calls, FinishStep(c) PROVE TypeOK'
<1>1. /\ git \in Refs /\ MaxCommits \in Nat
      /\ calls[c].rec \in Records /\ {"merging", "cleaned"} \subseteq States
  BY LifecycleAssumption, StateFacts DEF TypeOK, CallRecords
<1>2. CASE Finish(c)
  <2>1. file \in Records /\ [file EXCEPT !.state = "merging"] \in Records
    BY <1>1, <1>2, RecordType DEF Finish, Loadable
  <2> QED
    BY <1>2, <2>1, CallsType DEF Finish, TypeOK, Places, CallRecords
<1>3. CASE ResolveIdentity(c)
  <2>1. calls' \in [Calls -> CallRecords]
    <3>1. CASE calls[c].rec.branch = "main" /\ ~git.worktree
      BY <1>3, <3>1, CallsType DEF ResolveIdentity
    <3>2. CASE ~(calls[c].rec.branch = "main" /\ ~git.worktree)
      <4>1. PICK way \in {"local", "pr"} :
              calls' = [calls EXCEPT ![c].at = IF way = "pr" THEN "pr" ELSE "temp",
                                     ![c].via = way, ![c].rec.branch = "issue"]
        BY <1>3, <3>2 DEF ResolveIdentity
      <4>2. calls[c] \in CallRecords
        BY DEF TypeOK
      <4>3. [calls[c] EXCEPT !.at = IF way = "pr" THEN "pr" ELSE "temp",
                             !.via = way, !.rec.branch = "issue"] \in CallRecords
        BY <4>2 DEF CallRecords, Places, Records
      <4> QED
        BY <4>1, <4>3 DEF TypeOK
    <3> QED
      BY <3>1, <3>2
  <2> QED
    BY <1>3, <2>1 DEF ResolveIdentity, TypeOK, CallRecords
<1>4. CASE TempStep(c)
  BY <1>4, TempType
<1>5. CASE PrStep(c)
  <2>1. Higher(git.merged, git.pushed) \in 0 .. MaxCommits
    BY <1>1 DEF Refs, Higher
  <2>2. git' \in Refs
    BY <1>1, <1>5, <2>1 DEF PrStep, OpenPullRequest, MergePullRequest, Refs
  <2>3. calls' \in [Calls -> CallRecords]
    BY <1>5, CallsType DEF PrStep, OpenPullRequest, MergePullRequest, Places
  <2> QED
    BY <1>5, <2>2, <2>3
       DEF PrStep, OpenPullRequest, MergePullRequest, TypeOK, CallRecords, Refs
<1>6. CASE Cleanup(c) \/ DeleteBranch(c)
  <2>1. git' \in Refs
    BY <1>1, <1>6 DEF Cleanup, DeleteBranch, Refs
  <2>2. calls' \in [Calls -> CallRecords]
    BY <1>6, CallsType DEF Cleanup, DeleteBranch, Places
  <2> QED
    BY <1>6, <2>1, <2>2 DEF Cleanup, DeleteBranch, TypeOK, CallRecords, Refs
<1>7. CASE CloseIssue(c)
  <2>1. [calls[c].rec EXCEPT !.state = "cleaned"] \in Records
    BY <1>1, RecordType
  <2> QED
    BY <1>7, <2>1, CallsType DEF CloseIssue, TypeOK, Places, CallRecords
<1> QED
  BY <1>2, <1>3, <1>4, <1>5, <1>6, <1>7 DEF FinishStep

LEMMA OtherType ==
    ASSUME TypeOK, NEW c \in Calls,
           \/ Resume(c) \/ \E p \in Pointers : RecordArtifact(c, p)
           \/ Save(c) \/ Sync(c)
    PROVE  TypeOK'
<1>1. calls[c].rec \in Records
  BY DEF TypeOK, CallRecords
<1>2. CASE Resume(c)
  <2>1. body \in Marks
    BY <1>2 DEF Resume, TypeOK
  <2>2. [state |-> body.state, branch |-> Identity,
         artifacts |-> body.artifacts] \in Records
    BY <2>1 DEF Marks, Records, Identity
  <2> QED
    BY <1>2, <2>2, CallsType DEF Resume, TypeOK, Places, CallRecords
<1>3. ASSUME NEW p \in Pointers, RecordArtifact(c, p) PROVE TypeOK'
  <2>1. [file EXCEPT !.artifacts = @ \cup {p}] \in Records
    BY <1>3, RecordType DEF RecordArtifact, Loadable, Artifacts
  <2> QED
    BY <1>3, <2>1, CallsType DEF RecordArtifact, TypeOK, Places, CallRecords
<1>4. CASE Save(c)
  <2>1. calls' \in [Calls -> CallRecords]
    BY <1>4, CallsType DEF Save, Places
  <2> QED
    BY <1>1, <1>4, <2>1 DEF Save, TypeOK, CallRecords
<1>5. CASE Sync(c)
  <2>1. calls' \in [Calls -> CallRecords]
    BY <1>5, CallsType DEF Sync, Places
  <2>2. body' \in Marks \cup {Plain}
    BY <1>1, <1>5, RecordType DEF Sync, TypeOK
  <2> QED
    BY <1>5, <2>1, <2>2 DEF Sync, TypeOK, CallRecords
<1> QED
  BY <1>2, <1>3, <1>4, <1>5

LEMMA WorldType ==
    ASSUME TypeOK, Edit \/ ResolveConflict \/ Crash PROVE TypeOK'
<1>1. CASE Edit
  BY <1>1 DEF Edit, TypeOK, Refs
<1>2. CASE ResolveConflict
  BY <1>2 DEF ResolveConflict, TypeOK, Temps
<1>3. CASE Crash
  <2>1. crashes' \in 0 .. MaxCrashes
    BY <1>3, LifecycleAssumption DEF Crash, TypeOK
  <2>2. calls' \in [Calls -> CallRecords]
    BY <1>3, StateFacts
       DEF Crash, CallRecords, Idle, Blank, Records, Places
  <2> QED
    BY <1>3, <2>1, <2>2 DEF Crash, TypeOK, CallRecords
<1> QED
  BY <1>1, <1>2, <1>3

LEMMA TypeStep == TypeOK /\ [Next]_vars => TypeOK'
<1> SUFFICES ASSUME TypeOK, [Next]_vars PROVE TypeOK'
  OBVIOUS
<1>1. ASSUME NEW c \in Calls, CallStep(c) PROVE TypeOK'
  BY <1>1, StartType, CommitType, FinishType, OtherType DEF CallStep
<1>2. CASE UNCHANGED vars
  BY <1>2 DEF vars, TypeOK
<1> QED
  BY <1>1, <1>2, WorldType DEF Next

\* The record file, the refs and the calls keep their types.
THEOREM LifecycleTyped == Spec => []TypeOK
  BY TypeInit, TypeStep, PTL DEF Spec
-----------------------------------------------------------------------------
(* What a step of a call does                                              *)

\* It moves no other call, and goes where its action says.
LEMMA OthersStay ==
    ASSUME TypeOK, NEW c \in Calls, CallStep(c)
    PROVE  \A d \in Calls \ {c} : calls'[d] = calls[d]
  BY DEF CallStep, StartStep, Start, StartTree, CommitStep, Commit, CommitNothing,
         CommitMade, CommitPush, FinishStep, Finish, ResolveIdentity, TempStep,
         CreateTemp, CreateTempFails, ExistingTempBlocks, ContinueTemp, MergeBranch,
         PushBase, PushBaseFails, RemoveTemp, PrStep, OpenPullRequest,
         MergePullRequest, Cleanup, DeleteBranch, CloseIssue, Resume,
         RecordArtifact, Save, Sync, Goes, Carries, Returns, TypeOK

\* It changes the refs in one of seven ways.
LEMMA GitSteps ==
    ASSUME TypeOK, NEW c \in Calls, CallStep(c)
    PROVE  \/ git' = git
           \/ /\ calls[c].at = "tree"
              /\ git' = [git EXCEPT !.worktree = TRUE, !.branch = TRUE]
           \/ git.worktree /\ git' = [git EXCEPT !.made = @ + 1, !.dirty = FALSE]
           \/ git.branch /\ git' = [git EXCEPT !.pushed = git.made]
           \/ \E n \in Nat :
                 git' = [git EXCEPT !.merged = Higher(@, n), !.landed = TRUE]
           \/ git' = [git EXCEPT !.worktree = FALSE]
           \/ /\ calls[c].at = "delete_branch" /\ git.made = git.pushed
              /\ git' = [git EXCEPT !.branch = FALSE]
<1>1. CASE StartStep(c)
  BY <1>1 DEF StartStep, Start, StartTree
<1>2. CASE CommitStep(c)
  BY <1>2 DEF CommitStep, Commit, CommitNothing, CommitMade, CommitPush
<1>3. CASE TempStep(c)
  <2>1. temp.has \in Nat
    BY LifecycleAssumption DEF TypeOK, Temps
  <2> QED
    BY <1>3, <2>1
       DEF TempStep, CreateTemp, CreateTempFails, ExistingTempBlocks, ContinueTemp,
           MergeBranch, PushBase, PushBaseFails, RemoveTemp
<1>4. CASE PrStep(c)
  <2>1. git.pushed \in Nat
    BY LifecycleAssumption DEF TypeOK, Refs
  <2> QED
    BY <1>4, <2>1 DEF PrStep, OpenPullRequest, MergePullRequest
<1>5. CASE Finish(c) \/ ResolveIdentity(c) \/ Cleanup(c) \/ DeleteBranch(c) \/ CloseIssue(c)
  BY <1>5 DEF Finish, ResolveIdentity, Cleanup, DeleteBranch, CloseIssue
<1>6. CASE \/ Resume(c) \/ \E p \in Pointers : RecordArtifact(c, p)
           \/ Save(c) \/ Sync(c)
  BY <1>6 DEF Resume, RecordArtifact, Save, Sync
<1> QED
  BY <1>1, <1>2, <1>3, <1>4, <1>5, <1>6 DEF CallStep, FinishStep

\* The branch never leaves the base again.
LEMMA LandedStays ==
    ASSUME TypeOK, NEW c \in Calls, CallStep(c), git.landed
    PROVE  git'.landed
  BY GitSteps DEF TypeOK, Refs

\* Without a record and a body an idle call can only start the issue.
LEMMA OnlyStart ==
    ASSUME NEW c \in Calls, CallStep(c),
           file = NoFile, body = Plain, calls[c] = Idle
    PROVE  Start(c)
<1>1. calls[c].at = "idle" /\ ~Loadable
  BY LifecycleAssumption DEF Idle, Loadable
<1>2. ~StartTree(c) /\ ~CommitStep(c)
  BY <1>1 DEF StartTree, CommitStep, Commit, CommitNothing, CommitMade, CommitPush
<1>3. ~TempStep(c) /\ ~PrStep(c)
  BY <1>1
     DEF TempStep, CreateTemp, CreateTempFails, ExistingTempBlocks, ContinueTemp,
         MergeBranch, PushBase, PushBaseFails, RemoveTemp, PrStep, OpenPullRequest,
         MergePullRequest
<1>4. ~FinishStep(c)
  BY <1>1, <1>3
     DEF FinishStep, Finish, ResolveIdentity, Cleanup, DeleteBranch, CloseIssue
<1>5. ~Resume(c) /\ ~Save(c) /\ ~Sync(c) /\ ~(\E p \in Pointers : RecordArtifact(c, p))
  BY <1>1 DEF Resume, Save, Sync, RecordArtifact
<1> QED
  BY <1>2, <1>4, <1>5 DEF CallStep, StartStep

\* Only lifecycle_start_request is at the worktree, and only a cleanup that
\* has removed the worktree is at the branch.
LEMMA Moves ==
    ASSUME TypeOK, NEW c \in Calls, CallStep(c)
    PROVE  /\ calls'[c].at = "tree" => Start(c)
           /\ calls'[c].at = "delete_branch" => ~git'.worktree
<1>1. calls \in [Calls -> CallRecords] /\ git \in Refs /\ Idle.at = "idle"
  BY DEF TypeOK, Idle
<1>2. ASSUME NEW place, NEW rec,
             Goes(c, place) \/ Carries(c, place, rec) \/ Returns(c),
             place \notin {"tree", "delete_branch"}
      PROVE  calls'[c].at \notin {"tree", "delete_branch"}
  BY <1>1, <1>2 DEF Goes, Carries, Returns, CallRecords
<1>3. CASE StartTree(c) \/ CommitStep(c)
  BY <1>1, <1>3
     DEF StartTree, CommitStep, Commit, CommitNothing, CommitMade, CommitPush, Goes,
         Carries, CallRecords
<1>4. CASE TempStep(c) \/ PrStep(c)
  BY <1>1, <1>4
     DEF TempStep, CreateTemp, CreateTempFails, ExistingTempBlocks, ContinueTemp,
         MergeBranch, PushBase, PushBaseFails, RemoveTemp, PrStep, OpenPullRequest,
         MergePullRequest, Goes, CallRecords
<1>5. CASE Finish(c) \/ DeleteBranch(c) \/ CloseIssue(c)
  BY <1>2, <1>5 DEF Finish, DeleteBranch, CloseIssue
<1>6. CASE ResolveIdentity(c)
  BY <1>1, <1>6 DEF ResolveIdentity, Returns, CallRecords
<1>7. CASE Cleanup(c)
  BY <1>1, <1>7 DEF Cleanup, Goes, CallRecords, Refs
<1>8. CASE Resume(c) \/ \E p \in Pointers : RecordArtifact(c, p)
  BY <1>1, <1>8 DEF Resume, RecordArtifact, Carries, CallRecords
<1>9. CASE Save(c) \/ Sync(c)
  <2>1. Goes(c, "saved") \/ Goes(c, "marked") \/ Goes(c, "resolve") \/ Returns(c)
    BY <1>9 DEF Save, Sync
  <2> QED
    BY <1>2, <2>1
<1>10. CASE Start(c)
  BY <1>1, <1>10 DEF Start, Carries, CallRecords
<1> QED
  BY <1>3, <1>4, <1>5, <1>6, <1>7, <1>8, <1>9, <1>10
     DEF CallStep, StartStep, FinishStep

\* It writes the record and the body from its own copy, and closes the issue
\* at the end of a finish.
LEMMA Writes ==
    ASSUME NEW c \in Calls, CallStep(c)
    PROVE  /\ file' # file => file' = calls[c].rec
           /\ body' # body => body' = MarksOf(calls[c].rec)
           /\ issue' = "none" => issue = "none"
           /\ issue' = "closed" /\ issue # "closed" => calls[c].at = "close"
  BY DEF CallStep, StartStep, Start, StartTree, CommitStep, Commit, CommitNothing,
         CommitMade, CommitPush, FinishStep, Finish, ResolveIdentity, TempStep,
         CreateTemp, CreateTempFails, ExistingTempBlocks, ContinueTemp, MergeBranch,
         PushBase, PushBaseFails, RemoveTemp, PrStep, OpenPullRequest,
         MergePullRequest, Cleanup, DeleteBranch, CloseIssue, Resume,
         RecordArtifact, Save, Sync

\* The places after the merge, and where a call leads that has merged nothing.
After == {"remove_temp", "cleanup", "delete_branch", "close"}

\* A call gets past the merge, or holds a record that says so, only when the
\* branch is on the base.
LEMMA LandedStep ==
    ASSUME TypeOK, FinishedWhenLanded, DeliveredOnlyWhenLanded,
           NEW c \in Calls, CallStep(c),
           calls'[c].at \in After \/ calls'[c].rec.state = "cleaned"
    PROVE  git'.landed
<1>1. calls \in [Calls -> CallRecords]
  BY DEF TypeOK
<1>2. SUFFICES ASSUME ~git.landed PROVE git'.landed
  BY LandedStays
<1>3. calls[c].at \notin After /\ calls[c].rec.state # "cleaned"
  BY <1>2 DEF FinishedWhenLanded, After
<1>4. ~(Loadable /\ file.state = "cleaned") /\ ~(body # Plain /\ body.state = "cleaned")
  BY <1>2 DEF DeliveredOnlyWhenLanded
<1>5. Idle.at \notin After /\ Idle.rec.state # "cleaned"
  BY DEF Idle, Blank, After
<1>6. CASE StartStep(c)
  BY <1>1, <1>3, <1>5, <1>6
     DEF StartStep, Start, StartTree, Goes, Carries, Returns, Blank, After, CallRecords, Records
<1>7. CASE CommitStep(c)
  BY <1>1, <1>3, <1>4, <1>7
     DEF CommitStep, Commit, CommitNothing, CommitMade, CommitPush, Goes, Carries,
         After, CallRecords, Records
<1>8. CASE TempStep(c)
  <2>1. git \in Refs
    BY DEF TypeOK
  <2>2. CASE PushBase(c)
    BY <2>1, <2>2 DEF PushBase, Refs
  <2>3. CASE RemoveTemp(c)
    BY <1>3, <2>3 DEF RemoveTemp, After
  <2>4. CASE ~PushBase(c) /\ ~RemoveTemp(c)
    BY <1>1, <1>3, <1>8, <2>4
       DEF TempStep, CreateTemp, CreateTempFails, ExistingTempBlocks, ContinueTemp,
           MergeBranch, PushBaseFails, Goes, After, CallRecords
  <2> QED
    BY <2>2, <2>3, <2>4
<1>9. CASE PrStep(c)
  <2>1. git \in Refs
    BY DEF TypeOK
  <2> QED
    BY <1>1, <1>3, <1>9, <2>1
       DEF PrStep, OpenPullRequest, MergePullRequest, Goes, After, CallRecords, Refs
<1>10. CASE Finish(c) \/ Cleanup(c) \/ DeleteBranch(c) \/ CloseIssue(c)
  BY <1>1, <1>3, <1>4, <1>10
     DEF Finish, Cleanup, DeleteBranch, CloseIssue, Goes, Carries, After,
         CallRecords, Records, Loadable
<1>11. CASE ResolveIdentity(c)
  <2>1. CASE Returns(c)
    BY <1>1, <1>5, <2>1 DEF Returns
  <2>2. CASE ~Returns(c)
    BY <1>1, <1>3, <1>11, <2>2 DEF ResolveIdentity, After, CallRecords, Records
  <2> QED
    BY <2>1, <2>2
<1>12. CASE Resume(c) \/ \E p \in Pointers : RecordArtifact(c, p)
  <2>1. PICK rec \in Records, place \in {"restore", "save"} :
          Carries(c, place, rec) /\ rec.state # "cleaned"
    <3>1. CASE Resume(c)
      <4>1. body \in Marks
        BY <3>1 DEF Resume, TypeOK
      <4>2. [state |-> body.state, branch |-> Identity, artifacts |-> body.artifacts]
              \in Records
        BY <4>1 DEF Marks, Records, Identity
      <4> QED
        BY <1>4, <3>1, <4>2 DEF Resume
    <3>2. ASSUME NEW p \in Pointers, RecordArtifact(c, p)
          PROVE  \E rec \in Records : Carries(c, "save", rec) /\ rec.state # "cleaned"
      <4>1. file \in Records
        BY <3>2 DEF RecordArtifact, Loadable
      <4>2. [file EXCEPT !.artifacts = @ \cup {p}] \in Records
        BY <4>1, RecordType DEF Artifacts
      <4>3. [file EXCEPT !.artifacts = @ \cup {p}].state # "cleaned"
        BY <1>4, <4>1 DEF Loadable, Records
      <4> QED
        BY <3>2, <4>2, <4>3 DEF RecordArtifact
    <3> QED
      BY <1>12, <3>1, <3>2
  <2> QED
    BY <1>1, <2>1 DEF Carries, After, CallRecords
<1>13. CASE Save(c) \/ Sync(c)
  <2>1. Goes(c, "saved") \/ Goes(c, "marked") \/ Goes(c, "resolve") \/ Returns(c)
    BY <1>13 DEF Save, Sync
  <2> QED
    BY <1>1, <1>3, <1>5, <2>1 DEF Goes, Returns, After, CallRecords
<1> QED
  BY <1>6, <1>7, <1>8, <1>9, <1>10, <1>11, <1>12, <1>13 DEF CallStep, FinishStep

-----------------------------------------------------------------------------
(* The invariant is inductive                                              *)

LEMMA LifecycleInit == Init => LifecycleInv
<1> SUFFICES ASSUME Init PROVE LifecycleInv
  OBVIOUS
<1>1. \A c \in Calls : calls[c] = Idle
  BY DEF Init
<1>2. StartIsAlone /\ FinishedWhenLanded /\ WorktreeOnBranch
  BY <1>1
     DEF Init, StartIsAlone, FinishedWhenLanded, WorktreeOnBranch, Idle, Blank
<1>3. NoCommitLost /\ DeliveredOnlyWhenLanded
  BY LifecycleAssumption DEF Init, NoCommitLost, DeliveredOnlyWhenLanded, Loadable
<1> QED
  BY <1>2, <1>3, TypeInit DEF LifecycleInv

LEMMA StartStaysAlone ==
    ASSUME LifecycleInv, NEW c \in Calls, CallStep(c) PROVE StartIsAlone'
<1> USE DEF StartIsAlone
<1>1. TypeOK /\ StartIsAlone
  BY DEF LifecycleInv
<1>2. \A d \in Calls \ {c} : calls'[d] = calls[d]
  BY <1>1, OthersStay
<1>3. Start(c) => issue' = "open" /\ calls'[c].at = "tree"
  BY <1>1 DEF Start, Carries, TypeOK
<1>4. issue' = "none" => issue = "none"
  BY Writes
<1>5. issue' # "none"
  <2>1. CASE issue = "none"
    BY <1>1, <1>3, <2>1, OnlyStart
  <2>2. CASE issue # "none"
    BY <1>4, <2>2
  <2> QED
    BY <2>1, <2>2
<1>6. ASSUME calls'[c].at = "tree"
      PROVE  /\ file' = NoFile /\ body' = Plain
             /\ \A d \in Calls \ {c} : calls'[d] = Idle
  <2>1. Start(c)
    BY <1>1, <1>6, Moves
  <2> QED
    BY <1>1, <1>2, <2>1 DEF Start
<1>7. ASSUME NEW e \in Calls \ {c}, calls'[e].at = "tree" PROVE FALSE
  <2>1. calls[e].at = "tree"
    BY <1>2, <1>7
  <2>2. calls[c] = Idle /\ file = NoFile /\ body = Plain /\ issue # "none"
    BY <1>1, <2>1
  <2> QED
    BY <2>2, OnlyStart DEF Start
<1> QED
  BY <1>5, <1>6, <1>7

LEMMA WorktreeStays ==
    ASSUME LifecycleInv, NEW c \in Calls, CallStep(c) PROVE WorktreeOnBranch'
<1>1. TypeOK /\ WorktreeOnBranch /\ StartIsAlone /\ git \in Refs
  BY DEF LifecycleInv, TypeOK
<1>2. git'.worktree => git'.branch
  <2>1. calls[c].at = "delete_branch" => ~git.worktree
    BY <1>1 DEF WorktreeOnBranch
  <2> QED
    BY <1>1, <2>1, GitSteps DEF WorktreeOnBranch, Refs
<1>3. calls'[c].at = "delete_branch" => ~git'.worktree
  BY <1>1, Moves
<1>4. ASSUME NEW d \in Calls \ {c}, calls'[d].at = "delete_branch"
      PROVE  ~git'.worktree
  <2>1. calls[d].at = "delete_branch" /\ ~git.worktree
    BY <1>1, <1>4, OthersStay DEF WorktreeOnBranch
  <2>2. calls[c].at # "tree"
    BY <1>1, <2>1 DEF StartIsAlone, Idle
  <2> QED
    BY <1>1, <2>1, <2>2, GitSteps DEF Refs
<1> QED
  BY <1>2, <1>3, <1>4 DEF WorktreeOnBranch

LEMMA CommitsStay ==
    ASSUME LifecycleInv, NEW c \in Calls, CallStep(c) PROVE NoCommitLost'
<1>1. TypeOK /\ git \in Refs /\ NoCommitLost /\ WorktreeOnBranch /\ MaxCommits \in Nat
  BY LifecycleAssumption DEF LifecycleInv, TypeOK
<1>2. /\ git.made \in Nat /\ git.pushed \in Nat /\ git.merged \in Nat
  BY <1>1 DEF Refs
<1>3. ASSUME git' = git PROVE NoCommitLost'
  BY <1>1, <1>3 DEF NoCommitLost
<1>4. ASSUME NEW n \in Nat,
             git' = [git EXCEPT !.merged = Higher(@, n), !.landed = TRUE]
      PROVE  NoCommitLost'
  BY <1>1, <1>2, <1>4 DEF NoCommitLost, Higher, Refs
<1>5. ASSUME git.made = git.pushed, git' = [git EXCEPT !.branch = FALSE]
      PROVE  NoCommitLost'
  BY <1>1, <1>2, <1>5 DEF NoCommitLost, Higher, Refs
<1>6. ASSUME git' = [git EXCEPT !.worktree = FALSE] PROVE NoCommitLost'
  BY <1>1, <1>6 DEF NoCommitLost, Refs
<1>7. CASE \/ git' = [git EXCEPT !.worktree = TRUE, !.branch = TRUE]
           \/ git.worktree /\ git' = [git EXCEPT !.made = @ + 1, !.dirty = FALSE]
           \/ git.branch /\ git' = [git EXCEPT !.pushed = git.made]
  <2>1. git'.branch
    BY <1>1, <1>7 DEF WorktreeOnBranch, Refs
  <2> QED
    BY <2>1 DEF NoCommitLost
<1> QED
  BY <1>1, <1>3, <1>4, <1>5, <1>6, <1>7, GitSteps

LEMMA DeliveryStays ==
    ASSUME LifecycleInv, NEW c \in Calls, CallStep(c)
    PROVE  DeliveredOnlyWhenLanded' /\ FinishedWhenLanded'
<1>1. TypeOK /\ DeliveredOnlyWhenLanded /\ FinishedWhenLanded
  BY DEF LifecycleInv
<1>2. FinishedWhenLanded'
  BY <1>1, OthersStay, LandedStep, LandedStays DEF FinishedWhenLanded, After
<1>3. calls[c].rec.state = "cleaned" \/ calls[c].at = "close" => git.landed
  BY <1>1 DEF FinishedWhenLanded
<1>4. (\/ Loadable' /\ file'.state = "cleaned"
       \/ body' # Plain /\ body'.state = "cleaned"
       \/ issue' = "closed") => git.landed
  BY <1>1, <1>3, Writes DEF DeliveredOnlyWhenLanded, Loadable, MarksOf
<1> QED
  BY <1>1, <1>2, <1>4, LandedStays DEF DeliveredOnlyWhenLanded

LEMMA WorldStays ==
    ASSUME LifecycleInv, Edit \/ ResolveConflict \/ Crash
    PROVE  /\ NoCommitLost' /\ DeliveredOnlyWhenLanded' /\ WorktreeOnBranch'
           /\ StartIsAlone' /\ FinishedWhenLanded'
<1> USE DEF NoCommitLost, DeliveredOnlyWhenLanded, WorktreeOnBranch, StartIsAlone,
            FinishedWhenLanded, Loadable
<1>1. TypeOK /\ git \in Refs
  BY DEF LifecycleInv, TypeOK
<1>2. CASE Edit
  <2>1. /\ git'.worktree = git.worktree /\ git'.branch = git.branch
        /\ git'.made = git.made /\ git'.pushed = git.pushed
        /\ git'.merged = git.merged /\ git'.landed = git.landed
    BY <1>1, <1>2 DEF Edit, Refs
  <2> QED
    BY <1>2, <2>1 DEF Edit, LifecycleInv
<1>3. CASE ResolveConflict
  BY <1>3 DEF ResolveConflict, LifecycleInv
<1>4. CASE Crash
  <2>1. /\ \A c \in Calls : calls'[c] = Idle
        /\ issue' = issue /\ body' = body /\ git' = git
        /\ file' = file \/ file' = Torn
    BY <1>4 DEF Crash
  <2>2. issue = "none" => file' = NoFile
    BY <1>4, <2>1 DEF Crash, LifecycleInv, Idle
  <2>3. Idle.at = "idle" /\ Idle.rec.state = "issue_open"
    BY DEF Idle, Blank
  <2> QED
    BY <2>1, <2>2, <2>3, LifecycleAssumption DEF LifecycleInv
<1> QED
  BY <1>2, <1>3, <1>4

LEMMA LifecycleStep == LifecycleInv /\ [Next]_vars => LifecycleInv'
<1> SUFFICES ASSUME LifecycleInv, [Next]_vars PROVE LifecycleInv'
  OBVIOUS
<1>1. TypeOK'
  BY TypeStep DEF LifecycleInv
<1>2. ASSUME NEW c \in Calls, CallStep(c) PROVE LifecycleInv'
  BY <1>1, <1>2, CommitsStay, DeliveryStays, WorktreeStays, StartStaysAlone
     DEF LifecycleInv
<1>3. CASE Edit \/ ResolveConflict \/ Crash
  BY <1>1, <1>3, WorldStays DEF LifecycleInv
<1>4. CASE UNCHANGED vars
  BY <1>1, <1>4
     DEF vars, LifecycleInv, NoCommitLost, DeliveredOnlyWhenLanded, WorktreeOnBranch,
         StartIsAlone, FinishedWhenLanded, Loadable
<1> QED
  BY <1>2, <1>3, <1>4 DEF Next

\* No commit of the issue becomes unreachable and nothing reports it delivered
\* before its branch is on the base, however many calls of lifecycle_finish and
\* the other tools interleave and wherever the process dies
\* (src/lifecycle/index.ts, merge.ts, commits.ts, cleanup-policy.ts).
THEOREM CommitsAreKept == Spec => []LifecycleInv
  BY LifecycleInit, LifecycleStep, PTL DEF Spec
-----------------------------------------------------------------------------
(* Calls that come alone                                                    *)

\* Each state has one position on the path; what may advance to merging is
\* not behind it, and nothing is behind cleaned.
LEMMA RankFacts ==
    /\ \A s \in States : Rank(s) \in 0 .. 10
    /\ Rank("cleaned") = 10
    /\ \A s \in States : CanAdvance(s, "merging") => Rank(s) <= Rank("merging")
<1>1. /\ DOMAIN Path = 1 .. 10 /\ Len(Path) = 10
      /\ Path[1] = "proposed" /\ Path[2] = "issue_open" /\ Path[3] = "branch_ready"
      /\ Path[4] = "in_design" /\ Path[5] = "in_plan" /\ Path[6] = "in_progress"
      /\ Path[7] = "tested" /\ Path[8] = "merging" /\ Path[9] = "closed"
      /\ Path[10] = "cleaned"
  BY DEF Path
<1>2. ASSUME NEW i \in 1 .. 10 PROVE Rank(Path[i]) = i
  <2>1. Path[i] # "aborted"
    BY <1>1
  <2>2. \A j \in 1 .. 10 : Path[j] = Path[i] => j = i
    BY <1>1
  <2>3. (CHOOSE j \in DOMAIN Path : Path[j] = Path[i]) = i
    BY <1>1, <2>2
  <2> QED
    BY <2>1, <2>3 DEF Rank
<1>3. Rank("aborted") = 0 /\ Rank("merging") = 8 /\ Rank("cleaned") = 10
  BY <1>1, <1>2 DEF Rank
<1>4. \A s \in States : Rank(s) \in 0 .. 10
  BY <1>1, <1>2, <1>3 DEF States
<1>5. ASSUME NEW s \in States, CanAdvance(s, "merging") PROVE Rank(s) <= 8
  <2>1. \/ s = "merging"
        \/ \E i \in 1 .. 9 : Path[i] = s /\ Path[i + 1] = "merging"
        \/ \E i, j \in 1 .. 10 : i < j /\ Path[i] = s /\ Path[j] = "merging"
    BY <1>1, <1>5 DEF CanAdvance, ValidTransition
  <2>2. \A j \in 1 .. 10 : Path[j] = "merging" => j = 8
    BY <1>1
  <2>3. ASSUME NEW i \in 1 .. 9, Path[i] = s, Path[i + 1] = "merging" PROVE Rank(s) <= 8
    BY <1>2, <2>2, <2>3
  <2>4. ASSUME NEW i \in 1 .. 10, NEW j \in 1 .. 10,
               i < j, Path[i] = s, Path[j] = "merging"
        PROVE  Rank(s) <= 8
    BY <1>2, <2>2, <2>4
  <2> QED
    BY <1>3, <2>1, <2>3, <2>4
<1> QED
  BY <1>3, <1>4, <1>5

\* Growing is an order of records.
LEMMA GrowsFacts ==
    /\ \A r \in Records : Grows(r, r)
    /\ \A q, r, t \in Records : Grows(q, r) /\ Grows(r, t) => Grows(q, t)
<1>1. \A r \in Records : Rank(r.state) \in 0 .. 10
  BY RankFacts DEF Records
<1> QED
  BY <1>1 DEF Grows

\* What a step of a call makes of the file and of the call's copy: it loads
\* the file, returns, restores, saves, or works on its copy.
Loads(c) ==
    /\ file' = file /\ Loadable
    /\ calls[c].at = "idle"
    /\ calls'[c].at \in {"save", "commit", "mark"}
    /\ Grows(file, calls'[c].rec)
    /\ calls'[c].at = "mark" => calls'[c].rec.state = "merging"

Works(c) ==
    /\ file' = file
    /\ calls[c].at \notin {"idle", "restore", "mark"}
    /\ calls'[c].at \notin {"idle", "mark", "marked"}
    /\ calls[c].at = "tree" \/ Grows(calls[c].rec, calls'[c].rec)

Saves(c) ==
    /\ file' = calls[c].rec
    /\ calls'[c].rec = calls[c].rec
    /\ \/ calls[c].at = "save" /\ calls'[c].at = "saved"
       \/ calls[c].at = "mark" /\ calls'[c].at = "marked"

Merging == {"marked", "resolve", "temp", "merge", "push_base", "pr", "pr_merge"}

LEMMA CopySteps ==
    ASSUME TypeOK, NEW c \in Calls, CallStep(c)
    PROVE  \/ Loads(c) \/ Works(c) \/ Saves(c)
           \/ file' = file /\ calls'[c].at \in {"idle", "restore", "tree"}
           \/ calls[c].at = "restore" /\ calls'[c].at = "idle"
<1>1. calls \in [Calls -> CallRecords] /\ calls[c] \in CallRecords /\ calls[c].rec \in Records
  BY DEF TypeOK, CallRecords
<1>2. Grows(calls[c].rec, calls[c].rec)
  BY <1>1, GrowsFacts
<1>3. CASE StartStep(c)
  BY <1>1, <1>3 DEF StartStep, Start, StartTree, Carries, Works, CallRecords
<1>4. CASE Commit(c)
  <2>1. Grows(file, file)
    BY <1>4, GrowsFacts DEF Commit, Loadable
  <2> QED
    BY <1>1, <1>4, <2>1 DEF Commit, Carries, Loads, CallRecords
<1>5. CASE CommitNothing(c) \/ CommitPush(c)
  BY <1>1, <1>2, <1>5 DEF CommitNothing, CommitPush, Goes, Works, CallRecords
<1>6. CASE CommitMade(c)
  <2>1. Grows(calls[c].rec, [calls[c].rec EXCEPT !.artifacts = @ \cup {git.made + 1}])
    BY <1>1, <1>2 DEF Grows, Records
  <2> QED
    BY <1>1, <1>2, <1>6, <2>1 DEF CommitMade, Goes, Carries, Works, CallRecords
<1>7. CASE Finish(c)
  <2>1. file \in Records /\ Grows(file, file)
    BY <1>7, GrowsFacts DEF Finish, Loadable
  <2>2. CASE Carries(c, "save", file)
    BY <1>1, <1>7, <2>1, <2>2 DEF Finish, Carries, Loads, CallRecords
  <2>3. CASE /\ CanAdvance(file.state, "merging")
             /\ Carries(c, "mark", [file EXCEPT !.state = "merging"])
    <3>1. Grows(file, [file EXCEPT !.state = "merging"])
      BY <2>1, <2>3, RankFacts DEF Grows, Records
    <3>2. [file EXCEPT !.state = "merging"].state = "merging"
      BY <2>1 DEF Records
    <3> QED
      BY <1>1, <1>7, <2>3, <3>1, <3>2 DEF Finish, Carries, Loads, CallRecords
  <2> QED
    BY <1>7, <2>2, <2>3 DEF Finish
<1>8. CASE ResolveIdentity(c)
  <2>1. CASE calls[c].rec.branch = "main" /\ ~git.worktree
    BY <1>1, <1>8, <2>1 DEF ResolveIdentity, Returns, Idle
  <2>2. CASE ~(calls[c].rec.branch = "main" /\ ~git.worktree)
    <3>1. PICK way \in {"local", "pr"} :
            calls' = [calls EXCEPT ![c].at = IF way = "pr" THEN "pr" ELSE "temp",
                                   ![c].via = way, ![c].rec.branch = "issue"]
      BY <1>8, <2>2 DEF ResolveIdentity
    <3>2. /\ calls'[c].at \in {"pr", "temp"}
          /\ calls'[c].rec = [calls[c].rec EXCEPT !.branch = "issue"]
      BY <1>1, <3>1 DEF CallRecords
    <3>3. Grows(calls[c].rec, [calls[c].rec EXCEPT !.branch = "issue"])
      BY <1>1, <1>2 DEF Grows, Records
    <3> QED
      BY <1>8, <3>2, <3>3 DEF ResolveIdentity, Works
  <2> QED
    BY <2>1, <2>2
<1>9. CASE TempStep(c) \/ PrStep(c) \/ Cleanup(c) \/ DeleteBranch(c)
  <2>1. PICK place \in {"merge", "save", "push_base", "remove_temp", "cleanup", "pr_merge",
                        "delete_branch", "close"} : Goes(c, place)
    BY <1>9
       DEF TempStep, CreateTemp, CreateTempFails, ExistingTempBlocks, ContinueTemp,
           MergeBranch, PushBase, PushBaseFails, RemoveTemp, PrStep, OpenPullRequest,
           MergePullRequest, Cleanup, DeleteBranch
  <2>2. file' = file /\ calls[c].at \notin {"idle", "restore", "mark"}
    BY <1>9
       DEF TempStep, CreateTemp, CreateTempFails, ExistingTempBlocks, ContinueTemp,
           MergeBranch, PushBase, PushBaseFails, RemoveTemp, PrStep, OpenPullRequest,
           MergePullRequest, Cleanup, DeleteBranch
  <2> QED
    BY <1>1, <1>2, <2>1, <2>2 DEF Goes, Works, CallRecords
<1>10. CASE CloseIssue(c)
  <2>1. Grows(calls[c].rec, [calls[c].rec EXCEPT !.state = "cleaned"])
    BY <1>1, RankFacts DEF Grows, Records
  <2> QED
    BY <1>1, <1>10, <2>1 DEF CloseIssue, Carries, Works, CallRecords
<1>11. CASE Resume(c)
  BY <1>1, <1>11 DEF Resume, Carries, CallRecords
<1>12. ASSUME NEW p \in Pointers, RecordArtifact(c, p) PROVE Loads(c)
  <2>1. file \in Records /\ Grows(file, file)
    BY <1>12, GrowsFacts DEF RecordArtifact, Loadable
  <2>2. Grows(file, [file EXCEPT !.artifacts = @ \cup {p}])
    BY <2>1 DEF Grows, Records
  <2> QED
    BY <1>1, <1>12, <2>2 DEF RecordArtifact, Carries, Loads, CallRecords
<1>13. CASE Save(c)
  <2>1. \/ calls[c].at = "save" /\ Goes(c, "saved")
        \/ calls[c].at = "mark" /\ Goes(c, "marked")
        \/ calls[c].at = "restore" /\ Returns(c)
    BY <1>13 DEF Save
  <2>2. file' = calls[c].rec
    BY <1>13 DEF Save
  <2> QED
    BY <1>1, <2>1, <2>2 DEF Goes, Returns, Saves, Idle, CallRecords
<1>14. CASE Sync(c)
  BY <1>1, <1>2, <1>14 DEF Sync, Goes, Returns, Works, Idle, CallRecords
<1> QED
  BY <1>3, <1>4, <1>5, <1>6, <1>7, <1>8, <1>9, <1>10, <1>11, <1>12, <1>13, <1>14
     DEF CallStep, CommitStep, FinishStep

\* A finish is merging only after the save that marked the record.
LEMMA MergingSteps ==
    ASSUME TypeOK, NEW c \in Calls, CallStep(c), calls'[c].at \in Merging
    PROVE  calls[c].at \in Merging \/ calls[c].at = "mark"
<1>1. calls \in [Calls -> CallRecords] /\ calls[c] \in CallRecords
  BY DEF TypeOK
<1>2. CASE StartStep(c) \/ CommitStep(c) \/ Finish(c) \/ CloseIssue(c) \/ Resume(c)
           \/ \E p \in Pointers : RecordArtifact(c, p)
  BY <1>1, <1>2
     DEF StartStep, Start, StartTree, CommitStep, Commit, CommitNothing, CommitMade,
         CommitPush, Finish, CloseIssue, Resume, RecordArtifact, Goes, Carries, Merging,
         CallRecords
<1>3. CASE ResolveIdentity(c) \/ Sync(c)
  <2>1. ResolveIdentity(c) => calls[c].at = "resolve"
    BY DEF ResolveIdentity
  <2>2. Sync(c) => calls[c].at = "marked" \/ Returns(c)
    BY DEF Sync
  <2> QED
    BY <1>1, <1>3, <2>1, <2>2 DEF Returns, Idle, Merging, CallRecords
<1>5. CASE Save(c)
  <2>1. \/ calls[c].at = "save" /\ Goes(c, "saved")
        \/ calls[c].at = "mark"
        \/ calls[c].at = "restore" /\ Returns(c)
    BY <1>5 DEF Save
  <2> QED
    BY <1>1, <2>1 DEF Goes, Returns, Idle, Merging, CallRecords
<1>4. CASE TempStep(c) \/ PrStep(c) \/ Cleanup(c) \/ DeleteBranch(c)
  BY <1>1, <1>4
     DEF TempStep, CreateTemp, CreateTempFails, ExistingTempBlocks, ContinueTemp,
         MergeBranch, PushBase, PushBaseFails, RemoveTemp, PrStep, OpenPullRequest,
         MergePullRequest, Cleanup, DeleteBranch, Goes, Merging, CallRecords
<1> QED
  BY <1>2, <1>3, <1>4, <1>5 DEF CallStep, FinishStep

\* A call that begins is busy.
LEMMA LeavesIdle ==
    ASSUME TypeOK, NEW c \in Calls, CallStep(c), calls[c].at = "idle"
    PROVE  calls'[c].at # "idle"
<1>1. calls \in [Calls -> CallRecords] /\ calls[c] \in CallRecords
  BY DEF TypeOK
<1>2. \/ Start(c) \/ Commit(c) \/ Finish(c) \/ Resume(c)
      \/ \E p \in Pointers : RecordArtifact(c, p)
  BY DEF CallStep, StartStep, StartTree, CommitStep, CommitNothing, CommitMade,
         CommitPush, FinishStep, ResolveIdentity, TempStep, CreateTemp, CreateTempFails,
         ExistingTempBlocks, ContinueTemp, MergeBranch, PushBase, PushBaseFails,
         RemoveTemp, PrStep, OpenPullRequest, MergePullRequest, Cleanup, DeleteBranch,
         CloseIssue, Save, Sync
<1> QED
  BY <1>1, <1>2 DEF Start, Commit, Finish, Resume, RecordArtifact, Carries, CallRecords

\* While one call is busy the others are idle.
LEMMA OthersIdle ==
    ASSUME TypeOK, Alone, Alone', NEW c \in Calls, CallStep(c)
    PROVE  \A d \in Calls \ {c} : calls'[d] = calls[d] /\ calls[d].at = "idle"
<1>1. \A d \in Calls \ {c} : calls'[d] = calls[d]
  BY OthersStay
<1>2. ASSUME NEW d \in Calls \ {c}, calls[d].at # "idle" PROVE FALSE
  <2>1. d \in Busy /\ d \in Busy'
    BY <1>1, <1>2 DEF Busy
  <2>2. calls[c].at # "idle" \/ calls'[c].at # "idle"
    BY LeavesIdle
  <2>3. c \in Busy \/ c \in Busy'
    BY <2>2 DEF Busy
  <2> QED
    BY <2>1, <2>3 DEF Alone
<1> QED
  BY <1>1, <1>2

AloneInv == Alone /\ LifecycleInv /\ CopyAhead /\ MarkedOnDisk

LEMMA CopiesStay ==
    ASSUME AloneInv, Alone', NEW c \in Calls, CallStep(c)
    PROVE  CopyAhead' /\ MarkedOnDisk'
<1>1. /\ TypeOK /\ Alone /\ CopyAhead /\ MarkedOnDisk /\ StartIsAlone
      /\ calls[c].rec \in Records
  BY DEF AloneInv, LifecycleInv, TypeOK, CallRecords
<1>2. \A d \in Calls \ {c} : calls'[d] = calls[d] /\ calls[d].at = "idle"
  BY <1>1, OthersIdle DEF AloneInv
<1>3. calls'[c].rec \in Records
  BY <1>1, TypeStep DEF Next, TypeOK, CallRecords
<1>4. ASSUME calls'[c].at \notin {"idle", "restore"}, Loadable'
      PROVE  Grows(file', calls'[c].rec)
  <2>1. CASE Loads(c)
    BY <2>1 DEF Loads
  <2>2. CASE Works(c)
    <3>1. calls[c].at # "tree"
      BY <1>1, <1>4, <2>2, LifecycleAssumption DEF StartIsAlone, Works, Loadable
    <3>2. Loadable /\ Grows(file, calls[c].rec)
      BY <1>1, <1>4, <2>2 DEF Works, CopyAhead, Loadable
    <3> QED
      BY <1>1, <1>3, <2>2, <3>1, <3>2, GrowsFacts DEF Works, Loadable
  <2>3. CASE Saves(c)
    BY <1>1, <2>3, GrowsFacts DEF Saves
  <2>4. CASE file' = file /\ calls'[c].at = "tree"
    <3>1. Start(c)
      BY <1>1, <2>4, Moves
    <3>2. file = NoFile
      BY <1>1, <3>1 DEF Start, StartIsAlone
    <3> QED
      BY <1>4, <2>4, <3>2, LifecycleAssumption DEF Loadable
  <2> QED
    BY <1>1, <1>4, <2>1, <2>2, <2>3, <2>4, CopySteps
<1>5. calls'[c].at = "mark" => calls'[c].rec.state = "merging"
  BY <1>1, CopySteps DEF Loads, Works, Saves
<1>6. ASSUME calls'[c].at \in Merging PROVE Loadable' /\ file'.state = "merging"
  <2>1. CASE Saves(c)
    <3>1. calls[c].at = "mark"
      BY <1>6, <2>1 DEF Saves, Merging
    <3> QED
      BY <1>1, <2>1, <3>1 DEF Saves, MarkedOnDisk, Loadable
  <2>2. CASE Works(c)
    <3>1. calls[c].at \in Merging
      <4>1. calls[c].at # "mark"
        BY <2>2 DEF Works
      <4> QED
        BY <1>1, <1>6, <4>1, MergingSteps
    <3> QED
      BY <1>1, <2>2, <3>1 DEF Works, MarkedOnDisk, Merging, Loadable
  <2>3. ~Loads(c) /\ calls'[c].at \notin {"idle", "restore", "tree"}
    BY <1>6 DEF Loads, Merging
  <2> QED
    BY <1>1, <2>1, <2>2, <2>3, CopySteps
<1>7. \A d \in Calls \ {c} : calls'[d].at = "idle"
  BY <1>2
<1>8. CopyAhead'
  BY <1>4, <1>7 DEF CopyAhead
<1>9. MarkedOnDisk'
  BY <1>5, <1>6, <1>7 DEF MarkedOnDisk, Merging
<1> QED
  BY <1>8, <1>9

LEMMA AloneInit == Init => AloneInv
<1> SUFFICES ASSUME Init PROVE AloneInv
  OBVIOUS
<1>1. \A c \in Calls : calls[c].at = "idle"
  BY DEF Init, Idle
<1> QED
  BY <1>1, LifecycleInit DEF AloneInv, Alone, Busy, CopyAhead, MarkedOnDisk

LEMMA AloneStep == AloneInv /\ [Next /\ Alone']_vars => AloneInv'
<1> SUFFICES ASSUME AloneInv, [Next /\ Alone']_vars PROVE AloneInv'
  OBVIOUS
<1>1. LifecycleInv'
  BY LifecycleStep DEF AloneInv
<1>2. CASE UNCHANGED vars
  BY <1>1, <1>2
     DEF vars, AloneInv, Alone, Busy, CopyAhead, MarkedOnDisk, Loadable
<1>3. ASSUME Alone', NEW c \in Calls, CallStep(c) PROVE AloneInv'
  BY <1>1, <1>3, CopiesStay DEF AloneInv
<1>4. ASSUME Alone', Edit \/ ResolveConflict PROVE AloneInv'
  <2>1. calls' = calls /\ file' = file
    BY <1>4 DEF Edit, ResolveConflict
  <2> QED
    BY <1>1, <1>4, <2>1 DEF AloneInv, CopyAhead, MarkedOnDisk, Loadable
<1>5. ASSUME Alone', Crash PROVE AloneInv'
  <2>1. \A c \in Calls : calls'[c].at = "idle"
    BY <1>5 DEF Crash, Idle
  <2> QED
    BY <1>1, <1>5, <2>1 DEF AloneInv, CopyAhead, MarkedOnDisk
<1> QED
  BY <1>2, <1>3, <1>4, <1>5 DEF Next

\* A save of a call that came alone writes what grew from the file.
LEMMA GrowsStep == AloneInv /\ [Next /\ Alone']_vars => RecordGrows
<1> SUFFICES ASSUME AloneInv, [Next /\ Alone']_vars, Loadable, file' \in Records, ~Restoring
             PROVE  Grows(file, file')
  BY DEF RecordGrows
<1>1. Grows(file, file)
  BY GrowsFacts DEF Loadable
<1>2. CASE file' = file
  BY <1>1, <1>2
<1>3. ASSUME NEW c \in Calls, CallStep(c) PROVE Grows(file, file')
  <2>1. calls[c].at # "restore"
    BY DEF Restoring
  <2>2. file' = file \/ Saves(c)
    BY <1>3, <2>1, CopySteps DEF AloneInv, LifecycleInv, Loads, Works
  <2>3. CASE Saves(c)
    BY <2>3 DEF AloneInv, CopyAhead, Saves
  <2> QED
    BY <1>2, <2>2, <2>3
<1>4. CASE Edit \/ ResolveConflict \/ Crash \/ UNCHANGED vars
  BY <1>2, <1>4, LifecycleAssumption DEF Edit, ResolveConflict, Crash, vars
<1> QED
  BY <1>3, <1>4 DEF Next

LEMMA LandsStep == AloneInv /\ [Next /\ Alone']_vars => LandsMarked
<1> SUFFICES ASSUME AloneInv, [Next /\ Alone']_vars, git'.landed, ~git.landed
             PROVE  Loadable /\ file.state = "merging"
  BY DEF LandsMarked
<1>1. git \in Refs /\ TypeOK
  BY DEF AloneInv, LifecycleInv, TypeOK
<1>2. ASSUME NEW c \in Calls, CallStep(c) PROVE PushBase(c) \/ MergePullRequest(c)
  BY <1>1, <1>2
     DEF CallStep, StartStep, Start, StartTree, CommitStep, Commit, CommitNothing,
         CommitMade, CommitPush, FinishStep, Finish, ResolveIdentity, TempStep,
         CreateTemp, CreateTempFails, ExistingTempBlocks, ContinueTemp, MergeBranch,
         PushBaseFails, RemoveTemp, PrStep, OpenPullRequest, Cleanup, DeleteBranch,
         CloseIssue, Resume, RecordArtifact, Save, Sync, Refs
<1>3. ASSUME NEW c \in Calls, CallStep(c) PROVE Loadable /\ file.state = "merging"
  <2>1. calls[c].at \in {"push_base", "pr_merge"}
    BY <1>2, <1>3 DEF PushBase, MergePullRequest
  <2> QED
    BY <2>1 DEF AloneInv, MarkedOnDisk
<1>4. ~(Edit \/ ResolveConflict \/ Crash \/ UNCHANGED vars)
  BY <1>1 DEF Edit, ResolveConflict, Crash, vars, Refs
<1> QED
  BY <1>3, <1>4 DEF Next

\* When calls come one at a time, no save moves the record back or drops an
\* artifact of it, wherever the process dies; only lifecycle_resume may
\* (saveAndSync, src/lifecycle/index.ts).
THEOREM RecordsGrow == AloneSpec => [][RecordGrows]_vars
<1>1. AloneSpec => []AloneInv
  BY AloneInit, AloneStep, PTL DEF AloneSpec
<1> QED
  BY <1>1, GrowsStep, PTL DEF AloneSpec

\* When calls come one at a time, the branch lands on the base only while the
\* saved record says merging (executeFinish, src/lifecycle/index.ts).
THEOREM LandsOnlyMarked == AloneSpec => [][LandsMarked]_vars
<1>1. AloneSpec => []AloneInv
  BY AloneInit, AloneStep, PTL DEF AloneSpec
<1> QED
  BY <1>1, LandsStep, PTL DEF AloneSpec

(***************************************************************************)
(* The run's two properties, in the behaviours that have its flag set.     *)
(***************************************************************************)
LEMMA RunStepIsAlone ==
    ASSUME alone, MCNext PROVE alone' /\ Next /\ Alone'
  BY DEF MCNext, Bounded

LEMMA RunIsAlone == MCSpec => [](alone => AloneInv)
<1>1. MCInit => (alone => AloneInv)
  BY AloneInit DEF MCInit
<1>2. (alone => AloneInv) /\ [MCNext]_mcVars => (alone => AloneInv)'
  <2> SUFFICES ASSUME alone => AloneInv, [MCNext]_mcVars, alone' PROVE AloneInv'
    OBVIOUS
  <2>1. alone /\ [Next /\ Alone']_vars
    <3>1. CASE MCNext
      BY <3>1, RunStepIsAlone DEF MCNext
    <3>2. CASE UNCHANGED mcVars
      BY <3>2 DEF mcVars
    <3> QED
      BY <3>1, <3>2
  <2> QED
    BY <2>1, AloneStep
<1> QED
  BY <1>1, <1>2, PTL DEF MCSpec

\* No save of a call that came alone moves the record back or drops an artifact
\* (saveAndSync, src/lifecycle/index.ts).
THEOREM RunRecordsGrow == MCSpec => RecordOnlyGrows
<1>1. (alone => AloneInv) /\ [MCNext]_mcVars => [alone => RecordGrows]_mcVars
  BY RunStepIsAlone, GrowsStep
<1> QED
  BY <1>1, RunIsAlone, PTL DEF MCSpec, RecordOnlyGrows

\* A call that came alone lands the branch only after it saved that it is merging
\* (executeFinish, src/lifecycle/index.ts).
THEOREM RunLandsMarked == MCSpec => LandsUnderMark
<1>1. (alone => AloneInv) /\ [MCNext]_mcVars => [alone => LandsMarked]_mcVars
  BY RunStepIsAlone, LandsStep
<1> QED
  BY <1>1, RunIsAlone, PTL DEF MCSpec, LandsUnderMark
=============================================================================
