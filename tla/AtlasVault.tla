----------------------------- MODULE AtlasVault -----------------------------
(***************************************************************************)
(* The Atlas vault on disk (src/tools/atlas, src/atlas): a cold init that  *)
(* discovers the project, asks the user, stages every page and then moves  *)
(* the staged pages into the vault one by one; a refresh, which takes the  *)
(* write lock to leave its log; and what the readers of the vault find.    *)
(*                                                                         *)
(* A cold init takes no lock.  Runs of several processes, which may be     *)
(* killed between any two file operations, share the directory.            *)
(***************************************************************************)
EXTENDS Naturals

CONSTANTS
    VaultPages,  \* the pages of the plan, the index and the run's log
    IndexPage,   \* 00-index.md, which collectNodes puts first
    VaultRuns,   \* runs that may be under way
    NoRun,
    MaxInits, MaxRefreshes \* bounds on how many are begun

ASSUME VaultAssumption ==
    /\ IndexPage \in VaultPages /\ NoRun \notin VaultRuns
    /\ {MaxInits, MaxRefreshes} \subseteq Nat

VARIABLES
    rooted,    \* atlas/ exists
    page,      \* pages that are in the vault
    marked,    \* the schema version file is written
    staged,    \* pages in each run's staging directory
    writeLock, \* the run the lock file names, and whether it is reclaimable
    vaultRun,  \* what each run is doing
    begun,     \* how many were begun
    brokenOff,      \* ghost: a run ended while it moved its pages in
    crossed,   \* ghost: two inits were under way at once
    contested  \* ghost: the lock was taken or lost behind its holder's back

vaultFiles == <<rooted, page, marked, staged, writeLock>>
vaultVars == <<vaultFiles, vaultRun, begun, brokenOff, crossed, contested>>

InitSteps == {"discovering", "asking", "making", "staging", "committing", "marking"}
VaultAtRest == [at |-> "idle", left |-> {}]
Unheld == [by |-> NoRun, stale |-> FALSE]

VaultInit ==
    /\ rooted = FALSE /\ page = {} /\ marked = FALSE
    /\ staged = [r \in VaultRuns |-> {}]
    /\ writeLock = Unheld
    /\ vaultRun = [r \in VaultRuns |-> VaultAtRest]
    /\ begun = [init |-> 0, refresh |-> 0]
    /\ brokenOff = FALSE /\ crossed = FALSE /\ contested = FALSE

At(r, at) == vaultRun' = [vaultRun EXCEPT ![r].at = at]
Initialising == {r \in VaultRuns : vaultRun[r].at \in InitSteps}
Holding == {r \in VaultRuns : vaultRun[r].at = "logging"}
Refreshing == {r \in VaultRuns : vaultRun[r].at \in {"locking", "logging"}}

-----------------------------------------------------------------------------
(* Cold init                                                               *)

\* runAtlasInit: a fresh one wants no vault; a rebuild removes the one there
\* is, with its staging and its lock, before anything is discovered.
InitBegins(r, rebuild) ==
    /\ vaultRun[r].at = "idle" /\ begun.init < MaxInits
    /\ rooted => rebuild
    /\ begun' = [begun EXCEPT !.init = @ + 1]
    /\ At(r, "discovering")
    /\ rooted' = FALSE /\ page' = {} /\ marked' = FALSE
    /\ staged' = [s \in VaultRuns |-> {}]
    /\ writeLock' = Unheld
    /\ crossed' = (crossed \/ Initialising # {})
    /\ contested' = (contested \/ Holding # {})
    /\ UNCHANGED brokenOff

\* discoverProject, which reads the repository and no page of the vault.
ProjectDiscovered(r) ==
    /\ vaultRun[r].at = "discovering"
    /\ At(r, "asking")
    /\ UNCHANGED <<vaultFiles, begun, brokenOff, crossed, contested>>

\* synthesizeVaultPlan: which pages there are to be, whatever the answers.
Planned == VaultPages

\* collectAnswers, with answers or without them.
Answered(r) ==
    /\ vaultRun[r].at = "asking"
    /\ At(r, "making")
    /\ UNCHANGED <<vaultFiles, begun, brokenOff, crossed, contested>>

\* Mutant of DirsMade: the schema version is written with the directories.
DirsMadeAndMarked(r) ==
    /\ vaultRun[r].at = "making"
    /\ rooted' = TRUE /\ marked' = TRUE
    /\ vaultRun' = [vaultRun EXCEPT ![r] =
                       [at |-> "staging", left |-> Planned]]
    /\ UNCHANGED <<page, staged, writeLock, begun, brokenOff, crossed, contested>>

\* ensureAtlasDirs
DirsMade(r) ==
    /\ vaultRun[r].at = "making"
    /\ rooted' = TRUE
    /\ vaultRun' = [vaultRun EXCEPT ![r] =
                       [at |-> "staging", left |-> Planned]]
    /\ UNCHANGED <<page, marked, staged, writeLock, begun, brokenOff, crossed,
                   contested>>

\* stagePageWrite makes the directories it needs.
PageStaged(r, n) ==
    /\ vaultRun[r].at = "staging" /\ n \in vaultRun[r].left
    /\ rooted' = TRUE
    /\ staged' = [staged EXCEPT ![r] = @ \cup {n}]
    /\ vaultRun' = [vaultRun EXCEPT ![r] =
           IF @.left = {n} THEN [at |-> "committing", left |-> Planned]
           ELSE [at |-> "staging", left |-> @.left \ {n}]]
    /\ UNCHANGED <<page, marked, writeLock, begun, brokenOff, crossed, contested>>

\* rollback removes the staging directory, and only that.
RolledBack(r) ==
    /\ staged' = [staged EXCEPT ![r] = {}]
    /\ vaultRun' = [vaultRun EXCEPT ![r] = VaultAtRest]

\* commitStagedPages: a page that is no longer staged ends the run.
PageCommitted(r, n) ==
    LET left == vaultRun[r].left IN
    /\ vaultRun[r].at = "committing"
    /\ n \in left /\ (IndexPage \in left => n = IndexPage)
    /\ rooted' = TRUE
    /\ IF n \in staged[r]
       THEN /\ page' = page \cup {n}
            /\ staged' = [staged EXCEPT ![r] = @ \ {n}]
            /\ vaultRun' = [vaultRun EXCEPT ![r] =
                   IF left = {n} THEN [at |-> "marking", left |-> {}]
                   ELSE [at |-> "committing", left |-> left \ {n}]]
       ELSE RolledBack(r) /\ UNCHANGED page
    /\ UNCHANGED <<marked, writeLock, begun, brokenOff, crossed, contested>>

\* A page cannot be written or moved: what was moved already stays.
CommitFails(r) ==
    /\ vaultRun[r].at \in {"staging", "committing"}
    /\ brokenOff' = (brokenOff \/ vaultRun[r].at = "committing")
    /\ RolledBack(r)
    /\ UNCHANGED <<rooted, page, marked, writeLock, begun, crossed, contested>>

\* writeSchemaVersion: without its directory it throws.
VaultMarked(r) ==
    /\ vaultRun[r].at = "marking"
    /\ marked' = rooted
    /\ RolledBack(r)
    /\ UNCHANGED <<rooted, page, writeLock, begun, brokenOff, crossed, contested>>

-----------------------------------------------------------------------------
(* Refresh                                                                 *)

\* runAtlasRefresh, as far as canReclaimExistingLock.
RefreshBegins(r) ==
    /\ vaultRun[r].at = "idle" /\ begun.refresh < MaxRefreshes
    /\ rooted /\ (writeLock = Unheld \/ writeLock.stale)
    /\ begun' = [begun EXCEPT !.refresh = @ + 1]
    /\ At(r, "locking")
    /\ contested' = (contested \/ \E s \in VaultRuns : vaultRun[s].at = "locking")
    /\ UNCHANGED <<vaultFiles, brokenOff, crossed>>

\* The lock file is written over whatever is there by now.
LockWritten(r) ==
    /\ vaultRun[r].at = "locking"
    /\ IF rooted THEN /\ writeLock' = [by |-> r, stale |-> FALSE]
                      /\ At(r, "logging")
       ELSE At(r, "idle") /\ UNCHANGED writeLock
    /\ UNCHANGED <<rooted, page, marked, staged, begun, brokenOff, crossed,
                   contested>>

\* releaseWriteLock: whosever lock it is.
LockRemoved == writeLock' = Unheld

\* writeMaintenanceLog, which makes its directory, and the release.
RefreshEnds(r) ==
    /\ vaultRun[r].at = "logging"
    /\ rooted' = TRUE
    /\ LockRemoved
    /\ At(r, "idle")
    /\ UNCHANGED <<page, marked, staged, begun, brokenOff, crossed, contested>>

\* The process is killed; what it staged, committed and locked stays.
RunDies(r) ==
    /\ vaultRun[r].at # "idle"
    /\ brokenOff' = (brokenOff \/ vaultRun[r].at \in {"committing", "marking"})
    /\ vaultRun' = [vaultRun EXCEPT ![r] = VaultAtRest]
    /\ UNCHANGED <<vaultFiles, begun, crossed, contested>>

\* isStale: the process is gone, and ATLAS_STALE_LOCK_MS have passed.
LockGoesStale ==
    /\ writeLock # Unheld /\ ~writeLock.stale
    /\ vaultRun[writeLock.by].at # "logging"
    /\ writeLock' = [writeLock EXCEPT !.stale = TRUE]
    /\ UNCHANGED <<rooted, page, marked, staged, vaultRun, begun, brokenOff, crossed,
                   contested>>

VaultNext ==
    \/ \E r \in VaultRuns :
        \/ \E rebuild \in BOOLEAN : InitBegins(r, rebuild)
        \/ ProjectDiscovered(r) \/ Answered(r) \/ DirsMade(r)
        \/ CommitFails(r) \/ VaultMarked(r)
        \/ \E n \in VaultPages : PageStaged(r, n) \/ PageCommitted(r, n)
        \/ RefreshBegins(r) \/ LockWritten(r) \/ RefreshEnds(r) \/ RunDies(r)
    \/ LockGoesStale

VaultSpec == VaultInit /\ [][VaultNext]_vaultVars

-----------------------------------------------------------------------------
(* Properties                                                              *)

\* getAtlasSummary: no index, no summary, whatever pages there are.
Summarised == IF rooted /\ IndexPage \in page THEN page ELSE {}

\* runLookup: the pages but for the index.
LookedUp == IF rooted THEN page \ {IndexPage} ELSE {}

\* The schema version stands for a whole vault, and what a prompt or a lookup
\* is given is all of a vault or nothing of it, unless an init is moving its
\* pages in or ended while it did, or two inits have crossed.
VaultIsWhole ==
    ~crossed =>
        /\ marked => page = Planned
        /\ \/ brokenOff \/ \E r \in VaultRuns : vaultRun[r].at = "committing"
           \/ /\ Summarised \in {{}, Planned}
              /\ LookedUp \in {{}, Planned \ {IndexPage}}

\* An init alone finds what it staged.
StagedIsThere ==
    \A r \in Initialising : ~crossed /\ vaultRun[r].at = "committing" =>
        vaultRun[r].left = staged[r]

\* One refresh at a time has the lock, and it is the one the lock names; only
\* two that both saw it free, or a rebuild, come between them.  A lock left
\* behind is a killed run's.
OneRefresh ==
    ~contested =>
        /\ \A r, s \in Holding : r = s
        /\ \A r \in Holding : writeLock.by = r

RunStates == [left : SUBSET VaultPages,
              at : InitSteps \cup {"idle", "locking", "logging"}]

VaultTypeOK ==
    /\ rooted \in BOOLEAN /\ marked \in BOOLEAN /\ page \subseteq VaultPages
    /\ staged \in [VaultRuns -> SUBSET VaultPages]
    /\ writeLock \in [by : VaultRuns \cup {NoRun}, stale : BOOLEAN]
    /\ vaultRun \in [VaultRuns -> RunStates]
    /\ begun \in [init : 0..MaxInits, refresh : 0..MaxRefreshes]
    /\ brokenOff \in BOOLEAN /\ crossed \in BOOLEAN /\ contested \in BOOLEAN

\* Which pages are in the vault and which are staged at each step of an init,
\* which has removed the schema version before its first step.
PagesFit(r) ==
    LET at == vaultRun[r].at
        left == vaultRun[r].left
    IN  /\ at \in InitSteps => ~marked
        /\ at \in {"discovering", "asking", "making"} => page = {} /\ staged[r] = {}
        /\ at = "staging" => page = {} /\ staged[r] = Planned \ left
        /\ at = "committing" => staged[r] = left /\ page = Planned \ left
        /\ at = "marking" => page = Planned

\* Inits that have not crossed run one after the other; after one there is
\* all of a vault or nothing of it, unless it ended while it moved its pages.
InitsInTurn ==
    ~crossed =>
        /\ \A r, s \in Initialising : r = s
        /\ \A r \in VaultRuns : PagesFit(r)
        /\ Initialising = {} =>
            /\ marked => page = Planned
            /\ brokenOff \/ page \in {{}, Planned}

\* Between the look at the lock and its release there is one refresh.
RefreshesInTurn ==
    ~contested =>
        /\ \A r, s \in Refreshing : r = s
        /\ \A r \in Holding : writeLock = [by |-> r, stale |-> FALSE]

VaultInv == /\ VaultTypeOK /\ InitsInTurn /\ RefreshesInTurn
            /\ VaultIsWhole /\ StagedIsThere /\ OneRefresh
=============================================================================
