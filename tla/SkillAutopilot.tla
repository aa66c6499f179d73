--------------------------- MODULE SkillAutopilot ---------------------------
(***************************************************************************)
(* The skill autopilot (src/skill-autopilot): every lifecycle commit mines *)
(* candidates, counts how often and in how many issues each has come up,   *)
(* and writes the recurring ones as .opencode/skills/<name>/SKILL.md; a    *)
(* sweep after a merge deprecates skills whose sources have changed.       *)
(*                                                                         *)
(* Several OpenCode processes work in the same directory: the mutex of the *)
(* runner orders the runs of one process only.  The user edits the same    *)
(* files.                                                                  *)
(***************************************************************************)
EXTENDS Naturals, FiniteSets

CONSTANTS
    Triggers,    \* what candidates are about; a trigger's slug is its name
    Procedures,  \* lists of steps, NoSteps among them
    NoSteps,
    Unsafe,      \* candidates that a gate of runSecurityPipeline refuses
    SkillIssues, \* issues that commits belong to
    Processes,
    MinHits, MinIssues, MaxWrites,     \* config.skillAutopilot
    MaxCommits, MaxEdits, MaxSweeps,   \* bounds on what may happen
    Free         \* no process

Candidates == [trigger : Triggers, steps : Procedures]

ASSUME SkillAssumption ==
    /\ NoSteps \in Procedures /\ Unsafe \subseteq Candidates
    /\ {MinHits, MinIssues, MaxWrites, MaxCommits} \subseteq Nat
    /\ Free \notin Processes

VARIABLES
    skill,     \* the SKILL.md of each name
    locks,      \* the .lock directory beside it: who made it, and its age
    counts,    \* .state.json: hits and distinct issues of each candidate
    rejections,  \* .rejections.jsonl
    index,     \* names in INDEX.md
    run,       \* what each process is doing
    happened,  \* commits, edits by the user and sweeps so far
    seen,      \* ghost: issues in which each candidate did come up
    disputed,  \* ghost: names whose stale lock two processes took at once
    raced      \* ghost: names the user touched between a check and a write

files == <<skill, locks, counts, rejections, index>>
skillVars == <<files, run, happened, seen, disputed, raced>>

\* A second skill of the same slug gets a suffix.
Names == Triggers \X {1, 2}

\* written by a run, edited or frozen by the user after that, the user's own,
\* or the user's own without the version that parseSkillFile asks for.
Kinds == {"absent", "written", "edited", "frozen", "own", "unparsed"}
Users == {"edited", "frozen", "own", "unparsed"}

Texts == [kind : Kinds, deprecated : BOOLEAN]
CountTables ==
    [Candidates -> [hits : Nat, issues : SUBSET SkillIssues]]
Runs == [at : {"idle", "next", "locking", "stealing", "locked", "writing",
               "sweeping"},
         issue : SkillIssues \cup {0}, counts : CountTables,
         existing : SUBSET [name : Names, about : SUBSET Triggers],
         todo : SUBSET Candidates, writes : Nat, cause : SUBSET Candidates,
         name : Names \cup {<<>>}, text : Texts]

NoSkill == [kind |-> "absent", deprecated |-> FALSE]
Unlocked == [by |-> Free, stale |-> FALSE]
NoCounts == [c \in Candidates |-> [hits |-> 0, issues |-> {}]]
IdleRun == [at |-> "idle", issue |-> 0, counts |-> NoCounts, existing |-> {},
         todo |-> {}, writes |-> 0, cause |-> {}, name |-> <<>>,
         text |-> NoSkill]

\* parseSkillFile
Parses(n) == skill[n].kind \notin {"absent", "unparsed"}

\* discoverSkills: a file that parses and is not deprecated.
Discovered == {n \in Names : Parses(n) /\ ~skill[n].deprecated}

\* The trigger of a discovered skill; the user's own is about something else.
About(n) == IF skill[n].kind = "own" THEN {} ELSE {n[1]}

SkillInit ==
    /\ skill = [n \in Names |-> NoSkill]
    /\ locks = [n \in Names |-> Unlocked]
    /\ \E c \in Candidates, known \in SUBSET SkillIssues :
        /\ IsFiniteSet(known) /\ Cardinality(known) < MinIssues
        /\ counts = [NoCounts EXCEPT ![c] = [hits |-> Cardinality(known),
                                             issues |-> known]]
        /\ seen = [d \in Candidates |-> IF d = c THEN known ELSE {}]
    /\ rejections = {} /\ index = {}
    /\ run = [p \in Processes |-> IdleRun]
    /\ happened = [commits |-> 0, edits |-> 0, sweeps |-> 0]
    /\ disputed = {} /\ raced = {}

Happens(kind, most) ==
    /\ happened[kind] < most
    /\ happened' = [happened EXCEPT ![kind] = @ + 1]

-----------------------------------------------------------------------------
(* A run weighs its candidates                                             *)

\* extractRawCandidates: distinct candidates, any of them.
Mined == (SUBSET Candidates) \ {{}}

\* runInsideMutex reads the counts and the skills.
RunBegins(p, issue, mined) ==
    /\ run[p].at = "idle" /\ Happens("commits", MaxCommits)
    /\ run' = [run EXCEPT ![p] = [IdleRun EXCEPT
           !.at = "next", !.issue = issue, !.counts = counts, !.todo = mined,
           !.existing = {[name |-> n, about |-> About(n)] : n \in Discovered}]]
    /\ UNCHANGED <<files, seen, disputed, raced>>

\* bumpState
Bumped(p, c) ==
    [run[p].counts EXCEPT ![c] = [hits |-> @.hits + 1,
                                  issues |-> @.issues \cup {run[p].issue}]]

\* Mutant of Recurs: hits of one issue are enough.
RecursInOneIssue(p, c) == Bumped(p, c)[c].hits >= MinHits

\* decidePolicy does not skip the candidate.
Recurs(p, c) ==
    /\ run[p].writes < MaxWrites
    /\ Bumped(p, c)[c].hits >= MinHits
    /\ Cardinality(Bumped(p, c)[c].issues) >= MinIssues

\* A skill on disk is summarised without its steps: a candidate with steps is
\* never the same, one without is when the trigger is.
Patches(p, c) ==
    {e.name : e \in {x \in run[p].existing :
                        x.about = {c.trigger} /\ c.steps = NoSteps}}

\* runSecurityPipeline: no gate refuses the candidate.
Safe(c) == c \notin Unsafe

\* detectTriggerOverlap
Overlaps(p, c) == \E e \in run[p].existing : e.about = {c.trigger}

\* slugifySkillName
NewName(p, c) ==
    IF \E e \in run[p].existing : e.name = <<c.trigger, 1>>
    THEN <<c.trigger, 2>> ELSE <<c.trigger, 1>>

\* What is left of a run after candidate c.
Dropped(p, c) == [run[p] EXCEPT !.at = "next", !.todo = @ \ {c}]

\* processOne up to writeSkill.  The first skill that matches is patched.
Weighs(p, c) ==
    /\ run[p].at = "next" /\ c \in run[p].todo
    /\ IF c \in rejections
       THEN /\ run' = [run EXCEPT ![p] = Dropped(p, c)]
            /\ UNCHANGED <<rejections, seen>>
       ELSE LET r == [Dropped(p, c) EXCEPT !.counts = Bumped(p, c)]
                goes == [r EXCEPT !.at = "locking",
                                  !.text = [kind |-> "written",
                                            deprecated |-> FALSE]]
            IN
            /\ seen' = [seen EXCEPT ![c] = @ \cup {run[p].issue}]
            /\ \/ /\ ~Recurs(p, c)
                  /\ run' = [run EXCEPT ![p] = r] /\ UNCHANGED rejections
               \/ /\ Recurs(p, c)
                  /\ ~Safe(c) \/ (Patches(p, c) = {} /\ Overlaps(p, c))
                  /\ run' = [run EXCEPT ![p] = r]
                  /\ rejections' = rejections \cup {c}
               \/ /\ Recurs(p, c) /\ Patches(p, c) = {} /\ ~Overlaps(p, c)
                  /\ Safe(c)
                  /\ run' = [run EXCEPT ![p] =
                         [goes EXCEPT !.name = NewName(p, c), !.cause = {c}]]
                  /\ UNCHANGED rejections
               \/ /\ Recurs(p, c) /\ Safe(c)
                  /\ \E n \in Patches(p, c) :
                        run' = [run EXCEPT ![p] =
                                    [goes EXCEPT !.name = n, !.cause = {c}]]
                  /\ UNCHANGED rejections
    /\ UNCHANGED <<skill, locks, counts, index, happened, disputed, raced>>

-----------------------------------------------------------------------------
(* writeSkill                                                              *)

RunGoes(p, at) == run' = [run EXCEPT ![p].at = at]

\* acquireRenameLock: the directory is made, or another one is there.
Locks(p) ==
    LET n == run[p].name IN
    /\ run[p].at = "locking"
    /\ IF locks[n] = Unlocked
       THEN RunGoes(p, "locked") /\ locks' = [locks EXCEPT ![n].by = p]
       ELSE ~locks[n].stale /\ RunGoes(p, "next") /\ UNCHANGED locks
    /\ UNCHANGED <<skill, counts, rejections, index, happened, seen, disputed,
                   raced>>

\* A stale lock is seen, and removed in a later step.
SeesStaleLock(p) ==
    /\ run[p].at = "locking" /\ locks[run[p].name].stale
    /\ RunGoes(p, "stealing")
    /\ disputed' = disputed \cup
           {n \in {run[p].name} : \E o \in Processes :
                run[o].at = "stealing" /\ run[o].name = n}
    /\ UNCHANGED <<files, happened, seen, raced>>

\* rmdirSync removes whatever lock is there, and throws when there is none.
StealsLock(p) ==
    LET n == run[p].name IN
    /\ run[p].at = "stealing"
    /\ IF locks[n] = Unlocked THEN RunGoes(p, "next") /\ UNCHANGED locks
       ELSE /\ RunGoes(p, "locked")
            /\ locks' = [locks EXCEPT ![n] = [by |-> p, stale |-> FALSE]]
    /\ UNCHANGED <<skill, counts, rejections, index, happened, seen, disputed,
                   raced>>

\* Mutant of MayWrite: the version on disk is not compared.
MayWriteOver(n) == skill[n].kind \notin {"frozen", "own"}

\* decideSovereignty, which a file that does not parse passes, and the version
\* that atomicWriteSkill finds: it is asked to find none.
MayWrite(n) == skill[n].kind \in {"absent", "unparsed"}

\* releaseRenameLock removes whatever lock is there.
Releases(p) == locks' = [locks EXCEPT ![run[p].name] = Unlocked]

ChecksSkill(p) ==
    /\ run[p].at = "locked"
    /\ IF MayWrite(run[p].name) THEN RunGoes(p, "writing") /\ UNCHANGED locks
       ELSE RunGoes(p, "next") /\ Releases(p)
    /\ UNCHANGED <<skill, counts, rejections, index, happened, seen, disputed,
                   raced>>

WritesSkill(p) ==
    /\ run[p].at = "writing"
    /\ skill' = [skill EXCEPT ![run[p].name] = run[p].text]
    /\ run' = [run EXCEPT ![p].at = "next", ![p].writes = @ + 1]
    /\ Releases(p)
    /\ UNCHANGED <<counts, rejections, index, happened, seen, disputed, raced>>

\* saveState, and writeIndex when something was written.
RunEnds(p) ==
    /\ run[p].at = "next" /\ run[p].todo = {}
    /\ counts' = run[p].counts
    /\ index' = IF run[p].writes > 0 THEN Discovered ELSE index
    /\ run' = [run EXCEPT ![p] = IdleRun]
    /\ UNCHANGED <<skill, locks, rejections, happened, seen, disputed, raced>>

-----------------------------------------------------------------------------
(* The sweep, crashes, time and the user                                   *)

\* runStaleSweep reads a skill whose captured sources have changed.
SweepReads(p, n) ==
    /\ run[p].at = "idle" /\ Happens("sweeps", MaxSweeps)
    /\ n \in Discovered /\ skill[n].kind # "own"
    /\ run' = [run EXCEPT ![p].at = "sweeping", ![p].name = n,
                          ![p].text = [skill[n] EXCEPT !.deprecated = TRUE]]
    /\ UNCHANGED <<files, seen, disputed, raced>>

\* atomicWriteSkill, unless the version on disk is another: they are all 1.
SweepWrites(p) ==
    /\ run[p].at = "sweeping"
    /\ skill' = [skill EXCEPT ![run[p].name] = run[p].text]
    /\ run' = [run EXCEPT ![p] = IdleRun]
    /\ UNCHANGED <<locks, counts, rejections, index, happened, seen, disputed,
                   raced>>

\* The process dies: a lock it holds stays, and its counts are lost.
ProcessDies(p) ==
    /\ run[p].at \in {"locked", "writing"}
    /\ run' = [run EXCEPT ![p] = IdleRun]
    /\ UNCHANGED <<files, happened, seen, disputed, raced>>

\* staleMs passes.  A process that lives holds a lock for less than that.
LockAges(n) ==
    /\ locks[n] # Unlocked
    /\ \A p \in Processes : run[p].name = n =>
            run[p].at \notin {"locked", "writing"}
    /\ locks' = [locks EXCEPT ![n].stale = TRUE]
    /\ UNCHANGED <<skill, counts, rejections, index, run, happened, seen,
                   disputed, raced>>

\* The user writes, edits, freezes or deletes a skill file.
UserChanges(n, kind) ==
    /\ Happens("edits", MaxEdits)
    /\ kind \in {"edited", "frozen"} => skill[n].kind \in {"written", "edited"}
    /\ skill' = [skill EXCEPT ![n] = [kind |-> kind, deprecated |-> FALSE]]
    /\ raced' = raced \cup {run[p].name : p \in {q \in Processes :
                    run[q].at \in {"writing", "sweeping"}}}
    /\ UNCHANGED <<locks, counts, rejections, index, run, seen, disputed>>

SkillNext ==
    \/ \E p \in Processes :
        \/ \E issue \in SkillIssues, mined \in Mined :
               RunBegins(p, issue, mined)
        \/ \E c \in Candidates : Weighs(p, c)
        \/ Locks(p) \/ SeesStaleLock(p) \/ StealsLock(p) \/ ChecksSkill(p)
        \/ WritesSkill(p) \/ RunEnds(p) \/ SweepWrites(p) \/ ProcessDies(p)
        \/ \E n \in Names : SweepReads(p, n)
    \/ \E n \in Names :
        \/ LockAges(n)
        \/ \E kind \in Users \cup {"absent"} : UserChanges(n, kind)

SkillSpec == SkillInit /\ [][SkillNext]_skillVars

-----------------------------------------------------------------------------
(* Properties                                                              *)

SkillTypeOK ==
    /\ skill \in [Names -> Texts]
    /\ locks \in [Names -> [by : Processes \cup {Free}, stale : BOOLEAN]]
    /\ counts \in CountTables
    /\ rejections \subseteq Candidates /\ index \subseteq Names
    /\ run \in [Processes -> Runs]
    /\ \A p \in Processes :
        /\ run[p].at \notin {"idle", "next"} => run[p].name \in Names
        /\ run[p].at \notin {"idle", "sweeping"} => run[p].issue \in SkillIssues
    /\ happened \in [commits : Nat, edits : Nat, sweeps : Nat]
    /\ seen \in [Candidates -> SUBSET SkillIssues]
    /\ \A c \in Candidates : IsFiniteSet(seen[c])

\* The counts, which runs read, change and write back without a lock on them,
\* never claim more than what did come up: a lost update loses hits, it does
\* not make them up.  So what a run is about to write has come up in MinIssues
\* issues.
EvidenceIsReal ==
    /\ \A c \in Candidates :
        /\ counts[c].issues \subseteq seen[c]
        /\ \A p \in Processes : run[p].counts[c].issues \subseteq seen[c]
    /\ \A p \in Processes, c \in Candidates :
        run[p].at \in {"locking", "stealing", "locked", "writing"}
            /\ c \in run[p].cause => Cardinality(seen[c]) >= MinIssues

\* Two processes write the same skill at once only after both found a stale
\* lock there.
OneWriter ==
    \A p, o \in Processes :
        /\ p # o /\ run[p].name = run[o].name
        /\ {run[p].at, run[o].at} \subseteq {"locked", "writing"}
        => run[p].name \in disputed

\* Of a name that two processes did not take at once: who writes it holds its
\* lock, and who takes a stale lock is alone in doing so.
LocksAreHeld ==
    \A p \in Processes :
        LET n == run[p].name IN
        n \notin disputed =>
            /\ run[p].at \in {"locked", "writing"} =>
                  locks[n] = [by |-> p, stale |-> FALSE]
            /\ run[p].at = "stealing" =>
                  /\ locks[n].stale
                  /\ \A o \in Processes :
                        run[o].at = "stealing" /\ run[o].name = n => o = p

\* What a write under way found is still so, unless the user or a second
\* holder of the lock came: nothing to lose for a run, the same text for a
\* sweep.
FoundIsThere ==
    \A p \in Processes :
        LET n == run[p].name IN
        n \notin raced \cup disputed =>
            /\ run[p].at = "writing" => MayWrite(n)
            /\ run[p].at = "sweeping" =>
                  Parses(n) /\ run[p].text.kind = skill[n].kind

SkillInv ==
    /\ SkillTypeOK /\ EvidenceIsReal /\ OneWriter
    /\ LocksAreHeld /\ FoundIsThere

\* A skill file that parses, the user's own above all, is never replaced by a
\* run: it is deprecated, or the user changes it, or the write was already
\* under way when the user or a second holder of the lock came.
SkillTextKept ==
    [][\A n \in Names :
        \/ ~Parses(n) \/ n \in raced \cup disputed
        \/ skill'[n].kind = skill[n].kind
        \/ happened'.edits > happened.edits]_skillVars
=============================================================================
