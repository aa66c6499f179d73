----------------------------- MODULE Terminals -----------------------------
(***************************************************************************)
(* The PTY tools (src/tools/pty): the manager's table of terminals, the    *)
(* ring buffer each one's output goes through, and an agent that reads a   *)
(* buffer page by page, from the offset the last page told it to use.      *)
(*                                                                         *)
(* The manager's calls do not wait; the processes run on their own, and    *)
(* their output and their end are seen in callbacks.                       *)
(***************************************************************************)
EXTENDS Integers, Sequences, FiniteSets

CONSTANTS
    Terminals,      \* terminals that are spawned
    TerminalOwners, \* OpenCode sessions that spawn them
    MaxLines,       \* PTY_MAX_BUFFER_LINES
    PageSize,       \* ptyDefaultReadLimit
    MaxPrinted      \* bound on the lines a process prints

ASSUME TerminalAssumption ==
    {MaxLines, PageSize, MaxPrinted} \subseteq Nat \ {0}

VARIABLES
    terminal,  \* the manager's sessions, and the process behind each
    reader,    \* the agent's paged reading of each terminal
    departed   \* owners that OpenCode has reported deleted

terminalVars == <<terminal, reader, departed>>

\* The buffer calls each piece of a chunk between newlines a line; here it is
\* the count of such pieces so far.
Unborn(o) == [status |-> "unborn", owner |-> o, alive |-> FALSE,
              killed |-> FALSE, late |-> FALSE, lines |-> <<>>, printed |-> 0]
NewReader == [at |-> 0, seen |-> {}, slipped |-> FALSE]

TerminalInit ==
    /\ terminal \in [Terminals -> {Unborn(o) : o \in TerminalOwners}]
    /\ reader = [t \in Terminals |-> NewReader]
    /\ departed = {}

Listed(t) == terminal[t].status \notin {"unborn", "removed"}

\* spawnSession: nothing asks whether the owner is still there.
TerminalSpawned(t) ==
    /\ terminal[t].status = "unborn"
    /\ terminal' = [terminal EXCEPT
           ![t].status = "running", ![t].alive = TRUE,
           ![t].late = terminal[t].owner \in departed]
    /\ UNCHANGED <<reader, departed>>

\* Mutant of Appended: a full buffer takes no more lines.
AppendedWhileRoom(lines, new) ==
    IF Len(lines) + Len(new) > MaxLines THEN lines ELSE lines \o new

\* append: each line is pushed, and the first one shifted out of a full buffer.
Appended(lines, new) ==
    LET all == lines \o new
        from == IF Len(all) > MaxLines THEN Len(all) - MaxLines + 1 ELSE 1
    IN SubSeq(all, from, Len(all))

\* onData, which goes on after a kill that the process does not heed.
Prints(t, n) ==
    LET r == terminal[t]
        new == [i \in 1..n |-> r.printed + i]
    IN
    /\ r.alive /\ Listed(t) /\ r.printed + n <= MaxPrinted
    /\ terminal' = [terminal EXCEPT ![t].printed = @ + n,
                                    ![t].lines = Appended(@, new)]
    /\ reader' = [reader EXCEPT ![t].slipped =
           @ \/ (reader[t].at > 0 /\ Len(r.lines) + n > MaxLines)]
    /\ UNCHANGED departed

ProcessEnds(t) ==
    /\ terminal[t].alive
    /\ terminal' = [terminal EXCEPT ![t].alive = FALSE]
    /\ UNCHANGED <<reader, departed>>

\* onExit: a terminal already killed keeps that status.
ExitSeen(t) ==
    /\ ~terminal[t].alive /\ terminal[t].status = "running"
    /\ terminal' = [terminal EXCEPT ![t].status = "exited"]
    /\ UNCHANGED <<reader, departed>>

\* killSession: the process gets its signal, whatever it does with it.
Killed(r, cleanup) ==
    [r EXCEPT !.killed = @ \/ r.status = "running",
              !.status = IF cleanup THEN "removed"
                         ELSE IF r.status = "running" THEN "killed" ELSE @,
              !.lines = IF cleanup THEN <<>> ELSE @]

KillCalled(t, cleanup) ==
    /\ Listed(t)
    /\ terminal' = [terminal EXCEPT ![t] = Killed(@, cleanup)]
    /\ reader' = IF cleanup THEN [reader EXCEPT ![t] = NewReader] ELSE reader
    /\ UNCHANGED departed

\* cleanupDeletedSession: cleanupBySession.
OwnerDeparts(o) ==
    LET mine == {t \in Terminals : Listed(t) /\ terminal[t].owner = o} IN
    /\ o \notin departed
    /\ departed' = departed \cup {o}
    /\ terminal' = [t \in Terminals |->
           IF t \in mine THEN Killed(terminal[t], TRUE) ELSE terminal[t]]
    /\ reader' = [t \in Terminals |->
           IF t \in mine THEN NewReader ELSE reader[t]]

\* readFromSession, for the page at the offset that formatReadOutput gave
\* with the page before.
PageRead(t) ==
    LET lines == terminal[t].lines
        upTo == IF reader[t].at + PageSize < Len(lines)
                THEN reader[t].at + PageSize ELSE Len(lines)
    IN
    /\ Listed(t) /\ upTo > reader[t].at
    /\ reader' = [reader EXCEPT ![t].at = upTo, ![t].seen =
           @ \cup {lines[i] : i \in reader[t].at + 1 .. upTo}]
    /\ UNCHANGED <<terminal, departed>>

TerminalNext ==
    \/ \E t \in Terminals :
        \/ TerminalSpawned(t) \/ ProcessEnds(t) \/ ExitSeen(t) \/ PageRead(t)
        \/ \E n \in 1..2 : Prints(t, n)
        \/ \E cleanup \in BOOLEAN : KillCalled(t, cleanup)
    \/ \E o \in TerminalOwners : OwnerDeparts(o)

TerminalSpec == TerminalInit /\ [][TerminalNext]_terminalVars

-----------------------------------------------------------------------------
(* Properties                                                              *)

TerminalRecords ==
    [status : {"unborn", "running", "exited", "killed", "removed"},
     owner : TerminalOwners, alive : BOOLEAN, killed : BOOLEAN, late : BOOLEAN,
     lines : Seq(Nat), printed : 0..MaxPrinted]

TerminalTypeOK ==
    /\ terminal \in [Terminals -> TerminalRecords]
    /\ reader \in [Terminals -> [at : Nat, seen : SUBSET Nat, slipped : BOOLEAN]]
    /\ departed \subseteq TerminalOwners

\* A buffer holds the last MaxLines lines of the output, in order.
BufferIsTail ==
    \A t \in Terminals : Listed(t) =>
        LET r == terminal[t]
            kept == IF r.printed < MaxLines THEN r.printed ELSE MaxLines
        IN r.lines = [i \in 1..kept |-> r.printed - kept + i]

\* An agent that follows the offsets reads every line of the buffer up to
\* where it is, unless the full buffer moved under it: then the lines that
\* moved over the offset are skipped, and no message says so.
PagesAreComplete ==
    \A t \in Terminals : ~reader[t].slipped =>
        reader[t].seen = {terminal[t].lines[i] : i \in 1..reader[t].at}

\* A process outlives its owner only when it was signalled, or was spawned
\* by a call that the owner's deletion overtook.
NoOrphanTerminal ==
    \A t \in Terminals : terminal[t].alive /\ terminal[t].owner \in departed =>
        terminal[t].killed \/ terminal[t].late

\* "exited" is the end nobody asked for.
ExitIsItsOwn ==
    \A t \in Terminals : terminal[t].status = "exited" =>
        ~terminal[t].alive /\ ~terminal[t].killed

\* What each status says of the process, the buffer and its reader.
StatusIsTrue ==
    \A t \in Terminals : LET r == terminal[t] IN
        /\ r.status = "unborn" => r = Unborn(r.owner)
        /\ r.status = "running" => ~r.killed
        /\ r.status = "killed" => r.killed
        /\ r.status = "removed" => r.lines = <<>> /\ (r.alive => r.killed)
        /\ ~Listed(t) => reader[t] = NewReader
        /\ reader[t].at <= Len(r.lines)

TerminalInv ==
    /\ TerminalTypeOK /\ BufferIsTail /\ PagesAreComplete /\ NoOrphanTerminal
    /\ ExitIsItsOwn /\ StatusIsTrue
=============================================================================
