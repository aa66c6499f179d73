--------------------------- MODULE ArtifactIndex ----------------------------
(***************************************************************************)
(* The index of plans, ledgers and milestone artifacts                     *)
(* (tools/artifact-index/index.ts) and the hook that indexes a file after  *)
(* it was written (hooks/artifact-auto-index.ts).  The database is one     *)
(* file for all projects and processes.  A record is a row and an entry of *)
(* a full-text table, kept together by separate statements, so another     *)
(* process or the end of this one may come between them.                   *)
(***************************************************************************)
EXTENDS Naturals, FiniteSets

CONSTANTS
    ArtifactFiles,   \* paths of plans, designs and ledgers, milestone ids
    NameSakes,       \* the paths among them whose file names are the same
    Milestones,      \* the milestone ids among them
    Indexers,        \* OpenCode processes
    MaxTexts,        \* bound on the versions of a file
    MaxDeaths        \* bound on processes that die or statements refused

ASSUME ArtifactAssumption ==
    /\ NameSakes \subseteq ArtifactFiles /\ Milestones \subseteq ArtifactFiles
    /\ NameSakes \cap Milestones = {} /\ ArtifactFiles # {}
    /\ {MaxTexts, MaxDeaths} \subseteq Nat

\* parsePlan, parseDesign and parseLedger derive the id from the file name
ArtifactId(f) == IF f \in NameSakes THEN CHOOSE g \in NameSakes : TRUE ELSE f
Ids == {ArtifactId(f) : f \in ArtifactFiles}
NoText == 0
IndexerResting == [at |-> "rest", file |-> CHOOSE f \in ArtifactFiles : TRUE,
            text |-> NoText]

VARIABLES
    texts,     \* the newest text of each file, NoText before the first write
    rows,      \* file -> text of its row, NoText without one
    entries,   \* the full-text entries: [id, text, by]
    indexing,  \* what each process is doing
    database,  \* per process: "unopened", "open" or "broken"
    cut,       \* files whose indexing was cut short by a death or a refusal
    deaths

artifactVars == <<texts, rows, entries, indexing, database, cut, deaths>>

ArtifactInit ==
    /\ texts = [f \in ArtifactFiles |-> NoText]
    /\ rows = [f \in ArtifactFiles |-> NoText]
    /\ entries = {}
    /\ indexing = [p \in Indexers |-> IndexerResting]
    /\ database = [p \in Indexers |-> "unopened"]
    /\ cut = {} /\ deaths = 0

Steps(p, at) == indexing' = [indexing EXCEPT ![p].at = at]
Rests(p) == indexing' = [indexing EXCEPT ![p] = IndexerResting]
File(p) == indexing[p].file

\* The hook runs after the write and reads the file before it asks for the
\* index.
FileWritten(p, f) ==
    /\ indexing[p] = IndexerResting /\ texts[f] < MaxTexts
    /\ texts' = [texts EXCEPT ![f] = @ + 1]
    /\ indexing' = [indexing EXCEPT ![p] = [at |-> "open", file |-> f,
                                            text |-> texts[f] + 1]]
    /\ UNCHANGED <<rows, entries, database, cut, deaths>>

(***************************************************************************)
(* getArtifactIndex remembers the index before it is initialised: when the *)
(* first initialisation fails, every later call of the process finds an    *)
(* index without a database.                                               *)
(***************************************************************************)
IndexOpened(p) ==
    /\ indexing[p].at = "open" /\ database[p] # "broken"
    /\ database' = [database EXCEPT ![p] = "open"] /\ Steps(p, "select")
    /\ UNCHANGED <<texts, rows, entries, cut, deaths>>

IndexRefused(p) ==
    /\ indexing[p].at = "open"
    /\ \/ /\ database[p] = "unopened" /\ deaths < MaxDeaths
          /\ deaths' = deaths + 1
          /\ database' = [database EXCEPT ![p] = "broken"]
       \/ database[p] = "broken" /\ UNCHANGED <<deaths, database>>
    /\ Rests(p) /\ cut' = cut \cup {File(p)}
    /\ UNCHANGED <<texts, rows, entries>>

\* SELECT the row of the file; DELETE its full-text entries
EntriesKept(p) ==
    /\ indexing[p].at = "select" /\ Steps(p, "upsert")
    /\ UNCHANGED <<texts, rows, entries, database, cut, deaths>>
EntriesDropped(p) ==
    /\ indexing[p].at = "select" /\ Steps(p, "upsert")
    /\ entries' = IF rows[File(p)] = NoText THEN entries
                  ELSE {e \in entries : e.id # ArtifactId(File(p))}
    /\ UNCHANGED <<texts, rows, database, cut, deaths>>

\* plans and ledgers: the upsert handles a row of the same path, and is
\* refused when another path has a row of the same id
IdTaken(f) == \E g \in NameSakes \ {f} : f \in NameSakes /\ rows[g] # NoText

RowUpserted(p) ==
    /\ indexing[p].at = "upsert" /\ ~IdTaken(File(p))
    /\ rows' = [rows EXCEPT ![File(p)] = indexing[p].text]
    /\ Steps(p, "insert")
    /\ UNCHANGED <<texts, entries, database, cut, deaths>>

RowRefused(p) ==
    /\ indexing[p].at = "upsert" /\ IdTaken(File(p))
    /\ File(p) \notin Milestones /\ Rests(p)
    /\ UNCHANGED <<texts, rows, entries, database, cut, deaths>>

\* the full-text table has no key: what was there stays
EntryInserted(p) ==
    /\ indexing[p].at = "insert" /\ Rests(p)
    /\ entries' = entries \cup {[id |-> ArtifactId(File(p)),
                                 text |-> indexing[p].text, by |-> p]}
    /\ UNCHANGED <<texts, rows, database, cut, deaths>>

\* the process dies, or SQLite reports that another process holds the lock
IndexingCut(p) ==
    /\ indexing[p].at \in {"select", "upsert", "insert"}
    /\ deaths < MaxDeaths /\ deaths' = deaths + 1
    /\ cut' = cut \cup {File(p)} /\ Rests(p)
    /\ \E dies \in BOOLEAN : database' =
         IF dies THEN [database EXCEPT ![p] = "unopened"] ELSE database
    /\ UNCHANGED <<texts, rows, entries>>

(***************************************************************************)
(* A search joins the matching full-text entries with the rows of their    *)
(* ids and returns the rows: the text that matched may be an older one.    *)
(***************************************************************************)
FileFound(f) == {e \in entries : e.id = ArtifactId(f) /\ rows[f] # NoText}

ArtifactNext ==
    \E p \in Indexers :
        \/ \E f \in ArtifactFiles : FileWritten(p, f)
        \/ IndexOpened(p)
        \/ IndexRefused(p)
        \/ EntriesDropped(p)
        \/ RowUpserted(p)
        \/ RowRefused(p)
        \/ EntryInserted(p)
        \/ IndexingCut(p)

ArtifactSpec == ArtifactInit /\ [][ArtifactNext]_artifactVars

ArtifactTypeOK ==
    /\ texts \in [ArtifactFiles -> 0..MaxTexts]
    /\ rows \in [ArtifactFiles -> 0..MaxTexts]
    /\ entries \subseteq [id : Ids, text : 1..MaxTexts, by : Indexers]
    /\ indexing \in [Indexers -> [file : ArtifactFiles, text : 0..MaxTexts,
                        at : {"rest", "open", "select", "upsert", "insert"}]]
    /\ \A p \in Indexers : indexing[p].at # "rest" => indexing[p].text # NoText
    /\ database \in [Indexers -> {"unopened", "open", "broken"}]
    /\ cut \subseteq ArtifactFiles

AtRest(f) == \A p \in Indexers :
    indexing[p] # IndexerResting => ArtifactId(File(p)) # ArtifactId(f)

\* Once nobody is indexing it, the text in the row of a file can be searched
\* for, whatever two processes did to it at once, unless one was cut short.
RowsAreSearchable ==
    \A f \in ArtifactFiles :
        (rows[f] # NoText /\ AtRest(f) /\ f \notin cut) =>
            \E e \in FileFound(f) : e.text = rows[f]

\* One process alone leaves one entry per row: a text it replaced can no
\* longer be found, unless an indexing was cut short.
OldTextsAreDropped ==
    \A f \in ArtifactFiles : \A e \in FileFound(f) :
        (AtRest(f) /\ f \notin cut /\ e.text # rows[f]) =>
            \E d \in entries : d.id = e.id /\ d.by # e.by

\* Only one path of a file name has a row.
OneRowPerName == \A f, g \in NameSakes :
    (rows[f] # NoText /\ rows[g] # NoText) => f = g

\* What is between a row and its entry: some process is about to replace the
\* row or to insert the entry of its text.
RowAwaitsEntry ==
    \A f \in ArtifactFiles : rows[f] # NoText /\ f \notin cut =>
        \/ \E e \in entries : e.id = ArtifactId(f) /\ e.text = rows[f]
        \/ \E p \in Indexers :
            /\ File(p) = f
            /\ \/ indexing[p].at = "upsert"
               \/ indexing[p].at = "insert" /\ indexing[p].text = rows[f]

\* Entries and those about to be inserted belong to rows, and a process that
\* has dropped the entries of a row has none of its own for it.
EntriesHaveRows ==
    /\ \A e \in entries : \E f \in ArtifactFiles :
            ArtifactId(f) = e.id /\ rows[f] # NoText
    /\ \A p \in Indexers :
        /\ indexing[p].at = "insert" => rows[File(p)] # NoText
        /\ indexing[p].at \in {"upsert", "insert"} /\ rows[File(p)] # NoText =>
            \A e \in entries : e.id = ArtifactId(File(p)) => e.by # p

\* A process other than q writes file f or has an entry for it.
Others(f, q) == \E p \in Indexers \ {q} :
    \/ File(p) = f /\ indexing[p].at \in {"upsert", "insert"}
    \/ \E d \in entries : d.id = ArtifactId(f) /\ d.by = p

\* A text that is not the row's, in the table or on its way, has come beside
\* another process.
OldTextsAreShared ==
    \A f \in ArtifactFiles : rows[f] # NoText /\ f \notin cut =>
        /\ \A e \in entries :
            e.id = ArtifactId(f) /\ e.text # rows[f] => Others(f, e.by)
        /\ \A q \in Indexers :
            File(q) = f /\ indexing[q].at = "insert" /\ indexing[q].text # rows[f] =>
                Others(f, q)

\* Rows and full-text entries agree (src/tools/artifact-index/index.ts).
ArtifactInv ==
    /\ ArtifactTypeOK /\ RowsAreSearchable /\ OldTextsAreDropped /\ OneRowPerName
    /\ RowAwaitsEntry /\ EntriesHaveRows /\ OldTextsAreShared
=============================================================================
