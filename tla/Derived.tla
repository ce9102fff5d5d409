-------------------------------- MODULE Derived --------------------------------
(***************************************************************************)
(* The derived index (innen-core index.rs) and the doctor that judges it   *)
(* (innen-core doctor).                                                    *)
(*                                                                         *)
(* `index rebuild` removes index.redb and fts/, replays the journal and    *)
(* writes first the redb tables, then the full text index, which tantivy   *)
(* creates without a document before it commits them; the rebuild may die  *)
(* or fail between any two of these steps.  Writers append to the journal  *)
(* meanwhile, lines get damaged, and whoever opens the journal moves the   *)
(* lines that do not parse to the quarantine.  `innen doctor` makes five   *)
(* checks one after another and writes nothing.                            *)
(*                                                                         *)
(* An event upserts a node or asserts an edge; every event has an id of    *)
(* its own.  The edge table of redb, which is written in the transaction   *)
(* of the other two and read by nobody, is left out.  One rebuild runs at  *)
(* a time.                                                                 *)
(***************************************************************************)
EXTENDS Naturals, Sequences

CONSTANTS
    Node,     \* ids of nodes
    Text,     \* what a node can say
    Uri,      \* targets of edges outside the graph
    None, Empty,  \* no such file or directory; an empty directory
    MaxEvent, MaxDamage, MaxBuild, MaxCrash, MaxDoctor  \* bounds

VARIABLES
    journal,    \* the events of the lines that parse
    damaged,    \* the journal has lines that do not
    quarantine, \* lines were moved to the quarantine directory
    redb,       \* index.redb: None, or its events and nodes
    fts,        \* fts/: None, Empty, or the text of each node it has
    cursor,     \* the harvest cursor's state, see tap.rs
    builder,    \* where the rebuild is
    entries,    \* the events that it read
    fresh,      \* the journal has not changed since the last build read it,
                \* and that build ended (history)
    doctor,     \* the check that the doctor makes next
    verdict,    \* the results of its checks so far
    steady,     \* nothing has changed since it began (history)
    next,       \* the id of the next event
    damages, builds, crashes, doctors

buildVars  == <<redb, fts, builder, entries>>
doctorVars == <<doctor, verdict, doctors>>
vars == <<journal, damaged, quarantine, buildVars, cursor, fresh, doctorVars, steady, next,
          damages, builds, crashes>>

-----------------------------------------------------------------------------
(***************************************************************************)
(* Replaying the journal, whose lines are in the order of their ids.       *)
(***************************************************************************)

NodeEvent(i, n, t) == [id |-> i, op |-> "node", from |-> n, to |-> t]
EdgeEvent(i, n, t) == [id |-> i, op |-> "edge", from |-> n, to |-> t]

UpsertsOf(events, n) == {e \in events : e.op = "node" /\ e.from = n}

Latest(upserts) == CHOOSE e \in upserts : \A f \in upserts : f.id <= e.id

\* The nodes that materialize shows: of the upserts of a node the last one.
Nodes(events) ==
    [n \in {m \in Node : UpsertsOf(events, m) # {}} |-> Latest(UpsertsOf(events, n)).to]

-----------------------------------------------------------------------------
Init ==
    /\ journal = {} /\ damaged = FALSE /\ quarantine = FALSE
    /\ redb = None /\ fts = None
    /\ cursor \in {"current", "unreadable"}
    /\ builder = "idle" /\ entries = {}
    /\ fresh = FALSE
    /\ doctor = "idle" /\ verdict = << >> /\ steady = FALSE
    /\ next = 1
    /\ damages = 0 /\ builds = 0 /\ crashes = 0 /\ doctors = 0

\* Opening the journal moves the lines that do not parse aside.
OpenJournal == quarantine' = (quarantine \/ damaged) /\ damaged' = FALSE

\* A writer opens the journal and appends.  `graph relate` knows both ends of
\* the edge it asserts, or its target is an address.
Write ==
    /\ next <= MaxEvent
    /\ \E e \in {NodeEvent(next, n, t) : n \in Node, t \in Text}
                \union {EdgeEvent(next, n, t) : n \in DOMAIN Nodes(journal),
                                                t \in DOMAIN Nodes(journal) \union Uri} :
          journal' = journal \union {e}
    /\ OpenJournal
    /\ next' = next + 1
    /\ fresh' = FALSE /\ steady' = FALSE
    /\ UNCHANGED <<buildVars, cursor, doctorVars, damages, builds, crashes>>

\* A line stops parsing: a torn write, a merge, an editor.
Damage ==
    /\ damages < MaxDamage
    /\ damages' = damages + 1
    /\ \E e \in journal : journal' = journal \ {e}
    /\ damaged' = TRUE
    /\ fresh' = FALSE /\ steady' = FALSE
    /\ UNCHANGED <<quarantine, buildVars, cursor, doctorVars, next, builds, crashes>>

-----------------------------------------------------------------------------
(***************************************************************************)
(* The rebuild.                                                            *)
(***************************************************************************)
BuildStep(from, to) == builder = from /\ builder' = to /\ steady' = FALSE

RedbRemoved == None

StartRebuild ==
    /\ builds < MaxBuild
    /\ builds' = builds + 1
    /\ BuildStep("idle", "remove_fts")
    /\ redb' = RedbRemoved
    /\ fresh' = FALSE
    /\ UNCHANGED <<journal, damaged, quarantine, fts, entries, cursor, doctorVars, next, damages,
                   crashes>>

\* remove_dir_all, then build creates the directory again.
RemoveFts ==
    /\ BuildStep("remove_fts", "read")
    /\ fts' = Empty
    /\ UNCHANGED <<journal, damaged, quarantine, redb, entries, cursor, fresh, doctorVars, next,
                   damages, builds, crashes>>

ReadJournal ==
    /\ BuildStep("read", "commit_redb")
    /\ OpenJournal
    /\ entries' = journal
    /\ fresh' = TRUE
    /\ UNCHANGED <<journal, redb, fts, cursor, doctorVars, next, damages, builds, crashes>>

\* The rows of the journal overwrite those of the tables and remove none.
Overwrite(old, new) ==
    [x \in DOMAIN old \union DOMAIN new |-> IF x \in DOMAIN new THEN new[x] ELSE old[x]]

\* A build that dies before the transaction commits leaves index.redb without
\* tables beside the directory Empty: no index, just as None is beside it.
CommitRedb ==
    /\ BuildStep("commit_redb", "create_fts")
    /\ redb' = IF redb = None THEN [events |-> entries, nodes |-> Nodes(entries)]
               ELSE [events |-> redb.events \union entries,
                     nodes |-> Overwrite(redb.nodes, Nodes(entries))]
    /\ UNCHANGED <<journal, damaged, quarantine, fts, entries, cursor, fresh, doctorVars, next,
                   damages, builds, crashes>>

\* The full text index that create_in_dir leaves: one that opens.
Created == Nodes({})

\* open_in_dir takes an index that opens as it is, create_in_dir writes the
\* meta.json of a new one.
CreateFts ==
    /\ BuildStep("create_fts", "commit_fts")
    /\ fts' = IF fts = Empty THEN Created ELSE fts
    /\ UNCHANGED <<journal, damaged, quarantine, redb, entries, cursor, fresh, doctorVars, next,
                   damages, builds, crashes>>

\* delete_all_documents, one document per node, one commit.
FtsTexts(old) == Nodes(entries)

CommitFts ==
    /\ BuildStep("commit_fts", "idle")
    /\ fts' = FtsTexts(fts)
    /\ entries' = {}
    /\ UNCHANGED <<journal, damaged, quarantine, redb, cursor, fresh, doctorVars, next, damages,
                   builds, crashes>>

\* The build dies, or an error ends it.
BuildDies ==
    /\ builder # "idle" /\ crashes < MaxCrash
    /\ crashes' = crashes + 1
    /\ builder' = "idle" /\ entries' = {}
    /\ fresh' = FALSE /\ steady' = FALSE
    /\ UNCHANGED <<journal, damaged, quarantine, redb, fts, cursor, doctorVars, next, damages,
                   builds>>

-----------------------------------------------------------------------------
(***************************************************************************)
(* The doctor.                                                             *)
(***************************************************************************)

\* A missing journal is an empty one; every line of it must parse.
JournalValid == ~damaged

QuarantineEmpty == ~quarantine

\* redb must hold the rows of the journal, ids and contents, and no others.
RedbMatches == redb.events = journal

\* Mutant of IndexOk: fts/ is not opened.
IndexOkRedbOnly(journalOk) ==
    IF redb = None /\ fts = None THEN journalOk
    ELSE redb # None /\ JournalValid /\ RedbMatches

\* With neither file there is nothing stale; both must open (an empty
\* directory is no index) and redb must match.  What fts/ holds is not looked at.
IndexOk(journalOk) ==
    IF redb = None /\ fts = None THEN journalOk
    ELSE /\ redb # None /\ fts \notin {None, Empty}
         /\ JournalValid
         /\ RedbMatches

Edges(events) == {e \in events : e.op = "edge"}

\* Every edge of the lines that parse leaves a known node, for a known node or
\* an address.
RefsResolve ==
    LET known == DOMAIN Nodes(journal)
    IN \A e \in Edges(journal) : e.from \in known /\ (e.to \in Uri \/ e.to \in known)

CursorOk == cursor \in {"missing", "current"}

Examines(check, result, then) ==
    /\ doctor = check
    /\ verdict' = Append(verdict, result)
    /\ doctor' = then
    /\ UNCHANGED <<journal, damaged, quarantine, buildVars, cursor, fresh, doctors, steady, next,
                   damages, builds, crashes>>

StartDoctor ==
    /\ doctor = "idle" /\ doctors < MaxDoctor
    /\ doctors' = doctors + 1
    /\ doctor' = "journal"
    /\ verdict' = << >>
    /\ steady' = (builder = "idle")
    /\ UNCHANGED <<journal, damaged, quarantine, buildVars, cursor, fresh, next, damages, builds,
                   crashes>>

CheckJournal    == Examines("journal", JournalValid, "quarantine")
CheckQuarantine == Examines("quarantine", QuarantineEmpty, "index")
CheckIndex      == Examines("index", IndexOk(verdict[1]), "refs")
CheckRefs       == Examines("refs", RefsResolve, "cursor")
CheckCursor     == Examines("cursor", CursorOk, "idle")

ExitCode(v) == IF ~v[1] \/ ~v[4] THEN 2
               ELSE IF ~v[2] \/ ~v[3] \/ ~v[5] THEN 1 ELSE 0

Next ==
    \/ Write \/ Damage
    \/ StartRebuild \/ RemoveFts \/ ReadJournal \/ CommitRedb \/ CreateFts \/ CommitFts
    \/ BuildDies
    \/ StartDoctor \/ CheckJournal \/ CheckQuarantine \/ CheckIndex \/ CheckRefs \/ CheckCursor

Spec == Init /\ [][Next]_vars

-----------------------------------------------------------------------------
(***************************************************************************)
(* Properties.                                                             *)
(***************************************************************************)

Built == builder = "idle" /\ redb # None /\ fts \notin {None, Empty}

\* "the next build restores everything" (index.rs): after a rebuild that ended
\* and until the journal changes, both files show the journal, whatever earlier
\* builds left behind.
RebuildShowsJournal ==
    Built /\ fresh => /\ redb.events = journal
                      /\ redb.nodes = Nodes(journal)
                      /\ fts = redb.nodes

Diagnosed == doctor = "idle" /\ Len(verdict) = 5

\* doctor: an exit code 0 given while nothing changed means that no line is
\* bad, that edges resolve and that index.redb, when there is one, shows what
\* the journal does, however many builds died half way.  So does fts/, unless a
\* build died after it created fts/ and before its commit: then fts/ opens and
\* has no document, and the doctor says ok of it (doctor/index.rs).
CleanBillIsTrue ==
    Diagnosed /\ steady /\ ExitCode(verdict) = 0 =>
        /\ JournalValid /\ RefsResolve
        /\ redb # None => /\ redb.nodes = Nodes(journal)
                          /\ fts = Nodes(journal) \/ (fts = Created /\ crashes > 0)

\* What the index files and doctor say of the journal is so (index.rs rebuild,
\* doctor).
IndexIsTrue == RebuildShowsJournal /\ CleanBillIsTrue
================================================================================
