-------------------------------- MODULE Ledger --------------------------------
(***************************************************************************)
(* The delivery ledger (innen-core artifact::ledger) of one archive, and   *)
(* the `innen artifact ledger` commands that write it and then mirror what *)
(* they wrote into the knowledge graph.                                    *)
(*                                                                         *)
(* A ledger is a manifest, a log of receipts and events, and an index and  *)
(* a timeline projected from the log.  Appending and projecting happen     *)
(* under an exclusive lock; what a command reads before and after it, and  *)
(* the mirroring, do not.  Commands may die at any step.                   *)
(*                                                                         *)
(* The log is kept as two sequences, since the code never looks at the     *)
(* order of a receipt and an event, and both projections as the number of  *)
(* entries they show.  Titles, categories, dates, --downloads-root, the    *)
(* index of older versions and an empty owner are left out.  A graph write *)
(* is one step here; module Journal shows what it consists of.             *)
(***************************************************************************)
EXTENDS Naturals, Sequences, FiniteSets

CONSTANTS
    Proc,        \* process ids of the commands
    Project,
    Registered,  \* projects that have a node in the graph
    Place,       \* paths of files
    Downloads,   \* those below the Downloads directory
    Bytes,       \* contents of files
    Document,    \* document identities
    Commands,    \* command lines, see CommandAssumption
    Disks,       \* contents of the files at the beginning
    None,        \* an option that is not given, a file that does not exist
    MaxCommand,  \* bounds: commands that start,
    MaxEdit,     \* changes of the files that receipts name,
    MaxFault     \* commands that die

Option(S) == S \union {None}
Relation  == {"belongs_to", "reference"}
Stage     == {"intake", "later"}
Counting  == [receipts : Nat, events : Nat]

Command ==
    [op       : {"init", "add", "note", "supersede", "relocate", "reclassify", "check"},
     project  : Option(Project),  \* --project-id, or --archive-project-id of an add
     archive  : Option(Project),  \* --archive-project-id
     receipt  : Nat,
     old      : Nat,              \* --superseded-receipt-id
     path     : Option(Place),
     sha      : Option(Bytes),    \* --expected-sha256
     stage    : Stage,
     owner    : Option(Project),
     relation : Relation,
     document : Option(Document)]

ASSUME CommandAssumption ==
    /\ Registered \subseteq Project /\ Downloads \subseteq Place
    /\ None \notin Project \union Place \union Bytes \union Document \union Commands
    /\ Disks \subseteq [Place -> Option(Bytes)]
    /\ {MaxCommand, MaxEdit, MaxFault} \subseteq Nat
    /\ \A c \in Commands :
          /\ c \in Command
          /\ c.op = "add" => c.owner # None /\ c.path # None
          /\ c.op # "add" => c.project # None
          /\ c.op = "relocate" => c.path # None

VARIABLES
    manifest,  \* "none", "torn" while it is being written, "whole"
    project,   \* the project named by the manifest
    created,   \* the log exists
    receipts,  \* the lines of the log that hold receipts,
    events,    \* and events
    loose,     \* the last line, when only its newline is missing
    torn,      \* the last line cannot be parsed
    index, timeline,  \* what the projections show
    stale,     \* temporary files of projections, left by commands that died
    unrelated, \* the archive holds a timeline or an index of other origin
    files,     \* the files that receipts name
    revision,  \* artifact-revision nodes of the graph
    noted,     \* nodes of ledger events
    documents, \* document nodes
    edges,     \* the live edges that start at artifact-revision nodes
    run,       \* the local state of each process
    answered,  \* entries whose command reported success (history)
    tainted,   \* receipts two commands worked on at once, or whose command
               \* failed after it wrote (history)
    calm,      \* checks during which no file changed (history)
    commands, edits, faults  \* counters behind the bounds

headVars    == <<manifest, project, created>>
logVars     == <<receipts, events, loose, torn>>
showVars    == <<index, timeline, stale>>
outside     == <<unrelated, files>>
graphVars   == <<revision, noted, documents, edges>>
counterVars == <<commands, edits, faults>>
vars == <<headVars, logVars, showVars, outside, graphVars, run, answered, tainted, calm, counterVars>>

-----------------------------------------------------------------------------
(***************************************************************************)
(* Reading the ledger.                                                     *)
(***************************************************************************)
Receipt ==
    [kind : {"receipt"}, id : Nat, sha : Bytes, path : Place, stage : Stage,
     owner : Project, relation : Relation, document : Option(Document)]

Event ==
    [kind : {"note", "supersede", "relocate", "reclassify"}, seq : Nat, receipt : Nat,
     old : Nat, path : Option(Place), owner : Option(Project), relation : Relation]

Entry == Receipt \union Event

ASSUME EntryAssumption == None \notin Entry

Readable == manifest = "whole" /\ created /\ ~torn

IsReceipt(entry) == entry # None /\ entry.kind = "receipt"
IsEvent(entry)   == entry # None /\ entry.kind # "receipt"

\* read_state; a line without its newline is read as well.
ReadReceipts == IF IsReceipt(loose) THEN Append(receipts, loose) ELSE receipts
ReadEvents   == IF IsEvent(loose) THEN Append(events, loose) ELSE events

Counts == [receipts |-> Len(receipts), events |-> Len(events)]

Known(rs, n) == n \in 1..Len(rs)

About(es, n, kind) == {i \in DOMAIN es : es[i].receipt = n /\ es[i].kind = kind}

\* Mutant of Owning: a reclassification that names no owner sets it, too.
OwningAlways(es, n) == About(es, n, "reclassify")

Owning(es, n)      == {i \in About(es, n, "reclassify") : es[i].owner # None}
Latest(is)         == CHOOSE i \in is : \A j \in is : j <= i

Superseded(es, n) == \E i \in DOMAIN es : es[i].kind = "supersede" /\ es[i].old = n

\* The receipt as the events after it leave it.
Effective(rs, es, n) ==
    [path     |-> IF About(es, n, "relocate") = {} THEN rs[n].path
                  ELSE es[Latest(About(es, n, "relocate"))].path,
     document |-> rs[n].document,
     owner    |-> IF Owning(es, n) = {} THEN rs[n].owner
                  ELSE es[Latest(Owning(es, n))].owner,
     relation |-> IF About(es, n, "reclassify") = {} THEN rs[n].relation
                  ELSE es[Latest(About(es, n, "reclassify"))].relation]

\* Where check looks for the file.
\* Mutant of Current: relocations are ignored.
CurrentAsFiled(rs, es, n) == rs[n].path

Current(rs, es, n) ==
    LET moves == About(es, n, "relocate") IN
    IF moves = {} THEN rs[n].path ELSE es[Latest(moves)].path

-----------------------------------------------------------------------------
(***************************************************************************)
(* The local state of a command.                                           *)
(***************************************************************************)
View   == [path : Place, owner : Project, relation : Relation, document : Option(Document)]
Locked == {"manifest", "events", "write", "index", "timeline"}
Labels ==
    {"idle", "peek", "open", "manifest", "events", "read", "append", "write", "index", "timeline",
     "reread", "journal", "mirror", "hash"}

State ==
    [pc : Labels, cmd : Option(Commands), project : Option(Project), sha : Option(Bytes),
     before : Option(View), after : Option(View), entry : Option(Entry), archive : Option(Project),
     done : Nat, rs : Seq(Receipt), es : Seq(Event), missing : SUBSET Nat, changed : SUBSET Nat]

Idle ==
    [pc |-> "idle", cmd |-> None, project |-> None, sha |-> None, before |-> None,
     after |-> None, entry |-> None, archive |-> None, done |-> 0,
     rs |-> <<>>, es |-> <<>>, missing |-> {}, changed |-> {}]

Free == \A p \in Proc : run[p].pc \notin Locked

\* The receipts a command works on.
Touched(s) ==
    IF s.pc = "idle" THEN {}
    ELSE IF IsReceipt(s.entry) THEN {s.entry.id} ELSE {s.cmd.receipt, s.cmd.old} \ {0}

Goto(p, s) ==
    /\ run' = [run EXCEPT ![p] = s]
    /\ tainted' = tainted \union {n \in Touched(s) : \E q \in Proc \ {p} : n \in Touched(run[q])}

Return(p) == run' = [run EXCEPT ![p] = Idle] /\ UNCHANGED tainted

\* The command ends with an error, or dies.
Fail(p) ==
    /\ run' = [run EXCEPT ![p] = Idle]
    /\ tainted' = tainted \union (IF run[p].entry = None THEN {} ELSE Touched(run[p]))

-----------------------------------------------------------------------------
(***************************************************************************)
(* Opening the ledger.                                                     *)
(***************************************************************************)
Start(p) ==
    /\ run[p].pc = "idle" /\ commands < MaxCommand
    /\ commands' = commands + 1
    /\ \E c \in Commands :
          Goto(p, [Idle EXCEPT !.pc = IF c.op = "add" THEN "peek" ELSE "open",
                               !.cmd = c, !.project = c.project])
    /\ UNCHANGED <<headVars, logVars, showVars, outside, graphVars, answered, calm, edits, faults>>

\* existing_ledger_project_id, without the lock.
Peek(p) ==
    LET c == run[p].cmd
        id == IF manifest = "whole" THEN project
              ELSE IF c.project # None THEN c.project ELSE c.owner IN
    /\ run[p].pc = "peek"
    /\ IF manifest = "torn" THEN Fail(p)
       ELSE Goto(p, [run[p] EXCEPT !.pc = "open", !.project = id])
    /\ UNCHANGED <<headVars, logVars, showVars, outside, graphVars, answered, calm, counterVars>>

\* Ledger::init finds a manifest, or what it did not write.
Opened(s) == IF s.cmd.op = "init" THEN Idle ELSE [s EXCEPT !.pc = "read"]

OpenExisting(p) ==
    /\ run[p].pc = "open" /\ Free
    /\ manifest # "none" \/ unrelated
    /\ IF manifest = "whole" /\ project = run[p].project THEN Goto(p, Opened(run[p])) ELSE Fail(p)
    /\ UNCHANGED <<headVars, logVars, showVars, outside, graphVars, answered, calm, counterVars>>

\* Ledger::init creates the manifest, then the log, then projects it.
CreateManifest(p) ==
    /\ run[p].pc = "open" /\ Free
    /\ manifest = "none" /\ ~unrelated
    /\ manifest' = "torn"
    /\ Goto(p, [run[p] EXCEPT !.pc = "manifest"])
    /\ UNCHANGED <<project, created, logVars, showVars, outside, graphVars, answered, calm, counterVars>>

WriteManifest(p) ==
    /\ run[p].pc = "manifest"
    /\ manifest' = "whole" /\ project' = run[p].project
    /\ Goto(p, [run[p] EXCEPT !.pc = "events"])
    /\ UNCHANGED <<created, logVars, showVars, outside, graphVars, answered, calm, counterVars>>

CreateLog(p) ==
    /\ run[p].pc = "events"
    /\ created' = TRUE
    /\ Goto(p, [run[p] EXCEPT !.pc = "index"])
    /\ UNCHANGED <<manifest, project, logVars, showVars, outside, graphVars, answered, calm, counterVars>>

-----------------------------------------------------------------------------
(***************************************************************************)
(* Appending: what is read before the lock, and what under it.             *)
(***************************************************************************)
\* The start of Ledger::add, which hashes the file before it takes the lock.
ReadForAdd(p) ==
    LET c == run[p].cmd IN
    /\ run[p].pc = "read" /\ c.op = "add"
    /\ IF /\ Readable
          /\ c.path \in Downloads => c.stage = "intake"
          /\ c.relation = "belongs_to" => c.owner = project
          /\ files[c.path] # None
       THEN Goto(p, [run[p] EXCEPT !.pc = "append", !.sha = files[c.path]])
       ELSE Fail(p)
    /\ UNCHANGED <<headVars, logVars, showVars, outside, graphVars, answered, calm, counterVars>>

\* The receipt as it is before the event.
ReadForEvent(p) ==
    LET c == run[p].cmd IN
    /\ run[p].pc = "read" /\ c.op \notin {"add", "check"}
    /\ IF Readable /\ Known(ReadReceipts, c.receipt)
       THEN Goto(p, [run[p] EXCEPT !.pc = "append",
                                   !.before = Effective(ReadReceipts, ReadEvents, c.receipt)])
       ELSE Fail(p)
    /\ UNCHANGED <<headVars, logVars, showVars, outside, graphVars, answered, calm, counterVars>>

\* Mutant of NewReceipt: it counts the lines of the log.
NewReceiptByLine(p) ==
    LET c == run[p].cmd IN
    [kind |-> "receipt", id |-> Len(ReadReceipts) + Len(ReadEvents) + 1, sha |-> run[p].sha,
     path |-> c.path, stage |-> c.stage, owner |-> c.owner, relation |-> c.relation,
     document |-> c.document]

NewReceipt(p) ==
    LET c == run[p].cmd IN
    [kind |-> "receipt", id |-> Len(ReadReceipts) + 1, sha |-> run[p].sha, path |-> c.path,
     stage |-> c.stage, owner |-> c.owner, relation |-> c.relation, document |-> c.document]

NewEvent(p) ==
    LET c == run[p].cmd IN
    [kind |-> c.op, seq |-> Len(ReadEvents) + 1, receipt |-> c.receipt,
     old   |-> IF c.op = "supersede" THEN c.old ELSE 0,
     path  |-> IF c.op = "relocate" THEN c.path ELSE None,
     owner |-> IF c.op = "reclassify" THEN c.owner ELSE None,
     relation |-> c.relation]

\* What Ledger::event demands of each kind of event.
AcceptSupersede(rs, c) ==
    /\ Known(rs, c.old) /\ c.old # c.receipt
    /\ rs[c.receipt].owner = rs[c.old].owner /\ rs[c.receipt].owner = project

\* Mutant of AcceptRelocate: a delivered file may move to Downloads.
AcceptRelocateAnywhere(rs, c) ==
    files[c.path] = c.sha /\ files[c.path] = rs[c.receipt].sha

AcceptRelocate(rs, c) ==
    /\ c.path \in Downloads => rs[c.receipt].stage = "intake"
    /\ files[c.path] = c.sha /\ files[c.path] = rs[c.receipt].sha

\* Mutant of AcceptReclassify: only an owner that is named is compared.
AcceptReclassifyUnnamed(c) ==
    c.relation = "belongs_to" => c.owner \in {None, project}

AcceptReclassify(c) ==
    c.relation = "belongs_to" => c.owner = project

Accepted(rs, c) ==
    \/ c.op = "add"
    \/ /\ c.op \in {"note", "supersede", "relocate", "reclassify"}
       /\ Known(rs, c.receipt)
       /\ c.op = "supersede"  => AcceptSupersede(rs, c)
       /\ c.op = "relocate"   => AcceptRelocate(rs, c)
       /\ c.op = "reclassify" => AcceptReclassify(c)

\* The lock, the second reading, and the first byte of the new line.
BeginAppend(p) ==
    /\ run[p].pc = "append" /\ Free
    /\ IF Readable /\ Accepted(ReadReceipts, run[p].cmd)
       THEN /\ torn' = TRUE
            /\ Goto(p, [run[p] EXCEPT !.pc = "write",
                           !.entry = IF run[p].cmd.op = "add" THEN NewReceipt(p) ELSE NewEvent(p)])
       ELSE Fail(p) /\ UNCHANGED torn
    /\ UNCHANGED <<headVars, receipts, events, loose, showVars, outside, graphVars,
                   answered, calm, counterVars>>

\* The last byte.  A line without its newline swallows the new one, and the
\* projection that follows cannot read the log.
EndAppend(p) ==
    LET entry == run[p].entry IN
    /\ run[p].pc = "write"
    /\ IF loose = None
       THEN /\ torn' = FALSE
            /\ IF IsReceipt(entry)
               THEN receipts' = Append(receipts, entry) /\ UNCHANGED events
               ELSE events' = Append(events, entry) /\ UNCHANGED receipts
            /\ Goto(p, [run[p] EXCEPT !.pc = "index"])
       ELSE Fail(p) /\ UNCHANGED <<receipts, events, torn>>
    /\ loose' = None
    /\ UNCHANGED <<headVars, showVars, outside, graphVars, answered, calm, counterVars>>

\* What project reads, still under the lock.
\* Mutant of Projection: the receipts that were read before the append.
ProjectionBefore(p) ==
    [receipts |-> IF IsReceipt(run[p].entry) THEN run[p].entry.id - 1 ELSE Len(receipts),
     events   |-> Len(events)]

Projection(p) == Counts

\* Each file is written to a temporary file, which must not exist, and renamed.
ProjectIndex(p) ==
    /\ run[p].pc = "index"
    /\ IF <<p, "index">> \in stale THEN Fail(p) /\ UNCHANGED index
       ELSE index' = Projection(p) /\ Goto(p, [run[p] EXCEPT !.pc = "timeline"])
    /\ UNCHANGED <<headVars, logVars, timeline, stale, outside, graphVars, answered, calm, counterVars>>

\* After it the lock is released.  An add goes on with the receipt it made.
Projected(s) ==
    IF s.entry = None THEN Opened(s)
    ELSE IF IsReceipt(s.entry)
         THEN [s EXCEPT !.pc = "journal",
                        !.after = [path |-> s.entry.path, owner |-> s.entry.owner,
                                   relation |-> s.entry.relation, document |-> s.entry.document]]
         ELSE [s EXCEPT !.pc = "reread"]

ProjectTimeline(p) ==
    /\ run[p].pc = "timeline"
    /\ IF <<p, "timeline">> \in stale THEN Fail(p) /\ UNCHANGED timeline
       ELSE timeline' = Projection(p) /\ Goto(p, Projected(run[p]))
    /\ UNCHANGED <<headVars, logVars, index, stale, outside, graphVars, answered, calm, counterVars>>

\* The receipt as it is after the event.
ReadAgain(p) ==
    /\ run[p].pc = "reread"
    /\ IF Readable
       THEN Goto(p, [run[p] EXCEPT !.pc = "journal",
                        !.after = Effective(ReadReceipts, ReadEvents, run[p].cmd.receipt)])
       ELSE Fail(p)
    /\ UNCHANGED <<headVars, logVars, showVars, outside, graphVars, answered, calm, counterVars>>

-----------------------------------------------------------------------------
(***************************************************************************)
(* Mirroring a receipt or an event into the graph, one write at a time.    *)
(***************************************************************************)
Subject(s) == IF IsReceipt(s.entry) THEN s.entry.id ELSE s.entry.receipt

EdgeKind(relation) == IF relation = "belongs_to" THEN "BELONGS_TO" ELSE "REFERENCES_PROJECT"
Edge(n, kind, to)  == [from |-> n, kind |-> kind, to |-> to]
OwnerEdge(n, view) == Edge(n, EdgeKind(view.relation), view.owner)

Write(op, edge) == [op |-> op, edge |-> edge]

\* mirror_ledger_receipt
MirrorReceipt(s) ==
    LET n == Subject(s) IN
    <<Write("revision", None)>>
    \o (IF s.after.document = None THEN <<>>
        ELSE <<Write("document", None), Write("assert", Edge(n, "REVISION_OF", s.after.document))>>)
    \o <<Write("assert", OwnerEdge(n, s.after))>>
    \o (IF s.archive \in {None, s.after.owner} THEN <<>>
        ELSE <<Write("assert", Edge(n, "REFERENCES_PROJECT", s.archive))>>)

\* Mutant of MirrorReclassify: it retracts the edge the receipt has by now.
MirrorReclassifyAfter(s) ==
    <<Write("retract", OwnerEdge(Subject(s), s.after))>> \o MirrorReceipt(s)

MirrorReclassify(s) ==
    <<Write("retract", OwnerEdge(Subject(s), s.before))>> \o MirrorReceipt(s)

\* Mutant of MirrorSupersede: the superseded node is not marked.
MirrorSupersedeUnmarked(s) ==
    <<Write("assert", Edge(Subject(s), "SUPERSEDES", s.entry.old))>>

MirrorSupersede(s) ==
    <<Write("superseded", None), Write("assert", Edge(Subject(s), "SUPERSEDES", s.entry.old))>>

\* mirror_ledger_event
MirrorEvent(s) ==
    <<Write("event", None)>>
    \o CASE s.entry.kind = "reclassify" -> MirrorReclassify(s)
         [] s.entry.kind = "relocate"   -> MirrorReceipt(s)
         [] s.entry.kind = "supersede"  -> MirrorSupersede(s)
         [] OTHER                       -> <<>>

Plan(s) == IF IsReceipt(s.entry) THEN MirrorReceipt(s) ELSE MirrorEvent(s)

\* The archive project that an event does not name is the last one the journal
\* names for the receipt.
OpenJournal(p) ==
    LET n == Subject(run[p])
        retained == IF IsEvent(run[p].entry) /\ n \in DOMAIN revision THEN revision[n].archive ELSE None IN
    /\ run[p].pc = "journal"
    /\ Goto(p, [run[p] EXCEPT !.pc = "mirror",
                   !.archive = IF run[p].cmd.archive = None THEN retained ELSE run[p].cmd.archive])
    /\ UNCHANGED <<headVars, logVars, showVars, outside, graphVars, answered, calm, counterVars>>

Node ==
    [view : Option(View), typed : BOOLEAN, archive : Option(Project), archives : SUBSET Project,
     status : {"stage", "superseded"}]

Upsert(n, node) == [m \in DOMAIN revision \union {n} |-> IF m = n THEN node ELSE revision[m]]

\* The node of a receipt, and the archives that the journal named for it and the
\* last of them: mirror_ledger_event looks for it in the journal's lines, where a
\* later node without one does not hide it.
ReceiptNode(s) ==
    LET n == Subject(s) IN
    [view |-> s.after, typed |-> TRUE, status |-> "stage",
     archive  |-> IF s.archive = None /\ n \in DOMAIN revision THEN revision[n].archive ELSE s.archive,
     archives |-> ({s.archive} \ {None}) \union (IF n \in DOMAIN revision THEN revision[n].archives ELSE {})]

SupersededNode(n) ==
    IF n \in DOMAIN revision THEN [revision[n] EXCEPT !.status = "superseded"]
    ELSE [view |-> None, typed |-> FALSE, status |-> "superseded", archive |-> None, archives |-> {}]

\* append_edge_assert wants both nodes; SUPERSEDES joins typed nodes only, as
\* the edge of a node of unknown type needs a provenance.
Assertable(e) ==
    /\ e.from \in DOMAIN revision
    /\ \/ e.kind = "REVISION_OF" /\ e.to \in documents
       \/ /\ e.kind = "SUPERSEDES" /\ e.to \in DOMAIN revision
          /\ revision[e.from].typed /\ revision[e.to].typed
       \/ e.kind \in {"BELONGS_TO", "REFERENCES_PROJECT"} /\ e.to \in Registered

Apply(s, write) ==
    \/ /\ write.op = "revision"
       /\ revision' = Upsert(Subject(s), ReceiptNode(s))
       /\ UNCHANGED <<noted, documents, edges>>
    \/ /\ write.op = "superseded"
       /\ revision' = Upsert(s.entry.old, SupersededNode(s.entry.old))
       /\ UNCHANGED <<noted, documents, edges>>
    \/ /\ write.op = "document"
       /\ documents' = documents \union {s.after.document}
       /\ UNCHANGED <<revision, noted, edges>>
    \/ /\ write.op = "event"
       /\ noted' = noted \union {s.entry.seq}
       /\ UNCHANGED <<revision, documents, edges>>
    \/ /\ write.op = "assert"
       /\ edges' = edges \union {write.edge}
       /\ UNCHANGED <<revision, noted, documents>>
    \/ /\ write.op = "retract"
       /\ edges' = edges \ {write.edge}
       /\ UNCHANGED <<revision, noted, documents>>

Mirror(p) ==
    LET s == run[p]
        write == Plan(s)[s.done + 1] IN
    /\ s.pc = "mirror" /\ s.done < Len(Plan(s))
    /\ IF write.op = "assert" /\ ~Assertable(write.edge)
       THEN Fail(p) /\ UNCHANGED graphVars
       ELSE Apply(s, write) /\ Goto(p, [s EXCEPT !.done = @ + 1])
    /\ UNCHANGED <<headVars, logVars, showVars, outside, answered, calm, counterVars>>

Report(p) ==
    /\ run[p].pc = "mirror" /\ run[p].done = Len(Plan(run[p]))
    /\ answered' = answered \union {run[p].entry}
    /\ Return(p)
    /\ UNCHANGED <<headVars, logVars, showVars, outside, graphVars, calm, counterVars>>

-----------------------------------------------------------------------------
(***************************************************************************)
(* Checking the files: one reading of the ledger, then one file at a time. *)
(***************************************************************************)
ReadForCheck(p) ==
    /\ run[p].pc = "read" /\ run[p].cmd.op = "check"
    /\ IF Readable
       THEN /\ Goto(p, [run[p] EXCEPT !.pc = "hash", !.rs = ReadReceipts, !.es = ReadEvents])
            /\ calm' = calm \union {p}
       ELSE Fail(p) /\ UNCHANGED calm
    /\ UNCHANGED <<headVars, logVars, showVars, outside, graphVars, answered, counterVars>>

CheckNext(p) ==
    LET s == run[p]
        n == s.done + 1
        found == files[Current(s.rs, s.es, n)]
        active == ~Superseded(s.es, n) IN
    /\ s.pc = "hash" /\ n <= Len(s.rs)
    /\ Goto(p, [s EXCEPT !.done = n,
          !.missing = IF active /\ found = None THEN @ \union {n} ELSE @,
          !.changed = IF active /\ found \notin {None, s.rs[n].sha} THEN @ \union {n} ELSE @])
    /\ UNCHANGED <<headVars, logVars, showVars, outside, graphVars, answered, calm, counterVars>>

CheckDone(p) ==
    /\ run[p].pc = "hash" /\ run[p].done = Len(run[p].rs)
    /\ calm' = calm \ {p}
    /\ Return(p)
    /\ UNCHANGED <<headVars, logVars, showVars, outside, graphVars, answered, counterVars>>

-----------------------------------------------------------------------------
(***************************************************************************)
(* Files change, commands die or an operation of theirs fails.             *)
(***************************************************************************)
Edit ==
    /\ edits < MaxEdit
    /\ edits' = edits + 1
    /\ \E f \in Place, b \in Option(Bytes) : files[f] # b /\ files' = [files EXCEPT ![f] = b]
    /\ calm' = {}
    /\ UNCHANGED <<headVars, logVars, showVars, unrelated, graphVars, run, answered, tainted,
                   commands, faults>>

\* The death of p: the new line is cut short, but for its newline perhaps, or the
\* temporary file of a projection stays.
CutLine(p) ==
    /\ run[p].pc = "write"
    /\ \/ loose' = None /\ UNCHANGED torn
       \/ loose = None /\ loose' = run[p].entry /\ torn' = FALSE
    /\ UNCHANGED stale

KeepTemporary(p) ==
    /\ run[p].pc \in {"index", "timeline"}
    /\ stale' = stale \union {<<p, run[p].pc>>}
    /\ UNCHANGED <<loose, torn>>

JustStop(p) == run[p].pc \notin {"idle", "write"} /\ UNCHANGED <<loose, torn, stale>>

Die(p) ==
    /\ faults < MaxFault
    /\ faults' = faults + 1
    /\ CutLine(p) \/ KeepTemporary(p) \/ JustStop(p)
    /\ Fail(p)
    /\ calm' = calm \ {p}
    /\ UNCHANGED <<headVars, receipts, events, index, timeline, outside, graphVars, answered,
                   commands, edits>>

-----------------------------------------------------------------------------
Init ==
    /\ manifest = "none" /\ project = None /\ created = FALSE
    /\ receipts = <<>> /\ events = <<>> /\ loose = None /\ torn = FALSE
    /\ index = Counts /\ timeline = Counts /\ stale = {}
    /\ unrelated \in BOOLEAN
    /\ files \in Disks
    /\ revision = [n \in {} |-> None] /\ noted = {} /\ documents = {} /\ edges = {}
    /\ run = [p \in Proc |-> Idle]
    /\ answered = {} /\ tainted = {} /\ calm = {}
    /\ commands = 0 /\ edits = 0 /\ faults = 0

Step(p) ==
    \/ Start(p) \/ Peek(p)
    \/ OpenExisting(p) \/ CreateManifest(p) \/ WriteManifest(p) \/ CreateLog(p)
    \/ ReadForAdd(p) \/ ReadForEvent(p) \/ BeginAppend(p) \/ EndAppend(p)
    \/ ProjectIndex(p) \/ ProjectTimeline(p) \/ ReadAgain(p)
    \/ OpenJournal(p) \/ Mirror(p) \/ Report(p)
    \/ ReadForCheck(p) \/ CheckNext(p) \/ CheckDone(p)
    \/ Die(p)

Next == Edit \/ \E p \in Proc : Step(p)

Spec == Init /\ [][Next]_vars

-----------------------------------------------------------------------------
(***************************************************************************)
(* Properties.                                                             *)
(***************************************************************************)
\* Types of all variables.
TypeOK ==
    /\ manifest \in {"none", "torn", "whole"} /\ project \in Option(Project) /\ created \in BOOLEAN
    /\ receipts \in Seq(Receipt) /\ events \in Seq(Event)
    /\ loose \in Option(Entry) /\ torn \in BOOLEAN
    /\ index \in Counting /\ timeline \in Counting
    /\ stale \subseteq Proc \X {"index", "timeline"}
    /\ unrelated \in BOOLEAN /\ files \in [Place -> Option(Bytes)]
    /\ DOMAIN revision \subseteq Nat /\ \A n \in DOMAIN revision : revision[n] \in Node
    /\ noted \subseteq Nat /\ documents \subseteq Option(Document)
    /\ run \in [Proc -> State]
    /\ answered \subseteq Entry
    /\ tainted \subseteq Nat /\ calm \subseteq Proc
    /\ commands \in 0..MaxCommand /\ edits \in 0..MaxEdit /\ faults \in 0..MaxFault

\* The ledger keeps the promises of ArchiveBook: under the lock every entry
\* gets the next number and refers to entries before it, a projection never
\* shows less than it did, and no command reports success for an entry that
\* the index or the timeline lacks, whatever commands overlap or die.
Book == INSTANCE ArchiveBook WITH
            receipts <- receipts, events <- events, index <- index,
            timeline <- timeline, answered <- answered
BookSpec == Book!Spec

\* As long as no command dies, a ledger whose lock is free can be read and both
\* projections show all of it (append_locked, project): no order of commands
\* leaves a half made ledger behind.
WholeWhenFree ==
    faults = 0 /\ Free /\ manifest # "none" =>
        Readable /\ loose = None /\ index = Counts /\ timeline = Counts

\* Whatever reclassifications a receipt went through, it belongs to no project
\* but the one of its archive (add, event: "belongs_to owner must match archive
\* project").
MembersAreOwned ==
    \A n \in DOMAIN receipts :
        Effective(receipts, events, n).relation = "belongs_to" =>
            Effective(receipts, events, n).owner = project

\* Downloads is intake-only: no sequence of receipts and relocations brings a
\* file of a later stage there (LedgerError::Downloads).
DownloadsIntakeOnly ==
    \A n \in DOMAIN receipts :
        Effective(receipts, events, n).path \in Downloads => receipts[n].stage = "intake"

\* The commands on a receipt ran one after the other and none of them failed
\* after it wrote to the ledger.
Settled(n) == n \notin tainted /\ \A p \in Proc : n \notin Touched(run[p])

\* The graph shows a settled receipt as the ledger does: its node has the owner
\* and the place that the events leave it, the edge to that owner is live and
\* no edge to a former one, but for references to the archives that commands
\* named for it (mirror.rs, which gets by with the receipts before and after
\* one event; when an event names another archive, it keeps the reference to the
\* one before).
MirrorFaithful ==
    \A n \in {m \in DOMAIN receipts : Settled(m)} :
        LET view == Effective(receipts, events, n) IN
        /\ n \in DOMAIN revision /\ revision[n].view = view
        /\ OwnerEdge(n, view) \in edges
        /\ \A e \in edges : e.from = n /\ e.kind \in {"BELONGS_TO", "REFERENCES_PROJECT"} =>
              \/ e = OwnerEdge(n, view)
              \/ e.kind = "REFERENCES_PROJECT" /\ e.to \in revision[n].archives

\* A receipt that the ledger has superseded since it last mirrored the receipt
\* is marked so in the graph and linked to its successor.
SupersessionShown ==
    \A i \in DOMAIN events :
        LET e == events[i] IN
        /\ e.kind = "supersede" /\ Settled(e.receipt) /\ Settled(e.old)
        /\ \A j \in DOMAIN events :
              j > i /\ events[j].kind \in {"relocate", "reclassify"} => events[j].receipt # e.old
        => /\ revision[e.old].status = "superseded"
           /\ Edge(e.receipt, "SUPERSEDES", e.old) \in edges

\* When no file changed meanwhile, a check has found exactly the receipts that
\* nothing supersedes and whose file, where the events put it, is gone or has
\* other bytes: Ledger::check finds the place on a way of its own.
CheckExact ==
    \A p \in calm :
        LET rs == run[p].rs
            es == run[p].es
            Found(n) == files[Effective(rs, es, n).path] IN
        run[p].done = Len(rs) =>
            /\ run[p].missing = {n \in DOMAIN rs : ~Superseded(es, n) /\ Found(n) = None}
            /\ run[p].changed =
                  {n \in DOMAIN rs : ~Superseded(es, n) /\ Found(n) \notin {None, rs[n].sha}}
=============================================================================
