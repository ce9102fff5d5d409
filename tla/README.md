# innen: TLA+ models, model checks and proofs

`innen` is a command line program without a daemon. Every command is one
process: it reads the files under `<root>/.innen/`, appends to a journal of
events, and ends. What is concurrent is therefore several `innen` processes on
the same directory, the coding agents that write their own session files while
`innen` reads or deletes them, and crashes between any two file operations. The
modules here model the parts of the program where that matters. Paths of the
core crate are given relative to `src/crates/innen-core/src/`, those of the
command line relative to `src/src/cli/`.

| module | what it is | code |
|---|---|---|
| `Journal`, `MCJournal`, `JournalProofs` | the append-only journal shared by processes | `journal.rs`, two checks of `doctor` |
| `WikiSync`, `MCWikiSync`, `WikiSyncProofs` | the projection of wiki pages into the graph, and the other writers of the graph | `wiki_graph/`, `graph/materialize.rs`, `edge_write.rs`, `graph.rs` |
| `Retention`, `MCRetention`, `RetentionProofs` | deleting native sessions behind transcripts, proofs and receipts | `session_retention/` |
| `ArchiveBook` | what a project archive promises (abstract) | |
| `Ledger`, `MCLedger`, `LedgerProofs` | the delivery ledger's files and lock, its commands and their mirror in the graph; implements `ArchiveBook` | `artifact/ledger/`, cli `ledger/` |
| `Harvest` | ingests of the inbox behind one cursor file | `harvest/`, `tap.rs` |
| `Derived` | the two derived indexes, their rebuild, and the doctor | `index.rs`, `doctor/` |
| `Finalize`, `FinalizeProofs` | publishing a collection and removing its sources | `artifact/finalize.rs` |
| `ArtifactStore` | adding an artifact through a temporary file | `artifact.rs` |
| `Checkpoint` | progress records of conversations | `conversation/checkpoint.rs`, cli `checkpoint.rs` |
| `History` | immutable snapshots of a task's decisions | `middleware/history/store.rs` |
| `Decisions`, `Middleware` | which decisions a packet may quote; the four requests | `middleware/`, cli `middleware/` |
| `Graph` | relating nodes, replay, projections over time, the structural query | `graph/`, `edge_write.rs`, `query.rs` |
| `Evidence`, `MCEvidence` | closure of a contract over evidence, the choice of a packet, proposals | `evidence_closure/`, `context_selection.rs`, `task_proposal` |
| `TaskEntry` | selecting and paging the context of a task | `task_entry/` |
| `Trace` | search along the graph to sources, with its cache | `trace/`, `conversation/scan` |
| `HookInstall`, `HookRun` | hooks in the settings of a coding agent, and their firing | cli `hook/` |
| `Pickup` | what is still open in a session | `conversation/unfinished`, `pickup`, `task_state` |
| `Stores`, `StoresProofs` | the components with files of their own, side by side: `Harvest` to `History`, `HookRun`, `HookInstall`, `Graph` | |
| `Searches`, `SearchProofs` | `Pickup` and `Trace`, side by side | |
| `Answers`, `AnswersProofs` | the components that answer questions and keep nothing but a cache, side by side: `TaskEntry`, `Middleware`, `Evidence` and those of `Searches` | |
| `MCComponents` | `Stores` and `Answers`, for the check | |

`tlc -config MCJournal.cfg MCJournal` and so on run the checks, `tlapm
JournalProofs.tla` the proofs. `PROJECT.json` lists the runs, the code lines of
every definition (`map`), a plausible bug for every checked property
(`mutants`), the hazards and the disagreements found (`findings`).

## Inventory

The modules name the components; what is left out, and why, is under "Not modelled".

| component | state it keeps | operations | hard behaviour | what makes it correct |
|---|---|---|---|---|
| Journal (`journal.rs`) | `journal.jsonl`, `journal.lock`, `quarantine/` | open (repair under a lock), append (no lock), read_all | appends race the repair's rename; writes cut short inside a line or a character; death between quarantine and rename | nothing acknowledged is lost silently; intact files are never rewritten; a repair drops only what it quarantined; open always gets through |
| Graph materialisation and edge writes (`graph/`, `edge_write.rs`) | none of its own: a replay of the journal | upsert, assert, retract, relate with its validation | validation and append are separate steps | every live edge has both nodes |
| Wiki graph sync (`wiki_graph/`) | node ids and edges it owns in the graph | read pages, assign ids, resolve references, plan, append one by one | the graph changes while it plans and appends; death between appends; unparseable pages | one node per page for ever; the graph shows the pages after one undisturbed sync; other owners' rows and skipped pages are spared |
| Session retention (`session_retention/`) | compact transcripts, proofs, attempts, failures, receipts; it deletes from native stores | sweep, purge, attest, one delete adapter per tool | the tool writes and spawns meanwhile; two sweeps; death at every step; adapters that fail or lie | what is deleted was hashed, proved and published; receipts are true; attempts have outcomes; a sweep clears what it may |
| Delivery ledger (`artifact/ledger/`, `ledger/`) | manifest, events, index and timeline, lock; mirrored to the journal | init, add, note, supersede, relocate, reclassify, check, mirror | death in init, in an append, before a rename; ledger and graph written one after the other, with readings outside the lock | the promises of ArchiveBook; membership and Downloads rules over every sequence of events; the graph agrees with the ledger; a check is exact |
| Index (`index.rs`) | `index.redb`, `fts/` | build, rebuild | two stores, two commits; overwrite without removal; a journal that grows or is damaged meanwhile | a finished rebuild shows the journal |
| Doctor (`doctor/`) | none | five checks and an exit code | it reads five stores one after another while others write | a clean bill is true of a state that did not change |
| Harvest and cursor (`harvest/`, `tap.rs`) | `tap/harvest-dir.watermark` | ingest, load and store the cursor, migrate a legacy count | overlapping ingests on one temporary name; death between append and cursor; unreadable files | nothing is consumed that was not handled; nothing is appended twice without a cause |
| Artifact finalisation and store (`artifact/finalize.rs`, `artifact.rs`) | `artifacts/` | verify, stage, publish, recheck, remove, record; add | death after publishing; sources that change; two adds on one temporary name | a collection holds what was planned; a node stands for bytes that are there |
| Middleware history store (`middleware/history/store.rs`) | snapshots and their index, a lock | save, load | a snapshot or an index line cut short | a load returns all that saves acknowledged |
| Decisions and middleware (`middleware/`) | a request file, receipts | prepare, expand, of items and of decisions | replacement, dependence and conflict along several branches; the file changes between two commands | a packet quotes only what the task may rely on, within its budget; an expansion is of the same request |
| Conversation checkpoints (`conversation/checkpoint.rs`) | `checkpoints.jsonl` | record, load, latest | a line is two writes without a lock | what a record leaves out it inherits |
| Trace (`trace/`) | content-addressed cache files | graph, search, expand | sources change between and during readings; three budgets | a complete coverage is complete, budgets hold, an expansion is what was quoted |
| Hooks (cli `hook/`) | a block in a tool's settings; receipts | install, run, pending | the settings have three writers; a firing looks and then writes | the user's part is kept; each state is reported once |
| Pickup and unfinished work (`conversation/`) | none | read the tail of a session, its plan, its checkpoint | evidence in any order, of a part of the session | each reason given is in the transcript; a plan is the last that took effect; an offer is of open work |
| Evidence closure and context selection | pins of the caller | closure under a hop limit, selection under a budget, proposals | the journal grows between pin and answer; alternatives | a covered answer rests on pinned, sound, uncontradicted evidence and is the cheapest |
| Task entry (`task_entry/`) | none | admission, baselines, neighbourhood, paging | pages cut by two limits | the pages together show all, in order, once |
| Queries over the graph (`query.rs`) | none | structural query over time | two validations at two times | what was related is followed, and only that |
| Constraints | nodes and edges in the journal | add, add from session | node and edge are two appends | not modelled |
| Conversation readers, compaction and projections | none | parse and shorten text | | not modelled |
| Configuration, command line, development install, redaction | settings; none; a binary; none | | | not modelled |
| Vendored search library | | | | third-party code |

How they interact: every writer but the ledger, the history store and the
checkpoints goes through `Journal::open` and `Journal::append`; the graph is
never stored but replayed from the journal (`materialize`), so an append by one
process is seen by the next replay of any other; the index is derived from the
same replay; retention appends its nodes to the journal and asks the graph
before it deletes; the ledger's commands append to the ledger first and mirror
to the journal afterwards. Nothing is locked across two appends.

## The journal

**State and actions.** `journal` is the inode that the name `journal.jsonl`
denotes and `inode` the contents of every inode, because a repair replaces the
file by a rename while an append may hold the old one open. A line is a record
of the entries whose bytes it holds wholly or partly and of a cut inside a
character. `StartOpen`, `AcquireLock`, `ScanClean`/`ScanFails`/`ScanCorrupt`,
`QuarantineLine` and `Rebuild` are the steps of `Journal::open` and
`quarantine_scan`; `AppendOpen`, `AppendWrite` (acknowledged), `AppendUnacked`
(written, then `fsync` fails) and `AppendTorn` (cut short) those of `append`.
`Crash` and `CrashInQuarantine` end a command anywhere.

**Runs.** `journal` checks two processes, three appends, four inodes and one
death (`MaxCrash = 1`); cut writes are not bounded but by the number of
entries. Three entries are what it takes for one line of glued entries, one
behind the scan and one before it; four inodes allow as many repairs as three
entries can cause. `LossIsReported`, `SteadyStateAppend`,
`RepairDropsOnlyUnseen` and `OpenCompletes` hold. `AtomicWrite = TRUE` says
that a reader sees all or nothing of a write; the proofs also cover FALSE.
`journal_history` and `journal_read` are disagreements: an append between a
repair's read and its rename is lost from both files although `append`
returned Ok, and a tail cut inside a character makes `read_to_string` fail, so
that nothing is skipped or quarantined and no command can open the journal.

**Fairness** (`FairSpec`). `WF(OpenStep(p))`: a running process is scheduled.
`SF(AcquireLock(p))`: `flock` wakes a waiter when the lock keeps being
released; weak fairness would not do, since other processes may hold the lock
again and again. Nothing forces a command to start, to append or to die.

**Proved**, for any processes, entries and inodes, with or without atomic
writes: `TypeCorrect`, `LossReported`, `SteadyState`, `RepairOnlyUnseen`. The
inductive invariant adds to the types that the lock's holder is the one process
in the middle of open (`LockInv`), that an acknowledged entry is in some inode
(`AckedStored`), that all is in one inode until something is quarantined
(`OneInode`), and what a repair has read and still has to quarantine
(`RepairInv`): `LossIsReported` alone is not inductive, because whether a rename
loses an entry depends on what the repairing process read before.
Assumptions: `NoProc`, `NoFile` and `NoEntry` are no processes, inodes or
entries. `OpenCompletes` is liveness and stays with TLC.

## Wiki sync and the writers of the graph

**State and actions.** The journal is represented by what `materialize` makes
of it: `nodes` and the `live` edge rows. `Scan` reads the pages before the
journal is opened; `ReadGraph` materialises, assigns ids (`PageId`), resolves
references (`Resolve`, `ResolveSource`, `ResolveRelated`) and plans; then one
action per append, nodes, missing marks, retractions, assertions, in the code's
order. `GraphNode`, `GraphRetract`, `RelateCheck` and `RelateAppend` are the
`graph` commands; `Edit` an editor. A reference is described by how it is
spelled and what it can resolve to (`RefKind`, `RefPath`, `RefBase`, `RefId`,
constrained by `RefAssumption`); a page by its explicit id and its two lists
(`ContentAssumption`).

**Runs.** `wiki`: two pages that can be read, unreadable or absent, three
contents (a link, a link and a spelled id as sources, an explicit id with a URL
and a path outside the root), two syncs, two edits, one graph command and one
death, so that each property can meet its disturbance and its repair. A second
edit is taken only where neither command nor death has happened or follows
(`Within`): two edits are what it takes to move a page with its explicit id.
`SyncProjects` and `SyncSettles` are evaluated in every state in which no sync is
in the middle of its appends (`Resting`) and apply one to three undisturbed
syncs to it as functions, so they judge every graph that dead and interleaved
syncs leave; a state in the middle of the appends is, with a death, one of
those. The type invariant `TypeOK` stays in the module for the reader. Processes are symmetric; TLC stops
at the bounds (`CHECK_DEADLOCK FALSE`: a program that has ended). No fairness is
assumed. `wiki_skipped` and `wiki_moved` are disagreements: an edge that leads
*to* a page which became unreadable is retracted although "a skipped page keeps
its node and its edges", and a page with an explicit id that moved is marked
missing by the sync that finds it.

**Proved**, for any pages, references and numbers of syncs: `EdgesHaveNodes`,
`ForeignRowsKept`, `SkippedPagesKept`, `PagesHaveOneNode`. The inductive invariant
of the first three says that both
ends of every live edge (`LiveEnds`), of the validated relate (`RelateEnds`) and
of every row still to be asserted (`PlanEnds`) are in the graph or earlier in
the same plan, and that no plan retracts a key that the sync saw another owner
assert (`PlanSpares`). The lemma `RowsCome` says that the rows a plan asserts
have their nodes, from the resolution of references.

`PagesHaveOneNode` has an invariant of its own, `Registry`. `OneNodePerPage` is not
inductive, since a sync appends nodes that it decided on earlier. What has to be
added is that unless two syncs wrote at once the writing sync is alone
(`WriterAlone`), and that a page is then claimed once among the nodes there are
*and* those that plans still have to append (`ClaimedOnce`): a sync takes the id
that the graph registered for a page and makes a new one only where there is
none. That the registry sees every claim rests on an append making a node one of
sync's only with owner, type and path together (`EventWhole`, `OwnersTyped`).

`SyncProjects` (`OneSyncProjects`) and `SyncSettles` (`SyncsSettle`) are proved of
every graph that dead, failed and interleaved syncs and other commands leave.
A plan has one event for each node that it wants (`WantedOnce`, `EventOnce`), and
so the graph after it is known field by field (`AppliedNodes`). `SyncProjects`
says more than that the pages are shown: each other row that a sync asserted is
gone, unless another owner asserted its key too or it leads out of a page that
could not be read (`OtherRowsProtected`). `SyncSettles` says that the fourth sync in a
row appends nothing. The ids of pages stay from one sync to the next (`PagesStay`), what
a sync wants is known to the next (`WantedKnown`), and nothing is left to be marked
(`NothingToMark`). So the third sync wants no node that the second did not
(`WantsNoMore`) and writes none (`NoNodeLeft`, `QuietNodes`), and after it the
rows are those of its plan (`QuietAfter`).

Both properties apply a plan as one function. `SyncsFollowTheirPlans` says that the
appends amount to it: each one leaves the graph that the rest of the plan leads to
as it was (`NodeFirst`, `MarkFirst`, `RowsFirst`). So a sync during which nobody else
writes ends, with nothing left to append, in the graph that `SyncProjects` judges.
Assumptions: `RefAssumption`, `ContentAssumption`, and `NoneAssumption`, that the
marks for "no id" and "not sync's" are no ids and no references.

## Session retention

**State and actions.** A store is one of six kinds that differ in the parts of
a session, in what is hashed and in the adapter (`PartsOf`, `HashedOf`,
`Adapter`): a single file, `codex delete`, `opencode session delete` on a shared
database, a row and a directory (Mcode, Copilot), and Antigravity's summary row
with two directories. `native` holds each session's parts, the version of its
transcript and its last change. `sweep` is the local state of each process: the
listing, made once, the sessions to take, and the one at work with its hash,
file handle and attempt. `Plan`, `Take` and `End` are `sweep`; `HashBefore`
... `AppendProof` are `compact_and_attest` step by step, up to the file that is
open for writing while another process empties, renames or removes it (`fd`);
`Guard` ... `AppendReceipt` are `purge_candidate` and `delete_candidate`, one
action per removal. `Start` begins a sweep, or a purge of one session, which is
a listing that goes to the guard at once. The tool opens, closes, writes and
spawns sessions; time passes (`Tick`); `attest` and `graph retract` run beside;
adapters fail, remove half a directory or report success without effect; the
disk refuses a write; any process dies.
History variables record what was deleted on which hash, which sessions two
sweeps got to compact at once (`contended`), which process's session changed
after its last check (`raced`), and which sweep nothing interfered with
(`quiet`).

**Runs.** `retention`: two processes, two commands in all (`MaxStart = 2`) and
two events of tool, clock, commands and failures (`MaxEvent = 2`), on a store
of each kind; Codex and OpenCode have a parent and a child session, present or
spawned later; knowledge may be recorded at the start, so that `attest` can
authorise what no sweep compacted. Two commands are a sweep that dies and its
successor, or two that race; two events are a failure after the tool's write. What a
third command would meet is on disk, where the first two left it: a process
keeps no state between commands; but no run has three at once. Processes are
symmetric; `CHECK_DEADLOCK FALSE` as the program ends. No fairness: what must
come about is stated of an undisturbed sweep (`SweepClears`).
`retention_window` and `retention_dialogue` are disagreements: the window is
checked with the modification time of the listing, so a session written since
is compacted and deleted inside its window; and two sweeps that share a partial
file can publish an empty transcript, prove it and delete the session.

**Proved**, for any processes, sessions, stores and bounds: `TypeCorrect`,
`AuditTrailKept`, `ReceiptsTruthful`, `DeletionsProven`, `TranscriptsKept`,
`ChildrenStaySpared`, `SweepsClear`. The argument is about
one process and the session it works on. `Sound(p)` says that this session
existed, that a proof of the hash and the passed window hold from the gate to
the last removal (`Gated`), that the files are still the hashed ones or the
tool raced (`Bytes`), and which parts each adapter step has behind it
(`Removing`). The lemmas `SweepCalm` and `OthersCalm` show that every step is
`Calm`: parts of an existing session only go away, proofs and nodes only come,
time passes. `Apart` shows that another process changes nothing of p but where
its open file is. So `SoundKept` carries `Sound(p)` over all steps of others,
and only p's own steps are taken one by one. A receipt stays true because a
session that has existed never gets parts back (`Written`, `Receipted`).
For `TranscriptsKept` the invariant `Keeping` follows the dialogue of a session
through the file that is being written, its rename and the proof (`Draft`).
Nobody but a second sweep on the same session (`contended`) writes under its
name (`Solitary`). What is published is a version that there was, and none
before the proven one (`Kept`); it may be a later one when the tool wrote in
between, and the property therefore gives a range of versions.
For `ChildrenStaySpared` the invariant `Families` says that no session is without
its parent in a store of Codex or OpenCode (`NoOrphans`), so that a listing
contains the parents of what it contains, and that from the look at the children
on none of the listed ones is there (`Closed`). A session further down that the
command took would have one of them on its way up (`FamilyChild`).
For `SweepsClear` the invariant `Tending` is about the process in `quiet` alone.
What it has yet to take still has the proofs that put it into the plan (`Ahead`);
what it has taken or left alone is deleted, in use, robbed of its knowledge, or
waits for a child that the sweep no longer has before it (`Settled`); and the session at
work passes every check that is still to come (`AtWork`). Two facts carry this:
`ChildDeeper`, that a listed child comes before its parent, so that no parent is
refused for a child that the same sweep deletes later; and `Knowledge`, that what a proof
names was linked, so that only `graph retract` can take it away.
Assumptions: `StoreAssumption`, the shape of a store; `NoneAssumption`, that
no name or version is taken for its absence; and `ParentAssumption`. Its first part
is that parents are older than their subagent sessions, in families that are no
deeper than `sweep` counts (`MaxDepth`, 65 in the code, 2 in the runs). The code
calls what is deeper a "malformed cycle; order is best effort"
(`session_retention/sweep.rs:81`), and `SweepClears` is false of a circle. The
second part is that in the stores of Codex and OpenCode no session is there at the
beginning without its parent; both tools delete a session with those below it
(`session_retention/sweep.rs:71`), and a child is started by its parent.
`ChildrenSpared` would be false where a child had lost its parent and not its
grandparent: the guard looks at the children only.

**Left out.** Sizes and hard links, plans and dry runs, `--source-root`. Times
are windows that have passed, not text. The journal's appends succeed one at a
time or fail; what concurrent appends do to each other is in Journal.

## The delivery ledger

**State and actions.** One archive. `manifest`, `project` and `created` are the
manifest file and whether the log exists; `receipts` and `events` are the lines
of the log, kept as two sequences because no code looks at the order between
them; `loose` is a last line without its newline (which `lines()` still reads)
and `torn` a last line that does not parse. `index` and `timeline` are the
numbers of entries the projections show, `stale` the temporary files that dead
projections left behind. `Start` begins a command line; `Peek` is
`existing_ledger_project_id`; `OpenExisting`, `CreateManifest`, `WriteManifest`,
`CreateLog` are `Ledger::init`; `ReadForAdd` and `ReadForEvent` what is read
before the lock is taken; `BeginAppend` and `EndAppend` the first and the last
byte of `append_locked`'s line, `ProjectIndex` and `ProjectTimeline` its
projection. The lock is held while a process is at one of the labels `Locked`.
`ReadAgain`, `OpenJournal`, `Mirror` (one write each) and `Report` follow
without the lock: `mirror_ledger_receipt` and `mirror_ledger_event`, translated
as the sequence of writes (`Plan`) they make, with the refusals of
`append_edge_assert` (`Assertable`). `ReadForCheck`, `CheckNext`, `CheckDone`
are `check`, one file per step. `Edit` changes a file that receipts name; `Die`
ends a command anywhere, inside a line (`CutLine`) or with the temporary file in
place (`KeepTemporary`). A receipt is its number, since within one archive the
code's id is unique by `receipts + 1`. History variables: the entries whose
command reported success, the receipts on which commands overlapped or failed
after writing (`tainted`), the checks that no edit disturbed (`calm`).

**Refinement.** `ArchiveBook` says what those who file receipts rely on, without
files: entries are numbered in order and refer to earlier ones, the index and
the timeline show everything there was when they were last brought up to date,
and success is reported for an entry that both show. The refinement mapping is
the identity on the complete lines and the projected counts, written out in
`Book == INSTANCE ArchiveBook WITH ...`; opening, locking,
reading, mirroring and dying are stuttering steps, `EndAppend` is `FileReceipt`
or `RecordEvent`, `Report` is `Answer`.

**Run.** `ledger`: two processes, three commands in all (an init or a first add,
and two more on the receipt it made, overlapping or not), one edit, one death.
Three commands are what a receipt with two events, or two receipts and a
supersession, take. The command lines differ in what the properties tell apart:
an add owned by the archive or by another project, each event on the first
receipt, a relocation that names another archive, and reclassifications that name
another project, an unknown one or none. Projects are the archive's own, one that the graph knows and
one it does not, so that mirroring fails in the middle; the inbox is Downloads
and has a copy of the file on the shelf, so that relocations are possible both
where they are lawful and where they are not. Processes are symmetric;
`CHECK_DEADLOCK FALSE`, as the bounded program ends. No fairness is assumed.

What the properties exclude is as telling as what they say. `WholeWhenFree` is
about runs without a death: nothing repairs a torn log, a manifest without its
log, or a temporary file whose process id comes back. `MirrorFaithful` speaks of
receipts that commands did not work on at once: the edge to retract comes from
the reading before the lock, so that two overlapping reclassifications can leave
an edge to a former owner. It also lets references stand to the archives that
commands named for the receipt (`archives`), which no reclassification retracts. `SupersessionShown` ends with the next relocation
or reclassification of the superseded receipt, whose mirror writes its stage over
the status "superseded". The code or its documents promise none of this
otherwise, so these are not listed as disagreements.

**Proved**, for any projects, places, contents, command lines and bounds:
`TypeCorrect`, `Implements` (the refinement), `WholeLedger`, `MembersOwned`,
`DownloadsKept`, `ChecksExact`, `MirrorsFaithful`, `SupersessionsShown`. The inductive invariant is `IInv`
(`Invariance`). Its parts: what a command holds at each label (`Local`), which
says that the entry being written fits the end of the log, that a written one is
in the log, and which projections show it; that events refer to receipts of the
log (`LogFormed`); that at most one process is at a locked label (`Mutex`); that
a projection never shows more than the log (`Behind`). They are needed together:
that the entry still fits at its last byte rests on nobody else having appended
since the second reading, and that a reported entry stays shown on a projection
being made of a log that only grew. On top of it come
`Orderly` and `Completed` for `WholeLedger` (without a death, a log that is torn
or not projected is being worked on), `Rightful` for membership and Downloads
(each event was accepted against the log it extends), and `Examined` for
checks (the receipts looked at so far are sorted as the files are now).
Assumptions: `CommandAssumption`, the shape of command lines that the argument
parser guarantees, and `EntryAssumption`, that the option not given is no entry.
`MirrorsFaithful` and `SupersessionsShown` take a further invariant, `Faithful`,
because both are broken in the middle of every mirror. `Told` says of a command how
far the graph has followed its plan: what each prefix of the writes has left, up
to the refusal that ends it. `Alone` and `Loosened` say that commands and cut
lines meet on tainted receipts only, `Mirrored` that the graph shows every receipt
that nobody is changing, `Marking` that a supersession is marked, or its command
still on the way. The lemmas behind it are that an event leaves the other receipts
as they are (`EffectiveSpared`, `ExtendsNow`) and that a command writes about the
receipts of its entry, and about the owner only of one that it changes
(`WritesOwn`).

**Left out.** Titles, categories, dates, `--downloads-root`, the index name of
older versions, an empty owner. A write to the graph is one step here; what it
consists of is Journal's and WikiSync's matter.

## The components that share only the root

The modules from `Harvest` to `Pickup` have files of their own. They meet only
in the journal, whose appends are one step here and are taken apart in Journal.
`Stores` puts the components that keep files side by side: a behaviour chooses
one (`part`), only its actions happen, and the variables of the others are parked
at a constant. `Answers` does the same for those that answer questions and keep
nothing but a cache (`answering`; two of them are declared in `Searches`, which it
extends), and `MCComponents` checks both in one run. The
run explores the sum of the components and not their product, which says nothing
more since none reads what another writes. `Harvest` is extended and the others
are instances (`D`, `F`, `A`, ...), whose variables get names of their own, so that
the properties checked are the ones that `StoresProofs` and `AnswersProofs`, which
extends `SearchProofs`, prove. No fairness is assumed: all properties are safety.
`CHECK_DEADLOCK FALSE`, because bounded commands end.

**Harvest** (`ConsumedExactly`). `StartRun` loads the cursor and lists the inbox;
one step per file read and per append follows, then the cursor written to its one temporary name and renamed. Files
change, cannot be read or match a credential pattern; runs fail and die. What
the cursor names was appended or held back; a file is appended twice only where
runs overlapped or one died. Two ingests at once, three in all, two files, one
edit and one death: a third ingest meets whatever two overlapping ones leave.

**Derived** (`IndexIsTrue`). The journal, as the set of its events, numbered in
the order of their lines, and whether it has lines that do not parse, its
quarantine, the redb tables and the full text index with the moments between their
commits, and the doctor's five checks as five steps. `CreateFts` is apart from
`CommitFts` because `create_in_dir` already leaves an index that opens and is empty
(`Created`). A rebuild that ended shows the events it read; a doctor that found
nothing wrong while nothing changed is right about journal, edges and tables, and
about the text index unless a build died between the two. Two rebuilds,
two events, one damage, one death: what a death leaves is met by the rebuild after
it and by the doctor.

**Finalize** (`ReleasedWhole`). One action per copy, publication, recheck and
removal. Three plans, two for one collection (they race) and one that removes a
published file; one edit, one death. It holds, but the window between recheck
and removal is in the model: `removed` records what was there and what was
planned, and they can differ.

**ArtifactStore** (`NodeHasBytes`). Four adds of one content, three under one
name and one under another, since three adds are what it takes for one to rename
a file that another has emptied while a third is past its writing. Adds for a
project that is unknown end before they store anything and are not represented.

**Checkpoint** (`ProgressInherited`). A file is a sequence of texts and newlines,
and the latest record of a session the one at its last place. The text of a line
and its newline are two writes, so lines glue; two processes, three records, two projects, one death.
A record is composed from options and the latest record (`Begin`), or is the one of a
JSON (`BeginFile`), which inherits nothing: what it leaves out is empty. It
excludes commands that overlap (`overlapped`) and files that do not parse
(`torn`): nothing in the code repairs those.

**History** (`LoadKeepsDecisions`). Snapshot, index line, newline, under the
exclusive lock; three decisions, two of them forms of one, two index lines per
behaviour, one death. A failed load after an acknowledged save is possible only
when a save died inside its line (`half`).

**Decisions and Middleware** (`PacketsAreTrue`). Pure operators for model,
ancestry and preparation, and one action per request. Histories of up to four
decisions with every kind of replacement and dependence between them, items
whose packet costs more or less than the sum of its parts, and a request file
that is rewritten between a packet and its expansion.

**Graph** (`QueryFollows`). The journal as a sequence of events, its replay with
validity windows and projections, `relate` as a check and a later append, the
query over several hops with its limits. A node is as its last upsert before the
time asked for says, and the hits are the set of the nodes reached, ranked by
their depth and id as the code sorts them. Two starting journals, two commands of
two processes, six questions at different times, one of them past its limits.

**Evidence** (`CoveredIsGrounded`, `ContradictionBlocks`). Versions of three
nodes, links between them, contracts with one and two facts, hop limits and
costs that do and do not grow with a packet; one event comes between pin and
answer. The order of rows matters, and so the run `evidence_hidden`
(`MCEvidence`) finds a disagreement: a root's closure ends at the first problem,
and a contradiction behind a missing dependency is then not known when another
alternative is chosen, although "active `CONTRADICTS` links block coverage".

**TaskEntry** (`PagesShowAll`). A text is the set of phrases it contains;
admission, baselines, the bounded neighbourhood, and pages under a byte budget
and a row limit. A brand with a logo in two formats, a second logo, two projects, two
constraints and a deck, in six variants; requests of five sets of terms, three
limits and four budgets. Among them are pages on which no row fits, so that the
first is put back, and pages that keep a later and cheaper row and therefore none:
these repeat their own `next_offset`. The property leaves out that case alone; on
every other page the candidate at its offset is shown, so that reading on ends.
Neighbours are taken in the order of their position.

**Trace** (`TraceIsHonest`). Frontier and beam, three budgets, the cache keyed
by size and modification time, expansion. Three graphs, two sources of three
contents, one edit, two searches. A provenance that is a bare name (`InferredBareFile`)
has a locator only while the file is in the root or the inbox, so what a node leads
to depends on the files that were there when the candidates were chosen (`there`).
A bare name whose file is gone is passed over without a word, and the coverage is
still called complete: the property promises nothing of it. An edit that keeps size
and time (`restamped`) is possible and excluded from what is promised.

**HookInstall** (`SettingsKept`) and **HookRun** (`ReceiptsKept`). Settings with
handlers of older roots among those of the user, of another type or broken;
three installs, one save by the user, one death. Firings of two processes, two
changes of the worktree, one kill, a reader that deletes.

**Pickup** (`PickupIsTrue`). A transcript is a sequence of the words its source
has for a record, or of calls and results of the plan tool; sessions of every
kind of source, of two to four records, of which the last two are read
(`TailLines`), so that a record may fall outside. Plans come with any records
(length three) or with paired calls and results (length four). Grok's two
streams are read at one moment, and so are task state and evidence; the `since`
filter and the basis of a verification are left out.

**Proved.** `ConsumesExactly` (StoresProofs), for any runs, files, edits and
deaths, from `NamesApart` (finitely many names; the marks of an unreadable
cursor are no sets of names). `TypeInv` and `HandledInv` (whatever was loaded,
will be recorded or was written to either file was handled) give the first half.
The second needs `OnceInv`: while nothing has overlapped or died, at most one
run is active and it is `Alone`, its cursor is the one it loaded, and its pending
names are new and each there once.

`BytesSurvive` (ArtifactStore, in StoresProofs), for any adds, names and deaths, from
`StoreAssumption`. `StoredInv` says that whoever is past the bytes writes the
provenance, and `TempInv` that a temporary file somebody is going to rename is
full or being filled. The proof is why `torn` also covers an add that empties a
file another one is about to rename: without it the invariant does not hold.

`CollectionsReleased` (FinalizeProofs), for any runs, plans and files, from
`PlanAssumption` (a plan is two lists, hashes are contents, a collection's files
have names of their own). `CopiedInv` says that what is staged is what is
planned, `CollectionInv` that each final is in its collection or was removed
from it, `RemovedInv` that a run past its publication has removed every file it
has passed; a published collection keeps the plan that published it
(`Lasting`), which carries both over the steps of other runs. That the manifest
names each file once is needed for the copy to be the planned one
(`NamesOnce`).

`StoresProofs` is about `StoreSpec`, the specification of the stores alone; the
run's `AnySpec` adds the components that answer questions, under other values of
`part`. It assumes `StoresAssumption`: what Finalize and ArtifactStore assume,
that the record of a checkpoint is no newline and the project of a working
directory is one, and that the marks for "none" and "empty" are no processes,
requests, digests or receipts; `DocumentAssumption` says what settings consist of
and `LogAssumption` what the starting journals do. TLC evaluates it on the run's
constants.

- `DecisionsSurvive` (History, `HistoryInv`): who is between the check and the
  unlock holds the lock (`Exclusive`), so that the lines of the index grow and the
  request at work extends them all (`Growing`); a line stands for a whole snapshot
  (`Backed`), an acknowledged request for a line (`Lined`). That a load gives the
  last line then means that it contains each acknowledged request.
- `ReceiptsSurvive` (HookRun, `HookInv`): a hook that decided to write keeps the
  digest of what it saw (`Digested`), a receipt is filled with what its name says or
  its hook is still at it or was killed (`FilledOrBusy`), and of hooks that did not
  overlap one at most writes a digest, and only where there is none (`Single`,
  `Unique`).
- `IndexTells` (Derived, `DerivedInv`): what a rebuild has removed and written
  at each step (`Rebuilding`), that the two files never show different journals
  but where the text index is the empty one that a dead build had just created
  (`Agreeing`), and what the doctor's results so far say while nothing changes
  (`Examined`).
- `ProgressSurvives` (Checkpoint, `CheckpointInv`; of files as well as of options,
  since a record from a file says all its fields): while nothing has overlapped
  or been torn, at most one command per project is at work (`OneAtATime`), every
  line is whole (`LinesWhole`), and what is about to be appended continues the
  file as it is (`Continues`): the property speaks of the file only, and the
  record was composed from an earlier reading of it.
- `ReleasesSurvive`: the theorem of FinalizeProofs, carried over. `FinalizeSame`
  says that the instance in `Stores` and the one that the proof module extends are
  the same specification.
- `SettingsSurvive` (HookInstall, `SettingsInv`): the settings are ones that the
  agent can have (`SettingsTyped`), what an install is about to write keeps the
  user's part of what it read and wires every event (`Prepared`), and the file does
  so once it is written (`InPlace`), until the user's own save comes between
  (`settingsDisturbed`). The lemma `WiredIs` says of the merge that it keeps the
  user's handlers in their order and leaves one handler of ours per event; it is
  shown by induction over the lengths of the lists it filters.
- `QueriesFollow` (Graph, `GraphInv`): a validated or acknowledged `relate` was
  valid for a prefix of the journal. That prefix stays one (`PrefixStays`), so an
  acknowledged edge is in the replay at its times (`RelatedIsFollowed`, with
  `FieldStays`: a later upsert changes no earlier time). `LayersAre` gives the
  breadth first search what it reaches at each depth, and `AllShown` and
  `NearerShown` count ranks: below the limit nothing is left out, and what is shown
  is nearer than what is not.

Induction over data is done here with `NatSetInduction`, in which the induction
hypothesis is a set of numbers rather than an operator; it takes recursive
functions in place of `RECURSIVE` operators.

`AnswersProofs` is about `AnswerSpec`, under `AnswersAssumption` and
`SearchesAssumption`: limits, budgets and costs are counts, requests hold lists,
nodes are numbered, and the mark for "none" is none of these. What a request computes is a function of its input, so
most of this is lemmas about operators. Lists that the code sorts are given by
rank, and `PlaceIsTaken` puts each element at its place. Walks are recursive
functions: `RecursionExists` says that a function whose values are computed from
those below it exists, and `Iteration` that a step can be repeated.

- `PagesComplete` (TaskEntry, `TaskInv`): what was shown so far is a prefix of the
  candidates whose length the offset gives, if there is one. `KeptIsRun` is why:
  a page keeps a run of the rows from its offset on, whatever the byte budget and
  the limit leave out. `PageGoesOn` says that this run is not empty: candidates come by
  falling score, also after the fallback and after what is left out for the
  constraints (`PageBest`), and a rank takes from a value (`DecayFalls`). So a first row
  that costs no more than the others is the densest of them (`RowsFall`), comes before
  them in the order of the budget (`FirstKept`), and is chosen whenever one of them
  is; where none is, it is put back. `ReadyHolds` gives what "ready" says of the
  baseline. `TaskAssumption` is used here: costs and weights of terms are positive,
  terms finitely many.
- `PacketsTrue` (Middleware, `MiddlewareInv`): a packet is the answer to the
  request as it was then. `WalkMeets` and `AncestorsAre` say that the walk over
  references meets all that a decision rests on, however deep, although it passes
  over what it has met; `UnguardedIsReliable` follows, by induction over the time of
  decisions: what no guard reaches rests on nothing that was replaced, does not
  apply or competes. `SelectedHolds` says of items that one is left out only when
  it does not fit with those before it.
- `AnswersGrounded` (Evidence, `EvidenceInv`): an answer keeps its promise at the
  journal it is about. For the closure, `WalkInv` is kept by every node followed:
  the roots are seen or queued (`Rooted`), what was seen is usable, uncontradicted
  and its dependencies seen or queued (`Settled`), what is queued is as near as its
  depth says (`Shallow`), and queue and unfollowed rows shrink, so that the walk
  ends (`Ending`). `ClosureIs` then says that a closure without a problem is all
  that its roots rest on. For the search, every selection that was visited is
  priced, which means that whatever completes it does not fit or is no cheaper
  than the best, but for those on the way to the one at hand (`SearchInv`); that is
  what makes the table of visited selections sound although a best found later
  changes what is beaten. `SearchBest` concludes that a search within its limit
  leaves the cheapest.
- `PickupTrue` (Pickup, `PickupInv`, with its lemmas in `SearchProofs`): what is found and reported was so when the
  last record was read. `TruthIs` describes what is open in a session by the last
  records of its streams, without folding over them: a turn has ended when the last
  record that ends one comes after the last that goes on. `TruthOnward` keeps that
  with every word, `NothingTold` with every other record. The reader of
  `unfinished` sees only a tail: `LastsAre` says where the last line of each kind
  is in it, and the arithmetic of `RecordEnded`, `ExitOpen` and their like that the
  comparisons come out the same, unless what they are about lies before the tail;
  `StreamVerdict`, `GrokVerdict`, `AntigravityVerdict` and `DatabaseVerdict` say so
  of each kind of store. For the plan, `PlanHeld` relates the calls and
  confirmations that the reader holds to the calls that are open and the plans that
  took effect: ids of open calls differ, each that waits waits with its own items,
  and when every record can be read and paired the reader has missed none.
- `TraceHonest` (Trace, `TraceInv`, with its lemmas in `SearchProofs`): a search
  whose coverage is complete has quoted all that the links lead to. `WalkKept` is
  kept by every round of the walk: unless it is limited, the seeds and whatever a
  visited node is linked to are visited or pending, and `WalkReaches` concludes that
  the visited nodes are closed under the links. `CandidatesAre` makes a candidate of
  each that has a locator with the files that are there at that moment. From then on `NamedKept` says that whatever the links lead
  to is pending or was looked at, and `SeenKept` that what was looked at is quoted
  from something that the source had since the search began, and that the files it
  names are pending or looked at in their turn; at the end nothing is pending
  (`FinishKept`). Files change between opening and reading and between two
  searches: `SameThen` says of a reading and `HeadsKept` of every kept one that a
  file of the same stamp has the same content, as long as no file is restamped.
  `Spends` balances the budget at each stage: what is charged covers what is read
  and leaves room for the allowance of the source at hand.

Model-checked only: all liveness properties, for which the prover has no rule of
fairness.

## Behaviour that a reader may not expect

Where a document says otherwise and a run shows it, `findings` lists it. The
following came up while reading and is represented where a module covers it; no
run is spent on it.

- Index and doctor: a build that dies between `create_in_dir` and its commit
  (`index.rs:279-308`) leaves an `fts/` that opens and is empty beside a matching
  `index.redb`. The doctor asks "are the derived files fresh, or nothing stale?"
  (`doctor/index.rs:1`) and answers ok, since it only opens `fts/`; the comment on
  `build` knows of "a new redb beside a stale `fts/`", which the doctor does not.
- Checkpoints: `--project` after `record`, `show` or `list` is never read
  (cli `checkpoint.rs:34-36`, `68-76`, `80-89`). `record --file` takes its JSON as it
  is: lists that it leaves out are empty and not those of the record before, and the
  project that it names is not the one whose file it goes to (`93-116`).
- Query: the "Pinned algorithm (implement exactly...)" of `query.rs:1-20` has an edge
  validated with "provenance read from the from-node's `provenance` field when present".
  The code reads the edge's own and falls back to the from-node for rows that have none
  (`query.rs:313-318`). `Graph` has what the code does (`Provenance`); the pinned form
  is the mutant `ProvenanceOfNode`, under which acknowledged edges are not followed.
- Harvest: "[`ingest::run`] skips an unreadable file while still advancing the
  watermark past it" (`harvest/mod.rs:31-33`), but the file is not among the
  names that the cursor takes up, so the next ingest tries it again
  (`harvest/ingest.rs:39-42`; `PassOver`).
- Finalize: a file edited between its last hash and its removal is removed
  (`finalize.rs:264`); a run that fails after publishing leaves a collection
  without a node, and its plan cannot be applied again.
- Wiki sync: a page that takes over the explicit id of an unreadable page shows
  that page's old edges until the next sync; after a move with an explicit id it
  takes up to three syncs until nothing is appended.
- Artifact store: two adds share `<target>.tmp` (`artifact.rs:196-198`).
- Graph: `relate` acknowledges validity times that are not canonical, which
  the replay skips; the reason `fts` and `time_blind_fts` cannot occur;
  `project_neighbors` removes only adjacent repetitions.
- Evidence: whether a hop limit is reported depends on the order of ids.
- Task entry: documents are folded before their approval and project are looked
  at. "The best constraint and the best row are always kept, even over the ceiling"
  (`budget.rs:40-41`), but the first row is put back only when no row was chosen
  (`budget.rs:87-96`): when a later, cheaper row is and the first is not, the leading
  run is empty and `next_offset` is the page's own, for ever (`105-109`). `--limit 0`
  asks for such a page too.
- Trace: "limitations and unavailable sources are explicit" (`docs/trace.md:36`), but
  a node whose provenance is a bare name of a file that is gone has no locator
  (`trace/cache.rs:163-184`), is no candidate, and the coverage is called complete;
  seeds are cut to twelve without marking the coverage incomplete; a
  missing native session is charged the whole allowance; an edit that keeps size
  and time is answered from the cache.
- Hooks: an install replaces settings that do not parse and stops with a panic
  when an event is no list (`install.rs:95`); `changed` is always true; a
  failing `git status` counts as clean; a killed write leaves a torn receipt
  that deduplicates later firings; a user's command that contains the marker is
  taken out too.
- Pickup: a refused result with items leaves its call pending, so the plan is
  reported as unconfirmed; an emptied plan leaves the former one; the order of
  results decides, not of calls; a truncated tail is only said of files over one
  MiB; a Claude tool result counts as a request of the user; an error in the
  checkpoints makes the listing fail; a completed checkpoint excludes a session
  that went on.

## What a failure of a property would mean

Every checked property has a mutant: the named definition with a plausible bug
(a check left out, an append too early, a mark not reset), under which the same
run fails. The mutants are the operators marked "Mutant of" in the modules.

## Not modelled

- *Conversation readers and sources*: parsers of native formats. Their callers
  (Retention, Trace, Pickup) have what they find as a choice.
- *Conversation compaction and projections*: one text transformation per call,
  decided by the wording of lines; no state for another step to meet.
- *Constraints*: a node and an edge through the writes that WikiSync and Ledger
  have; what is its own is the wording by which a constraint is recognised.
- *Credential redaction*: character by character; Harvest has its verdict as a
  property of a content.
- *Configuration, command line, development install*: sequential, one rename.
- *Vendored tantivy*: third-party code; Derived has how `index.rs` uses it.
- Of the components marked *partly*: `resolve_project_id`
  (`graph/materialize.rs:27`), the resume listings and handoff text, briefs and
  parity views, rendering and the semantic proposals of task entry.

Some hazards are met by no property and are known limits of the code: a Codex
subagent that starts after the listing (`session_retention/purge.rs:126`); an
Antigravity session of which one directory is gone
(`delete_adapter/antigravity.rs:35`); an Mcode row without a transcript
(`conversation/resume/mcode.rs:101`); an explicit id given between the readings of
two overlapping syncs (`wiki_graph/sync.rs:265`, excluded as `overlapped`);
a row that another owner asserts after a sync has read the graph, which goes with
the key that is retracted (`wiki_graph/sync.rs:258`); an event that another command
files between a command's two readings of a receipt, which leaves an edge to a former
owner (`ledger/commands.rs:197`, excluded as `tainted`);
supersessions in a circle (`artifact/ledger/ops.rs:184`); an append of which a
reader sees half (`journal.rs:189`, covered by the proofs of Journal with
`AtomicWrite = FALSE`).

## Next

- Composition: retention's appends and the ledger's mirror over Journal in
  place of an append that is one step.
- Resume listings of the stores with their precedence over one another.
