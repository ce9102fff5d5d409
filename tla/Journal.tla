------------------------------- MODULE Journal -------------------------------
(***************************************************************************)
(* The append-only event journal of innen-core (journal.rs), shared by any *)
(* number of short-lived `innen` processes without a daemon.               *)
(*                                                                         *)
(* Every command that writes first runs Journal::open, which repairs the   *)
(* file under an exclusive lock: corrupt lines are copied to the           *)
(* quarantine file, the remaining lines are written to a temporary file    *)
(* and renamed over the journal.  It then appends entries, each with one   *)
(* O_APPEND write on a file descriptor of its own and without any lock.    *)
(*                                                                         *)
(* A file is the set of its lines and its unterminated tail: the order of  *)
(* lines changes no property stated here (appends add at the end, a repair *)
(* keeps the order of what it keeps).  An Entry stands for the bytes of    *)
(* one call of Journal::append, so distinct calls are distinct entries.    *)
(***************************************************************************)
EXTENDS Naturals, FiniteSets

CONSTANTS
    Proc,       \* processes running `innen` commands
    Entry,      \* the lines that calls of Journal::append serialise
    Inode,      \* identities of the files the name journal.jsonl has denoted
    NoProc,     \* the lock is free
    NoFile,     \* journal.jsonl does not exist
    NoEntry,    \* the process is not inside an append
    MaxCrash,   \* how many commands may die or fail between two steps
    AtomicWrite \* a reader sees all or nothing of a write in progress

ASSUME NoProcAssumption  == NoProc \notin Proc
ASSUME NoFileAssumption  == NoFile \notin Inode
ASSUME NoEntryAssumption == NoEntry \notin Entry
ASSUME MaxCrashAssumption == MaxCrash \in Nat
ASSUME AtomicWriteAssumption == AtomicWrite \in BOOLEAN

VARIABLES
    pc,         \* where each process is
    lock,       \* holder of journal.lock
    journal,    \* the inode that journal.jsonl names
    inode,      \* contents of every inode, linked or not
    used,       \* inodes allocated so far
    snap,       \* lines the process read in quarantine_scan
    todo,       \* corrupt lines the process still has to quarantine
    quarantine, \* the quarantine file
    fd,         \* inode the process's append opened
    cur,        \* entry the process is appending
    called,     \* entries whose append has begun (history)
    acked,      \* entries whose append returned Ok (history)
    torn,       \* entries whose write was cut short (history)
    crashes     \* commands that died or failed (bounds the model)

fileVars  == <<journal, inode, used>>
scanVars  == <<snap, todo>>
entryVars == <<fd, cur, called, acked, torn>>
vars == <<pc, lock, fileVars, scanVars, quarantine, entryVars, crashes>>

-----------------------------------------------------------------------------
(***************************************************************************)
(* Lines and files.                                                        *)
(***************************************************************************)

\* The bytes between two newlines: the entries all of whose bytes they hold,
\* the entries of which they hold a proper part, and whether the cut fell
\* inside a multi-byte character, which makes the file invalid UTF-8.
Line == [whole : SUBSET Entry, part : SUBSET Entry, split : BOOLEAN]

File == [lines : SUBSET Line, tail : Line]

NoBytes == [whole |-> {}, part |-> {}, split |-> FALSE]

EmptyFile == [lines |-> {}, tail |-> NoBytes]

\* The line of one entry and nothing else.
Clean(e) == [whole |-> {e}, part |-> {}, split |-> FALSE]

\* The first bytes of a line.
Cut(l, s) == [whole |-> {}, part |-> l.whole \union l.part, split |-> s]

Glue(a, b) == [whole |-> a.whole \union b.whole,
               part  |-> a.part \union b.part,
               split |-> a.split \/ b.split]

\* An O_APPEND write of a line with its newline, and one that loses at least
\* the newline: both continue whatever unterminated tail the file has.
AppendLine(f, l) == [lines |-> f.lines \union {Glue(f.tail, l)}, tail |-> NoBytes]
AppendCut(f, l)  == [f EXCEPT !.tail = Glue(f.tail, l)]

\* str::lines yields a last line without newline, and none after a newline.
LinesOf(f) == f.lines \union ({f.tail} \ {NoBytes})

\* read_to_string fails with InvalidData on a file that is not UTF-8.
IsUtf8(f) == \A l \in LinesOf(f) : ~l.split

\* A line of two entries, or with a part of one, is not one JSON object.
KeepLine(l) == \E e \in Entry : l = Clean(e)

Corrupt(ls) == {l \in ls : ~KeepLine(l)}

\* Journal::read_all of a file that can be read.
ReadAll(f) == IF IsUtf8(f) THEN {e \in Entry : Clean(e) \in LinesOf(f)} ELSE {}

Content == IF journal = NoFile THEN EmptyFile ELSE inode[journal]

\* The file that the next O_CREAT of a missing name allocates.
NewInode == CHOOSE i \in Inode : i \notin used

WholeIn(f) == UNION {l.whole : l \in LinesOf(f)}

-----------------------------------------------------------------------------
(***************************************************************************)
(* Journal::open.                                                          *)
(***************************************************************************)

States == {"idle", "lock", "scan", "quarantine", "opened", "append"}

Init ==
    /\ pc = [p \in Proc |-> "idle"]
    /\ lock = NoProc
    /\ journal = NoFile
    /\ inode = [i \in Inode |-> EmptyFile]
    /\ used = {}
    /\ snap = [p \in Proc |-> {}]
    /\ todo = [p \in Proc |-> {}]
    /\ quarantine = EmptyFile
    /\ fd = [p \in Proc |-> NoFile]
    /\ cur = [p \in Proc |-> NoEntry]
    /\ called = {}
    /\ acked = {}
    /\ torn = {}
    /\ crashes = 0

\* A command starts: create_dir_all, then the lock file is opened.
StartOpen(p) ==
    /\ pc[p] = "idle"
    /\ pc' = [pc EXCEPT ![p] = "lock"]
    /\ UNCHANGED <<lock, fileVars, scanVars, quarantine, entryVars, crashes>>

\* lock_exclusive blocks until nobody holds the lock.
AcquireLock(p) ==
    /\ pc[p] = "lock"
    /\ lock = NoProc
    /\ lock' = p
    /\ pc' = [pc EXCEPT ![p] = "scan"]
    /\ UNCHANGED <<fileVars, scanVars, quarantine, entryVars, crashes>>

\* What read_to_string can return.  Reads of some file systems (ext4) are not
\* ordered with a write in progress: they may see its first bytes only.
Seen ==
    {Content} \union
    {AppendCut(Content, Cut(Clean(cur[q]), s)) :
        q \in {r \in Proc : ~AtomicWrite /\ pc[r] = "append" /\ fd[r] = journal},
        s \in BOOLEAN}

\* quarantine_scan finds no journal, or one without a corrupt line, which is
\* left untouched; the lock is dropped and open returns.
ScanClean(p) ==
    /\ pc[p] = "scan"
    /\ \E f \in Seen : IsUtf8(f) /\ Corrupt(LinesOf(f)) = {}
    /\ pc' = [pc EXCEPT ![p] = "opened"]
    /\ lock' = NoProc
    /\ UNCHANGED <<fileVars, scanVars, quarantine, entryVars, crashes>>

\* Mutant of ScanFails: the error return happens before the lock is dropped.
ScanFailsLocked(p) ==
    /\ pc[p] = "scan"
    /\ \E f \in Seen : ~IsUtf8(f)
    /\ pc' = [pc EXCEPT ![p] = "idle"]
    /\ UNCHANGED <<lock, fileVars, scanVars, quarantine, entryVars, crashes>>

\* read_to_string fails: open returns the error, nothing is quarantined.
ScanFails(p) ==
    /\ pc[p] = "scan"
    /\ \E f \in Seen : ~IsUtf8(f)
    /\ pc' = [pc EXCEPT ![p] = "idle"]
    /\ lock' = NoProc
    /\ UNCHANGED <<fileVars, scanVars, quarantine, entryVars, crashes>>

\* Mutants of ScanCorrupt: a clean file is rewritten too, and corrupt lines
\* are not collected for quarantine.
ScanRewritesClean(p) ==
    /\ pc[p] = "scan"
    /\ \E f \in Seen :
          /\ IsUtf8(f)
          /\ snap' = [snap EXCEPT ![p] = LinesOf(f)]
          /\ todo' = [todo EXCEPT ![p] = Corrupt(LinesOf(f))]
    /\ pc' = [pc EXCEPT ![p] = "quarantine"]
    /\ UNCHANGED <<lock, fileVars, quarantine, entryVars, crashes>>

ScanForgetsCorrupt(p) ==
    /\ pc[p] = "scan"
    /\ \E f \in Seen :
          /\ IsUtf8(f)
          /\ Corrupt(LinesOf(f)) # {}
          /\ snap' = [snap EXCEPT ![p] = LinesOf(f)]
    /\ pc' = [pc EXCEPT ![p] = "quarantine"]
    /\ UNCHANGED <<lock, fileVars, todo, quarantine, entryVars, crashes>>

\* The scan read corrupt lines.
ScanCorrupt(p) ==
    /\ pc[p] = "scan"
    /\ \E f \in Seen :
          /\ IsUtf8(f)
          /\ Corrupt(LinesOf(f)) # {}
          /\ snap' = [snap EXCEPT ![p] = LinesOf(f)]
          /\ todo' = [todo EXCEPT ![p] = Corrupt(LinesOf(f))]
    /\ pc' = [pc EXCEPT ![p] = "quarantine"]
    /\ UNCHANGED <<lock, fileVars, quarantine, entryVars, crashes>>

\* One corrupt line and a newline are appended to the quarantine file.
QuarantineLine(p, l) ==
    /\ pc[p] = "quarantine"
    /\ l \in todo[p]
    /\ quarantine' = AppendLine(quarantine, l)
    /\ todo' = [todo EXCEPT ![p] = @ \ {l}]
    /\ UNCHANGED <<pc, lock, fileVars, snap, entryVars, crashes>>

\* Mutant of Rebuild: the journal is replaced before the corrupt lines are in
\* the quarantine file.
RebuildEarly(p) ==
    /\ pc[p] = "quarantine"
    /\ used # Inode
    /\ inode' = [inode EXCEPT ![NewInode] =
          [lines |-> {l \in snap[p] : KeepLine(l)}, tail |-> NoBytes]]
    /\ used' = used \union {NewInode}
    /\ journal' = NewInode
    /\ snap' = [snap EXCEPT ![p] = {}]
    /\ todo' = [todo EXCEPT ![p] = {}]
    /\ pc' = [pc EXCEPT ![p] = "opened"]
    /\ lock' = NoProc
    /\ UNCHANGED <<quarantine, entryVars, crashes>>

\* The lines that were good when the file was read are written to the
\* temporary file, which replaces the journal under its name; the lock is
\* dropped.  Nothing of this is visible to others before the rename.
Rebuild(p) ==
    /\ pc[p] = "quarantine"
    /\ todo[p] = {}
    /\ used # Inode
    /\ inode' = [inode EXCEPT ![NewInode] =
          [lines |-> {l \in snap[p] : KeepLine(l)}, tail |-> NoBytes]]
    /\ used' = used \union {NewInode}
    /\ journal' = NewInode
    /\ snap' = [snap EXCEPT ![p] = {}]
    /\ pc' = [pc EXCEPT ![p] = "opened"]
    /\ lock' = NoProc
    /\ UNCHANGED <<todo, quarantine, entryVars, crashes>>

-----------------------------------------------------------------------------
(***************************************************************************)
(* Journal::append.                                                        *)
(***************************************************************************)

\* Mutant of AppendOpen: the journal is opened without O_CREAT.
AppendOpenExisting(p, e) ==
    /\ pc[p] = "opened"
    /\ e \notin called
    /\ called' = called \union {e}
    /\ cur' = [cur EXCEPT ![p] = e]
    /\ pc' = [pc EXCEPT ![p] = "append"]
    /\ fd' = [fd EXCEPT ![p] = journal]
    /\ UNCHANGED <<lock, fileVars, scanVars, quarantine, acked, torn, crashes>>

\* append opens journal.jsonl with O_CREAT and O_APPEND.  The descriptor
\* stays on that inode whatever is renamed over the name later.
AppendOpen(p, e) ==
    /\ pc[p] = "opened"
    /\ e \notin called
    /\ called' = called \union {e}
    /\ cur' = [cur EXCEPT ![p] = e]
    /\ pc' = [pc EXCEPT ![p] = "append"]
    /\ \/ /\ journal # NoFile
          /\ fd' = [fd EXCEPT ![p] = journal]
          /\ UNCHANGED fileVars
       \/ /\ journal = NoFile
          /\ used # Inode
          /\ journal' = NewInode
          /\ used' = used \union {NewInode}
          /\ fd' = [fd EXCEPT ![p] = NewInode]
          /\ UNCHANGED inode
    /\ UNCHANGED <<lock, scanVars, quarantine, acked, torn, crashes>>

\* One O_APPEND write of the whole line to the inode that was opened.
WriteLine(p) ==
    /\ pc[p] = "append"
    /\ inode' = [inode EXCEPT ![fd[p]] = AppendLine(@, Clean(cur[p]))]
    /\ fd' = [fd EXCEPT ![p] = NoFile]
    /\ cur' = [cur EXCEPT ![p] = NoEntry]
    /\ UNCHANGED <<lock, journal, used, scanVars, quarantine, called, torn, crashes>>

\* write_all, sync_all, and append returns the event id.
AppendWrite(p) ==
    /\ WriteLine(p)
    /\ acked' = acked \union {cur[p]}
    /\ pc' = [pc EXCEPT ![p] = "opened"]

\* The line is written, but sync_all fails or the process is killed before
\* append returns: the caller does not know.
AppendUnacked(p) ==
    /\ WriteLine(p)
    /\ pc' = [pc EXCEPT ![p] = "idle"]
    /\ UNCHANGED acked

\* The process is killed inside write, or write_all stops with an error (no
\* space left) after some bytes: the file keeps a part of the line, cut
\* between or inside characters, or all of it but the newline.
AppendTorn(p) ==
    /\ pc[p] = "append"
    /\ \E l \in {Clean(cur[p]), Cut(Clean(cur[p]), FALSE), Cut(Clean(cur[p]), TRUE)} :
          inode' = [inode EXCEPT ![fd[p]] = AppendCut(@, l)]
    /\ torn' = torn \union {cur[p]}
    /\ pc' = [pc EXCEPT ![p] = "idle"]
    /\ fd' = [fd EXCEPT ![p] = NoFile]
    /\ cur' = [cur EXCEPT ![p] = NoEntry]
    /\ UNCHANGED <<lock, journal, used, scanVars, quarantine, called, acked, crashes>>

\* The command ends.
Close(p) ==
    /\ pc[p] = "opened"
    /\ pc' = [pc EXCEPT ![p] = "idle"]
    /\ UNCHANGED <<lock, fileVars, scanVars, quarantine, entryVars, crashes>>

-----------------------------------------------------------------------------
(***************************************************************************)
(* A process dies, or an I/O error ends its command: both drop the lock    *)
(* and what the process knew.  The files stay as they are; a stale         *)
(* temporary file is truncated by the next repair.                         *)
(***************************************************************************)

Die(p) ==
    /\ crashes < MaxCrash
    /\ crashes' = crashes + 1
    /\ pc' = [pc EXCEPT ![p] = "idle"]
    /\ lock' = IF lock = p THEN NoProc ELSE lock
    /\ snap' = [snap EXCEPT ![p] = {}]
    /\ todo' = [todo EXCEPT ![p] = {}]
    /\ fd' = [fd EXCEPT ![p] = NoFile]
    /\ cur' = [cur EXCEPT ![p] = NoEntry]
    /\ UNCHANGED <<fileVars, called, acked, torn>>

Crash(p) ==
    /\ pc[p] # "idle"
    /\ Die(p)
    /\ UNCHANGED quarantine

\* It ends inside or right after the write of a line to the quarantine file.
CrashInQuarantine(p, l) ==
    /\ pc[p] = "quarantine"
    /\ l \in todo[p]
    /\ \E c \in {l, Cut(l, FALSE)} : quarantine' = AppendCut(quarantine, c)
    /\ Die(p)

-----------------------------------------------------------------------------

OpenStep(p) ==
    \/ ScanClean(p)
    \/ ScanFails(p)
    \/ ScanCorrupt(p)
    \/ \E l \in todo[p] : QuarantineLine(p, l)
    \/ Rebuild(p)

Next ==
    \E p \in Proc :
        \/ StartOpen(p)
        \/ AcquireLock(p)
        \/ OpenStep(p)
        \/ \E e \in Entry : AppendOpen(p, e)
        \/ AppendWrite(p)
        \/ AppendUnacked(p)
        \/ AppendTorn(p)
        \/ Close(p)
        \/ Crash(p)
        \/ \E l \in todo[p] : CrashInQuarantine(p, l)

Spec == Init /\ [][Next]_vars

\* A running process is scheduled, and a process blocked in flock is woken
\* in the end when the lock keeps being released.  Nothing makes a command
\* start, append or die.
Fairness ==
    \A p \in Proc : WF_vars(OpenStep(p)) /\ SF_vars(AcquireLock(p))

FairSpec == Spec /\ Fairness
-----------------------------------------------------------------------------
(***************************************************************************)
(* What the journal promises.                                              *)
(***************************************************************************)

\* Type invariant of the journal's files and of the processes' local state
\* (struct JournalEntry and the locals of open, quarantine_scan and append).
TypeOK ==
    /\ pc \in [Proc -> States]
    /\ lock \in Proc \union {NoProc}
    /\ journal \in Inode \union {NoFile}
    /\ inode \in [Inode -> File]
    /\ used \subseteq Inode
    /\ snap \in [Proc -> SUBSET Line]
    /\ todo \in [Proc -> SUBSET Line]
    /\ quarantine \in File
    /\ fd \in [Proc -> Inode \union {NoFile}]
    /\ cur \in [Proc -> Entry \union {NoEntry}]
    /\ called \subseteq Entry
    /\ acked \subseteq Entry
    /\ torn \subseteq Entry
    /\ crashes \in 0 .. MaxCrash
    /\ journal \in used \union {NoFile}
    /\ \A p \in Proc : pc[p] = "append" => fd[p] \in used /\ cur[p] \in called

\* doctor's journal-valid and quarantine-list checks.
JournalValid    == IsUtf8(Content) /\ Corrupt(LinesOf(Content)) = {}
QuarantineEmpty == LinesOf(quarantine) = {}

\* A lost write is never silent: while an entry whose append returned Ok
\* cannot be read back, `innen doctor` does not report a healthy journal
\* (journal.rs append, quarantine_scan, read_all; doctor/journal.rs).
LossIsReported ==
    acked \subseteq ReadAll(Content) \/ ~JournalValid \/ ~QuarantineEmpty

\* Without a cut write, appends that take no lock are safe against each
\* other and against every open: nothing is quarantined and every entry that
\* append acknowledged can be read (journal.rs:6-8, "relies on O_APPEND").
SteadyStateAppend ==
    AtomicWrite /\ torn = {} =>
        /\ JournalValid
        /\ QuarantineEmpty
        /\ acked \subseteq ReadAll(Content)

\* A repair takes no whole entry out of the journal but the ones it copied
\* to the quarantine file and the ones appended behind its scan, also when
\* an earlier repair died half way (journal.rs quarantine_scan).
RepairDropsOnlyUnseen ==
    [][\A e \in WholeIn(Content) :
          \/ e \in WholeIn(Content)'
          \/ e \in WholeIn(quarantine)
          \/ \E p \in Proc : /\ pc[p] = "quarantine" /\ lock = p
                             /\ \A l \in snap[p] : e \notin l.whole]_vars

\* A command that waits for the lock gets through Journal::open, or fails or
\* dies there: no path through open keeps the lock (journal.rs open).
OpenCompletes ==
    \A p \in Proc : pc[p] = "lock" ~> pc[p] \in {"opened", "idle"}

\* "Edits never erase history": the bytes of an acknowledged entry remain in
\* the journal or in the quarantine file (README, journal.rs append).
AckedSurvive == acked \subseteq WholeIn(Content) \union WholeIn(quarantine)

\* read_all skips an unparseable tail and returns the lines before it
\* (journal.rs:245-247, "a crash that happened after `open`").
ReadAllSkipsTornTail ==
    \A e \in Entry : Clean(e) \in Content.lines => e \in ReadAll(Content)
=============================================================================
