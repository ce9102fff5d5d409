---------------------------- MODULE JournalProofs ----------------------------
(***************************************************************************)
(* What holds of Journal for every number of processes, appends, deaths    *)
(* and inodes, whether or not a reader sees a write in progress.           *)
(***************************************************************************)
EXTENDS Journal, TLAPS

-----------------------------------------------------------------------------
(***************************************************************************)
(* Lemmas about lines and files.                                           *)
(***************************************************************************)

\* Lines are closed under cutting and gluing, and a clean line is a line.
LEMMA LineClosed ==
    /\ NoBytes \in Line
    /\ \A e \in Entry : Clean(e) \in Line
    /\ \A l \in Line : \A s \in BOOLEAN : Cut(l, s) \in Line
    /\ \A a \in Line : \A b \in Line : Glue(a, b) \in Line
BY DEF Line, NoBytes, Clean, Cut, Glue

\* The two kinds of O_APPEND write (append, quarantine_scan) yield files.
LEMMA AppendClosed ==
    ASSUME NEW f \in File, NEW l \in Line
    PROVE  /\ AppendLine(f, l) \in File
           /\ AppendCut(f, l) \in File
<1>1. f.lines \subseteq Line /\ f.tail \in Line /\ f = [lines |-> f.lines, tail |-> f.tail]
  BY DEF File
<1>2. Glue(f.tail, l) \in Line
  BY <1>1, LineClosed
<1>3. AppendLine(f, l) \in File
  BY <1>1, <1>2, LineClosed DEF AppendLine, File
<1>4. AppendCut(f, l) \in File
  BY <1>1, <1>2 DEF AppendCut, File
<1>. QED  BY <1>3, <1>4

\* Only the empty line glues to nothing.
LEMMA GlueNoBytes ==
    ASSUME NEW a \in Line, NEW b \in Line, Glue(a, b) = NoBytes
    PROVE  a = NoBytes /\ b = NoBytes
<1>1. /\ a.whole \union b.whole = {}
      /\ a.part \union b.part = {}
      /\ (a.split \/ b.split) = FALSE
  BY DEF Glue, NoBytes
<1>2. /\ a = [whole |-> a.whole, part |-> a.part, split |-> a.split]
      /\ b = [whole |-> b.whole, part |-> b.part, split |-> b.split]
      /\ a.split \in BOOLEAN /\ b.split \in BOOLEAN
  BY DEF Line
<1>3. a.whole = {} /\ a.part = {} /\ b.whole = {} /\ b.part = {}
  BY <1>1
<1>4. a.split = FALSE /\ b.split = FALSE
  BY <1>1, <1>2
<1>. QED  BY <1>2, <1>3, <1>4 DEF NoBytes

\* A complete write adds the whole entries of its line to the file's.
LEMMA WholeInAppendLine ==
    ASSUME NEW f \in File, NEW l \in Line
    PROVE  WholeIn(AppendLine(f, l)) = WholeIn(f) \union l.whole
<1>. DEFINE g == AppendLine(f, l)
<1>1. LinesOf(g) = f.lines \union {Glue(f.tail, l)}
  BY DEF LinesOf, AppendLine
<1>2. Glue(f.tail, l).whole = f.tail.whole \union l.whole
  BY DEF Glue
<1>3. NoBytes.whole = {}
  BY DEF NoBytes
<1>4. WholeIn(f) = (UNION {k.whole : k \in f.lines}) \union f.tail.whole
  BY <1>3 DEF WholeIn, LinesOf
<1>5. WholeIn(g) = (UNION {k.whole : k \in f.lines}) \union (f.tail.whole \union l.whole)
  BY <1>1, <1>2 DEF WholeIn
<1>. QED  BY <1>4, <1>5

\* So does a write that loses the newline or more.
LEMMA WholeInAppendCut ==
    ASSUME NEW f \in File, NEW l \in Line
    PROVE  WholeIn(AppendCut(f, l)) = WholeIn(f) \union l.whole
<1>. DEFINE g == AppendCut(f, l)
<1>1. g.lines = f.lines /\ g.tail = Glue(f.tail, l)
  BY DEF AppendCut, File
<1>2. Glue(f.tail, l).whole = f.tail.whole \union l.whole
  BY DEF Glue
<1>3. NoBytes.whole = {}
  BY DEF NoBytes
<1>4. WholeIn(f) = (UNION {k.whole : k \in f.lines}) \union f.tail.whole
  BY <1>3 DEF WholeIn, LinesOf
<1>5. WholeIn(g) = (UNION {k.whole : k \in g.lines}) \union g.tail.whole
  BY <1>3 DEF WholeIn, LinesOf
<1>. QED  BY <1>1, <1>2, <1>4, <1>5

\* A file that holds a byte keeps holding one; a complete write leaves one.
LEMMA AppendNotEmpty ==
    ASSUME NEW f \in File, NEW l \in Line
    PROVE  /\ LinesOf(AppendLine(f, l)) # {}
           /\ LinesOf(f) # {} => LinesOf(AppendCut(f, l)) # {}
<1>1. LinesOf(AppendLine(f, l)) # {}
  BY DEF LinesOf, AppendLine
<1>2. ASSUME LinesOf(f) # {}, LinesOf(AppendCut(f, l)) = {}
      PROVE  FALSE
  <2>1. AppendCut(f, l).lines = f.lines /\ AppendCut(f, l).tail = Glue(f.tail, l)
    BY DEF AppendCut, File
  <2>2. f.lines = {} /\ Glue(f.tail, l) = NoBytes
    BY <1>2, <2>1 DEF LinesOf
  <2>3. f.tail = NoBytes
    BY <2>2, GlueNoBytes DEF File
  <2>. QED  BY <1>2, <2>2, <2>3 DEF LinesOf
<1>. QED  BY <1>1, <1>2

-----------------------------------------------------------------------------
(***************************************************************************)
(* Type correctness.                                                       *)
(***************************************************************************)

\* A created file is a new one.
LEMMA NewInodeFresh ==
    ASSUME used \subseteq Inode, used # Inode
    PROVE  NewInode \in Inode \ used
<1>1. \E i \in Inode : i \notin used
  OBVIOUS
<1>. QED  BY <1>1 DEF NewInode

\* The lines read from a file are lines.
LEMMA LinesOfType ==
    ASSUME NEW f \in File
    PROVE  LinesOf(f) \subseteq Line
BY DEF LinesOf, File

\* What a scan reads is a file.
LEMMA SeenType ==
    ASSUME TypeOK
    PROVE  Seen \subseteq File
<1>1. EmptyFile \in File
  BY LineClosed DEF EmptyFile, File
<1>2. Content \in File
  BY <1>1, NoFileAssumption DEF Content, TypeOK
<1>3. ASSUME NEW q \in Proc, pc[q] = "append", NEW s \in BOOLEAN
      PROVE  AppendCut(Content, Cut(Clean(cur[q]), s)) \in File
  <2>1. cur[q] \in Entry
    BY <1>3 DEF TypeOK
  <2>2. Cut(Clean(cur[q]), s) \in Line
    BY <2>1, LineClosed
  <2>. QED  BY <1>2, <2>2, AppendClosed
<1>. QED  BY <1>2, <1>3 DEF Seen

\* The type invariant holds in every reachable state: files stay files on
\* every write, and an append writes to an inode that exists.
THEOREM TypeCorrect == Spec => []TypeOK
<1>1. Init => TypeOK
  BY LineClosed, MaxCrashAssumption DEF Init, TypeOK, States, EmptyFile, File
<1>2. TypeOK /\ [Next]_vars => TypeOK'
  <2>. SUFFICES ASSUME TypeOK, [Next]_vars PROVE TypeOK'
    OBVIOUS
  <2>0. CASE UNCHANGED vars
    BY <2>0 DEF vars, fileVars, scanVars, entryVars, TypeOK
  <2>1. ASSUME NEW p \in Proc, StartOpen(p) \/ AcquireLock(p) \/ ScanClean(p)
                                \/ ScanFails(p) \/ Close(p)
        PROVE  TypeOK'
    BY <2>1 DEF StartOpen, AcquireLock, ScanClean, ScanFails, Close, TypeOK, States,
                fileVars, scanVars, entryVars
  <2>2. ASSUME NEW p \in Proc, ScanCorrupt(p)
        PROVE  TypeOK'
    <3>1. PICK f \in File : /\ snap' = [snap EXCEPT ![p] = LinesOf(f)]
                            /\ todo' = [todo EXCEPT ![p] = Corrupt(LinesOf(f))]
      BY <2>2, SeenType DEF ScanCorrupt
    <3>2. LinesOf(f) \subseteq Line /\ Corrupt(LinesOf(f)) \subseteq Line
      BY LinesOfType DEF Corrupt
    <3>3. snap' \in [Proc -> SUBSET Line] /\ todo' \in [Proc -> SUBSET Line]
      BY <3>1, <3>2 DEF TypeOK
    <3>. QED  BY <2>2, <3>3 DEF ScanCorrupt, TypeOK, States, fileVars, entryVars
  <2>3. ASSUME NEW p \in Proc, NEW l \in todo[p], QuarantineLine(p, l)
        PROVE  TypeOK'
    <3>1. l \in Line
      BY <2>3 DEF TypeOK
    <3>2. quarantine' \in File
      BY <2>3, <3>1, AppendClosed DEF QuarantineLine, TypeOK
    <3>. QED  BY <2>3, <3>2 DEF QuarantineLine, TypeOK, fileVars, entryVars
  <2>4. ASSUME NEW p \in Proc, Rebuild(p)
        PROVE  TypeOK'
    <3>1. NewInode \in Inode \ used
      BY <2>4, NewInodeFresh DEF Rebuild, TypeOK
    <3>2. [lines |-> {l \in snap[p] : KeepLine(l)}, tail |-> NoBytes] \in File
      BY LineClosed DEF File, TypeOK
    <3>3. inode' \in [Inode -> File]
      BY <2>4, <3>1, <3>2 DEF Rebuild, TypeOK
    <3>. QED  BY <2>4, <3>1, <3>3 DEF Rebuild, TypeOK, States, entryVars
  <2>5. ASSUME NEW p \in Proc, NEW e \in Entry, AppendOpen(p, e)
        PROVE  TypeOK'
    <3>1. CASE journal # NoFile
      BY <2>5, <3>1 DEF AppendOpen, TypeOK, States, fileVars, scanVars
    <3>2. CASE journal = NoFile
      <4>1. NewInode \in Inode \ used
        BY <2>5, <3>2, NewInodeFresh DEF AppendOpen, TypeOK
      <4>. QED  BY <2>5, <3>2, <4>1 DEF AppendOpen, TypeOK, States, scanVars
    <3>. QED  BY <3>1, <3>2
  <2>6. ASSUME NEW p \in Proc, AppendWrite(p) \/ AppendUnacked(p)
        PROVE  TypeOK'
    <3>1. cur[p] \in Entry /\ fd[p] \in Inode
      BY <2>6 DEF AppendWrite, AppendUnacked, WriteLine, TypeOK
    <3>2. AppendLine(inode[fd[p]], Clean(cur[p])) \in File
      BY <3>1, LineClosed, AppendClosed DEF TypeOK
    <3>3. inode' \in [Inode -> File]
      BY <2>6, <3>1, <3>2 DEF AppendWrite, AppendUnacked, WriteLine, TypeOK
    <3>. QED  BY <2>6, <3>1, <3>3 DEF AppendWrite, AppendUnacked, WriteLine, TypeOK,
       States, scanVars
  <2>7. ASSUME NEW p \in Proc, AppendTorn(p)
        PROVE  TypeOK'
    <3>1. cur[p] \in Entry /\ fd[p] \in Inode
      BY <2>7 DEF AppendTorn, TypeOK
    <3>2. PICK l \in {Clean(cur[p]), Cut(Clean(cur[p]), FALSE), Cut(Clean(cur[p]), TRUE)} :
                inode' = [inode EXCEPT ![fd[p]] = AppendCut(@, l)]
      BY <2>7 DEF AppendTorn
    <3>3. l \in Line
      BY <3>1, <3>2, LineClosed
    <3>4. inode' \in [Inode -> File]
      BY <3>1, <3>2, <3>3, AppendClosed DEF TypeOK
    <3>. QED  BY <2>7, <3>1, <3>4 DEF AppendTorn, TypeOK, States, scanVars
  <2>8. ASSUME NEW p \in Proc, Die(p), quarantine' \in File
        PROVE  TypeOK'
    BY <2>8, MaxCrashAssumption DEF Die, TypeOK, States, fileVars
  <2>9. ASSUME NEW p \in Proc, Crash(p)
        PROVE  TypeOK'
    BY <2>9, <2>8 DEF Crash, TypeOK
  <2>10. ASSUME NEW p \in Proc, NEW l \in todo[p], CrashInQuarantine(p, l)
         PROVE  TypeOK'
    <3>1. l \in Line /\ Cut(l, FALSE) \in Line
      BY <2>10, LineClosed DEF TypeOK
    <3>2. quarantine' \in File
      BY <2>10, <3>1, AppendClosed DEF CrashInQuarantine, TypeOK
    <3>. QED  BY <2>10, <2>8, <3>2 DEF CrashInQuarantine
  <2>. QED  BY <2>0, <2>1, <2>2, <2>3, <2>4, <2>5, <2>6, <2>7, <2>9, <2>10
            DEF Next, OpenStep
<1>. QED  BY <1>1, <1>2, PTL DEF Spec

-----------------------------------------------------------------------------
(***************************************************************************)
(* The inductive invariant behind LossIsReported and RepairDropsOnlyUnseen.*)
(***************************************************************************)

\* Only the holder of the lock repairs.
LockInv == \A p \in Proc : pc[p] \in {"scan", "quarantine"} => lock = p

\* An acknowledged entry is whole in some inode, linked or not.
AckedStored == \A e \in acked : \E i \in used : e \in WholeIn(inode[i])

\* Until something is quarantined no file has replaced the journal.
OneInode == QuarantineEmpty => used \subseteq {journal}

\* A repair found something corrupt, and what it no longer has to quarantine
\* is in the quarantine file.
RepairInv ==
    \A p \in Proc : pc[p] = "quarantine" =>
        /\ Corrupt(snap[p]) # {}
        /\ todo[p] = Corrupt(snap[p]) \/ ~QuarantineEmpty
        /\ \A l \in Corrupt(snap[p]) \ todo[p] : l.whole \subseteq WholeIn(quarantine)

IInv == TypeOK /\ LockInv /\ AckedStored /\ OneInode /\ RepairInv

\* What any step does to the quarantine file: it only grows.
LEMMA QuarantineGrows ==
    ASSUME TypeOK, [Next]_vars
    PROVE  /\ ~QuarantineEmpty => ~QuarantineEmpty'
           /\ WholeIn(quarantine) \subseteq WholeIn(quarantine)'
<1>1. CASE quarantine' = quarantine
  BY <1>1 DEF QuarantineEmpty, WholeIn
<1>2. ASSUME NEW p \in Proc, NEW l \in todo[p], QuarantineLine(p, l)
      PROVE  /\ ~QuarantineEmpty => ~QuarantineEmpty'
             /\ WholeIn(quarantine) \subseteq WholeIn(quarantine)'
  <2>1. l \in Line /\ quarantine \in File /\ quarantine' = AppendLine(quarantine, l)
    BY <1>2 DEF TypeOK, QuarantineLine
  <2>2. LinesOf(quarantine') # {}
    BY <2>1, AppendNotEmpty
  <2>3. WholeIn(quarantine') = WholeIn(quarantine) \union l.whole
    BY <2>1, WholeInAppendLine
  <2>4. WholeIn(quarantine)' = WholeIn(quarantine') /\ LinesOf(quarantine)' = LinesOf(quarantine')
    BY DEF WholeIn, LinesOf
  <2>. QED  BY <2>2, <2>3, <2>4 DEF QuarantineEmpty
<1>3. ASSUME NEW p \in Proc, NEW l \in todo[p], CrashInQuarantine(p, l)
      PROVE  /\ ~QuarantineEmpty => ~QuarantineEmpty'
             /\ WholeIn(quarantine) \subseteq WholeIn(quarantine)'
  <2>1. l \in Line /\ quarantine \in File
    BY <1>3 DEF TypeOK
  <2>2. PICK c \in Line : quarantine' = AppendCut(quarantine, c)
    BY <1>3, <2>1, LineClosed DEF CrashInQuarantine
  <2>3. LinesOf(quarantine) # {} => LinesOf(quarantine') # {}
    BY <2>1, <2>2, AppendNotEmpty
  <2>4. WholeIn(quarantine') = WholeIn(quarantine) \union c.whole
    BY <2>1, <2>2, WholeInAppendCut
  <2>5. WholeIn(quarantine)' = WholeIn(quarantine') /\ LinesOf(quarantine)' = LinesOf(quarantine')
    BY DEF WholeIn, LinesOf
  <2>. QED  BY <2>3, <2>4, <2>5 DEF QuarantineEmpty
<1>. QED
  BY <1>1, <1>2, <1>3 DEF Next, OpenStep, StartOpen, AcquireLock, ScanClean, ScanFails,
     ScanCorrupt, Rebuild, AppendOpen, AppendWrite, AppendUnacked, WriteLine,
     AppendTorn, Close, Crash, vars

\* What any step does to an inode that is in use: its whole entries stay.
LEMMA InodesGrow ==
    ASSUME TypeOK, [Next]_vars, NEW i \in used
    PROVE  i \in used' /\ WholeIn(inode[i]) \subseteq WholeIn(inode'[i])
<1>1. CASE inode' = inode /\ used \subseteq used'
  BY <1>1
<1>2. ASSUME NEW p \in Proc, Rebuild(p)
      PROVE  i \in used' /\ WholeIn(inode[i]) \subseteq WholeIn(inode'[i])
  <2>1. NewInode \in Inode \ used
    BY <1>2, NewInodeFresh DEF Rebuild, TypeOK
  <2>2. inode'[i] = inode[i] /\ i \in used'
    BY <1>2, <2>1 DEF Rebuild, TypeOK
  <2>. QED  BY <2>2
<1>3. ASSUME NEW p \in Proc, WriteLine(p)
      PROVE  i \in used' /\ WholeIn(inode[i]) \subseteq WholeIn(inode'[i])
  <2>1. cur[p] \in Entry /\ fd[p] \in Inode /\ i \in Inode /\ used' = used
    BY <1>3 DEF WriteLine, TypeOK
  <2>2. inode'[i] = IF i = fd[p] THEN AppendLine(inode[i], Clean(cur[p])) ELSE inode[i]
    BY <1>3, <2>1 DEF WriteLine, TypeOK
  <2>3. WholeIn(AppendLine(inode[i], Clean(cur[p]))) = WholeIn(inode[i]) \union Clean(cur[p]).whole
    BY <2>1, LineClosed, WholeInAppendLine DEF TypeOK
  <2>. QED  BY <2>1, <2>2, <2>3
<1>4. ASSUME NEW p \in Proc, AppendTorn(p)
      PROVE  i \in used' /\ WholeIn(inode[i]) \subseteq WholeIn(inode'[i])
  <2>1. cur[p] \in Entry /\ fd[p] \in Inode /\ i \in Inode /\ used' = used
    BY <1>4 DEF AppendTorn, TypeOK
  <2>2. PICK l \in Line : inode' = [inode EXCEPT ![fd[p]] = AppendCut(@, l)]
    BY <1>4, <2>1, LineClosed DEF AppendTorn
  <2>3. inode'[i] = IF i = fd[p] THEN AppendCut(inode[i], l) ELSE inode[i]
    BY <2>1, <2>2 DEF TypeOK
  <2>4. WholeIn(AppendCut(inode[i], l)) = WholeIn(inode[i]) \union l.whole
    BY <2>1, WholeInAppendCut DEF TypeOK
  <2>. QED  BY <2>1, <2>3, <2>4
<1>. QED
  BY <1>1, <1>2, <1>3, <1>4 DEF Next, OpenStep, AppendWrite, AppendUnacked, StartOpen,
     AcquireLock, ScanClean, ScanFails, ScanCorrupt, QuarantineLine, AppendOpen, Close,
     Crash, CrashInQuarantine, Die, vars, fileVars

\* The lock excludes a second repair (Journal::open's lock_exclusive).
LEMMA LockStep ==
    ASSUME TypeOK, LockInv, [Next]_vars
    PROVE  LockInv'
<1>1. ASSUME NEW p \in Proc, AcquireLock(p)
      PROVE  LockInv'
  BY <1>1, NoProcAssumption DEF AcquireLock, LockInv, TypeOK
<1>2. ASSUME NEW p \in Proc, StartOpen(p) \/ ScanClean(p) \/ ScanFails(p) \/ ScanCorrupt(p)
                              \/ Rebuild(p) \/ Close(p)
      PROVE  LockInv'
  BY <1>2 DEF StartOpen, ScanClean, ScanFails, ScanCorrupt, Rebuild, Close, LockInv,
     TypeOK
<1>3. ASSUME NEW p \in Proc, NEW l \in todo[p], QuarantineLine(p, l)
      PROVE  LockInv'
  BY <1>3 DEF QuarantineLine, LockInv
<1>4. ASSUME NEW p \in Proc, NEW e \in Entry, AppendOpen(p, e)
      PROVE  LockInv'
  BY <1>4 DEF AppendOpen, LockInv, TypeOK
<1>5. ASSUME NEW p \in Proc, AppendWrite(p) \/ AppendUnacked(p) \/ AppendTorn(p)
      PROVE  LockInv'
  BY <1>5 DEF AppendWrite, AppendUnacked, WriteLine, AppendTorn, LockInv, TypeOK
<1>6. ASSUME NEW p \in Proc, Die(p)
      PROVE  LockInv'
  BY <1>6 DEF Die, LockInv, TypeOK
<1>7. CASE UNCHANGED vars
  BY <1>7 DEF vars, LockInv
<1>. QED
  BY <1>1, <1>2, <1>3, <1>4, <1>5, <1>6, <1>7 DEF Next, OpenStep, Crash, CrashInQuarantine

\* An append that returns Ok has written its whole line to its inode.
LEMMA AckedStoredStep ==
    ASSUME TypeOK, AckedStored, [Next]_vars
    PROVE  AckedStored'
<1>1. ASSUME NEW e \in acked
      PROVE  \E i \in used' : e \in WholeIn(inode[i])'
  <2>1. PICK i \in used : e \in WholeIn(inode[i])
    BY DEF AckedStored
  <2>2. i \in used' /\ e \in WholeIn(inode'[i])
    BY <2>1, InodesGrow
  <2>3. WholeIn(inode[i])' = WholeIn(inode'[i])
    BY DEF WholeIn, LinesOf
  <2>. QED  BY <2>2, <2>3
<1>2. ASSUME NEW p \in Proc, AppendWrite(p)
      PROVE  AckedStored'
  <2>1. cur[p] \in Entry /\ fd[p] \in Inode /\ fd[p] \in used
    BY <1>2 DEF AppendWrite, WriteLine, TypeOK
  <2>2. inode'[fd[p]] = AppendLine(inode[fd[p]], Clean(cur[p])) /\ used' = used
    BY <1>2, <2>1 DEF AppendWrite, WriteLine, TypeOK
  <2>3. cur[p] \in WholeIn(AppendLine(inode[fd[p]], Clean(cur[p])))
    BY <2>1, LineClosed, WholeInAppendLine DEF TypeOK, Clean
  <2>4. \E i \in used' : cur[p] \in WholeIn(inode[i])'
    BY <2>1, <2>2, <2>3 DEF WholeIn, LinesOf
  <2>5. acked' = acked \union {cur[p]}
    BY <1>2 DEF AppendWrite
  <2>. QED  BY <1>1, <2>4, <2>5 DEF AckedStored
<1>3. CASE acked' = acked
  BY <1>1, <1>3 DEF AckedStored
<1>. QED
  BY <1>2, <1>3 DEF Next, AppendUnacked, WriteLine, OpenStep, StartOpen, AcquireLock,
     ScanClean, ScanFails, ScanCorrupt, QuarantineLine, Rebuild, AppendOpen, AppendTorn,
     Close, Crash, CrashInQuarantine, Die, vars, entryVars

\* A repair replaces the journal only after it has quarantined something.
LEMMA OneInodeStep ==
    ASSUME TypeOK, OneInode, RepairInv, [Next]_vars
    PROVE  OneInode'
<1>1. ASSUME NEW p \in Proc, Rebuild(p)
      PROVE  OneInode'
  <2>1. ~QuarantineEmpty
    BY <1>1 DEF Rebuild, RepairInv
  <2>. QED  BY <2>1, QuarantineGrows DEF OneInode
<1>2. ASSUME NEW p \in Proc, NEW e \in Entry, AppendOpen(p, e)
      PROVE  OneInode'
  <2>1. QuarantineEmpty' => QuarantineEmpty
    BY QuarantineGrows
  <2>2. CASE journal # NoFile
    BY <1>2, <2>1, <2>2 DEF AppendOpen, OneInode, fileVars
  <2>3. CASE journal = NoFile
    <3>1. QuarantineEmpty => used = {}
      BY <2>3, NoFileAssumption DEF OneInode, TypeOK
    <3>2. used' = used \union {NewInode} /\ journal' = NewInode
      BY <1>2, <2>3 DEF AppendOpen
    <3>. QED  BY <2>1, <3>1, <3>2 DEF OneInode
  <2>. QED  BY <2>2, <2>3
<1>3. CASE used' = used /\ journal' = journal
  BY <1>3, QuarantineGrows DEF OneInode
<1>. QED
  BY <1>1, <1>2, <1>3 DEF Next, OpenStep, StartOpen, AcquireLock, ScanClean, ScanFails,
     ScanCorrupt, QuarantineLine, AppendWrite, AppendUnacked, WriteLine, AppendTorn,
     Close, Crash, CrashInQuarantine, Die, vars, fileVars

\* A repair keeps track of what it has copied to the quarantine file.
LEMMA RepairStep ==
    ASSUME TypeOK, RepairInv, [Next]_vars
    PROVE  RepairInv'
<1>1. ASSUME NEW q \in Proc, pc[q] = "quarantine", snap'[q] = snap[q], todo'[q] = todo[q]
      PROVE  /\ Corrupt(snap'[q]) # {}
             /\ todo'[q] = Corrupt(snap'[q]) \/ ~QuarantineEmpty'
             /\ \A l \in Corrupt(snap'[q]) \ todo'[q] : l.whole \subseteq WholeIn(quarantine)'
  BY <1>1, QuarantineGrows DEF RepairInv
<1>2. SUFFICES ASSUME NEW q \in Proc, pc'[q] = "quarantine"
               PROVE  /\ Corrupt(snap'[q]) # {}
                      /\ todo'[q] = Corrupt(snap'[q]) \/ ~QuarantineEmpty'
                      /\ \A l \in Corrupt(snap'[q]) \ todo'[q] :
                            l.whole \subseteq WholeIn(quarantine)'
  BY DEF RepairInv, Corrupt, KeepLine, Clean
<1>3. ASSUME NEW p \in Proc, ScanCorrupt(p)
      PROVE  \/ snap'[q] = snap[q] /\ todo'[q] = todo[q] /\ pc[q] = "quarantine"
             \/ todo'[q] = Corrupt(snap'[q]) /\ Corrupt(snap'[q]) # {}
  BY <1>2, <1>3 DEF ScanCorrupt, TypeOK
<1>4. ASSUME NEW p \in Proc, NEW l \in todo[p], QuarantineLine(p, l), q = p
      PROVE  /\ Corrupt(snap'[q]) # {}
             /\ ~QuarantineEmpty'
             /\ \A k \in Corrupt(snap'[q]) \ todo'[q] : k.whole \subseteq WholeIn(quarantine)'
  <2>1. l \in Line /\ quarantine \in File /\ quarantine' = AppendLine(quarantine, l)
    BY <1>4 DEF QuarantineLine, TypeOK
  <2>2. snap' = snap /\ todo'[q] = todo[q] \ {l} /\ pc[q] = "quarantine"
    BY <1>4 DEF QuarantineLine, TypeOK
  <2>3. LinesOf(quarantine') # {} /\ WholeIn(quarantine') = WholeIn(quarantine) \union l.whole
    BY <2>1, AppendNotEmpty, WholeInAppendLine
  <2>4. WholeIn(quarantine)' = WholeIn(quarantine') /\ LinesOf(quarantine)' = LinesOf(quarantine')
    BY DEF WholeIn, LinesOf
  <2>5. /\ Corrupt(snap[q]) # {}
        /\ \A k \in Corrupt(snap[q]) \ todo[q] : k.whole \subseteq WholeIn(quarantine)
    BY <2>2 DEF RepairInv
  <2>. QED  BY <2>2, <2>3, <2>4, <2>5 DEF QuarantineEmpty
<1>5. ASSUME NEW p \in Proc, NEW l \in todo[p], QuarantineLine(p, l), q # p
      PROVE  snap'[q] = snap[q] /\ todo'[q] = todo[q] /\ pc[q] = "quarantine"
  BY <1>2, <1>5 DEF QuarantineLine, TypeOK
<1>6. ASSUME NEW p \in Proc, Rebuild(p) \/ Die(p)
      PROVE  snap'[q] = snap[q] /\ todo'[q] = todo[q] /\ pc[q] = "quarantine"
  BY <1>2, <1>6 DEF Rebuild, Die, TypeOK
<1>7. ASSUME NEW p \in Proc, StartOpen(p) \/ AcquireLock(p) \/ ScanClean(p) \/ ScanFails(p)
                              \/ AppendWrite(p) \/ AppendUnacked(p) \/ AppendTorn(p) \/ Close(p)
      PROVE  snap'[q] = snap[q] /\ todo'[q] = todo[q] /\ pc[q] = "quarantine"
  BY <1>2, <1>7 DEF StartOpen, AcquireLock, ScanClean, ScanFails, AppendWrite,
     AppendUnacked, WriteLine, AppendTorn, Close, TypeOK, scanVars
<1>8. ASSUME NEW p \in Proc, NEW e \in Entry, AppendOpen(p, e)
      PROVE  snap'[q] = snap[q] /\ todo'[q] = todo[q] /\ pc[q] = "quarantine"
  BY <1>2, <1>8 DEF AppendOpen, TypeOK, scanVars
<1>9. CASE UNCHANGED vars
  BY <1>1, <1>2, <1>9 DEF vars, scanVars
<1>10. CASE todo'[q] = Corrupt(snap'[q]) /\ Corrupt(snap'[q]) # {}
  BY <1>10
<1>. QED
  BY <1>1, <1>3, <1>4, <1>5, <1>6, <1>7, <1>8, <1>9, <1>10
  DEF Next, OpenStep, Crash, CrashInQuarantine

\* The conjunction is inductive.
THEOREM Invariance == Spec => []IInv
<1>1. Init => LockInv /\ AckedStored /\ OneInode /\ RepairInv
  BY DEF Init, LockInv, AckedStored, OneInode, RepairInv
<1>2. TypeOK /\ LockInv /\ AckedStored /\ OneInode /\ RepairInv /\ [Next]_vars
      => (LockInv /\ AckedStored /\ OneInode /\ RepairInv)'
  BY LockStep, AckedStoredStep, OneInodeStep, RepairStep
<1>3. Spec => [](LockInv /\ AckedStored /\ OneInode /\ RepairInv)
  BY <1>1, <1>2, TypeCorrect, PTL DEF Spec
<1>. QED  BY <1>3, TypeCorrect, PTL DEF IInv

-----------------------------------------------------------------------------
(***************************************************************************)
(* What follows for the promises of the journal.                           *)
(***************************************************************************)

\* Until a quarantine there is one file, so a valid journal has every
\* acknowledged entry on a line of its own.
LEMMA ReportedByInv ==
    ASSUME IInv
    PROVE  LossIsReported
<1>. SUFFICES ASSUME JournalValid, QuarantineEmpty, NEW e \in acked
              PROVE  e \in ReadAll(Content)
  BY DEF LossIsReported
<1>1. PICK i \in used : e \in WholeIn(inode[i])
  BY DEF IInv, AckedStored
<1>2. i = journal /\ i \in Inode
  BY <1>1 DEF IInv, OneInode, TypeOK
<1>3. Content = inode[i]
  BY <1>2, NoFileAssumption DEF Content
<1>4. PICK l \in LinesOf(Content) : e \in l.whole
  BY <1>1, <1>3 DEF WholeIn
<1>5. PICK d \in Entry : l = Clean(d)
  BY <1>4 DEF JournalValid, Corrupt, KeepLine
<1>6. e = d
  BY <1>4, <1>5 DEF Clean
<1>. QED  BY <1>4, <1>5, <1>6 DEF ReadAll, JournalValid

\* No lost write is silent: innen doctor reports a journal from which an
\* acknowledged entry cannot be read, for every number of processes and
\* deaths, and also when reads see writes in progress.
THEOREM LossReported == Spec => []LossIsReported
BY Invariance, ReportedByInv, PTL

\* Without a cut write and with reads that see whole writes only, every file
\* consists of good lines and nobody repairs anything.
SteadyInv ==
    AtomicWrite /\ torn = {} =>
        /\ QuarantineEmpty
        /\ \A p \in Proc : pc[p] # "quarantine"
        /\ \A i \in Inode : inode[i].tail = NoBytes /\ Corrupt(inode[i].lines) = {}

\* What an intact file yields to quarantine_scan and read_all.
LEMMA IntactContent ==
    ASSUME TypeOK, SteadyInv, AtomicWrite, torn = {}
    PROVE  JournalValid /\ Corrupt(LinesOf(Content)) = {}
<1>1. Content.tail = NoBytes /\ Corrupt(Content.lines) = {}
  BY DEF Content, EmptyFile, SteadyInv, TypeOK, Corrupt
<1>2. LinesOf(Content) = Content.lines
  BY <1>1 DEF LinesOf
<1>3. \A l \in LinesOf(Content) : ~l.split
  BY <1>1, <1>2 DEF Corrupt, KeepLine, Clean
<1>. QED  BY <1>1, <1>2, <1>3 DEF JournalValid, IsUtf8

\* The steady state lasts: an append adds one good line, and a scan of intact
\* files finds nothing corrupt.
LEMMA SteadyStep ==
    ASSUME TypeOK, SteadyInv, [Next]_vars
    PROVE  SteadyInv'
<1>. SUFFICES ASSUME AtomicWrite, torn' = {}
              PROVE  /\ QuarantineEmpty'
                     /\ \A p \in Proc : pc'[p] # "quarantine"
                     /\ \A i \in Inode : /\ inode'[i].tail = NoBytes
                                         /\ Corrupt(inode'[i].lines) = {}
  BY DEF SteadyInv, Corrupt, KeepLine, Clean
<1>0. torn = {} /\ \A p \in Proc : ~AppendTorn(p)
  BY DEF Next, OpenStep, StartOpen, AcquireLock, ScanClean, ScanFails, ScanCorrupt,
     QuarantineLine, Rebuild, AppendOpen, AppendWrite, AppendUnacked, WriteLine,
     AppendTorn, Close, Crash, CrashInQuarantine, Die, vars, entryVars
<1>1. /\ QuarantineEmpty
      /\ \A p \in Proc : pc[p] # "quarantine"
      /\ \A i \in Inode : inode[i].tail = NoBytes /\ Corrupt(inode[i].lines) = {}
  BY <1>0 DEF SteadyInv
<1>2. \A p \in Proc : ~ScanCorrupt(p)
  <2>1. Seen = {Content}
    BY DEF Seen
  <2>. QED  BY <2>1, <1>0, IntactContent DEF ScanCorrupt
<1>3. quarantine' = quarantine /\ \A p \in Proc : pc'[p] # "quarantine"
  BY <1>0, <1>1, <1>2 DEF Next, OpenStep, StartOpen, AcquireLock, ScanClean, ScanFails,
     QuarantineLine, Rebuild, AppendOpen, AppendWrite, AppendUnacked, WriteLine, Close,
     Crash, CrashInQuarantine, Die, vars, TypeOK
<1>4. ASSUME NEW p \in Proc, WriteLine(p), NEW i \in Inode
      PROVE  inode'[i].tail = NoBytes /\ Corrupt(inode'[i].lines) = {}
  <2>1. cur[p] \in Entry /\ fd[p] \in Inode
    BY <1>4 DEF WriteLine, TypeOK
  <2>2. inode'[i] = IF i = fd[p] THEN AppendLine(inode[i], Clean(cur[p])) ELSE inode[i]
    BY <1>4, <2>1 DEF WriteLine, TypeOK
  <2>3. Glue(NoBytes, Clean(cur[p])) = Clean(cur[p])
    BY DEF Glue, NoBytes, Clean
  <2>4. AppendLine(inode[i], Clean(cur[p])).lines = inode[i].lines \union {Clean(cur[p])}
    BY <1>1, <2>3 DEF AppendLine
  <2>5. KeepLine(Clean(cur[p]))
    BY <2>1 DEF KeepLine
  <2>6. Corrupt(inode[i].lines \union {Clean(cur[p])}) = {}
    BY <1>1, <2>5 DEF Corrupt
  <2>7. AppendLine(inode[i], Clean(cur[p])).tail = NoBytes
    BY DEF AppendLine
  <2>. QED  BY <1>1, <2>2, <2>4, <2>6, <2>7
<1>5. CASE inode' = inode
  BY <1>1, <1>3, <1>5 DEF QuarantineEmpty
<1>6. inode' = inode \/ \E p \in Proc : WriteLine(p)
  BY <1>0, <1>1 DEF Next, AppendWrite, AppendUnacked, OpenStep, StartOpen, AcquireLock,
     ScanClean, ScanFails, ScanCorrupt, QuarantineLine, Rebuild, AppendOpen, Close,
     Crash, CrashInQuarantine, Die, vars, fileVars
<1>. QED  BY <1>1, <1>3, <1>4, <1>5, <1>6 DEF QuarantineEmpty

\* Appends that take no lock are safe against each other and against every
\* open: without a cut write nothing is quarantined and every acknowledged
\* entry can be read.
THEOREM SteadyState == Spec => []SteadyStateAppend
<1>1. Init => SteadyInv
  BY DEF Init, SteadyInv, QuarantineEmpty, LinesOf, EmptyFile, Corrupt
<1>2. TypeOK /\ SteadyInv /\ [Next]_vars => SteadyInv'
  BY SteadyStep
<1>3. IInv /\ SteadyInv => SteadyStateAppend
  <2>1. ASSUME IInv, SteadyInv, AtomicWrite, torn = {}
        PROVE  JournalValid /\ QuarantineEmpty /\ acked \subseteq ReadAll(Content)
    <3>1. JournalValid /\ QuarantineEmpty
      BY <2>1, IntactContent DEF SteadyInv, IInv
    <3>. QED  BY <2>1, <3>1, ReportedByInv DEF LossIsReported
  <2>. QED  BY <2>1 DEF SteadyStateAppend
<1>. QED  BY <1>1, <1>2, <1>3, Invariance, TypeCorrect, PTL DEF Spec

\* What one step may take out of the journal.
LEMMA RepairDrops ==
    ASSUME IInv, [Next]_vars, NEW e \in WholeIn(Content)
    PROVE  \/ e \in WholeIn(Content)'
           \/ e \in WholeIn(quarantine)
           \/ \E p \in Proc : /\ pc[p] = "quarantine" /\ lock = p
                              /\ \A l \in snap[p] : e \notin l.whole
<1>1. WholeIn(EmptyFile) = {}
  BY DEF WholeIn, LinesOf, EmptyFile
<1>2. journal \in used /\ journal \in Inode /\ Content = inode[journal]
  BY <1>1, NoFileAssumption DEF Content, IInv, TypeOK
<1>3. CASE journal' = journal
  <2>1. WholeIn(inode[journal]) \subseteq WholeIn(inode'[journal])
    BY <1>2, InodesGrow DEF IInv
  <2>2. WholeIn(Content)' = WholeIn(inode'[journal])
    BY <1>2, <1>3, NoFileAssumption DEF Content, WholeIn, LinesOf
  <2>. QED  BY <1>2, <2>1, <2>2
<1>4. ASSUME NEW p \in Proc, Rebuild(p),
             NEW l \in snap[p], e \in l.whole
      PROVE  e \in WholeIn(Content)' \/ e \in WholeIn(quarantine)
  <2>1. CASE l \in Corrupt(snap[p])
    <3>1. l.whole \subseteq WholeIn(quarantine)
      BY <1>4, <2>1 DEF Rebuild, IInv, RepairInv
    <3>. QED  BY <1>4, <3>1
  <2>2. CASE KeepLine(l)
    <3>1. NewInode \in Inode \ used
      BY <1>4, NewInodeFresh DEF Rebuild, IInv, TypeOK
    <3>2. inode'[journal'] = [lines |-> {k \in snap[p] : KeepLine(k)}, tail |-> NoBytes]
      BY <1>4, <3>1 DEF Rebuild, IInv, TypeOK
    <3>3. Content' = inode'[journal']
      BY <1>4, <3>1, NoFileAssumption DEF Rebuild, Content
    <3>4. l \in LinesOf(inode'[journal'])
      BY <1>4, <2>2, <3>2 DEF LinesOf
    <3>5. l \in LinesOf(Content)'
      BY <3>3, <3>4 DEF LinesOf
    <3>. QED  BY <1>4, <3>5 DEF WholeIn
  <2>. QED  BY <1>4, <2>1, <2>2 DEF Corrupt
<1>5. ASSUME NEW p \in Proc, Rebuild(p)
      PROVE  pc[p] = "quarantine" /\ lock = p
  BY <1>5 DEF Rebuild, IInv, LockInv
<1>6. journal' = journal \/ \E p \in Proc : Rebuild(p)
  BY <1>2, NoFileAssumption DEF Next, OpenStep, StartOpen, AcquireLock, ScanClean,
     ScanFails, ScanCorrupt, QuarantineLine, AppendOpen, AppendWrite, AppendUnacked,
     WriteLine, AppendTorn, Close, Crash, CrashInQuarantine, Die, vars, fileVars
<1>. QED  BY <1>3, <1>4, <1>5, <1>6

\* A repair takes no entry out of the journal but the ones it copied to the
\* quarantine file and the ones appended behind its scan.
THEOREM RepairOnlyUnseen == Spec => RepairDropsOnlyUnseen
<1>1. IInv /\ [Next]_vars =>
        [\A e \in WholeIn(Content) :
           \/ e \in WholeIn(Content)'
           \/ e \in WholeIn(quarantine)
           \/ \E p \in Proc : /\ pc[p] = "quarantine" /\ lock = p
                              /\ \A l \in snap[p] : e \notin l.whole]_vars
  BY RepairDrops
<1>. QED  BY <1>1, Invariance, PTL DEF Spec, RepairDropsOnlyUnseen
=============================================================================
