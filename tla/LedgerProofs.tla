---------------------------- MODULE LedgerProofs ----------------------------
(***************************************************************************)
(* Proofs about Ledger: its types, the promises of ArchiveBook, what holds *)
(* of it while no command dies, and that the graph shows what the ledger   *)
(* says.                                                                   *)
(***************************************************************************)
EXTENDS Ledger, TLAPS, WellFoundedInduction

-----------------------------------------------------------------------------
(***************************************************************************)
(* The inductive invariant.                                                *)
(***************************************************************************)
Formed(e) == e \in Entry /\ (e.kind = "relocate" => e.path \in Place)

\* e is what comes next in the log.
Fits(e) ==
    IF e.kind = "receipt" THEN e.id = Len(receipts) + 1
    ELSE /\ e.seq = Len(events) + 1 /\ Known(receipts, e.receipt)
         /\ e.kind = "supersede" => Known(receipts, e.old) /\ e.old # e.receipt

Logged(e) ==
    IF e.kind = "receipt" THEN e.id \in 1..Len(receipts) /\ receipts[e.id] = e
    ELSE e.seq \in 1..Len(events) /\ events[e.seq] = e

Within(e, counts) ==
    IF e.kind = "receipt" THEN e.id <= counts.receipts ELSE e.seq <= counts.events

\* Nothing is mirrored or checked yet.
Fresh(s) == s.done = 0 /\ s.missing = {} /\ s.changed = {}

\* What a command knows at each of its steps.
Local(s) ==
    /\ s.pc # "idle" => s.cmd \in Commands
    /\ s.pc \notin {"mirror", "hash"} => Fresh(s)
    /\ s.pc = "append" /\ s.cmd.op = "add" => s.sha \in Bytes
    /\ s.pc \in {"peek", "open", "manifest", "events", "read", "append"} => s.entry = None
    /\ s.pc \in {"write", "reread", "journal", "mirror"} => s.entry # None
    /\ s.entry # None => Formed(s.entry)
    /\ IsEvent(s.entry) => s.entry.receipt = s.cmd.receipt
    /\ s.pc = "reread" => IsEvent(s.entry)
    /\ s.pc \in {"journal", "mirror"} => s.after \in View
    /\ s.pc = "write" /\ loose = None => Fits(s.entry)
    /\ s.pc \in {"index", "timeline", "reread", "journal", "mirror"} /\ s.entry # None => Logged(s.entry)
    /\ s.pc \in {"timeline", "reread", "journal", "mirror"} /\ s.entry # None => Within(s.entry, index)
    /\ s.pc \in {"reread", "journal", "mirror"} => Within(s.entry, timeline)

LogFormed ==
    /\ \A i \in 1..Len(events) : Formed(events[i]) /\ Known(receipts, events[i].receipt)
    /\ loose # None => Formed(loose)

\* A projection never shows what the log does not have.
Behind(counts) == counts.receipts <= Len(receipts) /\ counts.events <= Len(events)

Mutex == \A p, q \in Proc : run[p].pc \in Locked /\ run[q].pc \in Locked => p = q

IInv ==
    /\ TypeOK
    /\ \A p \in Proc : Local(run[p])
    /\ LogFormed /\ Mutex
    /\ Behind(index) /\ Behind(timeline)

-----------------------------------------------------------------------------
(***************************************************************************)
(* Lemmas on the operators.                                                *)
(***************************************************************************)
\* A nonempty set of positions in the log has a last one (effective, current:
\* the last event of a kind exists).
LEMMA LeastExists ==
    ASSUME NEW S \in SUBSET Nat, S # {}
    PROVE  \E x \in S : \A y \in S : x <= y
<1> DEFINE Less == OpToRel(<, Nat)
<1>1. \A x, y \in Nat : y < x => <<y, x>> \in Less
  BY DEF OpToRel
<1>2. IsWellFoundedOn(Less, Nat)
  BY NatLessThanWellFounded
<1> HIDE DEF Less
<1>3. PICK x \in S : \A y \in S : ~ (<<y, x>> \in Less)
  BY <1>2, WFMin
<1>4. ASSUME NEW y \in S PROVE x <= y
  <2>1. ~(y < x)
    BY <1>1, <1>3, Zenon
  <2> QED BY <2>1
<1> QED BY <1>4

\* Latest picks it.
LEMMA LatestIsLast ==
    ASSUME NEW n \in Nat, NEW S \in SUBSET (1..n), S # {}
    PROVE  Latest(S) \in S /\ \A j \in S : j <= Latest(S)
<1> DEFINE M == {n - y : y \in S}
<1>1. \A y \in S : n - y \in Nat
  OBVIOUS
<1>2. M \in SUBSET Nat /\ M # {}
  BY <1>1
<1> HIDE DEF M
<1>3. PICK x \in M : \A y \in M : x <= y
  BY <1>2, LeastExists
<1>4. PICK y \in S : x = n - y
  BY DEF M
<1>5. \A z \in S : n - z \in M
  BY DEF M
<1>6. \A z \in S : n - y <= n - z
  BY <1>3, <1>4, <1>5
<1>7. \A z \in S : z <= y
  BY <1>6
<1> QED BY <1>7 DEF Latest

\* The events about a receipt are in the log.
LEMMA AboutIsLogged ==
    ASSUME NEW es \in Seq(Event), NEW n, NEW kind
    PROVE  /\ About(es, n, kind) \in SUBSET (1..Len(es))
           /\ Owning(es, n) \in SUBSET (1..Len(es)) /\ Owning(es, n) \subseteq About(es, n, "reclassify")
  BY DEF About, Owning

\* effective yields a receipt with a place, an owner and a relation.
LEMMA EffectiveType ==
    ASSUME NEW rs \in Seq(Receipt), NEW es \in Seq(Event), NEW n \in 1..Len(rs),
           \A i \in 1..Len(es) : Formed(es[i])
    PROVE  Effective(rs, es, n) \in View
<1>0. /\ Len(es) \in Nat
      /\ About(es, n, "relocate") \in SUBSET (1..Len(es))
      /\ About(es, n, "reclassify") \in SUBSET (1..Len(es))
      /\ Owning(es, n) \in SUBSET (1..Len(es))
  BY AboutIsLogged
<1>1. rs[n] \in Receipt
  OBVIOUS
<1>2. About(es, n, "relocate") # {} => es[Latest(About(es, n, "relocate"))].path \in Place
  <2>1. SUFFICES ASSUME About(es, n, "relocate") # {}
                 PROVE  es[Latest(About(es, n, "relocate"))].path \in Place
    OBVIOUS
  <2>2. Latest(About(es, n, "relocate")) \in About(es, n, "relocate")
    BY <2>1, <1>0, LatestIsLast, Zenon
  <2>3. Latest(About(es, n, "relocate")) \in 1..Len(es) /\ es[Latest(About(es, n, "relocate"))] \in Event
    BY <2>2, <1>0
  <2> QED BY <2>2, <2>3 DEF About, Formed
<1>3. Owning(es, n) # {} => es[Latest(Owning(es, n))].owner \in Project
  <2>1. SUFFICES ASSUME Owning(es, n) # {}
                 PROVE  es[Latest(Owning(es, n))].owner \in Project
    OBVIOUS
  <2>2. Latest(Owning(es, n)) \in Owning(es, n)
    BY <2>1, <1>0, LatestIsLast, Zenon
  <2>3. Latest(Owning(es, n)) \in 1..Len(es) /\ es[Latest(Owning(es, n))] \in Event
    BY <2>2, <1>0
  <2> QED BY <2>2, <2>3 DEF Owning, Event, Option
<1>4. About(es, n, "reclassify") # {} => es[Latest(About(es, n, "reclassify"))].relation \in Relation
  <2>1. SUFFICES ASSUME About(es, n, "reclassify") # {}
                 PROVE  es[Latest(About(es, n, "reclassify"))].relation \in Relation
    OBVIOUS
  <2>2. Latest(About(es, n, "reclassify")) \in About(es, n, "reclassify")
    BY <2>1, <1>0, LatestIsLast, Zenon
  <2>3. Latest(About(es, n, "reclassify")) \in 1..Len(es) /\ es[Latest(About(es, n, "reclassify"))] \in Event
    BY <2>2, <1>0
  <2> QED BY <2>2, <2>3 DEF Event
<1> QED BY <1>1, <1>2, <1>3, <1>4 DEF Effective, View, Receipt

\* What read_state yields is well formed.
LEMMA ReadTypes ==
    ASSUME TypeOK, LogFormed
    PROVE  /\ ReadReceipts \in Seq(Receipt) /\ Len(ReadReceipts) >= Len(receipts)
           /\ ReadEvents \in Seq(Event) /\ \A i \in 1..Len(ReadEvents) : Formed(ReadEvents[i])
           /\ loose = None => ReadReceipts = receipts /\ ReadEvents = events
<1>1. receipts \in Seq(Receipt) /\ events \in Seq(Event) /\ loose \in Option(Entry)
  BY DEF TypeOK
<1>2. IsReceipt(loose) => loose \in Receipt
  BY <1>1 DEF IsReceipt, Entry, Receipt, Event, Option
<1>3. IsEvent(loose) => loose \in Event
  BY <1>1 DEF IsEvent, Entry, Receipt, Event, Option
<1>4. ReadReceipts \in Seq(Receipt) /\ Len(ReadReceipts) >= Len(receipts)
  BY <1>1, <1>2 DEF ReadReceipts
<1>5. ReadEvents \in Seq(Event)
  BY <1>1, <1>3 DEF ReadEvents
<1>6. \A i \in 1..Len(ReadEvents) : Formed(ReadEvents[i])
  <2>1. CASE IsEvent(loose)
    BY <2>1, <1>1, <1>3 DEF ReadEvents, LogFormed, IsEvent
  <2>2. CASE ~IsEvent(loose)
    BY <2>2 DEF ReadEvents, LogFormed
  <2> QED BY <2>1, <2>2
<1>7. loose = None => ReadReceipts = receipts /\ ReadEvents = events
  BY DEF ReadReceipts, ReadEvents, IsReceipt, IsEvent
<1> QED BY <1>4, <1>5, <1>6, <1>7

\* Receipts are numbered.
LEMMA TouchedType ==
    ASSUME NEW s \in State, s.pc # "idle" => s.cmd \in Commands
    PROVE  Touched(s) \subseteq Nat
<1>1. CASE s.pc = "idle"
  BY <1>1 DEF Touched
<1>2. CASE s.pc # "idle" /\ IsReceipt(s.entry)
  BY <1>2 DEF Touched, State, IsReceipt, Entry, Receipt, Event, Option
<1>3. CASE s.pc # "idle" /\ ~IsReceipt(s.entry)
  <2>1. s.cmd \in Command
    BY <1>3, CommandAssumption
  <2> QED BY <1>3, <2>1 DEF Touched, Command
<1> QED BY <1>1, <1>2, <1>3

-----------------------------------------------------------------------------
(***************************************************************************)
(* Steps of one process.                                                   *)
(***************************************************************************)
\* Process p takes the local state s, and the lock only when it is free.
Moves(p, s) ==
    /\ s \in State
    /\ run' = [run EXCEPT ![p] = s]
    /\ tainted' \subseteq Nat
    /\ s.pc \in Locked => run[p].pc \in Locked \/ Free

\* A command that has ended knows nothing.
LEMMA IdleState == Idle \in State /\ Local(Idle) /\ Idle.pc \notin Locked
  BY DEF Idle, State, Local, Labels, Locked, Option, IsEvent, Fresh

\* Leaving with an error is such a step,
LEMMA FailMoves ==
    ASSUME IInv, NEW p \in Proc, Fail(p)
    PROVE  Moves(p, Idle)
<1>1. Touched(run[p]) \subseteq Nat
  BY TouchedType DEF IInv, TypeOK, Local
<1> QED BY <1>1, IdleState DEF Fail, Moves, IInv, TypeOK

\* so is leaving without one,
LEMMA ReturnMoves ==
    ASSUME IInv, NEW p \in Proc, Return(p)
    PROVE  Moves(p, Idle)
  BY IdleState DEF Return, Moves, IInv, TypeOK

\* and going on.
LEMMA GotoMoves ==
    ASSUME IInv, NEW p \in Proc, NEW s \in State, Local(s), Goto(p, s),
           s.pc \in Locked => run[p].pc \in Locked \/ Free
    PROVE  Moves(p, s)
<1>1. Touched(s) \subseteq Nat
  BY TouchedType DEF Local
<1> QED BY <1>1 DEF Goto, Moves, IInv, TypeOK

\* At most one process holds the lock after such a step.
LEMMA MovesExclude ==
    ASSUME IInv, NEW p \in Proc, NEW s, Moves(p, s)
    PROVE  run' \in [Proc -> State] /\ Mutex'
<1>1. run' \in [Proc -> State]
  BY DEF Moves, IInv, TypeOK
<1>2. ASSUME NEW q \in Proc, NEW r \in Proc, run'[q].pc \in Locked, run'[r].pc \in Locked
      PROVE  q = r
  BY <1>2 DEF Moves, IInv, TypeOK, Mutex, Free
<1> QED BY <1>1, <1>2 DEF Mutex, Locked

\* A step that leaves the log and its projections alone keeps the invariant.
LEMMA QuietStep ==
    ASSUME IInv, NEW p \in Proc, NEW s, Moves(p, s), Local(s),
           UNCHANGED <<receipts, events, loose, index, timeline>>
    PROVE  /\ run' \in [Proc -> State] /\ tainted' \subseteq Nat
           /\ \A q \in Proc : Local(run[q])'
           /\ LogFormed' /\ Mutex' /\ Behind(index)' /\ Behind(timeline)'
<1>1. run' \in [Proc -> State] /\ Mutex'
  BY MovesExclude
<1>2. ASSUME NEW q \in Proc PROVE Local(run[q])'
  <2>1. run'[q] = s \/ run'[q] = run[q]
    BY DEF Moves, IInv, TypeOK
  <2>2. Local(run'[q])
    BY <2>1 DEF IInv
  <2> QED BY <2>2 DEF Local, Formed, Fits, Logged, Within, IsEvent, Known
<1>3. LogFormed' /\ Behind(index)' /\ Behind(timeline)'
  BY DEF IInv, LogFormed, Behind, Formed, Known
<1> QED BY <1>1, <1>2, <1>3 DEF Moves

\* What is known of a process at work.
LEMMA AtWork ==
    ASSUME IInv, NEW p \in Proc
    PROVE  /\ run[p] \in State /\ Local(run[p])
           /\ run[p].pc # "idle" => run[p].cmd \in Commands /\ run[p].cmd \in Command
  BY CommandAssumption DEF IInv, TypeOK, Local

\* Each action that leaves the log and its projections alone is a step of one
\* process that keeps what it knows.
LEMMA StartMoves ==
    ASSUME IInv, NEW p \in Proc, Start(p)
    PROVE  \E s \in State : Moves(p, s) /\ Local(s)
<1>1. PICK c \in Commands :
         Goto(p, [Idle EXCEPT !.pc = IF c.op = "add" THEN "peek" ELSE "open",
                              !.cmd = c, !.project = c.project])
  BY DEF Start
<1>2. PICK s : s = [Idle EXCEPT !.pc = IF c.op = "add" THEN "peek" ELSE "open",
                                !.cmd = c, !.project = c.project]
  OBVIOUS
<1>3. c.project \in Option(Project)
  BY CommandAssumption DEF Command
<1>4. s.pc \in {"peek", "open"} /\ s.cmd = c /\ s.entry = None /\ Fresh(s)
  BY <1>2 DEF Idle, Fresh
<1>5. s \in State
  BY ZenonT(60), <1>2, <1>3, IdleState DEF State, Labels, Option, Idle
<1>6. Local(s) /\ s.pc \notin Locked
  BY <1>4 DEF Local, Locked, IsEvent
<1> QED BY <1>1, <1>2, <1>5, <1>6, GotoMoves

LEMMA PeekMoves ==
    ASSUME IInv, NEW p \in Proc, Peek(p)
    PROVE  \E s \in State : Moves(p, s) /\ Local(s)
<1> DEFINE id == IF manifest = "whole" THEN project
                 ELSE IF run[p].cmd.project # None THEN run[p].cmd.project ELSE run[p].cmd.owner
<1>1. CASE Fail(p)
  BY <1>1, FailMoves, IdleState
<1>2. CASE Goto(p, [run[p] EXCEPT !.pc = "open", !.project = id])
  <2>1. PICK s : s = [run[p] EXCEPT !.pc = "open", !.project = id]
    OBVIOUS
  <2>2. run[p].pc = "peek" /\ id \in Option(Project)
    BY AtWork DEF Peek, IInv, TypeOK, Command
  <2>3. s \in State /\ Local(s) /\ s.pc \notin Locked
    BY ZenonT(60), <2>1, <2>2, AtWork DEF State, Local, Labels, Locked, Fresh
  <2> QED BY <1>2, <2>1, <2>3, GotoMoves
<1> QED BY <1>1, <1>2 DEF Peek

LEMMA OpenExistingMoves ==
    ASSUME IInv, NEW p \in Proc, OpenExisting(p)
    PROVE  \E s \in State : Moves(p, s) /\ Local(s)
<1>1. CASE Fail(p)
  BY <1>1, FailMoves, IdleState
<1>2. CASE Goto(p, Opened(run[p]))
  <2>1. PICK s : s = Opened(run[p])
    OBVIOUS
  <2>2. s \in State /\ Local(s) /\ s.pc \notin Locked
    <3>1. CASE s = Idle
      BY <3>1, IdleState
    <3>2. CASE s = [run[p] EXCEPT !.pc = "read"]
      BY <3>2, AtWork DEF OpenExisting, State, Local, Labels, Locked, Fresh
    <3> QED BY <2>1, <3>1, <3>2 DEF Opened
  <2> QED BY <1>2, <2>1, <2>2, GotoMoves
<1> QED BY <1>1, <1>2 DEF OpenExisting

\* The steps of init that create a file.
LEMMA CreateMoves ==
    ASSUME IInv, NEW p \in Proc, CreateManifest(p) \/ WriteManifest(p) \/ CreateLog(p)
    PROVE  \E s \in State : Moves(p, s) /\ Local(s)
<1>1. CASE CreateManifest(p)
  <2>1. PICK s : s = [run[p] EXCEPT !.pc = "manifest"]
    OBVIOUS
  <2>2. s \in State /\ Local(s) /\ Free /\ Goto(p, s)
    BY <1>1, <2>1, AtWork DEF CreateManifest, State, Local, Labels, Fresh
  <2> QED BY <2>2, GotoMoves
<1>2. CASE WriteManifest(p)
  <2>1. PICK s : s = [run[p] EXCEPT !.pc = "events"]
    OBVIOUS
  <2>2. s \in State /\ Local(s) /\ run[p].pc \in Locked /\ Goto(p, s)
    BY <1>2, <2>1, AtWork DEF WriteManifest, State, Local, Labels, Locked, Fresh
  <2> QED BY <2>2, GotoMoves
<1>3. CASE CreateLog(p)
  <2>1. PICK s : s = [run[p] EXCEPT !.pc = "index"]
    OBVIOUS
  <2>2. s \in State /\ run[p].pc \in Locked /\ Goto(p, s)
    BY ZenonT(60), <1>3, <2>1, AtWork DEF CreateLog, State, Labels, Locked
  <2>3. Local(s)
    BY <1>3, <2>1, AtWork DEF CreateLog, State, Local, Fresh
  <2> QED BY <2>2, <2>3, GotoMoves
<1> QED BY <1>1, <1>2, <1>3

\* Reading before the lock.
LEMMA ReadForAddMoves ==
    ASSUME IInv, NEW p \in Proc, ReadForAdd(p)
    PROVE  \E s \in State : Moves(p, s) /\ Local(s)
<1>1. CASE Fail(p)
  BY <1>1, FailMoves, IdleState
<1>2. CASE /\ files[run[p].cmd.path] # None
           /\ Goto(p, [run[p] EXCEPT !.pc = "append", !.sha = files[run[p].cmd.path]])
  <2>1. PICK s : s = [run[p] EXCEPT !.pc = "append", !.sha = files[run[p].cmd.path]]
    OBVIOUS
  <2>2. files[run[p].cmd.path] \in Bytes
    <3>1. run[p].cmd \in Commands /\ run[p].cmd \in Command /\ run[p].cmd.op = "add"
      BY AtWork DEF ReadForAdd
    <3>2. run[p].cmd.path \in Place
      BY <3>1, CommandAssumption DEF Command, Option
    <3> QED BY <1>2, <3>2 DEF IInv, TypeOK, Option
  <2>3. s \in State /\ Local(s) /\ s.pc \notin Locked
    BY ZenonT(60), <2>1, <2>2, AtWork DEF ReadForAdd, State, Local, Labels, Locked, Option, Fresh
  <2> QED BY <1>2, <2>1, <2>3, GotoMoves
<1> QED BY <1>1, <1>2 DEF ReadForAdd

LEMMA ReadForEventMoves ==
    ASSUME IInv, NEW p \in Proc, ReadForEvent(p)
    PROVE  \E s \in State : Moves(p, s) /\ Local(s)
<1> DEFINE view == Effective(ReadReceipts, ReadEvents, run[p].cmd.receipt)
<1>1. CASE Fail(p)
  BY <1>1, FailMoves, IdleState
<1>2. CASE /\ Known(ReadReceipts, run[p].cmd.receipt)
           /\ Goto(p, [run[p] EXCEPT !.pc = "append", !.before = view])
  <2>1. PICK s : s = [run[p] EXCEPT !.pc = "append", !.before = view]
    OBVIOUS
  <2>2. view \in View
    BY <1>2, ReadTypes, EffectiveType DEF Known, IInv
  <2> HIDE DEF view
  <2>3. s \in State /\ Local(s) /\ s.pc \notin Locked
    BY ZenonT(60), <2>1, <2>2, AtWork DEF ReadForEvent, State, Local, Labels, Locked, Option, Fresh
  <2> QED BY <1>2, <2>1, <2>3, GotoMoves
<1> QED BY <1>1, <1>2 DEF ReadForEvent

\* A new receipt has the next number,
LEMMA NewReceiptFits ==
    ASSUME IInv, NEW p \in Proc, run[p].pc = "append", run[p].cmd.op = "add"
    PROVE  /\ NewReceipt(p) \in Receipt /\ Formed(NewReceipt(p))
           /\ loose = None => Fits(NewReceipt(p))
<1>1. run[p].cmd \in Commands /\ run[p].cmd \in Command /\ run[p].sha \in Bytes
  BY AtWork DEF Local
<1>2. /\ run[p].cmd.path \in Place /\ run[p].cmd.owner \in Project /\ run[p].cmd.stage \in Stage
      /\ run[p].cmd.relation \in Relation /\ run[p].cmd.document \in Option(Document)
  BY <1>1, CommandAssumption DEF Command, Option
<1>3. Len(ReadReceipts) + 1 \in Nat
  <2>1. ReadReceipts \in Seq(Receipt)
    BY ReadTypes DEF IInv
  <2> QED BY <2>1
<1>4. NewReceipt(p) \in Receipt /\ NewReceipt(p).kind = "receipt" /\ NewReceipt(p).id = Len(ReadReceipts) + 1
  BY <1>1, <1>2, <1>3 DEF NewReceipt, Receipt
<1>5. loose = None => ReadReceipts = receipts
  BY ReadTypes DEF IInv
<1> QED BY <1>4, <1>5 DEF Formed, Fits, Entry

\* and so has a new event, which names receipts that are there.
LEMMA NewEventFits ==
    ASSUME IInv, NEW p \in Proc, run[p].pc = "append", run[p].cmd.op # "add",
           Accepted(ReadReceipts, run[p].cmd)
    PROVE  /\ NewEvent(p) \in Event /\ Formed(NewEvent(p))
           /\ NewEvent(p).receipt = run[p].cmd.receipt
           /\ loose = None => Fits(NewEvent(p))
<1>1. run[p].cmd \in Commands /\ run[p].cmd \in Command
  BY AtWork
<1>2. /\ run[p].cmd.path \in Option(Place) /\ run[p].cmd.owner \in Option(Project)
      /\ run[p].cmd.relation \in Relation /\ run[p].cmd.receipt \in Nat /\ run[p].cmd.old \in Nat
      /\ None \in Option(Place) /\ None \in Option(Project)
  BY <1>1 DEF Command, Option
<1>3. run[p].cmd.op \in {"note", "supersede", "relocate", "reclassify"}
  BY DEF Accepted
<1>4. run[p].cmd.op = "relocate" => run[p].cmd.path \in Place
  BY <1>1, <1>2, CommandAssumption DEF Option
<1>5. Len(ReadEvents) + 1 \in Nat
  <2>1. ReadEvents \in Seq(Event)
    BY ReadTypes DEF IInv
  <2> QED BY <2>1
<1>6. /\ NewEvent(p).kind = run[p].cmd.op /\ NewEvent(p).seq = Len(ReadEvents) + 1
      /\ NewEvent(p).receipt = run[p].cmd.receipt
      /\ run[p].cmd.op = "supersede" => NewEvent(p).old = run[p].cmd.old
      /\ run[p].cmd.op = "relocate" => NewEvent(p).path = run[p].cmd.path
  BY DEF NewEvent
<1>7. NewEvent(p) \in Event
  <2>1. PICK old \in Nat : old = IF run[p].cmd.op = "supersede" THEN run[p].cmd.old ELSE 0
    BY <1>2
  <2>2. PICK path \in Option(Place) : path = IF run[p].cmd.op = "relocate" THEN run[p].cmd.path ELSE None
    BY <1>2
  <2>3. PICK owner \in Option(Project) :
           owner = IF run[p].cmd.op = "reclassify" THEN run[p].cmd.owner ELSE None
    BY <1>2
  <2>4. NewEvent(p) = [kind |-> run[p].cmd.op, seq |-> Len(ReadEvents) + 1, receipt |-> run[p].cmd.receipt,
                       old |-> old, path |-> path, owner |-> owner, relation |-> run[p].cmd.relation]
    BY <2>1, <2>2, <2>3 DEF NewEvent
  <2> QED BY <1>2, <1>3, <1>5, <2>4 DEF Event
<1>8. Formed(NewEvent(p))
  BY <1>4, <1>6, <1>7 DEF Formed, Entry
<1>9. ASSUME loose = None PROVE Fits(NewEvent(p))
  <2>1. ReadReceipts = receipts /\ ReadEvents = events
    BY <1>9, ReadTypes DEF IInv
  <2>2. Known(receipts, run[p].cmd.receipt)
    BY <1>3, <2>1 DEF Accepted
  <2>3. run[p].cmd.op = "supersede" => Known(receipts, run[p].cmd.old) /\ run[p].cmd.old # run[p].cmd.receipt
    BY <2>1 DEF Accepted, AcceptSupersede
  <2> QED BY <1>3, <1>6, <2>1, <2>2, <2>3 DEF Fits
<1> QED BY <1>6, <1>7, <1>8, <1>9

LEMMA BeginAppendMoves ==
    ASSUME IInv, NEW p \in Proc, BeginAppend(p)
    PROVE  \E s \in State : Moves(p, s) /\ Local(s)
<1> DEFINE entry == IF run[p].cmd.op = "add" THEN NewReceipt(p) ELSE NewEvent(p)
<1>1. CASE Fail(p)
  BY <1>1, FailMoves, IdleState
<1>2. CASE /\ Accepted(ReadReceipts, run[p].cmd)
           /\ Goto(p, [run[p] EXCEPT !.pc = "write", !.entry = entry])
  <2>1. PICK s : s = [run[p] EXCEPT !.pc = "write", !.entry = entry]
    OBVIOUS
  <2>2. /\ entry \in Entry /\ Formed(entry) /\ entry # None
        /\ IsEvent(entry) => entry.receipt = run[p].cmd.receipt
        /\ loose = None => Fits(entry)
    <3>1. CASE run[p].cmd.op = "add"
      BY <3>1, NewReceiptFits, EntryAssumption DEF BeginAppend, IsEvent, Receipt, Entry
    <3>2. CASE run[p].cmd.op # "add"
      BY <1>2, <3>2, NewEventFits, EntryAssumption DEF BeginAppend, IsEvent, Entry
    <3> QED BY <3>1, <3>2
  <2> HIDE DEF entry
  <2>3. s \in State
    BY ZenonT(60), <2>1, <2>2, AtWork DEF State, Labels, Option
  <2>4. Local(s)
    BY <2>1, <2>2, AtWork DEF BeginAppend, State, Local, Fresh
  <2> QED BY <1>2, <2>1, <2>3, <2>4, GotoMoves DEF BeginAppend
<1> QED BY <1>1, <1>2 DEF BeginAppend

\* Reading after the lock: the event is in the log, so its receipt is.
LEMMA ReadAgainMoves ==
    ASSUME IInv, NEW p \in Proc, ReadAgain(p)
    PROVE  \E s \in State : Moves(p, s) /\ Local(s)
<1> DEFINE view == Effective(ReadReceipts, ReadEvents, run[p].cmd.receipt)
<1>1. CASE Fail(p)
  BY <1>1, FailMoves, IdleState
<1>2. CASE Goto(p, [run[p] EXCEPT !.pc = "journal", !.after = view])
  <2>1. PICK s : s = [run[p] EXCEPT !.pc = "journal", !.after = view]
    OBVIOUS
  <2>2. Known(receipts, run[p].cmd.receipt)
    <3>1. IsEvent(run[p].entry) /\ Logged(run[p].entry) /\ run[p].entry.receipt = run[p].cmd.receipt
      BY AtWork DEF ReadAgain, Local
    <3> QED BY <3>1 DEF IInv, LogFormed, Logged, IsEvent
  <2>3. run[p].cmd.receipt \in 1..Len(ReadReceipts)
    <3>1. Len(ReadReceipts) \in Nat /\ Len(receipts) \in Nat /\ Len(ReadReceipts) >= Len(receipts)
      BY ReadTypes DEF IInv, TypeOK
    <3> QED BY <2>2, <3>1 DEF Known
  <2>4. view \in View
    BY <2>3, ReadTypes, EffectiveType DEF IInv
  <2> HIDE DEF view
  <2>5. s \in State
    BY ZenonT(60), <2>1, <2>4, AtWork DEF State, Labels, Option
  <2>6. Local(s) /\ s.pc \notin Locked
    BY <2>1, <2>4, AtWork DEF ReadAgain, State, Local, Locked, Fresh
  <2> QED BY <1>2, <2>1, <2>5, <2>6, GotoMoves
<1> QED BY <1>1, <1>2 DEF ReadAgain

\* Mirroring.
LEMMA MirrorMoves ==
    ASSUME IInv, NEW p \in Proc, OpenJournal(p) \/ Mirror(p) \/ Report(p)
    PROVE  \E s \in State : Moves(p, s) /\ Local(s)
<1>1. CASE OpenJournal(p)
  <2> DEFINE retained == IF IsEvent(run[p].entry) /\ Subject(run[p]) \in DOMAIN revision
                         THEN revision[Subject(run[p])].archive ELSE None
             archive == IF run[p].cmd.archive = None THEN retained ELSE run[p].cmd.archive
  <2>1. PICK s : s = [run[p] EXCEPT !.pc = "mirror", !.archive = archive]
    OBVIOUS
  <2>2. archive \in Option(Project)
    <3>1. retained \in Option(Project)
      BY DEF IInv, TypeOK, Node, Option
    <3>2. run[p].cmd.archive \in Option(Project)
      BY <1>1, AtWork DEF OpenJournal, Command
    <3> QED BY <3>1, <3>2
  <2>3. Goto(p, s) /\ run[p].pc = "journal"
    BY <1>1, <2>1 DEF OpenJournal
  <2> HIDE DEF archive
  <2>4. s \in State
    BY ZenonT(60), <2>1, <2>2, AtWork DEF State, Labels, Option
  <2>5. Local(s) /\ s.pc \notin Locked
    BY <2>1, <2>3, AtWork DEF State, Local, Locked
  <2> QED BY <2>3, <2>4, <2>5, GotoMoves
<1>2. CASE Mirror(p)
  <2>1. CASE Fail(p)
    BY <2>1, FailMoves, IdleState
  <2>2. CASE Goto(p, [run[p] EXCEPT !.done = @ + 1])
    <3>1. PICK s : s = [run[p] EXCEPT !.done = @ + 1]
      OBVIOUS
    <3>2. s \in State
      BY SMTT(30), <3>1, AtWork DEF State
    <3>3. Local(s) /\ s.pc \notin Locked
      BY <1>2, <3>1, AtWork DEF Mirror, State, Local, Locked
    <3> QED BY <2>2, <3>1, <3>2, <3>3, GotoMoves
  <2> QED BY <1>2, <2>1, <2>2 DEF Mirror
<1>3. CASE Report(p)
  BY <1>3, ReturnMoves, IdleState DEF Report
<1> QED BY <1>1, <1>2, <1>3

\* Checking.
LEMMA CheckMoves ==
    ASSUME IInv, NEW p \in Proc, ReadForCheck(p) \/ CheckNext(p) \/ CheckDone(p)
    PROVE  \E s \in State : Moves(p, s) /\ Local(s)
<1>1. CASE ReadForCheck(p)
  <2>1. CASE Fail(p)
    BY <2>1, FailMoves, IdleState
  <2>2. CASE Goto(p, [run[p] EXCEPT !.pc = "hash", !.rs = ReadReceipts, !.es = ReadEvents])
    <3>1. PICK s : s = [run[p] EXCEPT !.pc = "hash", !.rs = ReadReceipts, !.es = ReadEvents]
      OBVIOUS
    <3>2. ReadReceipts \in Seq(Receipt) /\ ReadEvents \in Seq(Event)
      BY ReadTypes DEF IInv
    <3>3. s \in State
      BY ZenonT(60), <3>1, <3>2, AtWork DEF State, Labels
    <3>4. Local(s) /\ s.pc \notin Locked
      BY <1>1, <3>1, AtWork DEF ReadForCheck, State, Local, Locked
    <3> QED BY <2>2, <3>1, <3>3, <3>4, GotoMoves
  <2> QED BY <1>1, <2>1, <2>2 DEF ReadForCheck
<1>2. CASE CheckNext(p)
  <2>1. PICK missing, changed, s :
           /\ s = [run[p] EXCEPT !.done = @ + 1, !.missing = missing, !.changed = changed]
           /\ Goto(p, s)
           /\ missing \subseteq run[p].missing \union {run[p].done + 1}
           /\ changed \subseteq run[p].changed \union {run[p].done + 1}
    BY <1>2 DEF CheckNext
  <2>2. run[p].pc = "hash" /\ run[p] \in State /\ Local(run[p])
    BY <1>2, AtWork DEF CheckNext
  <2>3. s \in State
    <3>1. run[p].done + 1 \in Nat /\ run[p].missing \subseteq Nat /\ run[p].changed \subseteq Nat
      BY <2>2 DEF State
    <3>2. missing \in SUBSET Nat /\ changed \in SUBSET Nat
      BY <2>1, <3>1
    <3> QED BY <2>1, <2>2, <3>1, <3>2 DEF State
  <2>4. Local(s) /\ s.pc \notin Locked
    BY <2>1, <2>2 DEF State, Local, Locked
  <2> QED BY <2>1, <2>3, <2>4, GotoMoves
<1>3. CASE CheckDone(p)
  BY <1>3, ReturnMoves, IdleState DEF CheckDone
<1> QED BY <1>1, <1>2, <1>3

-----------------------------------------------------------------------------
(***************************************************************************)
(* The invariant.                                                          *)
(***************************************************************************)
\* The types of what is neither in the log nor shown nor local.
RestType ==
    /\ manifest \in {"none", "torn", "whole"} /\ project \in Option(Project) /\ created \in BOOLEAN
    /\ torn \in BOOLEAN /\ stale \subseteq Proc \X {"index", "timeline"}
    /\ unrelated \in BOOLEAN /\ files \in [Place -> Option(Bytes)]
    /\ DOMAIN revision \subseteq Nat /\ \A n \in DOMAIN revision : revision[n] \in Node
    /\ noted \subseteq Nat /\ documents \subseteq Option(Document)
    /\ answered \subseteq Entry /\ calm \subseteq Proc
    /\ commands \in 0..MaxCommand /\ edits \in 0..MaxEdit /\ faults \in 0..MaxFault

\* A quiet step of one process.
LEMMA QuietKeeps ==
    ASSUME IInv, NEW p \in Proc, \E s \in State : Moves(p, s) /\ Local(s),
           UNCHANGED <<receipts, events, loose, index, timeline>>, RestType'
    PROVE  IInv'
<1>1. /\ run' \in [Proc -> State] /\ tainted' \subseteq Nat
      /\ \A q \in Proc : Local(run[q])'
      /\ LogFormed' /\ Mutex' /\ Behind(index)' /\ Behind(timeline)'
  BY QuietStep
<1>2. TypeOK'
  BY <1>1 DEF TypeOK, RestType, IInv
<1> QED BY <1>1, <1>2 DEF IInv

\* The writes that mirror a receipt concern no event.
LEMMA ReceiptWrites ==
    ASSUME NEW s, IsReceipt(s.entry)
    PROVE  /\ Len(Plan(s)) \in Nat
           /\ \A i \in 1..Len(Plan(s)) : Plan(s)[i].op \in {"revision", "document", "assert"}
<1> DEFINE n == Subject(s)
           revised == Write("revision", None)
           filed   == Write("document", None)
           linked  == Write("assert", Edge(n, "REVISION_OF", s.after.document))
           owned   == Write("assert", OwnerEdge(n, s.after))
           kept    == Write("assert", Edge(n, "REFERENCES_PROJECT", s.archive))
           W == {revised, filed, linked, owned, kept}
           document == IF s.after.document = None THEN <<>> ELSE <<filed, linked>>
           archive  == IF s.archive \in {None, s.after.owner} THEN <<>> ELSE <<kept>>
<1>1. Plan(s) = ((<<revised>> \o document) \o <<owned>>) \o archive
  BY DEF Plan, MirrorReceipt
<1>2. \A w \in W : w.op \in {"revision", "document", "assert"}
  BY DEF Write
<1>3. document \in Seq(W) /\ archive \in Seq(W) /\ <<revised>> \in Seq(W) /\ <<owned>> \in Seq(W)
  <2>1. revised \in W /\ filed \in W /\ linked \in W /\ owned \in W /\ kept \in W
    OBVIOUS
  <2> HIDE DEF revised, filed, linked, owned, kept, W
  <2>2. <<>> \in Seq(W) /\ <<filed, linked>> \in Seq(W) /\ <<kept>> \in Seq(W)
    BY <2>1
  <2>3. <<revised>> \in Seq(W) /\ <<owned>> \in Seq(W)
    BY <2>1
  <2> HIDE DEF document, archive
  <2>4. document \in {<<>>, <<filed, linked>>} /\ archive \in {<<>>, <<kept>>}
    BY DEF document, archive
  <2> QED BY <2>2, <2>3, <2>4
<1> HIDE DEF W, document, archive, revised, filed, linked, owned, kept
<1>4. Plan(s) \in Seq(W)
  BY <1>1, <1>3
<1> QED BY <1>2, <1>4

\* A write to the graph keeps its type.
LEMMA ApplyKeepsType ==
    ASSUME IInv, NEW p \in Proc, run[p].pc = "mirror", run[p].done < Len(Plan(run[p])),
           Apply(run[p], Plan(run[p])[run[p].done + 1])
    PROVE  /\ DOMAIN revision' \subseteq Nat /\ \A n \in DOMAIN revision' : revision'[n] \in Node
           /\ noted' \subseteq Nat /\ documents' \subseteq Option(Document)
<1> DEFINE s == run[p]
           write == Plan(s)[s.done + 1]
<1>1. s \in State /\ Local(s) /\ s.entry \in Entry /\ s.after \in View /\ s.entry # None
  BY AtWork DEF Local, Formed
<1>2. IsReceipt(s.entry) \/ IsEvent(s.entry)
  BY <1>1 DEF IsReceipt, IsEvent
<1>3. IsEvent(s.entry) => s.entry.old \in Nat /\ s.entry.seq \in Nat
  BY <1>1, <1>2 DEF Subject, IsReceipt, IsEvent, Entry, Receipt, Event
<1>4. Subject(s) \in Nat
  BY <1>1, <1>2 DEF Subject, IsReceipt, IsEvent, Entry, Receipt, Event
<1>5. write.op \in {"superseded", "event"} => IsEvent(s.entry)
  <2>1. SUFFICES ASSUME IsReceipt(s.entry) PROVE write.op \notin {"superseded", "event"}
    BY <1>2
  <2>2. Len(Plan(s)) \in Nat /\ s.done \in Nat
    BY <1>1, <2>1, ReceiptWrites DEF State
  <2>3. s.done + 1 \in 1..Len(Plan(s))
    BY <2>2
  <2> QED BY <2>1, <2>3, ReceiptWrites
<1>6. ReceiptNode(s) \in Node
  <2>1. s.archive \in Option(Project)
    BY <1>1 DEF State
  <2>2. (IF s.archive = None /\ Subject(s) \in DOMAIN revision THEN revision[Subject(s)].archive
         ELSE s.archive) \in Option(Project)
    BY <2>1 DEF IInv, TypeOK, Node
  <2>3. ({s.archive} \ {None}) \union (IF Subject(s) \in DOMAIN revision THEN revision[Subject(s)].archives ELSE {})
        \in SUBSET Project
    BY <2>1 DEF IInv, TypeOK, Node, Option
  <2> QED BY <1>1, <2>2, <2>3 DEF ReceiptNode, Node, Option
<1>7. SupersededNode(s.entry.old) \in Node
  <2>1. CASE s.entry.old \in DOMAIN revision
    <3>1. revision[s.entry.old] \in Node
      BY <2>1 DEF IInv, TypeOK
    <3> QED BY <2>1, <3>1 DEF SupersededNode, Node
  <2>2. CASE s.entry.old \notin DOMAIN revision
    BY <2>2 DEF SupersededNode, Node, Option
  <2> QED BY <2>1, <2>2
<1>8. ASSUME NEW n \in Nat, NEW node \in Node
      PROVE  DOMAIN Upsert(n, node) \subseteq Nat /\ \A m \in DOMAIN Upsert(n, node) : Upsert(n, node)[m] \in Node
  BY DEF Upsert, IInv, TypeOK
<1>9. /\ DOMAIN revision \subseteq Nat /\ \A n \in DOMAIN revision : revision[n] \in Node
      /\ noted \subseteq Nat /\ documents \subseteq Option(Document)
  BY DEF IInv, TypeOK
<1> HIDE DEF s, write
<1>10. CASE write.op = "revision" /\ revision' = Upsert(Subject(s), ReceiptNode(s)) /\ UNCHANGED <<noted, documents>>
  BY <1>4, <1>6, <1>8, <1>9, <1>10
<1>11. CASE /\ write.op = "superseded" /\ revision' = Upsert(s.entry.old, SupersededNode(s.entry.old))
            /\ UNCHANGED <<noted, documents>>
  BY <1>3, <1>5, <1>7, <1>8, <1>9, <1>11, <1>4
<1>12. CASE documents' = documents \union {s.after.document} /\ UNCHANGED <<revision, noted>>
  BY <1>1, <1>9, <1>12 DEF View
<1>13. CASE write.op = "event" /\ noted' = noted \union {s.entry.seq} /\ UNCHANGED <<revision, documents>>
  BY <1>3, <1>4, <1>5, <1>9, <1>13
<1>14. CASE UNCHANGED <<revision, noted, documents>>
  BY <1>9, <1>14
<1>15. Apply(s, write)
  BY DEF s, write
<1> QED BY <1>10, <1>11, <1>12, <1>13, <1>14, <1>15 DEF Apply

\* The log and its projections grow.
Grows ==
    /\ Len(receipts') >= Len(receipts) /\ \A i \in 1..Len(receipts) : receipts'[i] = receipts[i]
    /\ Len(events') >= Len(events) /\ \A i \in 1..Len(events) : events'[i] = events[i]
    /\ index'.receipts >= index.receipts /\ index'.events >= index.events
    /\ timeline'.receipts >= timeline.receipts /\ timeline'.events >= timeline.events
    /\ receipts' \in Seq(Receipt) /\ events' \in Seq(Event)
    /\ index' \in Counting /\ timeline' \in Counting

\* Those who are not writing then know what they knew.
LEMMA OthersKnow ==
    ASSUME IInv, NEW q \in Proc, run'[q] = run[q], run[q].pc # "write", Grows
    PROVE  Local(run[q])'
<1>0. PICK s \in State : s = run[q]
  BY AtWork
<1>1. Local(s) /\ s.pc # "write" /\ run'[q] = s
  BY <1>0, AtWork
<1>2. Formed(s.entry) /\ s.entry # None => s.entry \in Entry
  BY DEF Formed
<1>3. /\ Len(receipts) \in Nat /\ Len(receipts') \in Nat /\ Len(events) \in Nat /\ Len(events') \in Nat
      /\ index \in Counting /\ timeline \in Counting /\ index' \in Counting /\ timeline' \in Counting
  BY DEF IInv, TypeOK, Grows
<1>4. ASSUME s.entry # None, Formed(s.entry) PROVE Logged(s.entry) => Logged(s.entry)'
  <2>1. SUFFICES ASSUME Logged(s.entry) PROVE Logged(s.entry)'
    OBVIOUS
  <2>2. CASE s.entry.kind = "receipt"
    <3>1. s.entry.id \in 1..Len(receipts) /\ receipts[s.entry.id] = s.entry
      BY <2>1, <2>2 DEF Logged
    <3>2. receipts'[s.entry.id] = s.entry /\ s.entry.id \in 1..Len(receipts')
      BY <3>1, <1>3 DEF Grows
    <3> QED BY <2>2, <3>2 DEF Logged
  <2>3. CASE s.entry.kind # "receipt"
    <3>1. s.entry.seq \in 1..Len(events) /\ events[s.entry.seq] = s.entry
      BY <2>1, <2>3 DEF Logged
    <3>2. events'[s.entry.seq] = s.entry /\ s.entry.seq \in 1..Len(events')
      BY <3>1, <1>3 DEF Grows
    <3> QED BY <2>3, <3>2 DEF Logged
  <2> QED BY <2>2, <2>3
<1>5. ASSUME s.entry # None, Formed(s.entry)
      PROVE  /\ Within(s.entry, index) => Within(s.entry, index)'
             /\ Within(s.entry, timeline) => Within(s.entry, timeline)'
  BY SMTT(30), <1>3, <1>5 DEF Within, Grows, Counting, Formed, Entry, Receipt, Event
<1>6. Formed(s.entry) => Formed(s.entry)'
  BY DEF Formed
<1>7. s.entry # None => Formed(s.entry)
  BY <1>1 DEF Local
<1>8. Local(s)'
  BY <1>1, <1>4, <1>5, <1>6, <1>7 DEF Local, IsEvent
<1> QED BY <1>1, <1>8 DEF Local, Formed, Fits, Logged, Within, Known, IsEvent

\* The one that holds the lock is alone in holding it.
LEMMA HoldsAlone ==
    ASSUME IInv, NEW p \in Proc, run[p].pc \in Locked, NEW q \in Proc \ {p}
    PROVE  run[q].pc \notin Locked
  BY DEF IInv, Mutex

\* The lengths and counts are numbers.
LEMMA Numbers ==
    ASSUME TypeOK
    PROVE  /\ Len(receipts) \in Nat /\ Len(events) \in Nat /\ Counts \in Counting
           /\ index.receipts \in Nat /\ index.events \in Nat
           /\ timeline.receipts \in Nat /\ timeline.events \in Nat
           /\ Counts.receipts = Len(receipts) /\ Counts.events = Len(events)
  BY DEF TypeOK, Counting, Counts

\* The end of an append keeps the invariant: the entry is then in the log.
LEMMA EndAppendKeeps ==
    ASSUME IInv, NEW p \in Proc, EndAppend(p)
    PROVE  IInv'
<1>0. PICK entry : entry = run[p].entry
  OBVIOUS
<1>1. /\ run[p].pc = "write" /\ run[p].pc \in Locked /\ entry # None /\ Formed(entry) /\ entry \in Entry
      /\ IsEvent(entry) => entry.receipt = run[p].cmd.receipt
      /\ run[p] \in State /\ Local(run[p])
  BY <1>0, AtWork DEF EndAppend, Local, Locked, Formed
<1>2. loose' = None /\ RestType'
  BY <1>1 DEF EndAppend, RestType, IInv, TypeOK, headVars, showVars, outside, graphVars, counterVars
<1>3. ASSUME loose # None PROVE IInv'
  <2>1. Moves(p, Idle) /\ UNCHANGED <<receipts, events, index, timeline>>
    BY <1>3, FailMoves DEF EndAppend, showVars
  <2>2. Grows
    BY <2>1, Numbers DEF Grows, IInv, TypeOK
  <2>3. ASSUME NEW q \in Proc PROVE Local(run[q])'
    <3>1. CASE q = p
      <4>1. run'[q] = Idle
        BY <2>1, <3>1 DEF Moves, IInv, TypeOK
      <4> QED BY <4>1 DEF Idle, Local, IsEvent, Fresh
    <3>2. CASE q # p
      <4>1. run'[q] = run[q] /\ run[q].pc # "write"
        BY <2>1, <1>1, <3>2, HoldsAlone DEF Moves, IInv, TypeOK, Locked
      <4> QED BY <2>2, <4>1, OthersKnow
    <3> QED BY <3>1, <3>2
  <2>4. run' \in [Proc -> State] /\ Mutex' /\ tainted' \subseteq Nat
    BY <2>1, MovesExclude DEF Moves
  <2>5. LogFormed' /\ Behind(index)' /\ Behind(timeline)'
    BY <1>2, <2>1 DEF IInv, LogFormed, Behind, Formed, Known
  <2>6. TypeOK'
    BY <1>2, <2>1, <2>4 DEF TypeOK, RestType, IInv, Option
  <2> QED BY <2>3, <2>4, <2>5, <2>6 DEF IInv
<1>4. ASSUME loose = None PROVE IInv'
  <2>0. Fits(entry)
    BY <1>0, <1>1, <1>4 DEF Local
  <2>1. PICK s : s = [run[p] EXCEPT !.pc = "index"]
    OBVIOUS
  <2>2. /\ s \in State /\ s.pc = "index" /\ s.entry = entry /\ s.cmd = run[p].cmd /\ Fresh(s)
        /\ Goto(p, s) /\ UNCHANGED <<index, timeline>>
    BY <1>0, <1>1, <1>4, <2>1 DEF EndAppend, State, Labels, showVars, Local, Fresh
  <2>3. Moves(p, s)
    <3>1. Touched(s) \subseteq Nat
      BY <1>1, <2>2, TouchedType DEF Local
    <3> QED BY <1>1, <2>2, <3>1 DEF Goto, Moves, IInv, TypeOK
  <2>4. receipts \in Seq(Receipt) /\ events \in Seq(Event) /\ Len(receipts) \in Nat /\ Len(events) \in Nat
    BY DEF IInv, TypeOK
  <2>5. /\ Grows
        /\ Logged(entry)'
        /\ LogFormed'
    <3>1. CASE entry.kind = "receipt"
      <4>1. entry \in Receipt /\ entry.id = Len(receipts) + 1 /\ IsReceipt(entry)
        BY <1>1, <2>0, <3>1 DEF Fits, Entry, Event, IsReceipt
      <4>2. receipts' = Append(receipts, entry) /\ events' = events
        BY <1>0, <1>4, <4>1 DEF EndAppend
      <4>3. /\ receipts' \in Seq(Receipt) /\ Len(receipts') = Len(receipts) + 1
            /\ receipts'[Len(receipts) + 1] = entry
            /\ \A i \in 1..Len(receipts) : receipts'[i] = receipts[i]
        BY <2>4, <4>1, <4>2
      <4>4. Grows
        BY SMTT(30), <2>2, <2>4, <4>2, <4>3, Numbers DEF Grows, IInv, TypeOK
      <4>5. Logged(entry)'
        <5>1. receipts'[entry.id] = entry /\ entry.id \in 1..Len(receipts')
          BY <2>4, <4>1, <4>3
        <5> QED BY <3>1, <5>1 DEF Logged
      <4>6. LogFormed'
        BY <1>2, <2>4, <4>2, <4>3 DEF IInv, LogFormed, Formed, Known
      <4> QED BY <4>4, <4>5, <4>6
    <3>2. CASE entry.kind # "receipt"
      <4>1. entry \in Event /\ entry.seq = Len(events) + 1 /\ ~IsReceipt(entry) /\ Known(receipts, entry.receipt)
        BY <1>1, <2>0, <3>2 DEF Fits, Entry, Receipt, IsReceipt
      <4>2. events' = Append(events, entry) /\ receipts' = receipts
        BY <1>0, <1>4, <4>1 DEF EndAppend
      <4>3. /\ events' \in Seq(Event) /\ Len(events') = Len(events) + 1
            /\ events'[Len(events) + 1] = entry
            /\ \A i \in 1..Len(events) : events'[i] = events[i]
        BY <2>4, <4>1, <4>2
      <4>4. Grows
        BY SMTT(30), <2>2, <2>4, <4>2, <4>3, Numbers DEF Grows, IInv, TypeOK
      <4>5. Logged(entry)'
        <5>1. events'[entry.seq] = entry /\ entry.seq \in 1..Len(events')
          BY <2>4, <4>1, <4>3
        <5> QED BY <3>2, <5>1 DEF Logged
      <4>6. LogFormed'
        <5>1. ASSUME NEW i \in 1..Len(events') PROVE Formed(events'[i]) /\ Known(receipts', events'[i].receipt)
          <6>1. CASE i = Len(events) + 1
            BY <1>1, <4>1, <4>2, <4>3, <6>1
          <6>2. CASE i # Len(events) + 1
            <7>1. i \in 1..Len(events) /\ events'[i] = events[i]
              BY <2>4, <4>3, <6>2
            <7> QED BY <4>2, <7>1 DEF IInv, LogFormed
          <6> QED BY <6>1, <6>2
        <5> QED BY <1>2, <5>1 DEF LogFormed, Formed
      <4> QED BY <4>4, <4>5, <4>6
    <3> QED BY <3>1, <3>2
  <2>6. ASSUME NEW q \in Proc PROVE Local(run[q])'
    <3>1. CASE q = p
      <4>1. run'[q] = s
        BY <2>3, <3>1 DEF Moves, IInv, TypeOK
      <4>2. Local(s)'
        BY <1>1, <2>2, <2>5 DEF Local, Formed, IsEvent
      <4> QED BY <4>1, <4>2 DEF Local, Formed, Fits, Logged, Within, Known, IsEvent
    <3>2. CASE q # p
      <4>1. run'[q] = run[q] /\ run[q].pc # "write"
        BY <2>3, <1>1, <3>2, HoldsAlone DEF Moves, IInv, TypeOK, Locked
      <4> QED BY <2>5, <4>1, OthersKnow
    <3> QED BY <3>1, <3>2
  <2>7. run' \in [Proc -> State] /\ Mutex' /\ tainted' \subseteq Nat
    BY <2>3, MovesExclude DEF Moves
  <2>8. Behind(index)' /\ Behind(timeline)'
    <3>1. Len(receipts') \in Nat /\ Len(events') \in Nat
      BY <2>5 DEF Grows
    <3> QED BY <2>2, <2>4, <2>5, <3>1, Numbers DEF IInv, Behind, Grows
  <2>9. TypeOK'
    BY <1>2, <2>5, <2>7 DEF TypeOK, RestType, Grows, Option
  <2> QED BY <2>5, <2>6, <2>7, <2>8, <2>9 DEF IInv
<1> QED BY <1>3, <1>4

\* A projection shows the whole log.
LEMMA ProjectIndexKeeps ==
    ASSUME IInv, NEW p \in Proc, ProjectIndex(p)
    PROVE  IInv'
<1>1. /\ run[p].pc = "index" /\ run[p].pc \in Locked /\ run[p] \in State /\ Local(run[p])
      /\ UNCHANGED <<receipts, events, loose, timeline>>
  BY AtWork DEF ProjectIndex, Locked, logVars
<1>2. RestType'
  BY DEF ProjectIndex, RestType, IInv, TypeOK, headVars, logVars, outside, graphVars, counterVars
<1>3. CASE Fail(p) /\ UNCHANGED index
  BY <1>1, <1>2, <1>3, FailMoves, IdleState, QuietKeeps
<1>4. CASE index' = Counts /\ Goto(p, [run[p] EXCEPT !.pc = "timeline"])
  <2>1. PICK s : s = [run[p] EXCEPT !.pc = "timeline"]
    OBVIOUS
  <2>2. /\ s \in State /\ s.pc = "timeline" /\ s.entry = run[p].entry /\ s.cmd = run[p].cmd
        /\ Goto(p, s) /\ Fresh(s)
    BY <1>1, <1>4, <2>1 DEF State, Labels, Local, Fresh
  <2>3. Moves(p, s)
    <3>1. Touched(s) \subseteq Nat
      BY <1>1, <2>2, TouchedType DEF Local
    <3> QED BY <1>1, <2>2, <3>1 DEF Goto, Moves, IInv, TypeOK
  <2>4. Grows
    BY SMTT(30), <1>1, <1>4, Numbers DEF Grows, Behind, IInv, TypeOK
  <2>5. ASSUME NEW q \in Proc PROVE Local(run[q])'
    <3>1. CASE q = p
      <4>1. run'[q] = s
        BY <2>3, <3>1 DEF Moves, IInv, TypeOK
      <4>2. s.entry # None => Formed(s.entry) /\ Logged(s.entry)
        BY <1>1, <2>2 DEF Local
      <4>3. s.entry # None => Within(s.entry, Counts)
        BY <4>2 DEF Logged, Within, Counts, Formed
      <4>4. Local(s)'
        BY <1>1, <1>4, <2>2, <4>2, <4>3 DEF Local, Formed, IsEvent, Logged, Within
      <4> QED BY <4>1, <4>4 DEF Local, Formed, Fits, Logged, Within, Known, IsEvent
    <3>2. CASE q # p
      <4>1. run'[q] = run[q] /\ run[q].pc # "write"
        BY <2>3, <1>1, <3>2, HoldsAlone DEF Moves, IInv, TypeOK, Locked
      <4> QED BY <2>4, <4>1, OthersKnow
    <3> QED BY <3>1, <3>2
  <2>6. run' \in [Proc -> State] /\ Mutex' /\ tainted' \subseteq Nat
    BY <2>3, MovesExclude DEF Moves
  <2>7. LogFormed' /\ Behind(index)' /\ Behind(timeline)'
    BY <1>1, <1>4, Numbers DEF IInv, LogFormed, Behind, Formed, Known
  <2>8. TypeOK'
    BY <1>1, <1>2, <2>4, <2>6 DEF TypeOK, RestType, Grows, IInv
  <2> QED BY <2>5, <2>6, <2>7, <2>8 DEF IInv
<1> QED BY <1>3, <1>4 DEF ProjectIndex, Projection

LEMMA ProjectTimelineKeeps ==
    ASSUME IInv, NEW p \in Proc, ProjectTimeline(p)
    PROVE  IInv'
<1>1. /\ run[p].pc = "timeline" /\ run[p].pc \in Locked /\ run[p] \in State /\ Local(run[p])
      /\ UNCHANGED <<receipts, events, loose, index>>
  BY AtWork DEF ProjectTimeline, Locked, logVars
<1>2. RestType'
  BY DEF ProjectTimeline, RestType, IInv, TypeOK, headVars, logVars, outside, graphVars, counterVars
<1>3. CASE Fail(p) /\ UNCHANGED timeline
  BY <1>1, <1>2, <1>3, FailMoves, IdleState, QuietKeeps
<1>4. CASE timeline' = Counts /\ Goto(p, Projected(run[p]))
  <2>1. PICK s : s = Projected(run[p])
    OBVIOUS
  <2>2. /\ s \in State /\ s.pc \in {"idle", "read", "reread", "journal"} /\ Fresh(s)
        /\ s.pc # "idle" => s.cmd = run[p].cmd /\ s.entry = run[p].entry
        /\ s.pc \in {"idle", "read"} => s.entry = None
        /\ s.pc = "reread" => IsEvent(s.entry)
        /\ s.pc = "journal" => s.after \in View
        /\ s.pc \in {"reread", "journal"} => s.entry # None
    <3>0. Fresh(run[p])
      BY <1>1 DEF Local
    <3>1. CASE run[p].entry = None
      <4>1. s \in {Idle, [run[p] EXCEPT !.pc = "read"]}
        BY <2>1, <3>1 DEF Projected, Opened
      <4>2. CASE s = Idle
        BY <4>2, IdleState DEF Idle, Fresh
      <4>3. CASE s = [run[p] EXCEPT !.pc = "read"]
        BY <4>3, <1>1, <3>0, <3>1 DEF State, Labels, Fresh
      <4> QED BY <4>1, <4>2, <4>3
    <3>2. CASE run[p].entry # None /\ IsReceipt(run[p].entry)
      <4>1. PICK view : view = [path |-> run[p].entry.path, owner |-> run[p].entry.owner,
                                relation |-> run[p].entry.relation, document |-> run[p].entry.document]
        OBVIOUS
      <4>2. run[p].entry \in Receipt
        BY <1>1, <3>2 DEF Local, Formed, IsReceipt, Entry, Event
      <4>3. view \in View
        BY <4>1, <4>2 DEF View, Receipt
      <4>4. s = [run[p] EXCEPT !.pc = "journal", !.after = view]
        BY <2>1, <3>2, <4>1 DEF Projected
      <4> QED BY <1>1, <3>0, <3>2, <4>3, <4>4 DEF State, Labels, Option, Fresh
    <3>3. CASE run[p].entry # None /\ ~IsReceipt(run[p].entry)
      <4>1. s = [run[p] EXCEPT !.pc = "reread"]
        BY <2>1, <3>3 DEF Projected
      <4> QED BY <1>1, <3>0, <3>3, <4>1 DEF State, Labels, IsEvent, IsReceipt, Fresh
    <3> QED BY <3>1, <3>2, <3>3
  <2>3. Moves(p, s)
    <3>1. Touched(s) \subseteq Nat
      BY <1>1, <2>2, TouchedType DEF Local
    <3> QED BY <1>1, <1>4, <2>1, <2>2, <3>1 DEF Goto, Moves, IInv, TypeOK
  <2>4. Grows
    BY SMTT(30), <1>1, <1>4, Numbers DEF Grows, Behind, IInv, TypeOK
  <2>5. ASSUME NEW q \in Proc PROVE Local(run[q])'
    <3>1. CASE q = p
      <4>1. run'[q] = s
        BY <2>3, <3>1 DEF Moves, IInv, TypeOK
      <4>2. s.entry # None => Formed(s.entry) /\ Logged(s.entry) /\ Within(s.entry, index)
        BY <1>1, <2>2 DEF Local
      <4>3. s.entry # None => Within(s.entry, Counts)
        BY <4>2 DEF Logged, Within, Counts, Formed
      <4>4. IsEvent(s.entry) => s.entry.receipt = s.cmd.receipt
        BY <1>1, <2>2 DEF Local, IsEvent
      <4>5. s.pc # "idle" => s.cmd \in Commands
        BY <1>1, <2>2 DEF Local
      <4>6. Local(s)'
        BY <1>1, <1>4, <2>2, <4>2, <4>3, <4>4, <4>5 DEF Local, Formed, IsEvent, Logged, Within
      <4> QED BY <4>1, <4>6 DEF Local, Formed, Fits, Logged, Within, Known, IsEvent
    <3>2. CASE q # p
      <4>1. run'[q] = run[q] /\ run[q].pc # "write"
        BY <2>3, <1>1, <3>2, HoldsAlone DEF Moves, IInv, TypeOK, Locked
      <4> QED BY <2>4, <4>1, OthersKnow
    <3> QED BY <3>1, <3>2
  <2>6. run' \in [Proc -> State] /\ Mutex' /\ tainted' \subseteq Nat
    BY <2>3, MovesExclude DEF Moves
  <2>7. LogFormed' /\ Behind(index)' /\ Behind(timeline)'
    BY <1>1, <1>4, Numbers DEF IInv, LogFormed, Behind, Formed, Known
  <2>8. TypeOK'
    BY <1>1, <1>2, <2>4, <2>6 DEF TypeOK, RestType, Grows, IInv
  <2> QED BY <2>5, <2>6, <2>7, <2>8 DEF IInv
<1> QED BY <1>3, <1>4 DEF ProjectTimeline, Projection

\* The death of a command, in the middle of a line in particular.
LEMMA DieKeeps ==
    ASSUME IInv, NEW p \in Proc, Die(p)
    PROVE  IInv'
<1>1. /\ Moves(p, Idle) /\ UNCHANGED <<receipts, events, index, timeline>>
      /\ run[p] \in State /\ Local(run[p])
  BY FailMoves, AtWork DEF Die
<1>2. /\ faults' \in 0..MaxFault /\ torn' \in BOOLEAN /\ stale' \subseteq Proc \X {"index", "timeline"}
  <2>1. faults' \in 0..MaxFault
    BY CommandAssumption DEF Die, IInv, TypeOK
  <2>2. torn' \in BOOLEAN
    BY DEF Die, CutLine, KeepTemporary, JustStop, IInv, TypeOK
  <2>3. stale' \subseteq Proc \X {"index", "timeline"}
    BY DEF Die, CutLine, KeepTemporary, JustStop, IInv, TypeOK
  <2> QED BY <2>1, <2>2, <2>3
<1>3. RestType'
  BY <1>2 DEF Die, RestType, IInv, TypeOK, headVars, outside, graphVars
<1>4. CASE UNCHANGED loose
  BY <1>1, <1>3, <1>4, IdleState, QuietKeeps
<1>5. CASE CutLine(p)
  <2>1. run[p].pc = "write" /\ run[p].pc \in Locked
    BY <1>5 DEF CutLine, Locked
  <2>2. /\ loose' \in Option(Entry)
        /\ loose' # None => loose' \in Entry /\ (loose'.kind = "relocate" => loose'.path \in Place)
    BY <1>1, <1>5 DEF CutLine, Local, Formed, Option
  <2>3. Grows
    BY <1>1, Numbers DEF Grows, IInv, TypeOK
  <2>4. ASSUME NEW q \in Proc PROVE Local(run[q])'
    <3>1. CASE q = p
      <4>1. run'[q] = Idle
        BY <1>1, <3>1 DEF Moves, IInv, TypeOK
      <4> QED BY <4>1 DEF Idle, Local, IsEvent, Fresh
    <3>2. CASE q # p
      <4>1. run'[q] = run[q] /\ run[q].pc # "write"
        BY <1>1, <2>1, <3>2, HoldsAlone DEF Moves, IInv, TypeOK, Locked
      <4> QED BY <2>3, <4>1, OthersKnow
    <3> QED BY <3>1, <3>2
  <2>5. run' \in [Proc -> State] /\ Mutex' /\ tainted' \subseteq Nat
    BY <1>1, MovesExclude DEF Moves
  <2>6. LogFormed' /\ Behind(index)' /\ Behind(timeline)'
    BY <1>1, <2>2 DEF IInv, LogFormed, Behind, Formed, Known
  <2>7. TypeOK'
    BY <1>1, <1>3, <2>2, <2>5 DEF TypeOK, RestType, IInv
  <2> QED BY <2>4, <2>5, <2>6, <2>7 DEF IInv
<1> QED BY <1>4, <1>5 DEF Die, KeepTemporary, JustStop

\* The invariant holds of every ledger: whatever commands overlap or die, and
\* whatever becomes of the files, commands know what they rely on.
THEOREM Invariance == Spec => []IInv
<1> USE DEF headVars, logVars, showVars, outside, graphVars, counterVars
<1>1. Init => IInv
  <2>1. SUFFICES ASSUME Init PROVE IInv
    OBVIOUS
  <2>2. \A p \in Proc : run[p] = Idle
    BY <2>1 DEF Init
  <2>3. receipts = <<>> /\ events = <<>> /\ Counts = [receipts |-> 0, events |-> 0]
    BY <2>1 DEF Init, Counts
  <2>4. run \in [Proc -> State] /\ \A p \in Proc : Local(run[p])
    BY <2>1, <2>2, IdleState DEF Init
  <2>5. files \in [Place -> Option(Bytes)]
    BY <2>1, CommandAssumption DEF Init
  <2>6. TypeOK
    <3>1. receipts \in Seq(Receipt) /\ events \in Seq(Event) /\ index \in Counting /\ timeline \in Counting
      BY <2>1, <2>3 DEF Init, Counting
    <3>2. commands \in 0..MaxCommand /\ edits \in 0..MaxEdit /\ faults \in 0..MaxFault
      BY <2>1, CommandAssumption DEF Init
    <3>3. DOMAIN revision \subseteq Nat /\ \A n \in DOMAIN revision : revision[n] \in Node
      BY <2>1 DEF Init
    <3> QED BY <2>1, <2>4, <2>5, <3>1, <3>2, <3>3 DEF Init, TypeOK, Option
  <2>7. LogFormed /\ Mutex /\ Behind(index) /\ Behind(timeline)
    BY <2>1, <2>2, <2>3 DEF Init, LogFormed, Mutex, Behind, Idle, Locked
  <2> QED BY <2>4, <2>6, <2>7 DEF IInv
<1>2. IInv /\ [Next]_vars => IInv'
  <2>1. SUFFICES ASSUME IInv, [Next]_vars PROVE IInv'
    OBVIOUS
  <2>2. RestType
    BY <2>1 DEF IInv, TypeOK, RestType
  <2>3. ASSUME NEW p \in Proc, Start(p) PROVE IInv'
    <3>1. UNCHANGED <<receipts, events, loose, index, timeline>>
      BY <2>3 DEF Start
    <3>2. commands' \in 0..MaxCommand
      BY <2>2, <2>3, CommandAssumption DEF Start, RestType
    <3>3. RestType'
      BY <2>2, <2>3, <3>2 DEF Start, RestType
    <3> QED BY <2>1, <2>3, <3>1, <3>3, StartMoves, QuietKeeps
  <2>4. ASSUME NEW p \in Proc, Peek(p) PROVE IInv'
    <3>1. RestType' /\ UNCHANGED <<receipts, events, loose, index, timeline>>
      BY <2>2, <2>4 DEF Peek, RestType
    <3> QED BY <2>1, <2>4, <3>1, PeekMoves, QuietKeeps
  <2>5. ASSUME NEW p \in Proc, OpenExisting(p) PROVE IInv'
    <3>1. RestType' /\ UNCHANGED <<receipts, events, loose, index, timeline>>
      BY <2>2, <2>5 DEF OpenExisting, RestType
    <3> QED BY <2>1, <2>5, <3>1, OpenExistingMoves, QuietKeeps
  <2>6. ASSUME NEW p \in Proc, CreateManifest(p) \/ WriteManifest(p) \/ CreateLog(p) PROVE IInv'
    <3>1. UNCHANGED <<receipts, events, loose, index, timeline>>
      BY <2>6 DEF CreateManifest, WriteManifest, CreateLog
    <3>2. RestType'
      BY <2>1, <2>2, <2>6, AtWork DEF CreateManifest, WriteManifest, CreateLog, RestType, State
    <3> QED BY <2>1, <2>6, <3>1, <3>2, CreateMoves, QuietKeeps
  <2>7. ASSUME NEW p \in Proc, ReadForAdd(p) PROVE IInv'
    <3>1. RestType' /\ UNCHANGED <<receipts, events, loose, index, timeline>>
      BY <2>2, <2>7 DEF ReadForAdd, RestType
    <3> QED BY <2>1, <2>7, <3>1, ReadForAddMoves, QuietKeeps
  <2>8. ASSUME NEW p \in Proc, ReadForEvent(p) PROVE IInv'
    <3>1. RestType' /\ UNCHANGED <<receipts, events, loose, index, timeline>>
      BY <2>2, <2>8 DEF ReadForEvent, RestType
    <3> QED BY <2>1, <2>8, <3>1, ReadForEventMoves, QuietKeeps
  <2>9. ASSUME NEW p \in Proc, BeginAppend(p) PROVE IInv'
    <3>1. RestType' /\ UNCHANGED <<receipts, events, loose, index, timeline>>
      BY <2>2, <2>9 DEF BeginAppend, RestType
    <3> QED BY <2>1, <2>9, <3>1, BeginAppendMoves, QuietKeeps
  <2>10. ASSUME NEW p \in Proc, ReadAgain(p) PROVE IInv'
    <3>1. RestType' /\ UNCHANGED <<receipts, events, loose, index, timeline>>
      BY <2>2, <2>10 DEF ReadAgain, RestType
    <3> QED BY <2>1, <2>10, <3>1, ReadAgainMoves, QuietKeeps
  <2>11. ASSUME NEW p \in Proc, OpenJournal(p) PROVE IInv'
    <3>1. RestType' /\ UNCHANGED <<receipts, events, loose, index, timeline>>
      BY <2>2, <2>11 DEF OpenJournal, RestType
    <3> QED BY <2>1, <2>11, <3>1, MirrorMoves, QuietKeeps
  <2>12. ASSUME NEW p \in Proc, Mirror(p) PROVE IInv'
    <3>1. UNCHANGED <<receipts, events, loose, index, timeline>>
      BY <2>12 DEF Mirror
    <3>2. /\ DOMAIN revision' \subseteq Nat /\ \A n \in DOMAIN revision' : revision'[n] \in Node
          /\ noted' \subseteq Nat /\ documents' \subseteq Option(Document)
      <4>1. CASE UNCHANGED graphVars
        BY <2>2, <4>1 DEF RestType
      <4>2. CASE Apply(run[p], Plan(run[p])[run[p].done + 1])
        BY <2>1, <2>12, <4>2, ApplyKeepsType DEF Mirror
      <4> QED BY <2>12, <4>1, <4>2 DEF Mirror
    <3>3. RestType'
      BY <2>2, <2>12, <3>2 DEF Mirror, RestType
    <3> QED BY <2>1, <2>12, <3>1, <3>3, MirrorMoves, QuietKeeps
  <2>13. ASSUME NEW p \in Proc, Report(p) PROVE IInv'
    <3>1. run[p].entry \in Entry
      BY <2>1, <2>13, AtWork DEF Report, Local, Formed
    <3>2. RestType' /\ UNCHANGED <<receipts, events, loose, index, timeline>>
      BY <2>2, <2>13, <3>1 DEF Report, RestType
    <3> QED BY <2>1, <2>13, <3>2, MirrorMoves, QuietKeeps
  <2>14. ASSUME NEW p \in Proc, ReadForCheck(p) \/ CheckNext(p) \/ CheckDone(p) PROVE IInv'
    <3>1. UNCHANGED <<receipts, events, loose, index, timeline>>
      BY <2>14 DEF ReadForCheck, CheckNext, CheckDone
    <3>2. calm' \subseteq Proc
      BY <2>2, <2>14 DEF ReadForCheck, CheckNext, CheckDone, RestType
    <3>3. RestType'
      BY <2>2, <2>14, <3>2 DEF ReadForCheck, CheckNext, CheckDone, RestType
    <3> QED BY <2>1, <2>14, <3>1, <3>3, CheckMoves, QuietKeeps
  <2>15. CASE Edit
    <3>1. UNCHANGED <<receipts, events, loose, index, timeline, run, tainted>>
      BY <2>15 DEF Edit
    <3>2. files' \in [Place -> Option(Bytes)] /\ edits' \in 0..MaxEdit
      BY <2>2, <2>15, CommandAssumption DEF Edit, RestType
    <3>3. RestType'
      BY <2>2, <2>15, <3>2 DEF Edit, RestType
    <3>4. TypeOK'
      BY <2>1, <3>1, <3>3 DEF TypeOK, RestType, IInv
    <3>5. \A q \in Proc : Local(run[q])'
      BY <2>1, <3>1 DEF IInv, Local, Formed, Fits, Logged, Within, Known, IsEvent
    <3>6. LogFormed' /\ Mutex' /\ Behind(index)' /\ Behind(timeline)'
      BY <2>1, <3>1 DEF IInv, LogFormed, Mutex, Behind, Formed, Known
    <3> QED BY <3>4, <3>5, <3>6 DEF IInv
  <2>16. CASE UNCHANGED vars
    <3>1. UNCHANGED <<receipts, events, loose, index, timeline, run, tainted>>
      BY <2>16 DEF vars
    <3>2. RestType'
      BY <2>2, <2>16 DEF vars, RestType
    <3>4. TypeOK'
      BY <2>1, <3>1, <3>2 DEF TypeOK, RestType, IInv
    <3>5. \A q \in Proc : Local(run[q])'
      BY <2>1, <3>1 DEF IInv, Local, Formed, Fits, Logged, Within, Known, IsEvent
    <3>6. LogFormed' /\ Mutex' /\ Behind(index)' /\ Behind(timeline)'
      BY <2>1, <3>1 DEF IInv, LogFormed, Mutex, Behind, Formed, Known
    <3> QED BY <3>4, <3>5, <3>6 DEF IInv
  <2> QED
    BY <2>1, <2>3, <2>4, <2>5, <2>6, <2>7, <2>8, <2>9, <2>10, <2>11, <2>12, <2>13, <2>14, <2>15, <2>16,
       EndAppendKeeps, ProjectIndexKeeps, ProjectTimelineKeeps, DieKeeps
    DEF Next, Step
<1> QED BY <1>1, <1>2, PTL DEF Spec

\* All variables keep their types.
THEOREM TypeCorrect == Spec => []TypeOK
<1>1. IInv => TypeOK
  BY DEF IInv
<1> QED BY <1>1, Invariance, PTL

-----------------------------------------------------------------------------
(***************************************************************************)
(* The ledger keeps the promises of the book.                              *)
(***************************************************************************)
\* The end of an append files a receipt or records an event.
LEMMA AppendIsFiling ==
    ASSUME IInv, NEW p \in Proc, EndAppend(p)
    PROVE  Book!Next \/ UNCHANGED Book!vars
<1>0. PICK entry : entry = run[p].entry
  OBVIOUS
<1>1. /\ run[p].pc = "write" /\ entry # None /\ entry \in Entry
      /\ UNCHANGED <<index, timeline, answered>>
      /\ loose = None => Fits(entry)
  BY <1>0, AtWork DEF EndAppend, Local, Formed, showVars
<1>2. receipts \in Seq(Receipt) /\ events \in Seq(Event) /\ Len(receipts) \in Nat /\ Len(events) \in Nat
  BY DEF IInv, TypeOK
<1>3. CASE loose # None
  BY <1>1, <1>3 DEF EndAppend, Book!vars
<1>4. CASE loose = None /\ entry.kind = "receipt"
  <2>1. entry \in Receipt /\ entry.id = Len(receipts) + 1
    BY <1>1, <1>4 DEF Fits, Entry, Event
  <2>2. receipts' = Append(receipts, entry) /\ events' = events
    BY <1>0, <1>1, <1>4 DEF EndAppend, IsReceipt
  <2>3. Len(receipts') = Len(receipts) + 1 /\ receipts'[Len(receipts')] = entry
    BY <1>2, <2>1, <2>2
  <2>4. Book!FileReceipt
    BY <1>1, <2>1, <2>2, <2>3 DEF Book!FileReceipt, Book!Extends
  <2> QED BY <2>4 DEF Book!Next
<1>5. CASE loose = None /\ entry.kind # "receipt"
  <2>1. /\ entry \in Event /\ entry.seq = Len(events) + 1 /\ Known(receipts, entry.receipt)
        /\ entry.kind = "supersede" => Known(receipts, entry.old) /\ entry.old # entry.receipt
    BY <1>1, <1>5 DEF Fits, Entry, Receipt
  <2>2. events' = Append(events, entry) /\ receipts' = receipts
    BY <1>0, <1>1, <1>5 DEF EndAppend, IsReceipt
  <2>3. Len(events') = Len(events) + 1 /\ events'[Len(events')] = entry
    BY <1>2, <2>1, <2>2
  <2>4. Book!RecordEvent
    BY <1>1, <2>1, <2>2, <2>3 DEF Book!RecordEvent, Book!Extends, Book!Filed, Known
  <2> QED BY <2>4 DEF Book!Next
<1> QED BY <1>3, <1>4, <1>5

\* A command that reports success has put its entry where all can see it.
LEMMA ReportIsAnswer ==
    ASSUME IInv, NEW p \in Proc, Report(p)
    PROVE  Book!Next
<1>0. PICK entry : entry = run[p].entry
  OBVIOUS
<1>1. /\ entry \in Entry /\ Logged(entry) /\ Within(entry, index) /\ Within(entry, timeline)
      /\ answered' = answered \union {entry}
      /\ UNCHANGED <<receipts, events, index, timeline>>
  BY <1>0, AtWork DEF Report, Local, Formed, logVars, showVars
<1>2. entry \in Book!Shown(index) /\ entry \in Book!Shown(timeline)
  <2>1. CASE entry.kind = "receipt"
    <3>1. entry.id \in 1..index.receipts /\ entry.id \in 1..timeline.receipts /\ receipts[entry.id] = entry
      BY <1>1, <2>1, Numbers DEF Logged, Within, IInv
    <3> QED BY <3>1 DEF Book!Shown
  <2>2. CASE entry.kind # "receipt"
    <3>1. entry.seq \in 1..index.events /\ entry.seq \in 1..timeline.events /\ events[entry.seq] = entry
      BY <1>1, <2>2, Numbers DEF Logged, Within, IInv
    <3> QED BY <3>1 DEF Book!Shown
  <2> QED BY <2>1, <2>2
<1>3. Book!Answer
  BY <1>1, <1>2 DEF Book!Answer
<1> QED BY <1>3 DEF Book!Next

\* Ledger implements ArchiveBook: entries are numbered without gaps and refer
\* to earlier ones, nothing that was filed or shown is lost, and success is
\* reported for what the index and the timeline show (append_locked, project,
\* and the order of the command's steps).
THEOREM Implements == Spec => BookSpec
<1> USE DEF headVars, logVars, showVars, outside, graphVars, counterVars
<1>1. Init => Book!Init
  BY DEF Init, Book!Init, Counts, Book!Counts
<1>2. IInv /\ [Next]_vars => [Book!Next]_Book!vars
  <2>1. SUFFICES ASSUME IInv, [Next]_vars PROVE Book!Next \/ UNCHANGED Book!vars
    OBVIOUS
  <2>2. CASE UNCHANGED <<receipts, events, index, timeline, answered>>
    BY <2>2 DEF Book!vars
  <2>3. ASSUME NEW p \in Proc, ProjectIndex(p) PROVE Book!Next \/ UNCHANGED Book!vars
    <3>1. CASE index' = Counts
      BY <2>3, <3>1 DEF ProjectIndex, Book!Next, Book!UpdateIndex, Counts, Book!Counts
    <3>2. CASE UNCHANGED index
      BY <2>3, <3>2 DEF ProjectIndex, Book!vars
    <3> QED BY <2>3, <3>1, <3>2 DEF ProjectIndex, Projection
  <2>4. ASSUME NEW p \in Proc, ProjectTimeline(p) PROVE Book!Next \/ UNCHANGED Book!vars
    <3>1. CASE timeline' = Counts
      BY <2>4, <3>1 DEF ProjectTimeline, Book!Next, Book!UpdateTimeline, Counts, Book!Counts
    <3>2. CASE UNCHANGED timeline
      BY <2>4, <3>2 DEF ProjectTimeline, Book!vars
    <3> QED BY <2>4, <3>1, <3>2 DEF ProjectTimeline, Projection
  <2>5. ASSUME NEW p \in Proc, Start(p) \/ Peek(p) \/ OpenExisting(p) \/ CreateManifest(p)
                             \/ WriteManifest(p) \/ CreateLog(p)
        PROVE  UNCHANGED <<receipts, events, index, timeline, answered>>
    BY <2>5 DEF Start, Peek, OpenExisting, CreateManifest, WriteManifest, CreateLog
  <2>6. ASSUME NEW p \in Proc, ReadForAdd(p) \/ ReadForEvent(p) \/ BeginAppend(p) \/ ReadAgain(p)
                             \/ OpenJournal(p) \/ Mirror(p)
        PROVE  UNCHANGED <<receipts, events, index, timeline, answered>>
    BY <2>6 DEF ReadForAdd, ReadForEvent, BeginAppend, ReadAgain, OpenJournal, Mirror
  <2>7. ASSUME NEW p \in Proc, ReadForCheck(p) \/ CheckNext(p) \/ CheckDone(p) \/ Die(p)
        PROVE  UNCHANGED <<receipts, events, index, timeline, answered>>
    BY <2>7 DEF ReadForCheck, CheckNext, CheckDone, Die
  <2>8. Edit \/ UNCHANGED vars => UNCHANGED <<receipts, events, index, timeline, answered>>
    BY DEF Edit, vars
  <2> QED
    BY <2>1, <2>2, <2>3, <2>4, <2>5, <2>6, <2>7, <2>8, AppendIsFiling, ReportIsAnswer DEF Next, Step
<1> QED BY <1>1, <1>2, Invariance, PTL DEF Spec, BookSpec, Book!Spec

-----------------------------------------------------------------------------
(***************************************************************************)
(* While no command has died, whatever is incomplete is being completed by *)
(* the one that holds the lock.                                            *)
(***************************************************************************)
At(pcs) == \E p \in Proc : run[p].pc \in pcs

Completed ==
    /\ loose = None /\ stale = {}
    /\ torn => At({"write"})
    /\ manifest = "torn" => At({"manifest"})
    /\ manifest = "whole" /\ ~created => At({"events"})
    /\ index # Counts => At({"index"})
    /\ timeline # Counts => At({"index", "timeline"})

Orderly == faults = 0 => Completed

\* Those who do not hold the lock disturb nothing of this,
LEMMA OutsideOrderly ==
    ASSUME IInv, Orderly, NEW p \in Proc, run[p].pc \notin Locked, \E s \in State : Moves(p, s),
           UNCHANGED <<manifest, created, logVars, showVars, faults>>
    PROVE  Orderly'
<1>1. \A q \in Proc : run[q].pc \in Locked => run'[q] = run[q]
  BY DEF Moves, IInv, TypeOK
<1>2. ASSUME NEW pcs \in SUBSET Locked PROVE At(pcs) => At(pcs)'
  BY <1>1, <1>2 DEF At
<1>3. /\ {"write"} \in SUBSET Locked /\ {"manifest"} \in SUBSET Locked /\ {"events"} \in SUBSET Locked
      /\ {"index"} \in SUBSET Locked /\ {"index", "timeline"} \in SUBSET Locked
  BY DEF Locked
<1>4. /\ At({"write"}) => At({"write"})'
      /\ At({"manifest"}) => At({"manifest"})'
      /\ At({"events"}) => At({"events"})'
      /\ At({"index"}) => At({"index"})'
      /\ At({"index", "timeline"}) => At({"index", "timeline"})'
  BY <1>2, <1>3
<1> QED BY <1>4 DEF Orderly, Completed, Counts, logVars, showVars

\* and the holder of the lock is the only one that can be completing anything.
LEMMA HolderOrderly ==
    ASSUME IInv, NEW p \in Proc, run[p].pc \in Locked, NEW pcs \in SUBSET Locked, At(pcs)
    PROVE  run[p].pc \in pcs
  BY DEF At, IInv, Mutex

\* A command that goes on to a step is at it.
LEMMA GotoAt ==
    ASSUME IInv, NEW p \in Proc, NEW s, Goto(p, s), NEW pcs, s.pc \in pcs
    PROVE  At(pcs)'
  BY DEF Goto, At, IInv, TypeOK

LEMMA LockedOrderly ==
    ASSUME IInv, Orderly, NEW p \in Proc, faults' = 0, faults = 0,
           \/ WriteManifest(p) \/ CreateLog(p) \/ EndAppend(p)
           \/ ProjectIndex(p) \/ ProjectTimeline(p)
    PROVE  Completed'
<1> USE DEF logVars, showVars, Counts
<1>0. run[p].pc \in Locked /\ Completed
  BY DEF WriteManifest, CreateLog, EndAppend, ProjectIndex, ProjectTimeline, Locked, Orderly
<1>1. /\ At({"write"}) => run[p].pc = "write"
      /\ At({"manifest"}) => run[p].pc = "manifest"
      /\ At({"events"}) => run[p].pc = "events"
      /\ At({"index"}) => run[p].pc = "index"
      /\ At({"index", "timeline"}) => run[p].pc \in {"index", "timeline"}
  <2>1. /\ {"write"} \in SUBSET Locked /\ {"manifest"} \in SUBSET Locked /\ {"events"} \in SUBSET Locked
        /\ {"index"} \in SUBSET Locked /\ {"index", "timeline"} \in SUBSET Locked
    BY DEF Locked
  <2> QED BY <1>0, <2>1, HolderOrderly
<1>2. CASE WriteManifest(p)
  <2>1. PICK s : s = [run[p] EXCEPT !.pc = "events"]
    OBVIOUS
  <2>2. s.pc = "events"
    BY <2>1, AtWork DEF State
  <2>3. At({"events"})'
    BY <1>2, <2>1, <2>2, GotoAt DEF WriteManifest
  <2> QED BY <1>0, <1>1, <1>2, <2>3 DEF WriteManifest, Completed
<1>3. CASE CreateLog(p)
  <2>1. PICK s : s = [run[p] EXCEPT !.pc = "index"]
    OBVIOUS
  <2>2. s.pc = "index"
    BY <2>1, AtWork DEF State
  <2>3. At({"index"})' /\ At({"index", "timeline"})'
    BY <1>3, <2>1, <2>2, GotoAt DEF CreateLog
  <2> QED BY <1>0, <1>1, <1>3, <2>3 DEF CreateLog, Completed
<1>4. CASE EndAppend(p)
  <2>1. PICK s : s = [run[p] EXCEPT !.pc = "index"]
    OBVIOUS
  <2>2. s.pc = "index"
    BY <2>1, AtWork DEF State
  <2>3. At({"index"})' /\ At({"index", "timeline"})'
    BY <1>0, <1>4, <2>1, <2>2, GotoAt DEF EndAppend, Completed
  <2> QED BY <1>0, <1>1, <1>4, <2>3 DEF EndAppend, Completed, headVars
<1>5. CASE ProjectIndex(p)
  <2>1. PICK s : s = [run[p] EXCEPT !.pc = "timeline"]
    OBVIOUS
  <2>2. s.pc = "timeline"
    BY <2>1, AtWork DEF State
  <2>3. index' = Counts /\ Goto(p, s)
    BY <1>0, <1>5, <2>1 DEF ProjectIndex, Projection, Completed
  <2>4. At({"index", "timeline"})'
    BY <2>2, <2>3, GotoAt
  <2> QED BY <1>0, <1>1, <1>5, <2>3, <2>4 DEF ProjectIndex, Completed, headVars
<1>6. CASE ProjectTimeline(p)
  <2>1. timeline' = Counts
    BY <1>0, <1>6 DEF ProjectTimeline, Projection, Completed
  <2> QED BY <1>0, <1>1, <1>6, <2>1 DEF ProjectTimeline, Completed, headVars
<1> QED BY <1>2, <1>3, <1>4, <1>5, <1>6

\* As long as no command dies, no order of commands leaves a half made ledger
\* behind: one whose lock is free can be read and is shown completely.
THEOREM WholeLedger == Spec => []WholeWhenFree
<1> USE DEF headVars, logVars, showVars, outside, graphVars, counterVars
<1>1. Init => Orderly
  BY DEF Init, Orderly, Completed, Counts
<1>2. IInv /\ Orderly /\ [Next]_vars => Orderly'
  <2>1. SUFFICES ASSUME IInv, Orderly, [Next]_vars PROVE Orderly'
    OBVIOUS
  <2>2. ASSUME NEW p \in Proc, Start(p) \/ Peek(p) \/ OpenExisting(p) PROVE Orderly'
    <3>1. run[p].pc \notin Locked /\ UNCHANGED <<manifest, created, logVars, showVars, faults>>
      BY <2>2 DEF Start, Peek, OpenExisting, Locked
    <3>2. \E s \in State : Moves(p, s)
      BY <2>1, <2>2, StartMoves, PeekMoves, OpenExistingMoves
    <3> QED BY <2>1, <3>1, <3>2, OutsideOrderly
  <2>3. ASSUME NEW p \in Proc, ReadForAdd(p) \/ ReadForEvent(p) \/ ReadAgain(p) PROVE Orderly'
    <3>1. run[p].pc \notin Locked /\ UNCHANGED <<manifest, created, logVars, showVars, faults>>
      BY <2>3 DEF ReadForAdd, ReadForEvent, ReadAgain, Locked
    <3>2. \E s \in State : Moves(p, s)
      BY <2>1, <2>3, ReadForAddMoves, ReadForEventMoves, ReadAgainMoves
    <3> QED BY <2>1, <3>1, <3>2, OutsideOrderly
  <2>4. ASSUME NEW p \in Proc, OpenJournal(p) \/ Mirror(p) \/ Report(p) PROVE Orderly'
    <3>1. run[p].pc \notin Locked /\ UNCHANGED <<manifest, created, logVars, showVars, faults>>
      BY <2>4 DEF OpenJournal, Mirror, Report, Locked
    <3>2. \E s \in State : Moves(p, s)
      BY <2>1, <2>4, MirrorMoves
    <3> QED BY <2>1, <3>1, <3>2, OutsideOrderly
  <2>5. ASSUME NEW p \in Proc, ReadForCheck(p) \/ CheckNext(p) \/ CheckDone(p) PROVE Orderly'
    <3>1. run[p].pc \notin Locked /\ UNCHANGED <<manifest, created, logVars, showVars, faults>>
      BY <2>5 DEF ReadForCheck, CheckNext, CheckDone, Locked
    <3>2. \E s \in State : Moves(p, s)
      BY <2>1, <2>5, CheckMoves
    <3> QED BY <2>1, <3>1, <3>2, OutsideOrderly
  <2>6. ASSUME NEW p \in Proc, CreateManifest(p) PROVE Orderly'
    <3>1. PICK s : s = [run[p] EXCEPT !.pc = "manifest"]
      OBVIOUS
    <3>2. s.pc = "manifest" /\ Goto(p, s) /\ Free
      BY <2>1, <2>6, <3>1, AtWork DEF CreateManifest, State
    <3>3. At({"manifest"})'
      BY <2>1, <3>2, GotoAt
    <3>4. ASSUME NEW pcs \in SUBSET Locked PROVE ~At(pcs)
      BY <3>2, <3>4 DEF Free, At
    <3>5. ~At({"write"}) /\ ~At({"events"}) /\ ~At({"index"}) /\ ~At({"index", "timeline"})
      BY <3>4 DEF Locked
    <3> QED BY <2>1, <2>6, <3>3, <3>5 DEF CreateManifest, Orderly, Completed, Counts
  <2>7. ASSUME NEW p \in Proc, BeginAppend(p) PROVE Orderly'
    <3>1. run[p].pc \notin Locked /\ UNCHANGED <<manifest, created, loose, receipts, events, showVars, faults>>
      BY <2>7 DEF BeginAppend, Locked
    <3>2. CASE UNCHANGED torn
      <4>1. \E s \in State : Moves(p, s)
        BY <2>1, <2>7, BeginAppendMoves
      <4> QED BY <2>1, <3>1, <3>2, <4>1, OutsideOrderly
    <3>3. CASE /\ torn' = TRUE
               /\ Goto(p, [run[p] EXCEPT !.pc = "write",
                             !.entry = IF run[p].cmd.op = "add" THEN NewReceipt(p) ELSE NewEvent(p)])
      <4>1. PICK s : s = [run[p] EXCEPT !.pc = "write",
                             !.entry = IF run[p].cmd.op = "add" THEN NewReceipt(p) ELSE NewEvent(p)]
        OBVIOUS
      <4>2. s.pc = "write" /\ Goto(p, s)
        BY <2>1, <3>3, <4>1, AtWork DEF State
      <4>3. At({"write"})'
        BY <2>1, <4>2, GotoAt
      <4>4. ASSUME NEW pcs \in SUBSET Locked PROVE ~At(pcs)
        BY <2>7, <4>4 DEF BeginAppend, Free, At
      <4>5. ~At({"manifest"}) /\ ~At({"events"}) /\ ~At({"index"}) /\ ~At({"index", "timeline"})
        BY <4>4 DEF Locked
      <4> QED BY <2>1, <3>1, <4>3, <4>5 DEF Orderly, Completed, Counts
    <3> QED BY <2>7, <3>2, <3>3 DEF BeginAppend
  <2>8. ASSUME NEW p \in Proc, \/ WriteManifest(p) \/ CreateLog(p) \/ EndAppend(p)
                               \/ ProjectIndex(p) \/ ProjectTimeline(p)
        PROVE  Orderly'
    <3>1. UNCHANGED faults
      BY <2>8 DEF WriteManifest, CreateLog, EndAppend, ProjectIndex, ProjectTimeline
    <3> QED BY <2>1, <2>8, <3>1, LockedOrderly DEF Orderly
  <2>9. ASSUME NEW p \in Proc, Die(p) PROVE Orderly'
    <3>1. faults' # 0
      BY <2>1, <2>9, CommandAssumption DEF Die, IInv, TypeOK
    <3> QED BY <3>1 DEF Orderly
  <2>10. CASE Edit \/ UNCHANGED vars
    BY <2>1, <2>10 DEF Edit, vars, Orderly, Completed, Counts, At
  <2> QED BY <2>1, <2>2, <2>3, <2>4, <2>5, <2>6, <2>7, <2>8, <2>9, <2>10 DEF Next, Step
<1>3. IInv /\ Orderly => WholeWhenFree
  BY DEF IInv, TypeOK, Orderly, Completed, WholeWhenFree, Readable, Free, At, Locked
<1> QED BY <1>1, <1>2, <1>3, Invariance, PTL DEF Spec

-----------------------------------------------------------------------------
(***************************************************************************)
(* Who owns the receipts and where their files are: what the checks of add *)
(* and event let into the log stays true of it.                            *)
(***************************************************************************)
Right(e) ==
    /\ manifest = "whole"
    /\ e.kind \in {"receipt", "reclassify"} /\ e.relation = "belongs_to" => e.owner = project
    /\ e.kind = "receipt" /\ e.path \in Downloads => e.stage = "intake"
    /\ e.kind = "relocate" /\ e.path \in Downloads => receipts[e.receipt].stage = "intake"

Entitled(s) ==
    /\ s.pc \in {"open", "manifest"} => s.project # None
    /\ s.pc = "manifest" => manifest = "torn"
    /\ s.pc = "append" /\ s.cmd.op = "add" =>
          /\ manifest = "whole"
          /\ s.cmd.relation = "belongs_to" => s.cmd.owner = project
          /\ s.cmd.path \in Downloads => s.cmd.stage = "intake"
    /\ s.pc = "write" /\ loose = None => Right(s.entry)

Rightful ==
    /\ manifest = "whole" => project # None
    /\ \A i \in 1..Len(receipts) : Right(receipts[i])
    /\ \A i \in 1..Len(events) : Right(events[i])
    /\ \A p \in Proc : Entitled(run[p])

\* Steps at which a command is entitled to nothing.
Humble == {"idle", "peek", "events", "read", "index", "timeline", "reread", "journal", "mirror", "hash"}

LEMMA StillRightful ==
    ASSUME IInv, Rightful, NEW p \in Proc, NEW s, run' = [run EXCEPT ![p] = s], Entitled(s),
           UNCHANGED <<manifest, project, receipts, events, loose>>
    PROVE  Rightful'
<1>1. ASSUME NEW q \in Proc PROVE Entitled(run[q])'
  <2>1. run'[q] = s \/ run'[q] = run[q]
    BY DEF IInv, TypeOK
  <2>2. Entitled(run'[q])
    BY <2>1 DEF Rightful
  <2> QED BY <2>2 DEF Entitled, Right
<1> QED BY <1>1 DEF Rightful, Right

LEMMA HumbleRightful ==
    ASSUME IInv, Rightful, NEW p \in Proc, NEW s, run' = [run EXCEPT ![p] = s], s.pc \in Humble,
           UNCHANGED <<manifest, project, receipts, events, loose>>
    PROVE  Rightful'
<1>1. Entitled(s)
  BY DEF Entitled, Humble
<1> QED BY <1>1, StillRightful

\* The commands that fail, end or are idle.
LEMMA EndsRightful ==
    ASSUME IInv, Rightful, NEW p \in Proc, Fail(p) \/ Return(p) \/ Goto(p, Idle),
           UNCHANGED <<manifest, project, receipts, events, loose>>
    PROVE  Rightful'
<1>1. run' = [run EXCEPT ![p] = Idle] /\ Idle.pc \in Humble
  BY DEF Fail, Return, Goto, Idle, Humble
<1>2. PICK s : s = Idle
  OBVIOUS
<1> QED BY <1>1, <1>2, HumbleRightful

\* Opening: a command names the project of the ledger it makes.
LEMMA OpeningRightful ==
    ASSUME IInv, Rightful, NEW p \in Proc, Start(p) \/ Peek(p) \/ OpenExisting(p) \/ CreateLog(p)
    PROVE  Rightful'
<1> USE DEF headVars, logVars
<1>1. CASE Start(p)
  <2>1. PICK c \in Commands :
           Goto(p, [Idle EXCEPT !.pc = IF c.op = "add" THEN "peek" ELSE "open",
                                !.cmd = c, !.project = c.project])
    BY <1>1 DEF Start
  <2>2. PICK s : s = [Idle EXCEPT !.pc = IF c.op = "add" THEN "peek" ELSE "open",
                                  !.cmd = c, !.project = c.project]
    OBVIOUS
  <2>3. s.pc = (IF c.op = "add" THEN "peek" ELSE "open") /\ s.project = c.project
    BY <2>2 DEF Idle
  <2>4. Entitled(s)
    BY <2>3, CommandAssumption DEF Entitled
  <2> QED BY <1>1, <2>1, <2>2, <2>4, StillRightful DEF Start, Goto
<1>2. CASE Peek(p)
  <2> DEFINE id == IF manifest = "whole" THEN project
                   ELSE IF run[p].cmd.project # None THEN run[p].cmd.project ELSE run[p].cmd.owner
  <2>1. CASE Fail(p)
    BY <1>2, <2>1, EndsRightful DEF Peek
  <2>2. CASE Goto(p, [run[p] EXCEPT !.pc = "open", !.project = id])
    <3>1. PICK s : s = [run[p] EXCEPT !.pc = "open", !.project = id]
      OBVIOUS
    <3>2. id # None
      <4>1. run[p].cmd \in Commands /\ run[p].pc = "peek"
        BY <1>2, AtWork DEF Peek
      <4>2. run[p].cmd.project # None \/ run[p].cmd.owner # None
        BY <4>1, CommandAssumption
      <4> QED BY <4>2 DEF Rightful
    <3>3. s.pc = "open" /\ s.project = id
      BY <3>1, AtWork DEF State
    <3>4. Entitled(s)
      BY <3>2, <3>3 DEF Entitled
    <3> QED BY <1>2, <2>2, <3>1, <3>4, StillRightful DEF Peek, Goto
  <2> QED BY <1>2, <2>1, <2>2 DEF Peek
<1>3. CASE OpenExisting(p)
  <2>1. CASE Fail(p) \/ Goto(p, Idle)
    BY <1>3, <2>1, EndsRightful DEF OpenExisting
  <2>2. CASE Goto(p, [run[p] EXCEPT !.pc = "read"])
    <3>1. PICK s : s = [run[p] EXCEPT !.pc = "read"]
      OBVIOUS
    <3>2. s.pc \in Humble
      BY <3>1, AtWork DEF State, Humble
    <3> QED BY <1>3, <2>2, <3>1, <3>2, HumbleRightful DEF OpenExisting, Goto
  <2> QED BY <1>3, <2>1, <2>2 DEF OpenExisting, Opened
<1>4. CASE CreateLog(p)
  <2>1. PICK s : s = [run[p] EXCEPT !.pc = "index"]
    OBVIOUS
  <2>2. s.pc \in Humble
    BY <2>1, AtWork DEF State, Humble
  <2> QED BY <1>4, <2>1, <2>2, HumbleRightful DEF CreateLog, Goto
<1> QED BY <1>1, <1>2, <1>3, <1>4

\* While there is no manifest the log is empty and nobody appends to it.
LEMMA ManifestRightful ==
    ASSUME IInv, Rightful, NEW p \in Proc, CreateManifest(p) \/ WriteManifest(p)
    PROVE  Rightful'
<1> USE DEF headVars, logVars
<1>1. manifest # "whole"
  BY AtWork DEF CreateManifest, WriteManifest, Rightful, Entitled
<1>2. /\ \A i \in 1..Len(receipts) : FALSE
      /\ \A i \in 1..Len(events) : FALSE
  BY <1>1 DEF Rightful, Right
<1>3. PICK s : run' = [run EXCEPT ![p] = s] /\ s = [run[p] EXCEPT !.pc = IF CreateManifest(p) THEN "manifest" ELSE "events"]
  BY DEF CreateManifest, WriteManifest, Goto
<1>4. s.project = run[p].project /\ s.pc = IF CreateManifest(p) THEN "manifest" ELSE "events"
  BY <1>3, AtWork DEF State
<1>5. run[p].project # None
  BY DEF CreateManifest, WriteManifest, Rightful, Entitled
<1>6. manifest' = (IF CreateManifest(p) THEN "torn" ELSE "whole") /\ UNCHANGED <<receipts, events, loose>>
  BY DEF CreateManifest, WriteManifest
<1>7. ASSUME NEW q \in Proc PROVE Entitled(run[q])'
  <2>1. CASE q = p
    <3>1. run'[q] = s
      BY <1>3, <2>1 DEF IInv, TypeOK
    <3> QED BY <1>4, <1>5, <1>6, <3>1 DEF Entitled
  <2>2. CASE q # p
    <3>1. run'[q] = run[q]
      BY <1>3, <2>2 DEF IInv, TypeOK
    <3>2. run[q].pc # "write" \/ loose # None
      BY <1>1 DEF Rightful, Entitled, Right
    <3>3. ~(run[q].pc = "append" /\ run[q].cmd.op = "add")
      BY <1>1 DEF Rightful, Entitled
    <3>4. run[q].pc # "manifest"
      BY <2>2, HoldsAlone DEF CreateManifest, WriteManifest, Free, Locked
    <3>5. run[q].pc = "open" => run[q].project # None
      BY DEF Rightful, Entitled
    <3> QED BY <1>6, <3>1, <3>2, <3>3, <3>4, <3>5 DEF Entitled
  <2> QED BY <2>1, <2>2
<1>8. (manifest = "whole" => project # None)'
  BY <1>5, <1>6 DEF CreateManifest, WriteManifest
<1> QED BY <1>2, <1>6, <1>7, <1>8 DEF Rightful

\* Reading before the lock.
LEMMA ReadingRightful ==
    ASSUME IInv, Rightful, NEW p \in Proc, ReadForAdd(p) \/ ReadForEvent(p)
    PROVE  Rightful'
<1> USE DEF headVars, logVars
<1>1. CASE Fail(p)
  BY <1>1, EndsRightful DEF ReadForAdd, ReadForEvent
<1>2. CASE ReadForAdd(p) /\ ~Fail(p)
  <2>1. PICK s : s = [run[p] EXCEPT !.pc = "append", !.sha = files[run[p].cmd.path]]
    OBVIOUS
  <2>2. s.cmd = run[p].cmd /\ s.pc = "append"
    BY <2>1, AtWork DEF State
  <2>3. Entitled(s)
    BY <1>2, <2>2 DEF ReadForAdd, Entitled, Readable
  <2> QED BY <1>2, <2>1, <2>3, StillRightful DEF ReadForAdd, Goto
<1>3. CASE ReadForEvent(p) /\ ~Fail(p)
  <2>1. PICK s : s = [run[p] EXCEPT !.pc = "append",
                        !.before = Effective(ReadReceipts, ReadEvents, run[p].cmd.receipt)]
    OBVIOUS
  <2>2. s.cmd = run[p].cmd /\ s.pc = "append"
    BY <2>1, AtWork DEF State
  <2>3. Entitled(s)
    BY <1>3, <2>2 DEF ReadForEvent, Entitled
  <2> QED BY <1>3, <2>1, <2>3, StillRightful DEF ReadForEvent, Goto
<1> QED BY <1>1, <1>2, <1>3

\* Under the lock: what is accepted is right.
LEMMA AcceptedIsRight ==
    ASSUME IInv, Rightful, NEW p \in Proc, run[p].pc = "append", Readable, loose = None,
           Accepted(ReadReceipts, run[p].cmd)
    PROVE  Right(IF run[p].cmd.op = "add" THEN NewReceipt(p) ELSE NewEvent(p))
<1>1. ReadReceipts = receipts /\ manifest = "whole"
  BY ReadTypes DEF IInv, Readable
<1>2. CASE run[p].cmd.op = "add"
  <2>1. /\ run[p].cmd.relation = "belongs_to" => run[p].cmd.owner = project
        /\ run[p].cmd.path \in Downloads => run[p].cmd.stage = "intake"
    BY <1>2 DEF Rightful, Entitled
  <2>2. /\ NewReceipt(p).kind = "receipt" /\ NewReceipt(p).relation = run[p].cmd.relation
        /\ NewReceipt(p).owner = run[p].cmd.owner
        /\ NewReceipt(p).path = run[p].cmd.path /\ NewReceipt(p).stage = run[p].cmd.stage
    BY DEF NewReceipt
  <2> QED BY <1>1, <1>2, <2>1, <2>2 DEF Right
<1>3. CASE run[p].cmd.op # "add"
  <2>1. /\ NewEvent(p).kind = run[p].cmd.op /\ NewEvent(p).relation = run[p].cmd.relation
        /\ NewEvent(p).receipt = run[p].cmd.receipt
        /\ run[p].cmd.op = "reclassify" => NewEvent(p).owner = run[p].cmd.owner
        /\ run[p].cmd.op = "relocate" => NewEvent(p).path = run[p].cmd.path
    BY DEF NewEvent
  <2>2. run[p].cmd.op = "reclassify" /\ run[p].cmd.relation = "belongs_to" => run[p].cmd.owner = project
    BY <1>3 DEF Accepted, AcceptReclassify
  <2>3. run[p].cmd.op = "relocate" /\ run[p].cmd.path \in Downloads =>
           receipts[run[p].cmd.receipt].stage = "intake"
    BY <1>1, <1>3 DEF Accepted, AcceptRelocate
  <2>4. run[p].cmd.op # "receipt"
    BY <1>3 DEF Accepted
  <2> QED BY <1>1, <1>3, <2>1, <2>2, <2>3, <2>4 DEF Right
<1> QED BY <1>2, <1>3

LEMMA BeginAppendRightful ==
    ASSUME IInv, Rightful, NEW p \in Proc, BeginAppend(p)
    PROVE  Rightful'
<1> USE DEF headVars
<1> DEFINE entry == IF run[p].cmd.op = "add" THEN NewReceipt(p) ELSE NewEvent(p)
<1>1. CASE Fail(p)
  BY <1>1, EndsRightful DEF BeginAppend
<1>2. CASE ~Fail(p)
  <2>1. PICK s : s = [run[p] EXCEPT !.pc = "write", !.entry = entry]
    OBVIOUS
  <2>2. s.entry = entry /\ s.pc = "write"
    BY <2>1, AtWork DEF State
  <2>3. loose = None => Right(entry)
    BY <1>2, AcceptedIsRight DEF BeginAppend
  <2> HIDE DEF entry
  <2>4. Entitled(s)
    BY <2>2, <2>3 DEF Entitled
  <2>5. run' = [run EXCEPT ![p] = s]
    BY <1>2, <2>1 DEF BeginAppend, Goto, entry
  <2> QED BY <2>4, <2>5, StillRightful DEF BeginAppend
<1> QED BY <1>1, <1>2

\* What is right stays right when the log grows.
LEMMA EndAppendRightful ==
    ASSUME IInv, Rightful, NEW p \in Proc, EndAppend(p)
    PROVE  Rightful'
<1> USE DEF headVars
<1>0. PICK entry : entry = run[p].entry
  OBVIOUS
<1>1. /\ run[p].pc = "write" /\ run[p].pc \in Locked /\ entry # None /\ Formed(entry) /\ entry \in Entry
      /\ loose = None => Fits(entry) /\ Right(entry)
  BY <1>0, AtWork DEF EndAppend, Local, Locked, Formed, Rightful, Entitled
<1>2. /\ receipts \in Seq(Receipt) /\ events \in Seq(Event) /\ Len(receipts) \in Nat /\ Len(events) \in Nat
      /\ \A i \in 1..Len(events) : events[i].receipt \in 1..Len(receipts)
  BY DEF IInv, TypeOK, LogFormed, Known
<1>3. PICK s : run' = [run EXCEPT ![p] = s] /\ s.pc \in {"idle", "index"}
  <2>1. PICK t : t = [run[p] EXCEPT !.pc = "index"]
    OBVIOUS
  <2>2. t.pc = "index"
    BY <2>1, AtWork DEF State
  <2> QED BY <2>1, <2>2 DEF EndAppend, Fail, Goto, Idle
<1>4. /\ loose' = None /\ UNCHANGED <<manifest, project>>
      /\ \A q \in Proc : run'[q].pc # "write" /\ (run'[q] = run[q] \/ run'[q] = s)
  <2>1. ASSUME NEW q \in Proc PROVE run'[q].pc # "write" /\ (run'[q] = run[q] \/ run'[q] = s)
    <3>1. CASE q = p
      BY <1>3, <3>1 DEF IInv, TypeOK
    <3>2. CASE q # p
      BY <1>1, <1>3, <3>2, HoldsAlone DEF IInv, TypeOK, Locked
    <3> QED BY <3>1, <3>2
  <2> QED BY <2>1 DEF EndAppend
<1>5. \A q \in Proc : Entitled(run[q])'
  BY <1>3, <1>4 DEF Rightful, Entitled
<1>6. CASE loose # None
  <2>1. UNCHANGED <<receipts, events>>
    BY <1>6 DEF EndAppend
  <2> QED BY <1>4, <1>5, <2>1 DEF Rightful, Right
<1>7. CASE loose = None /\ entry.kind = "receipt"
  <2>1. entry \in Receipt /\ receipts' = Append(receipts, entry) /\ events' = events
    BY <1>0, <1>1, <1>7 DEF EndAppend, IsReceipt, Entry, Event
  <2>2. /\ Len(receipts') = Len(receipts) + 1 /\ receipts'[Len(receipts) + 1] = entry
        /\ \A i \in 1..Len(receipts) : receipts'[i] = receipts[i]
    BY <1>2, <2>1
  <2>3. ASSUME NEW i \in 1..Len(receipts') PROVE Right(receipts[i])'
    <3>1. CASE i = Len(receipts) + 1
      BY <1>1, <1>4, <1>7, <2>2, <3>1 DEF Right
    <3>2. CASE i # Len(receipts) + 1
      <4>1. i \in 1..Len(receipts)
        BY <1>2, <2>2, <3>2
      <4>2. receipts[i].kind = "receipt"
        <5>1. receipts[i] \in Receipt
          BY <1>2, <4>1
        <5> QED BY <5>1 DEF Receipt
      <4>3. Right(receipts[i]) /\ receipts'[i] = receipts[i]
        BY <2>2, <4>1 DEF Rightful
      <4> QED BY <1>4, <4>2, <4>3 DEF Right
    <3> QED BY <3>1, <3>2
  <2>4. ASSUME NEW i \in 1..Len(events') PROVE Right(events[i])'
    <3>1. Right(events[i]) /\ events'[i] = events[i] /\ receipts'[events[i].receipt] = receipts[events[i].receipt]
      BY <1>2, <2>1, <2>2 DEF Rightful
    <3> QED BY <1>4, <3>1 DEF Right
  <2> QED BY <1>4, <1>5, <2>3, <2>4 DEF Rightful
<1>8. CASE loose = None /\ entry.kind # "receipt"
  <2>1. entry \in Event /\ events' = Append(events, entry) /\ receipts' = receipts
    BY <1>0, <1>1, <1>8 DEF EndAppend, IsReceipt, Entry, Receipt
  <2>2. /\ Len(events') = Len(events) + 1 /\ events'[Len(events) + 1] = entry
        /\ \A i \in 1..Len(events) : events'[i] = events[i]
    BY <1>2, <2>1
  <2>3. ASSUME NEW i \in 1..Len(events') PROVE Right(events[i])'
    <3>1. CASE i = Len(events) + 1
      BY <1>1, <1>4, <1>8, <2>1, <2>2, <3>1 DEF Right
    <3>2. CASE i # Len(events) + 1
      <4>1. i \in 1..Len(events) /\ Right(events[i]) /\ events'[i] = events[i]
        BY <1>2, <2>2, <3>2 DEF Rightful
      <4> QED BY <1>4, <2>1, <4>1 DEF Right
    <3> QED BY <3>1, <3>2
  <2> QED BY <1>4, <1>5, <2>1, <2>3 DEF Rightful, Right
<1> QED BY <1>6, <1>7, <1>8

\* The remaining steps of a command.
LEMMA RestRightful ==
    ASSUME IInv, Rightful, NEW p \in Proc,
           \/ ProjectIndex(p) \/ ProjectTimeline(p) \/ ReadAgain(p) \/ OpenJournal(p) \/ Mirror(p)
           \/ Report(p) \/ ReadForCheck(p) \/ CheckNext(p) \/ CheckDone(p)
    PROVE  Rightful'
<1> USE DEF headVars, logVars
<1>1. UNCHANGED <<manifest, project, receipts, events, loose>>
  BY DEF ProjectIndex, ProjectTimeline, ReadAgain, OpenJournal, Mirror, Report, ReadForCheck,
         CheckNext, CheckDone
<1>2. CASE Fail(p) \/ Return(p)
  BY <1>1, <1>2, EndsRightful
<1>3. CASE ~(Fail(p) \/ Return(p))
  <2>1. PICK s : run' = [run EXCEPT ![p] = s] /\ s.pc \in Humble
    <3>1. CASE ProjectIndex(p)
      <4>1. PICK s : s = [run[p] EXCEPT !.pc = "timeline"]
        OBVIOUS
      <4>2. s.pc \in Humble
        BY <4>1, AtWork DEF State, Humble
      <4> QED BY <1>3, <3>1, <4>1, <4>2 DEF ProjectIndex, Goto
    <3>2. CASE ProjectTimeline(p)
      <4>1. PICK s : s = Projected(run[p])
        OBVIOUS
      <4>2. s.pc \in {"idle", "read", "journal", "reread"}
        BY <4>1, AtWork DEF Projected, Opened, Idle, State
      <4> QED BY <1>3, <3>2, <4>1, <4>2 DEF ProjectTimeline, Goto, Humble
    <3>3. CASE ReadAgain(p)
      <4>1. PICK s : s = [run[p] EXCEPT !.pc = "journal",
                            !.after = Effective(ReadReceipts, ReadEvents, run[p].cmd.receipt)]
        OBVIOUS
      <4>2. s.pc \in Humble
        BY <4>1, AtWork DEF State, Humble
      <4> QED BY <1>3, <3>3, <4>1, <4>2 DEF ReadAgain, Goto
    <3>4. CASE OpenJournal(p)
      <4>1. PICK archive, s : s = [run[p] EXCEPT !.pc = "mirror", !.archive = archive] /\ Goto(p, s)
        BY <3>4 DEF OpenJournal
      <4>2. s.pc \in Humble
        BY <4>1, AtWork DEF State, Humble
      <4> QED BY <4>1, <4>2 DEF Goto
    <3>5. CASE Mirror(p)
      <4>1. PICK s : s = [run[p] EXCEPT !.done = @ + 1]
        OBVIOUS
      <4>2. s.pc \in Humble
        BY <3>5, <4>1, AtWork DEF Mirror, State, Humble
      <4> QED BY <1>3, <3>5, <4>1, <4>2 DEF Mirror, Goto
    <3>6. CASE ReadForCheck(p)
      <4>1. PICK s : s = [run[p] EXCEPT !.pc = "hash", !.rs = ReadReceipts, !.es = ReadEvents]
        OBVIOUS
      <4>2. s.pc \in Humble
        BY <4>1, AtWork DEF State, Humble
      <4> QED BY <1>3, <3>6, <4>1, <4>2 DEF ReadForCheck, Goto
    <3>7. CASE CheckNext(p)
      <4>1. PICK missing, changed, s :
               s = [run[p] EXCEPT !.done = @ + 1, !.missing = missing, !.changed = changed] /\ Goto(p, s)
        BY <3>7 DEF CheckNext
      <4>2. s.pc \in Humble
        BY <3>7, <4>1, AtWork DEF CheckNext, State, Humble
      <4> QED BY <4>1, <4>2 DEF Goto
    <3> QED BY <1>3, <3>1, <3>2, <3>3, <3>4, <3>5, <3>6, <3>7 DEF Report, CheckDone
  <2> QED BY <1>1, <2>1, HumbleRightful
<1> QED BY <1>2, <1>3

\* A command that dies in the middle of a line was the only one to write.
LEMMA DieRightful ==
    ASSUME IInv, Rightful, NEW p \in Proc, Die(p)
    PROVE  Rightful'
<1> USE DEF headVars
<1>1. CASE UNCHANGED loose
  BY <1>1, EndsRightful DEF Die
<1>2. CASE CutLine(p)
  <2>1. /\ run' = [run EXCEPT ![p] = Idle] /\ run[p].pc = "write" /\ run[p].pc \in Locked
        /\ UNCHANGED <<manifest, project, receipts, events>>
    BY <1>2 DEF Die, CutLine, Fail, Locked
  <2>2. ASSUME NEW q \in Proc PROVE Entitled(run[q])'
    <3>1. CASE q = p
      <4>1. run'[q].pc = "idle"
        BY <2>1, <3>1 DEF IInv, TypeOK, Idle
      <4> QED BY <4>1 DEF Entitled
    <3>2. CASE q # p
      <4>1. run'[q] = run[q] /\ run[q].pc # "write"
        BY <2>1, <3>2, HoldsAlone DEF IInv, TypeOK, Locked
      <4> QED BY <2>1, <4>1 DEF Rightful, Entitled
    <3> QED BY <3>1, <3>2
  <2> QED BY <2>1, <2>2 DEF Rightful, Right
<1> QED BY <1>1, <1>2 DEF Die, KeepTemporary, JustStop

LEMMA AlwaysRightful == Spec => []Rightful
<1> USE DEF headVars, logVars
<1>1. Init => Rightful
  <2>1. SUFFICES ASSUME Init PROVE Rightful
    OBVIOUS
  <2>2. manifest = "none" /\ Len(receipts) = 0 /\ Len(events) = 0
    BY <2>1 DEF Init
  <2>3. \A p \in Proc : run[p].pc = "idle"
    BY <2>1 DEF Init, Idle
  <2> QED BY <2>2, <2>3 DEF Rightful, Entitled
<1>2. IInv /\ Rightful /\ [Next]_vars => Rightful'
  <2>1. SUFFICES ASSUME IInv, Rightful, [Next]_vars PROVE Rightful'
    OBVIOUS
  <2>2. CASE Edit \/ UNCHANGED vars
    <3>1. UNCHANGED <<manifest, project, receipts, events, loose, run>>
      BY <2>2 DEF Edit, vars
    <3> QED BY <2>1, <3>1 DEF Rightful, Right, Entitled
  <2> QED
    BY <2>1, <2>2, OpeningRightful, ManifestRightful, ReadingRightful, BeginAppendRightful,
       EndAppendRightful, RestRightful, DieRightful DEF Next, Step
<1> QED BY <1>1, <1>2, Invariance, PTL DEF Spec

\* Whatever commands overlap and die, a receipt that the events leave a member
\* belongs to the project of the archive: the last reclassification to speak
\* of belonging has named that project, so it is the last to name an owner.
THEOREM MembersOwned == Spec => []MembersAreOwned
<1>1. IInv /\ Rightful => MembersAreOwned
  <2>1. SUFFICES ASSUME IInv, Rightful, NEW n \in DOMAIN receipts,
                        Effective(receipts, events, n).relation = "belongs_to"
                 PROVE  Effective(receipts, events, n).owner = project
    BY DEF MembersAreOwned
  <2>2. /\ receipts \in Seq(Receipt) /\ events \in Seq(Event) /\ n \in 1..Len(receipts) /\ Len(events) \in Nat
    BY <2>1 DEF IInv, TypeOK
  <2>3. receipts[n] \in Receipt /\ Right(receipts[n])
    BY <2>1, <2>2 DEF Rightful
  <2>4. /\ About(events, n, "reclassify") \in SUBSET (1..Len(events))
        /\ Owning(events, n) \in SUBSET (1..Len(events))
        /\ Owning(events, n) \subseteq About(events, n, "reclassify")
    BY <2>2, AboutIsLogged
  <2>5. CASE About(events, n, "reclassify") = {}
    <3>1. Owning(events, n) = {}
      BY <2>4, <2>5
    <3>2. receipts[n].relation = "belongs_to" /\ Effective(receipts, events, n).owner = receipts[n].owner
      BY <2>1, <2>5, <3>1 DEF Effective
    <3> QED BY <2>3, <3>2 DEF Right, Receipt
  <2>6. CASE About(events, n, "reclassify") # {}
    <3>1. PICK l : l = Latest(About(events, n, "reclassify"))
      OBVIOUS
    <3>2. l \in About(events, n, "reclassify") /\ \A j \in About(events, n, "reclassify") : j <= l
      BY <2>2, <2>4, <2>6, <3>1, LatestIsLast, Zenon
    <3>3. l \in 1..Len(events) /\ events[l].kind = "reclassify" /\ events[l].receipt = n
      BY <2>4, <3>2 DEF About
    <3>4. events[l].relation = "belongs_to"
      BY <2>1, <2>6, <3>1 DEF Effective
    <3>5. events[l].owner = project /\ project # None
      BY <2>1, <3>3, <3>4 DEF Rightful, Right
    <3>6. l \in Owning(events, n)
      BY <3>2, <3>5 DEF Owning
    <3>7. /\ Latest(Owning(events, n)) \in Owning(events, n)
          /\ \A j \in Owning(events, n) : j <= Latest(Owning(events, n))
      BY <2>2, <2>4, <3>6, LatestIsLast
    <3>8. Latest(Owning(events, n)) = l
      <4>1. Latest(Owning(events, n)) <= l /\ l <= Latest(Owning(events, n))
        BY <2>4, <3>2, <3>6, <3>7
      <4>2. Latest(Owning(events, n)) \in Nat /\ l \in Nat
        BY <2>4, <3>3, <3>7
      <4> QED BY <4>1, <4>2
    <3>9. Effective(receipts, events, n).owner = events[l].owner
      BY <3>6, <3>8 DEF Effective
    <3> QED BY <3>5, <3>9
  <2> QED BY <2>5, <2>6
<1> QED BY <1>1, Invariance, AlwaysRightful, PTL

\* Nothing of a later stage comes to be in Downloads, by filing or by moving.
THEOREM DownloadsKept == Spec => []DownloadsIntakeOnly
<1>1. IInv /\ Rightful => DownloadsIntakeOnly
  <2>1. SUFFICES ASSUME IInv, Rightful, NEW n \in DOMAIN receipts,
                        Effective(receipts, events, n).path \in Downloads
                 PROVE  receipts[n].stage = "intake"
    BY DEF DownloadsIntakeOnly
  <2>2. /\ receipts \in Seq(Receipt) /\ events \in Seq(Event) /\ n \in 1..Len(receipts) /\ Len(events) \in Nat
    BY <2>1 DEF IInv, TypeOK
  <2>3. receipts[n] \in Receipt /\ Right(receipts[n])
    BY <2>1, <2>2 DEF Rightful
  <2>4. About(events, n, "relocate") \in SUBSET (1..Len(events))
    BY <2>2, AboutIsLogged
  <2>5. CASE About(events, n, "relocate") = {}
    <3>1. receipts[n].path \in Downloads
      BY <2>1, <2>5 DEF Effective
    <3> QED BY <2>3, <3>1 DEF Right, Receipt
  <2>6. CASE About(events, n, "relocate") # {}
    <3>1. PICK l : l = Latest(About(events, n, "relocate"))
      OBVIOUS
    <3>2. l \in About(events, n, "relocate")
      BY <2>2, <2>4, <2>6, <3>1, LatestIsLast, Zenon
    <3>3. l \in 1..Len(events) /\ events[l].kind = "relocate" /\ events[l].receipt = n
      BY <2>4, <3>2 DEF About
    <3>4. events[l].path \in Downloads
      BY <2>1, <2>6, <3>1 DEF Effective
    <3> QED BY <2>1, <3>3, <3>4 DEF Rightful, Right
  <2> QED BY <2>5, <2>6
<1> QED BY <1>1, Invariance, AlwaysRightful, PTL

-----------------------------------------------------------------------------
(***************************************************************************)
(* What a check finds.                                                     *)
(***************************************************************************)
Gone(s, n)   == ~Superseded(s.es, n) /\ files[Current(s.rs, s.es, n)] = None
Differs(s, n) == ~Superseded(s.es, n) /\ files[Current(s.rs, s.es, n)] \notin {None, s.rs[n].sha}

\* The files it has come to are judged as they are.
Examined ==
    \A p \in calm :
        /\ run[p].pc = "hash"
        /\ run[p].missing = {n \in 1..run[p].done : Gone(run[p], n)}
        /\ run[p].changed = {n \in 1..run[p].done : Differs(run[p], n)}

\* The steps of others,
LEMMA OthersExamined ==
    ASSUME IInv, Examined, NEW p \in Proc, run[p].pc # "hash", \E s \in State : Moves(p, s),
           UNCHANGED <<files, calm>>
    PROVE  Examined'
<1>1. \A q \in calm : q # p /\ run'[q] = run[q]
  BY DEF Examined, Moves, IInv, TypeOK
<1> QED BY <1>1 DEF Examined, Gone, Differs

\* the beginning of a check, and its end,
LEMMA BeginsExamined ==
    ASSUME IInv, Examined, NEW p \in Proc, ReadForCheck(p) \/ CheckDone(p) \/ Die(p)
    PROVE  Examined'
<1> USE DEF outside
<1>1. UNCHANGED files /\ calm \subseteq Proc
  BY DEF ReadForCheck, CheckDone, Die, IInv, TypeOK
<1>2. CASE Fail(p) \/ Return(p)
  <2>1. run' = [run EXCEPT ![p] = Idle]
    BY <1>2 DEF Fail, Return
  <2>2. p \notin calm'
    <3>1. ReadForCheck(p) => run[p].pc = "read"
      BY DEF ReadForCheck
    <3>2. p \in calm => run[p].pc = "hash"
      BY DEF Examined
    <3>3. CASE ReadForCheck(p) /\ UNCHANGED calm
      BY <3>1, <3>2, <3>3
    <3>4. CASE calm' = calm \ {p}
      BY <3>4
    <3>5. CASE ReadForCheck(p) /\ ~UNCHANGED calm
      <4>1. PICK s : s = [run[p] EXCEPT !.pc = "hash", !.rs = ReadReceipts, !.es = ReadEvents]
        OBVIOUS
      <4>2. s.pc = "hash"
        BY <4>1, AtWork DEF State
      <4>3. run'[p] = s
        BY <3>5, <4>1 DEF ReadForCheck, Goto, IInv, TypeOK
      <4>4. run'[p].pc = "idle"
        BY <2>1 DEF IInv, TypeOK, Idle
      <4> QED BY <4>2, <4>3, <4>4
    <3> QED BY <3>3, <3>4, <3>5 DEF CheckDone, Die
  <2>3. \A q \in calm' : q \in calm /\ run'[q] = run[q]
    <3>1. calm' \subseteq calm \union {p} /\ calm' \subseteq Proc
      BY <1>1 DEF ReadForCheck, CheckDone, Die
    <3> QED BY <2>1, <2>2, <3>1 DEF IInv, TypeOK
  <2> QED BY <1>1, <2>3 DEF Examined, Gone, Differs
<1>3. CASE /\ run[p].pc = "read" /\ calm' = calm \union {p}
           /\ Goto(p, [run[p] EXCEPT !.pc = "hash", !.rs = ReadReceipts, !.es = ReadEvents])
  <2>1. PICK s : s = [run[p] EXCEPT !.pc = "hash", !.rs = ReadReceipts, !.es = ReadEvents]
    OBVIOUS
  <2>2. s.pc = "hash" /\ s.done = 0 /\ s.missing = {} /\ s.changed = {} /\ run'[p] = s
    BY <1>3, <2>1, AtWork DEF State, Local, Fresh, Goto, IInv, TypeOK
  <2>3. \A q \in calm : q # p /\ run'[q] = run[q]
    BY <1>1, <1>3 DEF Examined, Goto, IInv, TypeOK
  <2>4. ASSUME NEW q \in calm'
        PROVE  /\ run'[q].pc = "hash"
               /\ run'[q].missing = {n \in 1..run'[q].done : Gone(run[q], n)'}
               /\ run'[q].changed = {n \in 1..run'[q].done : Differs(run[q], n)'}
    <3>1. CASE q = p
      BY <2>2, <3>1
    <3>2. CASE q # p
      <4>1. q \in calm /\ run'[q] = run[q]
        BY <1>3, <2>3, <2>4, <3>2
      <4> QED BY <1>1, <4>1 DEF Examined, Gone, Differs
    <3> QED BY <3>1, <3>2
  <2> QED BY <2>4 DEF Examined
<1> QED BY <1>2, <1>3 DEF ReadForCheck, CheckDone, Die

\* and the next file.
LEMMA NextExamined ==
    ASSUME IInv, Examined, NEW p \in Proc, CheckNext(p)
    PROVE  Examined'
<1> USE DEF outside
<1> DEFINE m == run[p].done + 1
<1>1. PICK s :
         /\ s = [run[p] EXCEPT !.done = m,
                   !.missing = IF Gone(run[p], m) THEN @ \union {m} ELSE @,
                   !.changed = IF Differs(run[p], m) THEN @ \union {m} ELSE @]
         /\ Goto(p, s)
  BY DEF CheckNext, Gone, Differs
<1>2. run[p] \in State /\ run[p].pc = "hash" /\ run[p].done \in Nat
  BY AtWork DEF CheckNext, State
<1>3. /\ s.pc = "hash" /\ s.done = m /\ s.rs = run[p].rs /\ s.es = run[p].es
      /\ s.missing = IF Gone(run[p], m) THEN run[p].missing \union {m} ELSE run[p].missing
      /\ s.changed = IF Differs(run[p], m) THEN run[p].changed \union {m} ELSE run[p].changed
  BY <1>1, <1>2 DEF State
<1>4. UNCHANGED <<files, calm>> /\ calm \subseteq Proc
  BY DEF CheckNext, IInv, TypeOK
<1>5. 1..m = (1..run[p].done) \union {m}
  BY <1>2
<1>6. run' = [run EXCEPT ![p] = s]
  BY <1>1 DEF Goto
<1>7. ASSUME NEW q \in calm
      PROVE  /\ run'[q].pc = "hash"
             /\ run'[q].missing = {n \in 1..run'[q].done : Gone(run[q], n)'}
             /\ run'[q].changed = {n \in 1..run'[q].done : Differs(run[q], n)'}
  <2>1. CASE q = p
    <3>1. run'[q] = s
      BY <1>4, <1>6, <2>1 DEF IInv, TypeOK
    <3>2. ASSUME NEW n PROVE (Gone(run[q], n)' <=> Gone(run[p], n)) /\ (Differs(run[q], n)' <=> Differs(run[p], n))
      BY <1>3, <1>4, <3>1 DEF Gone, Differs
    <3>3. /\ run[p].missing = {n \in 1..run[p].done : Gone(run[p], n)}
          /\ run[p].changed = {n \in 1..run[p].done : Differs(run[p], n)}
      BY <2>1 DEF Examined
    <3> HIDE DEF m
    <3>4. s.missing = {n \in 1..m : Gone(run[p], n)} /\ s.changed = {n \in 1..m : Differs(run[p], n)}
      BY <1>3, <1>5, <3>3
    <3> QED BY <1>3, <3>1, <3>2, <3>4
  <2>2. CASE q # p
    <3>1. run'[q] = run[q]
      BY <1>4, <1>6, <2>2 DEF IInv, TypeOK
    <3> QED BY <1>4, <3>1 DEF Examined, Gone, Differs
  <2> QED BY <2>1, <2>2
<1> QED BY <1>4, <1>7 DEF Examined

\* A check of files that stay as they are names exactly the receipts whose file
\* is gone or different where the events put it.
THEOREM ChecksExact == Spec => []CheckExact
<1> USE DEF outside
<1>1. Init => Examined
  BY DEF Init, Examined
<1>2. IInv /\ Examined /\ [Next]_vars => Examined'
  <2>1. SUFFICES ASSUME IInv, Examined, [Next]_vars PROVE Examined'
    OBVIOUS
  <2>2. ASSUME NEW p \in Proc, \/ Start(p) \/ Peek(p) \/ OpenExisting(p)
                               \/ CreateManifest(p) \/ WriteManifest(p) \/ CreateLog(p)
        PROVE  Examined'
    <3>1. run[p].pc # "hash" /\ UNCHANGED <<files, calm>>
      BY <2>2 DEF Start, Peek, OpenExisting, CreateManifest, WriteManifest, CreateLog
    <3>2. \E s \in State : Moves(p, s)
      BY <2>1, <2>2, StartMoves, PeekMoves, OpenExistingMoves, CreateMoves
    <3> QED BY <2>1, <3>1, <3>2, OthersExamined
  <2>3. ASSUME NEW p \in Proc, ReadForAdd(p) \/ ReadForEvent(p) \/ BeginAppend(p) \/ ReadAgain(p)
        PROVE  Examined'
    <3>1. run[p].pc # "hash" /\ UNCHANGED <<files, calm>>
      BY <2>3 DEF ReadForAdd, ReadForEvent, BeginAppend, ReadAgain
    <3>2. \E s \in State : Moves(p, s)
      BY <2>1, <2>3, ReadForAddMoves, ReadForEventMoves, BeginAppendMoves, ReadAgainMoves
    <3> QED BY <2>1, <3>1, <3>2, OthersExamined
  <2>4. ASSUME NEW p \in Proc, OpenJournal(p) \/ Mirror(p) \/ Report(p) PROVE Examined'
    <3>1. run[p].pc # "hash" /\ UNCHANGED <<files, calm>>
      BY <2>4 DEF OpenJournal, Mirror, Report
    <3>2. \E s \in State : Moves(p, s)
      BY <2>1, <2>4, MirrorMoves
    <3> QED BY <2>1, <3>1, <3>2, OthersExamined
  <2>5. ASSUME NEW p \in Proc, EndAppend(p) \/ ProjectIndex(p) \/ ProjectTimeline(p) PROVE Examined'
    <3>1. /\ run[p].pc # "hash" /\ UNCHANGED <<files, calm>>
          /\ \E s : run' = [run EXCEPT ![p] = s]
      BY <2>5 DEF EndAppend, ProjectIndex, ProjectTimeline, Fail, Goto
    <3>2. \A q \in calm : q # p /\ run'[q] = run[q]
      BY <2>1, <3>1 DEF Examined, IInv, TypeOK
    <3> QED BY <2>1, <3>1, <3>2 DEF Examined, Gone, Differs
  <2>6. CASE Edit
    BY <2>6 DEF Edit, Examined
  <2>7. CASE UNCHANGED vars
    BY <2>1, <2>7 DEF vars, Examined, Gone, Differs
  <2> QED
    BY <2>1, <2>2, <2>3, <2>4, <2>5, <2>6, <2>7, BeginsExamined, NextExamined DEF Next, Step
<1>3. IInv /\ Examined => CheckExact
  <2>1. SUFFICES ASSUME IInv, Examined, NEW p \in calm, run[p].done = Len(run[p].rs)
                 PROVE  /\ run[p].missing = {n \in DOMAIN run[p].rs :
                              ~Superseded(run[p].es, n) /\ files[Effective(run[p].rs, run[p].es, n).path] = None}
                        /\ run[p].changed = {n \in DOMAIN run[p].rs :
                              /\ ~Superseded(run[p].es, n)
                              /\ files[Effective(run[p].rs, run[p].es, n).path] \notin {None, run[p].rs[n].sha}}
    BY DEF CheckExact
  <2>2. p \in Proc /\ run[p] \in State
    BY <2>1 DEF IInv, TypeOK
  <2>3. DOMAIN run[p].rs = 1..run[p].done
    BY <2>1, <2>2 DEF State
  <2>4. \A n : Effective(run[p].rs, run[p].es, n).path = Current(run[p].rs, run[p].es, n)
    BY DEF Effective, Current
  <2> QED BY <2>1, <2>3, <2>4 DEF Examined, Gone, Differs
<1> QED BY <1>1, <1>2, <1>3, Invariance, PTL DEF Spec

-----------------------------------------------------------------------------
(***************************************************************************)
(* The graph shows what the ledger says (mirror.rs): MirrorFaithful and    *)
(* SupersessionShown.  The state is that of three parties: the log, the    *)
(* graph, and commands between the two that know what one of them had and  *)
(* have not yet told the other.  Faithful says                             *)
(*   - who works on a receipt together with another is tainted (Alone),    *)
(*   - what every command knows: which receipt it works on, what the       *)
(*     receipt was when it read it, and, once its entry is in the log,     *)
(*     that no later entry is about the receipt, that the graph is still   *)
(*     as it was before or is midway in the command's plan (Told),         *)
(*   - that any receipt is shown as the log has it unless it is tainted or *)
(*     a command has yet to tell of it (Mirrored), and likewise for        *)
(*     supersessions (Marking).                                            *)
(* Two facts carry it: a command that is alone with its receipt writes     *)
(* nothing about any other (WritesOwn), and an entry in the log changes    *)
(* no receipt but its own (EffectiveSpared, ExtendsNow).                   *)
(***************************************************************************)
\* An event about another receipt, or one that neither moves nor reclassifies,
\* leaves a receipt as it is (effective).
LEMMA EffectiveSpared ==
    ASSUME NEW rs \in Seq(Receipt), NEW es \in Seq(Event), NEW e \in Event, NEW n,
           e.receipt = n => e.kind \notin {"relocate", "reclassify"}
    PROVE  Effective(rs, Append(es, e), n) = Effective(rs, es, n)
<1> DEFINE new == Append(es, e)
<1>1. /\ Len(es) \in Nat /\ DOMAIN new = 1..(Len(es) + 1) /\ DOMAIN es = 1..Len(es)
      /\ new[Len(es) + 1] = e /\ \A i \in 1..Len(es) : new[i] = es[i]
  OBVIOUS
<1> HIDE DEF new
<1>2. ASSUME NEW kind \in {"relocate", "reclassify"}
      PROVE  About(new, n, kind) = About(es, n, kind)
  BY <1>1 DEF About
<1>3. Owning(new, n) = Owning(es, n)
  BY <1>1, <1>2 DEF Owning, About
<1>4. ASSUME NEW S \in SUBSET (1..Len(es)), S # {}
      PROVE  new[Latest(S)] = es[Latest(S)]
  BY <1>1, <1>4, LatestIsLast
<1>5. /\ About(es, n, "relocate") \in SUBSET (1..Len(es)) /\ About(es, n, "reclassify") \in SUBSET (1..Len(es))
      /\ Owning(es, n) \in SUBSET (1..Len(es))
  BY AboutIsLogged
<1>6. /\ About(new, n, "relocate") = About(es, n, "relocate")
      /\ About(new, n, "reclassify") = About(es, n, "reclassify")
  BY <1>2
<1>7. /\ About(es, n, "relocate") # {} =>
            new[Latest(About(es, n, "relocate"))] = es[Latest(About(es, n, "relocate"))]
      /\ About(es, n, "reclassify") # {} =>
            new[Latest(About(es, n, "reclassify"))] = es[Latest(About(es, n, "reclassify"))]
      /\ Owning(es, n) # {} => new[Latest(Owning(es, n))] = es[Latest(Owning(es, n))]
  BY <1>4, <1>5
<1> QED BY <1>3, <1>6, <1>7, Zenon DEF Effective, new

\* A relocation leaves the owner and the relation of a receipt as they are.
LEMMA RelocateSpares ==
    ASSUME NEW rs \in Seq(Receipt), NEW es \in Seq(Event), NEW e \in Event, NEW n, e.kind = "relocate"
    PROVE  /\ Effective(rs, Append(es, e), n).owner = Effective(rs, es, n).owner
           /\ Effective(rs, Append(es, e), n).relation = Effective(rs, es, n).relation
<1> DEFINE new == Append(es, e)
<1>1. /\ Len(es) \in Nat /\ DOMAIN new = 1..(Len(es) + 1) /\ DOMAIN es = 1..Len(es)
      /\ new[Len(es) + 1] = e /\ \A i \in 1..Len(es) : new[i] = es[i]
  OBVIOUS
<1> HIDE DEF new
<1>2. About(new, n, "reclassify") = About(es, n, "reclassify")
  BY <1>1 DEF About
<1>3. Owning(new, n) = Owning(es, n)
  BY <1>1, <1>2 DEF Owning, About
<1>4. ASSUME NEW S \in SUBSET (1..Len(es)), S # {}
      PROVE  new[Latest(S)] = es[Latest(S)]
  BY <1>1, <1>4, LatestIsLast
<1>5. About(es, n, "reclassify") \in SUBSET (1..Len(es)) /\ Owning(es, n) \in SUBSET (1..Len(es))
  BY AboutIsLogged
<1>6. /\ About(es, n, "reclassify") # {} =>
            new[Latest(About(es, n, "reclassify"))] = es[Latest(About(es, n, "reclassify"))]
      /\ Owning(es, n) # {} => new[Latest(Owning(es, n))] = es[Latest(Owning(es, n))]
  BY <1>4, <1>5
<1> QED BY <1>2, <1>3, <1>6 DEF Effective, new

\* Before the first event about it a receipt is as it was filed,
LEMMA AsFiled ==
    ASSUME NEW rs, NEW es, NEW n, \A i \in DOMAIN es : es[i].receipt # n
    PROVE  Effective(rs, es, n) = [path |-> rs[n].path, owner |-> rs[n].owner,
                                   relation |-> rs[n].relation, document |-> rs[n].document]
<1>1. About(es, n, "relocate") = {} /\ About(es, n, "reclassify") = {} /\ Owning(es, n) = {}
  BY DEF About, Owning
<1> QED BY <1>1 DEF Effective

\* and receipts that are filed later make no difference to it.
LEMMA LaterFiled ==
    ASSUME NEW rs \in Seq(Receipt), NEW es, NEW r \in Receipt, NEW n \in 1..Len(rs)
    PROVE  Effective(Append(rs, r), es, n) = Effective(rs, es, n)
<1>1. Append(rs, r)[n] = rs[n]
  OBVIOUS
<1> QED BY <1>1 DEF Effective

\* The receipts that an entry is about.
Concerned(entry) ==
    IF IsReceipt(entry) THEN {entry.id}
    ELSE {entry.receipt} \union (IF entry.kind = "supersede" THEN {entry.old} ELSE {})

\* A command that has to tell the graph what it wrote to the log, and one whose
\* entry changes what the graph shows of its receipt.
Telling(s)  == s.pc \in {"index", "timeline", "reread", "journal", "mirror"} /\ s.entry # None
Changing(s) == Telling(s) /\ (IsEvent(s.entry) => s.entry.kind \in {"relocate", "reclassify"})
Marks(s)    == IsEvent(s.entry) /\ s.entry.kind = "supersede"

\* Receipt n as the ledger has it.
Now(n) == Effective(receipts, events, n)

\* The graph has nothing of receipt n, or shows it as view.
Unknown(n) == n \notin DOMAIN revision /\ \A e \in edges : e.from # n

OwnerKinds   == {"BELONGS_TO", "REFERENCES_PROJECT"}
Reference(e) ==
    e.kind = "REFERENCES_PROJECT" /\ e.from \in DOMAIN revision /\ e.to \in revision[e.from].archives

Shows(n, view) ==
    /\ n \in DOMAIN revision /\ revision[n].view = view
    /\ OwnerEdge(n, view) \in edges
    /\ \A e \in edges : e.from = n /\ e.kind \in OwnerKinds => e = OwnerEdge(n, view) \/ Reference(e)

\* The graph before the writes of s, and after some of them.
Before(s) == IF IsReceipt(s.entry) THEN Unknown(Subject(s)) ELSE Shows(Subject(s), s.before)

Wrote(s, write) == \E i \in 1..s.done : Plan(s)[i] = write

Midway(s) ==
    LET n == Subject(s) IN
    /\ Wrote(s, Write("revision", None)) =>
          /\ n \in DOMAIN revision /\ revision[n].view = s.after
          /\ s.archive # None => s.archive \in revision[n].archives
    /\ Wrote(s, Write("assert", OwnerEdge(n, s.after))) => OwnerEdge(n, s.after) \in edges
    /\ \A e \in edges : e.from = n /\ e.kind \in OwnerKinds =>
          \/ e = OwnerEdge(n, s.after) \/ Reference(e)
          \/ IsEvent(s.entry) /\ e = OwnerEdge(n, s.before) /\ (s.entry.kind = "reclassify" => s.done < 2)

\* No later event is about the receipt that s tells of.
LastWord(s) ==
    \A j \in DOMAIN events : Subject(s) \in Concerned(events[j]) => IsEvent(s.entry) /\ j <= s.entry.seq

\* What a command knows of its receipt before it writes to the log,
Expecting(s) ==
    /\ s.pc = "append" \/ (s.pc = "write" /\ loose = None)
    /\ s.cmd.op # "add" /\ s.cmd.receipt \notin tainted
    => s.cmd.receipt \in DOMAIN receipts /\ s.before = Now(s.cmd.receipt)

\* and what holds of it afterwards, if nobody else works on it.
Midst(s) ==
    Changing(s) /\ Subject(s) \notin tainted =>
        /\ LastWord(s)
        /\ s.pc # "mirror" => Before(s)
        /\ s.pc = "mirror" => Midway(s)
        /\ s.pc \in {"journal", "mirror"} => s.after = Now(Subject(s))
        /\ s.entry.kind = "relocate" =>
              OwnerEdge(Subject(s), s.before) = OwnerEdge(Subject(s), Now(Subject(s)))

\* The marks of a supersession that are set.
Superseding(s) ==
    Marks(s) /\ s.pc = "mirror" /\ s.entry.old \notin tainted =>
        /\ s.done >= 2 => s.entry.old \in DOMAIN revision /\ revision[s.entry.old].status = "superseded"
        /\ s.done >= 3 => Edge(s.entry.receipt, "SUPERSEDES", s.entry.old) \in edges

Named(s) ==
    /\ s.entry # None => Concerned(s.entry) \subseteq Touched(s)
    /\ IsEvent(s.entry) => s.entry.kind = s.cmd.op

Told(s) == Named(s) /\ Expecting(s) /\ Midst(s) /\ Superseding(s)

Alone == \A p, q \in Proc : p # q => Touched(run[p]) \intersect Touched(run[q]) \subseteq tainted

Loosened ==
    /\ loose # None => Concerned(loose) \subseteq tainted
    /\ IsReceipt(loose) => loose.id = Len(receipts) + 1

Grounded ==
    /\ \A i \in DOMAIN events : events[i].kind = "supersede" => Known(receipts, events[i].old)
    /\ DOMAIN revision \subseteq DOMAIN receipts
    /\ \A e \in edges : e.from \in DOMAIN receipts

Mirrored ==
    \A n \in DOMAIN receipts :
        n \notin tainted /\ (\A p \in Proc : Changing(run[p]) => Subject(run[p]) # n) => Shows(n, Now(n))

Marked(e) ==
    /\ e.old \in DOMAIN revision /\ revision[e.old].status = "superseded"
    /\ Edge(e.receipt, "SUPERSEDES", e.old) \in edges

Unchanged(i) ==
    \A j \in DOMAIN events :
        j > i /\ events[j].kind \in {"relocate", "reclassify"} => events[j].receipt # events[i].old

Marking ==
    \A i \in DOMAIN events :
        /\ events[i].kind = "supersede" /\ Unchanged(i)
        /\ events[i].receipt \notin tainted /\ events[i].old \notin tainted
        => Marked(events[i]) \/ \E p \in Proc : Telling(run[p]) /\ run[p].entry = events[i]

Faithful ==
    /\ Alone /\ Loosened /\ Grounded
    /\ \A p \in Proc : Told(run[p])
    /\ Mirrored /\ Marking

\* Faithful says of a receipt that nobody works on what MirrorFaithful does,
LEMMA FaithfulMirror ==
    ASSUME IInv, Faithful
    PROVE  MirrorFaithful
<1>1. SUFFICES ASSUME NEW n \in DOMAIN receipts, Settled(n) PROVE Shows(n, Now(n))
  BY DEF MirrorFaithful, Shows, Now, OwnerKinds, Reference
<1>2. ASSUME NEW p \in Proc, Changing(run[p]) PROVE Subject(run[p]) # n
  <2>1. Subject(run[p]) \in Concerned(run[p].entry)
    BY DEF Subject, Concerned
  <2>2. Concerned(run[p].entry) \subseteq Touched(run[p])
    BY <1>2 DEF Faithful, Told, Named, Changing, Telling
  <2> QED BY <1>1, <2>1, <2>2 DEF Settled
<1> QED BY <1>1, <1>2 DEF Faithful, Mirrored, Settled

\* and what SupersessionShown does.
LEMMA FaithfulMarks ==
    ASSUME IInv, Faithful
    PROVE  SupersessionShown
<1>1. SUFFICES ASSUME NEW i \in DOMAIN events, events[i].kind = "supersede",
                      Settled(events[i].receipt), Settled(events[i].old), Unchanged(i)
               PROVE  Marked(events[i])
  BY DEF SupersessionShown, Marked, Unchanged
<1>2. ASSUME NEW p \in Proc, Telling(run[p]) PROVE run[p].entry # events[i]
  <2>1. events[i].receipt \in Concerned(events[i]) \/ events[i].id \in Concerned(events[i])
    BY DEF Concerned
  <2>2. Concerned(run[p].entry) \subseteq Touched(run[p])
    BY <1>2 DEF Faithful, Told, Named, Telling
  <2>3. ~IsReceipt(events[i])
    BY <1>1 DEF IsReceipt
  <2> QED BY <1>1, <2>2, <2>3 DEF Settled, Concerned
<1> QED BY <1>1, <1>2 DEF Faithful, Marking, Settled

\* Process p takes the local state s; what it then works on together with
\* another is tainted.
Turns(p, s) ==
    /\ run' = [run EXCEPT ![p] = s]
    /\ tainted \subseteq tainted'
    /\ \A q \in Proc \ {p} : Touched(s) \intersect Touched(run[q]) \subseteq tainted'

\* Going on is such a step (Goto),
LEMMA GotoTurns ==
    ASSUME IInv, NEW p \in Proc, NEW s, Goto(p, s)
    PROVE  Turns(p, s)
  BY DEF Goto, Turns

\* and so is the end of a command; if it fails it taints what it worked on.
LEMMA EndTurns ==
    ASSUME IInv, NEW p \in Proc
    PROVE  /\ Return(p) => Turns(p, Idle)
           /\ Fail(p) => Turns(p, Idle) /\ (run[p].entry # None => Touched(run[p]) \subseteq tainted')
<1>1. Touched(Idle) = {}
  BY DEF Touched, Idle
<1> QED BY <1>1 DEF Return, Fail, Turns

\* Who works on the same receipt is still known.
LEMMA AloneStays ==
    ASSUME IInv, Alone, NEW p \in Proc, NEW s, Turns(p, s)
    PROVE  Alone'
<1>1. run'[p] = s /\ \A q \in Proc \ {p} : run'[q] = run[q]
  BY DEF Turns, IInv, TypeOK
<1>2. ASSUME NEW q \in Proc, NEW r \in Proc, q # r
      PROVE  Touched(run'[q]) \intersect Touched(run'[r]) \subseteq tainted'
  <2>1. CASE q = p
    BY <1>1, <1>2, <2>1 DEF Turns
  <2>2. CASE r = p
    BY <1>1, <1>2, <2>2 DEF Turns
  <2>3. CASE q # p /\ r # p
    BY <1>1, <1>2, <2>3 DEF Turns, Alone
  <2> QED BY <2>1, <2>2, <2>3
<1> QED BY <1>2 DEF Alone

\* A command that holds no entry, and does not expect one to follow what it read,
\* has nothing to know.
Blank(s) == s.entry = None /\ ~(s.pc \in {"append", "write"} /\ s.cmd.op # "add")

\* It knows all it has to.
LEMMA BlankTold ==
    ASSUME NEW s, Blank(s)
    PROVE  Told(s)
  BY DEF Blank, Told, Named, Expecting, Midst, Superseding, Changing, Telling, Marks, IsEvent

\* What is known of a local state is known of the process that is in it.
LEMMA StateTold ==
    ASSUME NEW q \in Proc, NEW s, run'[q] = s, Told(s)'
    PROVE  Told(run[q])'
<1> USE DEF Telling, Changing, Marks, Concerned, Now, Unknown, Reference, Shows, Before, Wrote, LastWord
<1>1. Named(run[q])'
  BY DEF Told, Named
<1>2. Expecting(run[q])'
  BY DEF Told, Expecting
<1>3. Superseding(run[q])'
  BY DEF Told, Superseding
<1>4. Midst(run[q])'
  BY DEF Told, Midst, Midway
<1> QED BY <1>1, <1>2, <1>3, <1>4 DEF Told

\* What a command knows stays true while the log and the graph stay as they are.
Still ==
    /\ UNCHANGED <<receipts, events, revision, edges>>
    /\ tainted \subseteq tainted'

\* The line that s is about to end is not the rest of another.
NoLine(s) == s.pc = "write" /\ loose # None => loose' # None

\* What such a step leaves alone is known as before.
LEMMA StillTold ==
    ASSUME NEW s, Told(s), Still, NoLine(s)
    PROVE  Told(s)'
<1> USE DEF Telling, Changing, Marks, Concerned, Now, Unknown, Reference, Shows, Before, Wrote, LastWord
<1>1. Named(s)'
  BY DEF Told, Named
<1>2. Expecting(s)'
  BY DEF Told, Expecting, Still, NoLine
<1>3. Superseding(s)'
  BY DEF Told, Superseding, Still
<1>4. Midst(s)'
  BY DEF Told, Midst, Midway, Still
<1> QED BY <1>1, <1>2, <1>3, <1>4 DEF Told

\* p has told the graph all it had to.
Settles(p) ==
    /\ Changing(run[p]) /\ Subject(run[p]) \notin tainted => Shows(Subject(run[p]), Now(Subject(run[p])))
    /\ Marks(run[p]) /\ run[p].entry.receipt \notin tainted /\ run[p].entry.old \notin tainted => Marked(run[p].entry)

\* A step of p that leaves the log and the graph alone: p goes on with its entry,
\* or its receipts are tainted, or it has told all.
LEMMA QuietFaithful ==
    ASSUME IInv, Faithful, NEW p \in Proc, NEW s, Turns(p, s), Still, Loosened', Told(s)',
           \A q \in Proc \ {p} : NoLine(run[q]),
           Telling(run[p]) =>
               \/ Telling(s) /\ s.entry = run[p].entry
               \/ Touched(run[p]) \subseteq tainted'
               \/ Settles(p)
    PROVE  Faithful'
<1>1. run'[p] = s /\ \A q \in Proc \ {p} : run'[q] = run[q]
  BY DEF Turns, IInv, TypeOK
<1>2. Alone'
  BY AloneStays DEF Faithful
<1>3. Grounded'
  BY DEF Faithful, Grounded, Still, Known
<1>4. ASSUME NEW q \in Proc PROVE Told(run[q])'
  <2>1. CASE q = p
    BY <1>1, <2>1, StateTold
  <2>2. CASE q # p
    <3>1. PICK t : t = run[q]
      OBVIOUS
    <3>2. Told(t)'
      BY <2>2, <3>1, StillTold DEF Faithful
    <3> QED BY <1>1, <2>2, <3>1, <3>2, StateTold
  <2> QED BY <2>1, <2>2
<1>5. Concerned(run[p].entry) \subseteq Touched(run[p]) \/ run[p].entry = None
  BY DEF Faithful, Told, Named
<1>6. Mirrored'
  <2>1. SUFFICES ASSUME NEW n \in DOMAIN receipts, n \notin tainted',
                        \A q \in Proc : Changing(run'[q]) => Subject(run'[q]) # n
                 PROVE  Shows(n, Now(n))
    BY DEF Mirrored, Still, Shows, Now, Reference, Changing, Telling
  <2>2. n \notin tainted
    BY <2>1 DEF Still
  <2>3. CASE Changing(run[p]) /\ Subject(run[p]) = n
    <3>1. n \in Concerned(run[p].entry) /\ run[p].entry # None
      BY <2>3 DEF Concerned, Subject, Changing, Telling
    <3>2. ~(Touched(run[p]) \subseteq tainted')
      BY <1>5, <2>1, <3>1
    <3>3. ~(Telling(s) /\ s.entry = run[p].entry)
      BY <1>1, <2>1, <2>3 DEF Changing, Subject
    <3>4. Settles(p)
      BY <2>3, <3>2, <3>3 DEF Changing
    <3> QED BY <2>2, <2>3, <3>4 DEF Settles
  <2>4. CASE ~(Changing(run[p]) /\ Subject(run[p]) = n)
    BY <1>1, <2>1, <2>2, <2>4 DEF Faithful, Mirrored
  <2> QED BY <2>3, <2>4
<1>7. Marking'
  <2>1. SUFFICES ASSUME NEW i \in DOMAIN events, events[i].kind = "supersede", Unchanged(i),
                        events[i].receipt \notin tainted', events[i].old \notin tainted'
                 PROVE  Marked(events[i]) \/ \E q \in Proc : Telling(run'[q]) /\ run'[q].entry = events[i]
    BY DEF Marking, Still, Unchanged, Marked, Telling
  <2>2. events[i].receipt \notin tainted /\ events[i].old \notin tainted
    BY <2>1 DEF Still
  <2>3. CASE Marked(events[i])
    BY <2>3
  <2>4. ASSUME NEW q \in Proc, Telling(run[q]), run[q].entry = events[i]
        PROVE  Marked(events[i]) \/ \E r \in Proc : Telling(run'[r]) /\ run'[r].entry = events[i]
    <3>1. CASE q # p
      BY <1>1, <2>4, <3>1
    <3>2. CASE q = p
      <4>1. ~IsReceipt(events[i]) /\ events[i] # None /\ IsEvent(events[i])
        BY <2>1, <2>4, <3>2 DEF IsReceipt, IsEvent, Telling
      <4>2. ~(Touched(run[p]) \subseteq tainted')
        BY <1>5, <2>1, <2>4, <3>2, <4>1 DEF Concerned
      <4>3. Settles(p) => Marked(events[i])
        BY <2>1, <2>2, <2>4, <3>2, <4>1 DEF Settles, Marks
      <4> QED BY <1>1, <2>4, <3>2, <4>2, <4>3
    <3> QED BY <3>1, <3>2
  <2> QED BY <2>1, <2>2, <2>3, <2>4 DEF Faithful, Marking
<1> QED BY <1>2, <1>3, <1>4, <1>6, <1>7 DEF Faithful

\* What read_state yields of a receipt that is not tainted is what the log has.
LEMMA ReadsNow ==
    ASSUME IInv, Faithful, NEW n, Known(ReadReceipts, n), n \notin tainted
    PROVE  n \in DOMAIN receipts /\ Effective(ReadReceipts, ReadEvents, n) = Now(n)
<1>1. /\ receipts \in Seq(Receipt) /\ events \in Seq(Event) /\ loose \in Option(Entry)
      /\ Len(receipts) \in Nat
  BY DEF IInv, TypeOK
<1>2. CASE loose = None
  BY <1>2, <1>1 DEF ReadReceipts, ReadEvents, IsReceipt, IsEvent, Known, Now
<1>3. CASE IsReceipt(loose)
  <2>1. loose \in Receipt /\ loose.id = Len(receipts) + 1 /\ loose.id \in tainted
    BY <1>1, <1>3 DEF IsReceipt, Entry, Event, Option, Faithful, Loosened, Concerned
  <2>2. ReadReceipts = Append(receipts, loose) /\ ReadEvents = events
    BY <1>3 DEF ReadReceipts, ReadEvents, IsReceipt, IsEvent
  <2>3. n \in 1..Len(receipts)
    BY <1>1, <2>1, <2>2 DEF Known
  <2> QED BY <1>1, <2>1, <2>2, <2>3, LaterFiled DEF Now
<1>4. CASE IsEvent(loose)
  <2>1. loose \in Event /\ loose.receipt \in tainted
    BY <1>1, <1>4 DEF IsReceipt, IsEvent, Entry, Receipt, Option, Faithful, Loosened, Concerned
  <2>2. ReadReceipts = receipts /\ ReadEvents = Append(events, loose)
    BY <1>4 DEF ReadReceipts, ReadEvents, IsReceipt, IsEvent
  <2>3. n \in DOMAIN receipts
    BY <1>1, <2>2 DEF Known
  <2> QED BY <1>1, <2>1, <2>2, <2>3, EffectiveSpared DEF Now
<1> QED BY <1>2, <1>3, <1>4 DEF IsReceipt, IsEvent

\* Nothing happens to the log or to what the graph has of receipts.
Quiet == UNCHANGED <<receipts, events, loose, revision, edges>>

\* What is known in such a step stays known (StillTold).
LEMMA QuietIsStill ==
    ASSUME Faithful, Quiet, tainted \subseteq tainted'
    PROVE  Still /\ Loosened' /\ \A s : NoLine(s)
  BY DEF Quiet, Still, Faithful, Loosened, Concerned, NoLine

\* A command that ends with an error, or before it wrote to the log,
LEMMA EndFaithful ==
    ASSUME IInv, Faithful, NEW p \in Proc, Quiet, Fail(p) \/ (Return(p) /\ ~Telling(run[p]))
    PROVE  Faithful'
<1>1. PICK s : s = Idle
  OBVIOUS
<1>2. /\ Turns(p, s) /\ tainted \subseteq tainted'
      /\ Telling(run[p]) => Touched(run[p]) \subseteq tainted'
  BY <1>1, EndTurns DEF Telling, Turns
<1>3. Blank(s)
  BY <1>1 DEF Blank, Idle
<1>4. Still /\ Loosened' /\ Told(s)' /\ \A r : NoLine(r)
  BY <1>2, <1>3, BlankTold, QuietIsStill, StillTold
<1> QED BY <1>2, <1>4, QuietFaithful

\* one that knows nothing yet,
LEMMA BlankFaithful ==
    ASSUME IInv, Faithful, NEW p \in Proc, NEW s, Quiet, Goto(p, s), Blank(s), ~Telling(run[p])
    PROVE  Faithful'
<1>1. Turns(p, s) /\ tainted \subseteq tainted'
  BY GotoTurns DEF Turns
<1>2. Still /\ Loosened' /\ Told(s)' /\ \A r : NoLine(r)
  BY <1>1, BlankTold, QuietIsStill, StillTold
<1> QED BY <1>1, <1>2, QuietFaithful

\* and one that goes on with what it knows.
LEMMA GoesOnFaithful ==
    ASSUME IInv, Faithful, NEW p \in Proc, NEW s, Quiet, Goto(p, s), Told(s),
           Telling(run[p]) => Telling(s) /\ s.entry = run[p].entry
    PROVE  Faithful'
<1>1. Turns(p, s) /\ tainted \subseteq tainted'
  BY GotoTurns DEF Turns
<1>2. Still /\ Loosened' /\ Told(s)' /\ \A r : NoLine(r)
  BY <1>1, QuietIsStill, StillTold
<1> QED BY <1>1, <1>2, QuietFaithful

\* Opening the ledger.
LEMMA OpeningFaithful ==
    ASSUME IInv, Faithful, NEW p \in Proc,
           \/ Start(p) \/ Peek(p) \/ OpenExisting(p)
           \/ CreateManifest(p) \/ WriteManifest(p) \/ CreateLog(p)
    PROVE  Faithful'
<1> USE DEF logVars, graphVars
<1>0. Quiet
  BY DEF Start, Peek, OpenExisting, CreateManifest, WriteManifest, CreateLog, Quiet
<1>1. /\ run[p].pc # "idle" => run[p].entry = None
      /\ ~Telling(run[p])
  BY AtWork DEF Start, Peek, OpenExisting, CreateManifest, WriteManifest, CreateLog, Local, Telling
<1>2. CASE Fail(p)
  BY <1>0, <1>2, EndFaithful
<1>3. CASE Start(p)
  <2>1. PICK c \in Commands :
           Goto(p, [Idle EXCEPT !.pc = IF c.op = "add" THEN "peek" ELSE "open",
                                !.cmd = c, !.project = c.project])
    BY <1>3 DEF Start
  <2>2. PICK s : s = [Idle EXCEPT !.pc = IF c.op = "add" THEN "peek" ELSE "open",
                                  !.cmd = c, !.project = c.project]
    OBVIOUS
  <2>3. Blank(s)
    BY <2>2 DEF Blank, Idle
  <2> QED BY <1>0, <1>1, <2>1, <2>2, <2>3, BlankFaithful
<1>4. ASSUME NEW pc \in {"open", "manifest", "events", "index"}, NEW id, run[p].pc # "idle",
             Goto(p, [run[p] EXCEPT !.pc = pc, !.project = id])
      PROVE  Faithful'
  <2>1. PICK s : s = [run[p] EXCEPT !.pc = pc, !.project = id]
    OBVIOUS
  <2>2. Blank(s)
    BY <1>1, <1>4, <2>1, AtWork DEF Blank, State
  <2> QED BY <1>0, <1>1, <1>4, <2>1, <2>2, BlankFaithful
<1>5. CASE Peek(p)
  BY <1>2, <1>4, <1>5 DEF Peek
<1>6. ASSUME NEW pc \in {"manifest", "events", "index", "read"}, run[p].pc # "idle",
             Goto(p, [run[p] EXCEPT !.pc = pc])
      PROVE  Faithful'
  <2>1. PICK s : s = [run[p] EXCEPT !.pc = pc]
    OBVIOUS
  <2>2. Blank(s)
    BY <1>1, <1>6, <2>1, AtWork DEF Blank, State
  <2> QED BY <1>0, <1>1, <1>6, <2>1, <2>2, BlankFaithful
<1>7. CASE OpenExisting(p)
  <2>1. CASE Goto(p, Idle)
    <3>1. PICK s : s = Idle
      OBVIOUS
    <3>2. Blank(s)
      BY <3>1 DEF Blank, Idle
    <3> QED BY <1>0, <1>1, <2>1, <3>1, <3>2, BlankFaithful
  <2>2. CASE Goto(p, [run[p] EXCEPT !.pc = "read"])
    BY <1>6, <1>7, <2>2 DEF OpenExisting
  <2> QED BY <1>2, <1>7, <2>1, <2>2 DEF OpenExisting, Opened
<1>8. CASE CreateManifest(p) \/ WriteManifest(p) \/ CreateLog(p)
  BY <1>6, <1>8 DEF CreateManifest, WriteManifest, CreateLog
<1> QED BY <1>3, <1>5, <1>7, <1>8

\* Reading before the lock, and checking.
LEMMA ReadingFaithful ==
    ASSUME IInv, Faithful, NEW p \in Proc,
           ReadForAdd(p) \/ ReadForEvent(p) \/ ReadForCheck(p) \/ CheckNext(p) \/ CheckDone(p)
    PROVE  Faithful'
<1> USE DEF logVars, graphVars
<1>0. Quiet
  BY DEF ReadForAdd, ReadForEvent, ReadForCheck, CheckNext, CheckDone, Quiet
<1>1. /\ run[p].pc \in {"read", "hash"} /\ ~Telling(run[p]) /\ run[p] \in State
      /\ run[p].pc = "read" => run[p].entry = None
  BY AtWork DEF ReadForAdd, ReadForEvent, ReadForCheck, CheckNext, CheckDone, Local, Telling
<1>2. CASE Fail(p)
  BY <1>0, <1>2, EndFaithful
<1>3. CASE ReadForAdd(p)
  <2>1. PICK s : s = [run[p] EXCEPT !.pc = "append", !.sha = files[run[p].cmd.path]]
    OBVIOUS
  <2>2. Blank(s)
    BY <1>1, <1>3, <2>1 DEF Blank, State, ReadForAdd
  <2> QED BY <1>0, <1>1, <1>2, <1>3, <2>1, <2>2, BlankFaithful DEF ReadForAdd
<1>4. CASE ReadForEvent(p) /\ ~Fail(p)
  <2>1. PICK view : view = Effective(ReadReceipts, ReadEvents, run[p].cmd.receipt)
    OBVIOUS
  <2>2. PICK s : s = [run[p] EXCEPT !.pc = "append", !.before = view]
    OBVIOUS
  <2>3. Goto(p, s) /\ Known(ReadReceipts, run[p].cmd.receipt)
    BY <1>4, <2>1, <2>2 DEF ReadForEvent
  <2>4. s.entry = None /\ s.before = view /\ s.cmd = run[p].cmd /\ s.pc = "append"
    BY <1>1, <1>4, <2>2 DEF State, ReadForEvent
  <2>5. Expecting(s)
    BY <2>1, <2>3, <2>4, ReadsNow DEF Expecting
  <2>6. Told(s)
    BY <2>4, <2>5 DEF Told, Named, Midst, Superseding, Changing, Telling, Marks, IsEvent
  <2> QED BY <1>0, <1>1, <2>3, <2>6, GoesOnFaithful
<1>5. CASE ReadForCheck(p)
  <2>1. PICK s : s = [run[p] EXCEPT !.pc = "hash", !.rs = ReadReceipts, !.es = ReadEvents]
    OBVIOUS
  <2>2. Blank(s)
    BY <1>1, <1>5, <2>1 DEF Blank, State, ReadForCheck
  <2> QED BY <1>0, <1>1, <1>2, <1>5, <2>1, <2>2, BlankFaithful DEF ReadForCheck
<1>6. CASE CheckNext(p)
  <2>1. PICK missing, changed, s :
           /\ s = [run[p] EXCEPT !.done = @ + 1, !.missing = missing, !.changed = changed]
           /\ Goto(p, s)
    BY <1>6 DEF CheckNext
  <2>2. /\ s.entry = run[p].entry /\ s.cmd = run[p].cmd /\ s.pc = "hash" /\ run[p].pc = "hash"
    BY <1>1, <1>6, <2>1 DEF State, CheckNext
  <2>3. Named(run[p])
    BY DEF Faithful, Told
  <2>4. Told(s)
    BY <2>2, <2>3 DEF Told, Named, Touched, Expecting, Midst, Superseding, Changing, Telling, Marks
  <2> QED BY <1>0, <1>1, <2>1, <2>4, GoesOnFaithful
<1>7. CASE CheckDone(p)
  BY <1>0, <1>1, <1>7, EndFaithful DEF CheckDone
<1> QED BY <1>2, <1>3, <1>4, <1>5, <1>6, <1>7

\* The log's events are events.
LEMMA LoggedEvents ==
    ASSUME IInv, NEW i \in DOMAIN events
    PROVE  events[i] \in Event /\ events[i] # None /\ ~IsReceipt(events[i]) /\ IsEvent(events[i])
<1>1. events \in Seq(Event)
  BY DEF IInv, TypeOK
<1>2. events[i] \in Event
  BY <1>1
<1>3. events[i].kind # "receipt" /\ events[i] # None
  BY <1>2, EntryAssumption DEF Event, Entry
<1> QED BY <1>2, <1>3 DEF IsReceipt, IsEvent

\* An entry is about receipts that its command names.
LEMMA BeginAppendFaithful ==
    ASSUME IInv, Faithful, NEW p \in Proc, BeginAppend(p)
    PROVE  Faithful'
<1>0. Quiet
  BY DEF BeginAppend, Quiet, graphVars
<1>1. run[p].pc = "append" /\ run[p] \in State /\ run[p].entry = None /\ ~Telling(run[p]) /\ Told(run[p])
  BY AtWork DEF BeginAppend, Local, Telling, Faithful
<1>2. CASE Fail(p)
  BY <1>0, <1>2, EndFaithful
<1>3. CASE ~Fail(p)
  <2>1. PICK entry : entry = IF run[p].cmd.op = "add" THEN NewReceipt(p) ELSE NewEvent(p)
    OBVIOUS
  <2>2. PICK s : s = [run[p] EXCEPT !.pc = "write", !.entry = entry]
    OBVIOUS
  <2>3. Goto(p, s) /\ Accepted(ReadReceipts, run[p].cmd)
    BY <1>3, <2>1, <2>2 DEF BeginAppend
  <2>4. s.pc = "write" /\ s.entry = entry /\ s.cmd = run[p].cmd /\ s.before = run[p].before
    BY <1>1, <2>2 DEF State
  <2>5. Expecting(s)
    BY <1>1, <2>4 DEF Told, Expecting
  <2>6. Named(s)
    <3>1. CASE run[p].cmd.op = "add"
      <4>1. IsReceipt(entry)
        BY <1>1, <2>1, <3>1, NewReceiptFits, EntryAssumption DEF IsReceipt, NewReceipt, Entry
      <4> QED BY <2>4, <4>1 DEF Named, Touched, Concerned, IsEvent, IsReceipt
    <3>2. CASE run[p].cmd.op # "add"
      <4>1. /\ entry \in Event /\ entry.kind = run[p].cmd.op /\ entry.receipt = run[p].cmd.receipt
            /\ entry.kind = "supersede" => entry.old = run[p].cmd.old
        BY <1>1, <2>1, <2>3, <3>2, NewEventFits DEF NewEvent
      <4>2. ~IsReceipt(entry)
        BY <4>1 DEF IsReceipt, Event
      <4>3. /\ run[p].cmd.receipt # 0
            /\ entry.kind = "supersede" => run[p].cmd.old # 0
        BY <2>3, <3>2, <4>1 DEF Accepted, AcceptSupersede, Known
      <4> QED BY <2>4, <4>1, <4>2, <4>3 DEF Named, Touched, Concerned
    <3> QED BY <3>1, <3>2
  <2>7. Told(s)
    BY <2>4, <2>5, <2>6 DEF Told, Midst, Superseding, Changing, Telling, Marks
  <2> QED BY <1>0, <1>1, <2>3, <2>7, GoesOnFaithful
<1> QED BY <1>2, <1>3

\* Projecting: nobody told the graph of the entry yet.
LEMMA ProjectionsFaithful ==
    ASSUME IInv, Faithful, NEW p \in Proc, ProjectIndex(p) \/ ProjectTimeline(p)
    PROVE  Faithful'
<1>0. Quiet
  BY DEF ProjectIndex, ProjectTimeline, Quiet, logVars, graphVars
<1>1. /\ run[p].pc \in {"index", "timeline"} /\ run[p] \in State /\ Told(run[p]) /\ Local(run[p])
      /\ Telling(run[p]) <=> run[p].entry # None
  BY AtWork DEF ProjectIndex, ProjectTimeline, Telling, Faithful
<1>2. CASE Fail(p)
  BY <1>0, <1>2, EndFaithful
<1>3. ASSUME NEW pc \in {"timeline", "reread"}, Goto(p, [run[p] EXCEPT !.pc = pc]), run[p].entry # None
      PROVE  Faithful'
  <2>1. PICK s : s = [run[p] EXCEPT !.pc = pc]
    OBVIOUS
  <2>2. s.pc = pc /\ s.entry = run[p].entry /\ s.cmd = run[p].cmd /\ s.before = run[p].before
    BY <1>1, <2>1 DEF State
  <2>3. Named(s)
    BY <1>1, <2>2 DEF Told, Named, Touched
  <2>4. Midst(s)
    BY <1>1, <1>3, <2>2, Zenon DEF Told, Midst, Changing, Telling, Subject, LastWord, Before
  <2>5. Told(s)
    BY <2>2, <2>3, <2>4 DEF Told, Expecting, Superseding
  <2> QED BY <1>0, <1>1, <1>3, <2>1, <2>2, <2>5, GoesOnFaithful DEF Telling
<1>4. ASSUME NEW pc \in {"timeline", "read"}, Goto(p, [run[p] EXCEPT !.pc = pc]), run[p].entry = None
      PROVE  Faithful'
  <2>1. PICK s : s = [run[p] EXCEPT !.pc = pc]
    OBVIOUS
  <2>2. Blank(s)
    BY <1>1, <1>4, <2>1 DEF State, Blank
  <2> QED BY <1>0, <1>1, <1>4, <2>1, <2>2, BlankFaithful
<1>5. CASE ProjectIndex(p)
  BY <1>2, <1>3, <1>4, <1>5 DEF ProjectIndex
<1>6. CASE ProjectTimeline(p) /\ ~Fail(p) /\ run[p].entry = None
  <2>1. CASE Goto(p, Idle)
    <3>1. PICK s : s = Idle
      OBVIOUS
    <3>2. Blank(s)
      BY <3>1 DEF Blank, Idle
    <3> QED BY <1>0, <1>1, <1>6, <2>1, <3>1, <3>2, BlankFaithful
  <2>2. CASE Goto(p, [run[p] EXCEPT !.pc = "read"])
    BY <1>4, <1>6, <2>2
  <2> QED BY <1>6, <2>1, <2>2 DEF ProjectTimeline, Projected, Opened
<1>7. CASE ProjectTimeline(p) /\ ~Fail(p) /\ run[p].entry # None /\ ~IsReceipt(run[p].entry)
  BY <1>3, <1>7 DEF ProjectTimeline, Projected
<1>8. CASE ProjectTimeline(p) /\ ~Fail(p) /\ run[p].entry # None /\ IsReceipt(run[p].entry)
  <2>1. PICK view : view = [path |-> run[p].entry.path, owner |-> run[p].entry.owner,
                            relation |-> run[p].entry.relation, document |-> run[p].entry.document]
    OBVIOUS
  <2>2. PICK s : s = [run[p] EXCEPT !.pc = "journal", !.after = view]
    OBVIOUS
  <2>3. Goto(p, s)
    BY <1>8, <2>1, <2>2 DEF ProjectTimeline, Projected
  <2>4. /\ s.pc = "journal" /\ s.entry = run[p].entry /\ s.cmd = run[p].cmd /\ s.before = run[p].before
        /\ s.after = view /\ Subject(s) = Subject(run[p]) /\ Subject(s) = s.entry.id
    BY <1>1, <1>8, <2>2 DEF State, Subject
  <2>5. Named(s)
    BY <1>1, <2>4 DEF Told, Named, Touched
  <2>6. ASSUME Changing(s), Subject(s) \notin tainted
        PROVE  LastWord(s) /\ Before(s) /\ s.after = Now(Subject(s)) /\ s.entry.kind = "receipt"
    <3>1. Changing(run[p]) /\ run[p].pc # "mirror"
      BY <1>1, <1>8, <2>4, <2>6 DEF Changing, Telling
    <3>2. LastWord(run[p]) /\ Before(run[p])
      BY <1>1, <2>4, <2>6, <3>1 DEF Told, Midst
    <3>3. LastWord(s) /\ Before(s)
      BY <1>8, <2>4, <3>2 DEF LastWord, Before
    <3>4. Logged(s.entry) /\ s.entry.kind = "receipt" /\ ~IsEvent(s.entry)
      BY <1>1, <1>8, <2>4 DEF Local, IsReceipt, IsEvent
    <3>5. \A i \in DOMAIN events : Subject(s) # events[i].receipt \/ IsReceipt(events[i])
      BY <3>3, <3>4 DEF LastWord, Concerned
    <3>6. \A i \in DOMAIN events : ~IsReceipt(events[i])
      BY LoggedEvents
    <3>7. PICK n : n = s.entry.id
      OBVIOUS
    <3>8. \A i \in DOMAIN events : events[i].receipt # n
      BY <2>4, <3>5, <3>6, <3>7
    <3>9. receipts[n] = s.entry /\ Subject(s) = n
      BY <2>4, <3>4, <3>7 DEF Logged
    <3>10. Now(n) = [path |-> receipts[n].path, owner |-> receipts[n].owner,
                     relation |-> receipts[n].relation, document |-> receipts[n].document]
      BY <3>8, AsFiled DEF Now
    <3>11. Now(Subject(s)) = view
      BY <2>1, <2>4, <3>9, <3>10
    <3> QED BY <2>4, <3>3, <3>4, <3>11
  <2>7. Told(s)
    BY <2>4, <2>5, <2>6 DEF Told, Midst, Expecting, Superseding
  <2> QED BY <1>0, <1>1, <1>8, <2>3, <2>4, <2>7, GoesOnFaithful DEF Telling
<1> QED BY <1>2, <1>5, <1>6, <1>7, <1>8

\* The second reading yields the receipt as the log has it.
LEMMA ReadAgainFaithful ==
    ASSUME IInv, Faithful, NEW p \in Proc, ReadAgain(p)
    PROVE  Faithful'
<1>0. Quiet
  BY DEF ReadAgain, Quiet, logVars, graphVars
<1>1. /\ run[p].pc = "reread" /\ run[p] \in State /\ Told(run[p]) /\ Local(run[p]) /\ IsEvent(run[p].entry)
      /\ run[p].entry # None
  BY AtWork DEF ReadAgain, Local, Faithful
<1>2. CASE Fail(p)
  BY <1>0, <1>2, EndFaithful
<1>3. CASE ~Fail(p)
  <2>1. PICK view : view = Effective(ReadReceipts, ReadEvents, run[p].cmd.receipt)
    OBVIOUS
  <2>2. PICK s : s = [run[p] EXCEPT !.pc = "journal", !.after = view]
    OBVIOUS
  <2>3. Goto(p, s)
    BY <1>3, <2>1, <2>2 DEF ReadAgain
  <2>4. /\ s.pc = "journal" /\ s.entry = run[p].entry /\ s.cmd = run[p].cmd /\ s.before = run[p].before
        /\ s.after = view /\ Subject(s) = Subject(run[p]) /\ Subject(s) = run[p].cmd.receipt
    BY <1>1, <2>2 DEF State, Subject, Local, IsEvent, IsReceipt
  <2>5. Named(s)
    BY <1>1, <2>4 DEF Told, Named, Touched
  <2>6. ASSUME Changing(s), Subject(s) \notin tainted
        PROVE  /\ LastWord(s) /\ Before(s) /\ s.after = Now(Subject(s))
               /\ s.entry.kind = "relocate" =>
                     OwnerEdge(Subject(s), s.before) = OwnerEdge(Subject(s), Now(Subject(s)))
    <3>1. Changing(run[p]) /\ run[p].pc # "mirror"
      BY <1>1, <2>4, <2>6 DEF Changing, Telling
    <3>2. /\ LastWord(run[p]) /\ Before(run[p])
          /\ s.entry.kind = "relocate" =>
                OwnerEdge(Subject(s), s.before) = OwnerEdge(Subject(s), Now(Subject(s)))
      BY <1>1, <2>4, <2>6, <3>1 DEF Told, Midst
    <3>3. LastWord(s) /\ Before(s)
      BY <2>4, <3>2 DEF LastWord, Before
    <3>4. Known(ReadReceipts, run[p].cmd.receipt)
      <4>1. run[p].entry.kind # "receipt" /\ Logged(run[p].entry) /\ run[p].entry.receipt = run[p].cmd.receipt
        BY <1>1 DEF Local, IsEvent
      <4>2. Known(receipts, run[p].cmd.receipt)
        BY <4>1 DEF Logged, IInv, LogFormed
      <4>3. Len(receipts) \in Nat /\ Len(ReadReceipts) \in Nat /\ Len(ReadReceipts) >= Len(receipts)
        BY ReadTypes DEF IInv, TypeOK
      <4> QED BY <4>2, <4>3 DEF Known
    <3>5. view = Now(Subject(s))
      BY <2>1, <2>4, <2>6, <3>4, ReadsNow
    <3> QED BY <2>4, <3>2, <3>3, <3>5
  <2>7. Told(s)
    BY <2>4, <2>5, <2>6 DEF Told, Midst, Expecting, Superseding
  <2> QED BY <1>0, <1>1, <2>3, <2>4, <2>7, GoesOnFaithful DEF Telling
<1> QED BY <1>2, <1>3

\* Before the first write the graph is as it was.
LEMMA OpenJournalFaithful ==
    ASSUME IInv, Faithful, NEW p \in Proc, OpenJournal(p)
    PROVE  Faithful'
<1>0. Quiet
  BY DEF OpenJournal, Quiet, logVars, graphVars
<1>1. /\ run[p].pc = "journal" /\ run[p] \in State /\ Told(run[p]) /\ Local(run[p]) /\ run[p].entry # None
      /\ run[p].done = 0
  BY AtWork DEF OpenJournal, Local, Fresh, Faithful
<1>2. PICK archive, s : s = [run[p] EXCEPT !.pc = "mirror", !.archive = archive] /\ Goto(p, s)
  BY DEF OpenJournal
<1>3. /\ s.pc = "mirror" /\ s.entry = run[p].entry /\ s.cmd = run[p].cmd /\ s.before = run[p].before
      /\ s.after = run[p].after /\ s.done = 0 /\ Subject(s) = Subject(run[p])
  BY <1>1, <1>2 DEF State, Subject
<1>4. Named(s)
  BY <1>1, <1>3 DEF Told, Named, Touched
<1>5. ASSUME Changing(s), Subject(s) \notin tainted
      PROVE  /\ LastWord(s) /\ Midway(s) /\ s.after = Now(Subject(s))
             /\ s.entry.kind = "relocate" =>
                   OwnerEdge(Subject(s), s.before) = OwnerEdge(Subject(s), Now(Subject(s)))
  <2>1. Changing(run[p])
    BY <1>1, <1>3, <1>5 DEF Changing, Telling
  <2>2. /\ LastWord(run[p]) /\ Before(run[p]) /\ s.after = Now(Subject(s))
        /\ s.entry.kind = "relocate" =>
              OwnerEdge(Subject(s), s.before) = OwnerEdge(Subject(s), Now(Subject(s)))
    BY <1>1, <1>3, <1>5, <2>1 DEF Told, Midst
  <2>3. LastWord(s) /\ Before(s)
    BY <1>3, <2>2 DEF LastWord, Before
  <2>4. \A write : ~Wrote(s, write)
    BY <1>3 DEF Wrote
  <2>5. Midway(s)
    <3>1. CASE IsReceipt(s.entry)
      BY <2>3, <2>4, <3>1 DEF Midway, Before, Unknown
    <3>2. CASE ~IsReceipt(s.entry)
      <4>1. IsEvent(s.entry) /\ Shows(Subject(s), s.before)
        BY <1>1, <1>3, <2>3, <3>2 DEF IsReceipt, IsEvent, Before
      <4> QED BY <1>3, <2>4, <4>1 DEF Midway, Shows
    <3> QED BY <3>1, <3>2
  <2> QED BY <2>2, <2>3, <2>5
<1>6. Told(s)
  BY <1>3, <1>4, <1>5 DEF Told, Midst, Expecting, Superseding
<1> QED BY <1>0, <1>1, <1>2, <1>3, <1>6, GoesOnFaithful DEF Telling

\* The log has one entry more.
Extends(entry) ==
    \/ entry \in Receipt /\ receipts' = Append(receipts, entry) /\ UNCHANGED events
    \/ entry \in Event /\ events' = Append(events, entry) /\ UNCHANGED receipts

\* The entry changes receipt n.
Changes(entry, n) == entry \in Event /\ entry.receipt = n /\ entry.kind \in {"relocate", "reclassify"}

\* The entries that were there stay where they are.
LEMMA ExtendsLog ==
    ASSUME IInv, NEW entry, Extends(entry)
    PROVE  /\ \A n \in DOMAIN receipts : n \in DOMAIN receipts' /\ receipts'[n] = receipts[n]
           /\ \A i \in DOMAIN events : i \in DOMAIN events' /\ events'[i] = events[i]
           /\ \A n \in DOMAIN receipts' : n \in DOMAIN receipts \/ (entry \in Receipt /\ n = Len(receipts) + 1)
           /\ \A i \in DOMAIN events' :
                 \/ i \in DOMAIN events
                 \/ entry \in Event /\ i = Len(events) + 1 /\ events'[i] = entry
<1>1. receipts \in Seq(Receipt) /\ events \in Seq(Event)
  BY DEF IInv, TypeOK
<1>2. CASE entry \in Receipt /\ receipts' = Append(receipts, entry) /\ UNCHANGED events
  BY <1>1, <1>2
<1>3. CASE entry \in Event /\ events' = Append(events, entry) /\ UNCHANGED receipts
  BY <1>1, <1>3
<1> QED BY <1>2, <1>3 DEF Extends

\* A receipt that the new entry does not change is what it was (Effective).
LEMMA ExtendsNow ==
    ASSUME IInv, NEW entry, Extends(entry), NEW n \in DOMAIN receipts, ~Changes(entry, n)
    PROVE  Effective(receipts', events', n) = Effective(receipts, events, n)
<1>1. receipts \in Seq(Receipt) /\ events \in Seq(Event) /\ n \in 1..Len(receipts)
  BY DEF IInv, TypeOK
<1>2. CASE entry \in Receipt /\ receipts' = Append(receipts, entry) /\ UNCHANGED events
  BY <1>1, <1>2, LaterFiled
<1>3. CASE entry \in Event /\ events' = Append(events, entry) /\ UNCHANGED receipts
  BY <1>1, <1>3, EffectiveSpared DEF Changes
<1> QED BY <1>2, <1>3 DEF Extends

\* What a command knows of a receipt that the entry is not about stays true.
LEMMA ExtendsTold ==
    ASSUME IInv, NEW t \in State, Local(t), Told(t), t.pc # "write", NEW entry, Extends(entry),
           Concerned(entry) \intersect Touched(t) \subseteq tainted,
           tainted \subseteq tainted', UNCHANGED <<revision, edges>>
    PROVE  Told(t)'
<1>1. \A n \in Touched(t) \ tainted' : ~Changes(entry, n) /\ n \notin Concerned(entry)
  <2>1. SUFFICES ASSUME NEW n \in Touched(t), n \notin tainted PROVE ~Changes(entry, n) /\ n \notin Concerned(entry)
    OBVIOUS
  <2>2. n \notin Concerned(entry)
    BY <2>1
  <2>3. ASSUME Changes(entry, n) PROVE n \in Concerned(entry)
    <3>1. ~IsReceipt(entry)
      BY <2>3 DEF Changes, IsReceipt
    <3> QED BY <2>3, <3>1 DEF Changes, Concerned
  <2> QED BY <2>2, <2>3
<1>2. Named(t)'
  BY DEF Told, Named, Concerned
<1>3. Expecting(t)'
  <2>1. SUFFICES ASSUME t.pc = "append", t.cmd.op # "add", t.cmd.receipt \notin tainted'
                 PROVE  t.cmd.receipt \in DOMAIN receipts' /\ t.before = Effective(receipts', events', t.cmd.receipt)
    BY DEF Expecting, Now
  <2>2. PICK n : n = t.cmd.receipt
    OBVIOUS
  <2>3. n \in DOMAIN receipts /\ t.before = Now(n)
    BY <2>1, <2>2 DEF Told, Expecting
  <2>4. n \in 1..Len(receipts)
    BY <2>3 DEF IInv, TypeOK
  <2>5. n \in Touched(t)
    BY <2>1, <2>2, <2>4 DEF Touched, Local, IsReceipt
  <2>6. ~Changes(entry, n)
    BY <1>1, <2>1, <2>2, <2>5
  <2> QED BY <2>2, <2>3, <2>6, ExtendsNow, ExtendsLog DEF Now
<1>4. Superseding(t)'
  BY DEF Told, Superseding, Marks
<1>5. Midst(t)'
  <2>1. SUFFICES ASSUME Changing(t), Subject(t) \notin tainted' PROVE Midst(t)'
    BY DEF Midst, Changing, Telling
  <2>2. PICK n : n = Subject(t)
    OBVIOUS
  <2>3. n \in Touched(t)
    BY <2>1, <2>2 DEF Told, Named, Concerned, Subject, Changing, Telling
  <2>4. ~Changes(entry, n) /\ n \notin Concerned(entry) /\ n \notin tainted
    BY <1>1, <2>1, <2>2, <2>3
  <2>5. n \in DOMAIN receipts
    <3>1. Logged(t.entry) /\ receipts \in Seq(Receipt)
      BY <2>1 DEF Local, Changing, Telling, IInv, TypeOK
    <3>2. CASE IsReceipt(t.entry)
      BY <2>2, <3>1, <3>2 DEF Logged, Subject, IsReceipt
    <3>3. CASE ~IsReceipt(t.entry)
      <4>1. Known(receipts, t.entry.receipt)
        BY <2>1, <3>1, <3>3 DEF Logged, IsReceipt, IInv, LogFormed, Changing, Telling
      <4> QED BY <2>2, <3>1, <3>3, <4>1 DEF Known, Subject
    <3> QED BY <3>2, <3>3
  <2>6. Effective(receipts', events', n) = Now(n)
    BY <2>4, <2>5, ExtendsNow DEF Now
  <2>7. Midst(t) /\ Changing(t) /\ Subject(t) \notin tainted
    BY <2>1, <2>2, <2>4 DEF Told
  <2>8. LastWord(t)'
    BY <2>2, <2>4, <2>7, ExtendsLog, ZenonT(60) DEF Midst, LastWord, Concerned
  <2>9. (t.pc # "mirror" => Before(t)') /\ (t.pc = "mirror" => Midway(t)')
    BY <2>7 DEF Midst, Before, Midway, Shows, Unknown, Reference, Wrote
  <2> QED BY <2>2, <2>6, <2>7, <2>8, <2>9 DEF Midst, Now
<1> QED BY <1>2, <1>3, <1>4, <1>5 DEF Told

\* A line that ends badly, since it follows one without its newline.
LEMMA SwallowedFaithful ==
    ASSUME IInv, Faithful, NEW p \in Proc, EndAppend(p), loose # None
    PROVE  Faithful'
<1>1. /\ run[p].pc = "write" /\ run[p].entry # None /\ Fail(p) /\ loose' = None
      /\ UNCHANGED <<receipts, events, revision, edges>>
  BY AtWork DEF EndAppend, Local, graphVars
<1>2. PICK s : s = Idle
  OBVIOUS
<1>3. Turns(p, s) /\ Touched(run[p]) \subseteq tainted' /\ tainted \subseteq tainted'
  BY <1>1, <1>2, EndTurns DEF Turns
<1>4. Still /\ Loosened'
  BY <1>1, <1>3 DEF Still, Loosened, IsReceipt
<1>5. \A q \in Proc \ {p} : NoLine(run[q])
  BY <1>1, HoldsAlone DEF NoLine, Locked
<1>6. Told(s)'
  BY <1>2, <1>4, BlankTold, StillTold DEF Blank, Idle, NoLine
<1> QED BY <1>3, <1>4, <1>5, <1>6, QuietFaithful

\* A line that ends well.
LEMMA EndAppendFaithful ==
    ASSUME IInv, Faithful, NEW p \in Proc, EndAppend(p), loose = None
    PROVE  Faithful'
<1>0. PICK entry : entry = run[p].entry
  OBVIOUS
<1>1. /\ run[p].pc = "write" /\ entry # None /\ Formed(entry) /\ Fits(entry) /\ entry \in Entry
      /\ run[p] \in State /\ Told(run[p]) /\ Named(run[p]) /\ Expecting(run[p]) /\ ~Telling(run[p])
      /\ IsEvent(entry) => entry.receipt = run[p].cmd.receipt
      /\ Concerned(entry) \subseteq Touched(run[p])
  BY <1>0, AtWork DEF EndAppend, Local, Formed, Faithful, Told, Named, Telling
<1>2. PICK s : s = [run[p] EXCEPT !.pc = "index"]
  OBVIOUS
<1>3. /\ Goto(p, s) /\ s.pc = "index" /\ s.entry = entry /\ s.cmd = run[p].cmd /\ s.before = run[p].before
      /\ UNCHANGED <<revision, edges>> /\ loose' = None /\ Subject(s) = Subject(run[p])
  BY <1>0, <1>1, <1>2 DEF EndAppend, State, graphVars, Subject
<1>4. Turns(p, s) /\ tainted \subseteq tainted'
  BY <1>3, GotoTurns DEF Turns
<1>5. run'[p] = s /\ \A q \in Proc \ {p} : run'[q] = run[q]
  BY <1>4 DEF Turns, IInv, TypeOK
<1>6. /\ receipts \in Seq(Receipt) /\ events \in Seq(Event) /\ Len(receipts) \in Nat /\ Len(events) \in Nat
  BY DEF IInv, TypeOK
<1>7. /\ IsReceipt(entry) => entry \in Receipt /\ entry \notin Event /\ entry.id = Len(receipts) + 1
                             /\ receipts' = Append(receipts, entry) /\ UNCHANGED events
      /\ ~IsReceipt(entry) => entry \in Event /\ entry \notin Receipt /\ entry.seq = Len(events) + 1
                              /\ Known(receipts, entry.receipt)
                              /\ events' = Append(events, entry) /\ UNCHANGED receipts
      /\ IsEvent(entry) <=> ~IsReceipt(entry)
  <2>1. IsEvent(entry) <=> ~IsReceipt(entry)
    BY <1>1 DEF IsReceipt, IsEvent
  <2>2. /\ IsReceipt(entry) => entry \in Receipt /\ entry \notin Event
        /\ ~IsReceipt(entry) => entry \in Event /\ entry \notin Receipt
    BY <1>1 DEF Entry, Receipt, Event, IsReceipt
  <2>3. /\ IsReceipt(entry) => entry.id = Len(receipts) + 1
        /\ ~IsReceipt(entry) => entry.seq = Len(events) + 1 /\ Known(receipts, entry.receipt)
    BY <1>1 DEF Fits, IsReceipt
  <2>4. /\ IsReceipt(entry) => receipts' = Append(receipts, entry) /\ UNCHANGED events
        /\ ~IsReceipt(entry) => events' = Append(events, entry) /\ UNCHANGED receipts
    BY <1>0, <1>1 DEF EndAppend
  <2> QED BY <2>1, <2>2, <2>3, <2>4
<1>8. Extends(entry)
  BY <1>7 DEF Extends
<1>9. \A q \in Proc \ {p} : Touched(run[q]) \intersect Touched(run[p]) \subseteq tainted
  BY DEF Faithful, Alone
<1>10. Named(s)'
  BY <1>0, <1>1, <1>3 DEF Named, Touched, Concerned
<1>11. Midst(s)'
  <2>1. SUFFICES ASSUME Changing(s), Subject(s) \notin tainted' PROVE Midst(s)'
    BY DEF Midst, Changing, Telling
  <2>2. CASE IsReceipt(entry)
    <3>1. Subject(s) = Len(receipts) + 1 /\ entry.kind # "relocate"
      BY <1>3, <1>7, <2>2 DEF Subject, IsReceipt
    <3>2. ASSUME NEW j \in DOMAIN events PROVE Subject(s) \notin Concerned(events[j])
      <4>1. Known(receipts, events[j].receipt) /\ ~IsReceipt(events[j])
        BY <1>6, LoggedEvents DEF IInv, LogFormed
      <4>2. events[j].kind = "supersede" => Known(receipts, events[j].old)
        BY DEF Faithful, Grounded
      <4> QED BY <1>6, <3>1, <4>1, <4>2 DEF Concerned, Known
    <3>3. LastWord(s)'
      BY <1>7, <2>2, <3>2 DEF LastWord, Concerned
    <3>4. Unknown(Subject(s))'
      BY <1>3, <1>6, <3>1 DEF Faithful, Grounded, Unknown
    <3> QED BY <1>3, <2>2, <3>1, <3>3, <3>4 DEF Midst, Before, Unknown
  <2>3. CASE ~IsReceipt(entry)
    <3>1. PICK n : n = Subject(s)
      OBVIOUS
    <3>2. /\ n = entry.receipt /\ n = run[p].cmd.receipt /\ n \in DOMAIN receipts /\ n \notin tainted
          /\ n \in Concerned(entry)
      BY <1>1, <1>3, <1>4, <1>6, <1>7, <2>1, <2>3, <3>1 DEF Subject, Known, Concerned
    <3>3. s.before = Now(n)
      <4>1. run[p].cmd.op # "add"
        BY <1>0, <1>1, <1>3, <1>7, <2>1, <2>3 DEF Named, Changing
      <4> QED BY <1>1, <1>3, <3>2, <4>1 DEF Expecting
    <3>4. Shows(n, Now(n))
      <4>1. ASSUME NEW q \in Proc, Changing(run[q]) PROVE Subject(run[q]) # n
        <5>1. q # p
          BY <1>1, <4>1 DEF Changing
        <5>2. Subject(run[q]) \in Touched(run[q])
          BY <4>1 DEF Faithful, Told, Named, Concerned, Subject, Changing, Telling
        <5> QED BY <1>1, <1>9, <3>2, <5>1, <5>2
      <4> QED BY <3>2, <4>1 DEF Faithful, Mirrored
    <3>5. Shows(n, s.before)'
      BY <1>3, <3>3, <3>4 DEF Shows, Reference
    <3>6. LastWord(s)'
      <4>1. IsEvent(s.entry) /\ entry.seq = Len(events) + 1 /\ s.entry = entry
        BY <1>3, <1>7, <2>3
      <4>2. DOMAIN events' = 1..(Len(events) + 1)
        BY <1>6, <1>7, <2>3
      <4>3. \A j \in DOMAIN events' : j <= entry.seq
        BY <1>6, <4>1, <4>2
      <4> QED BY <4>1, <4>3, Zenon DEF LastWord
    <3>7. entry.kind = "relocate" => OwnerEdge(n, s.before) = OwnerEdge(n, Effective(receipts', events', n))
      <4>1. SUFFICES ASSUME entry.kind = "relocate"
                     PROVE  OwnerEdge(n, s.before) = OwnerEdge(n, Effective(receipts', events', n))
        OBVIOUS
      <4>2. entry \in Event /\ events' = Append(events, entry) /\ receipts' = receipts
        BY <1>7, <2>3
      <4>3. /\ Effective(receipts, Append(events, entry), n).owner = Effective(receipts, events, n).owner
            /\ Effective(receipts, Append(events, entry), n).relation = Effective(receipts, events, n).relation
        BY <1>6, <4>1, <4>2, RelocateSpares
      <4> QED BY <3>3, <4>2, <4>3 DEF Now, OwnerEdge
    <3> QED BY <1>3, <2>3, <3>1, <3>5, <3>6, <3>7 DEF Midst, Before, Now
  <2> QED BY <2>2, <2>3
<1>12. Told(s)'
  BY <1>3, <1>10, <1>11 DEF Told, Expecting, Superseding
<1>13. ASSUME NEW q \in Proc PROVE Told(run[q])'
  <2>1. CASE q = p
    BY <1>5, <1>12, <2>1, StateTold
  <2>2. CASE q # p
    <3>1. PICK t \in State : t = run[q]
      BY AtWork
    <3>2. Local(t) /\ Told(t) /\ t.pc # "write"
      BY <1>1, <2>2, <3>1, AtWork, HoldsAlone DEF Faithful, Locked
    <3>3. Concerned(entry) \intersect Touched(t) \subseteq tainted
      BY <1>1, <1>9, <2>2, <3>1
    <3>4. Told(t)'
      BY <1>3, <1>4, <1>8, <3>2, <3>3, ExtendsTold
    <3> QED BY <1>5, <2>2, <3>1, <3>4, StateTold
  <2> QED BY <2>1, <2>2
<1>14. Alone' /\ Loosened'
  BY <1>3, <1>4, AloneStays DEF Faithful, Loosened, IsReceipt
<1>15. Grounded'
  <2>1. ASSUME NEW i \in DOMAIN events', events'[i].kind = "supersede" PROVE Known(receipts', events'[i].old)
    <3>1. CASE i \in DOMAIN events
      <4>1. Known(receipts, events[i].old) /\ events'[i] = events[i]
        BY <1>8, <2>1, <3>1, ExtendsLog DEF Faithful, Grounded
      <4> QED BY <1>6, <1>7, <4>1 DEF Known
    <3>2. CASE i \notin DOMAIN events
      <4>1. entry \in Event /\ events'[i] = entry
        BY <1>8, <3>2, ExtendsLog
      <4>2. Known(receipts, entry.old) /\ UNCHANGED receipts
        BY <1>1, <1>7, <2>1, <4>1 DEF Fits
      <4> QED BY <4>1, <4>2
    <3> QED BY <3>1, <3>2
  <2>2. DOMAIN receipts \subseteq DOMAIN receipts'
    BY <1>8, ExtendsLog
  <2> QED BY <1>3, <2>1, <2>2 DEF Faithful, Grounded
<1>16. Mirrored'
  <2>1. SUFFICES ASSUME NEW n \in DOMAIN receipts', n \notin tainted',
                        \A q \in Proc : Changing(run'[q]) => Subject(run'[q]) # n
                 PROVE  Shows(n, Effective(receipts', events', n))
    BY <1>3 DEF Mirrored, Shows, Now, Reference, Changing, Telling
  <2>2. ~(Changing(s) /\ Subject(s) = n)
    BY <1>5, <2>1
  <2>3. n \in DOMAIN receipts
    <3>1. CASE entry \in Receipt /\ n = Len(receipts) + 1
      BY <1>1, <1>3, <1>7, <2>2, <3>1 DEF Changing, Telling, Subject
    <3> QED BY <1>8, <3>1, ExtendsLog
  <2>4. ~Changes(entry, n)
    BY <1>1, <1>3, <1>7, <2>2 DEF Changes, Changing, Telling, Subject
  <2>5. ASSUME NEW q \in Proc, Changing(run[q]) PROVE Subject(run[q]) # n
    BY <1>1, <1>5, <2>1, <2>5 DEF Changing
  <2>6. Shows(n, Now(n))
    BY <1>4, <2>1, <2>3, <2>5 DEF Faithful, Mirrored
  <2> QED BY <1>8, <2>3, <2>4, <2>6, ExtendsNow DEF Now
<1>17. Marking'
  <2>1. SUFFICES ASSUME NEW i \in DOMAIN events', events'[i].kind = "supersede", Unchanged(i)',
                        events'[i].receipt \notin tainted', events'[i].old \notin tainted'
                 PROVE  Marked(events'[i]) \/ \E q \in Proc : Telling(run'[q]) /\ run'[q].entry = events'[i]
    BY <1>3 DEF Marking, Marked, Telling
  <2>2. CASE i \notin DOMAIN events
    <3>1. events'[i] = entry
      BY <1>8, <2>2, ExtendsLog
    <3> QED BY <1>1, <1>3, <1>5, <3>1 DEF Telling
  <2>3. CASE i \in DOMAIN events
    <3>1. events'[i] = events[i] /\ Unchanged(i)
      BY <1>8, <2>1, <2>3, ExtendsLog DEF Unchanged
    <3>2. Marked(events[i]) \/ \E q \in Proc : Telling(run[q]) /\ run[q].entry = events[i]
      BY <1>4, <2>1, <2>3, <3>1 DEF Faithful, Marking
    <3> QED BY <1>1, <1>5, <3>1, <3>2
  <2> QED BY <2>2, <2>3
<1> QED BY <1>13, <1>14, <1>15, <1>16, <1>17 DEF Faithful

\* The death of a command.
LEMMA DieFaithful ==
    ASSUME IInv, Faithful, NEW p \in Proc, Die(p)
    PROVE  Faithful'
<1>1. /\ Fail(p) /\ run[p] \in State /\ Local(run[p]) /\ Named(run[p])
      /\ UNCHANGED <<receipts, events, revision, edges>>
      /\ CutLine(p) \/ UNCHANGED loose
  BY AtWork DEF Die, graphVars, KeepTemporary, JustStop, Faithful, Told
<1>2. PICK s : s = Idle
  OBVIOUS
<1>3. Turns(p, s) /\ (run[p].entry # None => Touched(run[p]) \subseteq tainted') /\ tainted \subseteq tainted'
  BY <1>1, <1>2, EndTurns DEF Turns
<1>4. Still
  BY <1>1, <1>3 DEF Still
<1>5. Loosened' /\ \A q \in Proc \ {p} : NoLine(run[q])
  <2>1. CASE UNCHANGED loose
    BY <1>1, <1>3, <2>1 DEF Loosened, NoLine, Faithful, Concerned
  <2>2. CASE CutLine(p)
    <3>1. run[p].pc = "write" /\ run[p].entry # None
      BY <1>1, <2>2 DEF CutLine, Local
    <3>2. \A q \in Proc \ {p} : NoLine(run[q])
      BY <3>1, HoldsAlone DEF NoLine, Locked
    <3>3. CASE loose' = None
      BY <3>2, <3>3 DEF Loosened, IsReceipt
    <3>4. CASE loose = None /\ loose' = run[p].entry
      <4>1. IsReceipt(loose') => loose'.id = Len(receipts) + 1
        BY <1>1, <3>1, <3>4 DEF Local, Fits, IsReceipt
      <4>2. Concerned(loose') \subseteq tainted'
        BY <1>1, <1>3, <3>1, <3>4 DEF Named
      <4> QED BY <1>1, <3>2, <4>1, <4>2 DEF Loosened
    <3> QED BY <2>2, <3>3, <3>4 DEF CutLine
  <2> QED BY <1>1, <2>1, <2>2
<1>6. Told(s)'
  BY <1>2, <1>4, BlankTold, StillTold DEF Blank, Idle, NoLine
<1> QED BY <1>3, <1>4, <1>5, <1>6, QuietFaithful DEF Telling

\* The writes of mirror_ledger_receipt: the node first, then edges, the owner's
\* among them.
LEMMA ReceiptPlan ==
    ASSUME NEW s
    PROVE  LET plan == MirrorReceipt(s)
               n    == Subject(s) IN
           \E W : /\ plan \in Seq(W) /\ Len(plan) \in Nat /\ Len(plan) >= 1
                  /\ plan[1] = Write("revision", None)
                  /\ \E i \in 1..Len(plan) : plan[i] = Write("assert", OwnerEdge(n, s.after))
                  /\ \A i \in 2..Len(plan) :
                        \/ plan[i].op = "document"
                        \/ plan[i] = Write("assert", Edge(n, "REVISION_OF", s.after.document))
                        \/ plan[i] = Write("assert", OwnerEdge(n, s.after))
                        \/ s.archive # None /\ plan[i] = Write("assert", Edge(n, "REFERENCES_PROJECT", s.archive))
<1> DEFINE n == Subject(s)
           revised == Write("revision", None)
           filed   == Write("document", None)
           linked  == Write("assert", Edge(n, "REVISION_OF", s.after.document))
           owned   == Write("assert", OwnerEdge(n, s.after))
           kept    == Write("assert", Edge(n, "REFERENCES_PROJECT", s.archive))
           W == {revised, filed, linked, owned, kept}
           document == IF s.after.document = None THEN <<>> ELSE <<filed, linked>>
           archive  == IF s.archive \in {None, s.after.owner} THEN <<>> ELSE <<kept>>
<1>1. MirrorReceipt(s) = ((<<revised>> \o document) \o <<owned>>) \o archive
  BY DEF MirrorReceipt
<1>2. document \in {<<>>, <<filed, linked>>}
  OBVIOUS
<1>3. archive = <<>> \/ (s.archive # None /\ archive = <<kept>>)
  OBVIOUS
<1>4. filed.op = "document"
  BY DEF Write
<1>5. revised \in W /\ filed \in W /\ linked \in W /\ owned \in W /\ kept \in W
  OBVIOUS
<1> HIDE DEF document, archive, revised, filed, linked, owned, kept, W
<1>6. PICK head : head = <<revised>> \o document
  OBVIOUS
<1>7. /\ head \in Seq(W) /\ Len(head) \in {1, 3} /\ head[1] = revised
      /\ \A i \in 2..Len(head) : head[i] = filed \/ head[i] = linked
  <2>1. CASE document = <<>>
    BY <1>5, <1>6, <2>1
  <2>2. CASE document = <<filed, linked>>
    BY <1>5, <1>6, <2>2
  <2> QED BY <1>2, <2>1, <2>2
<1>8. PICK body : body = head \o <<owned>>
  OBVIOUS
<1>9. /\ body \in Seq(W) /\ Len(body) = Len(head) + 1 /\ body[Len(body)] = owned
      /\ \A i \in 1..Len(head) : body[i] = head[i]
  BY <1>5, <1>7, <1>8
<1>10. /\ Len(body) \in {2, 4} /\ body[1] = revised
       /\ \A i \in 2..Len(body) : body[i] = filed \/ body[i] = linked \/ body[i] = owned
  BY <1>7, <1>9
<1>11. PICK plan : plan = body \o archive
  OBVIOUS
<1>12. /\ plan \in Seq(W) /\ Len(plan) >= Len(body)
       /\ \A i \in 1..Len(body) : plan[i] = body[i]
       /\ \A i \in 1..Len(plan) : i <= Len(body) \/ (s.archive # None /\ plan[i] = kept)
  <2>1. CASE archive = <<>>
    BY <1>9, <1>11, <2>1
  <2>2. CASE s.archive # None /\ archive = <<kept>>
    BY <1>5, <1>9, <1>11, <2>2
  <2> QED BY <1>3, <2>1, <2>2
<1>13. plan = MirrorReceipt(s)
  BY <1>1, <1>6, <1>8, <1>11
<1>14. /\ Len(plan) \in Nat /\ Len(plan) >= 1 /\ plan[1] = revised
       /\ \E i \in 1..Len(plan) : plan[i] = owned
       /\ \A i \in 2..Len(plan) :
             plan[i] = filed \/ plan[i] = linked \/ plan[i] = owned \/ (s.archive # None /\ plan[i] = kept)
  <2>1. Len(plan) \in Nat /\ Len(body) \in 1..Len(plan) /\ plan[1] = body[1]
    BY <1>10, <1>12
  <2>2. plan[Len(body)] = owned
    BY <1>9, <1>12, <2>1
  <2>3. ASSUME NEW i \in 2..Len(plan)
        PROVE  plan[i] = filed \/ plan[i] = linked \/ plan[i] = owned \/ (s.archive # None /\ plan[i] = kept)
    BY <1>10, <1>12
  <2> QED BY <1>10, <1>12, <2>1, <2>2, <2>3
<1> QED BY <1>4, <1>12, <1>13, <1>14 DEF revised, filed, linked, owned, kept

\* The writes of a receipt, and those that follow the first of an event.
Asserts(s) ==
    {Write("assert", Edge(Subject(s), "REVISION_OF", s.after.document)),
     Write("assert", OwnerEdge(Subject(s), s.after))}
    \union (IF s.archive = None THEN {} ELSE {Write("assert", Edge(Subject(s), "REFERENCES_PROJECT", s.archive))})

\* The writes that tell of a receipt that changed: whatever is asserted follows
\* the node, and the edge that a reclassification retracts precedes it.
LEMMA ChangingPlan ==
    ASSUME NEW s, IsReceipt(s.entry) \/ (IsEvent(s.entry) /\ s.entry.kind \in {"relocate", "reclassify"})
    PROVE  LET plan == Plan(s)
               revised == Write("revision", None)
               reclassifies == IsEvent(s.entry) /\ s.entry.kind = "reclassify" IN
           /\ Len(plan) \in Nat
           /\ \E i \in 1..Len(plan) : plan[i] = revised
           /\ \E i \in 1..Len(plan) : plan[i] = Write("assert", OwnerEdge(Subject(s), s.after))
           /\ reclassifies => Len(plan) >= 2 /\ plan[1].op = "event" /\ plan[2].op = "retract"
           /\ \A i \in 1..Len(plan) :
                 \/ plan[i].op \in {"event", "document"}
                 \/ plan[i] = revised
                 \/ reclassifies /\ i = 2 /\ plan[i] = Write("retract", OwnerEdge(Subject(s), s.before))
                 \/ plan[i] \in Asserts(s) /\ \E j \in 1..(i - 1) : plan[j] = revised
<1> DEFINE revised == Write("revision", None)
           owned   == Write("assert", OwnerEdge(Subject(s), s.after))
           noted1  == Write("event", None)
           former  == Write("retract", OwnerEdge(Subject(s), s.before))
<1>1. PICK M : M = MirrorReceipt(s)
  OBVIOUS
<1>2. PICK W : /\ M \in Seq(W) /\ Len(M) \in Nat /\ Len(M) >= 1
               /\ M[1] = revised
               /\ \E i \in 1..Len(M) : M[i] = owned
               /\ \A i \in 2..Len(M) : M[i].op = "document" \/ M[i] \in Asserts(s)
  <2>1. PICK W : /\ M \in Seq(W) /\ Len(M) \in Nat /\ Len(M) >= 1
                 /\ M[1] = revised
                 /\ \E i \in 1..Len(M) : M[i] = owned
                 /\ \A i \in 2..Len(M) :
                        \/ M[i].op = "document"
                        \/ M[i] = Write("assert", Edge(Subject(s), "REVISION_OF", s.after.document))
                        \/ M[i] = Write("assert", OwnerEdge(Subject(s), s.after))
                        \/ s.archive # None /\ M[i] = Write("assert", Edge(Subject(s), "REFERENCES_PROJECT", s.archive))
    BY <1>1, ReceiptPlan
  <2> QED BY <2>1 DEF Asserts
<1>3. noted1.op = "event" /\ former.op = "retract"
  BY DEF Write
<1> HIDE DEF revised, owned, noted1, former
<1>4. CASE IsReceipt(s.entry)
  <2>1. Plan(s) = M /\ ~IsEvent(s.entry)
    BY <1>1, <1>4 DEF Plan, IsReceipt, IsEvent
  <2>2. ASSUME NEW i \in 1..Len(M)
        PROVE  M[i] = revised \/ M[i].op = "document" \/ (M[i] \in Asserts(s) /\ 1 \in 1..(i - 1))
    BY <1>2
  <2>3. 1 \in 1..Len(M)
    BY <1>2
  <2> QED BY <1>2, <2>1, <2>2, <2>3 DEF revised, owned
<1>5. CASE IsEvent(s.entry) /\ s.entry.kind = "relocate"
  <2>1. PICK plan : plan = <<noted1>> \o M
    OBVIOUS
  <2>2. Plan(s) = plan
    BY <1>1, <1>5, <2>1 DEF Plan, MirrorEvent, IsReceipt, IsEvent, noted1
  <2>3. /\ Len(plan) = Len(M) + 1 /\ plan[1] = noted1
        /\ \A i \in 1..Len(M) : plan[i + 1] = M[i]
    <3>1. M \in Seq(W \union {noted1}) /\ <<noted1>> \in Seq(W \union {noted1})
      BY <1>2
    <3> QED BY <1>2, <2>1, <3>1
  <2>4. plan[2] = revised /\ 2 \in 1..Len(plan)
    BY <1>2, <2>3
  <2>5. PICK k \in 1..Len(M) : M[k] = owned
    BY <1>2
  <2>6. plan[k + 1] = owned /\ k + 1 \in 1..Len(plan)
    BY <1>2, <2>3, <2>5
  <2>7. ASSUME NEW i \in 1..Len(plan)
        PROVE  \/ plan[i].op \in {"event", "document"} \/ plan[i] = revised
               \/ plan[i] \in Asserts(s) /\ 2 \in 1..(i - 1)
    <3>1. CASE i \in {1, 2}
      BY <1>3, <2>3, <2>4, <3>1
    <3>2. CASE i \notin {1, 2}
      <4>1. i - 1 \in 2..Len(M) /\ plan[i] = M[i - 1] /\ 2 \in 1..(i - 1)
        BY <1>2, <2>3, <3>2
      <4> QED BY <1>2, <4>1
    <3> QED BY <3>1, <3>2
  <2> QED BY SMTT(30), <1>2, <1>5, <2>2, <2>3, <2>4, <2>6, <2>7 DEF revised, owned
<1>6. CASE IsEvent(s.entry) /\ s.entry.kind = "reclassify"
  <2>0. PICK tail : tail = <<former>> \o M
    OBVIOUS
  <2>1. PICK plan : plan = <<noted1>> \o tail
    OBVIOUS
  <2>2. Plan(s) = plan
    BY <1>1, <1>6, <2>0, <2>1 DEF Plan, MirrorEvent, MirrorReclassify, IsReceipt, IsEvent, noted1, former
  <2>3. /\ Len(plan) = Len(M) + 2 /\ plan[1] = noted1 /\ plan[2] = former
        /\ \A i \in 1..Len(M) : plan[i + 2] = M[i]
    <3>1. PICK V : V = W \union {noted1, former}
      OBVIOUS
    <3>2. M \in Seq(V) /\ <<noted1>> \in Seq(V) /\ <<former>> \in Seq(V)
      BY <1>2, <3>1
    <3>3. tail \in Seq(V) /\ Len(tail) = Len(M) + 1 /\ tail[1] = former /\ \A i \in 1..Len(M) : tail[i + 1] = M[i]
      BY <1>2, <2>0, <3>2
    <3>4. Len(plan) = Len(tail) + 1 /\ plan[1] = noted1 /\ \A i \in 1..Len(tail) : plan[i + 1] = tail[i]
      BY <1>2, <2>1, <3>2, <3>3
    <3>5. ASSUME NEW i \in 1..Len(M) PROVE plan[i + 2] = M[i]
      <4>1. i + 1 \in 1..Len(tail) /\ (i + 1) + 1 = i + 2
        BY <1>2, <3>3
      <4>2. plan[(i + 1) + 1] = tail[i + 1]
        BY <3>4, <4>1
      <4> QED BY <3>3, <4>1, <4>2
    <3>6. 1 \in 1..Len(tail) /\ 1 + 1 = 2
      BY <1>2, <3>3
    <3>7. plan[1 + 1] = tail[1]
      BY <3>4, <3>6
    <3> QED BY <1>2, <3>3, <3>4, <3>5, <3>6, <3>7
  <2>4. plan[3] = revised /\ 3 \in 1..Len(plan) /\ Len(plan) \in Nat
    <3>1. 1 \in 1..Len(M) /\ 1 + 2 = 3
      BY <1>2
    <3>2. plan[1 + 2] = M[1]
      BY <2>3, <3>1
    <3> QED BY <1>2, <2>3, <3>1, <3>2
  <2>5. PICK k \in 1..Len(M) : M[k] = owned
    BY <1>2
  <2>6. plan[k + 2] = owned /\ k + 2 \in 1..Len(plan)
    BY <1>2, <2>3, <2>5
  <2>7. ASSUME NEW i \in 1..Len(plan)
        PROVE  \/ plan[i].op \in {"event", "document"} \/ plan[i] = revised
               \/ i = 2 /\ plan[i] = former
               \/ plan[i] \in Asserts(s) /\ 3 \in 1..(i - 1)
    <3>1. CASE i \in {1, 2, 3}
      BY <1>3, <2>3, <2>4, <3>1
    <3>2. CASE i \notin {1, 2, 3}
      <4>1. i - 2 \in 2..Len(M) /\ plan[i] = M[i - 2] /\ 3 \in 1..(i - 1)
        BY <1>2, <2>3, <3>2
      <4> QED BY <1>2, <4>1
    <3> QED BY <3>1, <3>2
  <2> QED BY <1>2, <1>3, <1>6, <2>2, <2>3, <2>4, <2>6, <2>7 DEF revised, owned, former
<1> QED BY <1>4, <1>5, <1>6

\* The writes that tell of a note or a supersession.
LEMMA OtherPlan ==
    ASSUME NEW s, IsEvent(s.entry), s.entry.kind \notin {"relocate", "reclassify"}
    PROVE  LET plan == Plan(s) IN
           /\ plan[1].op = "event"
           /\ s.entry.kind # "supersede" => Len(plan) = 1
           /\ s.entry.kind = "supersede" =>
                 /\ Len(plan) = 3 /\ plan[2].op = "superseded"
                 /\ plan[3] = Write("assert", Edge(Subject(s), "SUPERSEDES", s.entry.old))
<1> DEFINE noted1 == Write("event", None)
           marked == Write("superseded", None)
           linked == Write("assert", Edge(Subject(s), "SUPERSEDES", s.entry.old))
<1>0. noted1.op = "event" /\ marked.op = "superseded"
  BY DEF Write
<1>1. CASE s.entry.kind # "supersede"
  <2>1. Plan(s) = <<noted1>> \o <<>>
    BY <1>1 DEF Plan, MirrorEvent, IsReceipt, IsEvent
  <2> HIDE DEF noted1, marked, linked
  <2>2. Len(Plan(s)) = 1 /\ Plan(s)[1] = noted1
    BY <2>1
  <2> QED BY <1>0, <1>1, <2>2
<1>2. CASE s.entry.kind = "supersede"
  <2>1. PICK tail : tail = <<marked, linked>>
    OBVIOUS
  <2>2. Plan(s) = <<noted1>> \o tail
    BY <1>2, <2>1 DEF Plan, MirrorEvent, MirrorSupersede, IsReceipt, IsEvent
  <2> HIDE DEF noted1, marked, linked
  <2>3. PICK V : V = {noted1, marked, linked}
    OBVIOUS
  <2>4. tail \in Seq(V) /\ Len(tail) = 2 /\ tail[1] = marked /\ tail[2] = linked /\ <<noted1>> \in Seq(V)
    BY <2>1, <2>3
  <2>5. PICK plan : plan = <<noted1>> \o tail
    OBVIOUS
  <2>6. /\ Len(plan) = Len(tail) + 1 /\ plan[1] = noted1
        /\ \A i \in 1..Len(tail) : plan[i + 1] = tail[i]
    <3>1. tail \in Seq(V) /\ <<noted1>> \in Seq(V)
      BY <2>4
    <3> QED BY <2>5, <3>1
  <2>7. 1 \in 1..2 /\ 2 \in 1..2 /\ 1 + 1 = 2 /\ 2 + 1 = 3
    OBVIOUS
  <2>8. plan[1 + 1] = marked /\ plan[2 + 1] = linked
    BY <2>4, <2>6, <2>7
  <2> QED BY <1>0, <1>2, <2>2, <2>4, <2>5, <2>6, <2>7, <2>8 DEF linked
<1> QED BY <1>1, <1>2

\* The next write retracts the edge to the former owner.
Reclassified(s) == IsEvent(s.entry) /\ s.entry.kind = "reclassify" /\ s.done = 1

\* One write of the mirror, and what has been written before it.
LEMMA WriteCases ==
    ASSUME IInv, NEW r \in State, Local(r), r.pc = "mirror", NEW w,
           r.done < Len(Plan(r)), w = Plan(r)[r.done + 1], Apply(r, w)
    PROVE  \/ /\ UNCHANGED <<revision, edges>>
              /\ w.op \in {"event", "document"} /\ (Marks(r) => r.done = 0)
              /\ Changing(r) => ~Reclassified(r)
           \/ /\ Changing(r) /\ w = Write("revision", None) /\ ~Reclassified(r)
              /\ revision' = Upsert(Subject(r), ReceiptNode(r)) /\ UNCHANGED edges
           \/ /\ Changing(r) /\ Reclassified(r)
              /\ ~Wrote(r, Write("assert", OwnerEdge(Subject(r), r.after))) /\ w.op = "retract"
              /\ edges' = edges \ {OwnerEdge(Subject(r), r.before)} /\ UNCHANGED revision
           \/ /\ Changing(r) /\ w \in Asserts(r) /\ Wrote(r, Write("revision", None)) /\ ~Reclassified(r)
              /\ edges' = edges \union {w.edge} /\ UNCHANGED revision
           \/ /\ Marks(r) /\ ~Changing(r) /\ r.done = 1
              /\ revision' = Upsert(r.entry.old, SupersededNode(r.entry.old)) /\ UNCHANGED edges
           \/ /\ Marks(r) /\ ~Changing(r) /\ r.done = 2
              /\ edges' = edges \union {Edge(Subject(r), "SUPERSEDES", r.entry.old)} /\ UNCHANGED revision
<1>1. r.entry # None /\ r.done \in Nat /\ (IsReceipt(r.entry) \/ IsEvent(r.entry))
  BY DEF Local, State, IsReceipt, IsEvent
<1>2. CASE Changing(r)
  <2>1. PICK plan : plan = Plan(r)
    OBVIOUS
  <2>2. IsReceipt(r.entry) \/ (IsEvent(r.entry) /\ r.entry.kind \in {"relocate", "reclassify"})
    BY <1>1, <1>2 DEF Changing, Telling
  <2>3. ~Marks(r)
    BY <2>2 DEF Marks, IsReceipt, IsEvent
  <2>4. PICK i : i = r.done + 1
    OBVIOUS
  <2>5. /\ Len(plan) \in Nat
        /\ IsEvent(r.entry) /\ r.entry.kind = "reclassify" => plan[1].op = "event" /\ plan[2].op = "retract"
        /\ \A k \in 1..Len(plan) :
              \/ plan[k].op \in {"event", "document"}
              \/ plan[k] = Write("revision", None)
              \/ /\ IsEvent(r.entry) /\ r.entry.kind = "reclassify" /\ k = 2
                 /\ plan[k] = Write("retract", OwnerEdge(Subject(r), r.before))
              \/ plan[k] \in Asserts(r) /\ \E j \in 1..(k - 1) : plan[j] = Write("revision", None)
    BY <2>1, <2>2, ChangingPlan, Zenon
  <2>6. i \in 1..Len(plan) /\ i - 1 = r.done /\ w = plan[i]
    BY <1>1, <2>1, <2>4, <2>5
  <2>11. Reclassified(r) => w.op = "retract"
    BY <2>4, <2>5, <2>6 DEF Reclassified
  <2>7. CASE w.op \in {"event", "document"}
    BY <2>3, <2>7, <2>11 DEF Apply
  <2>8. CASE w = Write("revision", None)
    <3>1. w.op = "revision"
      BY <2>8 DEF Write
    <3> QED BY <1>2, <2>8, <2>11, <3>1 DEF Apply
  <2>9. CASE /\ IsEvent(r.entry) /\ r.entry.kind = "reclassify" /\ i = 2
             /\ w = Write("retract", OwnerEdge(Subject(r), r.before))
    <3>1. w.op = "retract" /\ w.edge = OwnerEdge(Subject(r), r.before) /\ r.done = 1
      BY <1>1, <2>4, <2>9 DEF Write
    <3>2. ~Wrote(r, Write("assert", OwnerEdge(Subject(r), r.after)))
      BY <2>1, <2>5, <2>9, <3>1 DEF Wrote, Write
    <3> QED BY <1>2, <2>9, <3>1, <3>2 DEF Apply, Reclassified
  <2>10. CASE w \in Asserts(r) /\ \E j \in 1..(i - 1) : plan[j] = Write("revision", None)
    <3>1. w.op = "assert"
      BY <2>10 DEF Asserts, Write
    <3>2. Wrote(r, Write("revision", None))
      BY <2>1, <2>6, <2>10 DEF Wrote
    <3> QED BY <1>2, <2>10, <2>11, <3>1, <3>2 DEF Apply
  <2> QED BY <2>5, <2>6, <2>7, <2>8, <2>9, <2>10
<1>3. CASE ~Changing(r)
  <2>1. IsEvent(r.entry) /\ r.entry.kind \notin {"relocate", "reclassify"}
    BY <1>1, <1>3 DEF Changing, Telling
  <2>2. PICK plan : plan = Plan(r)
    OBVIOUS
  <2>3. /\ plan[1].op = "event"
        /\ r.entry.kind # "supersede" => Len(plan) = 1
        /\ r.entry.kind = "supersede" =>
              /\ Len(plan) = 3 /\ plan[2].op = "superseded"
              /\ plan[3] = Write("assert", Edge(Subject(r), "SUPERSEDES", r.entry.old))
    BY <2>1, <2>2, OtherPlan
  <2>4. CASE r.done = 0
    BY <1>3, <2>2, <2>3, <2>4 DEF Apply
  <2>5. CASE r.done = 1
    <3>1. r.entry.kind = "supersede" /\ w.op = "superseded"
      BY <2>2, <2>3, <2>5
    <3> QED BY <1>3, <2>1, <2>5, <3>1 DEF Apply, Marks
  <2>6. CASE r.done = 2
    <3>1. r.entry.kind = "supersede" /\ w = Write("assert", Edge(Subject(r), "SUPERSEDES", r.entry.old))
      BY <2>2, <2>3, <2>6
    <3>2. w.op = "assert" /\ w.edge = Edge(Subject(r), "SUPERSEDES", r.entry.old)
      BY <3>1 DEF Write
    <3> QED BY <1>3, <2>1, <2>6, <3>1, <3>2 DEF Apply, Marks
  <2>7. r.done \in {0, 1, 2}
    BY <1>1, <2>2, <2>3
  <2> QED BY <2>4, <2>5, <2>6, <2>7
<1> QED BY <1>2, <1>3

\* The graph has of receipt m what it had; it shows of it what it showed.
Untouched(m) ==
    /\ m \in DOMAIN revision' <=> m \in DOMAIN revision
    /\ m \in DOMAIN revision => revision'[m] = revision[m]
    /\ \A e : e.from = m => (e \in edges' <=> e \in edges)

Spares(m) ==
    /\ m \in DOMAIN revision =>
          m \in DOMAIN revision' /\ revision'[m].view = revision[m].view
                                 /\ revision'[m].archives = revision[m].archives
    /\ \A e : e.from = m /\ e.kind \in OwnerKinds => (e \in edges' <=> e \in edges)

\* A node that is written is the one of that name.
LEMMA Upserted ==
    ASSUME NEW n, NEW node, revision' = Upsert(n, node)
    PROVE  /\ DOMAIN revision' = DOMAIN revision \union {n} /\ revision'[n] = node
           /\ \A m \in DOMAIN revision \ {n} : revision'[m] = revision[m]
  BY DEF Upsert

\* The fields of an edge.
LEMMA EdgeFields ==
    ASSUME NEW n, NEW kind, NEW to, NEW view
    PROVE  /\ Edge(n, kind, to).from = n /\ Edge(n, kind, to).kind = kind /\ Edge(n, kind, to).to = to
           /\ OwnerEdge(n, view).from = n /\ OwnerEdge(n, view).kind \in OwnerKinds
  BY DEF Edge, OwnerEdge, EdgeKind, OwnerKinds

\* A command writes about the receipts of its entry only, and about the owner of
\* one only when the entry changes it.
LEMMA WritesOwn ==
    ASSUME IInv, NEW r \in State, Local(r), r.pc = "mirror", NEW w,
           r.done < Len(Plan(r)), w = Plan(r)[r.done + 1], Apply(r, w)
    PROVE  /\ \A m : m \notin Concerned(r.entry) => Untouched(m)
           /\ \A m : ~(Changing(r) /\ m = Subject(r)) => Spares(m)
           /\ \A e \in edges : e.kind = "SUPERSEDES" => e \in edges'
           /\ \A m \in DOMAIN revision : revision[m].status = "superseded" /\ ~(Changing(r) /\ m = Subject(r)) =>
                 m \in DOMAIN revision' /\ revision'[m].status = "superseded"
<1>1. Subject(r) \in Concerned(r.entry)
  BY DEF Subject, Concerned
<1>2. Marks(r) => r.entry.old \in Concerned(r.entry)
  BY DEF Marks, Concerned, IsReceipt, IsEvent
<1>3. CASE UNCHANGED <<revision, edges>>
  BY <1>3 DEF Untouched, Spares
<1>4. CASE Changing(r) /\ revision' = Upsert(Subject(r), ReceiptNode(r)) /\ UNCHANGED edges
  <2>1. PICK n, node : n = Subject(r) /\ node = ReceiptNode(r)
    OBVIOUS
  <2>2. /\ DOMAIN revision' = DOMAIN revision \union {n} /\ revision'[n] = node
        /\ \A m \in DOMAIN revision \ {n} : revision'[m] = revision[m]
    BY <1>4, <2>1, Upserted
  <2> QED BY <1>1, <1>4, <2>1, <2>2 DEF Untouched, Spares
<1>5. CASE Changing(r) /\ edges' = edges \ {OwnerEdge(Subject(r), r.before)} /\ UNCHANGED revision
  <2>1. /\ OwnerEdge(Subject(r), r.before).from = Subject(r)
        /\ OwnerEdge(Subject(r), r.before).kind # "SUPERSEDES"
    BY DEF OwnerEdge, Edge, EdgeKind
  <2> QED BY <1>1, <1>5, <2>1 DEF Untouched, Spares
<1>6. CASE Changing(r) /\ w \in Asserts(r) /\ edges' = edges \union {w.edge} /\ UNCHANGED revision
  <2>1. w.edge.from = Subject(r)
    BY <1>6 DEF Asserts, Write, OwnerEdge, Edge
  <2> QED BY <1>1, <1>6, <2>1 DEF Untouched, Spares
<1>7. CASE /\ Marks(r) /\ revision' = Upsert(r.entry.old, SupersededNode(r.entry.old)) /\ UNCHANGED edges
  <2>1. PICK old, node : old = r.entry.old /\ node = SupersededNode(old)
    OBVIOUS
  <2>2. /\ DOMAIN revision' = DOMAIN revision \union {old} /\ revision'[old] = node
        /\ \A m \in DOMAIN revision \ {old} : revision'[m] = revision[m]
    BY <1>7, <2>1, Upserted
  <2>3. /\ old \in DOMAIN revision => node.view = revision[old].view /\ node.archives = revision[old].archives
        /\ node.status = "superseded"
    <3>1. old \in DOMAIN revision => revision[old] \in Node
      BY DEF IInv, TypeOK
    <3> QED BY <2>1, <3>1 DEF SupersededNode, Node
  <2> QED BY <1>2, <1>7, <2>1, <2>2, <2>3 DEF Untouched, Spares
<1>8. CASE /\ Marks(r) /\ edges' = edges \union {Edge(Subject(r), "SUPERSEDES", r.entry.old)} /\ UNCHANGED revision
  <2>1. PICK e : e = Edge(Subject(r), "SUPERSEDES", r.entry.old)
    OBVIOUS
  <2>2. e.from = Subject(r) /\ e.kind \notin OwnerKinds
    BY <2>1 DEF Edge, OwnerKinds
  <2> QED BY <1>1, <1>8, <2>1, <2>2 DEF Untouched, Spares
<1> QED BY <1>3, <1>4, <1>5, <1>6, <1>7, <1>8, WriteCases

\* What the graph shows of such a receipt it still shows.
LEMMA SparedShows ==
    ASSUME NEW m, NEW view, Spares(m), Shows(m, view)
    PROVE  Shows(m, view)'
<1>1. OwnerEdge(m, view).from = m /\ OwnerEdge(m, view).kind \in OwnerKinds
  BY EdgeFields
<1>2. OwnerEdge(m, view) \in edges'
  BY <1>1 DEF Spares, Shows
<1>3. ASSUME NEW e \in edges', e.from = m, e.kind \in OwnerKinds
      PROVE  e = OwnerEdge(m, view) \/ (e.kind = "REFERENCES_PROJECT" /\ m \in DOMAIN revision' /\ e.to \in revision'[m].archives)
  <2>1. e \in edges
    BY <1>3 DEF Spares
  <2>2. e = OwnerEdge(m, view) \/ Reference(e)
    BY <1>3, <2>1 DEF Shows
  <2> QED BY <1>3, <2>2 DEF Spares, Reference
<1> QED BY <1>2, <1>3 DEF Shows, Spares, Reference

\* The receipts that a written entry is about are in the log.
LEMMA Filed ==
    ASSUME IInv, Faithful, NEW t \in State, Local(t), Telling(t)
    PROVE  Concerned(t.entry) \subseteq DOMAIN receipts
<1>1. Logged(t.entry) /\ receipts \in Seq(Receipt) /\ events \in Seq(Event)
  BY DEF Local, Telling, IInv, TypeOK
<1>2. CASE IsReceipt(t.entry)
  BY <1>1, <1>2 DEF Logged, Concerned, IsReceipt
<1>3. CASE ~IsReceipt(t.entry)
  <2>1. /\ t.entry.seq \in 1..Len(events) /\ events[t.entry.seq] = t.entry
    BY <1>1, <1>3 DEF Logged, IsReceipt, Telling
  <2>2. Known(receipts, t.entry.receipt)
    BY <2>1 DEF IInv, LogFormed
  <2>3. t.entry.kind = "supersede" => Known(receipts, t.entry.old)
    BY <1>1, <2>1 DEF Faithful, Grounded
  <2> QED BY <1>1, <1>3, <2>2, <2>3 DEF Known, Concerned
<1> QED BY <1>2, <1>3

\* What another command knows.
LEMMA MirrorTold ==
    ASSUME IInv, NEW t \in State, Local(t), Told(t), tainted \subseteq tainted',
           UNCHANGED <<receipts, events, loose>>,
           \A m \in Touched(t) \ tainted : Untouched(m),
           \A e \in edges : e.kind = "SUPERSEDES" => e \in edges'
    PROVE  Told(t)'
<1>1. Named(t)' /\ Expecting(t)'
  BY DEF Told, Named, Concerned, Expecting, Now
<1>2. Superseding(t)'
  <2>1. SUFFICES ASSUME Marks(t), t.pc = "mirror", t.entry.old \notin tainted'
                 PROVE  Superseding(t)'
    BY DEF Superseding, Marks
  <2>2. t.entry.old \in Touched(t) /\ t.entry.old \notin tainted
    BY <2>1 DEF Told, Named, Concerned, Marks, IsEvent, IsReceipt
  <2>3. Untouched(t.entry.old)
    BY <2>2
  <2>4. Edge(t.entry.receipt, "SUPERSEDES", t.entry.old) \in edges =>
            Edge(t.entry.receipt, "SUPERSEDES", t.entry.old) \in edges'
    BY EdgeFields
  <2> QED BY <2>1, <2>2, <2>3, <2>4 DEF Told, Superseding, Untouched
<1>3. Midst(t)'
  <2>1. SUFFICES ASSUME Changing(t), Subject(t) \notin tainted' PROVE Midst(t)'
    BY DEF Midst, Changing, Telling
  <2>2. PICK n : n = Subject(t)
    OBVIOUS
  <2>3. n \in Touched(t) /\ n \notin tainted
    BY <2>1, <2>2 DEF Told, Named, Concerned, Subject, Changing, Telling
  <2>4. Untouched(n) /\ Midst(t)
    BY <2>3 DEF Told
  <2>5. \A e : e.from = n => (Reference(e) <=> Reference(e)')
    BY <2>4 DEF Untouched, Reference
  <2>6. Unknown(n) => Unknown(n)'
    BY <2>4 DEF Untouched, Unknown
  <2>7. ASSUME NEW view, Shows(n, view) PROVE Shows(n, view)'
    BY <2>4, <2>5, <2>7, EdgeFields DEF Untouched, Shows
  <2>8. Midway(t) => Midway(t)'
    BY <2>2, <2>4, <2>5, EdgeFields DEF Untouched, Midway, Wrote
  <2>9. Before(t) => Before(t)'
    BY <2>2, <2>6, <2>7 DEF Before
  <2> QED BY <2>1, <2>2, <2>3, <2>4, <2>8, <2>9 DEF Midst, LastWord, Concerned, Now
<1> QED BY <1>1, <1>2, <1>3 DEF Told

\* What a command writes does not depend on what it has written.
LEMMA SamePlan ==
    ASSUME NEW s, NEW r, s.entry = r.entry, s.before = r.before, s.after = r.after, s.archive = r.archive
    PROVE  Plan(s) = Plan(r)
<1>1. Subject(s) = Subject(r)
  BY DEF Subject
<1>2. PICK n, after, archive, before, old :
          n = Subject(s) /\ after = s.after /\ archive = s.archive /\ before = s.before /\ old = s.entry.old
  OBVIOUS
<1>3. MirrorReceipt(s) = MirrorReceipt(r)
  <2> DEFINE doc == IF after.document = None THEN <<>>
                    ELSE <<Write("document", None), Write("assert", Edge(n, "REVISION_OF", after.document))>>
             own == <<Write("assert", OwnerEdge(n, after))>>
             ref == IF archive \in {None, after.owner} THEN <<>>
                    ELSE <<Write("assert", Edge(n, "REFERENCES_PROJECT", archive))>>
  <2>1. MirrorReceipt(s) = <<Write("revision", None)>> \o doc \o own \o ref
    BY <1>2 DEF MirrorReceipt
  <2>2. n = Subject(r) /\ after = r.after /\ archive = r.archive
    BY <1>1, <1>2
  <2>3. MirrorReceipt(r) = <<Write("revision", None)>> \o doc \o own \o ref
    BY <2>2 DEF MirrorReceipt
  <2> QED BY <2>1, <2>3
<1>4. MirrorReclassify(s) = MirrorReclassify(r)
  <2>1. n = Subject(r) /\ before = r.before
    BY <1>1, <1>2
  <2>2. MirrorReclassify(s) = <<Write("retract", OwnerEdge(n, before))>> \o MirrorReceipt(s)
    BY <1>2 DEF MirrorReclassify
  <2>3. MirrorReclassify(r) = <<Write("retract", OwnerEdge(n, before))>> \o MirrorReceipt(r)
    BY <2>1 DEF MirrorReclassify
  <2> QED BY <1>3, <2>2, <2>3
<1>5. MirrorSupersede(s) = MirrorSupersede(r)
  <2>1. n = Subject(r) /\ old = r.entry.old
    BY <1>1, <1>2
  <2> DEFINE both == <<Write("superseded", None), Write("assert", Edge(n, "SUPERSEDES", old))>>
  <2>2. MirrorSupersede(s) = both
    BY <1>2 DEF MirrorSupersede
  <2>3. MirrorSupersede(r) = both
    BY <2>1 DEF MirrorSupersede
  <2> QED BY <2>2, <2>3
<1>6. MirrorEvent(s) = MirrorEvent(r)
  <2>1. PICK kind, c, v, m : kind = r.entry.kind /\ c = MirrorReclassify(r) /\ v = MirrorReceipt(r) /\ m = MirrorSupersede(r)
    OBVIOUS
  <2> DEFINE rest == CASE kind = "reclassify" -> c [] kind = "relocate" -> v [] kind = "supersede" -> m [] OTHER -> <<>>
  <2>2. kind = s.entry.kind /\ c = MirrorReclassify(s) /\ v = MirrorReceipt(s) /\ m = MirrorSupersede(s)
    BY <1>3, <1>4, <1>5, <2>1
  <2>3. MirrorEvent(s) = <<Write("event", None)>> \o rest
    BY <2>2 DEF MirrorEvent
  <2>4. MirrorEvent(r) = <<Write("event", None)>> \o rest
    BY <2>1 DEF MirrorEvent
  <2> QED BY <2>3, <2>4
<1> QED BY <1>3, <1>6 DEF Plan

\* What the command knows that writes.
LEMMA WriterTold ==
    ASSUME IInv, NEW r \in State, Local(r), Told(r), r.pc = "mirror", NEW w,
           r.done < Len(Plan(r)), w = Plan(r)[r.done + 1], Apply(r, w),
           tainted \subseteq tainted', UNCHANGED <<receipts, events, loose>>,
           NEW s, s = [r EXCEPT !.done = @ + 1]
    PROVE  Told(s)'
<1>1. /\ s.pc = "mirror" /\ s.cmd = r.cmd /\ s.entry = r.entry /\ s.before = r.before /\ s.after = r.after
      /\ s.archive = r.archive /\ s.done = r.done + 1 /\ r.done \in Nat /\ Subject(s) = Subject(r)
  BY DEF State, Subject
<1>2. Plan(s) = Plan(r)
  BY <1>1, SamePlan
<1>3. ASSUME NEW x PROVE Wrote(s, x) => Wrote(r, x) \/ w = x
  BY <1>1, <1>2 DEF Wrote
<1>4. Named(s)' /\ Expecting(s)'
  BY <1>1 DEF Told, Named, Touched, Concerned, Expecting
<1>5. Superseding(s)'
  <2>1. SUFFICES ASSUME Marks(s), s.entry.old \notin tainted'
                 PROVE  /\ s.done >= 2 => s.entry.old \in DOMAIN revision' /\ revision'[s.entry.old].status = "superseded"
                        /\ s.done >= 3 => Edge(s.entry.receipt, "SUPERSEDES", s.entry.old) \in edges'
    BY DEF Superseding, Marks
  <2>2. Marks(r) /\ r.entry.old \notin tainted /\ ~Changing(r) /\ Subject(r) = r.entry.receipt
    BY <1>1, <2>1 DEF Marks, Changing, Telling, Subject, IsReceipt, IsEvent
  <2>3. /\ r.done >= 2 => r.entry.old \in DOMAIN revision /\ revision[r.entry.old].status = "superseded"
        /\ r.done >= 3 => Edge(r.entry.receipt, "SUPERSEDES", r.entry.old) \in edges
    BY <2>2 DEF Told, Superseding
  <2>4. CASE r.done = 0
    BY <1>1, <2>4
  <2>5. CASE r.done = 1 /\ revision' = Upsert(r.entry.old, SupersededNode(r.entry.old))
    <3>1. SupersededNode(r.entry.old).status = "superseded"
      <4>1. r.entry.old \in DOMAIN revision => revision[r.entry.old] \in Node
        BY DEF IInv, TypeOK
      <4> QED BY <4>1 DEF SupersededNode, Node
    <3> QED BY <1>1, <2>5, <3>1 DEF Upsert
  <2>6. CASE r.done = 2 /\ edges' = edges \union {Edge(Subject(r), "SUPERSEDES", r.entry.old)} /\ UNCHANGED revision
    BY <1>1, <2>2, <2>3, <2>6
  <2> QED BY <2>2, <2>4, <2>5, <2>6, WriteCases
<1>6. Midst(s)'
  <2>1. SUFFICES ASSUME Changing(s), Subject(s) \notin tainted' PROVE Midst(s)'
    BY DEF Midst, Changing, Telling
  <2>2. PICK n : n = Subject(r)
    OBVIOUS
  <2>3. Changing(r) /\ n \notin tainted /\ ~Marks(r) /\ Midst(r)
    BY <1>1, <2>1, <2>2 DEF Changing, Telling, Marks, Told, IsReceipt, IsEvent
  <2>4. Midway(r)
    BY <2>2, <2>3 DEF Midst
  <2>5. PICK revised, owned : revised = Write("revision", None) /\ owned = Write("assert", OwnerEdge(n, r.after))
    OBVIOUS
  <2>6. revised.op = "revision" /\ owned.op = "assert" /\ owned.edge = OwnerEdge(n, r.after)
    BY <2>5 DEF Write
  <2>7. Midway(s)'
    <3>1. SUFFICES /\ Wrote(s, revised) =>
                         /\ n \in DOMAIN revision' /\ revision'[n].view = r.after
                         /\ r.archive # None => r.archive \in revision'[n].archives
                   /\ Wrote(s, owned) => OwnerEdge(n, r.after) \in edges'
                   /\ \A e \in edges' : e.from = n /\ e.kind \in OwnerKinds =>
                         \/ e = OwnerEdge(n, r.after) \/ Reference(e)'
                         \/ IsEvent(r.entry) /\ e = OwnerEdge(n, r.before)
                                             /\ (r.entry.kind = "reclassify" => r.done + 1 < 2)
      BY <1>1, <2>2, <2>5 DEF Midway, Wrote
    <3>2. /\ Wrote(r, revised) =>
                /\ n \in DOMAIN revision /\ revision[n].view = r.after
                /\ r.archive # None => r.archive \in revision[n].archives
          /\ Wrote(r, owned) => OwnerEdge(n, r.after) \in edges
          /\ \A e \in edges : e.from = n /\ e.kind \in OwnerKinds =>
                \/ e = OwnerEdge(n, r.after) \/ Reference(e)
                \/ IsEvent(r.entry) /\ e = OwnerEdge(n, r.before)
                                    /\ (r.entry.kind = "reclassify" => r.done < 2)
      BY <2>2, <2>4, <2>5 DEF Midway
    <3> DEFINE Live(e) == e.from = n /\ e.kind \in OwnerKinds
               Old(e)  == IsEvent(r.entry) /\ e = OwnerEdge(n, r.before)
    <3>3. CASE /\ UNCHANGED <<revision, edges>> /\ w.op \in {"event", "document"}
               /\ ~Reclassified(r)
      <4>1. w # revised /\ w # owned
        BY <2>6, <3>3
      <4>2. IsEvent(r.entry) /\ r.entry.kind = "reclassify" => r.done # 1
        BY <3>3 DEF Reclassified
      <4> QED BY <1>1, <1>3, <3>2, <3>3, <4>1, <4>2 DEF Reference
    <3>4. CASE w = revised /\ ~Reclassified(r) /\ revision' = Upsert(n, ReceiptNode(r)) /\ UNCHANGED edges
      <4>1. PICK node : node = ReceiptNode(r)
        OBVIOUS
      <4>2. /\ node.view = r.after
            /\ r.archive # None => r.archive \in node.archives
            /\ n \in DOMAIN revision => revision[n].archives \subseteq node.archives
        BY <2>2, <4>1 DEF ReceiptNode
      <4>3. /\ DOMAIN revision' = DOMAIN revision \union {n} /\ revision'[n] = node
            /\ \A m \in DOMAIN revision \ {n} : revision'[m] = revision[m]
        BY <3>4, <4>1, Upserted
      <4>4. w # owned
        BY <2>6, <3>4
      <4>5. IsEvent(r.entry) /\ r.entry.kind = "reclassify" => r.done # 1
        BY <3>4 DEF Reclassified
      <4>6. \A e : e.from = n /\ Reference(e) => Reference(e)'
        BY <4>2, <4>3 DEF Reference
      <4> QED BY <1>1, <1>3, <3>2, <3>4, <4>2, <4>3, <4>4, <4>5, <4>6
    <3>5. CASE /\ Reclassified(r)
               /\ ~Wrote(r, owned) /\ w.op = "retract"
               /\ edges' = edges \ {OwnerEdge(n, r.before)} /\ UNCHANGED revision
      <4>1. w # revised /\ w # owned
        BY <2>6, <3>5
      <4> QED BY <1>1, <1>3, <3>2, <3>5, <4>1 DEF Reference
    <3>6. CASE w \in Asserts(r) /\ Wrote(r, revised) /\ ~Reclassified(r) /\ edges' = edges \union {w.edge} /\ UNCHANGED revision
      <4>1. w # revised
        BY <2>6, <3>6 DEF Asserts, Write
      <4>2. w = owned => w.edge = OwnerEdge(n, r.after)
        BY <2>6
      <4>3. IsEvent(r.entry) /\ r.entry.kind = "reclassify" => r.done # 1
        BY <3>6 DEF Reclassified
      <4>4. /\ Wrote(s, revised) =>
                  /\ n \in DOMAIN revision' /\ revision'[n].view = r.after
                  /\ r.archive # None => r.archive \in revision'[n].archives
            /\ Wrote(s, owned) => OwnerEdge(n, r.after) \in edges'
        BY <1>3, <3>2, <3>6, <4>1, <4>2
      <4>5. ASSUME NEW e \in edges', e.from = n, e.kind \in OwnerKinds
            PROVE  \/ e = OwnerEdge(n, r.after) \/ Reference(e)'
                   \/ IsEvent(r.entry) /\ e = OwnerEdge(n, r.before)
                                       /\ (r.entry.kind = "reclassify" => r.done + 1 < 2)
        <5>1. CASE e \in edges
          BY <1>1, <3>2, <3>6, <4>3, <4>5, <5>1 DEF Reference
        <5>2. CASE e = w.edge
          <6>1. CASE w = owned
            BY <2>6, <5>2, <6>1
          <6>2. CASE w = Write("assert", Edge(n, "REVISION_OF", r.after.document))
            BY <4>5, <5>2, <6>2 DEF Write, Edge, OwnerKinds
          <6>3. CASE r.archive # None /\ w = Write("assert", Edge(n, "REFERENCES_PROJECT", r.archive))
            <7>1. e.kind = "REFERENCES_PROJECT" /\ e.to = r.archive
              BY <5>2, <6>3 DEF Write, Edge
            <7> QED BY <3>2, <3>6, <4>5, <6>3, <7>1 DEF Reference
          <6> QED BY <2>2, <2>5, <3>6, <6>1, <6>2, <6>3 DEF Asserts
        <5> QED BY <3>6, <5>1, <5>2
      <4> QED BY <4>4, <4>5
    <3> QED BY <2>2, <2>3, <2>5, <3>3, <3>4, <3>5, <3>6, WriteCases
  <2> QED BY <1>1, <2>2, <2>3, <2>7 DEF Midst, LastWord, Concerned, Now
<1> QED BY <1>4, <1>5, <1>6 DEF Told

\* A write of the mirror.
LEMMA MirrorFaithfully ==
    ASSUME IInv, Faithful, NEW p \in Proc, Mirror(p)
    PROVE  Faithful'
<1>1. PICK r : r = run[p]
  OBVIOUS
<1>2. PICK w : w = Plan(r)[r.done + 1]
  OBVIOUS
<1>3. /\ UNCHANGED <<receipts, events, loose>> /\ r.pc = "mirror" /\ r.done < Len(Plan(r))
      /\ \/ Fail(p) /\ UNCHANGED graphVars
         \/ Apply(r, w) /\ Goto(p, [r EXCEPT !.done = @ + 1])
  BY <1>1, <1>2 DEF Mirror, logVars
<1>4. CASE Fail(p) /\ UNCHANGED graphVars
  BY <1>3, <1>4, EndFaithful DEF Quiet, graphVars
<1>5. CASE Apply(r, w) /\ Goto(p, [r EXCEPT !.done = @ + 1])
  <2>1. PICK s : s = [r EXCEPT !.done = @ + 1]
    OBVIOUS
  <2>2. r \in State /\ Local(r) /\ Told(r) /\ r.entry # None
    BY <1>1, <1>3, AtWork DEF Faithful, Local
  <2>3. Turns(p, s) /\ tainted \subseteq tainted' /\ run'[p] = s /\ \A q \in Proc \ {p} : run'[q] = run[q]
    BY <1>5, <2>1, GotoTurns DEF Turns, IInv, TypeOK
  <2>4. /\ s.entry = r.entry /\ s.pc = "mirror" /\ Subject(s) = Subject(r)
        /\ Changing(s) <=> Changing(r)
        /\ Telling(s)
    BY <1>3, <2>1, <2>2 DEF State, Subject, Changing, Telling
  <2>5. /\ \A m : m \notin Concerned(r.entry) => Untouched(m)
        /\ \A m : ~(Changing(r) /\ m = Subject(r)) => Spares(m)
        /\ \A e \in edges : e.kind = "SUPERSEDES" => e \in edges'
        /\ \A m \in DOMAIN revision : revision[m].status = "superseded" /\ ~(Changing(r) /\ m = Subject(r)) =>
              m \in DOMAIN revision' /\ revision'[m].status = "superseded"
    BY <1>2, <1>3, <1>5, <2>2, WritesOwn
  <2>6. Alone' /\ Loosened'
    BY <1>3, <2>3, AloneStays DEF Faithful, Loosened
  <2>7. Grounded'
    <3>1. Telling(r) /\ Concerned(r.entry) \subseteq DOMAIN receipts
      BY <1>3, <2>2, Filed DEF Telling
    <3>2. Subject(r) \in Concerned(r.entry) /\ (Marks(r) => r.entry.old \in Concerned(r.entry))
      BY DEF Subject, Concerned, Marks, IsReceipt, IsEvent
    <3>3. /\ DOMAIN revision \subseteq DOMAIN receipts
          /\ \A e \in edges : e.from \in DOMAIN receipts
      BY DEF Faithful, Grounded
    <3>4. DOMAIN revision' \subseteq DOMAIN receipts
      <4>1. PICK n, old, first, marked :
                n = Subject(r) /\ old = r.entry.old /\ first = ReceiptNode(r) /\ marked = SupersededNode(old)
        OBVIOUS
      <4>2. \/ UNCHANGED revision
            \/ revision' = Upsert(n, first)
            \/ Marks(r) /\ revision' = Upsert(old, marked)
        BY <1>2, <1>3, <1>5, <2>2, <4>1, WriteCases
      <4>3. \/ DOMAIN revision' = DOMAIN revision
            \/ DOMAIN revision' = DOMAIN revision \union {n}
            \/ Marks(r) /\ DOMAIN revision' = DOMAIN revision \union {old}
        BY <4>2 DEF Upsert
      <4> QED BY <3>1, <3>2, <3>3, <4>1, <4>3
    <3>5. ASSUME NEW e \in edges' PROVE e.from \in DOMAIN receipts
      <4>1. CASE e \in edges
        BY <3>3, <4>1
      <4>2. CASE w \in Asserts(r) /\ e = w.edge
        <5>1. e.from = Subject(r)
          BY <4>2 DEF Asserts, Write, OwnerEdge, Edge
        <5> QED BY <3>1, <3>2, <5>1
      <4>3. CASE e = Edge(Subject(r), "SUPERSEDES", r.entry.old)
        BY <3>1, <3>2, <4>3, EdgeFields
      <4> QED BY <1>2, <1>3, <1>5, <2>2, <4>1, <4>2, <4>3, WriteCases
    <3> QED BY <1>3, <3>4, <3>5 DEF Faithful, Grounded
  <2>8. ASSUME NEW q \in Proc PROVE Told(run[q])'
    <3>1. CASE q = p
      <4>1. Told(s)'
        BY <1>2, <1>3, <1>5, <2>1, <2>2, <2>3, WriterTold
      <4> QED BY <2>3, <3>1, <4>1, StateTold
    <3>2. CASE q # p
      <4>1. PICK t : t = run[q]
        OBVIOUS
      <4>2. t \in State /\ Local(t) /\ Told(t)
        BY <4>1 DEF IInv, TypeOK, Faithful
      <4>3. ASSUME NEW m \in Touched(t) \ tainted PROVE Untouched(m)
        <5>1. m \notin Touched(r)
          BY <1>1, <3>2, <4>1, <4>3 DEF Faithful, Alone
        <5>2. m \notin Concerned(r.entry)
          BY <2>2, <5>1 DEF Told, Named
        <5> QED BY <2>5, <5>2
      <4>4. Told(t)'
        BY <1>3, <2>3, <2>5, <4>2, <4>3, MirrorTold
      <4> QED BY <2>3, <3>2, <4>1, <4>4, StateTold
    <3> QED BY <3>1, <3>2
  <2>9. Mirrored'
    <3>1. SUFFICES ASSUME NEW n \in DOMAIN receipts, n \notin tainted',
                          \A q \in Proc : Changing(run'[q]) => Subject(run'[q]) # n
                   PROVE  Shows(n, Now(n))'
      BY <1>3 DEF Mirrored, Changing, Telling
    <3>2. PICK view : view = Now(n)
      OBVIOUS
    <3>3. \A q \in Proc : Changing(run[q]) => Subject(run[q]) # n
      BY <1>1, <2>3, <2>4, <3>1
    <3>4. Shows(n, view) /\ Spares(n)
      BY <1>1, <2>3, <2>5, <3>1, <3>2, <3>3 DEF Faithful, Mirrored
    <3>5. Shows(n, view)'
      BY <3>4, SparedShows
    <3>6. Now(n)' = view
      BY <1>3, <3>2 DEF Now
    <3> QED BY <3>5, <3>6 DEF Shows
  <2>10. Marking'
    <3>1. SUFFICES ASSUME NEW i \in DOMAIN events, events[i].kind = "supersede", Unchanged(i),
                          events[i].receipt \notin tainted', events[i].old \notin tainted'
                   PROVE  Marked(events[i])' \/ \E q \in Proc : Telling(run'[q]) /\ run'[q].entry = events[i]
      BY <1>3 DEF Marking, Unchanged, Telling, Marked
    <3>2. CASE \E q \in Proc : Telling(run[q]) /\ run[q].entry = events[i]
      BY <1>1, <2>3, <2>4, <3>2
    <3>3. CASE Marked(events[i])
      <4>1. PICK e : e = events[i]
        OBVIOUS
      <4>2. ~(Changing(r) /\ Subject(r) = e.old)
        <5>1. SUFFICES ASSUME Changing(r), Subject(r) = e.old PROVE FALSE
          OBVIOUS
        <5>2. LastWord(r)
          BY <2>2, <2>3, <3>1, <4>1, <5>1 DEF Told, Midst
        <5>3. Subject(r) \in Concerned(events[i])
          BY <3>1, <4>1, <5>1 DEF Concerned, IsReceipt
        <5>4. IsEvent(r.entry) /\ i <= r.entry.seq
          BY <5>2, <5>3 DEF LastWord
        <5>5. /\ r.entry.seq \in 1..Len(events) /\ events[r.entry.seq] = r.entry
              /\ r.entry.kind \in {"relocate", "reclassify"} /\ r.entry.receipt = e.old
          BY <1>3, <2>2, <5>1, <5>4 DEF Local, Logged, Changing, Subject, IsEvent, IsReceipt
        <5>6. r.entry.seq \in DOMAIN events /\ r.entry.seq # i /\ i \in Nat
          BY <3>1, <5>5 DEF IInv, TypeOK
        <5> QED BY <3>1, <4>1, <5>4, <5>5, <5>6 DEF Unchanged
      <4>3. Marked(e)'
        <5>1. Edge(e.receipt, "SUPERSEDES", e.old) \in edges'
          BY <2>5, <3>3, <4>1, EdgeFields DEF Marked
        <5> QED BY <2>5, <3>3, <4>1, <4>2, <5>1 DEF Marked
      <4> QED BY <1>3, <4>1, <4>3 DEF Marked
    <3> QED BY <2>3, <3>1, <3>2, <3>3 DEF Faithful, Marking
  <2> QED BY <2>6, <2>7, <2>8, <2>9, <2>10 DEF Faithful
<1> QED BY <1>3, <1>4, <1>5

\* The end of the mirror.
LEMMA ReportFaithful ==
    ASSUME IInv, Faithful, NEW p \in Proc, Report(p)
    PROVE  Faithful'
<1>1. PICK r : r = run[p]
  OBVIOUS
<1>2. /\ r \in State /\ Local(r) /\ Told(r) /\ r.pc = "mirror" /\ r.done = Len(Plan(r)) /\ r.entry # None
      /\ Return(p) /\ Quiet
  BY <1>1, AtWork DEF Report, Quiet, logVars, graphVars, Local, Faithful
<1>3. PICK plan : plan = Plan(r)
  OBVIOUS
<1>4. ASSUME Changing(r), Subject(r) \notin tainted PROVE Shows(Subject(r), Now(Subject(r)))
  <2>1. IsReceipt(r.entry) \/ (IsEvent(r.entry) /\ r.entry.kind \in {"relocate", "reclassify"})
    BY <1>2, <1>4 DEF Changing, IsReceipt, IsEvent
  <2>2. PICK n : n = Subject(r)
    OBVIOUS
  <2>3. PICK revised, owned : revised = Write("revision", None) /\ owned = Write("assert", OwnerEdge(n, r.after))
    OBVIOUS
  <2>4. /\ \E i \in 1..Len(plan) : plan[i] = revised
        /\ \E i \in 1..Len(plan) : plan[i] = owned
        /\ IsEvent(r.entry) /\ r.entry.kind = "reclassify" => Len(plan) >= 2
    BY <1>3, <2>1, <2>2, <2>3, ChangingPlan
  <2>5. Wrote(r, revised) /\ Wrote(r, owned)
    BY <1>2, <1>3, <2>4 DEF Wrote
  <2>6. /\ Midway(r) /\ r.after = Now(n)
        /\ r.entry.kind = "relocate" => OwnerEdge(n, r.before) = OwnerEdge(n, r.after)
    BY <1>2, <1>4, <2>2 DEF Told, Midst
  <2>7. /\ n \in DOMAIN revision /\ revision[n].view = r.after
        /\ OwnerEdge(n, r.after) \in edges
    BY <2>2, <2>3, <2>5, <2>6 DEF Midway
  <2>8. ASSUME NEW e \in edges, e.from = n, e.kind \in OwnerKinds
        PROVE  e = OwnerEdge(n, r.after) \/ Reference(e)
    <3>1. CASE IsEvent(r.entry) /\ e = OwnerEdge(n, r.before) /\ (r.entry.kind = "reclassify" => r.done < 2)
      <4>1. r.entry.kind # "reclassify"
        BY <1>2, <1>3, <2>4, <3>1
      <4> QED BY <2>1, <2>6, <3>1, <4>1 DEF IsReceipt, IsEvent
    <3> QED BY <2>2, <2>6, <2>8, <3>1 DEF Midway
  <2> QED BY <2>2, <2>6, <2>7, <2>8 DEF Shows
<1>5. ASSUME Marks(r), r.entry.old \notin tainted PROVE Marked(r.entry)
  <2>1. IsEvent(r.entry) /\ r.entry.kind = "supersede"
    BY <1>5 DEF Marks
  <2>2. Len(plan) = 3
    BY <1>3, <2>1, OtherPlan
  <2> QED BY <1>2, <1>3, <1>5, <2>2 DEF Told, Superseding, Marked
<1>6. Settles(p)
  BY <1>1, <1>4, <1>5 DEF Settles
<1>7. PICK s : s = Idle
  OBVIOUS
<1>8. Turns(p, s) /\ tainted \subseteq tainted'
  BY <1>2, <1>7, EndTurns DEF Turns
<1>9. Blank(s)
  BY <1>7 DEF Blank, Idle
<1>10. Still /\ Loosened' /\ Told(s)' /\ \A t : NoLine(t)
  BY <1>2, <1>8, <1>9, BlankTold, QuietIsStill, StillTold
<1> QED BY <1>6, <1>8, <1>10, QuietFaithful

\* At the beginning the ledger is empty, and so is the graph.
LEMMA FaithfulAtFirst ==
    ASSUME Init
    PROVE  Faithful
<1>1. ASSUME NEW p \in Proc PROVE run[p] = Idle
  BY DEF Init
<1>2. ASSUME NEW p \in Proc PROVE Told(run[p])
  BY <1>1, BlankTold DEF Blank, Idle
<1>3. Touched(Idle) = {}
  BY DEF Touched, Idle
<1>4. Alone
  BY <1>1, <1>3 DEF Alone
<1>5. Loosened /\ Grounded /\ Mirrored /\ Marking
  BY DEF Init, Loosened, IsReceipt, Grounded, Mirrored, Marking
<1> QED BY <1>2, <1>4, <1>5 DEF Faithful

\* What holds of the mirror always.
LEMMA AlwaysFaithful == Spec => []Faithful
<1>1. Init => Faithful
  BY FaithfulAtFirst
<1>2. IInv /\ Faithful /\ [Next]_vars => Faithful'
  <2>1. SUFFICES ASSUME IInv, Faithful, [Next]_vars PROVE Faithful'
    OBVIOUS
  <2>2. CASE Edit \/ UNCHANGED vars
    <3>1. UNCHANGED <<receipts, events, loose, revision, edges, run, tainted>>
      BY <2>2 DEF Edit, vars, logVars, graphVars
    <3>2. Still /\ \A s : NoLine(s)
      BY <3>1 DEF Still, NoLine
    <3>3. ASSUME NEW q \in Proc PROVE Told(run[q])'
      <4>1. PICK t : t = run[q]
        OBVIOUS
      <4>2. Told(t)'
        BY <2>1, <3>2, <4>1, StillTold DEF Faithful
      <4> QED BY <3>1, <4>1, <4>2, StateTold
    <3>4. Alone' /\ Loosened' /\ Grounded'
      BY <2>1, <3>1 DEF Faithful, Alone, Loosened, Grounded, Known
    <3>5. Mirrored' /\ Marking'
      BY <2>1, <3>1 DEF Faithful, Mirrored, Marking, Changing, Telling, Shows, Reference, Now, Unchanged, Marked
    <3> QED BY <3>3, <3>4, <3>5 DEF Faithful
  <2>3. ASSUME NEW p \in Proc, \/ Start(p) \/ Peek(p) \/ OpenExisting(p)
                               \/ CreateManifest(p) \/ WriteManifest(p) \/ CreateLog(p)
        PROVE  Faithful'
    BY <2>1, <2>3, OpeningFaithful
  <2>4. ASSUME NEW p \in Proc,
               ReadForAdd(p) \/ ReadForEvent(p) \/ ReadForCheck(p) \/ CheckNext(p) \/ CheckDone(p)
        PROVE  Faithful'
    BY <2>1, <2>4, ReadingFaithful
  <2>5. ASSUME NEW p \in Proc, BeginAppend(p) \/ EndAppend(p) PROVE Faithful'
    BY <2>1, <2>5, BeginAppendFaithful, EndAppendFaithful, SwallowedFaithful
  <2>6. ASSUME NEW p \in Proc, ProjectIndex(p) \/ ProjectTimeline(p) \/ ReadAgain(p) PROVE Faithful'
    BY <2>1, <2>6, ProjectionsFaithful, ReadAgainFaithful
  <2>7. ASSUME NEW p \in Proc, OpenJournal(p) \/ Mirror(p) \/ Report(p) PROVE Faithful'
    BY <2>1, <2>7, OpenJournalFaithful, MirrorFaithfully, ReportFaithful
  <2>8. ASSUME NEW p \in Proc, Die(p) PROVE Faithful'
    BY <2>1, <2>8, DieFaithful
  <2> QED BY <2>1, <2>2, <2>3, <2>4, <2>5, <2>6, <2>7, <2>8 DEF Next, Step
<1> QED BY <1>1, <1>2, Invariance, PTL DEF Spec

\* Whatever commands came before it, overlapped or died, the graph shows a
\* receipt that is settled as the ledger does: its node as the events leave it,
\* the edge to its owner, and to no former one (mirror_ledger_receipt,
\* mirror_ledger_event).
THEOREM MirrorsFaithful == Spec => []MirrorFaithful
<1>1. IInv /\ Faithful => MirrorFaithful
  BY FaithfulMirror
<1> QED BY <1>1, Invariance, AlwaysFaithful, PTL

\* A receipt that the ledger supersedes is marked so in the graph and linked to
\* its successor, unless the receipt was mirrored anew since (the supersede arm
\* of mirror_ledger_event).
THEOREM SupersessionsShown == Spec => []SupersessionShown
<1>1. IInv /\ Faithful => SupersessionShown
  BY FaithfulMarks
<1> QED BY <1>1, Invariance, AlwaysFaithful, PTL
=============================================================================
