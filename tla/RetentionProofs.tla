--------------------------- MODULE RetentionProofs ---------------------------
(***************************************************************************)
(* Proofs about Retention: types, the audit trail, what is deleted, what   *)
(* a receipt claims, what is published of a deleted session, which         *)
(* sessions go with another and what an undisturbed sweep has deleted, for *)
(* any number of processes, sessions, stores and events.                   *)
(*                                                                         *)
(* The invariant speaks of one process and the session it works on, and    *)
(* survives the steps of the others: those only take parts away from a     *)
(* session that existed, add to the journal, and let time pass (Calm), and *)
(* change nothing of p but where its open file is (Apart).                 *)
(***************************************************************************)
EXTENDS Retention, TLAPS, WellFoundedInduction, FiniteSetTheorems

Idling == {"idle", "plan", "next"}

\* A session with files has been written, and has no parts that its kind of
\* store does not know.
Written ==
    \A s \in Session :
        /\ native[s].parts \subseteq PartsOf[store.kind]
        /\ native[s].parts # {} => native[s].ver # 0

\* Whatever p listed, has yet to take or works on existed: no session of that
\* name is started again.
Existed(p) ==
    /\ \A s \in sweep[p].listed \union sweep[p].work : native[s].ver # 0
    /\ sweep[p].pc \notin Idling =>
          sweep[p].cur \in Session /\ native[sweep[p].cur].ver # 0

\* The transcript's node is in the journal before its edge.
NodeFirst(p) ==
    sweep[p].pc = "edge" => Transcript(sweep[p].cur, sweep[p].wrote) \in nodes

\* Once assessed, the session has a proof and was listed outside the window.
Gated(p) ==
    sweep[p].pc \in Deleting \union {"verify"} =>
        /\ \E q \in proofs : q.session = sweep[p].cur /\ q.hash = sweep[p].hash
        /\ sweep[p].modified[sweep[p].cur] < now

\* While the transcript is still there, the bundle is the one that was
\* hashed, unless the tool wrote since; no part comes back.
Bytes(p) ==
    sweep[p].pc \in Deleting =>
        /\ Targets(sweep[p].cur) \subseteq sweep[p].hash.parts
        /\ Has(sweep[p].cur, "data") => Hash(sweep[p].cur) = sweep[p].hash \/ p \in raced

\* The adapters step by step: which store each step belongs to and what it
\* finds removed.
Removing(p) ==
    /\ sweep[p].pc = "remove" => store.kind = "file"
    /\ sweep[p].pc = "cli" => store.kind \in {"codex", "opencode"}
    /\ sweep[p].pc \in {"row", "directory"} => store.kind \in {"mcode", "copilot", "bundle"}
    /\ sweep[p].pc = "directory" => store.kind # "bundle"
    /\ sweep[p].pc \in {"data", "rest"} => store.kind = "bundle"
    /\ sweep[p].pc \in {"directory", "data", "rest"} => ~Has(sweep[p].cur, "row")
    /\ sweep[p].pc = "rest" => ~Has(sweep[p].cur, "data")
    /\ sweep[p].pc = "receipt" /\ store.kind # "opencode" => native[sweep[p].cur].parts = {}

Receipted ==
    \A r \in receipts :
        /\ native[r.session].ver # 0
        /\ store.kind # "opencode" => native[r.session].parts = {}

Sound(p) ==
    /\ Existed(p) /\ NodeFirst(p) /\ Gated(p) /\ Bytes(p) /\ Removing(p)
    /\ sweep[p].attempt <=> sweep[p].pc \in AfterAttempt

IInv == TypeOK /\ Written /\ Receipted /\ \A p \in Proc : Sound(p)

-----------------------------------------------------------------------------
(***************************************************************************)
(* Values that the steps put together.                                     *)
(***************************************************************************)

\* A hash is made of a version and hashed parts (archive.rs bundle).
LEMMA HashTyped ==
    ASSUME TypeOK, NEW s \in Session
    PROVE  /\ Hash(s) \in HashType /\ NoHash \in HashType
           /\ Targets(s) \subseteq native[s].parts
           /\ Has(s, "data") => "data" \in Targets(s)
<1>1. store.kind \in Kind
    BY StoreAssumption DEF TypeOK
<1>2. HashedOf[store.kind] \in {{"data"}, {"data", "rest"}}
    BY <1>1 DEF HashedOf
<1>3. native[s] \in [parts : SUBSET {"row", "data", "rest"}, ver : Nat, stamp : Nat]
    BY DEF TypeOK
<1> QED
    BY <1>2, <1>3 DEF Hash, NoHash, HashType, Targets, Has

\* What a process is between two items and after its death (sweep.rs sweep).
LEMMA LocalTyped ==
    ASSUME TypeOK, NEW p \in Proc
    PROVE  /\ sweep[p] \in Local
           /\ Item(p) \in Local
           /\ Fresh \in Local
<1>1. sweep[p] \in Local
    BY DEF TypeOK
<1>2. NoHash \in HashType
    BY DEF NoHash, HashType
<1>3. Item(p) \in Local
    BY <1>1, <1>2 DEF Item, Local, Labels, Places
<1>4. Fresh \in Local
    BY <1>2 DEF Fresh, Local, Labels, Places
<1> QED
    BY <1>1, <1>3, <1>4

\* A new listing (sweep.rs:46-48, purge.rs:16-17).
LEMMA ListingTyped ==
    ASSUME TypeOK, NEW s \in Session \union {NoSession}, NEW label \in {"plan", "guard"}
    PROVE  Listing(label, s) \in Local
<1>1. Listed \in SUBSET Session
    BY DEF Listed
<1>2. [r \in Session |-> native[r].stamp] \in [Session -> Nat]
    BY DEF TypeOK
<1>3. NoHash \in HashType
    BY DEF NoHash, HashType
<1> QED
    BY <1>1, <1>2, <1>3 DEF Listing, Fresh, Local, Labels, Places

\* The other processes keep all but the place of their file (compact.rs:80-122).
LEMMA WithFileTyped ==
    ASSUME TypeOK, NEW p \in Proc, NEW s, NEW moves \in {Removal, Renaming}, NEW item \in Local
    PROVE  WithFile(p, s, moves, item) \in [Proc -> Local]
<1> SUFFICES ASSUME NEW q \in Proc, q # p
             PROVE  [sweep[q] EXCEPT !.fd = moves[@]] \in Local
    BY LocalTyped DEF WithFile, TypeOK
<1>1. sweep[q] \in Local
    BY LocalTyped
<1>2. moves[sweep[q].fd] \in Places
    BY <1>1 DEF Local, Removal, Renaming, Places
<1> QED
    BY <1>1, <1>2 DEF Local

\* Going on to another label or to the next item (sweep.rs sweep).
LEMMA GoingTyped ==
    ASSUME TypeOK, NEW p \in Proc
    PROVE  /\ GiveUp(p) => sweep' \in [Proc -> Local]
           /\ \A label \in Labels : Goto(p, label) => sweep' \in [Proc -> Local]
<1>1. sweep \in [Proc -> Local] /\ Item(p) \in Local
    BY LocalTyped DEF TypeOK
<1>2. GiveUp(p) => sweep' \in [Proc -> Local]
    BY <1>1 DEF GiveUp
<1>3. ASSUME NEW label \in Labels, Goto(p, label) PROVE sweep' \in [Proc -> Local]
  <2>1. [sweep[p] EXCEPT !.pc = label] \in Local
    BY <1>1, <1>3 DEF Local
  <2> QED
    BY <1>1, <1>3, <2>1 DEF Goto
<1> QED
    BY <1>2, <1>3

\* Parts that go leave the native files well typed (delete_adapter).
LEMMA WithoutTyped ==
    ASSUME TypeOK, NEW s \in Session, NEW gone
    PROVE  /\ Without(s, gone) \in [Session -> [parts : SUBSET {"row", "data", "rest"}, ver : Nat, stamp : Nat]]
           /\ \A r \in Session : /\ Without(s, gone)[r].ver = native[r].ver
                                 /\ Without(s, gone)[r].stamp = native[r].stamp
                                 /\ r # s => Without(s, gone)[r] = native[r]
           /\ Without(s, gone)[s].parts = native[s].parts \ gone
    BY DEF TypeOK, Without

\* The record of what was deleted (history).
LEMMA DeletesTyped ==
    ASSUME TypeOK, NEW p \in Proc, sweep[p].cur \in Session, Deletes(p)
    PROVE  deleted' \subseteq ReceiptType
<1>1. sweep[p].hash \in HashType
    BY LocalTyped DEF Local
<1> QED
    BY <1>1 DEF TypeOK, Deletes, ReceiptType

\* Every step of a sweep or purge keeps the types (sweep.rs, compact.rs,
\* purge.rs, delete_adapter).
LEMMA SweepTyped ==
    ASSUME IInv, NEW p \in Proc, SweepStep(p)
    PROVE  TypeOK'
<1> DEFINE s == sweep[p].cur
<1>1. TypeOK /\ Existed(p) /\ NodeFirst(p)
    BY DEF IInv, Sound
<1>2. sweep[p] \in Local /\ sweep \in [Proc -> Local]
    BY <1>1, LocalTyped DEF TypeOK
<1>3. UNCHANGED <<store, opened, now, attesting>> /\ quiet' \in Proc \union {NoProc}
    BY DEF SweepStep
<1>4. sweep[p].pc \notin Idling => s \in Session
    BY <1>1 DEF Existed
<1>5. s \in Session => Hash(s) \in HashType
    BY <1>1, HashTyped
<1>6. NoHash \in HashType
    BY DEF NoHash, HashType
<1>7. Item(p) \in Local /\ Fresh \in Local
    BY <1>1, LocalTyped
<1>8. /\ GiveUp(p) => sweep' \in [Proc -> Local]
      /\ \A label \in Labels : Goto(p, label) => sweep' \in [Proc -> Local]
    BY <1>1, GoingTyped
<1>q. SUFFICES /\ native' \in [Session -> [parts : SUBSET {"row", "data", "rest"}, ver : Nat, stamp : Nat]]
               /\ partial' \in [Session -> Nat \union {NoFile}]
               /\ final' \in [Session -> Nat \union {NoFile}]
               /\ nodes' \subseteq Node /\ linked' \subseteq nodes'
               /\ proofs' \subseteq ProofType /\ receipts' \subseteq ReceiptType
               /\ deleted' \subseteq ReceiptType
               /\ sweep' \in [Proc -> Local]
    BY <1>1, <1>3 DEF TypeOK
<1>11. CASE Plan(p)
  <2>1. sweep' \in [Proc -> Local]
    BY ZenonT(60), <1>2, <1>4, <1>5, <1>6, <1>7, <1>8, <1>11
    DEF Plan, Local, Labels, Idling
  <2> QED
    BY <2>1, <1>1, <1>2, <1>4, <1>5, <1>11
    DEF Plan, TypeOK, Local, Idling, Node,
        fileVars, graphVars, history
<1>12. CASE Take(p)
  <2>1. sweep' \in [Proc -> Local]
    <3>1. PICK r \in sweep[p].work :
             sweep' = [sweep EXCEPT ![p].work = @ \ {r}, ![p].cur = r,
                         ![p].pc = IF r \in sweep[p].compact THEN "hash" ELSE "guard"]
        BY <1>12 DEF Take, Deepest
    <3> QED
        BY ZenonT(60), <1>2, <3>1 DEF Local, Labels
  <2> QED
    BY <2>1, <1>1, <1>12 DEF Take, TypeOK, fileVars, graphVars, history
<1>13. CASE End(p)
  <2>1. sweep' \in [Proc -> Local]
    BY <1>2, <1>4, <1>5, <1>6, <1>7, <1>8, <1>13
    DEF End, Local, Labels, Idling
  <2> QED
    BY <2>1, <1>1, <1>2, <1>4, <1>5, <1>13
    DEF End, TypeOK, Local, Idling, Node,
        fileVars, graphVars, history
<1>14. CASE HashBefore(p)
  <2>1. sweep' \in [Proc -> Local]
    BY <1>2, <1>4, <1>5, <1>6, <1>7, <1>8, <1>14
    DEF HashBefore, Local, Labels, Idling
  <2> QED
    BY <2>1, <1>1, <1>2, <1>4, <1>5, <1>14
    DEF HashBefore, TypeOK, Local, Idling, Node,
        fileVars, graphVars, history
<1>15. CASE Create(p)
  <2>1. sweep' \in [Proc -> Local]
    BY <1>2, <1>4, <1>5, <1>6, <1>7, <1>8, <1>15
    DEF Create, Places, Local, Labels, Idling
  <2> QED
    BY <2>1, <1>1, <1>2, <1>4, <1>5, <1>15
    DEF Create, TypeOK, Local, Idling, Node,
        fileVars, graphVars, history
<1>16. CASE Write(p)
  <2>0. Dialogue(s) \in Nat
    BY <1>1, <1>4, <1>16 DEF Write, Dialogue, TypeOK, Idling
  <2>1. sweep' \in [Proc -> Local]
    BY <1>2, <2>0, <1>16
    DEF Write, Places, Local, Labels
  <2> QED
    BY <2>1, <1>1, <1>2, <1>4, <1>5, <1>16
    DEF Write, Dialogue, TypeOK, Local, Idling, Node,
        fileVars, graphVars, history
<1>17. CASE WriteFails(p)
  <2>0. /\ WithFile(p, s, Removal, Item(p)) \in [Proc -> Local]
        /\ WithFile(p, s, Renaming, [sweep[p] EXCEPT !.pc = "conversation"]) \in [Proc -> Local]
    <3>1. [sweep[p] EXCEPT !.pc = "conversation"] \in Local
        BY <1>2 DEF Local, Labels
    <3> QED
        BY <1>1, <1>7, <3>1, WithFileTyped
  <2>1. sweep' \in [Proc -> Local]
    BY <1>2, <1>4, <1>5, <1>6, <1>7, <1>8, <1>1, <2>0, <1>17
    DEF WriteFails, Local, Labels, Idling
  <2> QED
    BY <2>1, <1>1, <1>2, <1>4, <1>5, <1>17
    DEF WriteFails, TypeOK, Local, Idling, Node,
        fileVars, graphVars, history
<1>18. CASE Recheck(p)
  <2>0. /\ WithFile(p, s, Removal, Item(p)) \in [Proc -> Local]
        /\ WithFile(p, s, Renaming, [sweep[p] EXCEPT !.pc = "conversation"]) \in [Proc -> Local]
    <3>1. [sweep[p] EXCEPT !.pc = "conversation"] \in Local
        BY <1>2 DEF Local, Labels
    <3> QED
        BY <1>1, <1>7, <3>1, WithFileTyped
  <2>1. sweep' \in [Proc -> Local]
    BY <1>2, <1>4, <1>5, <1>6, <1>7, <1>8, <1>1, <2>0, <1>18
    DEF Recheck, Local, Labels, Idling
  <2> QED
    BY <2>1, <1>1, <1>2, <1>4, <1>5, <1>18
    DEF Recheck, TypeOK, Local, Idling, Node,
        fileVars, graphVars, history
<1>19. CASE Rename(p)
  <2>0. /\ WithFile(p, s, Removal, Item(p)) \in [Proc -> Local]
        /\ WithFile(p, s, Renaming, [sweep[p] EXCEPT !.pc = "conversation"]) \in [Proc -> Local]
    <3>1. [sweep[p] EXCEPT !.pc = "conversation"] \in Local
        BY <1>2 DEF Local, Labels
    <3> QED
        BY <1>1, <1>7, <3>1, WithFileTyped
  <2>1. sweep' \in [Proc -> Local]
    BY <1>2, <1>4, <1>5, <1>6, <1>7, <1>8, <1>1, <2>0, <1>19
    DEF Rename, Local, Labels, Idling
  <2> QED
    BY <2>1, <1>1, <1>2, <1>4, <1>5, <1>19
    DEF Rename, TypeOK, Local, Idling, Node,
        fileVars, graphVars, history
<1>20. CASE AppendConversation(p)
  <2>1. sweep' \in [Proc -> Local]
    BY <1>2, <1>4, <1>5, <1>6, <1>7, <1>8, <1>20
    DEF AppendConversation, Local, Labels, Idling
  <2> QED
    BY <2>1, <1>1, <1>2, <1>4, <1>5, <1>20
    DEF AppendConversation, Conversation, TypeOK, Local, Idling, Node,
        fileVars, graphVars, history
<1>21. CASE AppendTranscript(p)
  <2>1. sweep' \in [Proc -> Local]
    BY <1>2, <1>4, <1>5, <1>6, <1>7, <1>8, <1>21
    DEF AppendTranscript, Local, Labels, Idling
  <2> QED
    BY <2>1, <1>1, <1>2, <1>4, <1>5, <1>21
    DEF AppendTranscript, Transcript, TypeOK, Local, Idling, Node,
        fileVars, graphVars, history
<1>22. CASE AppendEdge(p)
  <2>1. sweep' \in [Proc -> Local]
    BY <1>2, <1>4, <1>5, <1>6, <1>7, <1>8, <1>22
    DEF AppendEdge, Local, Labels, Idling
  <2> QED
    BY <2>1, <1>1, <1>2, <1>4, <1>5, <1>22
    DEF AppendEdge, NodeFirst, TypeOK, Local, Idling, Node,
        fileVars, graphVars, history
<1>23. CASE AppendProof(p)
  <2>1. sweep' \in [Proc -> Local]
    BY <1>2, <1>4, <1>5, <1>6, <1>7, <1>8, <1>23
    DEF AppendProof, Local, Labels, Idling
  <2> QED
    BY <2>1, <1>1, <1>2, <1>4, <1>5, <1>23
    DEF AppendProof, ProofType, Upsert, Proof, Transcript, TypeOK, Local, Idling, Node,
        fileVars, graphVars, history
<1>24. CASE Guard(p)
  <2>1. sweep' \in [Proc -> Local]
    BY <1>2, <1>4, <1>5, <1>6, <1>7, <1>8, <1>24
    DEF Guard, Local, Labels, Idling
  <2> QED
    BY <2>1, <1>1, <1>2, <1>4, <1>5, <1>24
    DEF Guard, TypeOK, Local, Idling, Node,
        fileVars, graphVars, history
<1>25. CASE AppendAttempt(p)
  <2>1. sweep' \in [Proc -> Local]
    BY <1>2, <1>4, <1>5, <1>6, <1>7, <1>8, <1>25
    DEF AppendAttempt, Local, Labels, Idling
  <2> QED
    BY <2>1, <1>1, <1>2, <1>4, <1>5, <1>25
    DEF AppendAttempt, TypeOK, Local, Idling, Node,
        fileVars, graphVars, history
<1>26. CASE Reassess(p)
  <2>1. sweep' \in [Proc -> Local]
    BY <1>2, <1>4, <1>5, <1>6, <1>7, <1>8, <1>26
    DEF Reassess, Local, Labels, Idling
  <2> QED
    BY <2>1, <1>1, <1>2, <1>4, <1>5, <1>26
    DEF Reassess, TypeOK, Local, Idling, Node,
        fileVars, graphVars, history
<1>27. CASE AppendFailure(p)
  <2>1. sweep' \in [Proc -> Local]
    BY <1>2, <1>4, <1>5, <1>6, <1>7, <1>8, <1>27
    DEF AppendFailure, Local, Labels, Idling
  <2> QED
    BY <2>1, <1>1, <1>2, <1>4, <1>5, <1>27
    DEF AppendFailure, TypeOK, Local, Idling, Node,
        fileVars, graphVars, history
<1>28. CASE Verify(p)
  <2>0. Adapter[store.kind] \in Labels /\ "failed" \in Labels
    BY <1>1, StoreAssumption DEF TypeOK, Adapter, Labels
  <2>1. sweep' \in [Proc -> Local]
    BY <1>8, <2>0, <1>28 DEF Verify
  <2> QED
    BY <2>1, <1>1, <1>2, <1>4, <1>5, <1>28
    DEF Verify, TypeOK, Local, Idling, Node,
        fileVars, graphVars, history
<1>29. CASE RemoveFile(p)
  <2>2. Deletes(p) => deleted' \subseteq ReceiptType
    BY <1>1, <1>4, <1>29, DeletesTyped DEF RemoveFile, Idling
  <2>1. sweep' \in [Proc -> Local]
    BY <1>2, <1>4, <1>5, <1>6, <1>7, <1>8, <1>29
    DEF RemoveFile, Local, Labels, Idling
  <2> QED
    BY <2>1, <1>1, <1>2, <1>4, <1>5, <2>2, WithoutTyped, <1>29
    DEF RemoveFile, TypeOK, Local, Idling, Node,
        fileVars, graphVars, history
<1>30. CASE DeleteByCli(p)
  <2>2. Deletes(p) => deleted' \subseteq ReceiptType
    BY <1>1, <1>4, <1>30, DeletesTyped DEF DeleteByCli, Idling
  <2>1. sweep' \in [Proc -> Local]
    BY <1>2, <1>4, <1>5, <1>6, <1>7, <1>8, <1>30
    DEF DeleteByCli, Local, Labels, Idling
  <2>3. native' \in [Session -> [parts : SUBSET {"row", "data", "rest"}, ver : Nat, stamp : Nat]]
    BY <1>1, <1>30 DEF DeleteByCli, TypeOK
  <2> QED
    BY <2>1, <2>2, <2>3, <1>1, <1>4, <1>30
    DEF DeleteByCli, TypeOK, Local, Idling, Node,
        fileVars, graphVars, history
<1>31. CASE RemoveRow(p)
  <2>2. Deletes(p) => deleted' \subseteq ReceiptType
    BY <1>1, <1>4, <1>31, DeletesTyped DEF RemoveRow, Idling
  <2>1. sweep' \in [Proc -> Local]
    BY <1>2, <1>4, <1>5, <1>6, <1>7, <1>8, <1>31
    DEF RemoveRow, Local, Labels, Idling
  <2> QED
    BY <2>1, <1>1, <1>2, <1>4, <1>5, <2>2, WithoutTyped, <1>31
    DEF RemoveRow, TypeOK, Local, Idling, Node,
        fileVars, graphVars, history
<1>32. CASE RemoveDirectory(p)
  <2>2. Deletes(p) => deleted' \subseteq ReceiptType
    BY <1>1, <1>4, <1>32, DeletesTyped DEF RemoveDirectory, Idling
  <2>1. sweep' \in [Proc -> Local]
    BY <1>2, <1>4, <1>5, <1>6, <1>7, <1>8, <1>32
    DEF RemoveDirectory, Local, Labels, Idling
  <2> QED
    BY <2>1, <1>1, <1>2, <1>4, <1>5, <2>2, WithoutTyped, <1>32
    DEF RemoveDirectory, TypeOK, Local, Idling, Node,
        fileVars, graphVars, history
<1>33. CASE RemoveTarget(p, "data")
  <2>2. Deletes(p) => deleted' \subseteq ReceiptType
    BY <1>1, <1>4, <1>33, DeletesTyped DEF RemoveTarget, Idling
  <2>1. sweep' \in [Proc -> Local]
    BY <1>2, <1>4, <1>5, <1>6, <1>7, <1>8, <1>33
    DEF RemoveTarget, Local, Labels, Idling
  <2> QED
    BY <2>1, <1>1, <1>2, <1>4, <1>5, <2>2, WithoutTyped, <1>33
    DEF RemoveTarget, TypeOK, Local, Idling, Node,
        fileVars, graphVars, history
<1>34. CASE RemoveTarget(p, "rest")
  <2>2. Deletes(p) => deleted' \subseteq ReceiptType
    BY <1>1, <1>4, <1>34, DeletesTyped DEF RemoveTarget, Idling
  <2>1. sweep' \in [Proc -> Local]
    BY <1>2, <1>4, <1>5, <1>6, <1>7, <1>8, <1>34
    DEF RemoveTarget, Local, Labels, Idling
  <2> QED
    BY <2>1, <1>1, <1>2, <1>4, <1>5, <2>2, WithoutTyped, <1>34
    DEF RemoveTarget, TypeOK, Local, Idling, Node,
        fileVars, graphVars, history
<1>35. CASE AppendReceipt(p)
  <2>1. sweep' \in [Proc -> Local]
    BY <1>2, <1>4, <1>5, <1>6, <1>7, <1>8, <1>35
    DEF AppendReceipt, Local, Labels, Idling
  <2> QED
    BY <2>1, <1>1, <1>2, <1>4, <1>5, <1>35
    DEF AppendReceipt, ReceiptType, TypeOK, Local, Idling, Node,
        fileVars, graphVars, history
<1> QED
    BY <1>11, <1>12, <1>13, <1>14, <1>15, <1>16, <1>17, <1>18, <1>19, <1>20, <1>21, <1>22, <1>23, <1>24, <1>25, <1>26, <1>27, <1>28, <1>29, <1>30, <1>31, <1>32, <1>33, <1>34, <1>35 DEF SweepStep, Compaction, Deletion

\* The coding tool, the clock, the other commands and failures keep the types.
LEMMA OthersTyped ==
    ASSUME IInv, Others \/ (\E p \in Proc : Start(p)), quiet' \in Proc \union {NoProc}
    PROVE  TypeOK'
<1>1. TypeOK
    BY DEF IInv
<1>2. store.kind \in Kind /\ PartsOf[store.kind] \in SUBSET {"row", "data", "rest"}
    BY <1>1, StoreAssumption DEF TypeOK, PartsOf
<1>3. \A p \in Proc : sweep[p].pc \notin Idling => sweep[p].cur \in Session
    BY DEF IInv, Sound, Existed
<1>4. CASE Tool
  <2>1. PICK s \in Session : ToolOpen(s) \/ ToolClose(s) \/ ToolWrite(s) \/ ToolSpawn(s)
    BY <1>4 DEF Tool
  <2>2. /\ native' \in [Session -> [parts : SUBSET {"row", "data", "rest"}, ver : Nat, stamp : Nat]]
        /\ opened' \subseteq Session
    BY <1>1, <1>2, <2>1 DEF TypeOK, ToolOpen, ToolClose, ToolWrite, ToolSpawn
  <2> QED
    BY <1>1, <1>4, <2>2 DEF TypeOK, Tool, fileVars, graphVars
<1>5. CASE Tick
    BY <1>1, <1>5 DEF TypeOK, Tick, fileVars, graphVars, history
<1>6. CASE Command
  <2>1. UNCHANGED <<store, native, opened, now, partial, final, receipts, deleted, sweep>>
    BY <1>6 DEF Command, AttestCheck, AttestAppend, GraphRetract, graphVars, toolVars, fileVars
  <2>2. nodes' = nodes /\ linked' \subseteq linked
    BY <1>6 DEF Command, AttestCheck, AttestAppend, GraphRetract, graphVars
  <2>3. proofs' \subseteq ProofType /\ attesting' \subseteq ProofType
    <3>1. CASE \E s \in Session : AttestCheck(s)
      <4>1. PICK s \in Session : \E know \in SUBSET linked :
               attesting' = {Proof(s, Hash(s), know, "attest")} /\ UNCHANGED graphVars
        BY <3>1 DEF AttestCheck
      <4>2. \A know \in SUBSET linked : Proof(s, Hash(s), know, "attest") \in ProofType
        BY <1>1, HashTyped DEF Proof, ProofType, TypeOK
      <4> QED
        BY <1>1, <4>1, <4>2 DEF TypeOK, graphVars
    <3>2. CASE AttestAppend
        BY <1>1, <3>2 DEF TypeOK, AttestAppend, Upsert
    <3>3. CASE \E n \in linked : GraphRetract(n)
        BY <1>1, <3>3 DEF TypeOK, GraphRetract
    <3> QED
        BY <1>6, <3>1, <3>2, <3>3 DEF Command
  <2> QED
    BY <1>1, <2>1, <2>2, <2>3 DEF TypeOK
<1>7. ASSUME NEW p \in Proc, Fault(p) PROVE TypeOK'
  <2>1. sweep' \in [Proc -> Local]
    <3>1. Fresh \in Local /\ sweep \in [Proc -> Local]
        BY <1>1, LocalTyped DEF TypeOK
    <3>2. /\ \A label \in Labels : Goto(p, label) => sweep' \in [Proc -> Local]
          /\ GiveUp(p) => sweep' \in [Proc -> Local]
        BY <1>1, GoingTyped
    <3>3. "failed" \in Labels /\ "receipt" \in Labels
        BY DEF Labels
    <3> QED
        BY <1>7, <3>1, <3>2, <3>3 DEF Fault, AdapterFails, RemovePartly, CliKeeps, WriteRefused, Die
  <2>2. /\ native' \in [Session -> [parts : SUBSET {"row", "data", "rest"}, ver : Nat, stamp : Nat]]
        /\ deleted' \subseteq ReceiptType
    <3>1. CASE RemovePartly(p)
      <4>1. sweep[p].cur \in Session
        BY <1>3, <3>1 DEF RemovePartly, Idling
      <4>2. Deletes(p) => deleted' \subseteq ReceiptType
        BY <1>1, <4>1, DeletesTyped
      <4> QED
        BY <1>1, <3>1, <4>1, <4>2, WithoutTyped DEF RemovePartly, TypeOK
    <3>2. CASE UNCHANGED <<native, deleted>>
        BY <1>1, <3>2 DEF TypeOK
    <3> QED
        BY <1>7, <3>1, <3>2 DEF Fault, AdapterFails, CliKeeps, WriteRefused, Die
  <2> QED
    BY <1>1, <1>7, <2>1, <2>2 DEF TypeOK, Fault, fileVars, graphVars
<1>8. ASSUME NEW p \in Proc, Start(p) PROVE TypeOK'
  <2>1. sweep' \in [Proc -> Local]
    <3>1. \A s \in Session \union {NoSession} :
             Listing("plan", s) \in Local /\ Listing("guard", s) \in Local
        BY <1>1, ListingTyped
    <3>2. Listed \in SUBSET Session /\ sweep \in [Proc -> Local]
        BY <1>1 DEF Listed, TypeOK
    <3> QED
        BY <1>8, <3>1, <3>2 DEF Start
  <2> QED
    BY <1>1, <1>8, <2>1 DEF TypeOK, Start, toolVars, fileVars, graphVars, history
<1> QED
    BY <1>4, <1>5, <1>6, <1>7, <1>8 DEF Others

\* The types hold after every step.
LEMMA StepTyped ==
    ASSUME IInv, Next
    PROVE  TypeOK'
<1>1. TypeOK
    BY DEF IInv
<1>2. ASSUME NEW p \in Proc, Start(p) PROVE TypeOK'
  <2>1. quiet' \in Proc \union {NoProc}
    BY <1>2 DEF Start
  <2> QED
    BY <1>2, <2>1, OthersTyped
<1>3. CASE Others /\ quiet' = NoProc
    BY <1>3, OthersTyped
<1> QED
    BY <1>2, <1>3, SweepTyped DEF Next

-----------------------------------------------------------------------------
(***************************************************************************)
(* What every step does to the sessions, the journal and the clock.        *)
(***************************************************************************)

\* Parts of a session that existed never come back, and while its transcript
\* is there its hash only changes by the tool, which every process that is
\* deleting the session is then known for.
Shrinks ==
    \A s \in Session : native[s].ver # 0 =>
        /\ native'[s].ver # 0
        /\ native'[s].parts \subseteq native[s].parts
        /\ Has(s, "data")' =>
              \/ Hash(s)' = Hash(s)
              \/ \A p \in Proc : sweep[p].cur = s /\ sweep[p].pc \in Deleting => p \in raced'

\* A proof may be replaced, by one of the same session and hash.
Grows ==
    /\ \A q \in proofs : \E r \in proofs' : r.session = q.session /\ r.hash = q.hash
    /\ nodes \subseteq nodes'

Calm ==
    /\ store' = store /\ now <= now'
    /\ \A p \in Proc : p \in raced => p \in raced' \/ sweep[p].pc = "verify"
    /\ Shrinks /\ Grows

\* Removing parts that the hash does not look at, or the transcript with them
\* (delete_adapter).
LEMMA WithoutShrinks ==
    ASSUME TypeOK, TypeOK', NEW s \in Session, NEW gone,
           native' = Without(s, gone), store' = store,
           Has(s, "data")' => gone \intersect HashedOf[store.kind] = {}
    PROVE  Shrinks
<1> SUFFICES ASSUME NEW r \in Session
             PROVE  /\ native'[r].ver = native[r].ver
                    /\ native'[r].parts \subseteq native[r].parts
                    /\ Has(r, "data")' => Hash(r)' = Hash(r)
    BY DEF Shrinks
<1>1. /\ native'[r].ver = native[r].ver
      /\ r # s => native'[r] = native[r]
      /\ native'[s].parts = native[s].parts \ gone
    BY WithoutTyped
<1>2. Has(r, "data")' => Hash(r)' = Hash(r)
  <2>1. CASE r = s
    <3>1. Has(s, "data")' => Targets(s)' = Targets(s) /\ Has(s, "data")
        BY <1>1 DEF Targets, Has
    <3> QED
        BY <1>1, <2>1, <3>1 DEF Hash
  <2>2. CASE r # s
    BY <1>1, <2>2 DEF Hash, Targets, Has
  <2> QED
    BY <2>1, <2>2
<1> QED
    BY <1>1, <1>2

\* Nothing happened to the sessions.
LEMMA StillShrinks ==
    ASSUME native' = native, store' = store
    PROVE  Shrinks
BY DEF Shrinks, Hash, Targets, Has

\* A proof replaces one of the same session and hash (attest.rs, compact.rs).
LEMMA UpsertGrows ==
    ASSUME NEW p, proofs' = Upsert(p), nodes' = nodes
    PROVE  Grows
<1> SUFFICES ASSUME NEW q \in proofs
             PROVE  \E r \in proofs' : r.session = q.session /\ r.hash = q.hash
    BY DEF Grows
<1>1. q \in proofs' \/ (q.session = p.session /\ q.hash = p.hash)
    BY DEF Upsert
<1>2. p \in proofs'
    BY DEF Upsert
<1> QED
    BY <1>1, <1>2

\* A sweep's own steps are calm.
LEMMA SweepCalm ==
    ASSUME IInv, TypeOK', NEW p \in Proc, SweepStep(p)
    PROVE  Calm
<1>1. /\ TypeOK /\ Existed(p) /\ Removing(p) /\ Bytes(p)
      /\ store.kind \in Kind
    BY StoreAssumption DEF IInv, Sound, TypeOK
<1>2. store' = store /\ now <= now'
    BY <1>1 DEF SweepStep, TypeOK
<1>3. /\ HashedOf[store.kind] \in {{"data"}, {"data", "rest"}}
      /\ (store.kind # "bundle" => HashedOf[store.kind] = {"data"})
    BY <1>1 DEF HashedOf
<1>4. sweep[p].pc \notin Idling => sweep[p].cur \in Session
    BY <1>1 DEF Existed
<1>5. CASE \/ Plan(p) \/ Take(p) \/ End(p) \/ HashBefore(p) \/ Create(p) \/ Write(p)
           \/ WriteFails(p) \/ Recheck(p) \/ Rename(p) \/ AppendConversation(p)
           \/ AppendTranscript(p) \/ AppendEdge(p) \/ Guard(p) \/ AppendAttempt(p)
           \/ Reassess(p) \/ AppendFailure(p) \/ AppendReceipt(p)
  <2>1. native' = native /\ proofs' = proofs /\ raced' = raced /\ nodes \subseteq nodes'
    BY <1>5 DEF Plan, Take, End, HashBefore, Create, Write, WriteFails, Recheck, Rename,
        AppendConversation, AppendTranscript, AppendEdge, Guard, AppendAttempt, Reassess,
        AppendFailure, AppendReceipt, graphVars, history
  <2> QED
    BY <1>2, <2>1, StillShrinks DEF Calm, Grows
<1>6. CASE AppendProof(p)
  <2>1. PICK q : proofs' = Upsert(q)
    BY <1>6 DEF AppendProof
  <2> QED
    BY <1>2, <1>6, <2>1, StillShrinks, UpsertGrows DEF Calm, AppendProof, history
<1>7. CASE Verify(p)
    BY <1>2, <1>7, StillShrinks DEF Calm, Grows, Verify, graphVars
<1>8. CASE RemoveFile(p) \/ RemoveRow(p) \/ RemoveDirectory(p)
          \/ RemoveTarget(p, "data") \/ RemoveTarget(p, "rest")
  <2>1. PICK r \in Session : r = sweep[p].cur
    BY <1>4, <1>8 DEF RemoveFile, RemoveRow, RemoveDirectory, RemoveTarget, Idling
  <2>2. proofs' = proofs /\ nodes' = nodes /\ raced' = raced
    BY <1>8 DEF RemoveFile, RemoveRow, RemoveDirectory, RemoveTarget, graphVars, history
  <2>3. \E gone : /\ native' = Without(r, gone)
                  /\ Has(r, "data")' => gone \intersect HashedOf[store.kind] = {}
    <3>0. \A gone : native' = Without(r, gone) => native'[r].parts = native[r].parts \ gone
        BY <1>1, <2>1, WithoutTyped
    <3>1. CASE RemoveFile(p) \/ RemoveDirectory(p)
      <4>1. PICK gone : native' = Without(r, gone) /\ "data" \in gone
        BY <2>1, <3>1 DEF RemoveFile, RemoveDirectory
      <4> QED
        BY <3>0, <4>1 DEF Has
    <3>2. CASE RemoveRow(p)
        BY <1>3, <2>1, <3>2 DEF RemoveRow
    <3>3. CASE RemoveTarget(p, "data")
      <4>1. native' = Without(r, {"data"} \intersect sweep[p].hash.parts)
        BY <2>1, <3>3 DEF RemoveTarget
      <4>2. CASE "data" \in sweep[p].hash.parts
        BY <3>0, <4>1, <4>2 DEF Has
      <4>3. CASE "data" \notin sweep[p].hash.parts
        BY <4>1, <4>3
      <4> QED
        BY <4>2, <4>3
    <3>4. CASE RemoveTarget(p, "rest")
      <4>1. native' = Without(r, {"rest"} \intersect sweep[p].hash.parts)
        BY <2>1, <3>4 DEF RemoveTarget
      <4>2. "data" \notin native[r].parts
        BY <1>1, <2>1, <3>4 DEF RemoveTarget, Removing, Has
      <4> QED
        BY <3>0, <4>1, <4>2 DEF Has
    <3> QED
        BY <1>8, <3>1, <3>2, <3>3, <3>4
  <2>4. Shrinks
    BY <1>1, <1>2, <2>3, WithoutShrinks
  <2> QED
    BY <1>2, <2>2, <2>4 DEF Calm, Grows
<1>9. CASE DeleteByCli(p)
  <2>1. \A r \in Session : \/ native'[r] = native[r]
                           \/ native'[r] = [native[r] EXCEPT !.parts = {}]
    BY <1>9 DEF DeleteByCli
  <2>2. \A r \in Session : native[r] \in [parts : SUBSET {"row", "data", "rest"}, ver : Nat, stamp : Nat]
    BY <1>1 DEF TypeOK
  <2>3. \A r \in Session :
           native'[r] = native[r] \/ (native'[r].ver = native[r].ver /\ native'[r].parts = {})
    <3> TAKE r \in Session
    <3>1. /\ [native[r] EXCEPT !.parts = {}].ver = native[r].ver
          /\ [native[r] EXCEPT !.parts = {}].parts = {}
        BY <2>2
    <3> QED
        BY <2>1, <3>1
  <2>4. Shrinks
    BY <1>2, <2>3 DEF Shrinks, Hash, Targets, Has
  <2> QED
    BY <1>2, <1>9, <2>4 DEF Calm, Grows, DeleteByCli, graphVars
<1> QED
    BY <1>5, <1>6, <1>7, <1>8, <1>9 DEF SweepStep, Compaction, Deletion

\* So are the steps of the tool, the clock, the other commands and failures,
\* and a start.
LEMMA OthersCalm ==
    ASSUME IInv, TypeOK', Others \/ (\E p \in Proc : Start(p))
    PROVE  Calm
<1>1. TypeOK
    BY DEF IInv
<1>2. CASE Tool
  <2>1. PICK s \in Session : ToolOpen(s) \/ ToolClose(s) \/ ToolWrite(s) \/ ToolSpawn(s)
    BY <1>2 DEF Tool
  <2>2. store' = store /\ now' = now /\ proofs' = proofs /\ nodes' = nodes
    BY <1>2 DEF Tool, graphVars
  <2>3. raced \subseteq raced'
    BY <2>1 DEF ToolOpen, ToolClose, ToolWrite, ToolSpawn, Touch
  <2>4. CASE ToolOpen(s) \/ ToolClose(s)
    BY <1>1, <2>2, <2>3, <2>4, StillShrinks DEF Calm, Grows, ToolOpen, ToolClose, TypeOK
  <2>5. CASE ToolWrite(s)
    <3>1. /\ native'[s].ver = native[s].ver + 1 /\ native'[s].parts = native[s].parts
          /\ native[s].ver \in Nat
          /\ \A r \in Session \ {s} : native'[r] = native[r]
        BY <1>1, <2>5 DEF ToolWrite, TypeOK
    <3>2. \A p \in Proc : sweep[p].cur = s /\ sweep[p].pc \in Deleting => p \in raced'
        BY <2>5 DEF ToolWrite, Touch
    <3>3. \A r \in Session \ {s} : Hash(r)' = Hash(r)
        BY <2>2, <3>1 DEF Hash, Targets, Has
    <3>4. Shrinks
        BY <3>1, <3>2, <3>3 DEF Shrinks
    <3> QED
        BY <1>1, <2>2, <2>3, <3>4 DEF Calm, Grows, TypeOK
  <2>6. CASE ToolSpawn(s)
    <3>1. native[s].ver = 0 /\ \A r \in Session \ {s} : native'[r] = native[r]
        BY <1>1, <2>6 DEF ToolSpawn, TypeOK
    <3>2. \A r \in Session \ {s} : Hash(r)' = Hash(r)
        BY <2>2, <3>1 DEF Hash, Targets, Has
    <3>3. Shrinks
        BY <3>1, <3>2 DEF Shrinks
    <3> QED
        BY <1>1, <2>2, <2>3, <3>3 DEF Calm, Grows, TypeOK
  <2> QED
    BY <2>1, <2>4, <2>5, <2>6
<1>3. CASE Tick
    BY <1>1, <1>3, StillShrinks DEF Calm, Grows, Tick, TypeOK, graphVars, history
<1>4. CASE Command
  <2>1. store' = store /\ native' = native /\ now' = now /\ raced' = raced /\ nodes' = nodes
    BY <1>4 DEF Command, AttestCheck, AttestAppend, GraphRetract, toolVars, graphVars
  <2>2. Grows
    <3>1. CASE AttestAppend
        BY <2>1, <3>1, UpsertGrows DEF AttestAppend
    <3>2. CASE proofs' = proofs
        BY <2>1, <3>2 DEF Grows
    <3> QED
        BY <1>4, <3>1, <3>2 DEF Command, AttestCheck, GraphRetract, graphVars
  <2> QED
    BY <1>1, <2>1, <2>2, StillShrinks DEF Calm, TypeOK
<1>5. ASSUME NEW p \in Proc, Fault(p) PROVE Calm
  <2>1. store' = store /\ now' = now /\ raced' = raced /\ nodes' = nodes /\ proofs' = proofs
    BY <1>5 DEF Fault, graphVars
  <2>2. Shrinks
    <3>1. CASE RemovePartly(p)
      <4>1. Existed(p) /\ Removing(p)
        BY DEF IInv, Sound
      <4>2. PICK r \in Session : r = sweep[p].cur
        BY <3>1, <4>1 DEF RemovePartly, Existed, Idling
      <4>3. HashedOf[store.kind] = {"data"}
        BY <3>1, <4>1, <1>1, StoreAssumption DEF RemovePartly, Removing, HashedOf, TypeOK
      <4>4. PICK gone \in {{"data"}, {"rest"}} : native' = Without(r, gone)
        BY <3>1, <4>2 DEF RemovePartly
      <4>5. native'[r].parts = native[r].parts \ gone
        BY <1>1, <4>4, WithoutTyped
      <4>6. Has(r, "data")' => gone \intersect HashedOf[store.kind] = {}
        BY <4>3, <4>4, <4>5 DEF Has
      <4> QED
        BY <1>1, <2>1, <4>4, <4>6, WithoutShrinks
    <3>2. CASE native' = native
        BY <2>1, <3>2, StillShrinks
    <3> QED
        BY <1>5, <3>1, <3>2 DEF Fault, AdapterFails, CliKeeps, WriteRefused, Die
  <2> QED
    BY <1>1, <2>1, <2>2 DEF Calm, Grows, TypeOK
<1>6. ASSUME NEW p \in Proc, Start(p) PROVE Calm
    BY <1>1, <1>6, StillShrinks DEF Calm, Grows, Start, toolVars, graphVars, history, TypeOK
<1> QED
    BY <1>2, <1>3, <1>4, <1>5, <1>6 DEF Others

-----------------------------------------------------------------------------
(***************************************************************************)
(* What the steps of the others leave of a process.                        *)
(***************************************************************************)

\* All but where p's open file is.
Same(p) ==
    /\ sweep'[p].pc = sweep[p].pc
    /\ sweep'[p].listed = sweep[p].listed
    /\ sweep'[p].modified = sweep[p].modified
    /\ sweep'[p].work = sweep[p].work
    /\ sweep'[p].compact = sweep[p].compact
    /\ sweep'[p].cur = sweep[p].cur
    /\ sweep'[p].hash = sweep[p].hash
    /\ sweep'[p].wrote = sweep[p].wrote
    /\ sweep'[p].attempt = sweep[p].attempt

\* A process writes no other process's variables; only a file that is renamed
\* or removed moves under another's handle.
LEMMA Apart ==
    ASSUME TypeOK, NEW p \in Proc, NEW q \in Proc, p # q,
           Start(q) \/ SweepStep(q) \/ Fault(q)
    PROVE  Same(p)
<1>1. sweep \in [Proc -> Local] /\ sweep[p] \in Local
    BY LocalTyped DEF TypeOK
<1>2. ASSUME NEW v, NEW moves, sweep' = WithFile(q, sweep[q].cur, moves, v) PROVE Same(p)
  <2>1. sweep'[p] = sweep[p] \/ sweep'[p] = [sweep[p] EXCEPT !.fd = moves[@]]
    BY <1>2 DEF WithFile
  <2> QED
    BY <1>1, <2>1 DEF Same, Local
<1>3. CASE sweep'[p] = sweep[p]
    BY <1>3 DEF Same
<1>4. CASE Start(q)
    BY <1>1, <1>3, <1>4 DEF Start
<1>5. CASE Fault(q)
    BY <1>1, <1>3, <1>5 DEF Fault, AdapterFails, RemovePartly, CliKeeps, WriteRefused, Die,
        Goto, GiveUp
<1>6. CASE Plan(q) \/ Take(q) \/ End(q)
    BY <1>1, <1>3, <1>6 DEF Plan, Take, End
<1>7. CASE Compaction(q)
    BY <1>1, <1>2, <1>3, <1>7 DEF Compaction, HashBefore, Create, Write, WriteFails, Recheck, Rename,
        AppendConversation, AppendTranscript, AppendEdge, AppendProof, Goto, GiveUp
<1>8. CASE Deletion(q)
    BY <1>1, <1>3, <1>8 DEF Deletion, Guard, AppendAttempt, Reassess, AppendFailure, Verify,
        RemoveFile, DeleteByCli, RemoveRow, RemoveDirectory, RemoveTarget, AppendReceipt,
        Goto, GiveUp
<1> QED
    BY <1>4, <1>5, <1>6, <1>7, <1>8 DEF SweepStep

\* What is known of p and its session survives a calm step of another.
LEMMA SoundKept ==
    ASSUME IInv, TypeOK', Calm, NEW p \in Proc, Same(p)
    PROVE  Sound(p)'
<1>1. /\ TypeOK /\ Sound(p) /\ sweep[p] \in Local /\ sweep'[p] \in Local
      /\ Shrinks /\ Grows /\ store' = store
    BY LocalTyped DEF IInv, Calm, TypeOK
<1>2. Existed(p)'
    BY <1>1 DEF Sound, Existed, Same, Shrinks, Local
<1>3. NodeFirst(p)'
    BY <1>1 DEF Sound, NodeFirst, Same, Grows, Transcript
<1>4. sweep[p].pc \notin Idling => /\ sweep[p].cur \in Session
                                  /\ native'[sweep[p].cur].parts \subseteq native[sweep[p].cur].parts
    BY <1>1 DEF Sound, Existed, Shrinks
<1>5. Gated(p)'
  <2>1. SUFFICES ASSUME sweep[p].pc \in Deleting \union {"verify"}
                 PROVE  /\ \E q \in proofs' : q.session = sweep[p].cur /\ q.hash = sweep[p].hash
                        /\ sweep[p].modified[sweep[p].cur] < now'
    BY DEF Gated, Same
  <2>2. PICK q \in proofs : q.session = sweep[p].cur /\ q.hash = sweep[p].hash
    BY <1>1, <2>1 DEF Sound, Gated
  <2>3. sweep[p].cur \in Session
    BY <1>4, <2>1 DEF Idling, Deleting
  <2>4. sweep[p].modified[sweep[p].cur] \in Nat /\ now \in Nat /\ now' \in Nat /\ now <= now'
    BY <1>1, <2>3 DEF Local, TypeOK, Calm
  <2> QED
    BY <1>1, <2>1, <2>2, <2>4 DEF Sound, Gated, Grows
<1>6. Bytes(p)'
  <2>1. SUFFICES ASSUME sweep[p].pc \in Deleting, NEW r, r = sweep[p].cur
                 PROVE  /\ Targets(r)' \subseteq sweep[p].hash.parts
                        /\ Has(r, "data")' => Hash(r)' = sweep[p].hash \/ p \in raced'
    BY DEF Bytes, Same, Targets, Has, Hash
  <2>2. /\ r \in Session /\ native[r].ver # 0
        /\ native'[r].parts \subseteq native[r].parts
    BY <1>1, <2>1, <1>4 DEF Idling, Deleting, Sound, Existed
  <2>3. Targets(r)' \subseteq Targets(r)
    BY <1>1, <2>2 DEF Targets
  <2>4. Has(r, "data")' => Has(r, "data")
    BY <2>2 DEF Has
  <2>5. p \in raced => p \in raced'
    BY <2>1 DEF Calm, Deleting
  <2>6. Has(r, "data")' => Hash(r)' = Hash(r) \/ p \in raced'
    BY <1>1, <2>1, <2>2 DEF Shrinks
  <2> QED
    BY <1>1, <2>1, <2>3, <2>4, <2>5, <2>6 DEF Sound, Bytes
<1>7. Removing(p)'
    BY <1>1, <1>4 DEF Sound, Removing, Same, Has, Idling
<1>8. (sweep[p].attempt <=> sweep[p].pc \in AfterAttempt)'
    BY <1>1 DEF Sound, Same
<1> QED
    BY <1>2, <1>3, <1>5, <1>6, <1>7, <1>8 DEF Sound

-----------------------------------------------------------------------------
(***************************************************************************)
(* What a process's own steps establish.                                   *)
(***************************************************************************)

\* A step to a session that the process listed, or on with the same one.
Onward(p) ==
    /\ sweep'[p].listed \subseteq sweep[p].listed
    /\ sweep'[p].work \subseteq sweep[p].listed \union sweep[p].work
    /\ sweep'[p].pc \notin Idling =>
          \/ sweep'[p].cur \in sweep[p].work
          \/ sweep[p].pc \notin Idling /\ sweep'[p].cur = sweep[p].cur

\* The session of the next step has existed.
LEMMA ExistedKept ==
    ASSUME IInv, Calm, NEW p \in Proc, Onward(p)
    PROVE  Existed(p)'
<1>1. TypeOK /\ Existed(p) /\ Shrinks /\ sweep[p] \in Local
    BY LocalTyped DEF IInv, Sound, Calm
<1>2. sweep[p].listed \subseteq Session /\ sweep[p].work \subseteq Session
    BY <1>1 DEF Local
<1> QED
    BY <1>1, <1>2 DEF Existed, Onward, Shrinks

\* A step to a label before the gates or after the end of an item.
Tame(p) ==
    /\ Onward(p)
    /\ sweep'[p].pc \notin Deleting \union {"edge", "verify", "receipt"}
    /\ sweep'[p].attempt <=> sweep'[p].pc \in AfterAttempt

\* Such a label asks for no more.
LEMMA TameSound ==
    ASSUME IInv, Calm, NEW p \in Proc, Tame(p)
    PROVE  Sound(p)'
<1>1. Existed(p)'
    BY ExistedKept DEF Tame
<1>2. NodeFirst(p)' /\ Gated(p)' /\ Bytes(p)' /\ Removing(p)'
    BY DEF Tame, NodeFirst, Gated, Bytes, Removing, Deleting
<1> QED
    BY <1>1, <1>2 DEF Sound, Tame

\* The end of an item and a death are such steps (sweep.rs sweep).
LEMMA TameEnds ==
    ASSUME IInv, NEW p \in Proc
    PROVE  sweep'[p] = Item(p) \/ sweep'[p] = Fresh => Tame(p)
<1>1. sweep[p] \in Local
    BY LocalTyped DEF IInv
<1>2. sweep'[p] = Item(p) => Tame(p)
    BY <1>1 DEF Tame, Item, Onward, Local, Idling, Deleting, AfterAttempt
<1>3. sweep'[p] = Fresh => Tame(p)
    BY <1>1 DEF Tame, Fresh, Onward, Local, Idling, Deleting, AfterAttempt
<1> QED
    BY <1>2, <1>3

\* The steps of listing, planning and compacting (sweep.rs, compact.rs).
LEMMA CompactionSound ==
    ASSUME IInv, TypeOK', Calm, NEW p \in Proc, Plan(p) \/ Take(p) \/ End(p) \/ Compaction(p)
    PROVE  Sound(p)'
<1>1. /\ TypeOK /\ sweep[p] \in Local /\ sweep \in [Proc -> Local] /\ Existed(p)
      /\ sweep[p].attempt <=> sweep[p].pc \in AfterAttempt
    BY LocalTyped DEF IInv, Sound, TypeOK
<1>2. sweep'[p] = Item(p) \/ sweep'[p] = Fresh => Tame(p)
    BY TameEnds
<1>3. ASSUME Plan(p) PROVE Tame(p)
    BY <1>1, <1>3 DEF Tame, Plan, Onward, Local, Idling, Deleting, AfterAttempt
<1>4. ASSUME Take(p) PROVE Tame(p)
  <2>1. PICK r \in sweep[p].work :
           sweep' = [sweep EXCEPT ![p].work = @ \ {r}, ![p].cur = r,
                       ![p].pc = IF r \in sweep[p].compact THEN "hash" ELSE "guard"]
    BY <1>4 DEF Take, Deepest
  <2> QED
    BY <1>1, <1>4, <2>1 DEF Tame, Take, Onward, Local, Idling, Deleting, AfterAttempt
<1>5. ASSUME End(p) PROVE Tame(p)
    BY <1>1, <1>2, <1>5 DEF End
<1>6. ASSUME HashBefore(p) PROVE Tame(p)
    BY <1>1, <1>2, <1>6 DEF HashBefore, GiveUp, Goto, Tame, Onward, Local, Idling, Deleting, AfterAttempt
<1>7. ASSUME Create(p) PROVE Tame(p)
    BY <1>1, <1>2, <1>7 DEF Create, GiveUp, Goto, Tame, Onward, Local, Idling, Deleting, AfterAttempt
<1>8. ASSUME Write(p) PROVE Tame(p)
    BY <1>1, <1>2, <1>8 DEF Write, GiveUp, Goto, Tame, Onward, Local, Idling, Deleting, AfterAttempt
<1>9. ASSUME AppendConversation(p) PROVE Tame(p)
    BY <1>1, <1>2, <1>9 DEF AppendConversation, GiveUp, Goto, Tame, Onward, Local, Idling, Deleting, AfterAttempt
<1>10. ASSUME AppendEdge(p) PROVE Tame(p)
    BY <1>1, <1>2, <1>10 DEF AppendEdge, GiveUp, Goto, Tame, Onward, Local, Idling, Deleting, AfterAttempt
<1>11. ASSUME AppendProof(p) PROVE Tame(p)
    BY <1>1, <1>2, <1>11 DEF AppendProof, GiveUp, Goto, Tame, Onward, Local, Idling, Deleting, AfterAttempt
<1>12. ASSUME WriteFails(p) PROVE Tame(p)
    BY <1>1, <1>2, <1>12 DEF WriteFails, WithFile
<1>13. ASSUME Recheck(p) PROVE Tame(p)
  <2>1. CASE Goto(p, "rename")
    BY <1>1, <1>13, <2>1 DEF Tame, Recheck, Goto, Onward, Local, Idling, Deleting, AfterAttempt
  <2>2. Goto(p, "rename") \/ sweep'[p] = Item(p)
    BY <1>1, <1>13 DEF Recheck, WithFile, GiveUp
  <2> QED
    BY <1>2, <2>1, <2>2
<1>14. ASSUME Rename(p) PROVE Tame(p)
  <2>1. CASE sweep'[p] = [sweep[p] EXCEPT !.pc = "conversation"]
    BY <1>1, <1>14, <2>1 DEF Tame, Rename, Onward, Local, Idling, Deleting, AfterAttempt
  <2>2. sweep'[p] = [sweep[p] EXCEPT !.pc = "conversation"] \/ sweep'[p] = Item(p)
    BY <1>1, <1>14 DEF Rename, WithFile, GiveUp
  <2> QED
    BY <1>2, <2>1, <2>2
<1>15. CASE AppendTranscript(p)
  <2>1. /\ sweep[p].pc = "transcript" /\ sweep'[p].pc = "edge"
        /\ sweep'[p] = [sweep[p] EXCEPT !.pc = "edge"]
    BY <1>1, <1>15 DEF AppendTranscript, Goto, Local
  <2>2. Onward(p)
    BY <1>1, <2>1 DEF Onward, Local, Idling
  <2>3. NodeFirst(p)'
    BY <1>1, <1>15, <2>1 DEF NodeFirst, AppendTranscript, Transcript, Local
  <2>4. Gated(p)' /\ Bytes(p)' /\ Removing(p)'
    BY <2>1 DEF Gated, Bytes, Removing, Deleting
  <2>5. (sweep[p].attempt <=> sweep[p].pc \in AfterAttempt)'
    BY <1>1, <2>1 DEF AfterAttempt, Deleting, Local
  <2> QED
    BY <2>2, <2>3, <2>4, <2>5, ExistedKept DEF Sound
<1>16. CASE Tame(p)
    BY <1>16, TameSound
<1> QED
    BY <1>3, <1>4, <1>5, <1>6, <1>7, <1>8, <1>9, <1>10, <1>11, <1>12, <1>13, <1>14, <1>15, <1>16
    DEF Compaction
\* While an adapter works, what gated it and what it deletes stay as they
\* were, through its own steps and through calm steps of others.
LEMMA GatesKept ==
    ASSUME IInv, TypeOK', Calm, NEW p \in Proc, sweep[p].pc \in Deleting,
           sweep'[p].cur = sweep[p].cur, sweep'[p].hash = sweep[p].hash,
           sweep'[p].modified = sweep[p].modified
    PROVE  /\ Gated(p)' /\ Bytes(p)'
           /\ native'[sweep[p].cur].parts \subseteq native[sweep[p].cur].parts
<1>1. PICK r \in Session : r = sweep[p].cur
    BY DEF IInv, Sound, Existed, Idling, Deleting
<1>2. /\ TypeOK /\ sweep[p] \in Local /\ Shrinks /\ Grows /\ store' = store
      /\ native[r].ver # 0 /\ Gated(p) /\ Bytes(p)
    BY <1>1, LocalTyped DEF IInv, Calm, Sound, Existed, Idling, Deleting
<1>3. native'[r].parts \subseteq native[r].parts
    BY <1>2 DEF Shrinks
<1>4. Gated(p)'
  <2>1. PICK q \in proofs : q.session = sweep[p].cur /\ q.hash = sweep[p].hash
    BY <1>2 DEF Gated
  <2>2. sweep[p].modified[r] \in Nat /\ now \in Nat /\ now' \in Nat /\ now <= now'
    BY <1>2 DEF Local, TypeOK, Calm
  <2>3. sweep[p].modified[r] < now'
    BY <1>1, <1>2, <2>2 DEF Gated
  <2>4. \E t \in proofs' : t.session = sweep[p].cur /\ t.hash = sweep[p].hash
    BY <1>2, <2>1 DEF Grows
  <2> QED
    BY <1>1, <2>3, <2>4 DEF Gated
<1>5. Bytes(p)'
  <2>1. Targets(r)' \subseteq Targets(r)
    BY <1>2, <1>3 DEF Targets
  <2>2. Has(r, "data")' => Has(r, "data") /\ (Hash(r)' = Hash(r) \/ p \in raced')
    BY <1>1, <1>2, <1>3 DEF Shrinks, Has
  <2>3. p \in raced => p \in raced'
    BY DEF Calm, Deleting
  <2>4. /\ Targets(r)' \subseteq sweep[p].hash.parts
        /\ Has(r, "data")' => Hash(r)' = sweep[p].hash \/ p \in raced'
    BY <1>1, <1>2, <2>1, <2>2, <2>3 DEF Bytes
  <2> QED
    BY <1>1, <2>4 DEF Bytes, Targets, Has, Hash
<1> QED
    BY <1>1, <1>3, <1>4, <1>5

\* A step of an adapter is sound when it knows what it removed.
LEMMA AdapterSound ==
    ASSUME IInv, TypeOK', Calm, NEW p \in Proc, NEW label \in AfterAttempt,
           sweep[p].pc \in Deleting, sweep'[p] = [sweep[p] EXCEPT !.pc = label], Removing(p)'
    PROVE  Sound(p)'
<1>1. sweep[p] \in Local /\ (sweep[p].attempt <=> sweep[p].pc \in AfterAttempt)
    BY LocalTyped DEF IInv, Sound
<1>2. /\ sweep'[p].pc = label /\ sweep'[p].cur = sweep[p].cur /\ sweep'[p].hash = sweep[p].hash
      /\ sweep'[p].modified = sweep[p].modified /\ sweep'[p].attempt = sweep[p].attempt
      /\ sweep'[p].listed = sweep[p].listed /\ sweep'[p].work = sweep[p].work
    BY <1>1 DEF Local
<1>3. Gated(p)' /\ Bytes(p)'
    BY <1>2, GatesKept
<1>4. Existed(p)'
    BY <1>1, <1>2, ExistedKept DEF Onward, Idling, Deleting
<1>5. NodeFirst(p)'
    BY <1>2 DEF NodeFirst, AfterAttempt, Deleting
<1> QED
    BY <1>1, <1>2, <1>3, <1>4, <1>5 DEF Sound, AfterAttempt
\* The gates: the assessment finds a proof of the bytes and the window
\* passed, the check before the adapter the same bytes (purge.rs, policy.rs).
LEMMA GateSound ==
    ASSUME IInv, TypeOK', Calm, NEW p \in Proc, store' = store, now' = now,
           Reassess(p) \/ Verify(p)
    PROVE  Sound(p)'
<1>1. /\ TypeOK /\ sweep[p] \in Local /\ sweep \in [Proc -> Local]
      /\ Gated(p) /\ (sweep[p].attempt <=> sweep[p].pc \in AfterAttempt)
    BY LocalTyped DEF IInv, Sound, TypeOK
<1>2. PICK s \in Session : s = sweep[p].cur
    BY DEF IInv, Sound, Existed, Idling, Reassess, Verify
<1>3. Hash(s) \in HashType /\ store.kind \in Kind
    BY <1>1, HashTyped, StoreAssumption DEF TypeOK
<1>4. CASE sweep'[p] = [sweep[p] EXCEPT !.pc = "failed"]
  <2>1. Tame(p)
    BY <1>1, <1>2, <1>4
    DEF Reassess, Verify, Tame, Onward, Local, Idling, Deleting, AfterAttempt
  <2> QED
    BY <2>1, TameSound
<1>5. CASE Reassess(p) /\ sweep'[p] # [sweep[p] EXCEPT !.pc = "failed"]
  <2>1. /\ sweep[p].pc = "assess" /\ Eligible(s, sweep[p].modified[s]) /\ proofs' = proofs
        /\ sweep'[p] = [sweep[p] EXCEPT !.pc = "verify", !.hash = Hash(s)]
    BY <1>1, <1>2, <1>5 DEF Reassess, graphVars
  <2>2. /\ sweep'[p].pc = "verify" /\ sweep'[p].hash = Hash(s) /\ sweep'[p].cur = s
        /\ sweep'[p].modified = sweep[p].modified /\ sweep'[p].attempt = sweep[p].attempt
        /\ sweep'[p].listed = sweep[p].listed /\ sweep'[p].work = sweep[p].work
    BY <1>1, <1>2, <1>3, <2>1 DEF Local, Labels
  <2>3. /\ ~ (sweep[p].modified[s] >= now)
        /\ ExactProofs(s) # {}
    BY <2>1 DEF Eligible, Blockers, ProofBlockers
  <2>4. PICK q \in proofs : q.session = s /\ q.hash = Hash(s)
    BY <2>3 DEF ExactProofs, ProofsOf
  <2>5. sweep[p].modified[s] < now
    <3>1. sweep[p].modified[s] \in Nat /\ now \in Nat
        BY <1>1 DEF TypeOK, Local
    <3> QED
        BY <2>3, <3>1
  <2>6. Gated(p)'
    BY <2>1, <2>2, <2>4, <2>5 DEF Gated
  <2>7. Existed(p)'
    BY <1>1, <1>2, <2>1, <2>2, ExistedKept DEF Onward, Idling
  <2>8. NodeFirst(p)' /\ Bytes(p)' /\ Removing(p)'
    BY <2>2 DEF NodeFirst, Bytes, Removing, Deleting
  <2> QED
    BY <1>1, <2>1, <2>2, <2>6, <2>7, <2>8 DEF Sound, AfterAttempt
<1>6. CASE Verify(p) /\ sweep'[p] # [sweep[p] EXCEPT !.pc = "failed"]
  <2>1. /\ sweep[p].pc = "verify" /\ Hash(s) = sweep[p].hash
        /\ proofs' = proofs /\ native' = native
        /\ sweep'[p] = [sweep[p] EXCEPT !.pc = Adapter[store.kind]]
    BY <1>1, <1>2, <1>6 DEF Verify, Goto, graphVars
  <2>2. /\ sweep'[p].pc = Adapter[store.kind] /\ sweep'[p].hash = sweep[p].hash
        /\ sweep'[p].cur = s
        /\ sweep'[p].modified = sweep[p].modified /\ sweep'[p].attempt = sweep[p].attempt
        /\ sweep'[p].listed = sweep[p].listed /\ sweep'[p].work = sweep[p].work
    BY <1>1, <1>2, <2>1 DEF Local
  <2>3. \/ Adapter[store.kind] = "remove" /\ store.kind = "file"
        \/ Adapter[store.kind] = "cli" /\ store.kind \in {"codex", "opencode"}
        \/ Adapter[store.kind] = "row" /\ store.kind \in {"mcode", "copilot", "bundle"}
    BY <1>3 DEF Adapter, Kind
  <2>4. Gated(p)'
    BY <1>1, <1>2, <2>1, <2>2 DEF Gated
  <2>5. Bytes(p)'
    <3>1. /\ Targets(s)' = Targets(s) /\ Has(s, "data")' = Has(s, "data")
          /\ Hash(s)' = Hash(s) /\ Targets(s) = Hash(s).parts
        BY <2>1 DEF Targets, Has, Hash
    <3>2. /\ Targets(s)' \subseteq sweep[p].hash.parts
          /\ Hash(s)' = sweep[p].hash
        BY <2>1, <3>1
    <3> QED
        BY <2>2, <3>2 DEF Bytes, Targets, Has, Hash
  <2>6. Removing(p)'
    BY <2>2, <2>3 DEF Removing
  <2>7. Existed(p)'
    BY <1>1, <1>2, <2>1, <2>2, ExistedKept DEF Onward, Idling
  <2>8. NodeFirst(p)'
    BY <2>2, <2>3 DEF NodeFirst
  <2> QED
    BY <1>1, <2>1, <2>2, <2>3, <2>4, <2>5, <2>6, <2>7, <2>8 DEF Sound, AfterAttempt, Deleting
<1> QED
    BY <1>4, <1>5, <1>6

\* A command that deletes a session with those below it deletes that session
\* (delete_adapter delete_candidate).
LEMMA FamilyOwn ==
    ASSUME NEW s \in Session
    PROVE  s \in Family(s)
<1>1. PICK f \in [0 .. 0 -> Session] : f[0] = s
  <2>1. [i \in 0 .. 0 |-> s] \in [0 .. 0 -> Session] /\ [i \in 0 .. 0 |-> s][0] = s
    OBVIOUS
  <2> QED
    BY <2>1
<1>2. f \in Line(Session, s, 0)
    BY <1>1 DEF Line
<1>3. 0 \in 0 .. MaxDepth
    BY ParentAssumption
<1> QED
    BY <1>1, <1>2, <1>3 DEF Family

\* The adapters: nothing of the session is left when one reports success
\* (delete_adapter/*.rs, mod.rs delete_candidate).
LEMMA AdapterStepSound ==
    ASSUME IInv, TypeOK', Calm, NEW p \in Proc,
           \/ RemoveFile(p) \/ DeleteByCli(p) \/ RemoveRow(p) \/ RemoveDirectory(p)
           \/ RemoveTarget(p, "data") \/ RemoveTarget(p, "rest")
    PROVE  Sound(p)'
<1>1. /\ TypeOK /\ Written /\ sweep[p] \in Local /\ sweep \in [Proc -> Local]
      /\ Removing(p) /\ Bytes(p) /\ store' = store
    BY LocalTyped DEF IInv, Sound, TypeOK, Calm
<1>2. PICK s \in Session : s = sweep[p].cur
    BY DEF IInv, Sound, Existed, Idling, RemoveFile, DeleteByCli, RemoveRow, RemoveDirectory,
       RemoveTarget
<1>3. /\ store.kind \in Kind /\ native[s].parts \subseteq PartsOf[store.kind]
      /\ native[s].parts \subseteq {"row", "data", "rest"}
    BY <1>1, StoreAssumption DEF TypeOK, Written
<1>4. \A gone : native' = Without(s, gone) => native'[s].parts = native[s].parts \ gone
    BY <1>1, WithoutTyped
<1>5. ASSUME NEW label \in {"failed", "receipt", "directory", "data", "rest"},
             sweep[p].pc \in Deleting, Goto(p, label),
             label \in {"data", "rest"} => store.kind = "bundle",
             label = "directory" => store.kind \in {"mcode", "copilot"},
             label \in {"directory", "data", "rest"} => "row" \notin native'[s].parts,
             label = "rest" => "data" \notin native'[s].parts,
             label = "receipt" /\ store.kind # "opencode" => native'[s].parts = {}
      PROVE  Sound(p)'
  <2>1. sweep'[p] = [sweep[p] EXCEPT !.pc = label] /\ label \in AfterAttempt
    BY <1>1, <1>5 DEF Goto, AfterAttempt, Deleting
  <2>2. sweep'[p].pc = label /\ sweep'[p].cur = s
    BY <1>1, <1>2, <2>1 DEF Local
  <2>3. Removing(p)'
    BY <1>1, <1>5, <2>2 DEF Removing, Has
  <2> QED
    BY <1>5, <2>1, <2>3, AdapterSound
<1>6. CASE RemoveFile(p)
  <2>1. PartsOf[store.kind] = {"data"} /\ native'[s].parts = native[s].parts \ {"data"}
    BY <1>1, <1>2, <1>3, <1>4, <1>6 DEF RemoveFile, Removing, PartsOf
  <2>2. Goto(p, "receipt") \/ Goto(p, "failed")
    BY <1>6 DEF RemoveFile
  <2> QED
    BY <1>3, <1>5, <1>6, <2>1, <2>2 DEF RemoveFile, Deleting
<1>7. CASE DeleteByCli(p)
  <2>1. s \in Family(s)
    BY FamilyOwn
  <2>2. native'[s].parts = {}
    BY <1>1, <1>2, <1>7, <2>1 DEF DeleteByCli, TypeOK
  <2> QED
    BY <1>5, <1>7, <2>2 DEF DeleteByCli, Deleting
<1>8. CASE RemoveRow(p)
  <2>1. "row" \notin native'[s].parts /\ store.kind \in {"mcode", "copilot", "bundle"}
    BY <1>1, <1>2, <1>4, <1>8 DEF RemoveRow, Removing
  <2>2. \/ store.kind = "bundle" /\ Goto(p, "data")
        \/ store.kind \in {"mcode", "copilot"} /\ Goto(p, "directory")
    BY <1>8, <2>1 DEF RemoveRow
  <2> QED
    BY <1>5, <1>8, <2>1, <2>2 DEF RemoveRow, Deleting
<1>9. CASE RemoveDirectory(p)
  <2>1. native'[s].parts = native[s].parts \ {"data", "rest"} /\ "row" \notin native[s].parts
    BY <1>1, <1>2, <1>4, <1>9 DEF RemoveDirectory, Removing, Has
  <2>2. native'[s].parts = {}
    BY <1>3, <2>1
  <2> QED
    BY <1>5, <1>9, <2>2 DEF RemoveDirectory, Deleting
<1>10. ASSUME NEW part \in {"data", "rest"}, RemoveTarget(p, part) PROVE Sound(p)'
  <2>1. /\ store.kind = "bundle" /\ "row" \notin native[s].parts
        /\ part = "rest" => "data" \notin native[s].parts
        /\ Targets(s) \subseteq sweep[p].hash.parts
    BY <1>1, <1>2, <1>10 DEF RemoveTarget, Removing, Bytes, Has, Deleting
  <2>2. Targets(s) = native[s].parts \intersect {"data", "rest"}
    BY <2>1 DEF Targets, HashedOf, Kind
  <2>3. native'[s].parts = native[s].parts \ ({part} \intersect sweep[p].hash.parts)
    BY <1>2, <1>4, <1>10 DEF RemoveTarget
  <2>4. part \notin native'[s].parts /\ native'[s].parts \subseteq native[s].parts
    BY <1>3, <2>1, <2>2, <2>3
  <2>5. \/ Goto(p, "failed")
        \/ part = "data" /\ Goto(p, "rest")
        \/ part = "rest" /\ Goto(p, "receipt")
    BY <1>10 DEF RemoveTarget
  <2>6. part = "rest" => native'[s].parts = {}
    BY <1>3, <2>1, <2>4
  <2> QED
    BY <1>5, <1>10, <2>1, <2>4, <2>5, <2>6 DEF RemoveTarget, Deleting
<1> QED
    BY <1>6, <1>7, <1>8, <1>9, <1>10
\* The steps of a deletion (purge.rs purge_candidate, delete_adapter).
LEMMA DeletionSound ==
    ASSUME IInv, TypeOK', Calm, NEW p \in Proc, store' = store, now' = now, Deletion(p)
    PROVE  Sound(p)'
<1>1. /\ sweep[p] \in Local /\ sweep \in [Proc -> Local]
      /\ sweep[p].attempt <=> sweep[p].pc \in AfterAttempt
    BY LocalTyped DEF IInv, Sound, TypeOK
<1>2. sweep'[p] = Item(p) => Tame(p)
    BY TameEnds
<1>3. ASSUME Guard(p) PROVE Tame(p)
    BY <1>1, <1>2, <1>3 DEF Guard, GiveUp, Goto, Tame, Onward, Local, Idling, Deleting, AfterAttempt
<1>4. ASSUME AppendAttempt(p) PROVE Tame(p)
    BY <1>1, <1>4 DEF AppendAttempt, Tame, Onward, Local, Idling, Deleting, AfterAttempt
<1>5. ASSUME AppendFailure(p) \/ AppendReceipt(p) PROVE Tame(p)
    BY <1>1, <1>2, <1>5 DEF AppendFailure, AppendReceipt, GiveUp
<1>6. CASE Reassess(p) \/ Verify(p)
    BY <1>6, GateSound
<1>7. CASE \/ RemoveFile(p) \/ DeleteByCli(p) \/ RemoveRow(p) \/ RemoveDirectory(p)
           \/ RemoveTarget(p, "data") \/ RemoveTarget(p, "rest")
    BY <1>7, AdapterStepSound
<1>8. CASE Tame(p)
    BY <1>8, TameSound
<1> QED
    BY <1>3, <1>4, <1>5, <1>6, <1>7, <1>8 DEF Deletion

\* A failure or a death ends the item, or makes the adapter report it.
LEMMA FaultSound ==
    ASSUME IInv, TypeOK', Calm, NEW p \in Proc, Fault(p)
    PROVE  Sound(p)'
<1>1. /\ TypeOK /\ Written /\ sweep[p] \in Local /\ sweep \in [Proc -> Local]
      /\ Removing(p) /\ store' = store
    BY LocalTyped DEF IInv, Sound, TypeOK, Calm
<1>2. ASSUME Goto(p, "failed"), sweep[p].pc \in Deleting PROVE Sound(p)'
  <2>1. sweep'[p] = [sweep[p] EXCEPT !.pc = "failed"] /\ "failed" \in AfterAttempt
    BY <1>1, <1>2 DEF Goto, AfterAttempt
  <2>2. sweep'[p].pc = "failed"
    BY <1>1, <2>1 DEF Local
  <2>3. Removing(p)'
    BY <2>2 DEF Removing
  <2> QED
    BY <1>2, <2>1, <2>3, AdapterSound
<1>3. CASE AdapterFails(p) \/ RemovePartly(p)
    BY <1>2, <1>3 DEF AdapterFails, RemovePartly, Deleting
<1>4. CASE CliKeeps(p) /\ ~Goto(p, "failed")
  <2>1. /\ sweep[p].pc = "cli" /\ native' = native
        /\ sweep'[p] = [sweep[p] EXCEPT !.pc = "receipt"] /\ "receipt" \in AfterAttempt
        /\ ~(store.kind = "codex" /\ Has(sweep[p].cur, "data"))
    BY <1>1, <1>4 DEF CliKeeps, Goto, AfterAttempt
  <2>2. sweep'[p].pc = "receipt" /\ sweep'[p].cur = sweep[p].cur
    BY <1>1, <2>1 DEF Local
  <2>3. sweep[p].cur \in Session
    BY <2>1 DEF IInv, Sound, Existed, Idling
  <2>4. store.kind # "opencode" => native[sweep[p].cur].parts = {}
    <3>1. store.kind # "opencode" => store.kind = "codex"
        BY <1>1, <2>1 DEF Removing
    <3>2. store.kind = "codex" => native[sweep[p].cur].parts \subseteq {"data"}
        BY <1>1, <2>3 DEF Written, PartsOf, Kind
    <3> QED
        BY <2>1, <3>1, <3>2 DEF Has
  <2>5. Removing(p)'
    BY <1>1, <2>1, <2>2, <2>4 DEF Removing
  <2> QED
    BY <2>1, <2>5, AdapterSound DEF Deleting
<1>5. CASE WriteRefused(p) \/ Die(p)
  <2>1. sweep'[p] = Item(p) \/ sweep'[p] = Fresh
    BY <1>1, <1>5 DEF WriteRefused, Die, GiveUp
  <2> QED
    BY <2>1, TameEnds, TameSound
<1> QED
    BY <1>2, <1>3, <1>4, <1>5 DEF Fault, CliKeeps, Deleting

\* A sweep or purge starts with sessions that exist (sweep.rs:46, purge.rs:16).
LEMMA StartSound ==
    ASSUME IInv, TypeOK', Calm, NEW p \in Proc, Start(p)
    PROVE  Sound(p)'
<1>1. TypeOK /\ Written /\ sweep \in [Proc -> Local] /\ native' = native
    BY DEF IInv, TypeOK, Start, toolVars
<1>2. \A s \in Listed : s \in Session /\ native[s].ver # 0
    BY <1>1 DEF Listed, Written, Has
<1>3. PICK label \in {"plan", "guard"}, cur \in Listed \union {NoSession} :
         sweep'[p] = Listing(label, cur) /\ (label = "guard" => cur \in Listed)
    BY <1>1 DEF Start
<1>4. /\ sweep'[p].pc = label /\ sweep'[p].listed = Listed /\ sweep'[p].work = {}
      /\ sweep'[p].cur = cur /\ ~sweep'[p].attempt
    BY <1>3 DEF Listing, Fresh
<1>5. Existed(p)'
    BY <1>1, <1>2, <1>3, <1>4 DEF Existed, Idling
<1>6. NodeFirst(p)' /\ Gated(p)' /\ Bytes(p)' /\ Removing(p)'
    BY <1>4 DEF NodeFirst, Gated, Bytes, Removing, Deleting
<1> QED
    BY <1>4, <1>5, <1>6 DEF Sound, AfterAttempt, Deleting
\* The tool only writes new versions.
Aging == \A s \in Session : native[s].ver <= native'[s].ver

\* No step gives a session parts that its store does not know, or files
\* without a version, or an earlier version.
LEMMA WrittenKept ==
    ASSUME IInv, TypeOK', Calm, Next
    PROVE  Written' /\ Aging
<1>1. /\ TypeOK /\ Written /\ store' = store
      /\ native \in [Session -> [parts : SUBSET {"row", "data", "rest"}, ver : Nat, stamp : Nat]]
    BY DEF IInv, TypeOK, Calm
<1>2. CASE \A r \in Session : /\ native'[r].parts \subseteq native[r].parts
                              /\ native'[r].ver = native[r].ver
    BY <1>1, <1>2 DEF Written, Aging
<1>3. CASE \E s \in Session, gone \in SUBSET {"row", "data", "rest"} : native' = Without(s, gone)
    BY <1>1, <1>2, <1>3, WithoutTyped
<1>4. CASE native' = native
    BY <1>2, <1>4
<1>5. CASE Tool
  <2>1. PICK s \in Session : ToolOpen(s) \/ ToolClose(s) \/ ToolWrite(s) \/ ToolSpawn(s)
    BY <1>5 DEF Tool
  <2>2. CASE ToolWrite(s)
    <3>1. /\ native'[s].ver = native[s].ver + 1 /\ native[s].ver \in Nat
          /\ native'[s].parts = native[s].parts
          /\ \A r \in Session \ {s} : native'[r] = native[r]
        BY <1>1, <2>2 DEF ToolWrite
    <3> QED
        BY <1>1, <3>1 DEF Written, Aging
  <2>3. CASE ToolSpawn(s)
    <3>1. /\ native[s].ver = 0 /\ native'[s].ver = 1 /\ native'[s].parts = PartsOf[store.kind]
          /\ \A r \in Session \ {s} : native'[r] = native[r]
        BY <1>1, <2>3 DEF ToolSpawn
    <3> QED
        BY <1>1, <3>1 DEF Written, Aging
  <2> QED
    BY <1>4, <2>1, <2>2, <2>3 DEF ToolOpen, ToolClose
<1>6. CASE Tick \/ Command \/ \E p \in Proc : Start(p)
    BY <1>4, <1>6 DEF Tick, Command, Start, toolVars
<1>7. ASSUME NEW p \in Proc, sweep[p].pc \notin Idling PROVE sweep[p].cur \in Session
    BY <1>7 DEF IInv, Sound, Existed
<1>8. ASSUME NEW p \in Proc, Fault(p) PROVE Written' /\ Aging
  <2>1. CASE RemovePartly(p)
    <3>1. sweep[p].cur \in Session
        BY <1>7, <2>1 DEF RemovePartly, Idling
    <3> QED
        BY <1>3, <2>1, <3>1 DEF RemovePartly
  <2> QED
    BY <1>4, <1>8, <2>1 DEF Fault, AdapterFails, CliKeeps, WriteRefused, Die
<1>9. ASSUME NEW p \in Proc, SweepStep(p) PROVE Written' /\ Aging
  <2>1. CASE RemoveFile(p) \/ RemoveRow(p) \/ RemoveDirectory(p)
    <3>1. sweep[p].cur \in Session
        BY <1>7, <2>1 DEF RemoveFile, RemoveRow, RemoveDirectory, Idling
    <3> QED
        BY <1>3, <2>1, <3>1 DEF RemoveFile, RemoveRow, RemoveDirectory
  <2>2. CASE RemoveTarget(p, "data") \/ RemoveTarget(p, "rest")
    <3>1. sweep[p].cur \in Session
        BY <1>7, <2>2 DEF RemoveTarget, Idling
    <3>2. PICK part \in {"data", "rest"} :
             native' = Without(sweep[p].cur, {part} \intersect sweep[p].hash.parts)
        BY <2>2 DEF RemoveTarget
    <3>3. {part} \intersect sweep[p].hash.parts \in SUBSET {"row", "data", "rest"}
        OBVIOUS
    <3> QED
        BY <1>3, <3>1, <3>2, <3>3
  <2>3. CASE DeleteByCli(p)
    <3>1. \A r \in Session : native'[r] = native[r] \/ native'[r] = [native[r] EXCEPT !.parts = {}]
        BY <2>3 DEF DeleteByCli
    <3>2. \A r \in Session : native'[r].parts \subseteq native[r].parts
                             /\ native'[r].ver = native[r].ver
        BY <1>1, <3>1
    <3> QED
        BY <1>2, <3>2
  <2>4. CASE native' = native
    BY <1>4, <2>4
  <2> QED
    BY <1>9, <2>1, <2>2, <2>3, <2>4
    DEF SweepStep, Plan, Take, End, Compaction, Deletion, HashBefore, Create, Write, WriteFails,
        Recheck, Rename, AppendConversation, AppendTranscript, AppendEdge, AppendProof, Guard,
        AppendAttempt, Reassess, AppendFailure, Verify, AppendReceipt
<1> QED
    BY <1>5, <1>6, <1>8, <1>9 DEF Next, Others

\* A receipt is appended after the adapter left nothing, and no session
\* comes back (receipt.rs).
LEMMA ReceiptedKept ==
    ASSUME IInv, TypeOK', Calm, Next
    PROVE  Receipted'
<1>1. /\ TypeOK /\ Receipted /\ Shrinks /\ store' = store
      /\ \A r \in receipts : r.session \in Session
    BY DEF IInv, TypeOK, Calm, ReceiptType
<1>2. ASSUME NEW r \in receipts
      PROVE  /\ native'[r.session].ver # 0
             /\ store'.kind # "opencode" => native'[r.session].parts = {}
    BY <1>1 DEF Receipted, Shrinks
<1>3. CASE receipts' = receipts
    BY <1>2, <1>3 DEF Receipted
<1>4. ASSUME NEW p \in Proc, AppendReceipt(p) PROVE Receipted'
  <2>1. /\ sweep[p].pc = "receipt" /\ native' = native
        /\ receipts' = receipts \union {[session |-> sweep[p].cur, hash |-> sweep[p].hash]}
    BY <1>4 DEF AppendReceipt
  <2>2. /\ native[sweep[p].cur].ver # 0
        /\ store.kind # "opencode" => native[sweep[p].cur].parts = {}
    BY <2>1 DEF IInv, Sound, Existed, Removing, Idling
  <2> QED
    BY <1>1, <1>2, <2>1, <2>2 DEF Receipted
<1>5. ASSUME NEW p \in Proc, SweepStep(p) PROVE Receipted'
    BY <1>3, <1>4, <1>5
    DEF SweepStep, Plan, Take, End, Compaction, Deletion, HashBefore, Create, Write, WriteFails,
        Recheck, Rename, AppendConversation, AppendTranscript, AppendEdge, AppendProof, Guard,
        AppendAttempt, Reassess, AppendFailure, Verify, RemoveFile, DeleteByCli, RemoveRow,
        RemoveDirectory, RemoveTarget, graphVars
<1> QED
    BY <1>3, <1>5
    DEF Next, Others, Start, Tool, Tick, Command, AttestCheck, AttestAppend, GraphRetract, Fault,
        graphVars
-----------------------------------------------------------------------------
(***************************************************************************)
(* The theorems.                                                           *)
(***************************************************************************)

\* The store is as the tool left it, and nothing runs.
LEMMA Beginning == Init => IInv
<1> SUFFICES ASSUME Init PROVE IInv
    OBVIOUS
<1>1. store \in Stores /\ store.kind \in Kind /\ store.live \subseteq Session
      /\ store.recorded \subseteq Session
    BY StoreAssumption DEF Init
<1>2. PartsOf[store.kind] \subseteq {"row", "data", "rest"}
    BY <1>1 DEF PartsOf
<1>3. native \in [Session -> [parts : SUBSET {"row", "data", "rest"}, ver : Nat, stamp : Nat]]
    BY <1>1, <1>2 DEF Init
<1>4. NoHash \in HashType
    BY DEF NoHash, HashType
<1>5. Fresh \in Local
    BY <1>4 DEF Fresh, Local, Labels, Places
<1>6. nodes \subseteq Node /\ linked \subseteq nodes
    BY <1>1 DEF Init, Node, Conversation, Manual
<1>7. TypeOK
    BY <1>1, <1>3, <1>5, <1>6 DEF Init, TypeOK
<1>8. Written
    BY <1>1 DEF Init, Written
<1>9. ASSUME NEW p \in Proc PROVE Sound(p)
  <2>1. sweep[p] = Fresh
    BY DEF Init
  <2>2. /\ sweep[p].pc = "idle" /\ sweep[p].listed = {} /\ sweep[p].work = {}
        /\ sweep[p].attempt = FALSE
    BY <2>1 DEF Fresh
  <2> QED
    BY <2>2 DEF Sound, Existed, NodeFirst, Gated, Bytes, Removing, Idling, Deleting, AfterAttempt
<1>10. Receipted
    BY DEF Init, Receipted
<1> QED
    BY <1>7, <1>8, <1>9, <1>10 DEF IInv

\* Every step keeps what is known of the store and of every process.
LEMMA StepKeeps == IInv /\ [Next]_vars => IInv'
<1>1. ASSUME IInv, UNCHANGED vars PROVE IInv'
  <2>1. /\ store' = store /\ native' = native /\ opened' = opened /\ now' = now
        /\ partial' = partial /\ final' = final /\ nodes' = nodes /\ linked' = linked
        /\ proofs' = proofs /\ receipts' = receipts /\ sweep' = sweep /\ attesting' = attesting
        /\ deleted' = deleted /\ raced' = raced /\ quiet' = quiet
    BY <1>1 DEF vars, toolVars, fileVars, graphVars, history
  <2>2. TypeOK'
    BY <1>1, <2>1 DEF IInv, TypeOK
  <2>3. Calm
    BY <1>1, <2>1, <2>2, StillShrinks DEF IInv, Calm, Grows, TypeOK
  <2>4. \A p \in Proc : Sound(p)'
    BY <1>1, <2>1, <2>2, <2>3, SoundKept DEF Same
  <2> QED
    BY <1>1, <2>1, <2>2, <2>4 DEF IInv, Written, Receipted
<1>2. ASSUME IInv, Next PROVE IInv'
  <2>1. TypeOK'
    BY <1>2, StepTyped
  <2>2. Calm
    BY <1>2, <2>1, SweepCalm, OthersCalm DEF Next
  <2>3. Written' /\ Receipted'
    BY <1>2, <2>1, <2>2, WrittenKept, ReceiptedKept
  <2>4. ASSUME NEW p \in Proc PROVE Sound(p)'
    <3>1. CASE Same(p)
        BY <1>2, <2>1, <2>2, <3>1, SoundKept
    <3>2. CASE Start(p)
        BY <1>2, <2>1, <2>2, <3>2, StartSound
    <3>3. CASE Fault(p)
        BY <1>2, <2>1, <2>2, <3>3, FaultSound
    <3>4. CASE SweepStep(p)
        BY <1>2, <2>1, <2>2, <3>4, CompactionSound, DeletionSound DEF SweepStep
    <3>5. ASSUME NEW q \in Proc, p # q, Start(q) \/ SweepStep(q) \/ Fault(q) PROVE Same(p)
        BY <1>2, <3>5, Apart DEF IInv
    <3>6. CASE Tool \/ Tick \/ Command
        <4>1. sweep' = sweep
            BY <3>6 DEF Tool, Tick, Command
        <4> QED
            BY <3>1, <4>1 DEF Same
    <3> QED
        BY <1>2, <3>1, <3>2, <3>3, <3>4, <3>5, <3>6 DEF Next, Others
  <2> QED
    BY <2>1, <2>3, <2>4 DEF IInv
<1> QED
    BY <1>1, <1>2

\* The inductive invariant of sweep, purge, attest and the tool.
THEOREM Invariance == Spec => []IInv
<1> QED
    BY Beginning, StepKeeps, PTL DEF Spec

\* Every value the commands put together is one of its type (sweep.rs,
\* compact.rs, purge.rs).
THEOREM TypeCorrect == Spec => []TypeOK
<1>1. IInv => TypeOK
    BY DEF IInv
<1> QED
    BY <1>1, Invariance, PTL

\* A process has an attempt open exactly from the append of the attempt to
\* that of its outcome (purge.rs purge_candidate, receipt.rs).
THEOREM AuditTrailKept == Spec => []AuditTrail
<1>1. IInv => AuditTrail
    BY DEF IInv, Sound, AuditTrail
<1> QED
    BY <1>1, Invariance, PTL

\* No receipt claims a session of which a part is left, whichever adapter
\* wrote it and whatever the tool and other processes did (delete_candidate).
THEOREM ReceiptsTruthful == Spec => []ReceiptTruthful
<1>1. IInv => ReceiptTruthful
    BY DEF IInv, Receipted, ReceiptTruthful
<1> QED
    BY <1>1, Invariance, PTL

\* An adapter deletes the bytes it verified, with a proof of them in the
\* journal and the window passed at the listing (assess_candidate_with_graph,
\* delete_candidate).
THEOREM DeletionsProven == Spec => DeletesProven
<1>1. ASSUME IInv, NEW p \in Proc, NEW s \in Session,
             sweep[p].pc \in Deleting, sweep[p].cur = s, Has(s, "data")
      PROVE  /\ \E q \in proofs : q.session = s /\ q.hash = sweep[p].hash
             /\ sweep[p].modified[s] < now
             /\ Hash(s) = sweep[p].hash \/ p \in raced
    BY <1>1 DEF IInv, Sound, Gated, Bytes
<1>2. IInv /\ [Next]_vars =>
         [\A p \in Proc, s \in Session :
             sweep[p].pc \in Deleting /\ sweep[p].cur = s /\ Removed(s) /\ sweep[p] # sweep'[p] =>
                 /\ \E q \in proofs : q.session = s /\ q.hash = sweep[p].hash
                 /\ sweep[p].modified[s] < now
                 /\ Hash(s) = sweep[p].hash \/ p \in raced]_vars
    BY <1>1 DEF Removed
<1> QED
    BY <1>2, Invariance, PTL DEF Spec, DeletesProven

-----------------------------------------------------------------------------
(***************************************************************************)
(* The compact transcript.                                                 *)
(*                                                                         *)
(* A session that is not contended has one process at most that means to   *)
(* compact it, so its partial file, the handle on it and the published     *)
(* transcript are that process's alone.  What it has published when it     *)
(* records its proof is the transcript of the version that it hashed, and  *)
(* later processes only publish later versions.                            *)
(***************************************************************************)

Published  == {"conversation", "transcript", "edge", "proof"}
Compacting == {"hash", "create", "write", "recheck", "rename"} \union Published

Solitary ==
    \A s \in Session \ contended, p, q \in Proc : Planned(p, s) /\ Planned(q, s) => p = q

\* The process has hashed a version of s, no earlier than the published one.
Hashed(w, s) ==
    /\ w.hash.ver \in Nat /\ 0 < w.hash.ver /\ w.hash.ver <= native[s].ver
    /\ final[s] # NoFile => final[s] <= w.hash.ver

\* How far the transcript of s is, at each step of its process.
Draft(w, s) ==
    /\ w.pc # "hash" => Hashed(w, s)
    /\ w.pc = "write" => w.fd = "partial"
    /\ w.pc = "recheck" => partial[s] = w.wrote /\ w.wrote <= native[s].ver
    /\ w.pc = "recheck" /\ Has(s, "data") => w.hash.ver <= w.wrote
    /\ w.pc = "rename" => partial[s] = w.wrote /\ w.wrote = w.hash.ver
    /\ w.pc \in Published => final[s] = w.hash.ver

Drafting(p) ==
    sweep[p].pc \in Compacting =>
        /\ sweep[p].cur \in sweep[p].compact
        /\ sweep[p].cur \notin contended => Draft(sweep[p], sweep[p].cur)

\* What is published of s is the transcript of a version that there was, and
\* of none before the one that a sweep's proof names.
Kept(s) ==
    /\ final[s] # NoFile => final[s] <= native[s].ver
    /\ \A q \in proofs : q.session = s /\ q.by = "sweep" =>
          final[s] # NoFile /\ q.hash.ver <= final[s]

Keeping ==
    /\ Solitary
    /\ \A p \in Proc : Drafting(p)
    /\ \A a \in attesting : a.by = "attest"
    /\ \A s \in Session \ contended : Kept(s)

\* A session that is contended stays so.
LEMMA ContentionStays ==
    ASSUME Next
    PROVE  contended \subseteq contended'
<1>1. ASSUME NEW p \in Proc, Plan(p) \/ Take(p) \/ End(p) \/ Compaction(p)
      PROVE  contended \subseteq contended'
    BY <1>1 DEF Plan, Take, End, Compaction, HashBefore, Create, Write, WriteFails, Recheck, Rename,
        AppendConversation, AppendTranscript, AppendEdge, AppendProof, history
<1>2. ASSUME NEW p \in Proc, Deletion(p)
      PROVE  contended \subseteq contended'
    BY <1>2 DEF Deletion, Guard, AppendAttempt, Reassess, AppendFailure, Verify, RemoveFile,
        DeleteByCli, RemoveRow, RemoveDirectory, RemoveTarget, AppendReceipt, history
<1>3. ASSUME Others \/ \E p \in Proc : Start(p)
      PROVE  contended \subseteq contended'
    BY <1>3 DEF Others, Start, Tool, Tick, Command, Fault, history
<1> QED
    BY <1>1, <1>2, <1>3 DEF Next, SweepStep

\* No step but Plan adds to what a process means to compact.
Resigns(p) == \A s \in Session : Planned(p, s)' => Planned(p, s)

\* A process that goes on with its session or takes the next one, and one
\* that gives up, starts or dies.
LEMMA GoingOn ==
    ASSUME TypeOK, NEW p \in Proc,
           \/ sweep'[p] = Item(p) \/ sweep'[p].compact = {}
           \/ /\ sweep'[p].compact = sweep[p].compact /\ sweep'[p].work \subseteq sweep[p].work
              /\ sweep'[p].cur \in sweep[p].work \union {sweep[p].cur}
    PROVE  Resigns(p)
<1>1. sweep[p] \in Local
    BY LocalTyped
<1>2. CASE sweep'[p] = Item(p)
  <2>1. /\ sweep'[p].compact = sweep[p].compact /\ sweep'[p].work = sweep[p].work
        /\ sweep'[p].cur = NoSession
    BY <1>1, <1>2 DEF Item, Local
  <2> QED
    BY <2>1, NoneAssumption DEF Resigns, Planned
<1>3. CASE sweep'[p].compact = {}
    BY <1>3 DEF Resigns, Planned
<1>4. CASE /\ sweep'[p].compact = sweep[p].compact /\ sweep'[p].work \subseteq sweep[p].work
           /\ sweep'[p].cur \in sweep[p].work \union {sweep[p].cur}
    BY <1>4 DEF Resigns, Planned
<1> QED
    BY <1>2, <1>3, <1>4

\* A process's own steps (sweep.rs sweep).
LEMMA OwnResigns ==
    ASSUME TypeOK, NEW p \in Proc, Start(p) \/ Fault(p) \/ (SweepStep(p) /\ ~Plan(p))
    PROVE  Resigns(p)
<1> DEFINE Stays == /\ sweep'[p].compact = sweep[p].compact /\ sweep'[p].work \subseteq sweep[p].work
                    /\ sweep'[p].cur \in sweep[p].work \union {sweep[p].cur}
           Stops == sweep'[p] = Item(p) \/ sweep'[p].compact = {}
<1>1. sweep \in [Proc -> Local] /\ sweep[p] \in Local
    BY LocalTyped DEF TypeOK
<1>2. /\ GiveUp(p) => Stops
      /\ \A label : Goto(p, label) => Stays
    BY <1>1 DEF GiveUp, Goto, Local
<1>3. CASE Start(p)
    BY <1>1, <1>3, GoingOn DEF Start, Listing, Fresh
<1>4. CASE Fault(p)
  <2>1. Die(p) => Stops
    BY <1>1 DEF Die, Fresh
  <2> QED
    BY <1>2, <1>4, <2>1, GoingOn DEF Fault, AdapterFails, RemovePartly, CliKeeps, WriteRefused
<1>5. CASE Take(p) \/ End(p)
  <2>1. End(p) => Stops
    BY <1>1 DEF End, Fresh
  <2>2. Take(p) => Stays
    <3> SUFFICES ASSUME NEW r \in sweep[p].work,
                   sweep' = [sweep EXCEPT ![p].work = @ \ {r}, ![p].cur = r,
                               ![p].pc = IF r \in sweep[p].compact THEN "hash" ELSE "guard"]
                 PROVE  Stays
        BY DEF Take, Deepest
    <3> QED
        BY <1>1 DEF Local
  <2> QED
    BY <1>5, <2>1, <2>2, GoingOn
<1>6. CASE Compaction(p)
  <2>1. HashBefore(p) \/ Create(p) \/ Write(p) => Stays \/ Stops
    BY <1>1, <1>2 DEF HashBefore, Create, Write, Local
  <2>2. WriteFails(p) \/ Recheck(p) => Stays \/ Stops
    BY <1>1, <1>2 DEF WriteFails, Recheck, WithFile
  <2>3. Rename(p) => Stays \/ Stops
    <3>1. Rename(p) => \/ sweep'[p] = [sweep[p] EXCEPT !.pc = "conversation"]
                       \/ GiveUp(p)
        BY <1>1 DEF Rename, WithFile
    <3> QED
        BY <1>1, <1>2, <3>1 DEF Local
  <2>4. AppendConversation(p) \/ AppendTranscript(p) \/ AppendEdge(p) => Stays
    BY <1>2 DEF AppendConversation, AppendTranscript, AppendEdge
  <2>5. AppendProof(p) => Stays
    BY <1>1 DEF AppendProof, Local
  <2> QED
    BY <1>6, <2>1, <2>2, <2>3, <2>4, <2>5, GoingOn DEF Compaction
<1>7. CASE Deletion(p)
  <2>1. AppendAttempt(p) \/ Reassess(p) => Stays
    BY <1>1 DEF AppendAttempt, Reassess, Local
  <2> HIDE DEF Stays, Stops
  <2>2. ASSUME \/ Guard(p) \/ AppendFailure(p) \/ Verify(p) \/ RemoveFile(p) \/ DeleteByCli(p)
               \/ RemoveRow(p) \/ RemoveDirectory(p) \/ RemoveTarget(p, "data")
               \/ RemoveTarget(p, "rest") \/ AppendReceipt(p)
        PROVE  Stays \/ Stops
    BY <1>2, <2>2 DEF Guard, AppendFailure, Verify, RemoveFile, DeleteByCli, RemoveRow,
        RemoveDirectory, RemoveTarget, AppendReceipt
  <2>3. Stays \/ Stops
    BY <1>7, <2>1, <2>2 DEF Deletion
  <2> QED
    BY <2>3, GoingOn DEF Stays, Stops
<1> QED
    BY <1>3, <1>4, <1>5, <1>6, <1>7 DEF SweepStep

\* Two sweeps that mean to compact the same session make it contended.
LEMMA SolitaryStays ==
    ASSUME IInv, Solitary, Next
    PROVE  Solitary'
<1>1. TypeOK /\ contended \subseteq contended'
    BY ContentionStays DEF IInv
<1>2. CASE \A p \in Proc : Resigns(p)
    BY <1>1, <1>2 DEF Solitary, Resigns
<1>3. ASSUME NEW p \in Proc, NEW q \in Proc, p # q, Start(p) \/ SweepStep(p) \/ Fault(p)
      PROVE  Resigns(q)
  <2>1. Same(q)
    BY <1>1, <1>3, Apart
  <2> QED
    BY <2>1 DEF Same, Resigns, Planned
<1>4. ASSUME NEW p \in Proc, Start(p) \/ Fault(p) \/ (SweepStep(p) /\ ~Plan(p))
      PROVE  Solitary'
    BY <1>1, <1>2, <1>3, <1>4, OwnResigns
<1>5. ASSUME NEW p \in Proc, SweepStep(p), Plan(p)
      PROVE  Solitary'
  <2> SUFFICES ASSUME NEW s \in Session \ contended', NEW a \in Proc, NEW b \in Proc, a # b,
                      Planned(a, s)', Planned(b, s)'
               PROVE  FALSE
    BY DEF Solitary
  <2>1. ASSUME NEW q \in Proc, q # p, Planned(q, s)' PROVE Planned(q, s)
    BY <1>3, <1>5, <2>1 DEF Resigns
  <2>2. ASSUME NEW q \in Proc, q # p, Planned(q, s), Planned(p, s)' PROVE s \in contended'
    <3>1. sweep[p] \in Local /\ sweep \in [Proc -> Local]
        BY <1>1, LocalTyped DEF TypeOK
    <3>2. sweep'[p].compact = {r \in sweep[p].listed : Compactable(r, sweep[p].modified[r])}
        BY <1>5, <3>1 DEF Plan, Local
    <3>3. s \in {r \in sweep[p].listed : Compactable(r, sweep[p].modified[r])}
        BY <2>2, <3>2 DEF Planned
    <3> QED
        BY <1>5, <2>2, <3>3 DEF Plan
  <2>3. CASE a = p \/ b = p
    BY <2>1, <2>2, <2>3
  <2>4. CASE a # p /\ b # p
    BY <1>1, <2>1, <2>4 DEF Solitary
  <2> QED
    BY <2>3, <2>4
<1>6. CASE Tool \/ Tick \/ Command
  <2>1. sweep' = sweep
    BY <1>6 DEF Tool, Tick, Command
  <2> QED
    BY <1>2, <2>1 DEF Resigns, Planned
<1> QED
    BY <1>4, <1>5, <1>6 DEF Next, Others

\* A process changes the files of the session that it compacts, and the
\* handles of others on them.
LEMMA OwnFiles ==
    ASSUME TypeOK, NEW p \in Proc, Start(p) \/ SweepStep(p) \/ Fault(p), NEW s \in Session,
           ~(sweep[p].pc \in Compacting /\ sweep[p].cur = s)
    PROVE  /\ partial'[s] = partial[s] /\ final'[s] = final[s]
           /\ \A q \in Proc \ {p} : sweep[q].cur = s => sweep'[q] = sweep[q]
<1>1. /\ sweep \in [Proc -> Local]
      /\ partial \in [Session -> Nat \union {NoFile}] /\ final \in [Session -> Nat \union {NoFile}]
    BY DEF TypeOK
<1>2. CASE UNCHANGED fileVars /\ \A q \in Proc \ {p} : sweep'[q] = sweep[q]
    BY <1>2 DEF fileVars
<1>3. CASE Start(p)
    BY <1>1, <1>2, <1>3 DEF Start
<1>4. CASE Fault(p)
    BY <1>1, <1>2, <1>4 DEF Fault, AdapterFails, RemovePartly, CliKeeps, WriteRefused, Die,
        Goto, GiveUp
<1>5. CASE Plan(p) \/ Take(p) \/ End(p)
    BY <1>1, <1>2, <1>5 DEF Plan, Take, End
<1>6. CASE Deletion(p)
    BY <1>1, <1>2, <1>6 DEF Deletion, Guard, AppendAttempt, Reassess, AppendFailure, Verify,
        RemoveFile, DeleteByCli, RemoveRow, RemoveDirectory, RemoveTarget, AppendReceipt,
        Goto, GiveUp
<1>7. CASE \/ HashBefore(p) \/ AppendConversation(p) \/ AppendTranscript(p) \/ AppendEdge(p)
           \/ AppendProof(p)
    BY <1>1, <1>2, <1>7 DEF HashBefore, AppendConversation, AppendTranscript, AppendEdge,
        AppendProof, Goto, GiveUp
<1>8. CASE Create(p) \/ Write(p) \/ WriteFails(p) \/ Recheck(p) \/ Rename(p)
  <2>1. sweep[p].cur # s
    BY <1>8 DEF Create, Write, WriteFails, Recheck, Rename, Compacting
  <2>2. Create(p) \/ Write(p) => \A q \in Proc \ {p} : sweep'[q] = sweep[q]
    BY <1>1 DEF Create, Write
  <2>3. WriteFails(p) \/ Recheck(p) \/ Rename(p) =>
            \A q \in Proc \ {p} : sweep[q].cur = s => sweep'[q] = sweep[q]
    BY <1>1, <2>1 DEF WriteFails, Recheck, Rename, WithFile, Goto, GiveUp
  <2>4. partial'[s] = partial[s] /\ final'[s] = final[s]
    BY <1>1, <1>8, <2>1 DEF Create, Write, WriteFails, Recheck, Rename, fileVars
  <2> QED
    BY <1>8, <2>2, <2>3, <2>4
<1> QED
    BY <1>3, <1>4, <1>5, <1>6, <1>7, <1>8 DEF SweepStep, Compaction

\* The tool's writes and other processes' deletions leave a draft what it is.
LEMMA DraftStays ==
    ASSUME IInv, TypeOK', Calm, Aging, contended \subseteq contended',
           NEW p \in Proc, Drafting(p), Same(p),
           sweep[p].pc \in Compacting /\ sweep[p].cur \notin contended' =>
              /\ sweep'[p] = sweep[p]
              /\ partial'[sweep[p].cur] = partial[sweep[p].cur]
              /\ final'[sweep[p].cur] = final[sweep[p].cur]
    PROVE  Drafting(p)'
<1>1. SUFFICES ASSUME sweep[p].pc \in Compacting, NEW s \in Session \ contended', s = sweep[p].cur
               PROVE  Draft(sweep[p], s)'
  <2>1. sweep[p].pc \in Compacting => sweep[p].cur \in Session
    BY DEF IInv, Sound, Existed, Idling, Compacting, Published
  <2> QED
    BY <2>1 DEF Drafting, Same
<1>2. /\ sweep'[p] = sweep[p] /\ partial'[s] = partial[s] /\ final'[s] = final[s]
      /\ Draft(sweep[p], s)
    BY <1>1 DEF Drafting
<1>3. /\ native[s].ver \in Nat /\ native'[s].ver \in Nat /\ native[s].ver <= native'[s].ver
      /\ sweep[p].hash.ver \in Nat /\ sweep[p].wrote \in Nat
    BY <1>1, LocalTyped DEF IInv, TypeOK, Aging, Local, HashType
<1>4. Has(s, "data")' => Has(s, "data")
    BY <1>1 DEF IInv, Sound, Existed, Calm, Shrinks, Idling, Compacting, Published, Has
<1>5. Hashed(sweep[p], s) => Hashed(sweep[p], s)'
    BY <1>2, <1>3 DEF Hashed
<1> QED
    BY <1>2, <1>3, <1>4, <1>5 DEF Draft

\* A process that works on a draft is the only one to touch it.
LEMMA OthersDraft ==
    ASSUME IInv, Keeping, TypeOK', Calm, Aging, contended \subseteq contended',
           NEW p \in Proc, NEW q \in Proc, p # q, Start(q) \/ SweepStep(q) \/ Fault(q)
    PROVE  Drafting(p)'
<1>1. TypeOK /\ Same(p) /\ Drafting(p)
    BY Apart DEF IInv, Keeping
<1>2. ASSUME sweep[p].pc \in Compacting, NEW s \in Session \ contended', s = sweep[p].cur
      PROVE  sweep'[p] = sweep[p] /\ partial'[s] = partial[s] /\ final'[s] = final[s]
  <2>1. Planned(p, s)
    BY <1>1, <1>2 DEF Drafting, Planned
  <2>2. ~(sweep[q].pc \in Compacting /\ sweep[q].cur = s)
    <3>1. sweep[q].pc \in Compacting /\ sweep[q].cur = s => Planned(q, s)
        BY DEF Keeping, Drafting, Planned
    <3> QED
        BY <1>2, <2>1, <3>1 DEF Keeping, Solitary
  <2> QED
    BY <1>1, <1>2, <2>2, OwnFiles
<1>3. sweep[p].pc \in Compacting => sweep[p].cur \in Session
    BY DEF IInv, Sound, Existed, Idling, Compacting, Published
<1> QED
    BY <1>1, <1>2, <1>3, DraftStays

\* The next step of compact_and_attest finds the draft as the last one left it.
LEMMA OwnDraft ==
    ASSUME IInv, Keeping, TypeOK', contended \subseteq contended',
           NEW p \in Proc, Start(p) \/ SweepStep(p) \/ Fault(p)
    PROVE  Drafting(p)'
<1> DEFINE s == sweep[p].cur
<1>1. /\ TypeOK /\ Drafting(p) /\ sweep \in [Proc -> Local] /\ sweep[p] \in Local
      /\ sweep[p].hash.ver \in Nat /\ sweep[p].wrote \in Nat
    BY LocalTyped DEF IInv, TypeOK, Keeping, Local, HashType
<1>2. sweep[p].pc \in Compacting =>
         s \in Session /\ native[s].ver \in Nat /\ native[s].ver # 0
    BY <1>1 DEF IInv, Sound, Existed, Idling, Compacting, Published, TypeOK
<1>3. CASE sweep'[p].pc \notin Compacting
    BY <1>3 DEF Drafting
<1>4. GiveUp(p) => sweep'[p].pc \notin Compacting
    BY <1>1 DEF GiveUp, Item, Local, Compacting, Published
<1>5. \A label : Goto(p, label) => /\ sweep'[p] = [sweep[p] EXCEPT !.pc = label]
                                   /\ sweep'[p].pc = label
    BY <1>1 DEF Goto, Local
<1>6. CASE Start(p)
  <2>1. sweep'[p].pc = "plan" \/ sweep'[p].pc = "guard"
    BY <1>1, <1>6 DEF Start, Listing, Fresh
  <2> QED
    BY <1>3, <2>1 DEF Compacting, Published
<1>7. CASE Fault(p)
  <2>1. CASE Goto(p, "failed") \/ Goto(p, "receipt")
    <3>1. sweep'[p].pc = "failed" \/ sweep'[p].pc = "receipt"
        BY <1>1, <2>1 DEF Goto, Local
    <3> QED
        BY <1>3, <3>1 DEF Compacting, Published
  <2>2. CASE Die(p)
    BY <1>1, <1>3, <2>2 DEF Die, Fresh, Compacting, Published
  <2> QED
    BY <1>3, <1>4, <1>7, <2>1, <2>2 DEF Fault, AdapterFails, RemovePartly, CliKeeps, WriteRefused
<1>8. CASE Plan(p) \/ End(p)
  <2>1. Plan(p) => sweep'[p].pc = "next"
    BY ZenonT(60), <1>1 DEF Plan, Local
  <2>2. End(p) => sweep'[p].pc = "idle"
    BY <1>1 DEF End, Fresh
  <2>3. sweep'[p].pc = "next" \/ sweep'[p].pc = "idle"
    BY <1>8, <2>1, <2>2
  <2> QED
    BY <1>3, <2>3 DEF Compacting, Published
<1>9. CASE Deletion(p)
  <2>1. Adapter[store.kind] \in Deleting
    BY <1>1, StoreAssumption DEF TypeOK, Adapter, Kind, Deleting
  <2>2. \A label \in AfterAttempt \union {"attempt"} : Goto(p, label) => sweep'[p].pc \notin Compacting
    BY <1>5 DEF AfterAttempt, Deleting, Compacting, Published
  <2>3. CASE AppendAttempt(p) \/ Reassess(p)
    BY <1>1, <1>3, <2>3 DEF AppendAttempt, Reassess, Local, Compacting, Published
  <2>4. CASE Guard(p) \/ AppendFailure(p) \/ Verify(p) \/ AppendReceipt(p)
    BY <1>3, <1>4, <2>1, <2>2, <2>4 DEF Guard, AppendFailure, Verify, AppendReceipt,
        AfterAttempt
  <2>5. CASE RemoveFile(p) \/ DeleteByCli(p) \/ RemoveRow(p) \/ RemoveDirectory(p)
             \/ RemoveTarget(p, "data") \/ RemoveTarget(p, "rest")
    BY <1>3, <2>2, <2>5 DEF RemoveFile, DeleteByCli, RemoveRow, RemoveDirectory, RemoveTarget,
        AfterAttempt, Deleting
  <2> QED
    BY <1>9, <2>3, <2>4, <2>5 DEF Deletion
<1>10. CASE Take(p)
  <2>1. PICK r \in sweep[p].work :
           sweep' = [sweep EXCEPT ![p].work = @ \ {r}, ![p].cur = r,
                       ![p].pc = IF r \in sweep[p].compact THEN "hash" ELSE "guard"]
    BY <1>10 DEF Take, Deepest
  <2>2. /\ sweep'[p].cur = r /\ sweep'[p].compact = sweep[p].compact
        /\ sweep'[p].pc = IF r \in sweep[p].compact THEN "hash" ELSE "guard"
    BY <1>1, <2>1 DEF Local
  <2>3. sweep'[p].pc = "hash" => Draft(sweep[p], r)'
    BY DEF Draft, Published
  <2> QED
    BY <2>2, <2>3 DEF Drafting, Compacting, Published
<1>11. CASE WriteFails(p)
    BY <1>1, <1>3, <1>11 DEF WriteFails, WithFile, Item, Local, Compacting, Published
<1>12. CASE AppendProof(p)
    BY <1>1, <1>3, <1>12 DEF AppendProof, Local, Compacting, Published
<1>13. CASE \/ HashBefore(p) \/ Create(p) \/ Write(p) \/ Recheck(p) \/ Rename(p)
            \/ AppendConversation(p) \/ AppendTranscript(p) \/ AppendEdge(p)
  <2>1. sweep[p].pc \in Compacting
    BY <1>13 DEF HashBefore, Create, Write, Recheck, Rename, AppendConversation,
        AppendTranscript, AppendEdge, Compacting, Published
  <2>2. PICK r \in Session : r = sweep[p].cur
    BY <1>2, <2>1
  <2>3. /\ native' = native /\ native[r].ver \in Nat /\ native[r].ver # 0 /\ r \in sweep[p].compact
        /\ final \in [Session -> Nat \union {NoFile}] /\ partial \in [Session -> Nat \union {NoFile}]
    BY <1>1, <1>2, <1>13, <2>1, <2>2 DEF Drafting, HashBefore, Create, Write, Recheck, Rename,
        AppendConversation, AppendTranscript, AppendEdge, TypeOK
  <2>4. r \notin contended' => Draft(sweep[p], r) /\ Kept(r)
    BY <1>1, <2>1, <2>2 DEF Drafting, Keeping
  <2>5. SUFFICES ASSUME sweep'[p].pc \in Compacting
                 PROVE  /\ sweep'[p].cur = r /\ sweep'[p].compact = sweep[p].compact
                        /\ r \notin contended' => Draft(sweep[p], r)'
    BY <2>3 DEF Drafting
  <2>6. CASE HashBefore(p)
    <3>1. /\ sweep'[p] = [sweep[p] EXCEPT !.hash = Hash(r), !.pc = "create"]
          /\ final' = final
          /\ r \notin contended' => Has(r, "data")
        BY <1>1, <1>4, <2>2, <2>5, <2>6 DEF HashBefore, fileVars
    <3>2. /\ sweep'[p].pc = "create" /\ sweep'[p].hash = Hash(r)
          /\ sweep'[p].cur = r /\ sweep'[p].compact = sweep[p].compact
        BY <1>1, <2>2, <3>1 DEF Local
    <3>3. r \notin contended' => Hashed(sweep[p], r)'
        BY <2>3, <2>4, <3>1, <3>2 DEF Hashed, Kept, Hash
    <3> QED
        BY <3>2, <3>3 DEF Draft, Published
  <2>7. CASE Create(p)
    <3>1. /\ sweep'[p] = [sweep[p] EXCEPT !.pc = "write", !.fd = "partial"]
          /\ final' = final /\ sweep[p].pc = "create"
        BY <1>1, <2>7 DEF Create
    <3>2. /\ sweep'[p].pc = "write" /\ sweep'[p].fd = "partial" /\ sweep'[p].hash = sweep[p].hash
          /\ sweep'[p].cur = r /\ sweep'[p].compact = sweep[p].compact
        BY <1>1, <2>2, <3>1 DEF Local
    <3>3. r \notin contended' => Hashed(sweep[p], r)'
        BY <2>3, <2>4, <3>1, <3>2 DEF Hashed, Draft
    <3> QED
        BY <3>2, <3>3 DEF Draft, Published
  <2>8. CASE Write(p)
    <3>1. /\ sweep'[p] = [sweep[p] EXCEPT !.pc = "recheck", !.wrote = Dialogue(r), !.fd = "gone"]
          /\ sweep[p].pc = "write"
          /\ sweep[p].fd = "partial" => partial'[r] = Dialogue(r) /\ final' = final
        BY <1>1, <2>2, <2>3, <2>8 DEF Write
    <3>2. /\ sweep'[p].pc = "recheck" /\ sweep'[p].wrote = Dialogue(r)
          /\ sweep'[p].hash = sweep[p].hash
          /\ sweep'[p].cur = r /\ sweep'[p].compact = sweep[p].compact
        BY <1>1, <2>2, <3>1 DEF Local
    <3>3. r \notin contended' =>
             Hashed(sweep[p], r)' /\ partial'[r] = Dialogue(r) /\ sweep[p].hash.ver <= native[r].ver
        BY <2>3, <2>4, <3>1, <3>2 DEF Hashed, Draft
    <3>4. Dialogue(r) <= native[r].ver /\ (Has(r, "data") => Dialogue(r) = native[r].ver)
        BY <2>3 DEF Dialogue
    <3>5. r \notin contended' /\ Has(r, "data")' => sweep[p].hash.ver <= Dialogue(r)
        BY <2>3, <3>3, <3>4 DEF Has
    <3>6. native'[r].ver = native[r].ver
        BY <2>3
    <3> QED
        BY <3>2, <3>3, <3>4, <3>5, <3>6 DEF Draft, Published
  <2>9. CASE Recheck(p)
    <3>1. /\ Hash(r) = sweep[p].hash /\ partial' = partial /\ final' = final
          /\ sweep'[p] = [sweep[p] EXCEPT !.pc = "rename"] /\ sweep[p].pc = "recheck"
      <4>1. \/ Goto(p, "rename") /\ Hash(r) = sweep[p].hash /\ partial' = partial
            \/ sweep'[p] = Item(p)
        BY <1>1, <2>2, <2>9 DEF Recheck, WithFile, GiveUp
      <4>2. sweep'[p] # Item(p)
        BY <1>1, <2>5 DEF Item, Local, Compacting, Published
      <4> QED
        BY <1>1, <2>9, <4>1, <4>2 DEF Goto, Recheck
    <3>2. /\ sweep'[p].pc = "rename" /\ sweep'[p].wrote = sweep[p].wrote
          /\ sweep'[p].hash = sweep[p].hash
          /\ sweep'[p].cur = r /\ sweep'[p].compact = sweep[p].compact
        BY <1>1, <2>2, <3>1 DEF Local
    <3>3. r \notin contended' => Hashed(sweep[p], r) /\ Hashed(sweep[p], r)'
        BY <2>3, <2>4, <3>1, <3>2 DEF Hashed, Draft
    <3>4. r \notin contended' => Has(r, "data") /\ sweep[p].hash.ver = native[r].ver
        BY <3>1, <3>3 DEF Hashed, Hash
    <3>5. r \notin contended' => partial[r] = sweep[p].wrote /\ sweep[p].wrote = sweep[p].hash.ver
        BY <1>1, <2>3, <2>4, <3>1, <3>4 DEF Draft
    <3> QED
        BY <3>1, <3>2, <3>3, <3>5 DEF Draft, Published
  <2>10. CASE Rename(p)
    <3>1. /\ sweep'[p] = [sweep[p] EXCEPT !.pc = "conversation"] /\ sweep[p].pc = "rename"
          /\ final'[r] = partial[r]
        BY <1>1, <1>4, <2>2, <2>3, <2>5, <2>10 DEF Rename, WithFile
    <3>2. /\ sweep'[p].pc = "conversation" /\ sweep'[p].hash = sweep[p].hash
          /\ sweep'[p].cur = r /\ sweep'[p].compact = sweep[p].compact
        BY <1>1, <2>2, <3>1 DEF Local
    <3>3. r \notin contended' => final'[r] = sweep[p].hash.ver
        BY <2>4, <3>1 DEF Draft
    <3>4. r \notin contended' => Hashed(sweep[p], r)'
        BY <2>3, <2>4, <3>1, <3>2, <3>3 DEF Hashed, Draft
    <3> QED
        BY <3>2, <3>3, <3>4 DEF Draft, Published
  <2>11. CASE AppendConversation(p) \/ AppendTranscript(p) \/ AppendEdge(p)
    <3>1. PICK label \in Published :
             sweep'[p] = [sweep[p] EXCEPT !.pc = label] /\ sweep[p].pc \in Published /\ final' = final
        BY <1>1, <2>11 DEF AppendConversation, AppendTranscript, AppendEdge, Goto, Published, fileVars
    <3>2. /\ sweep'[p].pc = label /\ sweep'[p].hash = sweep[p].hash
          /\ sweep'[p].cur = r /\ sweep'[p].compact = sweep[p].compact
        BY <1>1, <2>2, <3>1 DEF Local
    <3>3. r \notin contended' => final'[r] = sweep[p].hash.ver /\ Hashed(sweep[p], r)'
        BY <2>3, <2>4, <3>1, <3>2 DEF Hashed, Draft, Published
    <3> QED
        BY <3>2, <3>3 DEF Draft, Published
  <2> QED
    BY <1>13, <2>6, <2>7, <2>8, <2>9, <2>10, <2>11
<1> QED
    BY <1>6, <1>7, <1>8, <1>9, <1>10, <1>11, <1>12, <1>13 DEF SweepStep, Compaction

\* What is published keeps its bounds while it stays and versions are added.
LEMMA KeptStays ==
    ASSUME TypeOK, TypeOK', Aging, NEW s \in Session, Kept(s), final'[s] = final[s],
           \A q \in proofs' : q.session = s /\ q.by = "sweep" => q \in proofs
    PROVE  Kept(s)'
<1>1. /\ native[s].ver \in Nat /\ native'[s].ver \in Nat /\ native[s].ver <= native'[s].ver
      /\ final[s] \in Nat \union {NoFile}
    BY DEF TypeOK, Aging
<1>2. final'[s] # NoFile => final'[s] <= native'[s].ver
    BY <1>1, NoneAssumption DEF Kept
<1> QED
    BY <1>2 DEF Kept

\* A transcript is published over one of an earlier version, and a proof is
\* recorded of the one that is published.
LEMMA PublishedKept ==
    ASSUME IInv, Keeping, TypeOK', Aging, contended \subseteq contended',
           NEW p \in Proc, Start(p) \/ SweepStep(p) \/ Fault(p), NEW s \in Session \ contended'
    PROVE  Kept(s)'
<1>1. /\ TypeOK /\ Kept(s) /\ Drafting(p) /\ s \notin contended
      /\ final \in [Session -> Nat \union {NoFile}]
      /\ native[s].ver \in Nat /\ native'[s].ver \in Nat /\ native[s].ver <= native'[s].ver
      /\ \A q \in proofs : q.hash.ver \in Nat
    BY DEF IInv, Keeping, TypeOK, ProofType, HashType, Aging
<1>2. sweep[p].hash.ver \in Nat
    BY <1>1, LocalTyped DEF Local, HashType
<1>3. ASSUME proofs' = proofs, final'[s] = final[s] PROVE Kept(s)'
    BY <1>1, <1>3, KeptStays
<1>4. CASE Rename(p) /\ sweep[p].cur = s
  <2>1. CASE final' = final
    BY <1>3, <1>4, <2>1 DEF Rename, graphVars
  <2>2. CASE final' = [final EXCEPT ![s] = partial[s]]
    <3>1. sweep[p].pc = "rename" /\ proofs' = proofs /\ final'[s] = partial[s]
        BY <1>1, <1>4, <2>2 DEF Rename, graphVars
    <3>2. Draft(sweep[p], s)
        BY <1>1, <1>4, <3>1 DEF Drafting, Compacting
    <3>3. final'[s] = sweep[p].hash.ver /\ Hashed(sweep[p], s)
        BY <3>1, <3>2 DEF Draft
    <3>4. /\ final'[s] \in Nat /\ final'[s] <= native'[s].ver
          /\ final[s] # NoFile => final[s] \in Nat /\ final[s] <= final'[s]
        BY <1>1, <1>2, <3>3 DEF Hashed
    <3>5. final'[s] # NoFile
        BY <3>4, NoneAssumption
    <3>6. \A q \in proofs : q.session = s /\ q.by = "sweep" => q.hash.ver <= final'[s]
        BY <1>1, <3>4 DEF Kept
    <3> QED
        BY <3>1, <3>4, <3>5, <3>6 DEF Kept
  <2> QED
    BY <1>4, <2>1, <2>2 DEF Rename, fileVars
<1>5. CASE AppendProof(p) /\ sweep[p].cur = s
  <2>1. sweep[p].pc = "proof" /\ final' = final
    BY <1>5 DEF AppendProof, fileVars
  <2>2. final[s] = sweep[p].hash.ver
    BY <1>1, <1>5, <2>1 DEF Drafting, Draft, Compacting, Published
  <2>3. \A q \in proofs' : q \in proofs \/ q.hash = sweep[p].hash
    BY <1>5 DEF AppendProof, Upsert, Proof
  <2>4. final'[s] # NoFile /\ \A q \in proofs' : q.session = s /\ q.by = "sweep" => q.hash.ver <= final'[s]
    BY <1>1, <1>2, <2>1, <2>2, <2>3, NoneAssumption DEF Kept
  <2>5. final'[s] <= native'[s].ver
    BY <1>1, <1>2, <2>1, <2>2, <2>4 DEF Kept
  <2> QED
    BY <2>4, <2>5 DEF Kept
<1>6. CASE AppendProof(p) /\ sweep[p].cur # s
  <2>1. final' = final /\ \A q \in proofs' : q.session = s => q \in proofs
    BY <1>6 DEF AppendProof, Upsert, Proof, fileVars
  <2> QED
    BY <1>1, <2>1, KeptStays
<1>7. CASE ~AppendProof(p) /\ ~(Rename(p) /\ sweep[p].cur = s)
  <2>1. proofs' = proofs
    BY <1>7 DEF Start, Fault, SweepStep, Plan, Take, End, Compaction, Deletion, HashBefore, Create,
        Write, WriteFails, Recheck, Rename, AppendConversation, AppendTranscript, AppendEdge, Guard,
        AppendAttempt, Reassess, AppendFailure, Verify, RemoveFile, DeleteByCli, RemoveRow,
        RemoveDirectory, RemoveTarget, AppendReceipt, graphVars
  <2>2. final'[s] = final[s]
    <3>1. CASE ~(sweep[p].pc \in Compacting /\ sweep[p].cur = s)
        BY <1>1, <3>1, OwnFiles
    <3>2. CASE sweep[p].pc \in Compacting /\ sweep[p].cur = s
      <4>1. Draft(sweep[p], s)
        BY <1>1, <3>2 DEF Drafting
      <4>2. Write(p) => final' = final
        BY <1>1, <4>1 DEF Write, Draft
      <4> QED
        BY <1>7, <3>2, <4>2 DEF Start, Fault, SweepStep, Plan, Take, End, Compaction, Deletion,
            HashBefore, Create, WriteFails, Recheck, AppendConversation, AppendTranscript,
            AppendEdge, Guard, AppendAttempt, Reassess, AppendFailure, Verify, RemoveFile,
            DeleteByCli, RemoveRow, RemoveDirectory, RemoveTarget, AppendReceipt, fileVars
    <3> QED
        BY <3>1, <3>2
  <2> QED
    BY <1>3, <2>1, <2>2
<1> QED
    BY <1>4, <1>5, <1>6, <1>7

\* Nothing is planned, written or recorded in the beginning.
LEMMA KeepingBegins == Init => Keeping
<1> SUFFICES ASSUME Init PROVE Keeping
    OBVIOUS
<1>1. \A p \in Proc : sweep[p].pc = "idle" /\ sweep[p].compact = {}
    BY DEF Init, Fresh
<1> QED
    BY <1>1 DEF Init, Keeping, Solitary, Planned, Drafting, Compacting, Published, Kept

\* Every step keeps the transcripts of the sessions that are not contended.
LEMMA KeepingStays == IInv /\ IInv' /\ Keeping /\ [Next]_vars => Keeping'
<1>1. ASSUME Keeping, UNCHANGED vars PROVE Keeping'
    BY <1>1 DEF vars, toolVars, fileVars, graphVars, history, Keeping, Solitary, Planned, Drafting,
        Draft, Hashed, Kept, Has
<1>2. ASSUME IInv, IInv', Keeping, Next PROVE Keeping'
  <2>1. /\ TypeOK /\ TypeOK' /\ Calm
        /\ contended \subseteq contended'
    BY <1>2, SweepCalm, OthersCalm, ContentionStays DEF IInv, Next
  <2>2. Aging
    BY <1>2, <2>1, WrittenKept
  <2>3. Solitary'
    BY <1>2, SolitaryStays DEF Keeping
  <2>4. (\A a \in attesting : a.by = "attest")'
    <3>1. attesting' = attesting \/ Command
        BY <1>2 DEF Next, Others, Start, SweepStep, Tool, Tick, Fault
    <3>2. CASE Command
        BY <1>2, <3>2 DEF Keeping, Command, AttestCheck, AttestAppend, GraphRetract, Proof
    <3> QED
        BY <1>2, <3>1, <3>2 DEF Keeping
  <2>5. CASE Tool \/ Tick \/ Command
    <3>1. sweep' = sweep /\ partial' = partial /\ final' = final
        BY <2>5 DEF Tool, Tick, Command, fileVars
    <3>2. \A q \in proofs' : q.by = "sweep" => q \in proofs
        BY <1>2, <2>5 DEF Keeping, Tool, Tick, Command, AttestCheck, AttestAppend, GraphRetract,
            Upsert, graphVars
    <3>3. ASSUME NEW p \in Proc PROVE Drafting(p)'
        BY <1>2, <2>1, <2>2, <3>1, DraftStays DEF Same, Keeping
    <3>4. ASSUME NEW s \in Session \ contended' PROVE Kept(s)'
        BY <1>2, <2>1, <2>2, <3>1, <3>2, KeptStays DEF Keeping
    <3> QED
        BY <2>3, <2>4, <3>3, <3>4 DEF Keeping
  <2>6. ASSUME NEW p \in Proc, Start(p) \/ SweepStep(p) \/ Fault(p) PROVE Keeping'
    <3>1. ASSUME NEW q \in Proc PROVE Drafting(q)'
        BY <1>2, <2>1, <2>2, <2>6, OwnDraft, OthersDraft
    <3>2. ASSUME NEW s \in Session \ contended' PROVE Kept(s)'
        BY <1>2, <2>1, <2>2, <2>6, PublishedKept
    <3> QED
        BY <2>3, <2>4, <3>1, <3>2 DEF Keeping
  <2> QED
    BY <1>2, <2>5, <2>6 DEF Next, Others
<1> QED
    BY <1>1, <1>2

\* A session deleted on the proof of a sweep has its dialogue in the published
\* transcript, unless two sweeps got to compact it: sweeps that start, die,
\* fail and overtake each other never publish an earlier version over it
\* (compact.rs compact_and_attest, purge.rs).
THEOREM TranscriptsKept == Spec => []TranscriptKept
<1>1. Spec => [](IInv /\ Keeping)
    BY Invariance, KeepingBegins, KeepingStays, PTL DEF Spec
<1>2. IInv /\ Keeping => TranscriptKept
  <2> SUFFICES ASSUME IInv, Keeping, NEW d \in deleted, d.session \notin contended,
                      NEW q \in proofs, q.session = d.session, q.hash = d.hash, q.by = "sweep"
               PROVE  final[d.session] \in d.hash.ver .. native[d.session].ver
    BY DEF TranscriptKept, TranscriptOf
  <2>1. /\ d.session \in Session /\ d.hash.ver \in Nat
        /\ final[d.session] \in Nat \union {NoFile} /\ native[d.session].ver \in Nat
    BY DEF IInv, TypeOK, ReceiptType, HashType
  <2> QED
    BY <2>1 DEF Keeping, Kept
<1> QED
    BY <1>1, <1>2, PTL

-----------------------------------------------------------------------------
(***************************************************************************)
(* Sessions and their parents: a way up comes to an end, so that a child   *)
(* is deeper than its parent, and who is below a session is below those    *)
(* that are above it.                                                      *)
(***************************************************************************)

\* A set of numbers that is not empty has a least one.
LEMMA LeastNat ==
    ASSUME NEW X \in SUBSET Nat, X # {}
    PROVE  \E x \in X : \A y \in X : x <= y
<1> DEFINE Pairs == {ss \in Nat \X Nat : ss[1] < ss[2]}
<1>1. OpToRel(<, Nat) = Pairs
    BY Zenon DEF OpToRel
<1>2. IsWellFoundedOn(Pairs, Nat)
    BY <1>1, NatLessThanWellFounded
<1>3. PICK x \in X : \A y \in X : ~ (<<y, x>> \in Pairs)
  <2> HIDE DEF Pairs
  <2> QED
    BY <1>2, WFMin
<1>4. ASSUME NEW y \in X PROVE x <= y
  <2>1. x \in Nat /\ y \in Nat
    OBVIOUS
  <2>2. y < x => <<y, x>> \in Pairs
    BY <2>1
  <2>3. ~ (y < x)
    BY <2>2, <1>3
  <2> HIDE DEF Pairs
  <2> QED
    BY <2>1, <2>3
<1> QED
    BY <1>4

Ages == [Session -> 0 .. MaxDepth]
Older(age) == \A s \in Session : store.parent[s] # NoSession => age[store.parent[s]] < age[s]

\* The parents of a store's sessions are older (sweep.rs, the order of the work).
LEMMA ParentsOlder ==
    ASSUME store \in Stores
    PROVE  \E age \in Ages : Older(age)
BY ParentAssumption DEF Ages, Older

\* A store is of one of the kinds, and a parent is a session.
LEMMA ParentsTyped ==
    ASSUME store \in Stores
    PROVE  /\ store.kind \in Kind
           /\ \A s \in Session : store.parent[s] \in Session \union {NoSession}
BY StoreAssumption

\* Nobody is his own parent.
LEMMA NoOwnParent ==
    ASSUME store \in Stores, NEW s \in Session
    PROVE  store.parent[s] # s
<1>1. PICK age \in Ages : Older(age)
    BY ParentsOlder
<1>2. age[s] \in Int
    BY DEF Ages
<1> QED
    BY <1>1, <1>2, NoneAssumption DEF Older

\* With every step up the sessions get older, so that a way has fewer steps
\* than there are sessions.
LEMMA LineEnds ==
    ASSUME store \in Stores, NEW listed, NEW s \in Session, NEW n \in Nat,
           NEW f \in Line(listed, s, n)
    PROVE  n <= MaxDepth
<1>1. PICK age \in Ages : Older(age)
    BY ParentsOlder
<1>2. PICK N : N = MaxDepth
    OBVIOUS
<1>3. /\ f \in [0 .. n -> Session] /\ f[0] = s
      /\ \A i \in 0 .. n - 1 : f[i] \in listed /\ f[i + 1] = store.parent[f[i]]
    BY DEF Line
<1>4. age \in [Session -> 0 .. N]
    BY <1>2 DEF Ages
<1> DEFINE Bad == {i \in 0 .. n : ~ (age[f[i]] + i <= age[s])}
<1>5. Bad = {}
  <2>1. SUFFICES ASSUME Bad # {} PROVE FALSE
    OBVIOUS
  <2>2. PICK i \in Bad : \A j \in Bad : i <= j
    <3>1. Bad \in SUBSET Nat
        OBVIOUS
    <3> HIDE DEF Bad
    <3> QED
        BY <2>1, <3>1, LeastNat
  <2>3. i \in 0 .. n /\ ~ (age[f[i]] + i <= age[s])
    OBVIOUS
  <2>4. i # 0
    BY <1>3, <1>4, <2>3
  <2>5. i - 1 \in 0 .. n - 1 /\ i - 1 \notin Bad
    BY <2>2, <2>3, <2>4
  <2>6. f[i - 1] \in Session /\ f[i] \in Session
    BY <1>3, <2>3, <2>5
  <2>7. age[f[i - 1]] + (i - 1) <= age[s]
    BY <2>5
  <2>8. f[i] = store.parent[f[i - 1]]
    <3>1. f[(i - 1) + 1] = store.parent[f[i - 1]]
        BY <1>3, <2>5
    <3> QED
        BY <2>3, <3>1
  <2>9. age[f[i]] < age[f[i - 1]]
    BY <1>1, <2>6, <2>8, NoneAssumption DEF Older
  <2>10. age[f[i]] \in Int /\ age[f[i - 1]] \in Int /\ age[s] \in Int
    BY <1>4, <2>6
  <2> HIDE DEF Bad
  <2> QED
    BY <2>3, <2>7, <2>9, <2>10
<1>6. age[f[n]] + n <= age[s]
    BY <1>5
<1>7. age[f[n]] \in 0 .. N /\ age[s] \in 0 .. N
    BY <1>3, <1>4
<1>8. N \in Int
    BY <1>2, ParentAssumption
<1> QED
    BY <1>2, <1>6, <1>7, <1>8

\* A way up from a child goes through its parent.
LEMMA LineLonger ==
    ASSUME NEW listed, NEW s \in Session, NEW n \in Nat, NEW f \in Line(listed, s, n),
           NEW c \in Session, c \in listed, store.parent[c] = s
    PROVE  \E g \in Line(listed, c, n + 1) : g[n + 1] = f[n]
<1> DEFINE g == [i \in 0 .. n + 1 |-> IF i = 0 THEN c ELSE f[i - 1]]
<1>1. /\ f \in [0 .. n -> Session] /\ f[0] = s
      /\ \A i \in 0 .. n - 1 : f[i] \in listed /\ f[i + 1] = store.parent[f[i]]
    BY DEF Line
<1>2. g \in [0 .. n + 1 -> Session] /\ g[0] = c /\ g[n + 1] = f[n]
    BY <1>1
<1>3. ASSUME NEW i \in 0 .. (n + 1) - 1
      PROVE  g[i] \in listed /\ g[i + 1] = store.parent[g[i]]
  <2>1. CASE i = 0
    BY <1>1, <2>1
  <2>2. CASE i # 0
    <3>1. i - 1 \in 0 .. n - 1 /\ i \in 0 .. n + 1 /\ i + 1 \in 0 .. n + 1
        BY <2>2
    <3>2. f[i - 1] \in listed /\ f[(i - 1) + 1] = store.parent[f[i - 1]]
        BY <1>1, <3>1
    <3>3. g[i] = f[i - 1] /\ g[i + 1] = f[(i - 1) + 1]
        BY <2>2, <3>1
    <3> QED
        BY <3>2, <3>3
  <2> QED
    BY <2>1, <2>2
<1> HIDE DEF g
<1> QED
    BY <1>2, <1>3 DEF Line

\* After its first step, a way up is one from the parent.
LEMMA LineShorter ==
    ASSUME NEW listed, NEW c \in Session, NEW n \in Nat, n # 0, NEW g \in Line(listed, c, n)
    PROVE  /\ c \in listed /\ store.parent[c] \in Session
           /\ \E f \in Line(listed, store.parent[c], n - 1) : f[n - 1] = g[n]
<1> DEFINE f == [i \in 0 .. n - 1 |-> g[i + 1]]
<1>1. /\ g \in [0 .. n -> Session] /\ g[0] = c
      /\ \A i \in 0 .. n - 1 : g[i] \in listed /\ g[i + 1] = store.parent[g[i]]
    BY DEF Line
<1>2. f \in [0 .. n - 1 -> Session]
    BY <1>1
<1>3. 0 \in 0 .. n - 1 /\ 1 \in 0 .. n
    OBVIOUS
<1>4. c \in listed /\ g[0 + 1] = store.parent[c]
    BY <1>1, <1>3
<1>5. f[0] = store.parent[c] /\ store.parent[c] \in Session /\ f[n - 1] = g[n]
    BY <1>1, <1>3, <1>4
<1>6. ASSUME NEW i \in 0 .. (n - 1) - 1
      PROVE  f[i] \in listed /\ f[i + 1] = store.parent[f[i]]
  <2>1. i + 1 \in 0 .. n - 1 /\ i \in 0 .. n - 1
    OBVIOUS
  <2>2. g[i + 1] \in listed /\ g[(i + 1) + 1] = store.parent[g[i + 1]]
    BY <1>1, <2>1
  <2>3. f[i] = g[i + 1] /\ f[i + 1] = g[(i + 1) + 1]
    BY <2>1
  <2> QED
    BY <2>2, <2>3
<1> HIDE DEF f
<1> QED
    BY <1>2, <1>4, <1>5, <1>6 DEF Line

\* Below a session are it and, with each session, its children.
LEMMA FamilyDown ==
    ASSUME store \in Stores, NEW s, NEW r \in Family(s), NEW c \in Session, store.parent[c] = r
    PROVE  c \in Family(s)
<1>1. r \in Session /\ \E n \in 0 .. MaxDepth : \E f \in Line(Session, r, n) : f[n] = s
    BY DEF Family
<1>2. PICK n \in 0 .. MaxDepth : \E f \in Line(Session, r, n) : f[n] = s
    BY <1>1
<1>3. PICK f \in Line(Session, r, n) : f[n] = s
    BY <1>2
<1>4. PICK g \in Line(Session, c, n + 1) : g[n + 1] = s
    BY <1>1, <1>3, LineLonger
<1>5. n + 1 \in Nat /\ n + 1 <= MaxDepth
    BY <1>4, LineEnds
<1>6. n + 1 \in 0 .. MaxDepth
    BY <1>5, ParentAssumption
<1> QED
    BY <1>4, <1>6 DEF Family

\* Who is below a session, other than it, has a parent below it.
LEMMA FamilyUp ==
    ASSUME NEW s, NEW c \in Family(s), c # s
    PROVE  store.parent[c] \in Family(s)
<1>1. c \in Session /\ \E n \in 0 .. MaxDepth : \E f \in Line(Session, c, n) : f[n] = s
    BY DEF Family
<1>2. PICK n \in 0 .. MaxDepth : \E f \in Line(Session, c, n) : f[n] = s
    BY <1>1
<1>3. PICK f \in Line(Session, c, n) : f[n] = s
    BY <1>2
<1>4. n # 0
    BY <1>3 DEF Line
<1>5. n - 1 \in 0 .. MaxDepth
    BY <1>4, ParentAssumption
<1>6. store.parent[c] \in Session /\ \E g \in Line(Session, store.parent[c], n - 1) : g[n - 1] = s
    BY <1>1, <1>3, <1>4, LineShorter
<1> QED
    BY <1>5, <1>6 DEF Family

\* A listed child is deeper than its parent.
LEMMA ChildDeeper ==
    ASSUME store \in Stores, NEW listed, NEW s \in Session, NEW c \in Session, c \in listed,
           store.parent[c] = s
    PROVE  ~ (Depth(listed, c) <= Depth(listed, s))
<1> DEFINE N    == MaxDepth
           Of(t) == {n \in 1 .. N : Line(listed, t, n) # {}}
           up   == [n \in Of(s) |-> n + 1]
<1>1. N \in Nat
    BY ParentAssumption
<1>2. \A t : IsFiniteSet(Of(t)) /\ Cardinality(Of(t)) \in Nat
  <2> TAKE t
  <2>1. IsFiniteSet(1 .. N)
    BY <1>1, FS_Interval
  <2>2. Of(t) \in SUBSET (1 .. N)
    OBVIOUS
  <2> HIDE DEF Of, N
  <2> QED
    BY <2>1, <2>2, FS_Subset, FS_CardinalityType
<1>3. 1 \in Of(c)
  <2>1. PICK f \in [0 .. 0 -> Session] : f[0] = s
    <3>1. [i \in 0 .. 0 |-> s] \in [0 .. 0 -> Session] /\ [i \in 0 .. 0 |-> s][0] = s
        OBVIOUS
    <3> QED
        BY <3>1
  <2>2. f \in Line(listed, s, 0)
    BY <2>1 DEF Line
  <2>3. Line(listed, c, 0 + 1) # {}
    BY <2>2, LineLonger
  <2>4. 0 + 1 <= N
    BY <2>3, LineEnds
  <2> QED
    BY <1>1, <2>3, <2>4
<1>4. \A n \in Of(s) : n + 1 \in Of(c) \ {1}
  <2> TAKE n \in Of(s)
  <2>1. PICK f \in Line(listed, s, n) : TRUE
    OBVIOUS
  <2>2. PICK g \in Line(listed, c, n + 1) : TRUE
    BY <2>1, LineLonger
  <2>3. n + 1 <= N
    BY <2>2, LineEnds
  <2> QED
    BY <1>1, <2>2, <2>3
<1>5. \A n \in Of(s) : n \in Nat
    OBVIOUS
<1> HIDE DEF Of
<1>6. up \in Injection(Of(s), Of(c) \ {1})
  <2>1. up \in [Of(s) -> Of(c) \ {1}]
    BY <1>4
  <2>2. \A a, b \in Of(s) : up[a] = up[b] => a = b
    BY <1>5
  <2> HIDE DEF up
  <2> QED
    BY <2>1, <2>2 DEF Injection, IsInjective
<1>7. IsFiniteSet(Of(c) \ {1}) /\ Cardinality(Of(c) \ {1}) = Cardinality(Of(c)) - 1
    BY <1>2, <1>3, FS_RemoveElement
<1> HIDE DEF up
<1>8. Cardinality(Of(s)) <= Cardinality(Of(c) \ {1})
    BY <1>6, <1>7, FS_Injection
<1>9. Cardinality(Of(s)) <= Cardinality(Of(c)) - 1
    BY <1>7, <1>8
<1>10. Depth(listed, c) = Cardinality(Of(c)) /\ Depth(listed, s) = Cardinality(Of(s))
    BY DEF Depth, Of
<1> QED
    BY <1>2, <1>9, <1>10

-----------------------------------------------------------------------------
(***************************************************************************)
(* Knowledge: what a proof names was linked, and is unless it was          *)
(* retracted.                                                              *)
(***************************************************************************)

Knowledge ==
    /\ \A q \in proofs \union attesting : q.know \subseteq linked \union retracted
    /\ \A p \in Proc : sweep[p].pc = "proof" =>
          Transcript(sweep[p].cur, sweep[p].wrote) \in linked \union retracted

\* A process goes on with its item, or to the next one.
Keeps(p) ==
    /\ sweep'[p].listed = sweep[p].listed /\ sweep'[p].modified = sweep[p].modified
    /\ sweep'[p].work = sweep[p].work /\ sweep'[p].compact = sweep[p].compact

On(p, label) ==
    /\ Keeps(p) /\ sweep'[p].pc = label /\ sweep'[p].cur = sweep[p].cur
    /\ sweep'[p].hash = sweep[p].hash /\ sweep'[p].wrote = sweep[p].wrote

Over(p) == Keeps(p) /\ sweep'[p].pc = "next" /\ sweep'[p].cur = NoSession

\* What the ways to leave a label do to a process (sweep.rs sweep).
LEMMA Going ==
    ASSUME TypeOK, NEW p \in Proc
    PROVE  /\ \A label : Goto(p, label) => On(p, label)
           /\ GiveUp(p) \/ sweep'[p] = Item(p) => Over(p)
           /\ sweep'[p] = Fresh => sweep'[p].pc = "idle"
           /\ \A label, s : sweep'[p] = Listing(label, s) => sweep'[p].pc = label
<1>1. sweep \in [Proc -> Local] /\ sweep[p] \in Local /\ Fresh \in Local
    BY LocalTyped DEF TypeOK
<1>2. \A label : Goto(p, label) => On(p, label)
    BY <1>1 DEF Goto, On, Keeps, Local
<1>3. sweep'[p] = Item(p) => Over(p)
    BY <1>1 DEF Item, Over, Keeps, Local
<1>4. GiveUp(p) => sweep'[p] = Item(p)
    BY <1>1 DEF GiveUp
<1>5. \A label, s : Listing(label, s).pc = label
    BY DEF Listing, Fresh
<1> QED
    BY <1>2, <1>3, <1>4, <1>5 DEF Fresh

\* What a sweep's own step does to the journal and to its session.
LEMMA Journals ==
    ASSUME TypeOK, NEW p \in Proc, SweepStep(p)
    PROVE  /\ linked \subseteq linked' /\ retracted' = retracted /\ attesting' = attesting
           /\ \/ proofs' = proofs
              \/ /\ sweep[p].pc = "proof"
                 /\ proofs' = Upsert(Proof(sweep[p].cur, sweep[p].hash,
                                           {Transcript(sweep[p].cur, sweep[p].wrote)}, "sweep"))
           /\ sweep'[p].pc = "proof" =>
                 Transcript(sweep'[p].cur, sweep'[p].wrote) \in linked'
<1>1. sweep \in [Proc -> Local] /\ sweep[p] \in Local
    BY LocalTyped DEF TypeOK
<1>2. attesting' = attesting
    BY DEF SweepStep
<1>3. CASE AppendEdge(p)
  <2>1. sweep'[p] = [sweep[p] EXCEPT !.pc = "proof"]
    BY <1>1, <1>3 DEF AppendEdge, Goto
  <2>2. sweep'[p].cur = sweep[p].cur /\ sweep'[p].wrote = sweep[p].wrote
    BY <1>1, <2>1 DEF Local
  <2> QED
    BY <1>2, <1>3, <2>2 DEF AppendEdge, history, fileVars
<1>4. CASE AppendProof(p)
    BY <1>1, <1>2, <1>4 DEF AppendProof, history, Local
<1>5. \A label : On(p, label) \/ Over(p) => sweep'[p].pc \in {label, "next"}
    BY DEF On, Over
<1>6. /\ GiveUp(p) \/ sweep'[p] = Item(p) => sweep'[p].pc = "next"
      /\ \A label : Goto(p, label) => sweep'[p].pc = label
    BY <1>1, Going DEF On, Over
<1>7. CASE Plan(p) \/ Take(p) \/ End(p)
  <2>1. sweep'[p].pc # "proof"
    <3>1. CASE Plan(p)
        BY <1>1, <3>1 DEF Plan, Local
    <3>2. CASE Take(p)
      <4>1. PICK r : sweep' = [sweep EXCEPT ![p].work = @ \ {r}, ![p].cur = r,
                                  ![p].pc = IF r \in sweep[p].compact THEN "hash" ELSE "guard"]
        BY <3>2 DEF Take
      <4> QED
        BY <1>1, <4>1 DEF Local
    <3>3. CASE End(p)
        BY <1>1, <3>3, Going DEF End
    <3> QED
        BY <1>7, <3>1, <3>2, <3>3
  <2> QED
    BY <1>2, <1>7, <2>1 DEF Plan, Take, End, graphVars, history
<1>8. CASE HashBefore(p) \/ Create(p) \/ Write(p) \/ AppendConversation(p) \/ AppendTranscript(p)
  <2>1. sweep'[p].pc # "proof"
    <3>1. CASE HashBefore(p)
        BY <1>1, <1>6, <3>1 DEF HashBefore, Local
    <3>2. CASE Create(p) \/ Write(p)
        BY <1>1, <3>2 DEF Create, Write, Local
    <3>3. CASE AppendConversation(p) \/ AppendTranscript(p)
        BY <1>6, <3>3 DEF AppendConversation, AppendTranscript
    <3> QED
        BY <1>8, <3>1, <3>2, <3>3
  <2>2. linked' = linked /\ retracted' = retracted /\ proofs' = proofs
    BY <1>8 DEF HashBefore, Create, Write, AppendConversation, AppendTranscript, graphVars, history
  <2> QED
    BY <1>2, <2>1, <2>2
<1>9. CASE WriteFails(p) \/ Recheck(p) \/ Rename(p)
  <2>1. sweep'[p].pc \in {"next", "rename", "conversation"}
    <3>1. CASE WriteFails(p) \/ Recheck(p)
        BY <1>1, <1>6, <3>1 DEF WriteFails, Recheck, WithFile
    <3>2. CASE Rename(p)
        BY <1>1, <1>6, <3>2 DEF Rename, WithFile, Local
    <3> QED
        BY <1>9, <3>1, <3>2
  <2> QED
    BY <1>2, <1>9, <2>1 DEF WriteFails, Recheck, Rename, graphVars, history
<1>10. CASE Deletion(p)
  <2>1. retracted' = retracted /\ linked' = linked /\ proofs' = proofs
    BY <1>10 DEF Deletion, Guard, AppendAttempt, Reassess, AppendFailure, Verify, RemoveFile,
        DeleteByCli, RemoveRow, RemoveDirectory, RemoveTarget, AppendReceipt, graphVars, history
  <2>2. sweep'[p].pc # "proof"
    <3>1. CASE Guard(p) \/ AppendFailure(p) \/ RemoveFile(p) \/ DeleteByCli(p) \/ RemoveRow(p)
               \/ RemoveDirectory(p) \/ AppendReceipt(p)
        BY <1>6, <3>1 DEF Guard, AppendFailure, RemoveFile, DeleteByCli, RemoveRow, RemoveDirectory,
            AppendReceipt
    <3>2. CASE AppendAttempt(p) \/ Reassess(p)
        BY <1>1, <3>2 DEF AppendAttempt, Reassess, Local
    <3>3. CASE Verify(p)
        <4>1. store.kind \in Kind
            BY ParentsTyped DEF TypeOK
        <4> QED
            BY <1>6, <3>3, <4>1 DEF Verify, Adapter
    <3>4. CASE RemoveTarget(p, "data") \/ RemoveTarget(p, "rest")
        BY <1>6, <3>4 DEF RemoveTarget
    <3> QED
        BY <1>10, <3>1, <3>2, <3>3, <3>4 DEF Deletion
  <2> QED
    BY <1>2, <2>1, <2>2
<1> QED
    BY <1>3, <1>4, <1>7, <1>8, <1>9, <1>10 DEF SweepStep, Compaction

\* No step unlinks what a proof names but `graph retract` (attest.rs, compact.rs).
LEMMA KnowledgeStays == IInv /\ Knowledge /\ [Next]_vars => Knowledge'
<1> DEFINE Known == linked \union retracted
<1>0. SUFFICES ASSUME IInv, Knowledge, [Next]_vars PROVE Knowledge'
    OBVIOUS
<1>1. TypeOK
    BY <1>0 DEF IInv
<1>2. ASSUME \A q \in proofs' \union attesting' : q \in proofs \union attesting \/ q.know \subseteq Known',
             Known \subseteq Known',
             \A p \in Proc : Same(p) \/ (sweep'[p].pc = "proof" =>
                                Transcript(sweep'[p].cur, sweep'[p].wrote) \in Known')
      PROVE  Knowledge'
  <2>1. \A q \in proofs' \union attesting' : q.know \subseteq Known'
    BY <1>0, <1>2 DEF Knowledge
  <2>2. ASSUME NEW p \in Proc, sweep'[p].pc = "proof"
        PROVE  Transcript(sweep'[p].cur, sweep'[p].wrote) \in Known'
    BY <1>0, <1>2, <2>2 DEF Knowledge, Same
  <2> QED
    BY <2>1, <2>2 DEF Knowledge
<1>3. CASE UNCHANGED vars
    BY <1>2, <1>3 DEF vars, graphVars, history, Same
<1>4. ASSUME NEW p \in Proc, SweepStep(p) PROVE Knowledge'
  <2>1. \A q \in Proc : q # p => Same(q)
    BY <1>1, <1>4, Apart
  <2>2. \A q \in proofs' : q \in proofs \/ q.know \subseteq Known'
    <3>1. CASE proofs' = proofs
        BY <3>1
    <3>2. CASE /\ sweep[p].pc = "proof"
               /\ proofs' = Upsert(Proof(sweep[p].cur, sweep[p].hash,
                                         {Transcript(sweep[p].cur, sweep[p].wrote)}, "sweep"))
        BY <1>0, <1>1, <1>4, <3>2, Journals DEF Knowledge, Upsert, Proof
    <3> QED
        BY <1>1, <1>4, <3>1, <3>2, Journals
  <2> QED
    BY <1>1, <1>2, <1>4, <2>1, <2>2, Journals
<1>5. ASSUME NEW p \in Proc, Start(p) \/ Fault(p) PROVE Knowledge'
  <2>1. \A q \in Proc : q # p => Same(q)
    BY <1>1, <1>5, Apart
  <2>2. proofs' = proofs /\ attesting' = attesting /\ Known' = Known
    BY <1>5 DEF Start, Fault, graphVars, history
  <2>3. sweep'[p].pc # "proof"
    <3>1. sweep \in [Proc -> Local]
        BY <1>1 DEF TypeOK
    <3>2. Start(p) => \E r : \E label \in {"plan", "guard"} : sweep'[p] = Listing(label, r)
        BY <3>1 DEF Start
    <3>3. Fault(p) => \/ (\E label \in {"failed", "receipt"} : Goto(p, label))
                      \/ GiveUp(p) \/ sweep'[p] = Fresh
        BY <3>1 DEF Fault, AdapterFails, RemovePartly, CliKeeps, WriteRefused, Die
    <3> QED
        BY <1>1, <1>5, <3>2, <3>3, Going DEF On, Over
  <2> QED
    BY <1>2, <2>1, <2>2, <2>3
<1>6. CASE Tool \/ Tick
    BY <1>2, <1>6 DEF Tool, Tick, graphVars, history, Same
<1>7. CASE Command
  <2>1. sweep' = sweep
    BY <1>7 DEF Command
  <2>2. CASE \E s \in Session : AttestCheck(s)
    <3>1. \A q \in attesting' : q.know \subseteq linked
        BY <2>2 DEF AttestCheck, Proof
    <3> QED
        BY <1>2, <2>1, <2>2, <3>1 DEF AttestCheck, graphVars, Same
  <2>3. CASE AttestAppend
    <3>1. proofs' \subseteq proofs \union attesting
        BY <2>3 DEF AttestAppend, Upsert
    <3> QED
        BY <1>2, <2>1, <2>3, <3>1 DEF AttestAppend, Same
  <2>4. CASE \E n \in linked : GraphRetract(n)
    BY <1>2, <2>1, <2>4 DEF GraphRetract, Same
  <2> QED
    BY <1>7, <2>2, <2>3, <2>4 DEF Command
<1> QED
    BY <1>0, <1>3, <1>4, <1>5, <1>6, <1>7 DEF Next, Others

-----------------------------------------------------------------------------
(***************************************************************************)
(* Sessions that a tool deletes together.  None is left without its        *)
(* parent, so that what a process listed contains the parents of what it   *)
(* listed, and a deletion that finds no listed child takes no listed       *)
(* session but its own.                                                    *)
(***************************************************************************)

Branching == {"codex", "opencode"}

NoOrphans ==
    store.kind \in Branching =>
        \A s \in Session : Has(s, "data") /\ store.parent[s] # NoSession => Has(store.parent[s], "data")

\* The labels at which p has looked for children of its session.
Childless(p) ==
    \/ sweep[p].pc \in {"verify", "cli"}
    \/ store.kind = "codex" /\ sweep[p].pc \in {"attempt", "assess"}

Closed(p) ==
    store.kind \in Branching =>
        /\ \A c \in sweep[p].listed : store.parent[c] \in sweep[p].listed \union {NoSession}
        /\ Childless(p) => \A c \in sweep[p].listed : store.parent[c] = sweep[p].cur => ~Has(c, "data")

Families == NoOrphans /\ \A p \in Proc : Closed(p)

\* A set that has the parents of its sessions has, with one below s, a child of s.
LEMMA FamilyChild ==
    ASSUME NEW s, NEW c \in Family(s), c # s, NEW S, c \in S,
           \A r \in S : store.parent[r] \in S \union {NoSession}
    PROVE  \E d \in S : store.parent[d] = s
<1>1. c \in Session /\ \E n \in 0 .. MaxDepth : \E f \in Line(Session, c, n) : f[n] = s
    BY DEF Family
<1>2. PICK n \in 0 .. MaxDepth : \E f \in Line(Session, c, n) : f[n] = s
    BY <1>1
<1>3. PICK f \in Line(Session, c, n) : f[n] = s
    BY <1>2
<1>4. /\ f \in [0 .. n -> Session] /\ f[0] = c
      /\ \A i \in 0 .. n - 1 : f[i + 1] = store.parent[f[i]]
    BY <1>3 DEF Line
<1>5. n # 0 /\ n \in Nat
    BY <1>3, <1>4
<1> DEFINE Bad == {i \in 0 .. n - 1 : f[i] \notin S}
<1>6. Bad = {}
  <2>1. SUFFICES ASSUME Bad # {} PROVE FALSE
    OBVIOUS
  <2>2. PICK i \in Bad : \A j \in Bad : i <= j
    <3>1. Bad \in SUBSET Nat
        BY <1>5
    <3> HIDE DEF Bad
    <3> QED
        BY <2>1, <3>1, LeastNat
  <2>3. i \in 0 .. n - 1 /\ f[i] \notin S /\ i # 0
    BY <1>4
  <2>4. i - 1 \in 0 .. n - 1 /\ i - 1 \notin Bad
    BY <1>5, <2>2, <2>3
  <2>5. f[i - 1] \in S /\ f[(i - 1) + 1] = store.parent[f[i - 1]]
    BY <1>4, <2>4
  <2>6. (i - 1) + 1 = i /\ f[i] \in Session
    BY <1>4, <1>5, <2>3
  <2> QED
    BY <2>3, <2>5, <2>6, NoneAssumption
<1>7. n - 1 \in 0 .. n - 1 /\ f[n - 1] \in S /\ f[(n - 1) + 1] = store.parent[f[n - 1]]
    BY <1>4, <1>5, <1>6
<1>8. (n - 1) + 1 = n
    BY <1>5
<1> QED
    BY <1>3, <1>7, <1>8

\* In a store of which the tool deletes whole families, nothing else takes
\* parts away, and a session that is spawned has a parent.
LEMMA BranchingSteps ==
    ASSUME IInv, Next, store.kind \in Branching
    PROVE  \/ \A s \in Session : native'[s].parts = native[s].parts
           \/ \E c \in Session : /\ native[c].ver = 0
                                 /\ Has(store.parent[c], "data") /\ store.parent[c] # NoSession
                                 /\ \A s \in Session : s # c => native'[s] = native[s]
           \/ \E p \in Proc : DeleteByCli(p)
<1>1. native \in [Session -> [parts : SUBSET {"row", "data", "rest"}, ver : Nat, stamp : Nat]]
    BY DEF IInv, TypeOK
<1>2. ASSUME NEW p \in Proc, SweepStep(p)
      PROVE  native' = native \/ DeleteByCli(p)
  <2>1. Removing(p)
    BY DEF IInv, Sound
  <2>2. /\ ~RemoveFile(p) /\ ~RemoveRow(p) /\ ~RemoveDirectory(p)
        /\ ~RemoveTarget(p, "data") /\ ~RemoveTarget(p, "rest")
    BY <2>1 DEF Branching, Removing, RemoveFile, RemoveRow, RemoveDirectory, RemoveTarget
  <2>3. CASE Plan(p) \/ Take(p) \/ End(p) \/ Compaction(p)
    BY <2>3 DEF Plan, Take, End, Compaction, HashBefore, Create, Write, WriteFails, Recheck, Rename,
        AppendConversation, AppendTranscript, AppendEdge, AppendProof
  <2>4. CASE Deletion(p)
    BY <2>2, <2>4 DEF Deletion, Guard, AppendAttempt, Reassess, AppendFailure, Verify, AppendReceipt
  <2> QED
    BY <1>2, <2>3, <2>4 DEF SweepStep
<1>3. ASSUME NEW p \in Proc, Start(p) \/ Fault(p)
      PROVE  native' = native
  <2>1. Removing(p)
    BY DEF IInv, Sound
  <2> QED
    BY <1>3, <2>1 DEF Start, toolVars, Fault, AdapterFails, RemovePartly, CliKeeps, WriteRefused, Die,
        Branching, Removing
<1>4. CASE Tick \/ Command
    BY <1>4 DEF Tick, Command, toolVars
<1>5. CASE Tool
  <2>1. PICK s \in Session : ToolOpen(s) \/ ToolClose(s) \/ ToolWrite(s) \/ ToolSpawn(s)
    BY <1>5 DEF Tool
  <2>2. CASE ToolOpen(s) \/ ToolClose(s)
    BY <2>2 DEF ToolOpen, ToolClose
  <2>3. CASE ToolWrite(s)
    <3>1. \A r \in Session : native'[r].parts = native[r].parts
        BY <1>1, <2>3 DEF ToolWrite
    <3> QED
        BY <3>1
  <2>4. CASE ToolSpawn(s)
    BY <1>1, <2>4 DEF ToolSpawn
  <2> QED
    BY <2>1, <2>2, <2>3, <2>4
<1> QED
    BY <1>2, <1>3, <1>4, <1>5 DEF Next, Others

\* A subagent session is started by a parent that is there, and goes with it.
LEMMA OrphansStay ==
    ASSUME IInv, IInv', NoOrphans, Next
    PROVE  NoOrphans'
<1>1. store' = store /\ store \in Stores
  <2>1. Calm
    BY SweepCalm, OthersCalm DEF Next, IInv
  <2> QED
    BY <2>1 DEF Calm, IInv, TypeOK
<1>2. SUFFICES ASSUME store.kind \in Branching, NEW s \in Session, Has(s, "data")',
                      store.parent[s] # NoSession
               PROVE  Has(store.parent[s], "data")'
    BY <1>1 DEF NoOrphans
<1>3. store.parent[s] \in Session
    BY <1>1, <1>2, ParentsTyped
<1>4. CASE \A r \in Session : native'[r].parts = native[r].parts
    BY <1>1, <1>2, <1>3, <1>4 DEF NoOrphans, Has
<1>5. ASSUME NEW c \in Session, native[c].ver = 0, Has(store.parent[c], "data"), store.parent[c] # NoSession,
             \A r \in Session : r # c => native'[r] = native[r]
      PROVE  Has(store.parent[s], "data")'
  <2>1. store.parent[c] # c
    BY <1>1, NoOwnParent
  <2>2. CASE s = c
    BY <1>1, <1>3, <1>5, <2>1, <2>2 DEF Has
  <2>3. CASE s # c
    <3>1. Has(s, "data") /\ Has(store.parent[s], "data")
        BY <1>2, <1>5, <2>3 DEF NoOrphans, Has
    <3>2. CASE store.parent[s] # c
        BY <1>1, <1>3, <1>5, <3>1, <3>2 DEF Has
    <3>3. CASE store.parent[s] = c
      <4>1. native[c].ver # 0
        BY <3>1, <3>3 DEF IInv, Written, Has
      <4> QED
        BY <1>5, <4>1
    <3> QED
        BY <3>2, <3>3
  <2> QED
    BY <2>2, <2>3
<1>6. ASSUME NEW p \in Proc, DeleteByCli(p) PROVE Has(store.parent[s], "data")'
  <2>1. native' = [c \in Session |-> IF c \in Family(sweep[p].cur)
                                     THEN [native[c] EXCEPT !.parts = {}] ELSE native[c]]
    BY <1>6 DEF DeleteByCli
  <2>2. \A c \in Session : [native[c] EXCEPT !.parts = {}].parts = {}
    BY DEF IInv, TypeOK
  <2>3. s \notin Family(sweep[p].cur)
    BY <1>2, <2>1, <2>2 DEF Has
  <2>4. store.parent[s] \notin Family(sweep[p].cur)
    BY <1>1, <2>3, FamilyDown
  <2> QED
    BY <1>1, <1>2, <1>3, <2>1, <2>3, <2>4 DEF NoOrphans, Has
<1> QED
    BY <1>2, <1>4, <1>5, <1>6, BranchingSteps

\* An item's step keeps what was listed and planned, and stays with the session or
\* ends its turn.  Who is past the look at the children took that look before or takes
\* it now.
Looked == {"attempt", "assess", "verify", "cli"}

Moves(p) ==
    Keeps(p) /\ (Over(p) \/ (sweep'[p].cur = sweep[p].cur /\ sweep'[p].pc \notin Idling))

\* The steps of an item (compact.rs compact_and_attest, purge.rs purge_candidate).
LEMMA OwnMoves ==
    ASSUME TypeOK, NEW p \in Proc, Compaction(p) \/ Deletion(p)
    PROVE  /\ Moves(p)
           /\ sweep'[p].pc \in Looked => Guard(p) \/ AppendAttempt(p) \/ Reassess(p) \/ Verify(p)
<1> DEFINE Plain == Moves(p) /\ sweep'[p].pc \notin Looked
<1>1. sweep \in [Proc -> Local] /\ sweep[p] \in Local
    BY LocalTyped DEF TypeOK
<1>2. /\ GiveUp(p) \/ sweep'[p] = Item(p) => Plain
      /\ \A label : label \notin Idling /\ Goto(p, label) => Moves(p) /\ sweep'[p].pc = label
    BY <1>1, Going DEF On, Over, Moves, Looked
<1>3. ASSUME Guard(p) \/ Verify(p) PROVE Moves(p)
  <2>1. Adapter[store.kind] \notin Idling
    BY ParentsTyped DEF TypeOK, Adapter, Idling
  <2> QED
    BY <1>2, <1>3, <2>1 DEF Guard, Verify, Idling
<1>4. ASSUME AppendAttempt(p) \/ Reassess(p) PROVE Moves(p)
    BY <1>1, <1>4 DEF AppendAttempt, Reassess, Moves, Keeps, Idling, Local
<1>5. ASSUME HashBefore(p) PROVE Plain
    BY <1>1, <1>2, <1>5 DEF HashBefore, Moves, Keeps, Looked, Idling, Local
<1>6. ASSUME Create(p) \/ Write(p) \/ AppendProof(p) PROVE Plain
    BY <1>1, <1>6 DEF Create, Write, AppendProof, Moves, Keeps, Looked, Idling, Local
<1>7. ASSUME WriteFails(p) \/ Recheck(p) PROVE Plain
    BY <1>1, <1>2, <1>7 DEF WriteFails, Recheck, WithFile, Looked, Idling
<1>8. ASSUME Rename(p) PROVE Plain
  <2>1. \/ sweep'[p] = [sweep[p] EXCEPT !.pc = "conversation"]
        \/ GiveUp(p)
    BY <1>1, <1>8 DEF Rename, WithFile
  <2> QED
    BY <1>1, <1>2, <2>1 DEF Moves, Keeps, Looked, Idling, Local
<1>9. ASSUME AppendConversation(p) \/ AppendTranscript(p) \/ AppendEdge(p) PROVE Plain
    BY <1>2, <1>9 DEF AppendConversation, AppendTranscript, AppendEdge, Looked, Idling
<1>10. ASSUME \/ AppendFailure(p) \/ RemoveFile(p) \/ DeleteByCli(p) \/ RemoveRow(p)
              \/ RemoveDirectory(p) \/ RemoveTarget(p, "data") \/ RemoveTarget(p, "rest")
              \/ AppendReceipt(p)
       PROVE  Plain
    BY <1>2, <1>10 DEF AppendFailure, RemoveFile, DeleteByCli, RemoveRow, RemoveDirectory,
        RemoveTarget, AppendReceipt, Looked, Idling
<1> HIDE DEF Looked
<1> QED
    BY <1>3, <1>4, <1>5, <1>6, <1>7, <1>8, <1>9, <1>10 DEF Compaction, Deletion

\* What p listed and found without children stays so while p goes on.
LEMMA ClosedKept ==
    ASSUME IInv, Calm, NEW p \in Proc, Closed(p), sweep'[p].listed \subseteq sweep[p].listed,
           sweep'[p].listed = {} \/ sweep'[p].listed = sweep[p].listed,
           Childless(p)' /\ store.kind \in Branching =>
              \A c \in sweep[p].listed : store.parent[c] = sweep'[p].cur => ~Has(c, "data")
    PROVE  Closed(p)'
<1>1. store' = store /\ Shrinks /\ Existed(p) /\ sweep[p].listed \subseteq Session
    BY LocalTyped DEF Calm, IInv, Sound, Local
<1>2. \A c \in sweep[p].listed : ~Has(c, "data") => ~Has(c, "data")'
    BY <1>1 DEF Shrinks, Existed, Has
<1> QED
    BY <1>1, <1>2 DEF Closed

\* A sweep or purge looks for children before its adapter gets the session (purge.rs
\* live_children, policy.rs child sessions).
LEMMA OwnClosed ==
    ASSUME IInv, Calm, NoOrphans, NEW p \in Proc, Closed(p), SweepStep(p)
    PROVE  Closed(p)'
<1>1. TypeOK /\ sweep \in [Proc -> Local] /\ sweep[p] \in Local /\ store.kind \in Kind /\ store' = store
    BY LocalTyped, ParentsTyped DEF IInv, TypeOK, Calm
<1>2. CASE Plan(p) \/ Take(p) \/ End(p)
  <2>1. /\ sweep'[p].listed = {} \/ sweep'[p].listed = sweep[p].listed
        /\ sweep'[p].pc \notin Looked
    <3>1. CASE Plan(p)
        BY <1>1, <3>1 DEF Plan, Local, Looked
    <3>2. CASE Take(p)
      <4>1. PICK r : sweep' = [sweep EXCEPT ![p].work = @ \ {r}, ![p].cur = r,
                                  ![p].pc = IF r \in sweep[p].compact THEN "hash" ELSE "guard"]
        BY <3>2 DEF Take
      <4> QED
        BY <1>1, <4>1 DEF Local, Looked
    <3>3. CASE End(p)
        BY <1>1, <3>3 DEF End, Fresh, Looked
    <3> QED
        BY <1>2, <3>1, <3>2, <3>3
  <2>2. ~Childless(p)'
    BY <2>1 DEF Childless, Looked
  <2> QED
    BY <2>1, <2>2, ClosedKept
<1>3. CASE Compaction(p) \/ Deletion(p)
  <2>1. /\ Moves(p)
        /\ sweep'[p].pc \in Looked => Guard(p) \/ AppendAttempt(p) \/ Reassess(p) \/ Verify(p)
    BY <1>1, <1>3, OwnMoves
  <2>2. sweep'[p].listed = sweep[p].listed
    BY <2>1 DEF Moves, Keeps
  <2>3. ASSUME Childless(p)', store.kind \in Branching, NEW c \in sweep[p].listed,
               store.parent[c] = sweep'[p].cur
        PROVE  ~Has(c, "data")
    <3>1. sweep'[p].pc \in Looked /\ c \in Session
        BY <1>1, <2>3 DEF Childless, Looked, Local
    <3>2. sweep'[p].cur = sweep[p].cur
        BY <2>1, <3>1 DEF Moves, Over, Looked
    <3>3. CASE Guard(p)
      <4>1. store.kind = "codex"
        BY <1>1, <2>3, <3>3, Going DEF Childless, Guard, On, Over
      <4>2. Children(sweep[p].cur) \intersect sweep[p].listed = {}
        BY <1>1, <3>1, <3>3, <4>1, Going DEF Guard, Looked, Over
      <4> QED
        BY <2>3, <3>1, <3>2, <4>2 DEF Children
    <3>4. CASE AppendAttempt(p)
      <4>1. sweep[p].pc = "attempt" /\ sweep'[p].pc = "assess"
        BY <1>1, <3>4 DEF AppendAttempt, Local
      <4>2. Childless(p)
        BY <1>1, <2>3, <4>1 DEF Childless
      <4> QED
        BY <2>3, <3>2, <4>2 DEF Closed
    <3>5. CASE Reassess(p)
      <4>1. sweep[p].pc = "assess" /\ Eligible(sweep[p].cur, sweep[p].modified[sweep[p].cur])
        BY <1>1, <3>1, <3>5 DEF Reassess, Looked, Local
      <4>2. CASE store.kind = "opencode"
        <5>1. ChildBlockers(sweep[p].cur) = {}
            BY <4>1, <4>2 DEF Eligible, Blockers
        <5> QED
            BY <2>3, <3>1, <3>2, <4>2, <5>1 DEF ChildBlockers, Children
      <4>3. CASE store.kind = "codex"
        <5>1. Childless(p)
            BY <4>1, <4>3 DEF Childless
        <5> QED
            BY <2>3, <3>2, <5>1 DEF Closed
      <4> QED
        BY <2>3, <4>2, <4>3 DEF Branching
    <3>6. CASE Verify(p)
      <4>1. Childless(p)
        BY <3>6 DEF Verify, Childless
      <4> QED
        BY <2>3, <3>2, <4>1 DEF Closed
    <3> QED
        BY <2>1, <3>1, <3>3, <3>4, <3>5, <3>6
  <2> QED
    BY <2>2, <2>3, ClosedKept
<1> QED
    BY <1>2, <1>3 DEF SweepStep

\* A listing contains the parents of what it contains (sweep.rs:46, purge.rs:16).
LEMMA StartClosed ==
    ASSUME IInv, Calm, NoOrphans, NEW p \in Proc, Start(p)
    PROVE  Closed(p)'
<1>1. TypeOK /\ sweep \in [Proc -> Local] /\ store' = store /\ store \in Stores
    BY DEF IInv, TypeOK, Calm
<1>2. \E label \in {"plan", "guard"} : \E s : sweep'[p] = Listing(label, s)
    BY <1>1 DEF Start
<1>3. \A label, s : Listing(label, s).pc = label /\ Listing(label, s).listed = Listed
    BY DEF Listing, Fresh
<1>4. sweep'[p].pc \in {"plan", "guard"} /\ sweep'[p].listed = Listed
    BY <1>2, <1>3
<1>5. ~Childless(p)'
    BY <1>4 DEF Childless
<1>6. ASSUME store.kind \in Branching, NEW c \in Listed
      PROVE  store.parent[c] \in Listed \union {NoSession}
  <2>1. c \in Session /\ Has(c, "data")
    BY <1>6 DEF Listed, Branching
  <2>2. store.parent[c] \in Session \union {NoSession}
    BY <1>1, <2>1, ParentsTyped
  <2> QED
    BY <1>6, <2>1, <2>2 DEF NoOrphans, Listed, Branching
<1> QED
    BY <1>1, <1>4, <1>5, <1>6 DEF Closed

\* A failure or a death ends the item.
LEMMA FaultClosed ==
    ASSUME IInv, Calm, NEW p \in Proc, Closed(p), Fault(p)
    PROVE  Closed(p)'
<1>1. TypeOK /\ sweep \in [Proc -> Local] /\ sweep[p] \in Local
    BY LocalTyped DEF IInv, TypeOK
<1>2. \/ (\E label \in {"failed", "receipt"} : Goto(p, label)) \/ GiveUp(p) \/ sweep'[p] = Fresh
    BY <1>1 DEF Fault, AdapterFails, RemovePartly, CliKeeps, WriteRefused, Die
<1>3. /\ sweep'[p].listed = {} \/ sweep'[p].listed = sweep[p].listed
      /\ sweep'[p].pc \notin Looked
  <2>1. CASE sweep'[p] = Fresh
    BY <2>1 DEF Fresh, Looked
  <2>2. CASE GiveUp(p) \/ \E label \in {"failed", "receipt"} : Goto(p, label)
    BY <1>1, <2>2, Going DEF On, Over, Keeps, Looked
  <2> QED
    BY <1>2, <2>1, <2>2
<1>4. ~Childless(p)'
    BY <1>3 DEF Childless, Looked
<1> QED
    BY <1>3, <1>4, ClosedKept

\* The store as the tool left it.
LEMMA FamiliesBegin == Init => Families
<1> SUFFICES ASSUME Init PROVE Families
    OBVIOUS
<1>1. store \in Stores /\ store.kind \in Kind
    BY ParentsTyped DEF Init
<1>2. NoOrphans
  <2> SUFFICES ASSUME store.kind \in Branching, NEW s \in Session, Has(s, "data"),
                      store.parent[s] # NoSession
               PROVE  Has(store.parent[s], "data")
    BY DEF NoOrphans
  <2>1. s \in store.live
    BY DEF Init, Has
  <2>2. store.parent[s] \in store.live /\ store.parent[s] \in Session
    BY <1>1, <2>1, ParentAssumption, StoreAssumption DEF Branching
  <2>3. PartsOf[store.kind] = {"data"}
    BY <1>1 DEF PartsOf, Branching
  <2> QED
    BY <2>2, <2>3 DEF Init, Has
<1>3. ASSUME NEW p \in Proc PROVE Closed(p)
  <2>1. sweep[p].listed = {}
    BY DEF Init, Fresh
  <2> QED
    BY <2>1 DEF Closed
<1> QED
    BY <1>2, <1>3 DEF Families

\* Every step of the commands and of the tool.
LEMMA FamiliesStay == IInv /\ IInv' /\ Families /\ [Next]_vars => Families'
<1>1. ASSUME Families, UNCHANGED vars PROVE Families'
    BY <1>1 DEF Families, NoOrphans, Closed, Childless, Has, vars, toolVars
<1>2. ASSUME IInv, IInv', Families, Next PROVE Families'
  <2>1. Calm /\ TypeOK
    BY <1>2, SweepCalm, OthersCalm DEF Next, IInv
  <2>2. NoOrphans'
    BY <1>2, OrphansStay DEF Families
  <2>3. ASSUME NEW p \in Proc PROVE Closed(p)'
    <3>1. CASE Same(p)
      <4>1. Childless(p)' => Childless(p)
        BY <2>1, <3>1 DEF Calm, Same, Childless
      <4> QED
        BY <1>2, <2>1, <3>1, <4>1, ClosedKept DEF Families, Closed, Same
    <3>2. CASE Start(p) \/ SweepStep(p) \/ Fault(p)
        BY <1>2, <2>1, <3>2, StartClosed, OwnClosed, FaultClosed DEF Families
    <3>3. ASSUME NEW q \in Proc, p # q, Start(q) \/ SweepStep(q) \/ Fault(q) PROVE Same(p)
        BY <2>1, <3>3, Apart
    <3>4. CASE Tool \/ Tick \/ Command
        BY <3>1, <3>4 DEF Tool, Tick, Command, Same
    <3> QED
        BY <1>2, <3>1, <3>2, <3>3, <3>4 DEF Next, Others
  <2> QED
    BY <2>2, <2>3 DEF Families
<1> QED
    BY <1>1, <1>2

\* A deletion takes no session with it that the sweep had listed and the tool still
\* has (purge.rs live_children, policy.rs child sessions).
THEOREM ChildrenStaySpared == Spec => ChildrenSpared
<1> DEFINE Spared == \A p \in Proc, c \in Session :
              sweep[p].pc = "cli" /\ sweep'[p].pc = "receipt" /\ c # sweep[p].cur /\ Removed(c) =>
                  c \notin sweep[p].listed
<1>1. ASSUME IInv, IInv', Families, [Next]_vars PROVE [Spared]_vars
  <2> SUFFICES ASSUME Next, NEW p \in Proc, NEW c \in Session, sweep[p].pc = "cli",
                      sweep'[p].pc = "receipt", c # sweep[p].cur, Removed(c), c \in sweep[p].listed
               PROVE  FALSE
    BY <1>1
  <2> DEFINE s == sweep[p].cur
             S == {r \in sweep[p].listed : Has(r, "data")}
  <2>1. TypeOK /\ store.kind \in Branching /\ Closed(p) /\ NoOrphans /\ sweep[p] \in Local
    BY <1>1, LocalTyped DEF IInv, Sound, Removing, Families, Branching
  <2>2. c \in Family(s)
    <3>1. CASE \A r \in Session : native'[r].parts = native[r].parts
        BY <3>1 DEF Removed, Has
    <3>2. ASSUME NEW d \in Session, native[d].ver = 0, \A r \in Session : r # d => native'[r] = native[r]
          PROVE  FALSE
      <4>1. native[c].ver # 0
        BY <1>1 DEF Removed, Has, IInv, Written
      <4> QED
        BY <3>2, <4>1 DEF Removed, Has
    <3>3. ASSUME NEW q \in Proc, DeleteByCli(q) PROVE c \in Family(s)
      <4>1. q = p
        BY <2>1, <3>3 DEF DeleteByCli, Goto, IInv, TypeOK
      <4> QED
        BY <3>3, <4>1 DEF DeleteByCli, Removed, Has
    <3> QED
        BY <1>1, <2>1, <3>1, <3>2, <3>3, BranchingSteps
  <2>3. c \in S /\ \A r \in S : store.parent[r] \in S \union {NoSession}
    BY <2>1 DEF Closed, NoOrphans, Removed, Local
  <2>4. PICK d \in S : store.parent[d] = s
    <3> HIDE DEF S
    <3> QED
        BY <2>2, <2>3, FamilyChild
  <2> QED
    BY <2>1, <2>4 DEF Closed, Childless
<1> QED
    BY <1>1, Invariance, FamiliesBegin, FamiliesStay, PTL DEF Spec, ChildrenSpared

-----------------------------------------------------------------------------
(***************************************************************************)
(* The quiet sweep.  Nothing but itself changes what it assessed, so that  *)
(* it takes every session that can be deleted, compacts it if it has to,   *)
(* and gets through with the deletion.                                     *)
(***************************************************************************)

\* Nothing keeps the session from being deleted but its proofs and, with Codex,
\* its children.
Free(p, s) ==
    /\ sweep[p].modified[s] < now /\ Idle(s)
    /\ store.kind = "opencode" => \A c \in sweep[p].listed : store.parent[c] # s

Robbed(s) == \E q \in ExactProofs(s) : q.know \intersect retracted # {}

\* Its child is left, or is for a later sweep.
Waits(p, s) ==
    store.kind = "codex" /\ \E c \in Children(s) : c \notin sweep[p].work \union {sweep[p].cur}

Settled(p, s) == Has(s, "data") => ~Free(p, s) \/ Robbed(s) \/ Waits(p, s)

Granted(s) == ExactProofs(s) # {} /\ \A q \in ExactProofs(s) : q.know \subseteq linked

Scope(p) ==
    /\ \A q \in Proc \ {p} : sweep[q].pc = "idle"
    /\ store.kind \in Branching => \A s \in Session : Has(s, "data") => s \in sweep[p].listed
    /\ sweep[p].work \subseteq sweep[p].listed
    /\ sweep[p].cur \notin sweep[p].work
    /\ IF sweep[p].pc \in Idling THEN sweep[p].cur = NoSession ELSE sweep[p].cur \in sweep[p].listed
    /\ store.kind = "codex" /\ sweep[p].cur # NoSession =>
          \A t \in sweep[p].work : store.parent[t] # sweep[p].cur

\* What it has yet to take, and what it has taken or left alone.
Ahead(p, s) ==
    Has(s, "data") => IF s \in sweep[p].compact THEN ExactProofs(s) = {} ELSE Granted(s)

Before(p) ==
    sweep[p].pc # "plan" =>
        /\ \A s \in sweep[p].work : Ahead(p, s)
        /\ \A s \in sweep[p].listed \ (sweep[p].work \union {sweep[p].cur}) : Settled(p, s)

\* How far it is with a session whose transcript is there.
Unproven ==
    {"hash", "create", "write", "recheck", "rename", "conversation", "transcript", "edge", "proof"}
Measured == (Unproven \ {"hash"}) \union {"verify", "row", "data"}

AtWork(p) ==
    LET s == sweep[p].cur IN
    Has(s, "data") =>
        /\ sweep[p].pc \in Unproven => ExactProofs(s) = {}
        /\ sweep[p].pc \in Measured => sweep[p].hash = Hash(s)
        /\ sweep[p].pc \in {"write", "recheck", "rename"} => partial[s] # NoFile
        /\ sweep[p].pc = "proof" => Transcript(s, sweep[p].wrote) \in linked
        /\ sweep[p].pc \in {"guard", "attempt", "assess"} => Granted(s)
        /\ sweep[p].pc = "verify" => Idle(s)
        /\ sweep[p].pc \notin {"rest", "receipt"}
        /\ sweep[p].pc = "failed" => Settled(p, s)

Tended(p) ==
    sweep[p].pc # "idle" => Scope(p) /\ Before(p) /\ (sweep[p].cur # NoSession => AtWork(p))

Tending == \A p \in Proc : quiet = p => Tended(p)

\* A sweep's own step removes parts of its session, and of those below it.
LEMMA OwnNative ==
    ASSUME IInv, NEW p \in Proc, SweepStep(p), NEW s \in Session
    PROVE  /\ native'[s].parts \subseteq native[s].parts
           /\ s # sweep[p].cur => \/ native'[s] = native[s]
                                  \/ /\ DeleteByCli(p) /\ s \in Family(sweep[p].cur)
                                     /\ native'[s].parts = {}
<1>1. /\ TypeOK /\ Existed(p)
      /\ native[s] \in [parts : SUBSET {"row", "data", "rest"}, ver : Nat, stamp : Nat]
    BY DEF IInv, Sound, TypeOK
<1>2. CASE native' = native
    BY <1>2
<1>3. CASE Plan(p) \/ Take(p) \/ End(p) \/ Compaction(p)
    BY <1>2, <1>3 DEF Plan, Take, End, Compaction, HashBefore, Create, Write, WriteFails, Recheck,
        Rename, AppendConversation, AppendTranscript, AppendEdge, AppendProof
<1>4. CASE Guard(p) \/ AppendAttempt(p) \/ Reassess(p) \/ AppendFailure(p) \/ Verify(p) \/ AppendReceipt(p)
    BY <1>2, <1>4 DEF Guard, AppendAttempt, Reassess, AppendFailure, Verify, AppendReceipt
<1>5. CASE RemoveFile(p) \/ RemoveRow(p) \/ RemoveDirectory(p)
           \/ RemoveTarget(p, "data") \/ RemoveTarget(p, "rest")
  <2>1. sweep[p].cur \in Session
    BY <1>1, <1>5 DEF Existed, Idling, RemoveFile, RemoveRow, RemoveDirectory, RemoveTarget
  <2>2. PICK gone : native' = Without(sweep[p].cur, gone)
    BY <1>5 DEF RemoveFile, RemoveRow, RemoveDirectory, RemoveTarget
  <2> QED
    BY <1>1, <2>1, <2>2, WithoutTyped
<1>6. CASE DeleteByCli(p)
  <2>1. native'[s] = IF s \in Family(sweep[p].cur) THEN [native[s] EXCEPT !.parts = {}] ELSE native[s]
    BY <1>6 DEF DeleteByCli
  <2>2. [native[s] EXCEPT !.parts = {}].parts = {}
    BY <1>1
  <2> QED
    BY <1>6, <2>1, <2>2
<1> QED
    BY <1>3, <1>4, <1>5, <1>6 DEF SweepStep, Deletion

\* What a quiet sweep knows of the sessions that it does not work on.
LEMMA OthersStay ==
    ASSUME IInv, NEW p \in Proc, SweepStep(p), NEW s \in Session, s # sweep[p].cur, Has(s, "data")'
    PROVE  /\ Has(s, "data") /\ ExactProofs(s)' = ExactProofs(s)
           /\ Robbed(s) => Robbed(s)'
           /\ Granted(s) => Granted(s)'
<1>1. TypeOK /\ store' = store
    BY DEF IInv, SweepStep
<1>2. native'[s] = native[s]
    BY OwnNative DEF Has
<1>3. Hash(s)' = Hash(s) /\ Has(s, "data")
    BY <1>1, <1>2 DEF Hash, Targets, Has
<1>4. {q \in proofs' : q.session = s} = ProofsOf(s)
    BY <1>1, Journals DEF ProofsOf, Upsert, Proof
<1>5. ExactProofs(s)' = ExactProofs(s)
    BY <1>3, <1>4 DEF ExactProofs, ProofsOf
<1>6. linked \subseteq linked' /\ retracted' = retracted
    BY <1>1, Journals
<1> QED
    BY <1>3, <1>5, <1>6 DEF Robbed, Granted

\* A child that its parent waits for is deleted with the parent only.
LEMMA WaitStays ==
    ASSUME IInv, NEW p \in Proc, SweepStep(p), NEW s \in Session, Has(s, "data")', Waits(p, s),
           sweep'[p].work \union {sweep'[p].cur}
              \subseteq sweep[p].work \union {sweep[p].cur, NoSession}
    PROVE  Waits(p, s)'
<1>1. store' = store
    BY DEF SweepStep
<1>2. PICK c \in Children(s) : c \notin sweep[p].work \union {sweep[p].cur}
    BY DEF Waits
<1>3. c \in Session /\ store.parent[c] = s /\ Has(c, "data") /\ c # sweep[p].cur
    BY <1>2 DEF Children
<1>4. Has(c, "data")'
  <2>1. CASE native'[c] = native[c]
    BY <1>3, <2>1 DEF Has
  <2>2. CASE DeleteByCli(p) /\ c \in Family(sweep[p].cur)
    <3>1. s \in Family(sweep[p].cur)
        BY <1>3, <2>2, FamilyUp
    <3>2. native'[s] = [native[s] EXCEPT !.parts = {}]
        BY <2>2, <3>1 DEF DeleteByCli
    <3>3. native'[s].parts = {}
        BY <3>2 DEF IInv, TypeOK
    <3> QED
        BY <3>3 DEF Has
  <2> QED
    BY <1>3, <2>1, <2>2, OwnNative
<1>5. c \in Children(s)'
    BY <1>1, <1>3, <1>4 DEF Children
<1> QED
    BY <1>1, <1>2, <1>3, <1>5, NoneAssumption DEF Waits

\* What is settled stays settled.
LEMMA SettledStays ==
    ASSUME IInv, NEW p \in Proc, SweepStep(p), NEW s \in Session, s # sweep[p].cur, Settled(p, s),
           sweep'[p].work \union {sweep'[p].cur} \subseteq sweep[p].work \union {sweep[p].cur, NoSession},
           sweep'[p].listed = sweep[p].listed, sweep'[p].modified = sweep[p].modified
    PROVE  Settled(p, s)'
<1> SUFFICES ASSUME Has(s, "data")', Free(p, s)' PROVE Robbed(s)' \/ Waits(p, s)'
    BY DEF Settled
<1>1. store' = store /\ now' = now /\ opened' = opened
    BY DEF SweepStep
<1>2. Free(p, s)
    BY <1>1 DEF Free, Idle
<1>3. Has(s, "data") /\ (Robbed(s) => Robbed(s)')
    BY OthersStay
<1> QED
    BY <1>2, <1>3, WaitStays DEF Settled

\* Where a step leaves the session s that p works on.
Leaves(p, s) ==
    IF sweep'[p].pc \in Idling THEN Settled(p, s)' ELSE sweep'[p].cur = s => AtWork(p)'

\* Nothing of the native store or the clock changes.
LEMMA StillLeaves ==
    ASSUME NEW p \in Proc, NEW s \in Session, SweepStep(p), native' = native, proofs' = proofs,
           retracted' = retracted, linked \subseteq linked'
    PROVE  /\ Has(s, "data")' = Has(s, "data") /\ Hash(s)' = Hash(s) /\ Idle(s)' = Idle(s)
           /\ ExactProofs(s)' = ExactProofs(s)
           /\ Granted(s) => Granted(s)'
           /\ sweep'[p].modified = sweep[p].modified /\ sweep'[p].listed = sweep[p].listed =>
                 (Free(p, s)' = Free(p, s) /\ Robbed(s)' = Robbed(s))
<1>1. store' = store /\ now' = now /\ opened' = opened
    BY DEF SweepStep
<1>2. Has(s, "data")' = Has(s, "data") /\ Hash(s)' = Hash(s) /\ Idle(s)' = Idle(s)
    BY <1>1 DEF Has, Hash, Targets, Idle
<1>3. ExactProofs(s)' = ExactProofs(s)
    BY <1>2 DEF ExactProofs, ProofsOf
<1>4. Granted(s) => Granted(s)'
    BY <1>3 DEF Granted
<1>5. Robbed(s)' = Robbed(s)
    BY <1>3 DEF Robbed
<1>6. sweep'[p].modified = sweep[p].modified /\ sweep'[p].listed = sweep[p].listed =>
         Free(p, s)' = Free(p, s)
    BY <1>1, <1>2 DEF Free
<1> QED
    BY <1>2, <1>3, <1>4, <1>5, <1>6

\* Each step of the compaction goes on, or leaves a session that is in use (compact.rs
\* compact_and_attest).
LEMMA CompactionLeaves ==
    ASSUME IInv, NEW p \in Proc, NEW s \in Session, s = sweep[p].cur, SweepStep(p), AtWork(p),
           Compaction(p)
    PROVE  Leaves(p, s)
<1>1. /\ TypeOK /\ sweep \in [Proc -> Local] /\ sweep[p] \in Local
      /\ partial \in [Session -> Nat \union {NoFile}]
      /\ native[s] \in [parts : SUBSET {"row", "data", "rest"}, ver : Nat, stamp : Nat]
      /\ store.kind \in Kind /\ s # NoSession
    BY LocalTyped, ParentsTyped, NoneAssumption DEF IInv, TypeOK
<1>2. native' = native /\ retracted' = retracted /\ linked \subseteq linked'
    BY <1>1, Journals DEF Compaction, HashBefore, Create, Write, WriteFails, Recheck,
        Rename, AppendConversation, AppendTranscript, AppendEdge, AppendProof
<1>3. SUFFICES ASSUME Has(s, "data") PROVE Leaves(p, s)
  <2>1. ~Has(s, "data") => ~Has(s, "data")'
    BY <1>2 DEF Has
  <2> QED
    BY <2>1 DEF Leaves, Settled, AtWork
<1>4. Targets(s) # {} /\ Readable(s)
    BY <1>1, <1>3 DEF Targets, HashedOf, Has, Readable
<1>5. Moves(p)
    BY <1>1, OwnMoves
<1>6. /\ \A label : Goto(p, label) => On(p, label)
      /\ GiveUp(p) \/ sweep'[p] = Item(p) => Over(p)
    BY <1>1, Going
<1>7. CASE HashBefore(p)
  <2>1. proofs' = proofs
    BY <1>7 DEF HashBefore, graphVars
  <2>2. CASE Idle(s)
    <3>1. sweep'[p] = [sweep[p] EXCEPT !.hash = Hash(s), !.pc = "create"]
        BY <1>1, <1>4, <1>7, <2>2 DEF HashBefore
    <3>2. sweep'[p].pc = "create" /\ sweep'[p].hash = Hash(s) /\ sweep'[p].cur = s
        BY <1>1, <3>1 DEF Local
    <3>3. ExactProofs(s) = {}
        BY <1>3, <1>7 DEF AtWork, HashBefore, Unproven
    <3> QED
        BY <1>2, <2>1, <3>2, <3>3, StillLeaves DEF Leaves, AtWork, Unproven, Measured, Idling
  <2>3. CASE ~Idle(s)
    <3>1. Over(p)
        BY <1>6, <1>7, <2>3 DEF HashBefore
    <3>2. ~Free(p, s)'
        BY <1>2, <2>1, <2>3, <3>1, StillLeaves DEF Over, Keeps, Free
    <3> QED
        BY <3>1, <3>2 DEF Leaves, Settled, Over, Idling
  <2> QED
    BY <2>2, <2>3
<1>8. CASE Create(p)
  <2>1. sweep'[p] = [sweep[p] EXCEPT !.pc = "write", !.fd = "partial"]
    BY <1>1, <1>8 DEF Create
  <2>2. sweep'[p].pc = "write" /\ sweep'[p].hash = sweep[p].hash /\ sweep'[p].cur = s
    BY <1>1, <2>1 DEF Local
  <2>3. partial'[s] # NoFile /\ proofs' = proofs
    BY <1>1, <1>8, NoneAssumption DEF Create, graphVars
  <2>4. ExactProofs(s) = {} /\ sweep[p].hash = Hash(s)
    BY <1>3, <1>8 DEF AtWork, Create, Unproven, Measured
  <2> QED
    BY <1>2, <2>2, <2>3, <2>4, StillLeaves DEF Leaves, AtWork, Unproven, Measured, Idling
<1>9. CASE Write(p)
  <2>1. sweep'[p] = [sweep[p] EXCEPT !.pc = "recheck", !.wrote = Dialogue(s), !.fd = "gone"]
    BY <1>1, <1>9 DEF Write
  <2>2. sweep'[p].pc = "recheck" /\ sweep'[p].hash = sweep[p].hash /\ sweep'[p].cur = s
    BY <1>1, <2>1 DEF Local
  <2>3. ExactProofs(s) = {} /\ sweep[p].hash = Hash(s) /\ partial[s] # NoFile
    BY <1>3, <1>9 DEF AtWork, Write, Unproven, Measured
  <2>4. Dialogue(s) \in Nat
    BY <1>1 DEF Dialogue
  <2>5. partial'[s] # NoFile /\ proofs' = proofs
    BY <1>1, <1>9, <2>3, <2>4, NoneAssumption DEF Write, graphVars
  <2> QED
    BY <1>2, <2>2, <2>3, <2>5, StillLeaves DEF Leaves, AtWork, Unproven, Measured, Idling
<1>10. CASE WriteFails(p)
    BY <1>3, <1>10 DEF WriteFails, HasDialogue
<1>11. CASE Recheck(p)
  <2>1. ExactProofs(s) = {} /\ sweep[p].hash = Hash(s) /\ partial[s] # NoFile
    BY <1>3, <1>11 DEF AtWork, Recheck, Unproven, Measured
  <2>2. On(p, "rename") /\ partial' = partial /\ proofs' = proofs
    BY <1>4, <1>6, <1>11, <2>1 DEF Recheck, graphVars
  <2> QED
    BY <1>2, <2>1, <2>2, StillLeaves DEF Leaves, AtWork, Unproven, Measured, Idling, On
<1>12. CASE Rename(p)
  <2>1. ExactProofs(s) = {} /\ sweep[p].hash = Hash(s) /\ partial[s] # NoFile
    BY <1>3, <1>12 DEF AtWork, Rename, Unproven, Measured
  <2>2. sweep'[p] = [sweep[p] EXCEPT !.pc = "conversation"] /\ proofs' = proofs
    BY <1>1, <1>12, <2>1 DEF Rename, WithFile, graphVars
  <2>3. sweep'[p].pc = "conversation" /\ sweep'[p].hash = sweep[p].hash /\ sweep'[p].cur = s
    BY <1>1, <2>2 DEF Local
  <2> QED
    BY <1>2, <2>1, <2>2, <2>3, StillLeaves DEF Leaves, AtWork, Unproven, Measured, Idling
<1>13. CASE AppendConversation(p) \/ AppendTranscript(p)
  <2>1. ExactProofs(s) = {} /\ sweep[p].hash = Hash(s)
    BY <1>3, <1>13 DEF AtWork, AppendConversation, AppendTranscript, Unproven, Measured
  <2>2. (On(p, "transcript") \/ On(p, "edge")) /\ proofs' = proofs
    BY <1>6, <1>13 DEF AppendConversation, AppendTranscript
  <2> QED
    BY <1>2, <2>1, <2>2, StillLeaves DEF Leaves, AtWork, Unproven, Measured, Idling, On
<1>14. CASE AppendEdge(p)
  <2>1. ExactProofs(s) = {} /\ sweep[p].hash = Hash(s)
    BY <1>3, <1>14 DEF AtWork, AppendEdge, Unproven, Measured
  <2>2. On(p, "proof") /\ proofs' = proofs /\ linked' = linked \union {Transcript(s, sweep[p].wrote)}
    BY <1>6, <1>14 DEF AppendEdge
  <2>3. Transcript(s, sweep'[p].wrote) \in linked'
    BY <2>2 DEF On
  <2>4. sweep'[p].pc = "proof" /\ sweep'[p].cur = s /\ sweep'[p].hash = Hash(s)
    BY <2>1, <2>2 DEF On
  <2> QED
    BY <1>2, <2>1, <2>2, <2>3, <2>4, StillLeaves DEF Leaves, AtWork, Unproven, Measured, Idling, Transcript
<1>15. CASE AppendProof(p)
  <2>1. /\ sweep[p].hash = Hash(s) /\ Transcript(s, sweep[p].wrote) \in linked
    BY <1>3, <1>15 DEF AtWork, AppendProof, Unproven, Measured
  <2>2. sweep'[p] = [sweep[p] EXCEPT !.pc = "guard", !.hash = NoHash]
    BY <1>1, <1>15 DEF AppendProof
  <2>3. sweep'[p].pc = "guard" /\ sweep'[p].cur = s
    BY <1>1, <2>2 DEF Local
  <2>4. PICK q : q = Proof(s, Hash(s), {Transcript(s, sweep[p].wrote)}, "sweep")
    OBVIOUS
  <2>5. proofs' = Upsert(q) /\ linked' = linked
    BY <1>15, <2>1, <2>4 DEF AppendProof
  <2>6. q.session = s /\ q.hash = Hash(s) /\ q.know \subseteq linked
    BY <2>1, <2>4 DEF Proof
  <2>7. Hash(s)' = Hash(s)
    BY <1>2 DEF SweepStep, Hash, Targets, Has
  <2>8. ExactProofs(s)' = {q}
    BY <2>5, <2>6, <2>7 DEF ExactProofs, ProofsOf, Upsert
  <2>9. Granted(s)'
    BY <2>5, <2>6, <2>8 DEF Granted
  <2> QED
    BY <2>3, <2>9 DEF Leaves, AtWork, Unproven, Measured, Idling
<1> QED
    BY <1>7, <1>8, <1>9, <1>10, <1>11, <1>12, <1>13, <1>14, <1>15 DEF Compaction

\* A session that is free and has what it needs passes the second assessment.
LEMMA FreeEligible ==
    ASSUME IInv, NEW p \in Proc, NEW s \in Session, Scope(p), Has(s, "data"), Granted(s), Free(p, s)
    PROVE  Eligible(s, sweep[p].modified[s])
<1>1. /\ TypeOK /\ store.kind \in Kind /\ now \in Nat /\ sweep[p].modified[s] \in Nat
    BY LocalTyped, ParentsTyped DEF IInv, TypeOK, Local
<1>2. Targets(s) # {}
    BY <1>1 DEF Targets, HashedOf, Has
<1>3. ProofBlockers(s) = {} /\ ProofsOf(s) # {}
    BY DEF Granted, ProofBlockers, ExactProofs
<1>4. ChildBlockers(s) = {}
  <2> SUFFICES ASSUME store.kind = "opencode", NEW c \in Children(s) PROVE FALSE
    BY DEF ChildBlockers
  <2>1. c \in sweep[p].listed /\ store.parent[c] = s
    BY DEF Children, Scope, Branching
  <2> QED
    BY <2>1 DEF Free
<1>5. ~(sweep[p].modified[s] >= now) /\ Idle(s)
    BY <1>1 DEF Free
<1> QED
    BY <1>2, <1>3, <1>4, <1>5 DEF Eligible, Blockers

\* Each step of the deletion goes on, or leaves a session that waits for its child
\* (purge.rs purge_candidate, delete_adapter delete_candidate).
LEMMA DeletionLeaves ==
    ASSUME IInv, NEW p \in Proc, NEW s \in Session, s = sweep[p].cur, SweepStep(p), Scope(p), AtWork(p),
           Deletion(p)
    PROVE  Leaves(p, s)
<1>1. /\ TypeOK /\ sweep \in [Proc -> Local] /\ sweep[p] \in Local /\ Removing(p)
      /\ native[s] \in [parts : SUBSET {"row", "data", "rest"}, ver : Nat, stamp : Nat]
      /\ store \in Stores /\ store.kind \in Kind /\ s # NoSession
    BY LocalTyped, ParentsTyped, NoneAssumption DEF IInv, Sound, TypeOK
<1>2. retracted' = retracted /\ linked \subseteq linked' /\ store' = store
    BY <1>1, Journals DEF SweepStep
<1>3. proofs' = proofs
    BY <1>1, Journals DEF Deletion, Guard, AppendAttempt, Reassess, AppendFailure, Verify, RemoveFile,
        DeleteByCli, RemoveRow, RemoveDirectory, RemoveTarget, AppendReceipt, graphVars
<1>4. SUFFICES ASSUME Has(s, "data")' PROVE Leaves(p, s)
    BY DEF Leaves, Settled, AtWork
<1>5. Has(s, "data") /\ Targets(s) # {} /\ "data" \in Targets(s)
  <2>1. Has(s, "data")
    BY <1>4, OwnNative DEF Has
  <2> QED
    BY <1>1, <2>1 DEF Targets, HashedOf, Has
<1>6. Moves(p)
    BY <1>1, OwnMoves
<1>7. /\ \A label : Goto(p, label) => On(p, label)
      /\ GiveUp(p) \/ sweep'[p] = Item(p) => Over(p)
    BY <1>1, Going
<1>8. CASE Guard(p)
  <2>1. native' = native /\ Granted(s)
    BY <1>5, <1>8 DEF Guard, AtWork
  <2>2. CASE store.kind = "codex" /\ Children(s) \intersect sweep[p].listed # {}
    <3>1. Over(p)
        BY <1>7, <1>8, <2>2 DEF Guard
    <3>2. PICK c \in Children(s) : c \in sweep[p].listed
        BY <2>2
    <3>3. c \in Session /\ store.parent[c] = s /\ c # s
        BY <1>1, <3>2, NoOwnParent DEF Children
    <3>4. c \notin sweep[p].work
        BY <1>1, <2>2, <3>3 DEF Scope
    <3>5. c \notin sweep'[p].work \union {sweep'[p].cur}
        BY <3>1, <3>3, <3>4, NoneAssumption DEF Over, Keeps
    <3>6. Children(s)' = Children(s)
        BY <1>2, <2>1 DEF Children, Has
    <3>7. Waits(p, s)'
        BY <1>2, <2>2, <3>2, <3>5, <3>6 DEF Waits
    <3> QED
        BY <3>1, <3>7 DEF Leaves, Settled, Over, Idling
  <2>3. CASE ~(store.kind = "codex" /\ Children(s) \intersect sweep[p].listed # {})
    <3>1. On(p, "attempt")
        BY <1>7, <1>8, <2>3 DEF Guard
    <3> QED
        BY <1>2, <1>3, <2>1, <3>1, StillLeaves DEF Leaves, AtWork, Unproven, Measured, Idling, On
  <2> QED
    BY <2>2, <2>3
<1>9. CASE AppendAttempt(p)
  <2>1. native' = native /\ Granted(s)
    BY <1>5, <1>9 DEF AppendAttempt, AtWork
  <2>2. sweep'[p].pc = "assess" /\ sweep'[p].cur = s
    BY <1>1, <1>9 DEF AppendAttempt, Local
  <2> QED
    BY <1>2, <1>3, <2>1, <2>2, StillLeaves DEF Leaves, AtWork, Unproven, Measured, Idling
<1>10. CASE Reassess(p)
  <2>1. native' = native /\ Granted(s)
    BY <1>5, <1>10 DEF Reassess, AtWork
  <2>2. CASE Eligible(s, sweep[p].modified[s])
    <3>1. sweep'[p] = [sweep[p] EXCEPT !.pc = "verify", !.hash = Hash(s)]
        BY <1>1, <1>10, <2>2 DEF Reassess
    <3>2. sweep'[p].pc = "verify" /\ sweep'[p].cur = s /\ sweep'[p].hash = Hash(s)
        BY <1>1, <3>1 DEF Local
    <3>3. Idle(s)
        BY <1>5, <2>2 DEF Eligible, Blockers
    <3> QED
        BY <1>2, <1>3, <2>1, <3>2, <3>3, StillLeaves DEF Leaves, AtWork, Unproven, Measured, Idling
  <2>3. CASE ~Eligible(s, sweep[p].modified[s])
    <3>1. On(p, "failed")
      <4>1. sweep'[p] = [sweep[p] EXCEPT !.pc = "failed"]
        BY <1>1, <1>10, <2>3 DEF Reassess
      <4> QED
        BY <1>1, <4>1 DEF On, Keeps, Local
    <3>2. ~Free(p, s)
        BY <1>5, <2>1, <2>3, FreeEligible
    <3>3. ~Free(p, s)'
        BY <1>2, <1>3, <2>1, <3>1, <3>2, StillLeaves DEF On, Keeps
    <3> QED
        BY <3>1, <3>3 DEF Leaves, AtWork, Settled, Unproven, Measured, Idling, On
  <2> QED
    BY <2>2, <2>3
<1>11. CASE AppendFailure(p)
  <2>1. Settled(p, s) /\ native' = native /\ Over(p)
    BY <1>5, <1>7, <1>11 DEF AtWork, AppendFailure
  <2>2. Waits(p, s) => Waits(p, s)'
    BY <1>4, <2>1, WaitStays DEF Over, Keeps
  <2> QED
    BY <1>2, <1>3, <1>5, <2>1, <2>2, StillLeaves DEF Leaves, Settled, Over, Keeps, Idling
<1>12. CASE Verify(p)
  <2>1. native' = native /\ Hash(s) = sweep[p].hash /\ Idle(s)
    BY <1>5, <1>12 DEF AtWork, Verify, Measured
  <2>2. Adapter[store.kind] \in {"remove", "cli", "row"}
    BY <1>1 DEF Adapter
  <2>3. PICK label \in {"remove", "cli", "row"} : On(p, label)
    BY <1>7, <1>12, <2>1, <2>2 DEF Verify
  <2> QED
    BY <1>2, <1>3, <2>1, <2>3, StillLeaves DEF Leaves, AtWork, Unproven, Measured, Idling, On
<1>13. CASE RemoveFile(p) \/ RemoveDirectory(p)
  <2>1. PICK gone : native' = Without(s, gone) /\ "data" \in gone
    BY <1>13 DEF RemoveFile, RemoveDirectory
  <2>2. native'[s].parts = native[s].parts \ gone
    BY <1>1, <2>1, WithoutTyped
  <2> QED
    BY <1>4, <2>1, <2>2 DEF Has
<1>14. CASE DeleteByCli(p)
  <2>1. native'[s] = [native[s] EXCEPT !.parts = {}]
    BY <1>14, FamilyOwn DEF DeleteByCli
  <2> QED
    BY <1>1, <1>4, <2>1 DEF Has
<1>15. CASE RemoveRow(p)
  <2>1. sweep[p].hash = Hash(s)
    BY <1>5, <1>15 DEF AtWork, RemoveRow, Measured
  <2>2. native' = Without(s, {"row"})
    BY <1>15 DEF RemoveRow
  <2>3. native'[s].parts = native[s].parts \ {"row"} /\ native'[s].ver = native[s].ver
    BY <1>1, <2>2, WithoutTyped
  <2>4. HashedOf[store.kind] \in {{"data"}, {"data", "rest"}}
    BY <1>1 DEF HashedOf
  <2>5. Targets(s)' = Targets(s)
    BY <1>2, <2>3, <2>4 DEF Targets
  <2>6. Hash(s)' = Hash(s)
    BY <1>4, <1>5, <2>3, <2>5 DEF Hash
  <2>7. PICK label \in {"data", "directory"} : On(p, label)
    BY <1>7, <1>15 DEF RemoveRow
  <2> QED
    BY <2>1, <2>6, <2>7 DEF Leaves, AtWork, Unproven, Measured, Idling, On
<1>16. CASE RemoveTarget(p, "data")
  <2>1. sweep[p].hash = Hash(s)
    BY <1>5, <1>16 DEF AtWork, RemoveTarget, Measured
  <2>2. native' = Without(s, {"data"} \intersect sweep[p].hash.parts) /\ "data" \in sweep[p].hash.parts
    BY <1>5, <1>16, <2>1 DEF RemoveTarget, Hash
  <2>3. native'[s].parts = native[s].parts \ ({"data"} \intersect sweep[p].hash.parts)
    BY <1>1, <2>2, WithoutTyped
  <2> QED
    BY <1>4, <2>2, <2>3 DEF Has
<1>17. CASE RemoveTarget(p, "rest") \/ AppendReceipt(p)
    BY <1>5, <1>17 DEF AtWork, RemoveTarget, AppendReceipt
<1> QED
    BY <1>8, <1>9, <1>10, <1>11, <1>12, <1>13, <1>14, <1>15, <1>16, <1>17 DEF Deletion

\* The others stay idle, and nothing new appears that was not listed.
LEMMA ScopeStays ==
    ASSUME IInv, NEW p \in Proc, SweepStep(p), Scope(p), sweep'[p].listed = sweep[p].listed
    PROVE  /\ \A q \in Proc \ {p} : sweep'[q].pc = "idle"
           /\ store'.kind \in Branching => \A s \in Session : Has(s, "data")' => s \in sweep'[p].listed
<1>1. \A q \in Proc \ {p} : sweep'[q].pc = "idle"
    BY Apart DEF IInv, Same, Scope
<1>2. \A s \in Session : Has(s, "data")' => Has(s, "data")
    BY OwnNative DEF Has
<1>3. store' = store
    BY DEF SweepStep
<1> QED
    BY <1>1, <1>2, <1>3 DEF Scope

\* A quiet sweep at work on a session (sweep.rs sweep).
LEMMA ItemTended ==
    ASSUME IInv, NEW p \in Proc, SweepStep(p), Compaction(p) \/ Deletion(p), Tended(p)
    PROVE  Tended(p)'
<1>1. /\ TypeOK /\ sweep[p] \in Local /\ Existed(p) /\ store' = store
    BY LocalTyped DEF IInv, Sound, SweepStep
<1>2. sweep[p].pc \notin Idling
    BY DEF Compaction, Deletion, HashBefore, Create, Write, WriteFails, Recheck, Rename,
        AppendConversation, AppendTranscript, AppendEdge, AppendProof, Guard, AppendAttempt, Reassess,
        AppendFailure, Verify, RemoveFile, DeleteByCli, RemoveRow, RemoveDirectory, RemoveTarget,
        AppendReceipt, Idling
<1>3. PICK s \in Session : s = sweep[p].cur
    BY <1>1, <1>2 DEF Existed
<1>4. Scope(p) /\ Before(p) /\ AtWork(p) /\ s # NoSession /\ s \in sweep[p].listed /\ s \notin sweep[p].work
    BY <1>2, <1>3, NoneAssumption DEF Tended, Scope, Idling
<1>5. Leaves(p, s)
    BY <1>3, <1>4, CompactionLeaves, DeletionLeaves
<1>6. Keeps(p) /\ (Over(p) \/ (sweep'[p].cur = s /\ sweep'[p].pc \notin Idling))
    BY <1>1, <1>3, OwnMoves DEF Moves
<1>7. sweep'[p].listed = sweep[p].listed /\ sweep'[p].work = sweep[p].work
      /\ sweep'[p].compact = sweep[p].compact /\ sweep'[p].modified = sweep[p].modified
    BY <1>6 DEF Keeps
<1>8. sweep[p].listed \subseteq Session /\ sweep[p].work \subseteq sweep[p].listed
    BY <1>1, <1>4 DEF Local, Scope
<1>9. Scope(p)'
  <2>1. sweep'[p].cur \in {s, NoSession} /\ sweep'[p].cur \notin sweep[p].work
    BY <1>4, <1>6, <1>8, NoneAssumption DEF Over
  <2>2. IF sweep'[p].pc \in Idling THEN sweep'[p].cur = NoSession ELSE sweep'[p].cur \in sweep[p].listed
    BY <1>4, <1>6 DEF Over, Idling
  <2>3. /\ \A q \in Proc \ {p} : sweep'[q].pc = "idle"
        /\ store'.kind \in Branching => \A r \in Session : Has(r, "data")' => r \in sweep'[p].listed
    BY <1>4, <1>7, ScopeStays
  <2>4. store.kind = "codex" /\ sweep'[p].cur # NoSession =>
            \A t \in sweep[p].work : store.parent[t] # sweep'[p].cur
    BY <1>3, <1>4, <2>1 DEF Scope
  <2> QED
    BY <1>1, <1>7, <1>8, <2>1, <2>2, <2>3, <2>4 DEF Scope
<1>10. Before(p)'
  <2>1. ASSUME NEW t \in sweep[p].work PROVE Ahead(p, t)'
    <3>1. t \in Session /\ t # s /\ Ahead(p, t)
        BY <1>2, <1>4, <1>8 DEF Before, Idling
    <3> QED
        BY <1>3, <1>7, <3>1, OthersStay DEF Ahead
  <2>2. ASSUME NEW t \in sweep[p].listed \ (sweep[p].work \union {sweep'[p].cur}) PROVE Settled(p, t)'
    <3>1. CASE t = s
        BY <1>5, <1>6, <2>2, <3>1 DEF Leaves, Over, Idling
    <3>2. CASE t # s
      <4>1. t \in Session /\ Settled(p, t)
        BY <1>2, <1>3, <1>4, <1>8, <3>2 DEF Before, Idling
      <4>2. sweep'[p].work \union {sweep'[p].cur} \subseteq sweep[p].work \union {sweep[p].cur, NoSession}
        BY <1>3, <1>6, <1>7 DEF Over
      <4> QED
        BY <1>3, <1>7, <3>2, <4>1, <4>2, SettledStays
    <3> QED
        BY <3>1, <3>2
  <2> QED
    BY <1>7, <2>1, <2>2 DEF Before
<1>11. sweep'[p].cur # NoSession => AtWork(p)'
    BY <1>5, <1>6 DEF Leaves, Over
<1> QED
    BY <1>9, <1>10, <1>11 DEF Tended

\* What the first assessment leaves out of the work is settled.
LEMMA PlanSettles ==
    ASSUME IInv, Knowledge, NEW p \in Proc, Scope(p), NEW s \in Session, Has(s, "data"), Free(p, s)
    PROVE  \/ Eligible(s, sweep[p].modified[s]) /\ Granted(s)
           \/ Compactable(s, sweep[p].modified[s]) /\ ExactProofs(s) = {}
           \/ Robbed(s)
<1>1. /\ TypeOK /\ store.kind \in Kind /\ now \in Nat /\ sweep[p].modified[s] \in Nat
    BY LocalTyped, ParentsTyped DEF IInv, TypeOK, Local
<1>2. Targets(s) # {} /\ ~(sweep[p].modified[s] >= now)
    BY <1>1 DEF Targets, HashedOf, Has, Free
<1>3. ChildBlockers(s) = {}
  <2> SUFFICES ASSUME store.kind = "opencode", NEW c \in Children(s) PROVE FALSE
    BY DEF ChildBlockers
  <2>1. c \in sweep[p].listed /\ store.parent[c] = s
    BY DEF Children, Scope, Branching
  <2> QED
    BY <2>1 DEF Free
<1>4. CASE ExactProofs(s) = {}
  <2>1. ProofBlockers(s) = {"attestation_missing"}
    BY <1>4 DEF ProofBlockers
  <2>2. Blockers(s, sweep[p].modified[s]) = {"attestation_missing"}
    BY <1>2, <1>3, <2>1 DEF Blockers
  <2> QED
    BY <1>4, <2>2 DEF Compactable
<1>5. CASE Granted(s)
    BY <1>5, FreeEligible
<1>6. CASE ExactProofs(s) # {} /\ ~Granted(s)
  <2>1. PICK q \in ExactProofs(s) : ~(q.know \subseteq linked)
    BY <1>6 DEF Granted
  <2>2. q.know \subseteq linked \union retracted
    BY <2>1 DEF Knowledge, ExactProofs, ProofsOf
  <2> QED
    BY <2>1, <2>2 DEF Robbed
<1> QED
    BY <1>4, <1>5, <1>6

\* Who is compacted has no proof of its bytes, and who is deleted at once has one.
LEMMA AssessmentTells ==
    ASSUME NEW s, NEW old
    PROVE  /\ Eligible(s, old) => Granted(s)
           /\ Compactable(s, old) => ExactProofs(s) = {}
<1>1. ASSUME Eligible(s, old) PROVE Granted(s)
  <2>1. ProofBlockers(s) = {}
    BY <1>1 DEF Eligible, Blockers
  <2> QED
    BY <2>1 DEF ProofBlockers, Granted
<1>2. ASSUME Compactable(s, old) PROVE ExactProofs(s) = {}
  <2>1. ProofsOf(s) = {} \/ "attestation_missing" \in ChildBlockers(s) \union ProofBlockers(s)
    BY <1>2 DEF Compactable, Blockers
  <2> QED
    BY <2>1 DEF ExactProofs, ChildBlockers, ProofBlockers
<1> QED
    BY <1>1, <1>2

\* Its plan (sweep.rs, the filter of the assessments).
LEMMA PlanTended ==
    ASSUME IInv, Knowledge, NEW p \in Proc, SweepStep(p), Plan(p), Tended(p)
    PROVE  Tended(p)'
<1>1. /\ TypeOK /\ sweep[p] \in Local /\ sweep \in [Proc -> Local]
    BY LocalTyped DEF IInv, TypeOK
<1>2. PICK compact : compact = {s \in sweep[p].listed : Compactable(s, sweep[p].modified[s])}
    OBVIOUS
<1>3. PICK work : work = {s \in sweep[p].listed : Eligible(s, sweep[p].modified[s])} \union compact
    OBVIOUS
<1>4. sweep' = [sweep EXCEPT ![p].pc = "next", ![p].compact = compact, ![p].work = work]
    BY <1>2, <1>3 DEF Plan
<1>5. /\ sweep'[p].pc = "next" /\ sweep'[p].compact = compact /\ sweep'[p].work = work
      /\ sweep'[p].cur = sweep[p].cur /\ sweep'[p].listed = sweep[p].listed
      /\ sweep'[p].modified = sweep[p].modified
    BY <1>1, <1>4 DEF Local
<1>6. Scope(p) /\ sweep[p].cur = NoSession /\ sweep[p].listed \subseteq Session
    BY <1>1 DEF Tended, Scope, Plan, Idling, Local
<1>7. native' = native /\ proofs' = proofs /\ linked' = linked /\ retracted' = retracted
    BY DEF Plan, graphVars
<1>8. Scope(p)'
  <2>1. work \subseteq sweep[p].listed
    BY <1>2, <1>3
  <2>2. NoSession \notin work
    BY <1>6, <2>1, NoneAssumption
  <2> QED
    BY <1>5, <1>6, <2>1, <2>2, ScopeStays DEF Scope, Idling
<1>9. \A s \in work : Ahead(p, s)'
  <2> TAKE s \in work
  <2>1. s \in Session /\ (IF s \in compact THEN ExactProofs(s) = {} ELSE Granted(s))
    BY <1>2, <1>3, <1>6, AssessmentTells
  <2> QED
    BY <1>5, <1>7, <2>1, StillLeaves DEF Ahead
<1>10. ASSUME NEW s \in sweep[p].listed \ work PROVE Settled(p, s)'
  <2>1. s \in Session /\ ~Eligible(s, sweep[p].modified[s]) /\ ~Compactable(s, sweep[p].modified[s])
    BY <1>2, <1>3, <1>6
  <2>2. Has(s, "data") /\ Free(p, s) => Robbed(s)
    BY <1>6, <2>1, PlanSettles
  <2> QED
    BY <1>5, <1>7, <2>1, <2>2, StillLeaves DEF Settled
<1>11. Before(p)'
    BY <1>5, <1>9, <1>10 DEF Before
<1> QED
    BY <1>5, <1>6, <1>8, <1>11 DEF Tended

\* Its next session, of which no child is left (sweep.rs, the order of the work).
LEMMA TakeTended ==
    ASSUME IInv, NEW p \in Proc, SweepStep(p), Take(p), Tended(p)
    PROVE  Tended(p)'
<1>1. /\ TypeOK /\ sweep[p] \in Local /\ sweep \in [Proc -> Local] /\ store \in Stores
    BY LocalTyped DEF IInv, TypeOK
<1>2. PICK s \in Deepest(p) :
        sweep' = [sweep EXCEPT ![p].work = @ \ {s}, ![p].cur = s,
                    ![p].pc = IF s \in sweep[p].compact THEN "hash" ELSE "guard"]
    BY DEF Take
<1>3. /\ sweep'[p].pc = (IF s \in sweep[p].compact THEN "hash" ELSE "guard")
      /\ sweep'[p].compact = sweep[p].compact /\ sweep'[p].work = sweep[p].work \ {s}
      /\ sweep'[p].cur = s /\ sweep'[p].listed = sweep[p].listed
      /\ sweep'[p].modified = sweep[p].modified
    BY <1>1, <1>2 DEF Local
<1>4. /\ Scope(p) /\ Before(p) /\ sweep[p].cur = NoSession /\ sweep[p].pc = "next"
      /\ sweep[p].listed \subseteq Session /\ sweep[p].work \subseteq sweep[p].listed
    BY <1>1 DEF Tended, Scope, Take, Idling, Local
<1>5. native' = native /\ proofs' = proofs /\ linked' = linked /\ retracted' = retracted
    BY DEF Take, graphVars, history
<1>6. s \in sweep[p].work /\ s \in Session /\ s # NoSession
      /\ \A t \in sweep[p].work : Depth(sweep[p].listed, t) <= Depth(sweep[p].listed, s)
    BY <1>4, NoneAssumption DEF Deepest
<1>7. sweep'[p].pc \notin Idling
    BY <1>3 DEF Idling
<1>8. Scope(p)'
  <2>1. \A t \in sweep[p].work : store.parent[t] # s
    BY <1>1, <1>4, <1>6, ChildDeeper
  <2>2. store' = store
    BY DEF SweepStep
  <2> QED
    BY <1>3, <1>4, <1>6, <1>7, <2>1, <2>2, ScopeStays DEF Scope
<1>9. \A t \in sweep[p].work : Ahead(p, t) /\ Ahead(p, t)'
  <2> TAKE t \in sweep[p].work
  <2>1. Ahead(p, t) /\ t \in Session
    BY <1>4 DEF Before
  <2> QED
    BY <1>3, <1>5, <2>1, StillLeaves DEF Ahead
<1>10. ASSUME NEW t \in sweep[p].listed \ sweep[p].work PROVE Settled(p, t)'
  <2>1. t \in Session /\ t # NoSession
    BY <1>4, NoneAssumption
  <2>2. Settled(p, t)
    BY <1>4, <2>1 DEF Before
  <2>3. sweep'[p].work \union {sweep'[p].cur} \subseteq sweep[p].work \union {sweep[p].cur, NoSession}
    BY <1>3, <1>6
  <2> QED
    BY <1>3, <1>4, <2>1, <2>2, <2>3, SettledStays
<1>11. Before(p)'
    BY <1>3, <1>9, <1>10 DEF Before
<1>12. AtWork(p)'
  <2>1. Ahead(p, s)'
    BY <1>6, <1>9
  <2> QED
    BY <1>3, <2>1 DEF Ahead, AtWork, Unproven, Measured
<1> QED
    BY <1>8, <1>11, <1>12 DEF Tended

\* Its listing (sweep.rs:46).
LEMMA StartTended ==
    ASSUME IInv, NEW p \in Proc, Start(p), quiet' = p
    PROVE  Tended(p)'
<1>1. TypeOK /\ sweep \in [Proc -> Local]
    BY DEF IInv, TypeOK
<1>2. /\ sweep' = [sweep EXCEPT ![p] = Listing("plan", NoSession)]
      /\ \A q \in Proc \ {p} : sweep[q].pc = "idle"
    BY NoneAssumption DEF Start
<1>3. sweep'[p].pc = "plan" /\ sweep'[p].listed = Listed /\ sweep'[p].work = {} /\ sweep'[p].cur = NoSession
    BY <1>1, <1>2 DEF Listing, Fresh
<1>4. store' = store /\ native' = native
    BY DEF Start, toolVars
<1>5. \A q \in Proc \ {p} : sweep'[q].pc = "idle"
    BY <1>1, <1>2
<1>6. store.kind \in Branching => \A s \in Session : Has(s, "data")' => s \in Listed
    BY <1>4 DEF Branching, Has, Listed
<1>7. Scope(p)'
    BY <1>3, <1>4, <1>5, <1>6 DEF Scope, Idling
<1> QED
    BY <1>3, <1>7 DEF Tended, Before

\* A sweep that is quiet has been so since its listing.
LEMMA TendingStays == IInv /\ Knowledge /\ Tending /\ [Next]_vars => Tending'
<1>1. ASSUME Tending, UNCHANGED vars PROVE Tending'
  <2>1. /\ store' = store /\ native' = native /\ opened' = opened /\ now' = now /\ partial' = partial
        /\ proofs' = proofs /\ linked' = linked /\ retracted' = retracted /\ sweep' = sweep /\ quiet' = quiet
    BY <1>1 DEF vars, toolVars, fileVars, graphVars, history
  <2>2. \A s : /\ Has(s, "data")' = Has(s, "data") /\ Hash(s)' = Hash(s) /\ Idle(s)' = Idle(s)
               /\ Children(s)' = Children(s)
    BY <2>1 DEF Has, Hash, Targets, Idle, Children
  <2>3. \A s : ExactProofs(s)' = ExactProofs(s)
    BY <2>1, <2>2 DEF ExactProofs, ProofsOf
  <2>4. \A s : Granted(s)' = Granted(s) /\ Robbed(s)' = Robbed(s)
    BY <2>1, <2>3 DEF Granted, Robbed
  <2>5. \A p, s : Settled(p, s)' = Settled(p, s)
    BY <2>1, <2>2, <2>4 DEF Settled, Free, Waits
  <2>6. ASSUME NEW p PROVE Scope(p)' = Scope(p)
    BY <2>1, <2>2 DEF Scope
  <2>7. ASSUME NEW p PROVE Before(p)' = Before(p)
    BY <2>1, <2>2, <2>3, <2>4, <2>5 DEF Before, Ahead
  <2>8. ASSUME NEW p, AtWork(p) PROVE AtWork(p)'
    BY <2>1, <2>2, <2>3, <2>4, <2>5, <2>8 DEF AtWork, Transcript
  <2>9. ASSUME NEW p \in Proc, Tended(p) PROVE Tended(p)'
    BY <2>1, <2>6, <2>7, <2>8, <2>9 DEF Tended
  <2> QED
    BY <1>1, <2>1, <2>9 DEF Tending
<1>2. ASSUME IInv, Knowledge, Tending, Next, NEW p \in Proc, quiet' = p PROVE Tended(p)'
  <2>1. CASE Others /\ quiet' = NoProc
    BY <1>2, <2>1, NoneAssumption
  <2>2. ASSUME NEW q \in Proc, Start(q) PROVE Tended(p)'
    <3>1. quiet' \in {q, NoProc}
        BY <2>2 DEF Start
    <3>2. p = q
        BY <1>2, <3>1, NoneAssumption
    <3> QED
        BY <1>2, <2>2, <3>2, StartTended
  <2>3. ASSUME NEW q \in Proc, SweepStep(q) PROVE Tended(p)'
    <3>1. p = q /\ quiet = p
        BY <1>2, <2>3, NoneAssumption DEF SweepStep
    <3>2. Tended(p)
        BY <1>2, <3>1 DEF Tending
    <3>3. CASE End(p)
      <4>1. sweep'[p].pc = "idle"
        BY <1>2, <3>3 DEF End, Fresh, IInv, TypeOK
      <4> QED
        BY <4>1 DEF Tended
    <3> QED
        BY <1>2, <2>3, <3>1, <3>2, <3>3, PlanTended, TakeTended, ItemTended DEF SweepStep
  <2> QED
    BY <1>2, <2>1, <2>2, <2>3 DEF Next
<1> QED
    BY <1>1, <1>2 DEF Tending

\* A sweep that nothing interferes with has deleted, when it has no work left, every
\* session that it listed and that nothing kept it from deleting (sweep.rs sweep,
\* compact.rs:161-179, purge.rs purge_candidate).
THEOREM SweepsClear == Spec => []SweepClears
<1>1. Init => Knowledge /\ Tending
  <2>1. Init => Knowledge
    BY DEF Init, Knowledge, Fresh
  <2>2. Init => Tending
    BY NoneAssumption DEF Init, Tending
  <2> QED
    BY <2>1, <2>2
<1>2. ASSUME IInv, Tending PROVE SweepClears
  <2> SUFFICES ASSUME NEW p \in Proc, quiet = p, sweep[p].pc = "next", sweep[p].work = {},
                      NEW s \in sweep[p].listed, Clearable(p, s), Has(s, "data")
               PROVE  FALSE
    BY DEF SweepClears
  <2>1. sweep[p] \in Local
    BY <1>2, LocalTyped DEF IInv
  <2>2. s \in Session /\ s # NoSession /\ Scope(p) /\ Before(p)
    BY <1>2, <2>1, NoneAssumption DEF Tending, Tended, Local
  <2>3. Settled(p, s)
    BY <2>2 DEF Scope, Before, Idling
  <2>4. Free(p, s)
    BY DEF Clearable, Free
  <2>5. ~Robbed(s) /\ ~Waits(p, s)
    BY DEF Clearable, Robbed, Waits
  <2> QED
    BY <2>3, <2>4, <2>5 DEF Settled
<1>3. IInv /\ Knowledge /\ Tending /\ [Next]_vars => Knowledge' /\ Tending'
    BY KnowledgeStays, TendingStays
<1> QED
    BY <1>1, <1>2, <1>3, Invariance, PTL DEF Spec
=============================================================================
