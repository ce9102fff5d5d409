----------------------------- MODULE StoresProofs -----------------------------
(***************************************************************************)
(* Proofs about Stores: what each component that keeps files of its own    *)
(* promises, for any number of processes, contents and deaths.  Harvest,   *)
(* History, HookRun, Derived, Checkpoint, HookInstall and Graph get an     *)
(* inductive invariant here, and so does ArtifactStore; for Finalize the   *)
(* theorems of its own proof module are carried over.                      *)
(***************************************************************************)
EXTENDS Stores, WellFoundedInduction, FiniteSetTheorems, TLAPS

-----------------------------------------------------------------------------
(***************************************************************************)
(* Harvest: the cursor names only what was handled, and ingests that are   *)
(* not disturbed append no file twice.                                     *)
(***************************************************************************)

\* What the argument needs of the constants: there are finitely many names, and
\* what the cursor file may be other than a set of names is no set of names.
NamesApart ==
    /\ IsFiniteSet(Name)
    /\ \A c \in {Missing, Rebuilt, Torn, None} : c \notin SUBSET Name

Cursors == {Missing, Rebuilt, Torn} \union SUBSET Name

TypeInv ==
    /\ log \in Seq([name : Name, body : Content \union {None}])
    /\ cursor \in Cursors
    /\ temp \in {None, Torn} \union SUBSET Name
    /\ pc \in [Run -> {"idle", "read", "append", "write", "rename"}]
    /\ loaded \in [Run -> Cursors]
    /\ pending \in [Run -> Seq(Name)]
    /\ body \in [Run -> Content \union {None}]
    /\ done \in [Run -> SUBSET Name]
    /\ file \in [Run -> {"none", "temp", "cursor"}]
    /\ \A p \in Run : /\ pc[p] = "idle" => done[p] = {}
                      /\ pc[p] = "append" => pending[p] # << >>

\* Whatever a run has loaded, will record or has written was handled.
HandledInv ==
    /\ Known(cursor) \subseteq handled
    /\ temp # None => Known(temp) \subseteq handled
    /\ \A p \in Run : Known(loaded[p]) \subseteq handled /\ done[p] \subseteq handled

Appended == {log[i].name : i \in DOMAIN log}

\* What the names of a sequence are not: the same twice, or in a set.
NoRepeat(s) == \A i, j \in DOMAIN s : s[i] = s[j] => i = j
Avoids(s, names) == \A i \in DOMAIN s : s[i] \notin names

\* A run that is not disturbed: the cursor is what it loaded, the names that were
\* appended are in it or will be recorded, and what is pending is new.
Alone(p) ==
    /\ loaded[p] = cursor
    /\ Appended \subseteq Known(cursor) \union done[p]
    /\ NoRepeat(pending[p])
    /\ Avoids(pending[p], Known(cursor) \union done[p])
    /\ pc[p] = "write" => file[p] = "temp" /\ temp = Torn
    /\ pc[p] = "rename" => temp = Advance(loaded[p], done[p])

OnceInv ==
    ~disturbed =>
        /\ \A p, q \in Run : pc[p] # "idle" /\ pc[q] # "idle" => p = q
        /\ \A i, j \in DOMAIN log : log[i].name = log[j].name => i = j
        /\ (\A p \in Run : pc[p] = "idle") => Appended \subseteq Known(cursor)
        /\ \A p \in Run : pc[p] # "idle" => Alone(p)

IInv == TypeInv /\ HandledInv /\ OnceInv


\* The order in which a run takes the names of a finite set has each once.
LEMMA OrderOnce ==
    ASSUME NEW S, IsFiniteSet(S)
    PROVE  /\ InOrder(S) \in Seq(S)
           /\ NoRepeat(InOrder(S))
<1> DEFINE n == Cardinality(S)
           Orders == {s \in [1 .. n -> S] : {s[i] : i \in DOMAIN s} = S}
<1>1. n \in Nat /\ ExistsBijection(1 .. n, S)
  BY FS_CardinalityType
<1>2. PICK f \in Bijection(1 .. n, S) : TRUE
  BY <1>1 DEF ExistsBijection
<1>3. f \in [1 .. n -> S] /\ \A t \in S : \E i \in 1 .. n : f[i] = t
  BY <1>2 DEF Bijection, Injection, Surjection
<1>4. f \in Orders
  BY <1>3
<1>5. InOrder(S) \in Orders
  BY <1>4 DEF InOrder
<1> DEFINE s == InOrder(S)
<1>6. s \in [1 .. n -> S] /\ {s[i] : i \in 1 .. n} = S
  BY <1>5
<1> HIDE DEF s
<1>7. s \in Surjection(1 .. n, S)
  BY <1>6 DEF Surjection
<1>8. IsFiniteSet(1 .. n) /\ Cardinality(1 .. n) = n
  <2>1. 1 \in Int /\ n \in Int
    BY <1>1
  <2> QED BY <2>1, <1>1, FS_Interval
<1>9. s \in Injection(1 .. n, S)
  BY <1>7, <1>8, FS_SurjSameCardinalityImpliesInj
<1>10. NoRepeat(s)
  BY <1>6, <1>9 DEF NoRepeat, Injection, IsInjective
<1>11. s \in Seq(S)
  BY <1>1, <1>6
<1> QED BY <1>10, <1>11 DEF s

\* What is left of a list keeps its names apart, and apart from its first one.
LEMMA TailApart ==
    ASSUME NEW s \in Seq(Name), s # << >>, NoRepeat(s), NEW names, Avoids(s, names)
    PROVE  /\ Tail(s) \in Seq(Name) /\ Head(s) \in Name
           /\ Head(s) \notin names
           /\ NoRepeat(Tail(s))
           /\ Avoids(Tail(s), names)
           /\ Avoids(Tail(s), names \union {Head(s)})
<1>1. Len(s) \in Nat /\ Len(s) > 0 /\ DOMAIN s = 1 .. Len(s) /\ Head(s) = s[1]
  OBVIOUS
<1>2. /\ Tail(s) \in Seq(Name)
      /\ DOMAIN Tail(s) = 1 .. (Len(s) - 1)
      /\ \A i \in 1 .. (Len(s) - 1) : Tail(s)[i] = s[i + 1]
  OBVIOUS
<1>3. Head(s) \in Name /\ Head(s) \notin names
  BY <1>1 DEF Avoids
<1>4. ASSUME NEW i \in DOMAIN Tail(s)
      PROVE  /\ Tail(s)[i] \notin names /\ Tail(s)[i] # Head(s)
             /\ \A j \in DOMAIN Tail(s) : Tail(s)[i] = Tail(s)[j] => i = j
  BY <1>1, <1>2 DEF Avoids, NoRepeat
<1> QED BY <1>2, <1>3, <1>4 DEF Avoids, NoRepeat

LEMMA KnownNames ==
    ASSUME NEW c \in Cursors
    PROVE  Known(c) \subseteq Name
BY DEF Cursors, Known

\* A set of names is known for what it is.
LEMMA KnownSet ==
    ASSUME NamesApart, NEW names \in SUBSET Name
    PROVE  Known(names) = names /\ names # None
BY DEF NamesApart, Known

LEMMA InitInv ==
    Init => IInv
<1> SUFFICES ASSUME Init PROVE IInv
  OBVIOUS
<1>1. TypeInv
  BY DEF Init, TypeInv, Cursors
<1>2. HandledInv
  BY DEF Init, HandledInv, Known
<1>3. OnceInv
  BY DEF Init, OnceInv, Appended
<1> QED BY <1>1, <1>2, <1>3 DEF IInv

\* The names that a run sorts are finitely many.
LEMMA StartOrder ==
    ASSUME NamesApart
    PROVE  /\ InOrder(Unconsumed(inbox, cursor)) \in Seq(Name)
           /\ NoRepeat(InOrder(Unconsumed(inbox, cursor)))
           /\ Avoids(InOrder(Unconsumed(inbox, cursor)), Known(cursor))
<1> DEFINE S == Unconsumed(inbox, cursor)
<1>1. S \subseteq Name /\ S \intersect Known(cursor) = {}
  BY DEF Unconsumed, Listed
<1>2. IsFiniteSet(S)
  BY <1>1, FS_Subset DEF NamesApart
<1> HIDE DEF S
<1>3. InOrder(S) \in Seq(S) /\ NoRepeat(InOrder(S))
  BY <1>2, OrderOnce
<1>4. \A i \in DOMAIN InOrder(S) : InOrder(S)[i] \in S
  BY <1>3
<1>5. InOrder(S) \in Seq(Name)
  BY <1>1, <1>3
<1> QED BY <1>1, <1>3, <1>4, <1>5 DEF S, Avoids

LEMMA TypeStep ==
    ASSUME NamesApart, TypeInv, Next
    PROVE  TypeInv'
<1> USE DEF TypeInv, Cursors
<1>1. ASSUME NEW p \in Run, StartRun(p) PROVE TypeInv'
  <2>1. InOrder(Unconsumed(inbox, cursor)) \in Seq(Name)
    BY StartOrder
  <2>2. CASE UNCHANGED <<pc, loaded, pending>>
    BY <1>1, <2>2 DEF StartRun
  <2>3. CASE /\ Goto(p, "read")
             /\ loaded' = [loaded EXCEPT ![p] = cursor]
             /\ pending' = [pending EXCEPT ![p] = InOrder(Unconsumed(inbox, cursor))]
    BY <1>1, <2>1, <2>3 DEF StartRun, Goto
  <2> QED BY <1>1, <2>2, <2>3 DEF StartRun
<1>2. ASSUME NEW p \in Run, PassOver(p) PROVE TypeInv'
  BY <1>2 DEF PassOver, Drop
<1>3. ASSUME NEW p \in Run, HoldBack(p) PROVE TypeInv'
  <2>1. Current(p) \in Name /\ pc[p] = "read"
    BY <1>3 DEF HoldBack, Current
  <2> QED BY <1>3, <2>1 DEF HoldBack, Drop
<1>4. ASSUME NEW p \in Run, Read(p) PROVE TypeInv'
  BY <1>4 DEF Read, Goto, Content
<1>5. ASSUME NEW p \in Run, AppendEvent(p) PROVE TypeInv'
  <2>1. Current(p) \in Name
    BY <1>5 DEF AppendEvent, Current
  <2>2. NodeUpsert(Current(p), body[p]) \in [name : Name, body : Content \union {None}]
    BY <2>1 DEF NodeUpsert
  <2>3. log' \in Seq([name : Name, body : Content \union {None}])
    BY <1>5, <2>2 DEF AppendEvent, AppendBody
  <2> QED BY <1>5, <2>1, <2>3 DEF AppendEvent, Drop, Goto
<1>6. ASSUME NEW p \in Run, AppendFails(p) PROVE TypeInv'
  BY <1>6 DEF AppendFails, Goto
<1>7. ASSUME NEW p \in Run, EndWithoutStore(p) PROVE TypeInv'
  BY <1>7 DEF EndWithoutStore, Rested, Goto
<1>8. ASSUME NEW p \in Run, Truncate(p) PROVE TypeInv'
  BY <1>8 DEF Truncate, Goto
<1>9. ASSUME NEW p \in Run, Write(p) PROVE TypeInv'
  <2>1. Advance(loaded[p], done[p]) \in SUBSET Name
    BY DEF Known, Advance
  <2>2. Written(p, temp) \union Written(p, cursor) \subseteq {Torn} \union SUBSET Name
    BY <2>1 DEF Written
  <2> QED BY <1>9, <2>2 DEF Write, Goto
<1>10. ASSUME NEW p \in Run, Rename(p) PROVE TypeInv'
  BY <1>10 DEF Rename, Goto
<1>11. ASSUME NEW p \in Run, Die(p) PROVE TypeInv'
  BY <1>11 DEF Die, Rested, Goto
<1>12. ASSUME NEW n \in Name, Edit(n) PROVE TypeInv'
  BY <1>12 DEF Edit, runVars
<1> QED
  BY <1>1, <1>2, <1>3, <1>4, <1>5, <1>6, <1>7, <1>8, <1>9, <1>10, <1>11, <1>12 DEF Next, RunNext

LEMMA HandledStep ==
    ASSUME NamesApart, TypeInv, HandledInv, Next
    PROVE  HandledInv'
<1> USE DEF HandledInv
<1>1. ASSUME NEW p \in Run, StartRun(p) PROVE HandledInv'
  BY <1>1 DEF StartRun, TypeInv
<1>2. ASSUME NEW p \in Run, PassOver(p) PROVE HandledInv'
  BY <1>2 DEF PassOver
<1>3. ASSUME NEW p \in Run, HoldBack(p) PROVE HandledInv'
  BY <1>3 DEF HoldBack, TypeInv
<1>4. ASSUME NEW p \in Run, Read(p) PROVE HandledInv'
  BY <1>4 DEF Read
<1>5. ASSUME NEW p \in Run, AppendEvent(p) PROVE HandledInv'
  BY <1>5 DEF AppendEvent, TypeInv
<1>6. ASSUME NEW p \in Run, AppendFails(p) PROVE HandledInv'
  BY <1>6 DEF AppendFails
<1>7. ASSUME NEW p \in Run, EndWithoutStore(p) PROVE HandledInv'
  BY <1>7 DEF EndWithoutStore, Rested, Known, TypeInv
<1>8. ASSUME NEW p \in Run, Truncate(p) PROVE HandledInv'
  BY <1>8 DEF Truncate, Known
<1>9. ASSUME NEW p \in Run, Write(p) PROVE HandledInv'
  <2>1. \A old : \A c \in Written(p, old) : Known(c) \subseteq handled
    <3>1. Advance(loaded[p], done[p]) \subseteq handled
      BY DEF Advance
    <3> QED BY <3>1 DEF Written, Known
  <2> QED BY <1>9, <2>1 DEF Write
<1>10. ASSUME NEW p \in Run, Rename(p) PROVE HandledInv'
  BY <1>10 DEF Rename, Known, TypeInv
<1>11. ASSUME NEW p \in Run, Die(p) PROVE HandledInv'
  BY <1>11 DEF Die, Rested, Known, TypeInv
<1>12. ASSUME NEW n \in Name, Edit(n) PROVE HandledInv'
  BY <1>12 DEF Edit, runVars
<1> QED
  BY <1>1, <1>2, <1>3, <1>4, <1>5, <1>6, <1>7, <1>8, <1>9, <1>10, <1>11, <1>12 DEF Next, RunNext

\* An undisturbed step by a run that stays in its loop: what the others do not
\* see of it, and what is left to show of the run itself.
LEMMA LoopStep ==
    ASSUME TypeInv, OnceInv, NEW p \in Run, pc[p] # "idle",
           pc' = [pc EXCEPT ![p] = pc'[p]], pc'[p] # "idle", disturbed' = disturbed,
           ~disturbed => /\ \A i, j \in DOMAIN log' : log'[i].name = log'[j].name => i = j
                         /\ Alone(p)'
    PROVE  OnceInv'
<1> SUFFICES ASSUME ~disturbed
             PROVE  /\ \A q, r \in Run : pc'[q] # "idle" /\ pc'[r] # "idle" => q = r
                    /\ (\A q \in Run : pc'[q] = "idle") => Appended' \subseteq Known(cursor)'
                    /\ \A q \in Run : pc'[q] # "idle" => Alone(q)'
  BY DEF OnceInv
<1>1. \A q \in Run : q # p => pc[q] = "idle" /\ pc'[q] = "idle"
  BY DEF OnceInv, TypeInv
<1> QED BY <1>1

\* An undisturbed step by which a run ends.
LEMMA LastStep ==
    ASSUME TypeInv, OnceInv, NEW p \in Run, pc[p] # "idle",
           pc' = [pc EXCEPT ![p] = "idle"], disturbed' = disturbed, log' = log,
           ~disturbed => Appended \subseteq Known(cursor)'
    PROVE  OnceInv'
<1> SUFFICES ASSUME ~disturbed PROVE OnceInv'
  BY DEF OnceInv
<1>1. \A q \in Run : pc'[q] = "idle"
  BY DEF OnceInv, TypeInv
<1> QED BY <1>1 DEF OnceInv, Appended

LEMMA OnceStep ==
    ASSUME NamesApart, TypeInv, OnceInv, Next
    PROVE  OnceInv'
<1>1. ASSUME NEW p \in Run, StartRun(p) PROVE OnceInv'
  <2>1. CASE UNCHANGED <<pc, loaded, pending, disturbed>>
    BY ZenonT(60), <1>1, <2>1 DEF StartRun, OnceInv, Alone, Appended
  <2>2. CASE /\ Goto(p, "read")
             /\ loaded' = [loaded EXCEPT ![p] = cursor]
             /\ pending' = [pending EXCEPT ![p] = InOrder(Unconsumed(inbox, cursor))]
             /\ disturbed' = (disturbed \/ \E q \in Run \ {p} : pc[q] # "idle")
    <3> SUFFICES ASSUME ~disturbed' PROVE OnceInv'
      BY DEF OnceInv
    <3>1. ~disturbed /\ \A q \in Run : pc[q] = "idle"
      BY <1>1, <2>2 DEF StartRun
    <3>2. pc' = [pc EXCEPT ![p] = "read"] /\ done[p] = {} /\ UNCHANGED <<log, cursor, temp, done>>
      BY <1>1, <2>2, <3>1 DEF StartRun, Goto, TypeInv
    <3>3. \A q \in Run : pc'[q] # "idle" => q = p
      BY <3>1, <3>2 DEF TypeInv
    <3>4. Appended' = Appended /\ Appended \subseteq Known(cursor)
      BY <3>1, <3>2 DEF OnceInv, Appended
    <3>5. /\ loaded'[p] = cursor /\ pc'[p] = "read"
          /\ pending'[p] = InOrder(Unconsumed(inbox, cursor)) /\ done'[p] = {}
      BY <2>2, <3>2 DEF TypeInv
    <3>6. Alone(p)'
      BY <3>2, <3>4, <3>5, StartOrder DEF Alone
    <3>7. \A i, j \in DOMAIN log' : log'[i].name = log'[j].name => i = j
      BY <3>1, <3>2 DEF OnceInv
    <3>8. \A q, r \in Run : pc'[q] # "idle" /\ pc'[r] # "idle" => q = r
      BY <3>3
    <3>9. ~\A q \in Run : pc'[q] = "idle"
      BY <3>5
    <3>10. \A q \in Run : pc'[q] # "idle" => Alone(q)'
      BY <3>3, <3>6
    <3> QED BY <3>7, <3>8, <3>9, <3>10 DEF OnceInv
  <2> QED BY <1>1, <2>1, <2>2 DEF StartRun
<1>2. ASSUME NEW p \in Run, PassOver(p) PROVE OnceInv'
  <2>1. ASSUME ~disturbed PROVE Alone(p)'
    <3>1. Alone(p) /\ pending[p] \in Seq(Name) /\ pending[p] # << >> /\ pc'[p] = "read"
      BY <1>2, <2>1 DEF PassOver, OnceInv, TypeInv
    <3>2. pending'[p] = Tail(pending[p])
      BY <1>2 DEF PassOver, Drop, TypeInv
    <3>3. /\ NoRepeat(Tail(pending[p]))
          /\ Head(pending[p]) \notin Known(cursor) \union done[p]
          /\ Avoids(Tail(pending[p]), (Known(cursor) \union done[p]) \union {Head(pending[p])})
      BY <3>1, TailApart DEF Alone
    <3>4. NoRepeat(pending'[p]) /\ Avoids(pending'[p], Known(cursor) \union done[p])
      BY <3>2, <3>3 DEF Avoids
    <3> QED BY <1>2, <3>1, <3>4 DEF PassOver, Alone, Appended
  <2>2. /\ pc[p] # "idle" /\ pc' = [pc EXCEPT ![p] = pc'[p]] /\ pc'[p] # "idle"
        /\ disturbed' = disturbed /\ log' = log
    BY <1>2 DEF PassOver, TypeInv
  <2> QED BY <2>1, <2>2, LoopStep DEF OnceInv
<1>3. ASSUME NEW p \in Run, HoldBack(p) PROVE OnceInv'
  <2>1. ASSUME ~disturbed PROVE Alone(p)'
    <3>1. Alone(p) /\ pending[p] \in Seq(Name) /\ pending[p] # << >> /\ pc'[p] = "read"
      BY <1>3, <2>1 DEF HoldBack, OnceInv, TypeInv
    <3>2. pending'[p] = Tail(pending[p]) /\ done'[p] = done[p] \union {Head(pending[p])}
      BY <1>3 DEF HoldBack, Drop, Current, TypeInv
    <3>3. /\ NoRepeat(pending'[p])
          /\ Avoids(pending'[p], (Known(cursor) \union done[p]) \union {Head(pending[p])})
      BY <3>1, <3>2, TailApart DEF Alone
    <3>4. Avoids(pending'[p], Known(cursor) \union done'[p])
      BY <3>2, <3>3 DEF Avoids
    <3> QED BY <1>3, <3>1, <3>2, <3>3, <3>4 DEF HoldBack, Alone, Appended
  <2>2. /\ pc[p] # "idle" /\ pc' = [pc EXCEPT ![p] = pc'[p]] /\ pc'[p] # "idle"
        /\ disturbed' = disturbed /\ log' = log
    BY <1>3 DEF HoldBack, TypeInv
  <2> QED BY <2>1, <2>2, LoopStep DEF OnceInv
<1>4. ASSUME NEW p \in Run, Read(p) PROVE OnceInv'
  <2>1. ASSUME ~disturbed PROVE Alone(p)'
    <3>1. Alone(p) /\ pc'[p] = "append"
      BY <1>4, <2>1 DEF Read, Goto, OnceInv, TypeInv
    <3> QED BY <1>4, <3>1 DEF Read, Alone, Appended
  <2>2. /\ pc[p] # "idle" /\ pc' = [pc EXCEPT ![p] = pc'[p]] /\ pc'[p] # "idle"
        /\ disturbed' = disturbed /\ log' = log
    BY <1>4 DEF Read, Goto, TypeInv
  <2> QED BY <2>1, <2>2, LoopStep DEF OnceInv
<1>5. ASSUME NEW p \in Run, AppendEvent(p) PROVE OnceInv'
  <2>1. /\ pending[p] \in Seq(Name) /\ pending[p] # << >> /\ pc[p] = "append"
        /\ pc' = [pc EXCEPT ![p] = "read"] /\ disturbed' = disturbed
        /\ UNCHANGED <<cursor, temp, loaded, file>>
        /\ pending'[p] = Tail(pending[p]) /\ done'[p] = done[p] \union {Head(pending[p])}
    BY <1>5 DEF AppendEvent, Drop, Current, Goto, TypeInv
  <2> DEFINE e == NodeUpsert(Head(pending[p]), body[p])
  <2>2. /\ log' = Append(log, e) /\ e.name = Head(pending[p])
        /\ Len(log) \in Nat /\ DOMAIN log = 1 .. Len(log)
    BY <1>5 DEF AppendEvent, AppendBody, Current, NodeUpsert, TypeInv
  <2> HIDE DEF e
  <2>3. /\ DOMAIN log' = 1 .. (Len(log) + 1) /\ log'[Len(log) + 1] = e
        /\ \A i \in 1 .. Len(log) : log'[i] = log[i]
    BY <2>2 DEF TypeInv
  <2>4. ASSUME ~disturbed
        PROVE  /\ \A i, j \in DOMAIN log' : log'[i].name = log'[j].name => i = j
               /\ Alone(p)'
    <3>1. Alone(p)
      BY <2>1, <2>4 DEF OnceInv
    <3>2. /\ NoRepeat(Tail(pending[p])) /\ Head(pending[p]) \notin Known(cursor) \union done[p]
          /\ Avoids(Tail(pending[p]), (Known(cursor) \union done[p]) \union {Head(pending[p])})
      BY <2>1, <3>1, TailApart DEF Alone
    <3>3. \A i \in 1 .. Len(log) : log[i].name # e.name
      BY <2>2, <3>1, <3>2 DEF Alone, Appended
    <3>4. \A i, j \in DOMAIN log' : log'[i].name = log'[j].name => i = j
      <4> SUFFICES ASSUME NEW i \in DOMAIN log', NEW j \in DOMAIN log', log'[i].name = log'[j].name
                   PROVE  i = j
        OBVIOUS
      <4>1. \A k \in DOMAIN log' : k \in 1 .. Len(log) \/ k = Len(log) + 1
        BY <2>2, <2>3
      <4>2. \A k, l \in 1 .. Len(log) : log[k].name = log[l].name => k = l
        BY <2>2, <2>4 DEF OnceInv
      <4> QED BY <2>3, <3>3, <4>1, <4>2
    <3>5. Appended' \subseteq Appended \union {Head(pending[p])}
      <4>1. \A k \in DOMAIN log' : k \in DOMAIN log \/ log'[k] = e
        BY <2>2, <2>3
      <4> QED BY <2>2, <2>3, <4>1 DEF Appended
    <3>6. Avoids(pending'[p], Known(cursor) \union done'[p])
      BY <2>1, <3>2 DEF Avoids
    <3>7. pc'[p] = "read"
      BY <2>1 DEF TypeInv
    <3> QED BY <2>1, <3>1, <3>2, <3>4, <3>5, <3>6, <3>7 DEF Alone
  <2>5. pc[p] # "idle" /\ pc' = [pc EXCEPT ![p] = pc'[p]] /\ pc'[p] # "idle"
    BY <2>1 DEF TypeInv
  <2> QED BY <2>1, <2>4, <2>5, LoopStep
<1>6. ASSUME NEW p \in Run, AppendFails(p) PROVE OnceInv'
  <2>1. ASSUME ~disturbed PROVE Alone(p)'
    <3>1. Alone(p) /\ pc'[p] = "read" /\ pending'[p] = << >>
      BY <1>6, <2>1 DEF AppendFails, Goto, OnceInv, TypeInv
    <3> QED BY <1>6, <3>1 DEF AppendFails, Alone, Appended, NoRepeat, Avoids
  <2>2. /\ pc[p] # "idle" /\ pc' = [pc EXCEPT ![p] = pc'[p]] /\ pc'[p] # "idle"
        /\ disturbed' = disturbed /\ log' = log
    BY <1>6 DEF AppendFails, Goto, TypeInv
  <2> QED BY <2>1, <2>2, LoopStep DEF OnceInv
<1>7. ASSUME NEW p \in Run, EndWithoutStore(p) PROVE OnceInv'
  <2>1. /\ pc[p] # "idle" /\ pc' = [pc EXCEPT ![p] = "idle"] /\ done[p] = {}
        /\ UNCHANGED <<disturbed, log, cursor>>
    BY <1>7 DEF EndWithoutStore, Rested, Goto
  <2>2. ~disturbed => Appended \subseteq Known(cursor)
    BY <2>1 DEF OnceInv, Alone
  <2> QED BY <2>1, <2>2, LastStep
<1>8. ASSUME NEW p \in Run, Truncate(p) PROVE OnceInv'
  <2>1. ASSUME ~disturbed PROVE Alone(p)'
    <3>1. Alone(p) /\ pc'[p] = "write" /\ file'[p] = "temp"
      BY <1>8, <2>1 DEF Truncate, Goto, OnceInv, TypeInv
    <3> QED BY <1>8, <3>1 DEF Truncate, Alone, Appended
  <2>2. /\ pc[p] # "idle" /\ pc' = [pc EXCEPT ![p] = pc'[p]] /\ pc'[p] # "idle"
        /\ disturbed' = disturbed /\ log' = log
    BY <1>8 DEF Truncate, Goto, TypeInv
  <2> QED BY <2>1, <2>2, LoopStep DEF OnceInv
<1>9. ASSUME NEW p \in Run, Write(p) PROVE OnceInv'
  <2>1. ASSUME ~disturbed PROVE Alone(p)'
    <3>1. Alone(p) /\ pc[p] = "write" /\ pc'[p] = "rename"
      BY <1>9, <2>1 DEF Write, Goto, OnceInv, TypeInv
    <3>2. temp' = Advance(loaded[p], done[p]) /\ cursor' = cursor
      BY <1>9, <3>1 DEF Write, Written, Alone
    <3> QED BY <1>9, <3>1, <3>2 DEF Write, Alone, Appended
  <2>2. /\ pc[p] # "idle" /\ pc' = [pc EXCEPT ![p] = pc'[p]] /\ pc'[p] # "idle"
        /\ disturbed' = disturbed /\ log' = log
    BY <1>9 DEF Write, Goto, TypeInv
  <2> QED BY <2>1, <2>2, LoopStep DEF OnceInv
<1>10. ASSUME NEW p \in Run, Rename(p) PROVE OnceInv'
  <2>1. /\ pc[p] = "rename" /\ pc' = [pc EXCEPT ![p] = "idle"]
        /\ UNCHANGED <<disturbed, log>> /\ (temp # None => cursor' = temp)
    BY <1>10 DEF Rename, Goto
  <2>2. ASSUME ~disturbed PROVE Appended \subseteq Known(cursor)'
    <3>1. Alone(p) /\ temp = Known(cursor) \union done[p]
      BY <2>1, <2>2 DEF OnceInv, Alone, Advance
    <3>2. temp \in SUBSET Name
      BY <3>1, KnownNames DEF TypeInv
    <3>3. cursor' = temp /\ Known(temp) = temp
      BY <2>1, <3>2, KnownSet
    <3> QED BY <3>1, <3>3 DEF Alone
  <2> QED BY <2>1, <2>2, LastStep
<1>11. ASSUME NEW p \in Run, Die(p) PROVE OnceInv'
  BY <1>11 DEF Die, OnceInv
<1>12. ASSUME NEW n \in Name, Edit(n) PROVE OnceInv'
  BY ZenonT(60), <1>12 DEF Edit, runVars, OnceInv, Alone, Appended
<1> QED
  BY <1>1, <1>2, <1>3, <1>4, <1>5, <1>6, <1>7, <1>8, <1>9, <1>10, <1>11, <1>12 DEF Next, RunNext

LEMMA StutterStep ==
    ASSUME IInv, UNCHANGED vars
    PROVE  IInv'
<1>1. UNCHANGED <<log, cursor, temp, pc, loaded, pending, body, done, file, handled, disturbed>>
  BY DEF vars, runVars
<1>2. TypeInv'
  BY <1>1 DEF IInv, TypeInv
<1>3. HandledInv'
  BY <1>1 DEF IInv, HandledInv
<1>4. OnceInv'
  <2>1. Appended' = Appended
    BY <1>1 DEF Appended
  <2>2. \A p \in Run : Alone(p)' <=> Alone(p)
    BY <1>1, <2>1 DEF Alone
  <2> QED BY <1>1, <2>1, <2>2 DEF IInv, OnceInv
<1> QED BY <1>2, <1>3, <1>4 DEF IInv

\* What no undisturbed run repeats is in the log once.
LEMMA OnceCounted ==
    ASSUME OnceInv
    PROVE  AppendedOnce
<1> SUFFICES ASSUME ~disturbed, NEW n \in Name
             PROVE  ~(Appends(n) > 1)
  BY DEF AppendedOnce
<1> DEFINE S == {i \in DOMAIN log : log[i].name = n}
<1>1. CASE S = {}
  BY <1>1, FS_EmptySet DEF Appends
<1>2. CASE \E i : i \in S
  <2>1. PICK i : i \in S
    BY <1>2
  <2>2. S = {i}
    BY <2>1 DEF OnceInv
  <2>3. Cardinality(S) = 1
    BY <2>2, FS_Singleton
  <2> QED BY <2>3 DEF Appends
<1> QED BY <1>1, <1>2

\* For any number of ingests, files, edits and deaths: the cursor names only
\* what was appended or held back, and no name is appended twice unless ingests
\* overlapped or died (ingest::run and tap.rs).
THEOREM ConsumesExactly ==
    ASSUME NamesApart
    PROVE  Spec => []ConsumedExactly
<1>1. Init => IInv
  BY InitInv
<1>2. IInv /\ [Next]_vars => IInv'
  BY NamesApart, TypeStep, HandledStep, OnceStep, StutterStep DEF IInv
<1>3. IInv => ConsumedExactly
  BY OnceCounted DEF IInv, HandledInv, ConsumedExactly, ConsumedWasHandled
<1> QED BY <1>1, <1>2, <1>3, PTL DEF Spec

-----------------------------------------------------------------------------
(***************************************************************************)
(* History: a save holds the lock from its check to the end of its line, so *)
(* the lines of the index grow, and each stands for a whole snapshot.      *)
(***************************************************************************)

HistoryTyped ==
    /\ snapshots \in [T!Request -> {"absent", "part", "whole"}]
    /\ index \in Seq(T!Request)
    /\ half \in BOOLEAN
    /\ lock \in Proc \union {None}
    /\ historyAt \in [Proc -> {"idle", "lock", "check", "fill", "line", "newline", "unlock"}]
    /\ request \in [Proc -> T!Request \union {None}]
    /\ \A p \in Proc : historyAt[p] # "idle" => request[p] \in T!Request

\* Who is between the check and the unlock holds the lock.
Exclusive ==
    \A p \in Proc : historyAt[p] \in {"check", "fill", "line", "newline", "unlock"} <=> lock = p

\* The lines of the index grow, and what an admitted save appends extends them.
Growing ==
    /\ \A m, n \in DOMAIN index : m <= n => index[m] \subseteq index[n]
    /\ \A p \in Proc : historyAt[p] \in {"fill", "line", "newline"} =>
          \A n \in DOMAIN index : index[n] \subseteq request[p]

\* A request is whole in its snapshot before it has a line.
Backed ==
    /\ \A n \in DOMAIN index : snapshots[index[n]] = "whole"
    /\ \A p \in Proc :
          historyAt[p] \in {"line", "newline", "unlock"} => snapshots[request[p]] = "whole"

\* An acknowledged request has a line.
Lined ==
    /\ \A p \in Proc : historyAt[p] = "unlock" => \E n \in DOMAIN index : index[n] = request[p]
    /\ \A r \in told : \E n \in DOMAIN index : index[n] = r

HistoryInv == HistoryTyped /\ Exclusive /\ Growing /\ Backed /\ Lined

\* A history that was never saved has no lines.
LEMMA HistoryInit == T!Init => HistoryInv
<1> SUFFICES ASSUME T!Init PROVE HistoryInv
  OBVIOUS
<1> USE DEF T!Init
<1>1. index = << >> /\ index \in Seq(T!Request) /\ DOMAIN index = {}
  OBVIOUS
<1>2. HistoryTyped
  BY <1>1 DEF HistoryTyped
<1>3. Exclusive
  BY StoresAssumption DEF Exclusive
<1>4. Growing /\ Backed /\ Lined
  BY <1>1 DEF Growing, Backed, Lined
<1> QED
  BY <1>2, <1>3, <1>4 DEF HistoryInv

\* load takes the last line of the index: it extends every line before it.
LEMMA HistoryLoads == HistoryInv => T!LoadKeepsDecisions
<1> SUFFICES ASSUME HistoryInv, lock = None
             PROVE  IF T!Loaded = None THEN told = {} \/ half
                    ELSE \A r \in told : r \subseteq T!Loaded
  BY DEF T!LoadKeepsDecisions
<1> USE DEF HistoryInv, HistoryTyped
<1>1. CASE half
  BY <1>1 DEF T!Loaded
<1>2. CASE index = << >>
  BY <1>2 DEF Lined, T!Loaded
<1>3. CASE ~half /\ index # << >>
  <2>1. Len(index) \in DOMAIN index /\ \A n \in DOMAIN index : n <= Len(index)
    BY <1>3
  <2>2. T!LastEntry = index[Len(index)] /\ T!LastEntry \in T!Request
    BY <2>1 DEF T!LastEntry
  <2>3. T!Loaded = T!LastEntry /\ T!Loaded # None
    BY <1>3, <2>1, <2>2, StoresAssumption DEF Backed, T!Loaded
  <2>4. ASSUME NEW r \in told PROVE r \subseteq T!LastEntry
    BY <2>1, <2>2, <2>4 DEF Lined, Growing
  <2> QED
    BY <2>3, <2>4
<1> QED
  BY <1>1, <1>2, <1>3

\* save keeps its lock from the check of the prior history to the end of the line.
LEMMA HistoryStep ==
    ASSUME HistoryInv, T!Next PROVE HistoryInv'
<1> USE DEF HistoryInv, HistoryTyped, T!Goto
<1> PICK p \in Proc :
        \/ \E r \in T!Request : T!BeginSave(p, r)
        \/ T!Acquire(p) \/ T!Check(p) \/ T!Fill(p) \/ T!AppendLine(p) \/ T!EndLine(p)
        \/ T!Release(p) \/ T!Die(p)
  BY DEF T!Next
<1>1. CASE \E r \in T!Request : T!BeginSave(p, r)
  BY <1>1 DEF T!BeginSave, Exclusive, Growing, Backed, Lined
<1>2. CASE T!Acquire(p)
  BY <1>2, StoresAssumption DEF T!Acquire, Exclusive, Growing, Backed, Lined
<1>3. CASE T!Check(p)
  <2> USE <1>3 DEF T!Check
  <2>1. HistoryTyped' /\ Exclusive'
    BY StoresAssumption DEF Exclusive
  <2>2. Growing'
    <3>1. T!Immutable(request[p]) => \A n \in DOMAIN index : index[n] \subseteq request[p]
      BY DEF T!Immutable, T!Prior
    <3> QED
      BY <3>1 DEF Growing, T!Admitted
  <2>3. Backed' /\ Lined'
    BY DEF Backed, Lined, Exclusive
  <2> QED
    BY <2>1, <2>2, <2>3
<1>4. CASE T!Fill(p)
  BY <1>4 DEF T!Fill, Exclusive, Growing, Backed, Lined
<1>5. CASE T!AppendLine(p)
  BY <1>5 DEF T!AppendLine, Exclusive, Growing, Backed, Lined
<1>6. CASE T!EndLine(p)
  <2> USE <1>6 DEF T!EndLine
  <2>0. index' \in Seq(T!Request)
    OBVIOUS
  <2>1. HistoryTyped' /\ Exclusive'
    <3>1. HistoryTyped'
      BY <2>0
    <3>2. Exclusive'
      BY DEF Exclusive
    <3> QED
      BY <3>1, <3>2
  <2>2. /\ DOMAIN index' = 1 .. Len(index) + 1
        /\ index'[Len(index) + 1] = request[p]
        /\ \A n \in DOMAIN index : index'[n] = index[n]
        /\ DOMAIN index = 1 .. Len(index) /\ Len(index) \in Nat
    OBVIOUS
  <2>3. Growing'
    BY <2>2 DEF Growing, Exclusive
  <2>4. Backed' /\ Lined'
    BY <2>2 DEF Backed, Lined
  <2> QED
    BY <2>1, <2>3, <2>4
<1>7. CASE T!Release(p)
  BY <1>7, StoresAssumption DEF T!Release, Exclusive, Growing, Backed, Lined
<1>8. CASE T!Die(p)
  BY <1>8, StoresAssumption DEF T!Die, Exclusive, Growing, Backed, Lined
<1> QED
  BY <1>1, <1>2, <1>3, <1>4, <1>5, <1>6, <1>7, <1>8

\* A step of another component leaves the history as it is.
LEMMA HistoryStill ==
    ASSUME HistoryInv, UNCHANGED historyVars PROVE HistoryInv'
  BY DEF historyVars, HistoryInv, HistoryTyped, Exclusive, Growing, Backed, Lined

\* save and load (middleware store.rs), for any number of saves that overlap and die:
\* what load returns holds every decision that a save has acknowledged, and it is
\* empty only where none was, or where a line was left half written.
THEOREM DecisionsSurvive == StoreSpec => []LoadKeepsDecisions
<1> DEFINE Inv == part = "history" => HistoryInv
<1>1. StoreInit => Inv
  BY HistoryInit DEF StoreInit, StoreStates
<1>2. Inv /\ [StoreNext]_storeVars => Inv'
  <2> SUFFICES ASSUME Inv, [StoreNext]_storeVars, part' = "history" PROVE HistoryInv'
    OBVIOUS
  <2>1. part = "history" /\ (T!Next \/ UNCHANGED historyVars)
    BY DEF StoreNext, storeVars
  <2> QED
    BY <2>1, HistoryStep, HistoryStill
<1>3. Inv => LoadKeepsDecisions
  BY HistoryLoads DEF LoadKeepsDecisions
<1> QED
  BY <1>1, <1>2, <1>3, PTL DEF StoreSpec

-----------------------------------------------------------------------------
(***************************************************************************)
(* HookRun: a receipt is named by the digest of what it shows; only its hook *)
(* fills it, and hooks of one digest that write together have overlapped.  *)
(***************************************************************************)

ReceiptName == Nat \X R!Digest
Running(p) == hook[p] # None
Decided(p) == Running(p) /\ hook[p].digest # None
StateOf(p) == [status |-> hook[p].status, branch |-> hook[p].branch]
DigestOf(t) == R!ReceiptDigest(t.state, t.f)

HookTyped ==
    /\ tree \in R!State \union {None} /\ clock \in Nat
    /\ hook \in [Proc -> R!HookRecord \union {None}]
    /\ receipts \in [DOMAIN receipts -> R!Receipt \union {Empty}]
    /\ DOMAIN receipts \subseteq ReceiptName
    /\ hookTold \subseteq R!Receipt

\* A hook that decided to write keeps the digest of what it saw.
Digested ==
    \A p \in Proc : Running(p) =>
        /\ hook[p].opened => hook[p].digest # None
        /\ hook[p].digest # None => /\ StateOf(p) \in R!State
                                    /\ hook[p].digest = R!ReceiptDigest(StateOf(p), hook[p].f)
                                    /\ hook[p].name = None \/ hook[p].name[2] = hook[p].digest
                                    /\ ~hook[p].opened => hook[p].name # None

\* A receipt is filled with what it is named by, or its hook is still at it or
\* was killed.
FilledOrBusy ==
    \A name \in DOMAIN receipts :
        IF receipts[name] = Empty
        THEN \/ name[2] \in killed
             \/ \E p \in Proc : Running(p) /\ hook[p].opened /\ hook[p].name = name
        ELSE DigestOf(receipts[name]) = name[2]

Present == \A t \in hookTold : R!HasDigest(DigestOf(t))

\* Of hooks that do not overlap one writes a digest, and finds no receipt of it.
Single ==
    \A p \in Proc : Decided(p) /\ hook[p].digest \notin hookOverlapped =>
        /\ \A q \in Proc : Decided(q) /\ hook[q].digest = hook[p].digest => q = p
        /\ ~hook[p].opened => ~R!HasDigest(hook[p].digest)
Unique == \A m, n \in DOMAIN receipts : m[2] = n[2] => m = n \/ m[2] \in hookOverlapped

HookInv == HookTyped /\ Digested /\ FilledOrBusy /\ Present /\ Single /\ Unique

\* The digest of a receipt determines the state, the identity and the event it shows.
LEMMA ReceiptDigestIs ==
    ASSUME NEW s \in R!State, NEW f \in Firing
    PROVE  /\ R!ReceiptDigest(s, f) \in R!Digest
           /\ R!ReceiptDigest(s, f) # None
           /\ R!ReceiptDigest(s, f) = <<s, R!Identity(f), f.event>>
  BY StoresAssumption DEF R!Digest, R!ReceiptDigest

\* Without hooks there are no receipts.
LEMMA HookInit == R!Init => HookInv
<1> SUFFICES ASSUME R!Init PROVE HookInv
  OBVIOUS
<1> USE DEF R!Init
<1>1. DOMAIN receipts = {} /\ receipts \in [DOMAIN receipts -> R!Receipt \union {Empty}]
  OBVIOUS
<1>2. HookTyped
  BY <1>1 DEF HookTyped, R!State
<1>3. \A p \in Proc : ~Running(p)
  BY DEF Running
<1> QED
  BY <1>1, <1>2, <1>3 DEF HookInv, Digested, FilledOrBusy, Present, Single, Unique, Decided

\* A receipt that a hook took for recorded is there, full, and the only one of its
\* digest.
LEMMA HookReceipts == HookInv => R!ReceiptsKept
<1> SUFFICES ASSUME HookInv PROVE R!ReceiptsKept
  OBVIOUS
<1>1. ASSUME NEW t \in hookTold, R!Writing(DigestOf(t)) = {}, DigestOf(t) \notin killed
      PROVE  \E name \in DOMAIN receipts :
                /\ name[2] = DigestOf(t) /\ receipts[name] # Empty
                /\ receipts[name].state = t.state /\ receipts[name].f.event = t.f.event
                /\ R!Identity(receipts[name].f) = R!Identity(t.f)
  <2>1. PICK name \in DOMAIN receipts : name[2] = DigestOf(t)
    BY DEF HookInv, Present, R!HasDigest
  <2>2. receipts[name] # Empty
    <3> SUFFICES ASSUME receipts[name] = Empty PROVE FALSE
      OBVIOUS
    <3>1. name # None
      BY StoresAssumption DEF HookInv, HookTyped, ReceiptName
    <3>2. PICK p \in Proc : Running(p) /\ hook[p].opened /\ hook[p].name = name
      BY <1>1, <2>1 DEF HookInv, FilledOrBusy
    <3>3. hook[p].digest = DigestOf(t)
      BY <2>1, <3>1, <3>2 DEF HookInv, Digested
    <3> QED
      BY <1>1, <3>2, <3>3 DEF R!Writing, Running
  <2>3. receipts[name] \in R!Receipt /\ t \in R!Receipt
    BY <2>2 DEF HookInv, HookTyped
  <2>4. DigestOf(receipts[name]) = DigestOf(t)
    BY <2>1, <2>2 DEF HookInv, FilledOrBusy
  <2>5. <<receipts[name].state, R!Identity(receipts[name].f), receipts[name].f.event>>
        = <<t.state, R!Identity(t.f), t.f.event>>
    BY <2>3, <2>4, ReceiptDigestIs DEF DigestOf, R!Receipt
  <2> QED
    BY <2>1, <2>2, <2>5
<1>2. \A t \in hookTold : DigestOf(t) = <<t.state, R!Identity(t.f), t.f.event>>
  BY DEF DigestOf, R!ReceiptDigest
<1> QED
  BY <1>1, <1>2 DEF HookInv, Unique, R!ReceiptsKept, DigestOf

\* What another hook holds does not change, and what it looks for is not new.
LEMMA HookBegins ==
    ASSUME HookInv, NEW p \in Proc, NEW f \in Firing, R!Begin(p, f)
    PROVE  HookInv'
<1> USE DEF HookInv, R!Begin
<1>1. CASE UNCHANGED hook
  BY <1>1 DEF HookTyped, Digested, FilledOrBusy, Present, Single, Unique, Running, Decided, StateOf,
              R!HasDigest
<1>2. CASE ~UNCHANGED hook
  <2>1. PICK status \in Status \union {Untouched} :
          hook' = [hook EXCEPT ![p] = [f |-> f, status |-> status, digest |-> None, name |-> None,
                                       opened |-> FALSE, branch |-> None]]
    BY <1>2 DEF HookTyped, R!State
  <2>2. HookTyped'
    BY <2>1 DEF HookTyped, R!HookRecord
  <2>3. \A q \in Proc : q # p => hook'[q] = hook[q]
    BY <2>1 DEF HookTyped
  <2>4. hook[p] = None /\ hook'[p].digest = None /\ ~hook'[p].opened
    BY <2>1 DEF HookTyped
  <2>5. Digested'
    BY <2>3, <2>4 DEF Digested, Running, StateOf
  <2>6. FilledOrBusy' /\ Present' /\ Unique'
    BY <2>3, <2>4 DEF FilledOrBusy, Present, Unique, Running, R!HasDigest
  <2>7. Single'
    BY <2>3, <2>4 DEF Single, Running, Decided, R!HasDigest
  <2> QED
    BY <2>2, <2>5, <2>6, <2>7
<1> QED
  BY <1>1, <1>2

\* A hook looks for a receipt of what it sees: one that is there is told, else the
\* hook will write it, alone unless it overlaps another.
LEMMA HookChecks ==
    ASSUME HookInv, NEW p \in Proc, R!Check(p)
    PROVE  HookInv'
<1> USE DEF HookInv
<1> DEFINE branch == IF tree = None THEN NonGit ELSE tree.branch
           state == [status |-> hook[p].status, branch |-> branch]
           digest == R!ReceiptDigest(state, hook[p].f)
<1>1. /\ hook[p] # None /\ hook[p].digest = None /\ hook[p] \in R!HookRecord
      /\ hook[p].f \in Firing /\ hook[p].status \in Status \union {Untouched}
      /\ hook[p].opened = FALSE
  BY DEF R!Check, HookTyped, R!HookRecord, Digested, Running
<1>2. branch \in Branch \union {NonGit} /\ state \in R!State
  BY <1>1 DEF HookTyped, R!State
<1>3. digest \in R!Digest /\ digest # None
  BY <1>1, <1>2, ReceiptDigestIs
<1>4. /\ UNCHANGED <<tree, clock, receipts, killed>>
      /\ \/ /\ R!HasDigest(digest)
            /\ hook' = [hook EXCEPT ![p] = None]
            /\ hookTold' = hookTold \union {[state |-> state, f |-> hook[p].f]}
            /\ UNCHANGED hookOverlapped
         \/ /\ ~R!HasDigest(digest)
            /\ hook' = [hook EXCEPT ![p].digest = digest, ![p].name = <<clock, digest>>,
                                    ![p].branch = branch]
            /\ hookOverlapped' = hookOverlapped \union {d \in {digest} : R!Writing(d) # {}}
            /\ UNCHANGED hookTold
  BY DEF R!Check
<1>5. UNCHANGED receipts
  BY <1>4
<1> HIDE DEF digest, state, branch
<1>6. CASE R!HasDigest(digest)
  <2>1. /\ hook' = [hook EXCEPT ![p] = None] /\ UNCHANGED hookOverlapped
        /\ hookTold' = hookTold \union {[state |-> state, f |-> hook[p].f]}
    BY <1>4, <1>6
  <2>2. HookTyped'
    BY <1>1, <1>2, <1>4, <2>1 DEF HookTyped, R!Receipt
  <2>3. \A q \in Proc : hook'[q] # None => q # p /\ hook'[q] = hook[q]
    BY <2>1 DEF HookTyped
  <2>4. Digested' /\ Unique'
    BY <1>4, <2>1, <2>3 DEF Digested, Unique, Running, StateOf
  <2>5. FilledOrBusy'
    BY <1>1, <1>4, <2>1, HookTyped DEF FilledOrBusy, Running, HookTyped
  <2>6. Present'
    BY <1>1, <1>5, <1>6, <2>1 DEF Present, DigestOf, R!HasDigest, digest
  <2>7. Single'
    BY <1>5, <2>1, <2>3 DEF Single, Running, Decided, R!HasDigest
  <2> QED
    BY <2>2, <2>4, <2>5, <2>6, <2>7
<1>7. CASE ~R!HasDigest(digest)
  <2>1. /\ hook' = [hook EXCEPT ![p].digest = digest, ![p].name = <<clock, digest>>,
                                ![p].branch = branch]
        /\ hookOverlapped' = hookOverlapped \union {d \in {digest} : R!Writing(d) # {}}
        /\ UNCHANGED hookTold
    BY <1>4, <1>7
  <2>2. HookTyped'
    BY <1>1, <1>2, <1>3, <1>4, <2>1 DEF HookTyped, R!HookRecord, ReceiptName
  <2>3. \A q \in Proc : q # p => hook'[q] = hook[q]
    BY <2>1 DEF HookTyped
  <2>4. /\ hook'[p].digest = digest /\ hook'[p].name = <<clock, digest>> /\ hook'[p].branch = branch
        /\ hook'[p].status = hook[p].status /\ hook'[p].f = hook[p].f /\ ~hook'[p].opened
    BY <1>1, <2>1 DEF HookTyped, R!HookRecord
  <2>5. <<clock, digest>> # None
    BY <1>3, StoresAssumption DEF HookTyped
  <2>6. Digested'
    <3>1. StateOf(p)' = state
      BY <2>4 DEF StateOf, state
    <3>2. digest = R!ReceiptDigest(StateOf(p)', hook'[p].f) /\ StateOf(p)' \in R!State
      BY <1>2, <2>4, <3>1 DEF digest
    <3>3. hook'[p].name # None /\ hook'[p].name[2] = hook'[p].digest
      BY <2>4, <2>5
    <3> QED
      BY <2>3, <2>4, <3>2, <3>3 DEF Digested, Running, StateOf
  <2>7. FilledOrBusy'
    <3>1. UNCHANGED killed
      BY <1>4
    <3> QED
      BY <1>1, <1>5, <2>3, <3>1 DEF FilledOrBusy, Running
  <2>9. Present' /\ Unique'
    BY <1>5, <2>1 DEF Present, Unique, R!HasDigest
  <2>8. Single'
    <3>1. \A q \in Proc : Decided(q) /\ hook[q].digest = digest => digest \in hookOverlapped'
      BY <2>1 DEF Decided, Running, R!Writing
    <3> SUFFICES ASSUME NEW q \in Proc, Decided(q)', hook'[q].digest \notin hookOverlapped'
                 PROVE  /\ \A r \in Proc : Decided(r)' /\ hook'[r].digest = hook'[q].digest => r = q
                        /\ ~hook'[q].opened => ~(R!HasDigest(hook[q].digest))'
      BY DEF Single
    <3>2. \A r \in Proc : r # p => (Decided(r)' <=> Decided(r))
      BY <2>3 DEF Decided, Running
    <3>3. CASE q = p
      <4>1. \A r \in Proc : Decided(r)' /\ hook'[r].digest = digest => r = p
        BY <2>3, <2>4, <3>1, <3>2, <3>3
      <4>2. ~(R!HasDigest(hook[p].digest))'
        BY <1>5, <1>7, <2>4 DEF R!HasDigest
      <4> QED
        BY <2>4, <3>3, <4>1, <4>2
    <3>4. CASE q # p
      <4>1. Decided(q) /\ hook[q].digest \notin hookOverlapped /\ hook'[q] = hook[q]
        <5>1. hookOverlapped \subseteq hookOverlapped'
          BY <2>1
        <5> QED
          BY <2>3, <3>2, <3>4, <5>1
      <4>2. hook[q].digest # digest
        BY <3>1, <4>1, <2>1
      <4> QED
        BY <1>5, <2>3, <2>4, <3>2, <4>1, <4>2 DEF Single, R!HasDigest
    <3> QED
      BY <3>3, <3>4
  <2> QED
    BY <2>2, <2>6, <2>7, <2>8, <2>9
<1> QED
  BY <1>6, <1>7

\* A hook creates the receipt that it looked for before.
LEMMA HookOpens ==
    ASSUME HookInv, NEW p \in Proc, R!Open(p)
    PROVE  HookInv'
<1> USE DEF HookInv
<1>1. /\ hook[p] # None /\ hook[p].digest # None /\ ~hook[p].opened /\ hook[p] \in R!HookRecord
      /\ hook' = [hook EXCEPT ![p].opened = TRUE]
      /\ receipts' = [name \in DOMAIN receipts \union {hook[p].name} |->
                        IF name = hook[p].name THEN Empty ELSE receipts[name]]
      /\ UNCHANGED <<tree, clock, hookTold, killed, hookOverlapped>>
  BY DEF R!Open, HookTyped
<1>2. PICK mine \in ReceiptName : mine = hook[p].name /\ mine[2] = hook[p].digest /\ mine # None
  BY <1>1 DEF R!HookRecord, Digested, Running, ReceiptName
<1>3. HookTyped'
  BY <1>1, <1>2 DEF HookTyped, R!HookRecord
<1>4. \A q \in Proc : q # p => hook'[q] = hook[q]
  BY <1>1 DEF HookTyped
<1>5. /\ hook'[p] # None => hook'[p].opened
      /\ hook'[p].digest = hook[p].digest /\ hook'[p].name = hook[p].name
      /\ hook'[p].branch = hook[p].branch /\ hook'[p].status = hook[p].status /\ hook'[p].f = hook[p].f
  BY <1>1 DEF HookTyped, R!HookRecord
<1>6. Digested'
  BY <1>1, <1>4, <1>5 DEF Digested, Running, StateOf
<1>7. /\ DOMAIN receipts' = DOMAIN receipts \union {mine} /\ receipts'[mine] = Empty
      /\ \A name \in DOMAIN receipts : name # mine => receipts'[name] = receipts[name]
  BY <1>1, <1>2
<1>8. hook'[p] # None
  <2>1. hook'[p] = [hook[p] EXCEPT !.opened = TRUE]
    BY <1>1 DEF HookTyped
  <2>2. [hook[p] EXCEPT !.opened = TRUE] \in R!HookRecord
    BY <1>1 DEF R!HookRecord
  <2> QED
    BY <2>1, <2>2, StoresAssumption
<1>9. FilledOrBusy'
  BY <1>1, <1>2, <1>4, <1>5, <1>7, <1>8 DEF FilledOrBusy, Running
<1>10. Present'
  BY <1>1, <1>7 DEF Present, R!HasDigest
<1>11. Unique'
  BY <1>1, <1>2, <1>7 DEF Unique, Single, Decided, Running, R!HasDigest
<1>12. Single'
  <2> SUFFICES ASSUME NEW q \in Proc, Decided(q)', hook'[q].digest \notin hookOverlapped
               PROVE  /\ \A r \in Proc : Decided(r)' /\ hook'[r].digest = hook'[q].digest => r = q
                      /\ ~hook'[q].opened => ~(R!HasDigest(hook[q].digest))'
    BY <1>1 DEF Single
  <2>1. \A r \in Proc : hook'[r].digest = hook[r].digest /\ (Decided(r)' => Decided(r))
    BY <1>1, <1>4, <1>5 DEF Decided, Running
  <2>2. \A r \in Proc : Decided(r)' /\ hook'[r].digest = hook'[q].digest => r = q
    BY <2>1 DEF Single
  <2>3. ASSUME ~hook'[q].opened PROVE ~(R!HasDigest(hook[q].digest))'
    <3>1. q # p
      BY <1>5, <1>8, <2>3
    <3>2. hook'[q].digest # mine[2]
      BY <1>1, <1>2, <2>1, <3>1 DEF Single, Decided, Running
    <3>3. ~R!HasDigest(hook[q].digest)
      BY <1>4, <2>1, <2>3, <3>1 DEF Single
    <3> QED
      BY <1>7, <2>1, <3>2, <3>3 DEF R!HasDigest
  <2> QED
    BY <2>2, <2>3
<1> QED
  BY <1>3, <1>6, <1>9, <1>10, <1>11, <1>12

\* Fewer hooks write than before, nothing else of them changed.
LEMMA HookFills ==
    ASSUME HookInv, NEW p \in Proc, R!Fill(p)
    PROVE  HookInv'
<1> USE DEF HookInv
<1> DEFINE content == [state |-> StateOf(p), f |-> hook[p].f]
<1>1. /\ hook[p] # None /\ hook[p].opened /\ hook[p] \in R!HookRecord
      /\ hook' = [hook EXCEPT ![p] = None]
      /\ receipts' = [name \in DOMAIN receipts |->
                        IF name = hook[p].name THEN content ELSE receipts[name]]
      /\ hookTold' = IF hook[p].name \in DOMAIN receipts THEN hookTold \union {content} ELSE hookTold
      /\ UNCHANGED <<tree, clock, killed, hookOverlapped>>
  BY DEF R!Fill, HookTyped, StateOf
<1>2. /\ content \in R!Receipt /\ content # Empty
      /\ DigestOf(content) = hook[p].digest
      /\ hook[p].name \in DOMAIN receipts => hook[p].name[2] = hook[p].digest
  <2>1. StateOf(p) \in R!State /\ hook[p].f \in Firing
    BY <1>1 DEF Digested, Running, R!HookRecord
  <2>2. hook[p].digest = R!ReceiptDigest(StateOf(p), hook[p].f)
    BY <1>1 DEF Digested, Running
  <2>3. None \notin DOMAIN receipts
    BY StoresAssumption DEF HookTyped, ReceiptName
  <2> QED
    BY <1>1, <2>1, <2>2, <2>3, StoresAssumption DEF R!Receipt, DigestOf, Digested, Running
<1> HIDE DEF content
<1>3. HookTyped'
  BY <1>1, <1>2 DEF HookTyped
<1>4. \A q \in Proc : Running(q)' => q # p /\ hook'[q] = hook[q] /\ Running(q)
  BY <1>1 DEF HookTyped, Running
<1>5. DOMAIN receipts' = DOMAIN receipts
  BY <1>1
<1>6. Digested'
  BY <1>4 DEF Digested, StateOf
<1>7. FilledOrBusy'
  <2> SUFFICES ASSUME NEW name \in DOMAIN receipts
               PROVE  IF receipts'[name] = Empty
                      THEN \/ name[2] \in killed
                           \/ \E q \in Proc : Running(q)' /\ hook'[q].opened /\ hook'[q].name = name
                      ELSE DigestOf(receipts'[name]) = name[2]
    BY <1>1, <1>5 DEF FilledOrBusy, DigestOf
  <2>1. CASE name = hook[p].name
    BY <1>1, <1>2, <2>1
  <2>2. CASE name # hook[p].name
    <3>1. receipts'[name] = receipts[name]
      BY <1>1, <2>2
    <3>2. \A q \in Proc : q # p => hook'[q] = hook[q]
      BY <1>1 DEF HookTyped
    <3> QED
      BY <2>2, <3>1, <3>2 DEF FilledOrBusy, Running
  <2> QED
    BY <2>1, <2>2
<1>8. Present' /\ Unique'
  BY <1>1, <1>2, <1>5 DEF Present, Unique, R!HasDigest, DigestOf
<1>9. Single'
  BY <1>1, <1>4, <1>5 DEF Single, Decided, R!HasDigest
<1> QED
  BY <1>3, <1>6, <1>7, <1>8, <1>9

\* A hook that is killed leaves its receipt empty, and its digest counts as killed.
LEMMA HookKilled ==
    ASSUME HookInv, NEW p \in Proc, R!Kill(p)
    PROVE  HookInv'
<1> USE DEF HookInv
<1>1. /\ hook[p] # None /\ hook' = [hook EXCEPT ![p] = None]
      /\ killed' = killed \union IF hook[p].opened THEN {hook[p].digest} ELSE {}
      /\ UNCHANGED <<tree, clock, receipts, hookTold, hookOverlapped>>
  BY DEF R!Kill
<1>2. \A q \in Proc : Running(q)' => q # p /\ hook'[q] = hook[q] /\ Running(q)
  BY <1>1 DEF HookTyped, Running
<1>3. HookTyped'
  BY <1>1 DEF HookTyped
<1>4. Digested'
  BY <1>2 DEF Digested, StateOf
<1>5. FilledOrBusy'
  <2>1. \A q \in Proc : q # p => hook'[q] = hook[q]
    BY <1>1 DEF HookTyped
  <2>2. \A name \in DOMAIN receipts : name # None
    BY StoresAssumption DEF HookTyped, ReceiptName
  <2>3. killed \subseteq killed' /\ (hook[p].opened => hook[p].digest \in killed')
    BY <1>1
  <2>4. \A name \in DOMAIN receipts : hook[p].opened /\ hook[p].name = name => name[2] \in killed'
    BY <1>1, <2>2, <2>3 DEF Digested, Running
  <2> QED
    BY <1>1, <2>1, <2>3, <2>4 DEF FilledOrBusy, Running, DigestOf
<1>6. Present' /\ Unique'
  BY <1>1 DEF Present, Unique, R!HasDigest, DigestOf
<1>7. Single'
  BY <1>1, <1>2 DEF Single, Decided, R!HasDigest
<1> QED
  BY <1>3, <1>4, <1>5, <1>6, <1>7

\* drain takes a receipt out of the inbox: what it told is not looked for any more.
LEMMA HookDrained ==
    ASSUME HookInv, NEW gone \in R!PendingFiles, R!Drain(gone)
    PROVE  HookInv'
<1> USE DEF HookInv
<1>1. /\ gone \in DOMAIN receipts
      /\ receipts' = [n \in DOMAIN receipts \ {gone} |-> receipts[n]]
      /\ hookTold' = {t \in hookTold : R!ReceiptDigest(t.state, t.f) # gone[2]}
      /\ hook' = [p \in Proc |-> IF hook[p] # None /\ hook[p].opened /\ hook[p].name = gone
                                 THEN [hook[p] EXCEPT !.name = None] ELSE hook[p]]
      /\ UNCHANGED <<tree, clock, killed, hookOverlapped>>
  BY DEF R!Drain, R!PendingFiles
<1>2. ASSUME NEW p \in Proc
      PROVE  /\ hook'[p] \in R!HookRecord \union {None}
             /\ Running(p)' <=> Running(p)
             /\ Running(p) => /\ hook'[p].f = hook[p].f /\ hook'[p].status = hook[p].status
                              /\ hook'[p].branch = hook[p].branch /\ hook'[p].digest = hook[p].digest
                              /\ hook'[p].opened = hook[p].opened
                              /\ hook'[p].name = hook[p].name \/ (hook[p].opened /\ hook'[p].name = None)
                              /\ hook[p].name # gone => hook'[p].name = hook[p].name
  <2>1. CASE hook[p] # None /\ hook[p].opened /\ hook[p].name = gone
    <3>1. hook'[p] = [hook[p] EXCEPT !.name = None] /\ hook[p] \in R!HookRecord
      BY <1>1, <2>1 DEF HookTyped
    <3>2. hook'[p] \in R!HookRecord
      BY <3>1 DEF R!HookRecord
    <3>3. hook'[p] # None
      BY <3>2, StoresAssumption
    <3> QED
      BY <2>1, <3>1, <3>2, <3>3 DEF Running, R!HookRecord
  <2>2. CASE ~(hook[p] # None /\ hook[p].opened /\ hook[p].name = gone)
    BY <1>1, <2>2 DEF Running, HookTyped
  <2> QED
    BY <2>1, <2>2
<1>3. /\ DOMAIN receipts' = DOMAIN receipts \ {gone}
      /\ \A n \in DOMAIN receipts' : receipts'[n] = receipts[n]
  BY <1>1
<1>4. HookTyped'
  <2>1. hook' \in [Proc -> R!HookRecord \union {None}]
    BY <1>1, <1>2
  <2> QED
    BY <1>1, <1>3, <2>1 DEF HookTyped
<1>5. Digested'
  BY <1>2 DEF Digested, StateOf
<1>6. FilledOrBusy'
  <2> SUFFICES ASSUME NEW name \in DOMAIN receipts'
               PROVE  IF receipts'[name] = Empty
                      THEN \/ name[2] \in killed
                           \/ \E q \in Proc : Running(q)' /\ hook'[q].opened /\ hook'[q].name = name
                      ELSE DigestOf(receipts'[name]) = name[2]
    BY <1>1 DEF FilledOrBusy, DigestOf
  <2>1. receipts'[name] = receipts[name] /\ name \in DOMAIN receipts /\ name # gone
    BY <1>3
  <2>2. CASE receipts[name] # Empty \/ name[2] \in killed
    BY <2>1, <2>2 DEF FilledOrBusy
  <2>3. CASE receipts[name] = Empty /\ name[2] \notin killed
    <3>1. PICK q \in Proc : Running(q) /\ hook[q].opened /\ hook[q].name = name
      BY <2>1, <2>3 DEF FilledOrBusy
    <3>2. Running(q)' /\ hook'[q].opened /\ hook'[q].name = name
      BY <1>2, <2>1, <3>1
    <3> QED
      BY <2>1, <2>3, <3>2
  <2> QED
    BY <2>2, <2>3
<1>7. Present' /\ Unique'
  BY <1>1, <1>3 DEF Present, Unique, R!HasDigest, DigestOf
<1>8. Single'
  <2>1. \A q \in Proc : Decided(q)' =>
           Decided(q) /\ hook'[q].digest = hook[q].digest /\ hook'[q].opened = hook[q].opened
    BY <1>2 DEF Decided
  <2>2. \A d : (\E n \in DOMAIN receipts' : n[2] = d) => R!HasDigest(d)
    BY <1>3 DEF R!HasDigest
  <2> SUFFICES ASSUME NEW q \in Proc, Decided(q)', hook'[q].digest \notin hookOverlapped
               PROVE  /\ \A r \in Proc : Decided(r)' /\ hook'[r].digest = hook'[q].digest => r = q
                      /\ ~hook'[q].opened => ~\E n \in DOMAIN receipts' : n[2] = hook'[q].digest
    BY <1>1 DEF Single, R!HasDigest
  <2> QED
    BY <2>1, <2>2 DEF Single
<1> QED
  BY <1>4, <1>5, <1>6, <1>7, <1>8

\* Time, the working tree and the other components disturb no receipt.
LEMMA HookStill ==
    ASSUME HookInv, UNCHANGED <<receipts, hook, hookTold, killed, hookOverlapped>>,
           tree' \in R!State \union {None}, clock' \in Nat
    PROVE  HookInv'
  BY DEF HookInv, HookTyped, Digested, FilledOrBusy, Present, Single, Unique, Running, Decided, StateOf,
         DigestOf, R!HasDigest

\* Every step of hook_run_inner keeps the invariant.
LEMMA HookStep ==
    ASSUME HookInv, R!Next PROVE HookInv'
<1>1. ASSUME R!Change PROVE HookInv'
  BY <1>1, HookStill DEF R!Change, R!State, HookInv, HookTyped
<1>2. ASSUME R!Tick PROVE HookInv'
  BY <1>2, HookStill DEF R!Tick, HookInv, HookTyped
<1> QED
  BY <1>1, <1>2, HookBegins, HookChecks, HookOpens, HookFills, HookKilled, HookDrained DEF R!Next

\* hook_run_inner (cli hook.rs), for any number of hooks that overlap and are killed:
\* what a hook took for recorded has a full receipt of the same state, event and
\* session, and hooks that do not overlap record it once.
THEOREM ReceiptsSurvive == StoreSpec => []ReceiptsKept
<1> DEFINE Inv == part = "hook" => HookInv
<1>1. StoreInit => Inv
  BY HookInit DEF StoreInit, StoreStates
<1>2. Inv /\ [StoreNext]_storeVars => Inv'
  <2> SUFFICES ASSUME Inv, [StoreNext]_storeVars, part' = "hook" PROVE HookInv'
    OBVIOUS
  <2>1. part = "hook" /\ (R!Next \/ UNCHANGED hookRunVars)
    BY DEF StoreNext, storeVars
  <2>2. UNCHANGED hookRunVars => HookInv'
    BY <2>1, HookStill DEF hookRunVars, HookInv, HookTyped
  <2> QED
    BY <2>1, <2>2, HookStep
<1>3. Inv => ReceiptsKept
  BY HookReceipts DEF ReceiptsKept
<1> QED
  BY <1>1, <1>2, <1>3, PTL DEF StoreSpec

-----------------------------------------------------------------------------
(***************************************************************************)
(* Derived: what the steps of a rebuild and of the doctor have done so far. *)
(***************************************************************************)

DerivedTyped ==
    /\ builder \in {"idle", "remove_fts", "read", "commit_redb", "create_fts", "commit_fts"}
    /\ doctor \in {"idle", "journal", "quarantine", "index", "refs", "cursor"}
    /\ verdict \in Seq(BOOLEAN)
    /\ fresh \in BOOLEAN /\ steady \in BOOLEAN /\ crashes \in Nat

\* What the steps of a rebuild have removed and written by now.
Rebuilding ==
    /\ builder \in {"remove_fts", "read", "commit_redb"} => redb = None
    /\ builder \in {"read", "commit_redb", "create_fts"} => fts = Empty
    /\ builder \in {"create_fts", "commit_fts"} =>
          redb = [events |-> entries, nodes |-> D!Nodes(entries)]

\* The two files never show different journals, nor does redb by itself, but a build
\* that died, or did not commit yet, leaves the full text index without a document.
Agreeing ==
    redb # None =>
        /\ redb.nodes = D!Nodes(redb.events)
        /\ fts \notin {None, Empty} =>
              \/ fts = redb.nodes
              \/ fts = D!Created /\ (builder = "commit_fts" \/ crashes > 0)

Uptodate ==
    fresh => \/ builder \in {"commit_redb", "create_fts", "commit_fts"} /\ entries = journal
             \/ builder = "idle" /\ redb.events = journal /\ fts = redb.nodes

\* The doctor's results so far, while nothing changes.
Examined ==
    /\ doctor = "journal" => Len(verdict) = 0
    /\ doctor = "quarantine" => Len(verdict) = 1
    /\ doctor = "index" => Len(verdict) = 2
    /\ doctor = "refs" => Len(verdict) = 3
    /\ doctor = "cursor" => Len(verdict) = 4
    /\ steady =>
        /\ builder = "idle"
        /\ Len(verdict) >= 1 => (verdict[1] <=> D!JournalValid)
        /\ Len(verdict) >= 3 => (verdict[3] <=> D!IndexOk(verdict[1]))
        /\ Len(verdict) >= 4 => (verdict[4] <=> D!RefsResolve)

DerivedInv == DerivedTyped /\ Rebuilding /\ Agreeing /\ Uptodate /\ Examined

\* The index of an empty journal.
LEMMA DerivedInit == D!Init => DerivedInv
<1> SUFFICES ASSUME D!Init PROVE DerivedInv
  OBVIOUS
<1>1. verdict = << >> /\ verdict \in Seq(BOOLEAN) /\ Len(verdict) = 0
  BY DEF D!Init
<1> QED
  BY <1>1 DEF D!Init, DerivedInv, DerivedTyped, Rebuilding, Agreeing, Uptodate, Examined

\* What the doctor examined while nothing changed is so.
LEMMA DerivedTells == DerivedInv => D!IndexIsTrue
<1> SUFFICES ASSUME DerivedInv PROVE D!IndexIsTrue
  OBVIOUS
<1> USE DEF DerivedInv, DerivedTyped
<1>1. D!RebuildShowsJournal
  BY DEF D!RebuildShowsJournal, D!Built, Agreeing, Uptodate
<1>2. D!CleanBillIsTrue
  <2> SUFFICES ASSUME Len(verdict) = 5, steady, D!ExitCode(verdict) = 0
               PROVE  /\ D!JournalValid /\ D!RefsResolve
                      /\ redb # None =>
                            /\ redb.nodes = D!Nodes(journal)
                            /\ fts = D!Nodes(journal) \/ (fts = D!Created /\ crashes > 0)
    BY DEF D!CleanBillIsTrue, D!Diagnosed
  <2>1. verdict[1] /\ verdict[3] /\ verdict[4]
    BY DEF D!ExitCode
  <2>2. D!JournalValid /\ D!RefsResolve /\ D!IndexOk(verdict[1])
    <3>1. /\ verdict[1] <=> D!JournalValid
          /\ verdict[3] <=> D!IndexOk(verdict[1])
          /\ verdict[4] <=> D!RefsResolve
      BY DEF Examined
    <3> QED
      BY <2>1, <3>1, Zenon
  <2>3. redb # None => fts \notin {None, Empty} /\ redb.events = journal
    BY <2>2 DEF D!IndexOk, D!RedbMatches
  <2>4. builder = "idle"
    BY DEF Examined
  <2> QED
    BY <2>2, <2>3, <2>4 DEF Agreeing
<1> QED
  BY <1>1, <1>2 DEF D!IndexIsTrue

\* A change of the journal or of the index ends what was true of them.
LEMMA DerivedChanges ==
    ASSUME DerivedInv, D!Write \/ D!Damage \/ D!StartRebuild \/ D!RemoveFts \/ D!ReadJournal
                       \/ D!CommitRedb \/ D!CreateFts \/ D!CommitFts \/ D!BuildDies
    PROVE  DerivedInv'
<1> USE DEF DerivedInv, D!doctorVars, D!buildVars
<1>1. /\ UNCHANGED <<doctor, verdict>> /\ steady' = FALSE
  BY DEF D!Write, D!Damage, D!StartRebuild, D!RemoveFts, D!ReadJournal, D!CommitRedb, D!CreateFts,
         D!CommitFts, D!BuildDies, D!BuildStep
<1>2. Examined'
  BY <1>1 DEF Examined
<1>3. DerivedTyped'
  <2>1. crashes' \in Nat
    <3>1. crashes' = crashes \/ crashes' = crashes + 1
      BY DEF D!Write, D!Damage, D!StartRebuild, D!RemoveFts, D!ReadJournal, D!CommitRedb,
             D!CreateFts, D!CommitFts, D!BuildDies
    <3>2. crashes \in Nat
      BY DEF DerivedTyped
    <3> QED
      BY <3>1, <3>2
  <2>2. CASE D!Write \/ D!Damage \/ D!BuildDies
    <3>1. /\ fresh' = FALSE /\ (UNCHANGED builder \/ builder' = "idle")
      BY <2>2 DEF D!Write, D!Damage, D!BuildDies
    <3> QED
      BY <1>1, <2>1, <3>1 DEF DerivedTyped
  <2>3. CASE D!StartRebuild \/ D!RemoveFts \/ D!ReadJournal
    BY <1>1, <2>1, <2>3 DEF DerivedTyped, D!StartRebuild, D!RemoveFts, D!ReadJournal, D!BuildStep
  <2>4. CASE D!CommitRedb \/ D!CreateFts \/ D!CommitFts
    BY <1>1, <2>1, <2>4 DEF DerivedTyped, D!CommitRedb, D!CreateFts, D!CommitFts, D!BuildStep
  <2> QED
    BY <2>2, <2>3, <2>4
<1>4. Rebuilding' /\ Agreeing' /\ Uptodate'
  <2> USE DEF DerivedTyped, Rebuilding, Agreeing, Uptodate
  <2>1. CASE D!Write
    BY <2>1 DEF D!Write
  <2>2. CASE D!Damage
    BY <2>2 DEF D!Damage
  <2>3. CASE D!StartRebuild
    BY <2>3 DEF D!StartRebuild, D!BuildStep, D!RedbRemoved
  <2>4. CASE D!RemoveFts
    BY <2>4 DEF D!RemoveFts, D!BuildStep
  <2>5. CASE D!ReadJournal
    BY <2>5 DEF D!ReadJournal, D!BuildStep
  <2>6. CASE D!CommitRedb
    BY <2>6 DEF D!CommitRedb, D!BuildStep
  <2>7. CASE D!CommitFts
    BY <2>7 DEF D!CommitFts, D!BuildStep, D!FtsTexts
  <2>8. CASE D!BuildDies
    BY <2>8 DEF D!BuildDies
  <2>9. CASE D!CreateFts
    BY <2>9 DEF D!CreateFts, D!BuildStep
  <2> QED
    BY <2>1, <2>2, <2>3, <2>4, <2>5, <2>6, <2>7, <2>8, <2>9
<1> QED
  BY <1>2, <1>3, <1>4

\* A check of the doctor leaves the journal and the index alone, and adds its
\* result to those of the checks before.
LEMMA DerivedExamines ==
    ASSUME DerivedInv,
           D!StartDoctor \/ D!CheckJournal \/ D!CheckQuarantine \/ D!CheckIndex \/ D!CheckRefs
           \/ D!CheckCursor
    PROVE  DerivedInv'
<1> USE DEF DerivedInv, D!buildVars
<1>1. UNCHANGED <<journal, damaged, quarantine, redb, fts, tapCursor, builder, entries, fresh,
                  crashes>>
  BY DEF D!StartDoctor, D!CheckJournal, D!CheckQuarantine, D!CheckIndex, D!CheckRefs, D!CheckCursor,
         D!Examines
<1>2. Rebuilding' /\ Agreeing' /\ Uptodate'
  BY <1>1 DEF Rebuilding, Agreeing, Uptodate
<1>3. /\ D!JournalValid' = D!JournalValid /\ D!RefsResolve' = D!RefsResolve
      /\ \A v : D!IndexOk(v)' = D!IndexOk(v)
  BY <1>1 DEF D!JournalValid, D!RefsResolve, D!IndexOk, D!RedbMatches
<1>4. CASE D!StartDoctor
  <2>1. verdict' = << >> /\ verdict' \in Seq(BOOLEAN) /\ Len(verdict') = 0 /\ doctor' = "journal"
    BY <1>4 DEF D!StartDoctor
  <2>2. steady' = (builder = "idle")
    BY <1>4 DEF D!StartDoctor
  <2>3. DerivedTyped'
    BY <1>1, <2>1, <2>2 DEF DerivedTyped
  <2>4. Examined'
    <3>1. steady' => builder' = "idle"
      BY <1>1, <2>2
    <3> QED
      BY <2>1, <3>1 DEF Examined
  <2> QED
    BY <1>2, <2>3, <2>4
<1>5. ASSUME NEW k \in 0 .. 4, NEW result \in BOOLEAN, Len(verdict) = k,
             verdict' = Append(verdict, result), UNCHANGED steady,
             doctor' = IF k = 0 THEN "quarantine" ELSE IF k = 1 THEN "index"
                       ELSE IF k = 2 THEN "refs" ELSE IF k = 3 THEN "cursor" ELSE "idle",
             k = 0 => (result <=> D!JournalValid),
             k = 2 => (result <=> D!IndexOk(verdict[1])),
             k = 3 => (result <=> D!RefsResolve)
      PROVE  DerivedInv'
  <2>1. /\ verdict' \in Seq(BOOLEAN) /\ Len(verdict') = k + 1 /\ verdict'[k + 1] = result
        /\ \A i \in 1 .. k : verdict'[i] = verdict[i]
    BY <1>5 DEF DerivedTyped
  <2>2. DerivedTyped'
    BY <1>1, <1>5, <2>1 DEF DerivedTyped
  <2>3. Examined'
    <3>1. /\ doctor' = "journal" => Len(verdict') = 0
          /\ doctor' = "quarantine" => Len(verdict') = 1
          /\ doctor' = "index" => Len(verdict') = 2
          /\ doctor' = "refs" => Len(verdict') = 3
          /\ doctor' = "cursor" => Len(verdict') = 4
      BY <1>5, <2>1
    <3> SUFFICES ASSUME steady
                 PROVE  /\ builder = "idle"
                        /\ verdict'[1] <=> D!JournalValid
                        /\ k >= 2 => (verdict'[3] <=> D!IndexOk(verdict'[1]))
                        /\ k >= 3 => (verdict'[4] <=> D!RefsResolve)
      BY <1>1, <1>3, <1>5, <2>1, <3>1 DEF Examined
    <3>2. builder = "idle"
      BY DEF Examined
    <3>3. verdict'[1] <=> D!JournalValid
      BY <1>5, <2>1 DEF Examined
    <3>4. k >= 2 => verdict'[1] = verdict[1]
      BY <2>1
    <3>5. k >= 2 => (verdict'[3] <=> D!IndexOk(verdict'[1]))
      BY <1>5, <2>1, <3>4 DEF Examined
    <3>6. k >= 3 => (verdict'[4] <=> D!RefsResolve)
      BY <1>5, <2>1 DEF Examined
    <3> QED
      BY <3>2, <3>3, <3>5, <3>6
  <2> QED
    BY <1>2, <2>2, <2>3
<1>6. CASE D!CheckJournal
  <2>1. Len(verdict) = 0 /\ D!JournalValid \in BOOLEAN
    BY <1>6 DEF D!CheckJournal, D!Examines, Examined, D!JournalValid, DerivedTyped
  <2> QED
    BY <1>5, <1>6, <2>1 DEF D!CheckJournal, D!Examines
<1>7. CASE D!CheckQuarantine
  <2>1. Len(verdict) = 1 /\ D!QuarantineEmpty \in BOOLEAN
    BY <1>7 DEF D!CheckQuarantine, D!Examines, Examined, D!QuarantineEmpty, DerivedTyped
  <2> QED
    BY <1>5, <1>7, <2>1 DEF D!CheckQuarantine, D!Examines
<1>8. CASE D!CheckIndex
  <2>1. Len(verdict) = 2 /\ verdict[1] \in BOOLEAN
    BY <1>8 DEF D!CheckIndex, D!Examines, Examined, DerivedTyped
  <2>2. D!IndexOk(verdict[1]) \in BOOLEAN
    BY <2>1 DEF D!IndexOk
  <2> QED
    BY <1>5, <1>8, <2>1, <2>2 DEF D!CheckIndex, D!Examines
<1>9. CASE D!CheckRefs
  <2>1. Len(verdict) = 3 /\ D!RefsResolve \in BOOLEAN
    BY <1>9 DEF D!CheckRefs, D!Examines, Examined, D!RefsResolve
  <2> QED
    BY <1>5, <1>9, <2>1 DEF D!CheckRefs, D!Examines
<1>10. CASE D!CheckCursor
  <2>1. Len(verdict) = 4 /\ D!CursorOk \in BOOLEAN
    BY <1>10 DEF D!CheckCursor, D!Examines, Examined, D!CursorOk
  <2> QED
    BY <1>5, <1>10, <2>1 DEF D!CheckCursor, D!Examines
<1> QED
  BY <1>4, <1>6, <1>7, <1>8, <1>9, <1>10

\* A step of another component leaves journal and index as they are.
LEMMA DerivedStill ==
    ASSUME DerivedInv, UNCHANGED <<derivedVars, crashes>> PROVE DerivedInv'
  BY DEF derivedVars, DerivedInv, DerivedTyped, Rebuilding, Agreeing, Uptodate, Examined,
         D!JournalValid, D!RefsResolve, D!IndexOk, D!RedbMatches

\* rebuild (index.rs) and doctor, for any journal and any change of it: after a rebuild
\* that was not disturbed both files show the journal, and exit code 0 of a doctor
\* that was not disturbed means that journal, edges and index.redb agree, and so does
\* fts/ unless a build died between its creation and its commit.
THEOREM IndexTells == StoreSpec => []IndexIsTrue
<1> DEFINE Inv == part = "derived" => DerivedInv
<1>1. StoreInit => Inv
  BY DerivedInit DEF StoreInit, StoreStates
<1>2. Inv /\ [StoreNext]_storeVars => Inv'
  <2> SUFFICES ASSUME Inv, [StoreNext]_storeVars, part' = "derived" PROVE DerivedInv'
    OBVIOUS
  <2>1. part = "derived" /\ (D!Next \/ UNCHANGED <<derivedVars, crashes>>)
    BY DEF StoreNext, storeVars
  <2> QED
    BY <2>1, DerivedChanges, DerivedExamines, DerivedStill DEF D!Next
<1>3. Inv => IndexIsTrue
  BY DerivedTells DEF IndexIsTrue
<1> QED
  BY <1>1, <1>2, <1>3, PTL DEF StoreSpec

-----------------------------------------------------------------------------
(***************************************************************************)
(* Checkpoint: commands of one project that do not overlap append whole    *)
(* lines, each of which continues the file that it was composed for.       *)
(***************************************************************************)

Field == {"objective", "work"}

CheckpointTyped ==
    /\ lines \in [Project -> Seq(C!Record \union {NewLine})]
    /\ checkpointAt \in [Proc -> {"idle", "text", "newline"}]
    /\ dir \in [Proc -> Project]
    /\ \A p \in Proc : checkpointAt[p] = "text" => record[p] \in C!Record
    /\ DOMAIN record = Proc

\* Commands of one project do not overlap.
OneAtATime ==
    \A p, q \in Proc :
        checkpointAt[p] # "idle" /\ checkpointAt[q] # "idle" /\ dir[p] = dir[q] => p = q

\* Every line is whole, the last one as soon as its command is done.
LinesWhole ==
    \A d \in Project :
        /\ C!Readable(lines[d])
        /\ \/ lines[d] = << >> \/ lines[d][Len(lines[d])] = NewLine
           \/ \E p \in Proc : checkpointAt[p] = "newline" /\ dir[p] = d

LastOf(f, s) == {k \in C!HistoryOf(f, s) : \A i \in C!HistoryOf(f, s) : i <= k}

\* What a command is about to append continues the file as it is.
Continues ==
    \A p \in Proc : checkpointAt[p] = "text" =>
        \A k \in LastOf(lines[dir[p]], record[p].session) :
            \A f \in Field \ record[p].said : record[p][f] = lines[dir[p]][k][f]

Inherits(f) ==
    \A s \in Conversation : \A j, k \in C!HistoryOf(f, s) :
        k < j /\ (\A i \in C!HistoryOf(f, s) : i <= k \/ j <= i) =>
            \A x \in Field \ f[j].said : f[j][x] = f[k][x]

CheckpointInv ==
    /\ CheckpointTyped
    /\ overlapped \/ torn \/ /\ OneAtATime /\ LinesWhole /\ Continues
                             /\ \A d \in Project : Inherits(lines[d])

\* No project has a checkpoint yet.
LEMMA CheckpointInit == C!Init => CheckpointInv
<1> SUFFICES ASSUME C!Init PROVE CheckpointInv
  OBVIOUS
<1> USE DEF C!Init
<1>1. \A d \in Project : lines[d] = << >> /\ DOMAIN lines[d] = {} /\ Len(lines[d]) = 0
  OBVIOUS
<1>2. CheckpointTyped
  BY StoresAssumption DEF CheckpointTyped
<1>3. OneAtATime /\ LinesWhole /\ Continues
  BY <1>1 DEF OneAtATime, LinesWhole, Continues, C!Readable
<1>4. \A d \in Project : Inherits(lines[d])
  BY <1>1 DEF Inherits, C!HistoryOf
<1> QED
  BY <1>2, <1>3, <1>4 DEF CheckpointInv

\* The property follows from what each file of a project passes on.
LEMMA CheckpointInherits == CheckpointInv => C!ProgressInherited
  BY DEF CheckpointInv, Inherits, Field, C!ProgressInherited

\* What a command composes continues a file that it can read.
LEMMA ComposedContinues ==
    ASSUME NEW f \in Seq(C!Record \union {NewLine}), C!Readable(f), NEW s \in Conversation,
           NEW objective, NEW work,
           NEW new, new = C!Compose(s, objective, work, C!Latest(f, s)),
           NEW k \in LastOf(f, s)
    PROVE  /\ "objective" \notin new.said => new.objective = f[k].objective
           /\ "work" \notin new.said => new.work = f[k].work
<1> DEFINE latest == C!Latest(f, s)
<1>1. /\ new.said = {y \in Field : (IF y = "work" THEN work ELSE objective) # Unsaid}
      /\ new.objective = C!Inherited(objective, latest, "objective")
      /\ new.work = C!Inherited(work, latest, "work")
  BY DEF C!Compose, Field
<1>2. latest = {f[k]}
  <2>1. \A j \in C!HistoryOf(f, s) : j \in Nat
    BY DEF C!HistoryOf
  <2>2. {j \in C!HistoryOf(f, s) : C!Readable(f) /\ \A i \in C!HistoryOf(f, s) : i <= j} = {k}
    BY <2>1 DEF LastOf
  <2> QED
    BY <2>2 DEF C!Latest
<1>3. latest # {} /\ (CHOOSE r \in latest : TRUE) = f[k]
  BY <1>2
<1> HIDE DEF latest
<1>4. "work" \notin new.said => new.work = f[k].work
  BY <1>1, <1>3 DEF C!Inherited, Field
<1>5. "objective" \notin new.said => new.objective = f[k].objective
  BY <1>1, <1>3 DEF C!Inherited, Field
<1> QED
  BY <1>4, <1>5

\* A whole file stays whole when a line follows a line, and passes on what it
\* inherits.
LEMMA TextAppended ==
    ASSUME NEW f \in Seq(C!Record \union {NewLine}), C!Readable(f), Inherits(f),
           f = << >> \/ f[Len(f)] = NewLine,
           NEW new \in C!Record,
           \A k \in LastOf(f, new.session) : \A x \in Field \ new.said : new[x] = f[k][x]
    PROVE  C!Readable(Append(f, new)) /\ Inherits(Append(f, new))
<1> DEFINE g == Append(f, new)
<1>1. /\ g \in Seq(C!Record \union {NewLine}) /\ Len(g) = Len(f) + 1 /\ g[Len(f) + 1] = new
      /\ Len(f) \in Nat /\ DOMAIN f = 1 .. Len(f) /\ DOMAIN g = 1 .. Len(f) + 1
      /\ \A j \in 1 .. Len(f) : g[j] = f[j]
  OBVIOUS
<1> HIDE DEF g
<1>2. C!Readable(g)
  BY <1>1 DEF C!Readable
<1>3. \A s : /\ C!HistoryOf(f, s) = C!HistoryOf(g, s) \ {Len(f) + 1}
             /\ Len(f) + 1 \in C!HistoryOf(g, s) => s = new.session
  BY <1>1 DEF C!HistoryOf
<1>4. Inherits(g)
  <2> SUFFICES ASSUME NEW s \in Conversation, NEW j \in C!HistoryOf(g, s), NEW k \in C!HistoryOf(g, s),
                      k < j, \A i \in C!HistoryOf(g, s) : i <= k \/ j <= i,
                      NEW x \in Field \ g[j].said
               PROVE  g[j][x] = g[k][x]
    BY DEF Inherits
  <2>1. j \in 1 .. Len(f) + 1 /\ k \in 1 .. Len(f)
    BY <1>1 DEF C!HistoryOf
  <2>2. k \in C!HistoryOf(f, s) /\ g[k] = f[k]
    BY <1>1, <1>3, <2>1
  <2>3. CASE j = Len(f) + 1
    <3>1. s = new.session /\ g[j] = new
      BY <1>1, <1>3, <2>3
    <3>2. \A i \in C!HistoryOf(f, s) : i <= k
      BY <1>1, <1>3, <2>3 DEF C!HistoryOf
    <3>3. k \in LastOf(f, new.session)
      BY <2>2, <3>1, <3>2 DEF LastOf
    <3> QED
      BY <2>2, <3>1, <3>3
  <2>4. CASE j # Len(f) + 1
    <3>1. j \in C!HistoryOf(f, s) /\ g[j] = f[j]
      BY <1>1, <1>3, <2>1, <2>4
    <3>2. \A i \in C!HistoryOf(f, s) : i <= k \/ j <= i
      BY <1>3
    <3> QED
      BY <2>2, <3>1, <3>2 DEF Inherits
  <2> QED
    BY <2>3, <2>4
<1> QED
  BY <1>2, <1>4 DEF g

\* The end of a line leaves the file whole.
LEMMA NewLineAppended ==
    ASSUME NEW f \in Seq(C!Record \union {NewLine}), C!Readable(f), Inherits(f)
    PROVE  /\ C!Readable(Append(f, NewLine)) /\ Inherits(Append(f, NewLine))
           /\ Append(f, NewLine)[Len(Append(f, NewLine))] = NewLine
<1> DEFINE g == Append(f, NewLine)
<1>1. /\ g \in Seq(C!Record \union {NewLine}) /\ Len(g) = Len(f) + 1 /\ g[Len(f) + 1] = NewLine
      /\ Len(f) \in Nat /\ DOMAIN f = 1 .. Len(f) /\ DOMAIN g = 1 .. Len(f) + 1
      /\ \A j \in 1 .. Len(f) : g[j] = f[j]
  OBVIOUS
<1> HIDE DEF g
<1>2. C!Readable(g)
  BY <1>1 DEF C!Readable
<1>3. \A s : C!HistoryOf(g, s) = C!HistoryOf(f, s)
  BY <1>1 DEF C!HistoryOf
<1>4. \A s : \A j \in C!HistoryOf(f, s) : g[j] = f[j]
  BY <1>1 DEF C!HistoryOf
<1>5. Inherits(g)
  BY <1>3, <1>4 DEF Inherits
<1> QED
  BY <1>1, <1>2, <1>5 DEF g

\* A refused command, or a step of another component, changes no checkpoint.
LEMMA CheckpointStill ==
    ASSUME CheckpointInv, UNCHANGED <<lines, checkpointAt, record, dir, overlapped, torn>>
    PROVE  CheckpointInv'
  BY DEF CheckpointInv, CheckpointTyped, OneAtATime, LinesWhole, Continues

\* A command that is about to append a record which continues the file.
LEMMA CheckpointSubmits ==
    ASSUME CheckpointInv, NEW p \in Proc, NEW d \in Project,
           NEW new, new.objective # Unsaid => new \in C!Record,
           OneAtATime /\ LinesWhole =>
               \A k \in LastOf(lines[d], new.session) :
                   \A x \in Field \ new.said : new[x] = lines[d][k][x],
           C!Submit(p, d, new)
    PROVE  CheckpointInv'
<1> USE DEF CheckpointInv
<1>1. CASE new.objective = Unsaid
  <2>1. UNCHANGED <<lines, checkpointAt, record, dir, overlapped, torn>>
    BY <1>1 DEF C!Submit
  <2> QED
    BY <2>1, CheckpointStill
<1>2. CASE new.objective # Unsaid
  <2>1. /\ checkpointAt[p] = "idle" /\ checkpointAt' = [checkpointAt EXCEPT ![p] = "text"]
        /\ dir' = [dir EXCEPT ![p] = d] /\ record' = [record EXCEPT ![p] = new]
        /\ overlapped' = (overlapped \/ C!Working(d) # {})
        /\ UNCHANGED <<lines, torn>>
    BY <1>2 DEF C!Submit, C!Goto
  <2>3. new \in C!Record
    BY <1>2
  <2>4. CheckpointTyped'
    BY <2>1, <2>3 DEF CheckpointTyped
  <2>5. ASSUME ~overlapped', ~torn'
        PROVE  OneAtATime' /\ LinesWhole' /\ Continues' /\ \A e \in Project : Inherits(lines[e])'
    <3>1. ~overlapped /\ ~torn /\ C!Working(d) = {}
      BY <2>1, <2>5
    <3>2. OneAtATime /\ LinesWhole /\ Continues /\ \A e \in Project : Inherits(lines[e])
      BY <3>1
    <3>3. \A q \in Proc : q # p => /\ checkpointAt'[q] = checkpointAt[q] /\ dir'[q] = dir[q]
                                   /\ record'[q] = record[q]
      BY <2>1 DEF CheckpointTyped
    <3>4. checkpointAt'[p] = "text" /\ dir'[p] = d /\ record'[p] = new
      BY <2>1 DEF CheckpointTyped
    <3>5. \A q \in Proc : checkpointAt[q] # "idle" => dir[q] # d
      BY <3>1 DEF C!Working, CheckpointTyped
    <3>6. OneAtATime'
      BY <3>2, <3>3, <3>4, <3>5 DEF OneAtATime
    <3>7. LinesWhole'
      BY <2>1, <3>2, <3>3 DEF LinesWhole
    <3>8. Continues'
      <4>1. \A k \in LastOf(lines[d], new.session) :
               \A x \in Field \ new.said : new[x] = lines[d][k][x]
        BY <3>2
      <4> SUFFICES ASSUME NEW q \in Proc, checkpointAt'[q] = "text",
                          NEW k \in LastOf(lines[dir'[q]], record'[q].session),
                          NEW x \in Field \ record'[q].said
                   PROVE  record'[q][x] = lines[dir'[q]][k][x]
        BY <2>1 DEF Continues
      <4>2. CASE q = p
        BY <3>4, <4>1, <4>2
      <4>3. CASE q # p
        BY <3>2, <3>3, <4>3 DEF Continues
      <4> QED
        BY <4>2, <4>3
    <3>9. \A e \in Project : Inherits(lines[e])'
      BY <2>1, <3>2 DEF Inherits
    <3> QED
      BY <3>6, <3>7, <3>8, <3>9
  <2> QED
    BY <2>4, <2>5
<1> QED
  BY <1>1, <1>2

\* record reads the latest checkpoint of the session before it writes, unless its
\* record is given as JSON.
LEMMA CheckpointBegins ==
    ASSUME CheckpointInv, NEW p \in Proc, NEW s \in Conversation,
           NEW objective \in Objective \union {Unsaid}, NEW work \in Work \union {Unsaid},
           NEW project \in Option \union {Unsaid},
           \/ C!Begin(p, s, objective, work, project)
           \/ objective # Unsaid /\ C!BeginFile(p, s, objective, work, project)
    PROVE  CheckpointInv'
<1> USE DEF CheckpointInv
<1>1. PICK d \in Project : d = C!ProjectDir(project)
  BY StoresAssumption DEF C!ProjectDir
<1>2. PICK f : f = lines[d] /\ f \in Seq(C!Record \union {NewLine})
  BY <1>1 DEF CheckpointTyped
<1>3. CASE C!Begin(p, s, objective, work, project)
  <2>1. PICK new : new = C!Compose(s, objective, work, C!Latest(f, s))
    OBVIOUS
  <2>2. C!Submit(p, d, new)
    BY <1>1, <1>2, <1>3, <2>1 DEF C!Begin
  <2>3. new \in C!Record /\ new.session = s
    <3>1. \A r \in C!Latest(f, s) : r \in C!Record
      BY <1>2 DEF C!Latest, C!HistoryOf
    <3>2. /\ C!Inherited(objective, C!Latest(f, s), "objective") \in Objective \union {Unsaid}
          /\ C!Inherited(work, C!Latest(f, s), "work") \in Work \union {Unsaid}
      BY <3>1 DEF C!Inherited, C!Record
    <3> QED
      BY <2>1, <3>2 DEF C!Compose, C!Record
  <2>4. ASSUME LinesWhole, NEW k \in LastOf(lines[d], new.session), NEW x \in Field \ new.said
        PROVE  new[x] = lines[d][k][x]
    <3>1. C!Readable(f) /\ k \in LastOf(f, s)
      BY <1>2, <2>3, <2>4 DEF LinesWhole
    <3>2. /\ "objective" \notin new.said => new.objective = f[k].objective
          /\ "work" \notin new.said => new.work = f[k].work
      BY <1>2, <2>1, <3>1, ComposedContinues
    <3> QED
      BY <1>2, <2>4, <3>2 DEF Field
  <2> QED
    BY <2>2, <2>3, <2>4, CheckpointSubmits
<1>4. CASE objective # Unsaid /\ C!BeginFile(p, s, objective, work, project)
  <2>1. PICK new : new = C!Verbatim(s, objective, work)
    OBVIOUS
  <2>2. C!Submit(p, d, new)
    BY <1>1, <1>4, <2>1 DEF C!BeginFile
  <2>3. new \in C!Record /\ Field \ new.said = {}
    BY <2>1 DEF C!Verbatim, C!Record, Field
  <2> QED
    BY <2>2, <2>3, CheckpointSubmits
<1> QED
  BY <1>3, <1>4

\* record appends the text and then the end of its line.
LEMMA CheckpointWrites ==
    ASSUME CheckpointInv, NEW p \in Proc, C!WriteText(p) \/ C!WriteNewLine(p)
    PROVE  CheckpointInv'
<1> USE DEF CheckpointInv
<1>1. PICK d \in Project : d = dir[p]
  BY DEF CheckpointTyped
<1>2. PICK x : x = IF C!WriteText(p) THEN record[p] ELSE NewLine
  OBVIOUS
<1>3. /\ checkpointAt[p] = "text" => x = record[p] /\ x \in C!Record /\ C!WriteText(p)
      /\ checkpointAt[p] # "text" => x = NewLine /\ C!WriteNewLine(p)
      /\ checkpointAt[p] # "idle"
      /\ lines' = [lines EXCEPT ![d] = Append(lines[d], x)]
      /\ UNCHANGED <<overlapped, torn>>
  BY <1>1, <1>2 DEF C!WriteText, C!WriteNewLine, CheckpointTyped
<1>4. /\ checkpointAt[p] = "text" => /\ checkpointAt' = [checkpointAt EXCEPT ![p] = "newline"]
                                     /\ record' = [record EXCEPT ![p] = NewLine] /\ UNCHANGED dir
      /\ checkpointAt[p] # "text" => /\ checkpointAt' = [checkpointAt EXCEPT ![p] = "idle"]
                                     /\ UNCHANGED record /\ dir' = [dir EXCEPT ![p] = Cwd]
  BY <1>3 DEF C!WriteText, C!WriteNewLine, C!Goto
<1>5. /\ lines[d] \in Seq(C!Record \union {NewLine})
      /\ Append(lines[d], x) \in Seq(C!Record \union {NewLine})
  <2>1. x \in C!Record \union {NewLine}
    BY <1>3
  <2> QED
    BY <2>1 DEF CheckpointTyped
<1>6. CheckpointTyped'
  <2>1. Cwd \in Project
    BY StoresAssumption
  <2>2. lines' \in [Project -> Seq(C!Record \union {NewLine})]
    BY <1>3, <1>5 DEF CheckpointTyped
  <2>3. CASE checkpointAt[p] = "text"
    BY <1>4, <2>2, <2>3 DEF CheckpointTyped
  <2>4. CASE checkpointAt[p] # "text"
    BY <1>4, <2>1, <2>2, <2>4 DEF CheckpointTyped
  <2> QED
    BY <2>3, <2>4
<1>7. ASSUME ~overlapped, ~torn
      PROVE  OneAtATime' /\ LinesWhole' /\ Continues' /\ (\A e \in Project : Inherits(lines[e]))'
  <2>1. OneAtATime /\ LinesWhole /\ Continues /\ \A e \in Project : Inherits(lines[e])
    BY <1>7
  <2>2. \A q \in Proc : q # p => /\ checkpointAt'[q] = checkpointAt[q] /\ dir'[q] = dir[q]
                                 /\ record'[q] = record[q] /\ (checkpointAt[q] # "idle" => dir[q] # d)
    BY <1>1, <1>3, <1>4, <2>1 DEF CheckpointTyped, OneAtATime
  <2>3. /\ lines'[d] = Append(lines[d], x)
        /\ \A e \in Project : e # d => lines'[e] = lines[e]
    BY <1>3 DEF CheckpointTyped
  <2>4. /\ checkpointAt'[p] # "text"
        /\ (checkpointAt[p] = "text" => checkpointAt'[p] = "newline" /\ dir'[p] = d)
        /\ (checkpointAt[p] # "text" => checkpointAt'[p] = "idle")
    BY <1>1, <1>4 DEF CheckpointTyped
  <2>5. OneAtATime'
    BY <2>1, <2>2, <2>4 DEF OneAtATime
  <2>6. Continues'
    <3> SUFFICES ASSUME NEW q \in Proc, checkpointAt'[q] = "text",
                        NEW k \in LastOf(lines'[dir'[q]], record'[q].session),
                        NEW y \in Field \ record'[q].said
                 PROVE  record'[q][y] = lines'[dir'[q]][k][y]
      BY DEF Continues
    <3>1. q # p
      BY <2>4
    <3>2. dir[q] \in Project /\ dir'[q] = dir[q] /\ dir[q] # d /\ record'[q] = record[q]
          /\ checkpointAt[q] = "text"
      BY <2>2, <3>1 DEF CheckpointTyped
    <3>3. lines'[dir'[q]] = lines[dir[q]]
      BY <2>3, <3>2
    <3> QED
      BY <2>1, <3>2, <3>3 DEF Continues
  <2>7. C!Readable(Append(lines[d], x)) /\ Inherits(Append(lines[d], x))
    <3>1. CASE checkpointAt[p] = "text"
      <4>1. lines[d] = << >> \/ lines[d][Len(lines[d])] = NewLine
        BY <1>1, <2>1, <2>2, <3>1 DEF LinesWhole
      <4>2. \A k \in LastOf(lines[d], x.session) : \A y \in Field \ x.said : x[y] = lines[d][k][y]
        BY <1>1, <1>3, <2>1, <3>1 DEF Continues
      <4> QED
        BY <1>3, <1>5, <2>1, <3>1, <4>1, <4>2, TextAppended DEF LinesWhole
    <3>2. CASE checkpointAt[p] # "text"
      BY <1>3, <1>5, <2>1, <3>2, NewLineAppended DEF LinesWhole
    <3> QED
      BY <3>1, <3>2
  <2>8. (\A e \in Project : Inherits(lines[e]))'
    BY <2>1, <2>3, <2>7
  <2>9. LinesWhole'
    <3> SUFFICES ASSUME NEW e \in Project
                 PROVE  /\ C!Readable(lines'[e])
                        /\ \/ lines'[e] = << >> \/ lines'[e][Len(lines'[e])] = NewLine
                           \/ \E q \in Proc : checkpointAt'[q] = "newline" /\ dir'[q] = e
      BY DEF LinesWhole
    <3>1. CASE e = d
      <4>1. C!Readable(lines'[e])
        BY <2>3, <2>7, <3>1
      <4>2. CASE checkpointAt[p] = "text"
        BY <2>4, <3>1, <4>1, <4>2
      <4>3. CASE checkpointAt[p] # "text"
        <5>1. lines'[e][Len(lines'[e])] = NewLine
          BY <1>3, <1>5, <2>1, <2>3, <3>1, <4>3, NewLineAppended DEF LinesWhole
        <5> QED
          BY <4>1, <5>1
      <4> QED
        BY <4>2, <4>3
    <3>2. CASE e # d
      <4>1. lines'[e] = lines[e]
        BY <2>3, <3>2
      <4>2. \A q \in Proc : checkpointAt[q] = "newline" /\ dir[q] = e =>
               checkpointAt'[q] = "newline" /\ dir'[q] = e
        BY <1>1, <2>2, <3>2
      <4> QED
        BY <2>1, <4>1, <4>2 DEF LinesWhole
    <3> QED
      BY <3>1, <3>2
  <2> QED
    BY <2>5, <2>6, <2>8, <2>9
<1> QED
  BY <1>3, <1>6, <1>7

\* A command that dies between text and end of line leaves a torn line.
LEMMA CheckpointDies ==
    ASSUME CheckpointInv, NEW p \in Proc, C!Die(p)
    PROVE  CheckpointInv'
<1> USE DEF CheckpointInv
<1>1. /\ checkpointAt' = [checkpointAt EXCEPT ![p] = "idle"] /\ dir' = [dir EXCEPT ![p] = Cwd]
      /\ record' = [record EXCEPT ![p] = NewLine] /\ UNCHANGED <<lines, overlapped>>
      /\ torn' = (torn \/ checkpointAt[p] = "newline")
  BY DEF C!Die, C!Goto
<1>2. CheckpointTyped'
  BY <1>1, StoresAssumption DEF CheckpointTyped
<1>3. \A q \in Proc : q # p => /\ checkpointAt'[q] = checkpointAt[q] /\ dir'[q] = dir[q]
                               /\ record'[q] = record[q]
  BY <1>1 DEF CheckpointTyped
<1>4. checkpointAt'[p] = "idle"
  BY <1>1 DEF CheckpointTyped
<1>5. OneAtATime => OneAtATime'
  BY <1>3, <1>4 DEF OneAtATime
<1>6. ASSUME Continues PROVE Continues'
  <2> SUFFICES ASSUME NEW q \in Proc, checkpointAt'[q] = "text",
                      NEW k \in LastOf(lines[dir'[q]], record'[q].session),
                      NEW y \in Field \ record'[q].said
               PROVE  record'[q][y] = lines[dir'[q]][k][y]
    BY <1>1 DEF Continues
  <2> QED
    BY <1>3, <1>4, <1>6 DEF Continues
<1>7. ASSUME LinesWhole, ~torn' PROVE LinesWhole'
  <2>1. checkpointAt[p] # "newline"
    BY <1>1, <1>7
  <2> QED
    BY <1>1, <1>3, <1>7, <2>1 DEF LinesWhole
<1>8. (\A d \in Project : Inherits(lines[d])) => (\A d \in Project : Inherits(lines[d]))'
  BY <1>1
<1> QED
  BY <1>1, <1>2, <1>5, <1>6, <1>7, <1>8

\* record (checkpoint.rs), for any number of commands, sessions and projects: unless
\* commands of one project overlapped or died between the two writes of a line, what
\* a record does not say is what the session's record before it says.
THEOREM ProgressSurvives == StoreSpec => []ProgressInherited
<1> DEFINE Inv == part = "checkpoint" => CheckpointInv
<1>1. StoreInit => Inv
  BY CheckpointInit DEF StoreInit, StoreStates
<1>2. Inv /\ [StoreNext]_storeVars => Inv'
  <2> SUFFICES ASSUME Inv, [StoreNext]_storeVars, part' = "checkpoint" PROVE CheckpointInv'
    OBVIOUS
  <2>1. part = "checkpoint" /\ (C!Next \/ UNCHANGED checkpointVars)
    BY DEF StoreNext, storeVars
  <2>2. ASSUME C!Next PROVE CheckpointInv'
    BY <2>1, <2>2, CheckpointBegins, CheckpointWrites, CheckpointDies DEF C!Next
  <2> QED
    BY <2>1, <2>2, CheckpointStill DEF checkpointVars
<1>3. Inv => ProgressInherited
  BY CheckpointInherits DEF ProgressInherited
<1> QED
  BY <1>1, <1>2, <1>3, PTL DEF StoreSpec

-----------------------------------------------------------------------------
(***************************************************************************)
(* Induction over the natural numbers, of a set; what it says of a list    *)
(* from which elements are taken out.                                      *)
(***************************************************************************)

\* A set of numbers that is not empty has a least one.
LEMMA LeastNat ==
    ASSUME NEW X \in SUBSET Nat, X # {}
    PROVE  \E x \in X : \A y \in X : x <= y
<1> DEFINE Pairs == {ss \in Nat \X Nat : ss[1] < ss[2]}
<1>1. OpToRel(<, Nat) = Pairs
  BY Zenon DEF OpToRel
<1>2. IsWellFoundedOn(Pairs, Nat)
  BY <1>1, NatLessThanWellFounded
<1>3. PICK x \in X : \A y \in X : ~ (<<y, x>> \in Pairs)
  <2> HIDE DEF Pairs
  <2> QED BY <1>2, WFMin
<1>4. ASSUME NEW y \in X PROVE x <= y
  <2>1. x \in Nat /\ y \in Nat OBVIOUS
  <2>2. y < x => <<y, x>> \in Pairs BY <2>1
  <2>3. ~ (y < x) BY <2>2, <1>3
  <2> HIDE DEF Pairs
  <2> QED BY <2>1, <2>3
<1> QED BY <1>4

\* A set that has 0, and with n also n + 1, has all of them.
LEMMA NatSetInduction ==
    ASSUME NEW Set \in SUBSET Nat, 0 \in Set, \A n \in Set : n + 1 \in Set
    PROVE  Set = Nat
<1> DEFINE Rest == Nat \ Set
<1>1. CASE Rest = {} BY <1>1
<1>2. CASE Rest # {}
  <2>1. PICK x \in Rest : \A y \in Rest : x <= y
    <3>1. Rest \in SUBSET Nat OBVIOUS
    <3> HIDE DEF Rest
    <3> QED BY <1>2, <3>1, LeastNat
  <2>2. x \in Nat /\ x # 0 OBVIOUS
  <2>3. x - 1 \in Nat /\ x - 1 \notin Rest BY <2>1, <2>2
  <2>4. x - 1 \in Set BY <2>3
  <2>5. x \in Set BY <2>2, <2>4
  <2> QED BY <2>5
<1> QED BY <1>1, <1>2

\* The recursion by which an install takes elements out of a list (Without).
Kept(list, gone, f, n) ==
    IF n = 0 THEN << >> ELSE IF list[n] \in gone THEN f[n - 1] ELSE Append(f[n - 1], list[n])
AllKept(list, gone, f) == f = [n \in 0 .. Len(list) |-> Kept(list, gone, f, n)]

\* There is such a function,
LEMMA WithoutExists ==
    ASSUME NEW list, NEW gone, Len(list) \in Nat
    PROVE  \E f : AllKept(list, gone, f)
<1> DEFINE Of(f, n) == Kept(list, gone, f, n)
           Made(k) == \E f : f = [n \in 0 .. k |-> Of(f, n)]
           Set == {k \in Nat : k <= Len(list) => Made(k)}
<1> USE DEF Kept
<1>0. Len(list) \in Nat OBVIOUS
<1> HIDE DEF Made
<1>1. 0 \in Set
  <2> DEFINE f == [n \in 0 .. 0 |-> << >>]
  <2>1. f = [n \in 0 .. 0 |-> Of(f, n)] OBVIOUS
  <2>2. Made(0) BY <2>1 DEF Made
  <2> QED BY <2>2
<1>2. ASSUME NEW k \in Set PROVE k + 1 \in Set
  <2>1. CASE k + 1 <= Len(list)
    <3>1. k \in Nat /\ Made(k) BY <2>1, <1>0
    <3>2. PICK f : f = [n \in 0 .. k |-> Of(f, n)] BY <3>1 DEF Made
    <3> DEFINE g == [n \in 0 .. k + 1 |-> IF n = k + 1 THEN Of(f, n) ELSE f[n]]
    <3>3. \A n \in 0 .. k : g[n] = f[n] BY <3>1
    <3>4. g[k + 1] = Of(f, k + 1) BY <3>1
    <3>5. \A n \in 0 .. k : f[n] = Of(f, n) BY <3>2
    <3> HIDE DEF g
    <3>6. ASSUME NEW n \in 0 .. k + 1 PROVE g[n] = Of(g, n)
      <4>1. CASE n = 0 BY <3>1, <3>3, <3>5, <4>1
      <4>2. CASE n # 0
        <5>1. n - 1 \in 0 .. k BY <3>1, <4>2
        <5>2. g[n - 1] = f[n - 1] BY <3>3, <5>1
        <5>3. Of(g, n) = Of(f, n) BY <5>2
        <5>4. CASE n = k + 1 BY <5>3, <5>4, <3>4
        <5>5. CASE n \in 0 .. k BY <5>3, <5>5, <3>3, <3>5
        <5> QED BY <5>4, <5>5, <3>1
      <4> QED BY <4>1, <4>2
    <3>7. g = [n \in 0 .. k + 1 |-> g[n]] BY DEF g
    <3>8. g = [n \in 0 .. k + 1 |-> Of(g, n)] BY <3>6, <3>7
    <3> HIDE DEF Of
    <3>9. Made(k + 1) BY <3>8 DEF Made
    <3> QED BY <3>9, <3>1
  <2>2. CASE ~(k + 1 <= Len(list)) BY <2>2
  <2> QED BY <2>1, <2>2
<1>3. Set = Nat
  <2> HIDE DEF Set
  <2>1. Set \in SUBSET Nat BY DEF Set
  <2> QED BY <1>1, <1>2, <2>1, NatSetInduction
<1>4. Made(Len(list)) BY <1>3, <1>0
<1> QED BY <1>4 DEF Made, AllKept

\* and it leaves those elements of the list that are not to go (Vec::retain).
LEMMA WithoutIs ==
    ASSUME NEW V, NEW list \in Seq(V), NEW gone
    PROVE  /\ I!Without(list, gone) \in Seq(V)
           /\ \A x : (\E i \in DOMAIN I!Without(list, gone) : I!Without(list, gone)[i] = x)
                     <=> (\E i \in DOMAIN list : list[i] = x) /\ x \notin gone
<1> DEFINE kept == CHOOSE f : AllKept(list, gone, f)
<1>1. I!Without(list, gone) = kept[Len(list)]
  BY DEF I!Without, AllKept, Kept
<1>2. AllKept(list, gone, kept)
  BY WithoutExists
<1> HIDE DEF kept
<1>3. /\ Len(list) \in Nat /\ kept[0] = << >>
      /\ \A n \in 0 .. Len(list) : n # 0 =>
            kept[n] = IF list[n] \in gone THEN kept[n - 1] ELSE Append(kept[n - 1], list[n])
  <2>1. Len(list) \in Nat OBVIOUS
  <2>2. \A n \in 0 .. Len(list) : kept[n] = Kept(list, gone, kept, n) BY <1>2 DEF AllKept
  <2> QED BY <2>1, <2>2 DEF Kept
<1> DEFINE Right(n) == /\ kept[n] \in Seq(V)
                       /\ \A x : (\E i \in DOMAIN kept[n] : kept[n][i] = x)
                                 <=> (\E i \in 1 .. n : list[i] = x) /\ x \notin gone
           Set == {n \in Nat : n <= Len(list) => Right(n)}
<1> HIDE DEF Right
<1>4. 0 \in Set
  <2>1. Right(0) BY <1>3 DEF Right
  <2> QED BY <2>1
<1>5. ASSUME NEW n \in Set PROVE n + 1 \in Set
  <2>1. CASE n + 1 <= Len(list)
    <3>0. n \in Nat /\ Right(n) /\ n + 1 \in 1 .. Len(list) BY <2>1, <1>3
    <3>1. n \in Nat /\ Right(n) /\ n + 1 \in 1 .. Len(list) /\ list[n + 1] \in V BY <3>0
    <3>2. kept[n + 1] = IF list[n + 1] \in gone THEN kept[n] ELSE Append(kept[n], list[n + 1])
      <4>1. n + 1 \in 0 .. Len(list) /\ n + 1 # 0 /\ (n + 1) - 1 = n BY <3>1, <1>3
      <4> QED BY <4>1, <1>3
    <3>3. \A x : (\E i \in 1 .. n + 1 : list[i] = x) <=> (\E i \in 1 .. n : list[i] = x) \/ x = list[n + 1]
      BY <3>1
    <3>4. CASE list[n + 1] \in gone
      <4>1. kept[n + 1] = kept[n] BY <3>2, <3>4
      <4>2. Right(n + 1) BY <4>1, <3>1, <3>3, <3>4 DEF Right
      <4> QED BY <4>2, <3>1
    <3>5. CASE list[n + 1] \notin gone
      <4> DEFINE new == Append(kept[n], list[n + 1])
      <4>1. kept[n + 1] = new BY <3>2, <3>5
      <4>2. new \in Seq(V) /\ Len(kept[n]) \in Nat /\ DOMAIN new = 1 .. Len(kept[n]) + 1
            /\ DOMAIN kept[n] = 1 .. Len(kept[n])
            /\ (\A i \in 1 .. Len(kept[n]) : new[i] = kept[n][i]) /\ new[Len(kept[n]) + 1] = list[n + 1]
        BY <3>1 DEF Right
      <4> HIDE DEF new
      <4>3. \A x : (\E i \in DOMAIN new : new[i] = x) <=> (\E i \in DOMAIN kept[n] : kept[n][i] = x) \/ x = list[n + 1]
        BY <4>2
      <4>4. Right(n + 1) BY <4>1, <4>2, <4>3, <3>1, <3>3, <3>5 DEF Right
      <4> QED BY <4>4, <3>1
    <3> QED BY <3>4, <3>5
  <2>2. CASE ~(n + 1 <= Len(list)) BY <2>2
  <2> QED BY <2>1, <2>2
<1>6. Set = Nat
  <2> HIDE DEF Set
  <2>1. Set \in SUBSET Nat BY DEF Set
  <2> QED BY <1>4, <1>5, <2>1, NatSetInduction
<1>7. Right(Len(list)) BY <1>6, <1>3
<1>8. DOMAIN list = 1 .. Len(list) OBVIOUS
<1> QED BY <1>1, <1>7, <1>8 DEF Right

-----------------------------------------------------------------------------
(***************************************************************************)
(* HookInstall: a merge leaves the user's handlers where they are and puts *)
(* one handler for each event; the file is what the merge made of it.      *)
(***************************************************************************)

\* x is one of the list.
Among(x, list) == \E i \in DOMAIN list : list[i] = x

\* The user's handlers of an event are those without a mark (UserHandlers).
LEMMA UserHandlersAre ==
    ASSUME NEW list, NEW x
    PROVE  x \in I!UserHandlers(list) <=>
             \E e : /\ Among(e, list) /\ e.handlers # Odd
                    /\ \E h : Among(h, e.handlers) /\ h.mark = None /\ x = <<e.matcher, h>>
  BY DEF I!UserHandlers, Among

\* What an entry becomes when the handlers with the mark go.
Cleaned(e, mark) ==
    IF e.handlers = Odd THEN e
    ELSE [e EXCEPT !.handlers = I!Without(@, I!Bearing(@, mark))]

\* An entry keeps its matcher and the handlers that do not bear the mark.
LEMMA CleanedIs ==
    ASSUME NEW e \in I!Entry, NEW mark
    PROVE  LET c == Cleaned(e, mark) IN
           /\ c \in I!Entry /\ c.matcher = e.matcher
           /\ c.handlers = Odd <=> e.handlers = Odd
           /\ c.handlers # Odd =>
                \A h : Among(h, c.handlers) <=> Among(h, e.handlers) /\ h.mark # mark
<1>1. Odd \notin Seq(I!Handler)
  BY StoresAssumption DEF I!DocumentAssumption
<1>2. e.matcher \in Matcher /\ e.handlers \in Seq(I!Handler) \union {Odd}
      /\ e = [matcher |-> e.matcher, handlers |-> e.handlers]
  BY DEF I!Entry
<1>3. CASE e.handlers = Odd
  BY <1>3 DEF Cleaned
<1>4. CASE e.handlers # Odd
  <2> DEFINE list == e.handlers
             gone == I!Bearing(list, mark)
             new == I!Without(list, gone)
  <2>1. list \in Seq(I!Handler) BY <1>2, <1>4
  <2>2. new \in Seq(I!Handler) /\ \A h : Among(h, new) <=> Among(h, list) /\ h \notin gone
    <3> HIDE DEF gone, list
    <3> QED BY <2>1, WithoutIs DEF Among
  <2>3. \A h : Among(h, list) => (h \in gone <=> h.mark = mark)
    BY DEF I!Bearing, Among
  <2>4. Cleaned(e, mark) = [matcher |-> e.matcher, handlers |-> new]
    <3> HIDE DEF new
    <3>1. Cleaned(e, mark) = [e EXCEPT !.handlers = new]
      BY <1>4 DEF Cleaned, new
    <3> QED BY <3>1, <1>2
  <2> HIDE DEF new, gone
  <2> QED BY <1>1, <1>2, <1>4, <2>2, <2>3, <2>4 DEF I!Entry
<1> QED BY <1>3, <1>4

\* remove_hook_commands takes out what bears the mark and nothing of the user's.
LEMMA RemovedIs ==
    ASSUME NEW list \in Seq(I!Entry), NEW mark, mark # None
    PROVE  LET left == I!RemoveHookCommands(list, mark) IN
           /\ left \in Seq(I!Entry)
           /\ \A e, h : Among(e, left) /\ e.handlers # Odd /\ Among(h, e.handlers) => h.mark # mark
           /\ I!UserHandlers(left) = I!UserHandlers(list)
<1> DEFINE all == [i \in DOMAIN list |-> Cleaned(list[i], mark)]
           empty == {e \in {all[i] : i \in DOMAIN all} : e.handlers = << >>}
           left == I!Without(all, empty)
<1>1. I!RemoveHookCommands(list, mark) = left
  BY Zenon DEF I!RemoveHookCommands, Cleaned
<1>2. DOMAIN list = 1 .. Len(list) /\ Len(list) \in Nat /\ \A i \in DOMAIN list : list[i] \in I!Entry
  OBVIOUS
<1>3. all \in Seq(I!Entry)
  <2>1. \A i \in DOMAIN list : Cleaned(list[i], mark) \in I!Entry
    BY <1>2, CleanedIs
  <2> QED BY <1>2, <2>1
<1>4. \A c : Among(c, all) <=> \E e : Among(e, list) /\ c = Cleaned(e, mark)
  BY DEF Among
<1>5. \A e : Among(e, list) => e \in I!Entry
  BY <1>2 DEF Among
<1>6. \A c : Among(c, all) => (c \in empty <=> c.handlers = << >>)
  BY DEF Among
<1> HIDE DEF all, empty
<1>7. left \in Seq(I!Entry) /\ \A c : Among(c, left) <=> Among(c, all) /\ c \notin empty
  BY <1>3, WithoutIs DEF Among
<1> HIDE DEF left
<1>8. \A e, h : Among(e, left) /\ e.handlers # Odd /\ Among(h, e.handlers) => h.mark # mark
  BY <1>4, <1>5, <1>7, CleanedIs
<1>9. I!UserHandlers(left) \subseteq I!UserHandlers(list)
  <2> SUFFICES ASSUME NEW x \in I!UserHandlers(left) PROVE x \in I!UserHandlers(list)
    OBVIOUS
  <2>1. PICK c, h : /\ Among(c, left) /\ c.handlers # Odd
                    /\ Among(h, c.handlers) /\ h.mark = None /\ x = <<c.matcher, h>>
    BY UserHandlersAre
  <2>2. PICK e : Among(e, list) /\ c = Cleaned(e, mark)
    BY <2>1, <1>4, <1>7
  <2>3. e.handlers # Odd /\ Among(h, e.handlers) /\ x = <<e.matcher, h>>
    BY <2>1, <2>2, <1>5, CleanedIs
  <2> QED BY <2>1, <2>2, <2>3, UserHandlersAre
<1>10. I!UserHandlers(list) \subseteq I!UserHandlers(left)
  <2> SUFFICES ASSUME NEW x \in I!UserHandlers(list) PROVE x \in I!UserHandlers(left)
    OBVIOUS
  <2>1. PICK e, h : /\ Among(e, list) /\ e.handlers # Odd
                    /\ Among(h, e.handlers) /\ h.mark = None /\ x = <<e.matcher, h>>
    BY UserHandlersAre
  <2> DEFINE c == Cleaned(e, mark)
  <2>2. c.handlers # Odd /\ Among(h, c.handlers) /\ x = <<c.matcher, h>>
    BY <2>1, <1>5, CleanedIs
  <2>3. Among(c, all) BY <2>1, <1>4
  <2> HIDE DEF c
  <2>4. c.handlers # << >> BY <2>2 DEF Among
  <2>5. Among(c, left) BY <2>3, <2>4, <1>6, <1>7
  <2> QED BY <2>1, <2>2, <2>5, UserHandlersAre
<1> QED BY <1>1, <1>7, <1>8, <1>9, <1>10

\* The entries that an install leaves of an event that it wires.
Merged(list, w, kb) ==
    I!MergeHookEntry(I!RemoveHookCommands(list, w.mark), w.matcher, I!Command(w.mark, kb))

\* The list has one handler of innen's for the hook w, for the root kb.
HasOne(list, w, kb) ==
    \E i \in DOMAIN list :
        /\ list[i].matcher = w.matcher
        /\ list[i].handlers = <<I!Command(w.mark, kb)>>
        /\ \A k \in DOMAIN list \ {i} : list[k].handlers # Odd =>
              \A j \in DOMAIN list[k].handlers : list[k].handlers[j].mark # w.mark

\* After it merge_hook_entry adds a handler, which is then the only one.
LEMMA MergedIs ==
    ASSUME NEW list \in Seq(I!Entry), NEW kb \in Root, NEW w, w.mark # None, w.matcher \in Matcher,
           I!Command(w.mark, kb) \in I!Handler
    PROVE  /\ Merged(list, w, kb) \in Seq(I!Entry)
           /\ I!UserHandlers(Merged(list, w, kb)) = I!UserHandlers(list)
           /\ HasOne(Merged(list, w, kb), w, kb)
<1> DEFINE left == I!RemoveHookCommands(list, w.mark)
           mine == I!Command(w.mark, kb)
           entry == [matcher |-> w.matcher, handlers |-> <<mine>>]
           new == Append(left, entry)
<1>1. /\ left \in Seq(I!Entry)
      /\ \A e, h : Among(e, left) /\ e.handlers # Odd /\ Among(h, e.handlers) => h.mark # w.mark
      /\ I!UserHandlers(left) = I!UserHandlers(list)
  BY RemovedIs
<1>2. mine.mark = w.mark BY DEF I!Command
<1>3. entry \in I!Entry /\ entry.handlers = <<mine>> /\ entry.matcher = w.matcher /\ entry.handlers # Odd
  <2>1. <<mine>> \in Seq(I!Handler) OBVIOUS
  <2>2. Odd \notin Seq(I!Handler) BY StoresAssumption DEF I!DocumentAssumption
  <2> HIDE DEF mine
  <2> QED BY <2>1, <2>2 DEF I!Entry
<1> HIDE DEF left, mine
<1>4. Merged(list, w, kb) = new
  <2>1. ~ \E i \in DOMAIN left :
            /\ left[i].matcher = w.matcher /\ left[i].handlers # Odd
            /\ \E j \in DOMAIN left[i].handlers : left[i].handlers[j] = mine
    BY <1>1, <1>2 DEF Among
  <2>2. Merged(list, w, kb) = I!MergeHookEntry(left, w.matcher, mine)
    BY DEF Merged, left, mine
  <2> QED BY <2>1, <2>2 DEF I!MergeHookEntry
<1> HIDE DEF entry
<1>5. /\ new \in Seq(I!Entry) /\ DOMAIN new = 1 .. Len(left) + 1 /\ Len(left) \in Nat
      /\ DOMAIN left = 1 .. Len(left)
      /\ new[Len(left) + 1] = entry /\ \A i \in 1 .. Len(left) : new[i] = left[i]
  BY <1>1, <1>3
<1> HIDE DEF new
<1>6. \A e : Among(e, new) <=> Among(e, left) \/ e = entry
  BY <1>5 DEF Among
<1>7. \A h : Among(h, entry.handlers) => h = mine
  BY <1>3 DEF Among
<1>8. \A x : x \in I!UserHandlers(new) <=> x \in I!UserHandlers(left)
  BY <1>2, <1>6, <1>7, UserHandlersAre
<1>9. \A k \in DOMAIN new \ {Len(left) + 1} : new[k].handlers # Odd =>
          \A j \in DOMAIN new[k].handlers : new[k].handlers[j].mark # w.mark
  <2> SUFFICES ASSUME NEW k \in DOMAIN new \ {Len(left) + 1}, new[k].handlers # Odd,
                      NEW j \in DOMAIN new[k].handlers
               PROVE  new[k].handlers[j].mark # w.mark
    OBVIOUS
  <2>1. k \in DOMAIN left /\ new[k] = left[k]
    BY <1>5
  <2>2. Among(new[k], left) /\ Among(new[k].handlers[j], new[k].handlers)
    BY <2>1 DEF Among
  <2> QED BY <2>2, <1>1
<1>10. I!UserHandlers(new) = I!UserHandlers(list)
  BY <1>1, <1>8
<1>11. Len(left) + 1 \in DOMAIN new BY <1>5
<1>12. HasOne(new, w, kb)
  BY <1>3, <1>5, <1>9, <1>11 DEF HasOne, mine
<1> QED BY <1>4, <1>5, <1>10, <1>12

\* What a settings file may hold.
IsDocument(d) == d \in {Missing, Broken, Odd} \/ \E events \in SUBSET HookEvent : d \in I!Settings(events)

\* The hooks of an agent are for different events.
LEMMA WiringIs ==
    ASSUME NEW a \in Agent, NEW kb \in Kb
    PROVE  /\ \A w, v \in I!Wiring[a] : w.event = v.event => w = v
           /\ \A w \in I!Wiring[a] :
                /\ w.event \in HookEvent /\ w.matcher \in Matcher /\ w.mark # None
                /\ I!Command(w.mark, kb) \in I!Handler
           /\ a \in {"antigravity", "opencode"} => I!Wiring[a] = {}
           /\ a \notin {"antigravity", "opencode"} => I!Wiring[a] # {}
           /\ kb \in Root
<1>1. a \in DOMAIN I!Wiring /\ kb \in Root
  BY StoresAssumption DEF I!DocumentAssumption
<1>2. \A w \in I!Wiring[a] : w.event \in HookEvent /\ w.matcher \in Matcher /\ w.mark # None
  BY StoresAssumption DEF I!DocumentAssumption
<1>3. \A w \in I!Wiring[a] : I!Command(w.mark, kb) \in I!Handler
  <2> SUFFICES ASSUME NEW w \in I!Wiring[a] PROVE I!Command(w.mark, kb) \in I!Handler
    OBVIOUS
  <2>1. w \in UNION {I!Wiring[b] : b \in DOMAIN I!Wiring}
    BY <1>1
  <2> QED BY <1>1, <2>1 DEF I!Command, I!Handler
<1>4. a \in {"claude", "codex", "grok", "antigravity", "opencode"}
  BY <1>1 DEF I!Wiring
<1>5. /\ I!Wiring["claude"] = {I!EndHook, I!StartHook, I!Hook("PreCompact", None, "run compact")}
      /\ I!Wiring["codex"] = {I!EndHook, I!StartHook, I!Hook("Stop", None, "run stop")}
      /\ I!Wiring["grok"] = {I!EndHook, I!StartHook}
      /\ I!Wiring["antigravity"] = {} /\ I!Wiring["opencode"] = {}
  BY DEF I!Wiring
<1>6. \A w, v \in I!Wiring[a] : w.event = v.event => w = v
  <2>1. /\ I!EndHook.event = "SessionEnd" /\ I!StartHook.event = "SessionStart"
        /\ I!Hook("PreCompact", None, "run compact").event = "PreCompact"
        /\ I!Hook("Stop", None, "run stop").event = "Stop"
    BY DEF I!EndHook, I!StartHook, I!Hook
  <2>2. CASE a = "claude" BY <1>5, <2>1, <2>2
  <2>3. CASE a = "codex" BY <1>5, <2>1, <2>3
  <2>4. CASE a = "grok" BY <1>5, <2>1, <2>4
  <2>5. CASE a \in {"antigravity", "opencode"} BY <1>5, <2>5
  <2> QED BY <1>4, <2>2, <2>3, <2>4, <2>5
<1>7. /\ a \in {"antigravity", "opencode"} => I!Wiring[a] = {}
      /\ a \notin {"antigravity", "opencode"} => I!Wiring[a] # {}
  BY <1>4, <1>5
<1> QED BY <1>1, <1>2, <1>3, <1>6, <1>7

\* What an install makes of a file that it cannot read (read_json_file).
LEMMA Blank ==
    /\ [keys |-> {}, own |-> None, hooks |-> << >>] \in I!Settings({})
    /\ << >> \in I!Table({})
<1>1. << >> \in I!Table({})
  BY DEF I!Table
<1> QED BY <1>1 DEF I!Settings

\* What an install reads is an object with a table of hooks.
LEMMA ObjectIs ==
    ASSUME NEW d, IsDocument(d)
    PROVE  \E events \in SUBSET HookEvent :
             I!Object(d) \in I!Settings(events) /\ I!Events(d) \in I!Table(events)
<1>1. CASE d \in {Missing, Broken, Odd}
  <2>1. I!Object(d) = [keys |-> {}, own |-> None, hooks |-> << >>]
    BY <1>1 DEF I!Object
  <2>2. I!Events(d) = << >>
    BY <2>1 DEF I!Events
  <2> QED BY <2>1, <2>2, Blank
<1>2. CASE d \notin {Missing, Broken, Odd}
  <2>1. PICK events \in SUBSET HookEvent : d \in I!Settings(events)
    BY <1>2 DEF IsDocument
  <2>2. I!Object(d) = d BY <1>2 DEF I!Object
  <2>3. CASE d.hooks = Odd
    <3>1. I!Events(d) = << >> BY <2>2, <2>3 DEF I!Events
    <3>2. d \in I!Settings({}) BY <2>1, <2>3 DEF I!Settings
    <3> QED BY <2>2, <3>1, <3>2, Blank
  <2>4. CASE d.hooks # Odd
    <3>1. d.hooks \in I!Table(events) BY <2>1, <2>4 DEF I!Settings
    <3>2. I!Events(d) = d.hooks BY <2>2, <2>4 DEF I!Events
    <3> QED BY <2>1, <2>2, <3>1, <3>2
  <2> QED BY <2>3, <2>4
<1> QED BY <1>1, <1>2

\* A document that an install writes is an object.
LEMMA SettingsAre ==
    ASSUME NEW events \in SUBSET HookEvent, NEW d \in I!Settings(events)
    PROVE  /\ IsDocument(d) /\ I!Object(d) = d
           /\ d.hooks \in I!Table(events) => I!Events(d) = d.hooks
<1>1. d \notin {Missing, Broken, Odd} /\ Odd \notin I!Table(events)
  BY StoresAssumption DEF I!DocumentAssumption
<1>2. IsDocument(d) BY DEF IsDocument
<1>3. I!Object(d) = d BY <1>1 DEF I!Object
<1> QED BY <1>1, <1>2, <1>3 DEF I!Events

\* The user's handlers of a document, by their events (UserPart).
LEMMA UserPartIs ==
    ASSUME NEW d, NEW x
    PROVE  x \in I!UserPart(d).handlers <=>
             \E event \in DOMAIN I!Events(d) :
                I!Events(d)[event] # Odd /\ \E own \in I!UserHandlers(I!Events(d)[event]) : x = <<event, own>>
  BY DEF I!UserPart

\* Documents with the same keys and handlers of the user have the same UserPart.
LEMMA SamePart ==
    ASSUME NEW d, NEW e, I!Object(d).keys = I!Object(e).keys,
           \A x : x \in I!UserPart(d).handlers <=> x \in I!UserPart(e).handlers
    PROVE  I!UserPart(d) = I!UserPart(e)
<1>1. I!UserPart(d).handlers = I!UserPart(e).handlers OBVIOUS
<1> QED BY <1>1 DEF I!UserPart

\* Agents without hooks in their settings get an entry of innen's alone.
LEMMA WiredPlainly ==
    ASSUME NEW a \in Agent, NEW kb \in Kb, NEW d, IsDocument(d), a \in {"antigravity", "opencode"}
    PROVE  /\ \E events \in SUBSET HookEvent : I!Wired(a, kb, d) \in I!Settings(events)
           /\ (a = "opencode" => I!UserPart(d) = I!UserPart(Missing)) =>
                I!UserPart(I!Wired(a, kb, d)) = I!UserPart(d)
           /\ I!Installed(a, kb, I!Wired(a, kb, d))
<1> DEFINE before == IF a = "opencode" THEN Missing ELSE d
           after == [I!Object(before) EXCEPT !.own = kb]
<1>1. I!Wired(a, kb, d) = after
  BY DEF I!Wired
<1>2. /\ IsDocument(before)
      /\ (a = "opencode" => I!UserPart(d) = I!UserPart(Missing)) => I!UserPart(before) = I!UserPart(d)
  BY DEF IsDocument
<1> HIDE DEF before
<1>3. PICK events \in SUBSET HookEvent :
          I!Object(before) \in I!Settings(events) /\ I!Events(before) \in I!Table(events)
  BY <1>2, ObjectIs
<1>4. /\ after \in I!Settings(events) /\ after.keys = I!Object(before).keys
      /\ after.hooks = I!Object(before).hooks /\ after.own = kb
  BY <1>3, WiringIs DEF I!Settings
<1> HIDE DEF after
<1>5. I!Object(after) = after
  BY <1>4, SettingsAre
<1>6. I!Events(after) = I!Events(before)
  BY <1>4, <1>5 DEF I!Events
<1>7. I!UserPart(after) = I!UserPart(before)
  BY <1>4, <1>5, <1>6, SamePart, UserPartIs
<1>8. I!Wiring[a] = {}
  BY WiringIs
<1>9. I!Installed(a, kb, after)
  BY <1>4, <1>5, <1>8 DEF I!Installed
<1> QED BY <1>1, <1>2, <1>4, <1>7, <1>9

\* What an install writes keeps the user's part and has each handler once
\* (install_claude, install_codex, install_grok).
LEMMA WiredIs ==
    ASSUME NEW a \in Agent, NEW kb \in Kb, NEW d, IsDocument(d), ~I!Panics(a, d)
    PROVE  /\ \E events \in SUBSET HookEvent : I!Wired(a, kb, d) \in I!Settings(events)
           /\ (a = "opencode" => I!UserPart(d) = I!UserPart(Missing)) =>
                I!UserPart(I!Wired(a, kb, d)) = I!UserPart(d)
           /\ I!Installed(a, kb, I!Wired(a, kb, d))
<1>1. CASE a \in {"antigravity", "opencode"}
  BY <1>1, WiredPlainly
<1>2. CASE a \notin {"antigravity", "opencode"}
  <2> DEFINE old == I!Events(d)
             Entries(event) == IF event \in DOMAIN old THEN old[event] ELSE << >>
             wired == {w.event : w \in I!Wiring[a]}
             Mine(event) == CHOOSE w \in I!Wiring[a] : w.event = event
             hooks == [event \in DOMAIN old \union wired |->
                          IF event \notin wired THEN old[event] ELSE Merged(Entries(event), Mine(event), kb)]
             new == [I!Object(d) EXCEPT !.hooks = hooks]
  <2>1. I!Wired(a, kb, d) = new
    BY <1>2, Zenon DEF I!Wired, Merged
  <2>2. PICK events \in SUBSET HookEvent : I!Object(d) \in I!Settings(events) /\ old \in I!Table(events)
    BY ObjectIs
  <2>3. DOMAIN old = events /\ \A event \in events : old[event] \in Seq(I!Entry) \union {Odd}
    BY <2>2 DEF I!Table
  <2>4. \A w \in I!Wiring[a] : Mine(w.event) = w /\ w.event \in wired
    BY WiringIs
  <2>5. \A event \in wired : Mine(event) \in I!Wiring[a] /\ Mine(event).event = event
    OBVIOUS
  <2>6. wired \subseteq HookEvent
    BY WiringIs
  <2>7. \A event \in wired : Entries(event) \in Seq(I!Entry)
    <3> SUFFICES ASSUME NEW event \in wired PROVE Entries(event) \in Seq(I!Entry)
      OBVIOUS
    <3>1. CASE event \in DOMAIN old
      <4>1. old[event] # Odd
        BY <3>1, <2>5 DEF I!Panics
      <4> QED BY <3>1, <4>1, <2>3
    <3>2. CASE event \notin DOMAIN old
      BY <3>2
    <3> QED BY <3>1, <3>2
  <2> HIDE DEF old, wired, Entries, Mine
  <2>8. ASSUME NEW event \in wired
        PROVE  /\ Merged(Entries(event), Mine(event), kb) \in Seq(I!Entry)
               /\ I!UserHandlers(Merged(Entries(event), Mine(event), kb)) = I!UserHandlers(Entries(event))
               /\ HasOne(Merged(Entries(event), Mine(event), kb), Mine(event), kb)
    <3>1. /\ Mine(event).mark # None /\ Mine(event).matcher \in Matcher /\ kb \in Root
          /\ I!Command(Mine(event).mark, kb) \in I!Handler
      BY <2>5, WiringIs
    <3> QED BY <3>1, <2>7, MergedIs
  <2> DEFINE all == events \union wired
  <2>9. all \in SUBSET HookEvent /\ DOMAIN hooks = all /\ wired \subseteq all
    BY <2>3, <2>6
  <2>10. \A event \in wired : hooks[event] = Merged(Entries(event), Mine(event), kb)
    BY <2>9
  <2>11. \A event \in events \ wired : hooks[event] = old[event]
    BY <2>3
  <2>12. hooks \in I!Table(all)
    <3>1. \A event \in all : hooks[event] \in Seq(I!Entry) \union {Odd}
      BY <2>3, <2>8, <2>10, <2>11
    <3> QED BY <3>1, <2>9 DEF I!Table
  <2> HIDE DEF hooks
  <2>13. new \in I!Settings(all) /\ new.hooks = hooks /\ new.keys = I!Object(d).keys
    BY <2>2, <2>12 DEF I!Settings
  <2> HIDE DEF new, all
  <2>14. I!Object(new) = new /\ I!Events(new) = hooks
    BY <2>9, <2>12, <2>13, SettingsAre
  <2>15. \A event \in wired : hooks[event] # Odd
    <3>1. Odd \notin Seq(I!Entry) BY StoresAssumption DEF I!DocumentAssumption
    <3> QED BY <3>1, <2>8, <2>10
  <2>16. I!UserHandlers(<< >>) = {}
    BY DEF I!UserHandlers
  <2>17. \A x : x \in I!UserPart(new).handlers <=> x \in I!UserPart(d).handlers
    <3> TAKE x
    <3>1. ASSUME x \in I!UserPart(new).handlers PROVE x \in I!UserPart(d).handlers
      <4>0. PICK event \in DOMAIN hooks :
                hooks[event] # Odd /\ \E own \in I!UserHandlers(hooks[event]) : x = <<event, own>>
        BY <3>1, <2>14, UserPartIs
      <4>1. PICK own \in I!UserHandlers(hooks[event]) : hooks[event] # Odd /\ x = <<event, own>>
        BY <4>0
      <4>2. CASE event \in wired
        <5>1. own \in I!UserHandlers(Entries(event)) BY <4>1, <4>2, <2>8, <2>10
        <5>2. event \in DOMAIN old /\ Entries(event) = old[event]
          BY <5>1, <2>16 DEF Entries
        <5>3. old[event] # Odd
          <6>1. Odd \notin Seq(I!Entry) BY StoresAssumption DEF I!DocumentAssumption
          <6> QED BY <6>1, <5>2, <2>7, <4>2
        <5> QED BY <4>1, <5>1, <5>2, <5>3, UserPartIs DEF old
      <4>3. CASE event \notin wired
        <5>1. event \in DOMAIN old /\ hooks[event] = old[event]
          BY <4>3, <2>3, <2>9, <2>11 DEF all
        <5> QED BY <4>1, <5>1, UserPartIs DEF old
      <4> QED BY <4>2, <4>3
    <3>2. ASSUME x \in I!UserPart(d).handlers PROVE x \in I!UserPart(new).handlers
      <4>0. PICK event \in DOMAIN old :
                old[event] # Odd /\ \E own \in I!UserHandlers(old[event]) : x = <<event, own>>
        BY <3>2, UserPartIs DEF old
      <4>1. PICK own \in I!UserHandlers(old[event]) : old[event] # Odd /\ x = <<event, own>>
        BY <4>0
      <4>2. event \in DOMAIN hooks
        BY <2>3, <2>9 DEF all
      <4>3. CASE event \in wired
        <5>1. Entries(event) = old[event] BY DEF Entries
        <5>2. own \in I!UserHandlers(hooks[event]) BY <4>3, <5>1, <2>8, <2>10
        <5> QED BY <4>1, <4>2, <4>3, <5>2, <2>14, <2>15, UserPartIs
      <4>4. CASE event \notin wired
        <5>1. hooks[event] = old[event] BY <4>4, <2>3, <2>11
        <5> QED BY <4>1, <4>2, <5>1, <2>14, UserPartIs
      <4> QED BY <4>3, <4>4
    <3> QED BY <3>1, <3>2
  <2>18. I!UserPart(new) = I!UserPart(d)
    BY <2>13, <2>14, <2>17, SamePart
  <2>19. I!Installed(a, kb, new)
    <3>1. \A w \in I!Wiring[a] :
            /\ w.event \in DOMAIN I!Events(new) /\ I!Events(new)[w.event] # Odd
            /\ HasOne(I!Events(new)[w.event], w, kb)
      <4> TAKE w \in I!Wiring[a]
      <4>1. w.event \in wired /\ Mine(w.event) = w BY <2>4
      <4>2. w.event \in DOMAIN hooks /\ hooks[w.event] # Odd BY <4>1, <2>9, <2>15
      <4>3. hooks[w.event] = Merged(Entries(w.event), Mine(w.event), kb) BY <4>1, <2>10
      <4> QED BY <4>1, <4>2, <4>3, <2>8, <2>14
    <3>2. I!Wiring[a] # {} BY <1>2, WiringIs
    <3> QED BY <3>1, <3>2, Zenon DEF I!Installed, HasOne
  <2> QED BY <2>1, <2>9, <2>13, <2>18, <2>19
<1> QED BY <1>1, <1>2

Writing(p) == install[p] # None

SettingsTyped ==
    /\ agent \in Agent
    /\ IsDocument(settings)
    /\ install \in [Proc -> {None} \union
                              UNION {[kb : Kb, doc : I!Settings(events), opened : BOOLEAN] :
                                         events \in SUBSET HookEvent}]
    /\ agent = "opencode" => user = I!UserPart(Missing)

\* One install writes at a time, what keeps the user's part and has its handlers.
Prepared ==
    \A p \in Proc : Writing(p) =>
        /\ \A q \in Proc : Writing(q) => q = p
        /\ I!UserPart(install[p].doc) = user
        /\ I!Installed(agent, install[p].kb, install[p].doc)

\* The file is what it should be but while it is being written.
InPlace ==
    (\A p \in Proc : Writing(p) => ~install[p].opened) =>
        /\ I!UserPart(settings) = user
        /\ installed # None => I!Installed(agent, installed, settings)

SettingsInv == SettingsTyped /\ (settingsDisturbed \/ (Prepared /\ InPlace))

\* No install has begun.
LEMMA SettingsInit == I!Init => SettingsInv
<1> SUFFICES ASSUME I!Init PROVE SettingsInv
  OBVIOUS
<1>1. agent \in Agent /\ (\A p \in Proc : install[p] = None) /\ install \in [Proc -> {None}]
      /\ user = I!UserPart(settings) /\ installed = None
  BY DEF I!Init
<1>2. IsDocument(settings) /\ (agent = "opencode" => settings = Missing)
  <2>1. CASE agent = "opencode" BY <2>1 DEF I!Init, IsDocument
  <2>2. CASE agent # "opencode"
    <3>1. settings \in SettingsFile BY <2>2 DEF I!Init
    <3> QED BY <3>1, <2>2, StoresAssumption DEF I!DocumentAssumption, IsDocument
  <2> QED BY <2>1, <2>2
<1> QED BY <1>1, <1>2 DEF SettingsInv, SettingsTyped, Prepared, InPlace, Writing

\* Between installs the file is in place.
LEMMA SettingsStay == SettingsInv => I!SettingsKept
  BY DEF SettingsInv, Prepared, InPlace, Writing, I!SettingsKept, I!Idle

\* The invariant is about the variables of the settings only.
LEMMA SettingsStill == SettingsInv /\ UNCHANGED hookInstallVars => SettingsInv'
  BY DEF SettingsInv, SettingsTyped, Prepared, InPlace, Writing, hookInstallVars

\* What an install is about to write is an object.
LEMMA PendingIs ==
    ASSUME SettingsInv, NEW p \in Proc, Writing(p)
    PROVE  /\ \E events \in SUBSET HookEvent :
                install[p] \in [kb : Kb, doc : I!Settings(events), opened : BOOLEAN]
           /\ IsDocument(install[p].doc)
<1>1. PICK events \in SUBSET HookEvent : install[p] \in [kb : Kb, doc : I!Settings(events), opened : BOOLEAN]
  BY DEF SettingsInv, SettingsTyped, Writing
<1> QED BY <1>1 DEF IsDocument

\* An install that begins alone prepares what the file should be.
LEMMA InstallBegins ==
    ASSUME SettingsInv, NEW p \in Proc, NEW kb \in Kb, I!Begin(p, kb)
    PROVE  SettingsInv'
<1>1. CASE I!Panics(agent, settings)
  BY <1>1 DEF I!Begin, SettingsInv, SettingsTyped, Prepared, InPlace, Writing
<1>2. CASE ~I!Panics(agent, settings)
  <2> DEFINE doc == I!Wired(agent, kb, settings)
             mine == [kb |-> kb, doc |-> doc, opened |-> FALSE]
  <2>1. /\ install[p] = None /\ install' = [install EXCEPT ![p] = mine]
        /\ settingsDisturbed' = (settingsDisturbed \/ ~I!Idle \/ settings = Broken)
        /\ UNCHANGED <<agent, settings, user, installed>>
    BY <1>2 DEF I!Begin
  <2>2. /\ agent \in Agent /\ IsDocument(settings) /\ DOMAIN install = Proc
        /\ agent = "opencode" => user = I!UserPart(Missing)
    BY DEF SettingsInv, SettingsTyped
  <2>3. /\ \E events \in SUBSET HookEvent : doc \in I!Settings(events)
        /\ (agent = "opencode" => I!UserPart(settings) = I!UserPart(Missing)) =>
              I!UserPart(doc) = I!UserPart(settings)
        /\ I!Installed(agent, kb, doc)
    BY <1>2, <2>2, WiredIs
  <2> HIDE DEF doc
  <2>4. PICK events \in SUBSET HookEvent : doc \in I!Settings(events)
    BY <2>3
  <2>5. mine \in [kb : Kb, doc : I!Settings(events), opened : BOOLEAN]
    BY <2>4
  <2>6. mine # None /\ mine.opened = FALSE /\ mine.doc = doc /\ mine.kb = kb
    <3>1. None \notin [kb : Kb, doc : I!Settings(events), opened : BOOLEAN]
      BY StoresAssumption DEF I!DocumentAssumption
    <3> QED BY <2>5, <3>1
  <2> HIDE DEF mine
  <2>7. SettingsTyped'
    BY <2>1, <2>2, <2>5 DEF SettingsInv, SettingsTyped
  <2>8. ASSUME ~settingsDisturbed' PROVE Prepared' /\ InPlace'
    <3>1. /\ ~settingsDisturbed /\ \A q \in Proc : install[q] = None
          /\ InPlace
      BY <2>1, <2>8 DEF I!Idle, SettingsInv
    <3>2. I!UserPart(settings) = user /\ (installed # None => I!Installed(agent, installed, settings))
      BY <3>1 DEF InPlace, Writing
    <3>3. I!UserPart(doc) = user
      BY <2>2, <2>3, <3>2
    <3>4. install'[p] = mine /\ \A q \in Proc : q # p => install'[q] = None
      BY <2>1, <2>2, <3>1
    <3>5. Prepared'
      BY <2>1, <2>3, <2>6, <3>3, <3>4 DEF Prepared, Writing
    <3>6. InPlace'
      BY <2>1, <3>2 DEF InPlace
    <3> QED BY <3>5, <3>6
  <2> QED BY <2>7, <2>8 DEF SettingsInv
<1> QED BY <1>1, <1>2

\* Opening the file empties it, and what was prepared is kept.
LEMMA InstallOpens ==
    ASSUME SettingsInv, NEW p \in Proc, I!Open(p)
    PROVE  SettingsInv'
<1>1. /\ Writing(p) /\ settings' = Broken /\ install' = [install EXCEPT ![p].opened = TRUE]
      /\ UNCHANGED <<agent, user, installed, settingsDisturbed>> /\ DOMAIN install = Proc
  BY DEF I!Open, Writing, SettingsInv, SettingsTyped
<1>2. PICK events \in SUBSET HookEvent :
          install[p] \in [kb : Kb, doc : I!Settings(events), opened : BOOLEAN]
  BY <1>1, PendingIs
<1>3. install'[p] \in [kb : Kb, doc : I!Settings(events), opened : BOOLEAN]
      /\ install'[p].doc = install[p].doc /\ install'[p].kb = install[p].kb /\ install'[p].opened
      /\ \A q \in Proc : q # p => install'[q] = install[q]
  BY <1>1, <1>2
<1>4. install'[p] # None
  BY <1>3, StoresAssumption DEF I!DocumentAssumption
<1>5. SettingsTyped'
  <2>1. IsDocument(Broken) BY DEF IsDocument
  <2>2. DOMAIN install' = Proc BY <1>1
  <2>3. install' = [q \in Proc |-> install'[q]] BY <1>1
  <2>4. \A q \in Proc : install'[q] \in {None} \union
            UNION {[kb : Kb, doc : I!Settings(e), opened : BOOLEAN] : e \in SUBSET HookEvent}
    BY <1>3 DEF SettingsInv, SettingsTyped
  <2> QED BY <1>1, <2>1, <2>3, <2>4 DEF SettingsInv, SettingsTyped
<1>6. Prepared => Prepared'
  BY <1>1, <1>3, <1>4 DEF Prepared, Writing
<1>7. InPlace'
  BY <1>3, <1>4 DEF InPlace, Writing
<1> QED BY <1>1, <1>5, <1>6, <1>7 DEF SettingsInv

\* Then the file gets what was prepared.
LEMMA InstallFills ==
    ASSUME SettingsInv, NEW p \in Proc, I!Fill(p)
    PROVE  SettingsInv'
<1>1. /\ Writing(p) /\ install[p].opened /\ settings' = install[p].doc /\ installed' = install[p].kb
      /\ install' = [install EXCEPT ![p] = None]
      /\ UNCHANGED <<agent, user, settingsDisturbed>> /\ DOMAIN install = Proc
  BY DEF I!Fill, Writing, SettingsInv, SettingsTyped
<1>2. IsDocument(install[p].doc)
  BY <1>1, PendingIs
<1>3. SettingsTyped'
  BY <1>1, <1>2 DEF SettingsInv, SettingsTyped
<1>4. ASSUME Prepared PROVE Prepared' /\ InPlace'
  BY <1>1, <1>4 DEF Prepared, InPlace, Writing
<1> QED BY <1>1, <1>3, <1>4 DEF SettingsInv

\* An install that dies before it opens the file leaves it as it was.
LEMMA InstallDies ==
    ASSUME SettingsInv, NEW p \in Proc, I!Die(p)
    PROVE  SettingsInv'
<1>1. /\ Writing(p) /\ install' = [install EXCEPT ![p] = None]
      /\ settingsDisturbed' = (settingsDisturbed \/ install[p].opened)
      /\ UNCHANGED <<agent, settings, user, installed>> /\ DOMAIN install = Proc
  BY DEF I!Die, Writing, SettingsInv, SettingsTyped
<1>2. SettingsTyped'
  BY <1>1 DEF SettingsInv, SettingsTyped
<1>3. ASSUME ~settingsDisturbed' PROVE Prepared' /\ InPlace'
  BY <1>1, <1>3 DEF SettingsInv, Prepared, InPlace, Writing
<1> QED BY <1>2, <1>3 DEF SettingsInv

\* A save of the user's is the user's part from then on.
LEMMA SettingsSaved ==
    ASSUME SettingsInv, NEW d \in SettingsFile, I!Save(d)
    PROVE  SettingsInv'
<1>1. /\ agent # "opencode" /\ settings' = d /\ user' = I!UserPart(d) /\ installed' = None
      /\ settingsDisturbed' = (settingsDisturbed \/ ~I!Idle)
      /\ UNCHANGED <<agent, install>>
  BY DEF I!Save
<1>2. IsDocument(d)
  BY StoresAssumption DEF I!DocumentAssumption, IsDocument
<1>3. SettingsTyped'
  BY <1>1, <1>2 DEF SettingsInv, SettingsTyped
<1>4. ASSUME ~settingsDisturbed' PROVE Prepared' /\ InPlace'
  BY <1>1, <1>4 DEF I!Idle, Prepared, InPlace, Writing
<1> QED BY <1>3, <1>4 DEF SettingsInv

\* hook install ("idempotent merge"): installs and saves that do not overlap leave
\* the user's settings and handlers as they are, and each handler of the root that
\* was installed last once.
THEOREM SettingsSurvive == StoreSpec => []SettingsKept
<1> DEFINE Inv == part = "settings" => SettingsInv
<1>1. StoreInit => Inv
  BY SettingsInit DEF StoreInit, StoreStates
<1>2. Inv /\ [StoreNext]_storeVars => Inv'
  <2> SUFFICES ASSUME Inv, [StoreNext]_storeVars, part' = "settings" PROVE SettingsInv'
    OBVIOUS
  <2>1. part = "settings" /\ (I!Next \/ UNCHANGED hookInstallVars)
    BY DEF StoreNext, storeVars
  <2>2. ASSUME I!Next PROVE SettingsInv'
    BY <2>1, <2>2, InstallBegins, InstallOpens, InstallFills, InstallDies, SettingsSaved DEF I!Next
  <2> QED BY <2>1, <2>2, SettingsStill
<1>3. Inv => SettingsKept
  BY SettingsStay DEF SettingsKept
<1> QED
  BY <1>1, <1>2, <1>3, PTL DEF StoreSpec

-----------------------------------------------------------------------------
(***************************************************************************)
(* Graph: what a relate was checked for, the prefix of the journal that it *)
(* read still says; a query follows exactly the edges that hold.           *)
(***************************************************************************)

Prefix(l, n) == SubSeq(l, 1, n)

\* A relate that was checked, and one that was acknowledged, with the journal it read.
GraphInv ==
    /\ graphLog \in Seq(G!Line)
    /\ DOMAIN checked = Proc /\ checked = [p \in Proc |-> checked[p]]
    /\ \A p \in Proc : checked[p] # None =>
          /\ checked[p].args \in RelateLine
          /\ checked[p].seen \in 0 .. Len(graphLog)
          /\ G!Relatable(Prefix(graphLog, checked[p].seen), checked[p].args)
    /\ \A r \in acked :
          /\ r.at \in DOMAIN graphLog /\ r.seen \in 0 .. r.at - 1
          /\ graphLog[r.at] \in RelateLine
          /\ G!Relatable(Prefix(graphLog, r.seen), graphLog[r.at])
    /\ queryOutput # None =>
          \E q \in Question :
              /\ queryOutput.question = q
              /\ queryOutput.hits = G!Shown(graphLog, q).hits
              /\ queryOutput.truncated = G!Shown(graphLog, q).truncated

\* A journal that is found consists of lines.
LEMMA GraphInit == G!Init => GraphInv
<1> SUFFICES ASSUME G!Init PROVE GraphInv
  OBVIOUS
<1> USE DEF G!Init
<1>1. graphLog \in Seq(G!Line)
  BY StoresAssumption DEF G!LogAssumption
<1> QED
  BY <1>1 DEF GraphInv

\* Every command adds a line of its kind.
LEMMA GraphLines ==
    /\ NodeLine \subseteq G!Line /\ RelateLine \subseteq G!Line /\ RetractLine \subseteq G!Line
BY DEF G!Line

\* The prefix that a relate has read stays when the journal grows.
LEMMA PrefixStays ==
    ASSUME NEW e \in G!Line, graphLog \in Seq(G!Line), graphLog' = Append(graphLog, e)
    PROVE  /\ graphLog' \in Seq(G!Line)
           /\ Len(graphLog') = Len(graphLog) + 1
           /\ DOMAIN graphLog' = DOMAIN graphLog \union {Len(graphLog) + 1}
           /\ \A i \in DOMAIN graphLog : graphLog'[i] = graphLog[i]
           /\ graphLog'[Len(graphLog) + 1] = e
           /\ \A n \in 0 .. Len(graphLog) : Prefix(graphLog', n) = Prefix(graphLog, n)
<1>1. graphLog' \in Seq(G!Line) /\ Len(graphLog') = Len(graphLog) + 1
  OBVIOUS
<1>2. /\ DOMAIN graphLog' = DOMAIN graphLog \union {Len(graphLog) + 1}
      /\ \A i \in DOMAIN graphLog : graphLog'[i] = graphLog[i]
      /\ graphLog'[Len(graphLog) + 1] = e
  OBVIOUS
<1>3. ASSUME NEW n \in 0 .. Len(graphLog) PROVE Prefix(graphLog', n) = Prefix(graphLog, n)
  <2>1. SubSeq(graphLog, 1, n) = [i \in 1 .. n |-> graphLog[i]]
    BY <1>3
  <2>2. SubSeq(graphLog', 1, n) = [i \in 1 .. n |-> graphLog'[i]]
    BY <1>1, <1>3
  <2>3. \A i \in 1 .. n : graphLog'[i] = graphLog[i]
    BY <1>2
  <2> QED
    BY <2>1, <2>2, <2>3 DEF Prefix
<1> QED
  BY <1>1, <1>2, <1>3

\* Commands that add a line of their own keep what was read.
LEMMA GraphGrows ==
    ASSUME GraphInv, NEW e \in G!Line, graphLog' = Append(graphLog, e), queryOutput = None,
           UNCHANGED <<checked, acked, queryOutput>>
    PROVE  GraphInv'
<1> USE DEF GraphInv
<1>1. /\ graphLog' \in Seq(G!Line) /\ Len(graphLog) \in Nat /\ Len(graphLog') = Len(graphLog) + 1
      /\ DOMAIN graphLog = 1 .. Len(graphLog)
      /\ DOMAIN graphLog' = DOMAIN graphLog \union {Len(graphLog) + 1}
      /\ \A i \in DOMAIN graphLog : graphLog'[i] = graphLog[i]
      /\ \A n \in 0 .. Len(graphLog) : Prefix(graphLog', n) = Prefix(graphLog, n)
  BY PrefixStays
<1>2. ASSUME NEW p \in Proc, checked[p] # None
      PROVE  /\ checked[p].args \in RelateLine
             /\ checked[p].seen \in 0 .. Len(graphLog)'
             /\ G!Relatable(Prefix(graphLog', checked[p].seen), checked[p].args)
  BY <1>1, <1>2
<1>3. ASSUME NEW r \in acked
      PROVE  /\ r.at \in DOMAIN graphLog' /\ r.seen \in 0 .. r.at - 1
             /\ graphLog'[r.at] \in RelateLine
             /\ G!Relatable(Prefix(graphLog', r.seen), graphLog'[r.at])
  BY <1>1, <1>3
<1> QED
  BY <1>1, <1>2, <1>3 DEF Prefix

\* relate appends what was checked, and a query shows what the journal says.
LEMMA GraphStep == GraphInv /\ G!Next => GraphInv'
<1> SUFFICES ASSUME GraphInv, G!Next PROVE GraphInv'
  OBVIOUS
<1>1. ASSUME NEW a \in NodeLine, G!Node(a) PROVE GraphInv'
  BY <1>1, GraphGrows, GraphLines DEF G!Node, G!Busy
<1>2. ASSUME NEW a \in RetractLine, G!Retract(a) PROVE GraphInv'
  BY <1>2, GraphGrows, GraphLines DEF G!Retract, G!Busy
<1>3. ASSUME NEW p \in Proc, NEW a \in RelateLine, G!Check(p, a) PROVE GraphInv'
  <2> USE <1>3 DEF G!Check, G!Busy, GraphInv
  <2>1. Prefix(graphLog, Len(graphLog)) = graphLog
    BY DEF Prefix
  <2>2. checked'[p] = [args |-> a, seen |-> Len(graphLog)]
    OBVIOUS
  <2>3. \A x \in Proc : checked'[x] # None =>
          /\ checked'[x].args \in RelateLine
          /\ checked'[x].seen \in 0 .. Len(graphLog)
          /\ G!Relatable(Prefix(graphLog, checked'[x].seen), checked'[x].args)
    BY <2>1, <2>2
  <2> QED
    BY <2>3 DEF Prefix
<1>4. ASSUME NEW p \in Proc, G!Relate(p) PROVE GraphInv'
  <2> USE <1>4 DEF G!Relate, GraphInv
  <2>0. checked[p].args \in G!Line
    BY GraphLines
  <2>1. /\ graphLog' \in Seq(G!Line) /\ Len(graphLog) \in Nat /\ Len(graphLog') = Len(graphLog) + 1
        /\ DOMAIN graphLog = 1 .. Len(graphLog)
        /\ DOMAIN graphLog' = DOMAIN graphLog \union {Len(graphLog) + 1}
        /\ \A i \in DOMAIN graphLog : graphLog'[i] = graphLog[i]
        /\ graphLog'[Len(graphLog) + 1] = checked[p].args
        /\ \A n \in 0 .. Len(graphLog) : Prefix(graphLog', n) = Prefix(graphLog, n)
    BY <2>0, PrefixStays
  <2>2. ASSUME NEW x \in Proc, checked'[x] # None
        PROVE  /\ checked'[x].args \in RelateLine
               /\ checked'[x].seen \in 0 .. Len(graphLog)'
               /\ G!Relatable(Prefix(graphLog', checked'[x].seen), checked'[x].args)
    <3>1. checked'[x] = checked[x] /\ checked[x] # None
      BY <2>2
    <3> QED
      BY <2>1, <3>1
  <2>3. ASSUME NEW r \in acked'
        PROVE  /\ r.at \in DOMAIN graphLog' /\ r.seen \in 0 .. r.at - 1
               /\ graphLog'[r.at] \in RelateLine
               /\ G!Relatable(Prefix(graphLog', r.seen), graphLog'[r.at])
    <3>1. CASE r \in acked
      BY <2>1, <3>1
    <3>2. CASE r = [at |-> Len(graphLog) + 1, seen |-> checked[p].seen]
      BY <2>1, <3>2
    <3> QED
      BY <3>1, <3>2
  <2> QED
    BY <2>1, <2>2, <2>3 DEF Prefix
<1>5. ASSUME NEW q \in Question, G!Query(q) PROVE GraphInv'
  <2> USE <1>5 DEF G!Query, GraphInv
  <2>1. /\ queryOutput'.question = q
        /\ queryOutput'.hits = G!Shown(graphLog, q).hits
        /\ queryOutput'.truncated = G!Shown(graphLog, q).truncated
    OBVIOUS
  <2> QED
    BY <2>1 DEF Prefix
<1> QED
  BY <1>1, <1>2, <1>3, <1>4, <1>5 DEF G!Next

LEMMA GraphStill == GraphInv /\ UNCHANGED graphVars => GraphInv'
BY DEF GraphInv, graphVars

\* The journal at two times, where nothing has upserted x since: its fields are the same.
LEMMA LastIs ==
    ASSUME NEW l, NEW x, NEW f, Len(l) \in Nat, DOMAIN l = 1 .. Len(l), G!Carrying(l, x, f) # {}
    PROVE  G!Max(G!Carrying(l, x, f)) \in G!Carrying(l, x, f)
<1> DEFINE Set == G!Carrying(l, x, f)
<1>1. Set \subseteq 1 .. Len(l)
  BY DEF G!Carrying
<1> DEFINE Bound == {n \in Nat : \A m \in Set : m <= n}
<1>2. PICK n \in Bound : \A m \in Bound : n <= m
  <2>1. Len(l) \in Bound /\ Bound \in SUBSET Nat
    BY <1>1
  <2> HIDE DEF Bound
  <2> QED
    BY <2>1, LeastNat
<1>3. n \in Set
  <2>1. SUFFICES ASSUME n \notin Set PROVE FALSE
    OBVIOUS
  <2>2. \A m \in Set : m \in Nat /\ m > 0 /\ m < n
    BY <1>1, <1>2, <2>1
  <2>3. n - 1 \in Bound
    BY <2>2, <1>1
  <2> QED
    BY <1>2, <2>3
<1>4. \A m \in Set : n >= m
  BY <1>1, <1>2
<1> HIDE DEF Set, Bound
<1>5. G!Max(Set) \in Set
  BY <1>3, <1>4 DEF G!Max
<1> QED
  BY <1>5 DEF Set

LEMMA FieldStays ==
    ASSUME NEW l \in Seq(G!Line), NEW n \in 0 .. Len(l), NEW x, NEW f,
           \A i \in n + 1 .. Len(l) : l[i].op = "node" => l[i].id # x
    PROVE  G!Field(l, x, f) = G!Field(Prefix(l, n), x, f)
<1>0. Len(l) \in Nat /\ DOMAIN l = 1 .. Len(l)
  OBVIOUS
<1>1. /\ Prefix(l, n) \in Seq(G!Line) /\ Len(Prefix(l, n)) = n /\ DOMAIN Prefix(l, n) = 1 .. n
      /\ \A i \in 1 .. n : Prefix(l, n)[i] = l[i]
  BY <1>0 DEF Prefix
<1>2. G!Carrying(l, x, f) = G!Carrying(Prefix(l, n), x, f)
  BY <1>0, <1>1 DEF G!Carrying, G!Upsert
<1>3. CASE G!Carrying(l, x, f) = {}
  BY <1>2, <1>3 DEF G!Field
<1>4. CASE G!Carrying(l, x, f) # {}
  <2> DEFINE last == G!Max(G!Carrying(l, x, f))
  <2>1. last \in G!Carrying(Prefix(l, n), x, f)
    BY <1>0, <1>2, <1>4, LastIs
  <2>2. last \in 1 .. n
    BY <1>1, <2>1 DEF G!Carrying
  <2> HIDE DEF last
  <2>3. l[last][f] = Prefix(l, n)[last][f]
    BY <1>1, <2>2
  <2> QED
    BY <1>2, <1>4, <2>3 DEF G!Field, last
<1> QED
  BY <1>3, <1>4

\* A node that has a kind is known.
LEMMA KnownByKind ==
    ASSUME NEW l \in Seq(G!Line), NEW n \in 0 .. Len(l), NEW x, x \notin Address,
           G!Kind(Prefix(l, n), x) # None
    PROVE  G!Known(l, x)
<1>0. Len(l) \in Nat /\ DOMAIN l = 1 .. Len(l)
  OBVIOUS
<1>1. /\ DOMAIN Prefix(l, n) = 1 .. n
      /\ \A i \in 1 .. n : Prefix(l, n)[i] = l[i]
  BY <1>0 DEF Prefix
<1>2. G!Carrying(Prefix(l, n), x, "kind") # {}
  BY DEF G!Kind, G!Field
<1>3. PICK i \in 1 .. n : G!Upsert(l[i], x)
  BY <1>1, <1>2 DEF G!Carrying
<1> QED
  BY <1>0, <1>3 DEF G!Known

\* What is legal without a provenance is legal with any.
LEMMA ValidAnyway ==
    ASSUME NEW from, NEW kind, NEW to, NEW p, G!Valid(from, kind, to, None)
    PROVE  G!Valid(from, kind, to, p)
BY DEF G!Valid, G!HasProvenance

\* What relate acknowledged, a query follows while the ends are what they were
\* and the edge holds.
LEMMA RelatedIsFollowed ==
    ASSUME NEW l \in Seq(G!Line), NEW at \in DOMAIN l, NEW seen \in 0 .. at - 1, NEW q,
           l[at] \in RelateLine, ~l[at].dangling, G!Relatable(Prefix(l, seen), l[at]),
           G!Canonical(l[at]), l[at].to \notin Address, G!Known(l, l[at].from),
           \A i \in seen + 1 .. Len(l) : l[i].op = "node" => l[i].id \notin {l[at].from, l[at].to},
           q.expired \/ G!HoldsAt(l, at, q.asOf),
           ~\E j \in at + 1 .. Len(l) : l[j].op = "retract" /\ G!SameEdge(l[at], l[j])
    PROVE  at \in G!Followed(l, q)
<1> DEFINE e == l[at]
<1>0. Len(l) \in Nat /\ DOMAIN l = 1 .. Len(l) /\ seen \in 0 .. Len(l)
  OBVIOUS
<1>1. /\ G!Kind(l, e.from) = G!Kind(Prefix(l, seen), e.from)
      /\ G!Kind(l, e.to) = G!Kind(Prefix(l, seen), e.to)
  <2>1. ASSUME NEW x \in {e.from, e.to} PROVE G!Field(l, x, "kind") = G!Field(Prefix(l, seen), x, "kind")
    BY <1>0, FieldStays
  <2> QED
    BY <2>1 DEF G!Kind
<1>2. G!Kind(Prefix(l, seen), e.from) # None /\ G!Kind(Prefix(l, seen), e.to) # None
  BY DEF G!Relatable
<1>3. G!Valid(G!Kind(l, e.from), e.kind, G!Kind(l, e.to), e.provenance)
  BY <1>1, <1>2 DEF G!Relatable
<1>4. G!Valid(G!Kind(l, e.from), e.kind, G!Kind(l, e.to), G!Provenance(l, at))
  <2>1. CASE e.provenance = None
    BY <1>3, <2>1, ValidAnyway
  <2>2. CASE e.provenance # None
    BY <1>3, <2>2 DEF G!Provenance
  <2> QED
    BY <2>1, <2>2
<1>5. G!Known(l, e.to)
  BY <1>0, <1>2, KnownByKind
<1>6. e.op = "assert"
  BY StoresAssumption DEF G!LogAssumption
<1>7. at \in G!Edges(l, q.asOf, q.expired)
  BY <1>6 DEF G!Edges
<1>8. ~G!Retracted(l, at)
  BY <1>0 DEF G!Retracted
<1> QED
  BY <1>4, <1>5, <1>7, <1>8 DEF G!Followed

\* The recursion of Layers; a query goes three steps.
Reach(l, q, layer, d) ==
    IF d = 0 THEN G!Seeds(l, q.text)
    ELSE {l[i].to : i \in {j \in G!Followed(l, q) : l[j].from \in layer[d - 1]}}
         \ UNION {layer[c] : c \in 0 .. d - 1}

Layered(l, q, layer) == layer = [d \in 0 .. G!MaxDepth |-> Reach(l, q, layer, d)]

\* There is such a function,
LEMMA LayersExist ==
    ASSUME NEW l, NEW q
    PROVE  \E layer : Layered(l, q, layer)
<1> DEFINE Step(S) == {l[i].to : i \in {j \in G!Followed(l, q) : l[j].from \in S}}
           s0 == G!Seeds(l, q.text)
           s1 == Step(s0) \ s0
           s2 == Step(s1) \ (s0 \union s1)
           s3 == Step(s2) \ (s0 \union s1 \union s2)
           layer == [d \in 0 .. 3 |-> IF d = 0 THEN s0 ELSE IF d = 1 THEN s1 ELSE IF d = 2 THEN s2 ELSE s3]
<1>1. layer[0] = s0 /\ layer[1] = s1 /\ layer[2] = s2 /\ layer[3] = s3
  OBVIOUS
<1>2. DOMAIN layer = 0 .. 3
  OBVIOUS
<1> HIDE DEF layer
<1>3. /\ UNION {layer[c] : c \in 0 .. 0} = s0
      /\ UNION {layer[c] : c \in 0 .. 1} = s0 \union s1
      /\ UNION {layer[c] : c \in 0 .. 2} = s0 \union s1 \union s2
  <2> HIDE DEF s0, s1, s2, s3
  <2>0. 0 .. 0 = {0} /\ 0 .. 1 = {0, 1} /\ 0 .. 2 = {0, 1, 2}
    OBVIOUS
  <2>1. UNION {layer[c] : c \in {0}} = s0
    BY <1>1
  <2>2. UNION {layer[c] : c \in {0, 1}} = s0 \union s1
    BY <1>1
  <2>3. UNION {layer[c] : c \in {0, 1, 2}} = s0 \union s1 \union s2
    BY <1>1
  <2> QED
    BY <2>0, <2>1, <2>2, <2>3
<1>4. Reach(l, q, layer, 0) = layer[0]
  BY <1>1 DEF Reach
<1>5. Reach(l, q, layer, 1) = layer[1]
  <2>1. Reach(l, q, layer, 1) = Step(layer[0]) \ UNION {layer[c] : c \in 0 .. 0}
    BY DEF Reach
  <2> HIDE DEF Step, s0
  <2> QED
    BY <1>1, <1>3, <2>1
<1>6. Reach(l, q, layer, 2) = layer[2]
  <2>1. Reach(l, q, layer, 2) = Step(layer[1]) \ UNION {layer[c] : c \in 0 .. 1}
    BY DEF Reach
  <2> HIDE DEF Step, s0, s1
  <2> QED
    BY <1>1, <1>3, <2>1
<1>7. Reach(l, q, layer, 3) = layer[3]
  <2>1. Reach(l, q, layer, 3) = Step(layer[2]) \ UNION {layer[c] : c \in 0 .. 2}
    BY DEF Reach
  <2> HIDE DEF Step, s0, s1, s2
  <2> QED
    BY <1>1, <1>3, <2>1
<1>8. \A d \in 0 .. 3 : layer[d] = Reach(l, q, layer, d)
  <2>1. 0 .. 3 = {0, 1, 2, 3}
    OBVIOUS
  <2> QED
    BY <1>4, <1>5, <1>6, <1>7, <2>1
<1>9. layer = [d \in 0 .. 3 |-> layer[d]]
  BY DEF layer
<1>10. Layered(l, q, layer)
  BY <1>8, <1>9 DEF Layered, G!MaxDepth
<1> QED
  BY <1>10

\* and Layers is one.
LEMMA LayersAre ==
    ASSUME NEW l, NEW q
    PROVE  /\ G!Layers(l, q)[0] = G!Seeds(l, q.text)
           /\ \A d \in 1 .. 3 : G!Layers(l, q)[d] =
                {l[i].to : i \in {j \in G!Followed(l, q) : l[j].from \in G!Layers(l, q)[d - 1]}}
                \ UNION {G!Layers(l, q)[c] : c \in 0 .. d - 1}
<1> DEFINE layer == G!Layers(l, q)
<1>1. layer = CHOOSE f : Layered(l, q, f)
  BY DEF G!Layers, Layered, Reach
<1>2. Layered(l, q, layer)
  BY <1>1, LayersExist
<1> HIDE DEF layer
<1>3. \A d \in 0 .. 3 : layer[d] = Reach(l, q, layer, d)
  BY <1>2 DEF Layered, G!MaxDepth
<1>4. layer[0] = G!Seeds(l, q.text)
  BY <1>3 DEF Reach
<1>5. ASSUME NEW d \in 1 .. 3
      PROVE  layer[d] = {l[i].to : i \in {j \in G!Followed(l, q) : l[j].from \in layer[d - 1]}}
                        \ UNION {layer[c] : c \in 0 .. d - 1}
  <2>1. d \in 0 .. 3 /\ d # 0
    OBVIOUS
  <2> QED
    BY <1>3, <2>1 DEF Reach
<1> QED
  BY <1>4, <1>5 DEF layer

\* A hit is a node in a layer.
LEMMA HitsAre ==
    ASSUME NEW l, NEW q
    PROVE  /\ \A h \in G!Hits(l, q) : /\ h = [id |-> h.id, depth |-> h.depth] /\ h.depth \in 0 .. 3
                                      /\ h.id \in G!Layers(l, q)[h.depth]
           /\ \A d \in 0 .. 3 : \A n \in G!Layers(l, q)[d] : [id |-> n, depth |-> d] \in G!Hits(l, q)
<1> DEFINE layer == G!Layers(l, q)
<1>1. G!Hits(l, q) = UNION {{[id |-> n, depth |-> d] : n \in layer[d]} : d \in 0 .. 3}
  BY DEF G!Hits, G!MaxDepth
<1> HIDE DEF layer
<1>2. ASSUME NEW h \in G!Hits(l, q)
      PROVE  h = [id |-> h.id, depth |-> h.depth] /\ h.depth \in 0 .. 3 /\ h.id \in layer[h.depth]
  <2>1. PICK d \in 0 .. 3 : h \in {[id |-> n, depth |-> d] : n \in layer[d]}
    BY <1>1, <1>2
  <2>2. PICK n \in layer[d] : h = [id |-> n, depth |-> d]
    BY <2>1
  <2> QED
    BY <2>2
<1>3. ASSUME NEW d \in 0 .. 3, NEW n \in layer[d] PROVE [id |-> n, depth |-> d] \in G!Hits(l, q)
  BY <1>1
<1> QED
  BY <1>2, <1>3 DEF layer

\* Every hit is a known node: at depth 0 it matches, beyond it an edge to it is followed.
LEMMA HitsAreKnown ==
    ASSUME NEW l \in Seq(G!Line), NEW q, NEW h \in G!Hits(l, q)
    PROVE  G!Known(l, h.id)
<1>1. h.depth \in 0 .. 3 /\ h.id \in G!Layers(l, q)[h.depth]
  BY HitsAre
<1>2. CASE h.depth = 0
  <2>1. h.id \in G!Seeds(l, q.text)
    BY <1>1, <1>2, LayersAre
  <2> QED
    BY <2>1 DEF G!Seeds, G!Known, G!Upsert
<1>3. CASE h.depth # 0
  <2>1. h.depth \in 1 .. 3
    BY <1>1, <1>3
  <2>2. PICK i \in G!Followed(l, q) : h.id = l[i].to
    BY <1>1, <2>1, LayersAre
  <2> QED
    BY <2>2 DEF G!Followed
<1> QED
  BY <1>2, <1>3

\* There are finitely many.
LEMMA HitsAreFinite ==
    ASSUME NEW l \in Seq(G!Line), NEW q
    PROVE  IsFiniteSet(G!Hits(l, q))
<1> DEFINE At == {i \in DOMAIN l : l[i].op = "node"}
           Ids == {l[i].id : i \in At}
           All == {[id |-> x[1], depth |-> x[2]] : x \in Ids \X (0 .. 3)}
<1>1. IsFiniteSet(At)
  <2>1. Len(l) \in Nat /\ DOMAIN l = 1 .. Len(l)
    OBVIOUS
  <2>2. IsFiniteSet(1 .. Len(l))
    BY <2>1, FS_Interval
  <2> QED
    BY <2>1, <2>2, FS_Subset
<1>2. IsFiniteSet(Ids)
  <2>1. [i \in At |-> l[i].id] \in Surjection(At, Ids)
    BY DEF Surjection
  <2> HIDE DEF At, Ids
  <2> QED
    BY <1>1, <2>1, FS_Surjection
<1>3. IsFiniteSet(Ids \X (0 .. 3))
  <2>1. IsFiniteSet(0 .. 3)
    <3>1. 0 \in Int /\ 3 \in Int
      OBVIOUS
    <3> QED
      BY <3>1, FS_Interval, Zenon
  <2> HIDE DEF Ids
  <2> QED
    BY <1>2, <2>1, FS_Product
<1>4. IsFiniteSet(All)
  <2> HIDE DEF Ids
  <2>1. [x \in Ids \X (0 .. 3) |-> [id |-> x[1], depth |-> x[2]]] \in Surjection(Ids \X (0 .. 3), All)
    BY DEF Surjection
  <2> HIDE DEF All
  <2> QED
    BY <1>3, <2>1, FS_Surjection
<1>5. ASSUME NEW h \in G!Hits(l, q) PROVE h \in All
  <2>1. h = [id |-> h.id, depth |-> h.depth] /\ h.depth \in 0 .. 3
    BY HitsAre
  <2>2. h.id \in Ids
    BY HitsAreKnown DEF G!Known, G!Upsert
  <2>3. <<h.id, h.depth>> \in Ids \X (0 .. 3)
    BY <2>1, <2>2
  <2> HIDE DEF Ids
  <2> QED
    BY <2>1, <2>3
<1> HIDE DEF All
<1> QED
  BY <1>4, <1>5, FS_Subset

\* The number of hits, as Graph counts them.
LEMMA SameCardinality == ASSUME NEW S PROVE G!Cardinality(S) = Cardinality(S)
BY DEF Cardinality, G!Cardinality

\* What a query that is not truncated has found, it shows.
LEMMA AllShown ==
    ASSUME NEW l \in Seq(G!Line), NEW q \in Question, ~G!Shown(l, q).truncated, NEW h \in G!Hits(l, q)
    PROVE  h \in G!Shown(l, q).hits
<1> DEFINE hits == G!Hits(l, q)
           before == G!Ranked(hits, h)
<1>1. IsFiniteSet(hits)
  BY HitsAreFinite
<1>2. q.limit \in Nat /\ q.limit <= 100 /\ Cardinality(hits) <= G!Min({q.limit, 100})
  <2>1. q.limit \in Nat
    BY StoresAssumption DEF G!LogAssumption
  <2>2. G!Min({q.limit, 100}) \in {q.limit, 100}
    BY <2>1 DEF G!Min
  <2>3. q.limit <= 100 /\ ~(G!Cardinality(hits) > G!Min({q.limit, 100}))
    <3>1. G!Shown(l, q).truncated =
              (q.limit = 0 \/ q.limit > 100 \/ G!Cardinality(hits) > G!Min({q.limit, 100}))
      BY DEF G!Shown, G!MaxLimit
    <3>2. ~(q.limit = 0 \/ q.limit > 100 \/ G!Cardinality(hits) > G!Min({q.limit, 100}))
      BY <3>1, Zenon
    <3> QED
      BY <2>1, <3>2
  <2>4. Cardinality(hits) \in Nat /\ G!Cardinality(hits) = Cardinality(hits)
    <3> HIDE DEF hits
    <3> QED
      BY <1>1, FS_CardinalityType, SameCardinality
  <2> QED
    BY <2>1, <2>2, <2>3, <2>4
<1>3. h.depth \in 0 .. 3 /\ h.id \in Nat
  <2>1. h.depth \in 0 .. 3
    BY HitsAre
  <2>2. PICK i \in DOMAIN l : l[i].op = "node" /\ l[i].id = h.id
    BY HitsAreKnown DEF G!Known, G!Upsert
  <2>3. l[i] \in G!Line
    OBVIOUS
  <2> QED
    BY <2>1, <2>2, <2>3, StoresAssumption DEF G!LogAssumption
<1>4. before \in SUBSET hits /\ before # hits
  BY <1>3 DEF G!Ranked
<1>5. Cardinality(before) < Cardinality(hits) /\ Cardinality(before) \in Nat
  <2> HIDE DEF hits, before
  <2>1. /\ IsFiniteSet(before) /\ Cardinality(before) <= Cardinality(hits)
        /\ Cardinality(hits) # Cardinality(before)
    BY <1>1, <1>4, FS_Subset
  <2> QED
    BY <1>1, <2>1, FS_CardinalityType
<1>6. G!Cardinality(before) < G!Min({q.limit, 100})
  <2>1. Cardinality(hits) \in Nat
    <3> HIDE DEF hits
    <3> QED
      BY <1>1, FS_CardinalityType
  <2>2. G!Min({q.limit, 100}) \in {q.limit, 100}
    BY <1>2 DEF G!Min
  <2> HIDE DEF hits, before
  <2> QED
    BY <1>2, <1>5, <2>1, <2>2, SameCardinality
<1> QED
  BY <1>6 DEF G!Shown, G!MaxLimit

\* What is nearer than a hit that is shown, is shown.
LEMMA NearerShown ==
    ASSUME NEW l \in Seq(G!Line), NEW q \in Question, NEW h \in G!Shown(l, q).hits, NEW g \in G!Hits(l, q),
           g.depth < h.depth
    PROVE  g \in G!Shown(l, q).hits
<1> DEFINE hits == G!Hits(l, q)
           limit == G!Min({q.limit, 100})
<1>1. /\ G!Shown(l, q).hits = {x \in hits : G!Cardinality(G!Ranked(hits, x)) < limit}
  BY DEF G!Shown, G!MaxLimit
<1>2. h \in hits /\ Cardinality(G!Ranked(hits, h)) < limit
  BY <1>1, SameCardinality
<1>3. g.depth \in 0 .. 3 /\ h.depth \in 0 .. 3 /\ \A x \in hits : x.depth \in 0 .. 3
  BY <1>2, HitsAre
<1>4. G!Ranked(hits, g) \subseteq G!Ranked(hits, h) /\ G!Ranked(hits, h) \subseteq hits
  BY <1>3 DEF G!Ranked
<1>5. IsFiniteSet(hits)
  BY HitsAreFinite
<1> HIDE DEF hits
<1>6. IsFiniteSet(G!Ranked(hits, h))
  BY <1>4, <1>5, FS_Subset
<1>7. /\ Cardinality(G!Ranked(hits, g)) <= Cardinality(G!Ranked(hits, h))
      /\ IsFiniteSet(G!Ranked(hits, g))
  BY <1>4, <1>6, FS_Subset
<1>8. Cardinality(G!Ranked(hits, g)) \in Nat /\ Cardinality(G!Ranked(hits, h)) \in Nat
  BY <1>6, <1>7, FS_CardinalityType
<1>9. limit \in Nat
  <2>1. q.limit \in Nat
    BY StoresAssumption DEF G!LogAssumption
  <2>2. G!Min({q.limit, 100}) \in {q.limit, 100}
    BY <2>1 DEF G!Min
  <2> QED
    BY <2>1, <2>2
<1>10. Cardinality(G!Ranked(hits, g)) < limit
  BY <1>2, <1>7, <1>8, <1>9
<1> QED
  BY <1>1, <1>10, SameCardinality DEF hits

\* One step from a hit along a followed edge leads to a hit, no farther than that.
LEMMA NextHit ==
    ASSUME NEW l \in Seq(G!Line), NEW q, NEW h \in G!Hits(l, q), h.depth < 3,
           NEW i \in G!Followed(l, q), l[i].from = h.id
    PROVE  \E g \in G!Hits(l, q) : g.id = l[i].to /\ g.depth <= h.depth + 1
<1> DEFINE layer == G!Layers(l, q)
<1>1. h.depth \in 0 .. 3 /\ h.id \in layer[h.depth] /\ h.depth + 1 \in 1 .. 3 /\ h.depth + 1 - 1 = h.depth
  BY HitsAre
<1>2. \/ l[i].to \in layer[h.depth + 1]
      \/ \E c \in 0 .. h.depth : l[i].to \in layer[c]
  <2>1. layer[h.depth + 1] =
            {l[j].to : j \in {k \in G!Followed(l, q) : l[k].from \in layer[h.depth]}}
            \ UNION {layer[c] : c \in 0 .. h.depth}
    BY <1>1, LayersAre
  <2> HIDE DEF layer
  <2> QED
    BY <1>1, <2>1
<1>3. PICK c \in 0 .. 3 : c <= h.depth + 1 /\ l[i].to \in layer[c]
  BY <1>1, <1>2
<1>4. [id |-> l[i].to, depth |-> c] \in G!Hits(l, q)
  BY <1>3, HitsAre
<1> QED
  BY <1>3, <1>4

\* A hit beyond the seeds has one a step nearer, and a followed edge from there.
LEMMA HitBefore ==
    ASSUME NEW l \in Seq(G!Line), NEW q, NEW h \in G!Hits(l, q), h.depth > 0
    PROVE  \E g \in G!Hits(l, q), i \in G!Followed(l, q) :
              l[i].from = g.id /\ l[i].to = h.id /\ g.depth = h.depth - 1 /\ g.depth < h.depth
<1> DEFINE layer == G!Layers(l, q)
<1>1. h.depth \in 1 .. 3 /\ h.id \in layer[h.depth] /\ h.depth - 1 \in 0 .. 3
  BY HitsAre
<1>2. PICK i \in G!Followed(l, q) : l[i].to = h.id /\ l[i].from \in layer[h.depth - 1]
  BY <1>1, LayersAre
<1>3. [id |-> l[i].from, depth |-> h.depth - 1] \in G!Hits(l, q)
  BY <1>1, <1>2, HitsAre
<1> QED
  BY <1>1, <1>2, <1>3

\* What a query has shown, relate had acknowledged and edges lead to.
LEMMA GraphFollows == GraphInv => G!QueryFollows
<1> SUFFICES ASSUME GraphInv, queryOutput # None PROVE G!QueryFollows
  BY DEF G!QueryFollows
<1> DEFINE l == graphLog
<1>1. PICK q \in Question :
          /\ queryOutput.question = q
          /\ queryOutput.hits = G!Shown(l, q).hits
          /\ queryOutput.truncated = G!Shown(l, q).truncated
  BY DEF GraphInv
<1>2. l \in Seq(G!Line)
  BY DEF GraphInv
<1>3. \A h \in G!Shown(l, q).hits : h \in G!Hits(l, q)
  BY DEF G!Shown
<1>4. ASSUME NEW r \in acked,
             ~l[r.at].dangling, G!Canonical(l[r.at]), G!Undisturbed(r), l[r.at].to \notin Address,
             q.expired \/ G!HoldsAt(l, r.at, q.asOf),
             ~\E j \in r.at + 1 .. Len(l) : l[j].op = "retract" /\ G!SameEdge(l[r.at], l[j]),
             ~queryOutput.truncated,
             NEW h \in queryOutput.hits, h.id = l[r.at].from, h.depth < 3
      PROVE  \E g \in queryOutput.hits : g.id = l[r.at].to /\ g.depth <= h.depth + 1
  <2>1. /\ r.at \in DOMAIN l /\ r.seen \in 0 .. r.at - 1 /\ l[r.at] \in RelateLine
        /\ G!Relatable(Prefix(l, r.seen), l[r.at])
    BY DEF GraphInv
  <2>2. h \in G!Hits(l, q) /\ G!Known(l, l[r.at].from)
    BY <1>1, <1>2, <1>3, <1>4, HitsAreKnown
  <2>3. \A i \in r.seen + 1 .. Len(l) : l[i].op = "node" => l[i].id \notin {l[r.at].from, l[r.at].to}
    BY <1>4 DEF G!Undisturbed
  <2>4. r.at \in G!Followed(l, q)
    <3> HIDE DEF l
    <3> QED
      BY <1>2, <1>4, <2>1, <2>2, <2>3, RelatedIsFollowed
  <2>5. PICK g \in G!Hits(l, q) : g.id = l[r.at].to /\ g.depth <= h.depth + 1
    BY <1>2, <1>4, <2>2, <2>4, NextHit
  <2>6. g \in queryOutput.hits
    BY <1>1, <1>2, <1>4, <2>5, AllShown
  <2> QED
    BY <2>5, <2>6
<1>5. ASSUME NEW h \in queryOutput.hits, h.depth > 0
      PROVE  \E g \in queryOutput.hits, i \in DOMAIN l :
                /\ l[i].op = "assert" /\ l[i].from = g.id /\ l[i].to = h.id
                /\ g.depth = h.depth - 1
                /\ G!Canonical(l[i]) /\ (q.expired \/ G!HoldsAt(l, i, q.asOf))
                /\ \A j \in i + 1 .. Len(l) : l[j].op = "retract" => ~G!SameEdge(l[i], l[j])
  <2>1. PICK g \in G!Hits(l, q), i \in G!Followed(l, q) :
            l[i].from = g.id /\ l[i].to = h.id /\ g.depth = h.depth - 1 /\ g.depth < h.depth
    BY <1>1, <1>2, <1>3, <1>5, HitBefore
  <2>2. g \in queryOutput.hits
    BY <1>1, <1>2, <1>5, <2>1, NearerShown
  <2>3. /\ i \in DOMAIN l /\ l[i].op = "assert" /\ G!Canonical(l[i])
        /\ q.expired \/ G!HoldsAt(l, i, q.asOf)
        /\ ~G!Retracted(l, i)
    BY DEF G!Followed, G!Edges
  <2>4. \A j \in i + 1 .. Len(l) : l[j].op = "retract" => ~G!SameEdge(l[i], l[j])
    <3>1. Len(l) \in Nat /\ DOMAIN l = 1 .. Len(l)
      BY <1>2
    <3> QED
      BY <2>3, <3>1 DEF G!Retracted
  <2> QED
    BY <2>1, <2>2, <2>3, <2>4
<1> QED
  BY <1>1, <1>4, <1>5 DEF G!QueryFollows, G!MaxDepth

\* graph relate and query.  An edge that relate reported is followed by every
\* query for which it holds while the journal says the same of its ends, and
\* every hit is reached by edges that hold.
THEOREM QueriesFollow == StoreSpec => []QueryFollows
<1> DEFINE PartInv == part = "graph" => GraphInv
<1>1. StoreInit => PartInv
  BY GraphInit DEF StoreInit, StoreStates
<1>2. PartInv /\ [StoreNext]_storeVars => PartInv'
  <2> SUFFICES ASSUME PartInv, [StoreNext]_storeVars, part' = "graph" PROVE GraphInv'
    OBVIOUS
  <2>1. part = "graph"
    BY DEF StoreNext, storeVars
  <2>2. CASE G!Next
    BY <2>1, <2>2, GraphStep
  <2>3. CASE UNCHANGED graphVars
    BY <2>1, <2>3, GraphStill
  <2> QED
    BY <2>1, <2>2, <2>3 DEF StoreNext, storeVars
<1>3. PartInv => QueryFollows
  BY GraphFollows DEF QueryFollows
<1> QED
  BY <1>1, <1>2, <1>3, PTL DEF StoreSpec

-----------------------------------------------------------------------------
(***************************************************************************)
(* Finalize.                                                               *)
(***************************************************************************)

FP == INSTANCE FinalizeProofs WITH
        at <- finalizeAt, i <- position, edits <- finalizeEdits, Content <- Data

\* Finalize, and Finalize as FinalizeProofs extends it, are the same specification.
LEMMA FinalizeSame ==
    /\ F!PlanAssumption => FP!PlanAssumption
    /\ F!Init => FP!Init
    /\ F!Next => FP!Next
    /\ FP!ReleasedWhole => F!ReleasedWhole
<1>1. \A x : F!InCollection(x) <=> FP!InCollection(x)
  BY DEF F!InCollection, FP!InCollection
<1>2. \A x : F!At(x) = FP!At(x)
  BY DEF F!At, FP!At, F!InCollection, FP!InCollection
<1>3. \A p : F!Entries(p) = FP!Entries(p) /\ F!Names(p) = FP!Names(p)
  BY DEF F!Entries, FP!Entries, F!Names, FP!Names
<1>4. \A p : F!Paths(p) = FP!Paths(p)
  BY <1>3 DEF F!Paths, FP!Paths
<1>5. \A s : F!Distinct(s) <=> FP!Distinct(s)
  BY DEF F!Distinct, FP!Distinct, F!Cardinality, FP!Cardinality
<1>6. \A e, b : F!Verified(e, b) <=> FP!Verified(e, b)
  BY <1>1, <1>2 DEF F!Verified, FP!Verified
<1>7. \A p : F!Valid(p) <=> FP!Valid(p)
  BY <1>3, <1>4, <1>5, <1>6 DEF F!Valid, FP!Valid
<1>8. F!PlanAssumption => FP!PlanAssumption
  BY <1>1, <1>3 DEF F!PlanAssumption, FP!PlanAssumption, F!IsList, FP!IsList, F!FileName, FP!FileName
<1>9. F!Init => FP!Init
  BY DEF F!Init, FP!Init
<1>10. /\ \A p, s : F!Goto(p, s) <=> FP!Goto(p, s)
       /\ \A p : F!Cleared(p) <=> FP!Cleared(p)
       /\ \A p : F!NextFinal(p) = FP!NextFinal(p)
       /\ \A p : F!AllStaged(p) <=> FP!AllStaged(p)
       /\ \A p : F!Target(p) = FP!Target(p)
  BY <1>3 DEF F!Goto, FP!Goto, F!Cleared, FP!Cleared, F!NextFinal, FP!NextFinal, F!AllStaged,
     FP!AllStaged, F!Target, FP!Target
<1>11. \A p : F!CopyIsGood(p) <=> FP!CopyIsGood(p)
  BY <1>2, <1>10 DEF F!CopyIsGood, FP!CopyIsGood
<1>12. \A p : F!Published(p) = FP!Published(p)
  BY DEF F!Published, FP!Published, F!Names, FP!Names
<1>13. \A x : F!Gone(x) <=> FP!Gone(x)
  BY <1>1 DEF F!Gone, FP!Gone
<1>14. \A p, q : F!Begin(p, q) => FP!Begin(p, q)
  BY <1>7, <1>10 DEF F!Begin, FP!Begin
<1>15. \A p : F!Copy(p) => FP!Copy(p)
  BY <1>2, <1>10, <1>11 DEF F!Copy, FP!Copy
<1>16. \A p : F!GiveUp(p) => FP!GiveUp(p)
  BY <1>10, <1>11 DEF F!GiveUp, FP!GiveUp
<1>17. \A p : F!Publish(p) => FP!Publish(p)
  BY <1>10, <1>12 DEF F!Publish, FP!Publish
<1>18. \A p : F!CheckSource(p) => FP!CheckSource(p)
  BY <1>2, <1>3, <1>10 DEF F!CheckSource, FP!CheckSource
<1>19. \A p : F!Remove(p) => FP!Remove(p)
  BY <1>2, <1>10, <1>13 DEF F!Remove, FP!Remove
<1>20. \A p : F!AppendNode(p) => FP!AppendNode(p)
  BY <1>3, <1>10 DEF F!AppendNode, FP!AppendNode
<1>21. \A p : F!Die(p) => FP!Die(p)
  BY <1>10 DEF F!Die, FP!Die
<1>22. \A x : F!Edit(x) => FP!Edit(x)
  BY DEF F!Edit, FP!Edit, F!runVars, FP!runVars
<1>23. F!Next => FP!Next
  BY <1>14, <1>15, <1>16, <1>17, <1>18, <1>19, <1>20, <1>21, <1>22 DEF F!Next, FP!Next
<1>24. FP!ReleasedWhole => F!ReleasedWhole
  <2>1. \A x, s : F!Entry(x, s) = FP!Entry(x, s)
    BY DEF F!Entry, FP!Entry
  <2>2. \A c : F!Planned(c) = FP!Planned(c)
    BY <1>3, <2>1 DEF F!Planned, FP!Planned
  <2>3. FP!PublishedWhole => F!PublishedWhole
    BY <1>2, <2>2 DEF F!PublishedWhole, FP!PublishedWhole
  <2>4. FP!NodeIsReleased => F!NodeIsReleased
    BY <1>3 DEF F!NodeIsReleased, FP!NodeIsReleased
  <2> QED BY <2>3, <2>4 DEF F!ReleasedWhole, FP!ReleasedWhole
<1> QED BY <1>8, <1>9, <1>23, <1>24

\* finalize::apply (artifact/finalize.rs): what FinalizeProofs proves of the component
\* holds where it is one of the stores.
THEOREM ReleasesSurvive == StoreSpec => []ReleasedWhole
<1> DEFINE Here == part = "finalize"
<1>1. FP!PlanAssumption => (FP!Spec => []FP!ReleasedWhole)
  BY FP!CollectionsReleased
<1>2. FP!Spec => []FP!ReleasedWhole
  BY <1>1, FinalizeSame, StoresAssumption
<1>3. StoreInit => (Here => FP!Init)
  BY FinalizeSame DEF StoreInit, StoreStates
<1>4. [StoreNext]_storeVars => (Here => [FP!Next]_FP!vars) /\ (Here <=> Here')
  BY FinalizeSame DEF StoreNext, storeVars, finalizeVars, FP!vars, FP!runVars
<1>5. FP!ReleasedWhole => ReleasedWhole
  BY FinalizeSame DEF ReleasedWhole
<1>6. ~Here => ReleasedWhole
  BY DEF ReleasedWhole
<1> QED
  BY <1>2, <1>3, <1>4, <1>5, <1>6, PTL DEF StoreSpec, FP!Spec

-----------------------------------------------------------------------------
(***************************************************************************)
(* ArtifactStore: an add writes the bytes before the provenance and the    *)
(* node, so the first node finds them stored.                              *)
(***************************************************************************)
BytesHeld == {Absent, Torn, Whole}

BytesTyped ==
    /\ artifactDir \in [A!Target -> BytesHeld]
    /\ artifactTemp \in [A!Target -> BytesHeld]
    /\ artifactAt \in [Adder -> {"idle", "store", "create", "write", "rename", "node", "edge", "done"}]
    /\ target \in [Adder -> A!Target]
    /\ handle \in [Adder -> {"temp", "dir", "gone"}]
    /\ artifactTorn \in BOOLEAN
    /\ \A p \in Adder : artifactAt[p] = "node" => target[p] = A!Provenance

\* The bytes are stored, or on their way through a file that is in place.
BytesStored ==
    \/ A!Reusable # {}
    \/ artifactTorn
    \/ \E t \in Ext : A!Writing(t)

TempFilling(t) == \E p \in Adder : target[p] = t /\ handle[p] = "temp" /\ artifactAt[p] = "write"

\* A temporary file that an add is going to rename is full, or is being filled.
TempsFilled ==
    \A t \in Ext :
        artifactTemp[t] = Torn
        /\ (\E p \in Adder : artifactAt[p] \in {"write", "rename"} /\ target[p] = t)
        => artifactTorn \/ TempFilling(t)

\* Past the bytes, an add writes the provenance: by then they are stored.
BytesFirst == node # {} \/ (\E p \in Adder : target[p] = A!Provenance) => BytesStored

BytesInv == BytesTyped /\ TempsFilled /\ BytesFirst

\* Before any add there is no node.
LEMMA BytesInit ==
    ASSUME A!StoreAssumption, A!Init
    PROVE  BytesInv
<1>1. BytesTyped
  BY DEF A!StoreAssumption, A!Init, BytesTyped, BytesHeld, A!Target
<1>2. TempsFilled
  BY DEF A!Init, TempsFilled
<1>3. BytesFirst
  BY DEF A!StoreAssumption, A!Init, BytesFirst, A!Target
<1> QED BY <1>1, <1>2, <1>3 DEF BytesInv

\* Every step of an add keeps the types.
LEMMA BytesTypeStep ==
    ASSUME A!StoreAssumption, BytesTyped, A!Next
    PROVE  BytesTyped'
<1> USE DEF BytesTyped, BytesHeld, A!Goto
<1>1. A!Provenance \in A!Target
  BY DEF A!Target
<1>2. ASSUME NEW p \in Adder, A!Begin(p) PROVE BytesTyped'
  BY <1>2 DEF A!Begin
<1>3. ASSUME NEW p \in Adder, A!Store(p) PROVE BytesTyped'
  BY <1>1, <1>3 DEF A!Store
<1>4. ASSUME NEW p \in Adder, A!Create(p) PROVE BytesTyped'
  BY <1>4 DEF A!Create
<1>5. ASSUME NEW p \in Adder, A!Write(p) PROVE BytesTyped'
  <2>1. \A old : A!Filled(p, old) \subseteq {Torn, Whole}
    BY DEF A!Filled
  <2> QED BY <1>5, <2>1 DEF A!Write
<1>6. ASSUME NEW p \in Adder, A!Rename(p) PROVE BytesTyped'
  BY <1>1, <1>6 DEF A!Rename
<1>7. ASSUME NEW p \in Adder, A!AppendNode(p) PROVE BytesTyped'
  BY <1>7 DEF A!AppendNode
<1>8. ASSUME NEW p \in Adder, A!AppendEdge(p) PROVE BytesTyped'
  BY <1>8 DEF A!AppendEdge
<1>9. ASSUME NEW p \in Adder, A!Die(p) PROVE BytesTyped'
  BY <1>9 DEF A!Die
<1> QED BY <1>2, <1>3, <1>4, <1>5, <1>6, <1>7, <1>8, <1>9 DEF A!Next

\* write_atomic: who renames a temporary file that is not full is filling it, or one died at it.
LEMMA TempsStep ==
    ASSUME A!StoreAssumption, BytesTyped, TempsFilled, A!Next
    PROVE  TempsFilled'
<1> USE DEF BytesTyped, TempsFilled, TempFilling, A!Goto
<1>1. ASSUME NEW p \in Adder, A!Begin(p) PROVE TempsFilled'
  BY <1>1 DEF A!Begin
<1>2. ASSUME NEW p \in Adder, A!Store(p) PROVE TempsFilled'
  BY <1>2 DEF A!Store
<1>3. ASSUME NEW p \in Adder, A!Create(p) PROVE TempsFilled'
  BY <1>3 DEF A!Create
<1>4. ASSUME NEW p \in Adder, A!Write(p) PROVE TempsFilled'
  <2>1. ASSUME NEW t \in Ext, artifactTemp'[t] = Torn
        PROVE  ~(target[p] = t /\ handle[p] = "temp")
    BY <1>4, <2>1 DEF A!Write, A!Filled, A!StoreAssumption, A!Target
  <2>2. \A t \in Ext : artifactTemp'[t] = Torn => artifactTemp[t] = Torn
    BY <1>4, <2>1 DEF A!Write, A!Target
  <2> QED BY <1>4, <2>1, <2>2 DEF A!Write
<1>5. ASSUME NEW p \in Adder, A!Rename(p) PROVE TempsFilled'
  BY <1>5 DEF A!Rename, A!StoreAssumption, A!Target
<1>6. ASSUME NEW p \in Adder, A!AppendNode(p) PROVE TempsFilled'
  BY <1>6 DEF A!AppendNode
<1>7. ASSUME NEW p \in Adder, A!AppendEdge(p) PROVE TempsFilled'
  BY <1>7 DEF A!AppendEdge
\* An add that dies while it fills the file leaves it to none, or the file counts as torn.
<1>8. ASSUME NEW p \in Adder, A!Die(p) PROVE TempsFilled'
  <2> SUFFICES ASSUME NEW t \in Ext, artifactTemp'[t] = Torn, ~artifactTorn',
                      NEW r \in Adder, artifactAt'[r] \in {"write", "rename"}, target'[r] = t
               PROVE  TempFilling(t)'
    BY DEF TempsFilled
  <2>1. /\ artifactAt' = [artifactAt EXCEPT ![p] = "done"] /\ handle' = [handle EXCEPT ![p] = "gone"]
        /\ UNCHANGED <<artifactTemp, target>> /\ ~artifactTorn /\ ~(artifactAt[p] = "write" /\ A!Shared(p))
    BY <1>8 DEF A!Die
  <2>2. r # p /\ artifactAt[r] \in {"write", "rename"} /\ target[r] = t
    BY <2>1
  <2>3. PICK q \in Adder : target[q] = t /\ handle[q] = "temp" /\ artifactAt[q] = "write"
    BY <2>1, <2>2
  <2>4. q # p
    BY <2>1, <2>2, <2>3 DEF A!Shared
  <2> QED BY <2>1, <2>3, <2>4
<1> QED BY <1>1, <1>2, <1>3, <1>4, <1>5, <1>6, <1>7, <1>8 DEF A!Next

\* Once stored the bytes stay: a rename puts a full file in place, or one that
\* is being filled, or one that counts as torn.
LEMMA BytesStay ==
    ASSUME A!StoreAssumption, BytesTyped, TempsFilled, A!Next, BytesStored
    PROVE  BytesStored'
<1> USE DEF BytesTyped, BytesStored, A!Reusable, A!Writing, A!Goto
<1>1. ASSUME NEW p \in Adder, A!Begin(p) PROVE BytesStored'
  BY <1>1 DEF A!Begin
<1>2. ASSUME NEW p \in Adder, A!Store(p) PROVE BytesStored'
  BY <1>2 DEF A!Store
<1>3. ASSUME NEW p \in Adder, A!Create(p) PROVE BytesStored'
  BY <1>3 DEF A!Create
<1>4. ASSUME NEW p \in Adder, A!Write(p) PROVE BytesStored'
  <2>1. CASE handle[p] = "dir" /\ target[p] \in Ext
    BY <1>4, <2>1 DEF A!Write, A!Filled, A!Target
  <2>2. CASE handle[p] # "dir"
    BY <1>4, <2>2 DEF A!Write
  <2>3. CASE handle[p] = "dir" /\ target[p] \notin Ext
    <3>1. \A t \in Ext : artifactDir'[t] = artifactDir[t]
      BY <1>4, <2>3 DEF A!Write, A!Target
    <3> QED BY <1>4, <2>3, <3>1 DEF A!Write
  <2> QED BY <2>1, <2>2, <2>3
<1>5. ASSUME NEW p \in Adder, A!Rename(p) PROVE BytesStored'
  BY <1>5 DEF A!Rename, TempsFilled, TempFilling, A!StoreAssumption, A!Target, BytesHeld
<1>6. ASSUME NEW p \in Adder, A!AppendNode(p) PROVE BytesStored'
  BY <1>6 DEF A!AppendNode
<1>7. ASSUME NEW p \in Adder, A!AppendEdge(p) PROVE BytesStored'
  BY <1>7 DEF A!AppendEdge
<1>8. ASSUME NEW p \in Adder, A!Die(p) PROVE BytesStored'
  BY <1>8 DEF A!Die, A!Shared
<1> QED BY <1>1, <1>2, <1>3, <1>4, <1>5, <1>6, <1>7, <1>8 DEF A!Next

\* A rename that puts the bytes in place stores them.
LEMMA RenameStoresBytes ==
    ASSUME A!StoreAssumption, BytesTyped, TempsFilled, NEW p \in Adder, A!Rename(p), target[p] \in Ext,
           artifactTemp[target[p]] # Absent
    PROVE  BytesStored'
<1> USE DEF BytesTyped, BytesStored, A!Reusable, A!Writing
<1>1. PICK t \in Ext : t = target[p]
  OBVIOUS
<1>2. /\ artifactAt[p] = "rename" /\ artifactDir'[t] = artifactTemp[t] /\ artifactTemp[t] # Absent /\ UNCHANGED artifactTorn
      /\ artifactAt' = [artifactAt EXCEPT ![p] = "create"] /\ target' = [target EXCEPT ![p] = A!Provenance]
      /\ \A q \in Adder \ {p} : target[q] = t /\ handle[q] = "temp" => handle'[q] = "dir"
  BY <1>1 DEF A!Rename, A!Goto, A!Target
<1>3. CASE artifactTemp[t] = Whole
  BY <1>2, <1>3
<1>4. CASE artifactTemp[t] = Torn
  <2>1. artifactTorn \/ TempFilling(t)
    BY <1>1, <1>2, <1>4 DEF TempsFilled
  <2>2. ASSUME NEW q \in Adder, target[q] = t, handle[q] = "temp", artifactAt[q] = "write"
        PROVE  A!Writing(t)'
    <3>1. q # p
      BY <1>2, <2>2
    <3> QED BY <1>2, <2>2, <3>1
  <2> QED BY <1>2, <2>1, <2>2 DEF TempFilling
<1> QED BY <1>2, <1>3, <1>4 DEF BytesHeld, A!Target

\* add: the provenance, and with it the node, comes after the bytes.
LEMMA BytesStep ==
    ASSUME A!StoreAssumption, BytesInv, A!Next
    PROVE  BytesFirst'
<1> USE DEF BytesInv, BytesFirst, BytesTyped, A!Goto
<1>1. CASE BytesStored
  BY <1>1, BytesStay
<1>2. CASE ~BytesStored
  <2>1. node = {} /\ \A p \in Adder : target[p] # A!Provenance /\ artifactAt[p] # "node"
    BY <1>2
  <2>2. ASSUME NEW p \in Adder, A!Store(p) PROVE BytesFirst'
    <3>1. ~A!Reuses(p)
      BY <1>2 DEF A!Reuses, BytesStored, A!Reusable, A!StoreAssumption
    <3> QED BY <2>1, <2>2, <3>1 DEF A!Store
  <2>3. ASSUME NEW p \in Adder, A!Rename(p) PROVE BytesFirst'
    <3>1. target[p] \in Ext
      BY <2>1 DEF A!Target
    <3>2. CASE artifactTemp[target[p]] # Absent
      BY <2>3, <3>1, <3>2, RenameStoresBytes
    <3>3. CASE artifactTemp[target[p]] = Absent
      BY <2>1, <2>3, <3>3 DEF A!Rename
    <3> QED BY <3>2, <3>3
  <2>4. ASSUME NEW p \in Adder, A!Begin(p) \/ A!Create(p) \/ A!Write(p) \/ A!AppendEdge(p) \/ A!Die(p)
        PROVE  BytesFirst'
    <3>1. UNCHANGED <<node, target>>
      BY <2>4 DEF A!Begin, A!Create, A!Write, A!AppendEdge, A!Die
    <3> QED BY <2>1, <3>1
  <2>5. ASSUME NEW p \in Adder, A!AppendNode(p) PROVE FALSE
    BY <2>1, <2>5 DEF A!AppendNode
  <2> QED BY <2>2, <2>3, <2>4, <2>5 DEF A!Next
<1> QED BY <1>1, <1>2

\* The invariant is about the variables of the store only.
LEMMA BytesStill ==
    ASSUME BytesInv, UNCHANGED artifactStoreVars
    PROVE  BytesInv'
<1>1. BytesTyped'
  BY DEF artifactStoreVars, BytesInv, BytesTyped
<1>2. TempsFilled'
  BY DEF artifactStoreVars, BytesInv, TempsFilled, TempFilling
<1>3. BytesFirst'
  BY DEF artifactStoreVars, BytesInv, BytesFirst, BytesStored, A!Reusable, A!Writing
<1> QED BY <1>1, <1>2, <1>3 DEF BytesInv

\* artifact add (artifact.rs): for any number of adds under any names, and deaths,
\* write_atomic and the order of add give every artifact with a node its bytes, but
\* for adds that died over a temporary file they shared.
THEOREM BytesSurvive == StoreSpec => []NodeHasBytes
<1> DEFINE PartInv == part = "artifact" => BytesInv
<1>1. StoreInit => PartInv
  BY StoresAssumption, BytesInit DEF StoreInit, StoreStates
<1>2. PartInv /\ [StoreNext]_storeVars => PartInv'
  <2> SUFFICES ASSUME PartInv, [StoreNext]_storeVars, part' = "artifact" PROVE BytesInv'
    OBVIOUS
  <2>1. part = "artifact"
    BY DEF StoreNext, storeVars
  <2>2. CASE A!Next
    BY <2>1, <2>2, StoresAssumption, BytesTypeStep, TempsStep, BytesStep DEF BytesInv
  <2>3. CASE UNCHANGED artifactStoreVars
    BY <2>1, <2>3, BytesStill
  <2> QED
    BY <2>1, <2>2, <2>3 DEF StoreNext, storeVars
<1>3. PartInv => NodeHasBytes
  BY DEF BytesInv, BytesFirst, BytesStored, NodeHasBytes, A!NodeHasBytes
<1> QED
  BY <1>1, <1>2, <1>3, PTL DEF StoreSpec
=============================================================================
