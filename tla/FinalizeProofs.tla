---------------------------- MODULE FinalizeProofs ----------------------------
(***************************************************************************)
(* Proofs about Finalize: for any number of runs, plans, files and edits,  *)
(* a published collection holds the planned bytes, and a node stands for a *)
(* release that went through.                                              *)
(***************************************************************************)
EXTENDS Finalize, TLAPS, FiniteSetTheorems

-----------------------------------------------------------------------------
(***************************************************************************)
(* The inductive invariant.                                                *)
(***************************************************************************)
TypeInv ==
    /\ \A c \in Collection : collections[c] = None \/ \E S \in SUBSET FileName : collections[c] \in [S -> Content]
    /\ DOMAIN collections = Collection
    /\ applied \in [Collection -> Plan \union {None}]
    /\ graph \subseteq Collection
    /\ at \in [Proc -> {"idle", "copy", "check", "remove", "done"}]
    /\ plan \in [Proc -> Plan \union {None}]
    /\ staged \in [Proc -> Seq(Content)]
    /\ i \in [Proc -> Nat]
    /\ \A p \in Proc : at[p] \in {"copy", "check", "remove"} => plan[p] \in Plan

\* What a run has copied is what its plan says.
CopiedInv ==
    \A p \in Proc :
        /\ at[p] = "idle" => staged[p] = << >>
        /\ at[p] = "copy" =>
            /\ Distinct(Names(plan[p]))
            /\ Len(staged[p]) <= Len(plan[p].finals)
            /\ \A j \in 1 .. Len(staged[p]) : staged[p][j] = plan[p].finals[j].sha

IsRemoved(x) == \E r \in removed : r.path = x

\* Each final is in the collection as planned, or was removed from it.
Kept(c, j) ==
    LET n == applied[c].finals[j].path[2]
    IN \/ n \in DOMAIN collections[c] /\ collections[c][n] = applied[c].finals[j].sha
       \/ IsRemoved(<<c, n>>)

CollectionInv ==
    \A c \in Collection : collections[c] # None =>
        /\ applied[c] \in Plan
        /\ \A j \in DOMAIN applied[c].finals : Kept(c, j)

\* A run that removes files has published its plan, and what it has passed is gone.
RemovedInv ==
    \A p \in Proc : at[p] \in {"check", "remove"} =>
        /\ collections[plan[p].collection] # None
        /\ applied[plan[p].collection] = plan[p]
        /\ i[p] >= 1
        /\ \A j \in DOMAIN Entries(plan[p]) : j < i[p] => IsRemoved(Entries(plan[p])[j].path)
        /\ at[p] = "remove" => i[p] \in DOMAIN Entries(plan[p])

IInv == TypeInv /\ CopiedInv /\ CollectionInv /\ RemovedInv /\ NodeIsReleased

-----------------------------------------------------------------------------
(***************************************************************************)
(* Lemmas.                                                                 *)
(***************************************************************************)

\* The two lists of a plan.
LEMMA PlanLists ==
    ASSUME PlanAssumption, NEW q \in Plan
    PROVE  /\ Len(q.finals) \in Nat /\ DOMAIN q.finals = 1 .. Len(q.finals)
           /\ Len(Entries(q)) \in Nat /\ DOMAIN Entries(q) = 1 .. Len(Entries(q))
<1>1. PICK S : q.finals \in Seq(S) /\ q.removals \in Seq(S)
  <2> DEFINE A == {q.finals[j] : j \in DOMAIN q.finals}
             B == {q.removals[j] : j \in DOMAIN q.removals}
  <2>1. q.finals \in Seq(A) /\ q.removals \in Seq(B)
    BY DEF PlanAssumption, IsList
  <2> HIDE DEF A, B
  <2>2. q.finals \in Seq(A \union B) /\ q.removals \in Seq(A \union B)
    BY <2>1
  <2> QED BY <2>2
<1>2. Entries(q) \in Seq(S)
  BY <1>1 DEF Entries
<1> QED BY <1>1, <1>2

\* Names that a plan has each once are those of one final each.
LEMMA NamesOnce ==
    ASSUME PlanAssumption, NEW q \in Plan, Distinct(Names(q))
    PROVE  \A j, k \in DOMAIN q.finals : q.finals[j].path[2] = q.finals[k].path[2] => j = k
<1> DEFINE s == Names(q)
           n == Len(q.finals)
           S == {s[j] : j \in DOMAIN s}
<1>1. n \in Nat /\ DOMAIN q.finals = 1 .. n
  BY PlanLists
<1>2. DOMAIN s = 1 .. n /\ \A j \in 1 .. n : s[j] = q.finals[j].path[2]
  BY <1>1 DEF Names
<1>3. s \in [1 .. n -> S]
  BY <1>2 DEF Names
<1>4. Cardinality(S) = n
  <2>1. s \in Seq(S) /\ Len(s) = n
    BY <1>1, <1>2, <1>3
  <2> QED BY <2>1 DEF Distinct
<1> HIDE DEF s, n
<1>5. s \in Surjection(1 .. n, S)
  BY <1>2, <1>3 DEF Surjection
<1>6. IsFiniteSet(1 .. n) /\ Cardinality(1 .. n) = n
  <2>1. 1 \in Int /\ n \in Int
    BY <1>1
  <2> QED BY <2>1, <1>1, FS_Interval
<1>7. s \in Injection(1 .. n, S)
  BY <1>4, <1>5, <1>6, FS_SurjSameCardinalityImpliesInj
<1> QED BY <1>1, <1>2, <1>7 DEF Injection, IsInjective

\* What a run publishes: every final under its name.
LEMMA PublishedFinals ==
    ASSUME PlanAssumption, TypeInv, CopiedInv, NEW p \in Proc, at[p] = "copy", AllStaged(p)
    PROVE  /\ \E S \in SUBSET FileName : Published(p) \in [S -> Content]
           /\ Published(p) # None
           /\ \A j \in DOMAIN plan[p].finals :
                 LET n == plan[p].finals[j].path[2]
                 IN n \in DOMAIN Published(p) /\ Published(p)[n] = plan[p].finals[j].sha
<1> DEFINE q == plan[p]
           f == staged[p]
           S == {Names(q)[j] : j \in DOMAIN f}
           Of(n) == CHOOSE j \in DOMAIN f : Names(q)[j] = n
<1>1. q \in Plan /\ f \in Seq(Content) /\ Distinct(Names(q))
  BY DEF TypeInv, CopiedInv
<1>2. DOMAIN f = DOMAIN q.finals /\ \A j \in DOMAIN f : f[j] = q.finals[j].sha
  <2>1. DOMAIN q.finals = 1 .. Len(q.finals)
    BY <1>1, PlanLists
  <2>2. DOMAIN f = 1 .. Len(f)
    BY <1>1
  <2>3. Len(f) = Len(q.finals)
    BY DEF AllStaged
  <2>4. \A j \in 1 .. Len(f) : f[j] = q.finals[j].sha
    BY DEF CopiedInv
  <2> QED BY <2>1, <2>2, <2>3, <2>4
<1>3. \A j \in DOMAIN f : Names(q)[j] = q.finals[j].path[2]
  BY <1>2 DEF Names
<1>4. Published(p) = [n \in S |-> f[Of(n)]]
  BY DEF Published
<1> HIDE DEF q, f
<1>5. \A n \in S : Of(n) \in DOMAIN f /\ Names(q)[Of(n)] = n
  OBVIOUS
<1>6. \A j \in DOMAIN f : Of(Names(q)[j]) = j
  <2> TAKE j \in DOMAIN f
  <2>1. Of(Names(q)[j]) \in DOMAIN f /\ Names(q)[Of(Names(q)[j])] = Names(q)[j]
    BY <1>5
  <2>2. q.finals[Of(Names(q)[j])].path[2] = q.finals[j].path[2]
    BY <1>3, <2>1
  <2> QED BY <1>1, <1>2, <2>1, <2>2, NamesOnce
<1> HIDE DEF Of
<1>7. \A j \in DOMAIN f : f[j] \in Content
  BY <1>1
<1>8. Published(p) \in [S -> Content] /\ S \in SUBSET FileName
  <2>1. Published(p) \in [S -> Content]
    BY <1>4, <1>5, <1>7
  <2>2. S \subseteq FileName
    BY <1>1, <1>2, <1>3 DEF FileName, q
  <2> QED BY <2>1, <2>2
<1>9. \A j \in DOMAIN f : Names(q)[j] \in S /\ Published(p)[Names(q)[j]] = f[j]
  BY <1>4, <1>6
<1>10. DOMAIN Published(p) = S
  BY <1>4
<1> HIDE DEF S
<1>11. Published(p) # None
  BY <1>8 DEF PlanAssumption
<1> QED BY <1>2, <1>3, <1>8, <1>9, <1>10, <1>11 DEF q

LEMMA InitInv ==
    ASSUME PlanAssumption, Init
    PROVE  IInv
<1> USE DEF Init
<1>1. TypeInv
  BY DEF TypeInv
<1>2. CopiedInv /\ CollectionInv /\ RemovedInv /\ NodeIsReleased
  BY DEF CopiedInv, CollectionInv, RemovedInv, NodeIsReleased
<1> QED BY <1>1, <1>2 DEF IInv

\* A file that a run removes from a collection was in it; the rest of it stays.
Emptied(x) ==
    /\ x[1] \in Collection /\ x = <<x[1], x[2]>>
    /\ collections[x[1]] # None
    /\ \E S \in SUBSET FileName : collections'[x[1]] \in [S -> Content]
    /\ DOMAIN collections' = Collection
    /\ \A c \in Collection : c # x[1] => collections'[c] = collections[c]
    /\ \A n : n \in DOMAIN collections[x[1]] /\ n # x[2] =>
          /\ n \in DOMAIN collections'[x[1]]
          /\ collections'[x[1]][n] = collections[x[1]][n]

LEMMA GoneFromCollection ==
    ASSUME PlanAssumption, TypeInv, NEW q \in Plan, NEW j \in DOMAIN Entries(q),
           NEW x, x = Entries(q)[j].path, InCollection(x), At(x) # Absent, Gone(x)
    PROVE  Emptied(x)
<1>1. x[1] \in Collection /\ x = <<x[1], x[2]>>
  BY DEF PlanAssumption
<1>2. collections[x[1]] # None
  BY DEF At
<1>3. PICK S \in SUBSET FileName : collections[x[1]] \in [S -> Content]
  BY <1>1, <1>2 DEF TypeInv
<1>4. collections' = [collections EXCEPT ![x[1]] =
                         [n \in DOMAIN collections[x[1]] \ {x[2]} |-> collections[x[1]][n]]]
  BY DEF Gone
<1>5. DOMAIN collections = Collection
  BY DEF TypeInv
<1>6. collections'[x[1]] = [n \in S \ {x[2]} |-> collections[x[1]][n]]
  BY <1>1, <1>3, <1>4, <1>5
<1>7. collections'[x[1]] \in [S \ {x[2]} -> Content]
  BY <1>3, <1>6
<1>8. DOMAIN collections' = Collection /\ \A c \in Collection : c # x[1] => collections'[c] = collections[c]
  BY <1>4, <1>5
<1>9. \A n : n \in DOMAIN collections[x[1]] /\ n # x[2] =>
         n \in DOMAIN collections'[x[1]] /\ collections'[x[1]][n] = collections[x[1]][n]
  BY <1>3, <1>6
<1> QED BY <1>1, <1>2, <1>7, <1>8, <1>9 DEF Emptied

LEMMA TypeStep ==
    ASSUME PlanAssumption, TypeInv, CopiedInv, RemovedInv, Next
    PROVE  TypeInv'
<1> USE DEF TypeInv, Goto
<1>0. PlanAssumption
  OBVIOUS
<1>1. ASSUME NEW p \in Proc, NEW q \in Plan, Begin(p, q) PROVE TypeInv'
  BY <1>1 DEF Begin
<1>2. ASSUME NEW p \in Proc, Copy(p) PROVE TypeInv'
  <2>1. NextFinal(p).sha \in Content
    <3>1. plan[p] \in Plan /\ staged[p] \in Seq(Content)
      BY <1>2 DEF Copy
    <3>2. Len(staged[p]) + 1 \in DOMAIN plan[p].finals
      BY <1>2, <3>1, PlanLists DEF Copy, AllStaged, CopiedInv
    <3> QED BY <3>1, <3>2 DEF PlanAssumption, NextFinal
  <2>2. staged' = [staged EXCEPT ![p] = Append(@, NextFinal(p).sha)]
    BY <1>2 DEF Copy, CopyIsGood
  <2> QED BY <1>2, <2>1, <2>2 DEF Copy
<1>3. ASSUME NEW p \in Proc, GiveUp(p) PROVE TypeInv'
  BY <1>3 DEF GiveUp, Cleared
<1>4. ASSUME NEW p \in Proc, Publish(p) PROVE TypeInv'
  <2>1. plan[p] \in Plan /\ plan[p].collection \in Collection
    BY <1>4 DEF Publish, PlanAssumption
  <2>2. \E S \in SUBSET FileName : Published(p) \in [S -> Content]
    BY <1>4, PublishedFinals DEF Publish
  <2> QED BY <1>4, <2>1, <2>2 DEF Publish
<1>5. ASSUME NEW p \in Proc, CheckSource(p) PROVE TypeInv'
  <2>1. UNCHANGED <<collections, applied, graph>>
    BY <1>5 DEF CheckSource
  <2>2. CASE Goto(p, "remove") /\ UNCHANGED <<plan, staged, i>>
    BY <1>5, <2>1, <2>2 DEF CheckSource
  <2>3. CASE Goto(p, "done") /\ Cleared(p)
    BY <2>1, <2>3 DEF Cleared
  <2> QED BY <1>5, <2>2, <2>3 DEF CheckSource
<1>6. ASSUME NEW p \in Proc, Remove(p) PROVE TypeInv'
  <2> DEFINE x == Target(p).path
  <2>1. plan[p] \in Plan /\ i[p] \in DOMAIN Entries(plan[p])
    BY <1>6 DEF Remove, RemovedInv
  <2>2. /\ \A c \in Collection : collections'[c] = None \/ \E S \in SUBSET FileName : collections'[c] \in [S -> Content]
        /\ DOMAIN collections' = Collection
    <3>1. CASE UNCHANGED collections
      BY <3>1
    <3>2. CASE At(x) # Absent /\ Gone(x) /\ InCollection(x)
      <4>1. Emptied(x)
        BY <2>1, <3>2, GoneFromCollection DEF Target
      <4> QED BY <4>1 DEF TypeInv, Emptied
    <3> QED BY <1>6, <3>1, <3>2 DEF Remove, Gone
  <2>3. UNCHANGED <<applied, graph>> /\ at[p] = "remove"
    BY <1>6 DEF Remove
  <2>4. CASE i' = [i EXCEPT ![p] = @ + 1] /\ Goto(p, "check") /\ UNCHANGED <<plan, staged>>
    BY <2>2, <2>3, <2>4
  <2>5. CASE Goto(p, "done") /\ Cleared(p)
    BY <2>2, <2>3, <2>5 DEF Cleared
  <2> QED BY <1>6, <2>4, <2>5 DEF Remove
<1>7. ASSUME NEW p \in Proc, AppendNode(p) PROVE TypeInv'
  <2>1. plan[p].collection \in Collection
    BY <1>7 DEF AppendNode, PlanAssumption
  <2> QED BY <1>7, <2>1 DEF AppendNode, Cleared
<1>8. ASSUME NEW p \in Proc, Die(p) PROVE TypeInv'
  BY <1>8 DEF Die, Cleared
<1>9. ASSUME NEW x \in Path, Edit(x) PROVE TypeInv'
  BY <1>9 DEF Edit, runVars
<1> QED BY <1>1, <1>2, <1>3, <1>4, <1>5, <1>6, <1>7, <1>8, <1>9 DEF Next

LEMMA CopiedStep ==
    ASSUME PlanAssumption, TypeInv, CopiedInv, Next
    PROVE  CopiedInv'
<1> USE DEF Goto
<1>1. ASSUME NEW p \in Proc, NEW q \in Plan, Begin(p, q) PROVE CopiedInv'
  <2>1. Distinct(Names(q)) /\ staged[p] = << >> /\ Len(q.finals) \in Nat
    BY <1>1, PlanLists DEF Begin, Valid, CopiedInv
  <2> QED BY <1>1, <2>1 DEF Begin, CopiedInv, TypeInv
<1>2. ASSUME NEW p \in Proc, Copy(p) PROVE CopiedInv'
  <2>1. plan[p] \in Plan /\ staged[p] \in Seq(Content) /\ Len(plan[p].finals) \in Nat
    BY <1>2, PlanLists DEF Copy, TypeInv
  <2>2. staged' = [staged EXCEPT ![p] = Append(@, NextFinal(p).sha)] /\ UNCHANGED <<at, plan>>
    BY <1>2 DEF Copy, CopyIsGood
  <2>3. Len(staged[p]) + 1 <= Len(plan[p].finals)
    BY <1>2, <2>1 DEF Copy, AllStaged, CopiedInv
  <2>4. \A j \in 1 .. Len(Append(staged[p], NextFinal(p).sha)) :
           Append(staged[p], NextFinal(p).sha)[j] = plan[p].finals[j].sha
    BY <1>2, <2>1 DEF Copy, CopiedInv, NextFinal
  <2>5. /\ Len(staged'[p]) <= Len(plan[p].finals)
        /\ \A j \in 1 .. Len(staged'[p]) : staged'[p][j] = plan[p].finals[j].sha
    <3>1. staged'[p] = Append(staged[p], NextFinal(p).sha)
      BY <2>2 DEF TypeInv
    <3>2. NextFinal(p).sha \in Content
      <4>1. Len(staged[p]) + 1 \in DOMAIN plan[p].finals
        BY <2>1, <2>3, PlanLists
      <4> QED BY <2>1, <4>1 DEF PlanAssumption, NextFinal
    <3>3. Len(staged'[p]) = Len(staged[p]) + 1
      BY <2>1, <3>1, <3>2
    <3> QED BY <2>3, <2>4, <3>1, <3>3
  <2>6. \A o \in Proc : o # p => staged'[o] = staged[o]
    BY <2>2 DEF TypeInv
  <2>7. at[p] = "copy"
    BY <1>2 DEF Copy
  <2> QED BY <2>2, <2>5, <2>6, <2>7 DEF CopiedInv
<1>3. ASSUME NEW p \in Proc, GiveUp(p) PROVE CopiedInv'
  BY <1>3 DEF GiveUp, Cleared, CopiedInv, TypeInv
<1>4. ASSUME NEW p \in Proc, Publish(p) PROVE CopiedInv'
  BY <1>4 DEF Publish, CopiedInv, TypeInv
<1>5. ASSUME NEW p \in Proc, CheckSource(p) PROVE CopiedInv'
  BY <1>5 DEF CheckSource, Cleared, CopiedInv, TypeInv
<1>6. ASSUME NEW p \in Proc, Remove(p) PROVE CopiedInv'
  BY <1>6 DEF Remove, Cleared, CopiedInv, TypeInv
<1>7. ASSUME NEW p \in Proc, AppendNode(p) PROVE CopiedInv'
  BY <1>7 DEF AppendNode, Cleared, CopiedInv, TypeInv
<1>8. ASSUME NEW p \in Proc, Die(p) PROVE CopiedInv'
  BY <1>8 DEF Die, Cleared, CopiedInv, TypeInv
<1>9. ASSUME NEW x \in Path, Edit(x) PROVE CopiedInv'
  BY <1>9 DEF Edit, runVars, CopiedInv
<1> QED BY <1>1, <1>2, <1>3, <1>4, <1>5, <1>6, <1>7, <1>8, <1>9 DEF Next

\* What was removed, and what was published, stays so.
LEMMA Lasting ==
    ASSUME PlanAssumption, TypeInv, RemovedInv, Next
    PROVE  /\ removed \subseteq removed'
           /\ \A c \in Collection : collections[c] # None =>
                 collections'[c] # None /\ applied'[c] = applied[c]
<1> DEFINE Stays == /\ removed \subseteq removed'
                    /\ \A c \in Collection : collections[c] # None =>
                          collections'[c] # None /\ applied'[c] = applied[c]
<1>1. ASSUME UNCHANGED <<collections, applied, removed>> PROVE Stays
  BY <1>1
<1>2. ASSUME NEW p \in Proc, Publish(p) PROVE Stays
  BY <1>2 DEF Publish, TypeInv
<1>3. ASSUME NEW p \in Proc, Remove(p) PROVE Stays
  <2> DEFINE x == Target(p).path
  <2>1. plan[p] \in Plan /\ i[p] \in DOMAIN Entries(plan[p])
    BY <1>3 DEF Remove, RemovedInv, TypeInv
  <2>2. CASE UNCHANGED <<collections, removed>>
    BY <1>3, <2>2 DEF Remove
  <2>3. CASE At(x) # Absent /\ Gone(x)
    <3>1. removed \subseteq removed' /\ UNCHANGED applied
      BY <1>3, <2>3 DEF Remove
    <3>2. CASE InCollection(x)
      <4>0. Emptied(x)
        BY <2>1, <2>3, <3>2, GoneFromCollection DEF Target
      <4>1. /\ x[1] \in Collection
            /\ \E S \in SUBSET FileName : collections'[x[1]] \in [S -> Content]
            /\ \A c \in Collection : c # x[1] => collections'[c] = collections[c]
        BY <4>0 DEF Emptied
      <4>2. collections'[x[1]] # None
        BY <4>1 DEF PlanAssumption
      <4> QED BY <3>1, <4>1, <4>2
    <3>3. CASE ~InCollection(x)
      BY <2>3, <3>1, <3>3 DEF Gone
    <3> QED BY <3>2, <3>3
  <2> QED BY <1>3, <2>2, <2>3 DEF Remove
<1> HIDE DEF Stays
<1>4. ASSUME NEW p \in Proc, CheckSource(p) PROVE Stays
  BY <1>1, <1>4 DEF CheckSource
<1>5. ASSUME NEW p \in Proc, NEW q \in Plan, Begin(p, q) PROVE Stays
  BY <1>1, <1>5 DEF Begin
<1>6. ASSUME NEW p \in Proc, Copy(p) \/ GiveUp(p) \/ AppendNode(p) \/ Die(p) PROVE Stays
  BY <1>1, <1>6 DEF Copy, GiveUp, AppendNode, Die
<1>7. ASSUME NEW x \in Path, Edit(x) PROVE Stays
  BY <1>1, <1>7 DEF Edit
<1>8. Stays
  BY <1>2, <1>3, <1>4, <1>5, <1>6, <1>7 DEF Next
<1> QED BY <1>8 DEF Stays

LEMMA CollectionStep ==
    ASSUME PlanAssumption, TypeInv, CopiedInv, CollectionInv, RemovedInv, Next
    PROVE  CollectionInv'
<1>1. ASSUME UNCHANGED <<collections, applied, removed>> PROVE CollectionInv'
  BY <1>1 DEF CollectionInv, Kept, IsRemoved
<1>2. ASSUME NEW p \in Proc, Publish(p) PROVE CollectionInv'
  <2> DEFINE q == plan[p]
  <2>1. q \in Plan /\ q.collection \in Collection
    BY <1>2 DEF Publish, TypeInv, PlanAssumption
  <2>2. \A c \in Collection : c # q.collection =>
           collections'[c] = collections[c] /\ applied'[c] = applied[c]
    BY <1>2 DEF Publish, TypeInv
  <2>3. collections'[q.collection] = Published(p) /\ applied'[q.collection] = q
    BY <1>2, <2>1 DEF Publish, TypeInv
  <2>4. \A j \in DOMAIN q.finals :
           /\ q.finals[j].path[2] \in DOMAIN Published(p)
           /\ Published(p)[q.finals[j].path[2]] = q.finals[j].sha
    BY <1>2, PublishedFinals DEF Publish
  <2>5. UNCHANGED removed
    BY <1>2 DEF Publish
  <2> HIDE DEF q
  <2> SUFFICES ASSUME NEW c \in Collection, collections'[c] # None
               PROVE  applied'[c] \in Plan /\ \A j \in DOMAIN applied'[c].finals : Kept(c, j)'
    BY DEF CollectionInv
  <2>6. CASE c = q.collection
    BY <2>1, <2>3, <2>4, <2>6 DEF Kept
  <2>7. CASE c # q.collection
    <3>1. collections'[c] = collections[c] /\ applied'[c] = applied[c]
      BY <2>2, <2>7
    <3>2. ASSUME NEW j, Kept(c, j) PROVE Kept(c, j)'
      BY <2>5, <3>1, <3>2 DEF Kept, IsRemoved
    <3> QED BY <3>1, <3>2 DEF CollectionInv
  <2> QED BY <2>6, <2>7
<1>3. ASSUME NEW p \in Proc, Remove(p) PROVE CollectionInv'
  <2> DEFINE x == Target(p).path
  <2>1. plan[p] \in Plan /\ i[p] \in DOMAIN Entries(plan[p]) /\ UNCHANGED applied
    BY <1>3 DEF Remove, RemovedInv, TypeInv
  <2>2. CASE UNCHANGED collections
    <3>1. removed \subseteq removed'
      BY <1>3 DEF Remove
    <3>2. \A c \in Collection : \A j : Kept(c, j) => Kept(c, j)'
      BY <2>1, <2>2, <3>1 DEF Kept, IsRemoved
    <3> QED BY <2>1, <2>2, <3>2 DEF CollectionInv
  <2>3. CASE At(x) # Absent /\ Gone(x) /\ InCollection(x)
    <3>0. Emptied(x)
      BY <2>1, <2>3, GoneFromCollection DEF Target
    <3>1. /\ x[1] \in Collection /\ x = <<x[1], x[2]>>
          /\ collections[x[1]] # None
          /\ \A c \in Collection : c # x[1] => collections'[c] = collections[c]
          /\ \A n : n \in DOMAIN collections[x[1]] /\ n # x[2] =>
                n \in DOMAIN collections'[x[1]] /\ collections'[x[1]][n] = collections[x[1]][n]
      BY <3>0 DEF Emptied
    <3>2. PICK r \in removed' : removed \subseteq removed' /\ r.path = x
      <4>1. removed' = removed \union {[path |-> x, was |-> At(x), planned |-> Target(p).sha]}
        BY <1>3, <2>3 DEF Remove
      <4>2. [path |-> x, was |-> At(x), planned |-> Target(p).sha].path = x
        OBVIOUS
      <4> HIDE DEF x
      <4> QED BY <4>1, <4>2
    <3> HIDE DEF x
    <3>3. ASSUME NEW c \in Collection, NEW j, Kept(c, j) PROVE Kept(c, j)'
      <4> DEFINE n == applied[c].finals[j].path[2]
      <4>1. CASE IsRemoved(<<c, n>>)
        BY <2>1, <3>2, <4>1 DEF Kept, IsRemoved
      <4>2. CASE c = x[1] /\ n = x[2]
        <5>1. r.path = <<c, n>>
          BY <3>1, <3>2, <4>2
        <5>2. r.path = <<c, applied'[c].finals[j].path[2]>>
          BY <2>1, <5>1
        <5>3. \E o \in removed' : o.path = <<c, applied'[c].finals[j].path[2]>>
          BY <5>2
        <5> HIDE DEF n
        <5> QED BY <5>3, Zenon DEF Kept, IsRemoved
      <4>3. CASE n \in DOMAIN collections[c] /\ collections[c][n] = applied[c].finals[j].sha
                 /\ ~(c = x[1] /\ n = x[2])
        BY <2>1, <3>1, <4>3 DEF Kept
      <4> QED BY <3>3, <4>1, <4>2, <4>3 DEF Kept
    <3>4. \A c \in Collection : collections'[c] # None => collections[c] # None
      BY <3>1
    <3> QED BY <2>1, <3>3, <3>4 DEF CollectionInv
  <2> QED BY <1>3, <2>2, <2>3 DEF Remove, Gone
<1>4. ASSUME NEW p \in Proc, CheckSource(p) PROVE CollectionInv'
  BY <1>1, <1>4 DEF CheckSource
<1>5. ASSUME NEW p \in Proc, NEW q \in Plan, Begin(p, q) PROVE CollectionInv'
  BY <1>1, <1>5 DEF Begin
<1>6. ASSUME NEW p \in Proc, Copy(p) \/ GiveUp(p) \/ AppendNode(p) \/ Die(p) PROVE CollectionInv'
  BY <1>1, <1>6 DEF Copy, GiveUp, AppendNode, Die
<1>7. ASSUME NEW x \in Path, Edit(x) PROVE CollectionInv'
  BY <1>1, <1>7 DEF Edit
<1> QED BY <1>2, <1>3, <1>4, <1>5, <1>6, <1>7 DEF Next

LEMMA RemovedStep ==
    ASSUME PlanAssumption, TypeInv, CopiedInv, RemovedInv, Next
    PROVE  RemovedInv'
<1> DEFINE Behind(p) ==
             /\ collections[plan[p].collection] # None
             /\ applied[plan[p].collection] = plan[p]
             /\ \A j \in DOMAIN Entries(plan[p]) : j < i[p] => IsRemoved(Entries(plan[p])[j].path)
<1> USE DEF Goto
\* A run that is past its publication stays so when nothing of its own changes.
<1>1. ASSUME NEW p \in Proc, at[p] \in {"check", "remove"}, plan'[p] = plan[p],
             Behind(p)
      PROVE  /\ collections'[plan'[p].collection] # None
             /\ applied'[plan'[p].collection] = plan'[p]
             /\ \A j \in DOMAIN Entries(plan'[p]) :
                   j < i[p] => \E r \in removed' : r.path = Entries(plan'[p])[j].path
  <2>1. plan[p].collection \in Collection
    BY <1>1 DEF TypeInv, PlanAssumption
  <2> QED BY <1>1, <2>1, Lasting DEF IsRemoved
<1>2. ASSUME NEW p \in Proc, at[p] \in {"check", "remove"} PROVE Behind(p)
  BY <1>2 DEF RemovedInv
<1> DEFINE Ahead(p) ==
             /\ collections'[plan'[p].collection] # None
             /\ applied'[plan'[p].collection] = plan'[p]
             /\ i'[p] >= 1
             /\ \A j \in DOMAIN Entries(plan'[p]) :
                   j < i'[p] => \E r \in removed' : r.path = Entries(plan'[p])[j].path
             /\ at'[p] = "remove" => i'[p] \in DOMAIN Entries(plan'[p])
<1>3. ASSUME \A p \in Proc : at'[p] \in {"check", "remove"} => Ahead(p) PROVE RemovedInv'
  BY <1>3 DEF RemovedInv, IsRemoved
<1>4. ASSUME NEW p \in Proc, plan'[p] = plan[p], i'[p] = i[p], at'[p] = at[p],
             at'[p] \in {"check", "remove"}
      PROVE  Ahead(p)
  BY <1>1, <1>2, <1>4 DEF RemovedInv
<1> HIDE DEF Behind, Ahead
<1>5. ASSUME NEW p \in Proc, at'[p] \notin {"check", "remove"},
             \A o \in Proc : o # p => plan'[o] = plan[o] /\ i'[o] = i[o] /\ at'[o] = at[o]
      PROVE  RemovedInv'
  BY <1>3, <1>4, <1>5
<1>6. ASSUME NEW p \in Proc, NEW q \in Plan, Begin(p, q) PROVE RemovedInv'
  BY <1>5, <1>6 DEF Begin, TypeInv
<1>7. ASSUME NEW p \in Proc, GiveUp(p) \/ AppendNode(p) \/ Die(p) PROVE RemovedInv'
  BY <1>5, <1>7 DEF GiveUp, AppendNode, Die, Cleared, TypeInv
<1>8. ASSUME UNCHANGED <<at, plan, i>> PROVE RemovedInv'
  BY <1>3, <1>4, <1>8
<1>9. ASSUME NEW p \in Proc, Copy(p) PROVE RemovedInv'
  BY <1>8, <1>9 DEF Copy
<1>10. ASSUME NEW x \in Path, Edit(x) PROVE RemovedInv'
  BY <1>8, <1>10 DEF Edit, runVars
<1>11. ASSUME NEW p \in Proc, Publish(p) PROVE RemovedInv'
  <2>1. plan[p] \in Plan /\ plan[p].collection \in Collection
    BY <1>11 DEF Publish, TypeInv, PlanAssumption
  <2>2. Ahead(p)
    <3>1. plan'[p] = plan[p] /\ i'[p] = 1 /\ at'[p] = "check"
      BY <1>11 DEF Publish, TypeInv
    <3>2. collections'[plan[p].collection] # None /\ applied'[plan[p].collection] = plan[p]
      <4>1. Published(p) # None
        BY <1>11, PublishedFinals DEF Publish
      <4> QED BY <1>11, <2>1, <4>1 DEF Publish, TypeInv
    <3>3. DOMAIN Entries(plan[p]) = 1 .. Len(Entries(plan[p]))
      BY <2>1, PlanLists
    <3> QED BY <3>1, <3>2, <3>3 DEF Ahead
  <2>3. \A o \in Proc : o # p => plan'[o] = plan[o] /\ i'[o] = i[o] /\ at'[o] = at[o]
    BY <1>11 DEF Publish, TypeInv
  <2> QED BY <1>3, <1>4, <2>2, <2>3
<1>12. ASSUME NEW p \in Proc, CheckSource(p) PROVE RemovedInv'
  <2>1. CASE Goto(p, "done") /\ Cleared(p)
    BY <1>5, <2>1 DEF Cleared, TypeInv
  <2>2. CASE Goto(p, "remove") /\ UNCHANGED <<plan, staged, i>>
    <3>1. at[p] = "check" /\ plan[p] \in Plan /\ i[p] >= 1 /\ i[p] \in Nat /\ i[p] <= Len(Entries(plan[p]))
      BY <1>12 DEF CheckSource, RemovedInv, TypeInv
    <3>2. i[p] \in DOMAIN Entries(plan[p])
      BY <3>1, PlanLists
    <3>3. Ahead(p)
      BY <1>1, <1>2, <2>2, <3>1, <3>2 DEF Ahead
    <3>4. \A o \in Proc : o # p => plan'[o] = plan[o] /\ i'[o] = i[o] /\ at'[o] = at[o]
      BY <2>2 DEF TypeInv
    <3> QED BY <1>3, <1>4, <3>3, <3>4
  <2> QED BY <1>12, <2>1, <2>2 DEF CheckSource
<1>13. ASSUME NEW p \in Proc, Remove(p) PROVE RemovedInv'
  <2>1. CASE Goto(p, "done") /\ Cleared(p)
    BY <1>5, <2>1 DEF Cleared, TypeInv
  <2>2. CASE /\ removed' = removed \union {[path |-> Target(p).path, was |-> At(Target(p).path),
                                             planned |-> Target(p).sha]}
             /\ i' = [i EXCEPT ![p] = @ + 1] /\ Goto(p, "check") /\ UNCHANGED <<plan, staged>>
    <3>1. at[p] = "remove" /\ plan[p] \in Plan /\ i[p] \in Nat /\ i[p] >= 1
      BY <1>13 DEF Remove, RemovedInv, TypeInv
    <3>2. i'[p] = i[p] + 1 /\ at'[p] = "check" /\ plan'[p] = plan[p]
      BY <2>2 DEF TypeInv
    <3>3. \E r \in removed' : r.path = Entries(plan[p])[i[p]].path
      <4>1. [path |-> Target(p).path, was |-> At(Target(p).path), planned |-> Target(p).sha].path
               = Entries(plan[p])[i[p]].path
        BY DEF Target
      <4> QED BY <2>2, <4>1
    <3>4. \A j \in DOMAIN Entries(plan[p]) : j < i[p] + 1 => j < i[p] \/ j = i[p]
      BY <3>1, PlanLists
    <3>5. Ahead(p)
      BY <1>1, <1>2, <3>1, <3>2, <3>3, <3>4 DEF Ahead
    <3>6. \A o \in Proc : o # p => plan'[o] = plan[o] /\ i'[o] = i[o] /\ at'[o] = at[o]
      BY <2>2 DEF TypeInv
    <3> QED BY <1>3, <1>4, <3>5, <3>6
  <2> QED BY <1>13, <2>1, <2>2 DEF Remove
<1> QED BY <1>6, <1>7, <1>9, <1>10, <1>11, <1>12, <1>13 DEF Next

LEMMA ReleasedStep ==
    ASSUME PlanAssumption, TypeInv, RemovedInv, NodeIsReleased, Next
    PROVE  NodeIsReleased'
<1> DEFINE Released(c) == /\ collections[c] # None
                          /\ \A j \in DOMAIN Entries(applied[c]) : IsRemoved(Entries(applied[c])[j].path)
           Still(c) == /\ collections'[c] # None
                       /\ \A j \in DOMAIN Entries(applied'[c]) :
                             \E r \in removed' : r.path = Entries(applied'[c])[j].path
<1>1. ASSUME NEW c \in Collection, Released(c) PROVE Still(c)
  BY <1>1, Lasting DEF IsRemoved
<1>2. \A c \in graph : c \in Collection /\ Released(c)
  BY DEF TypeInv, NodeIsReleased, IsRemoved
<1>3. ASSUME \A c \in graph' : Still(c) PROVE NodeIsReleased'
  BY <1>3 DEF NodeIsReleased
<1>4. ASSUME NEW p \in Proc, AppendNode(p) PROVE Released(plan[p].collection)
  <2>1. at[p] = "check" /\ plan[p] \in Plan /\ i[p] \in Nat /\ i[p] > Len(Entries(plan[p]))
    BY <1>4 DEF AppendNode, TypeInv
  <2>2. \A j \in DOMAIN Entries(plan[p]) : j < i[p]
    BY <2>1, PlanLists
  <2> QED BY <2>1, <2>2 DEF RemovedInv
<1> HIDE DEF Released, Still
<1>5. ASSUME NEW p \in Proc, AppendNode(p) PROVE NodeIsReleased'
  <2>1. plan[p].collection \in Collection
    BY <1>5 DEF AppendNode, TypeInv, PlanAssumption
  <2> QED BY <1>1, <1>2, <1>3, <1>4, <1>5, <2>1 DEF AppendNode
<1>6. ASSUME UNCHANGED graph PROVE NodeIsReleased'
  BY <1>1, <1>2, <1>3, <1>6
<1> QED BY <1>5, <1>6 DEF Next, Begin, Copy, GiveUp, Publish, CheckSource, Remove, Die, Edit

LEMMA StutterStep ==
    ASSUME IInv, UNCHANGED vars
    PROVE  IInv'
<1> USE DEF vars, runVars
<1>1. TypeInv' /\ CopiedInv'
  BY DEF IInv, TypeInv, CopiedInv
<1>2. CollectionInv'
  BY DEF IInv, CollectionInv, Kept, IsRemoved
<1>3. RemovedInv'
  BY DEF IInv, RemovedInv, IsRemoved
<1>4. NodeIsReleased'
  BY DEF IInv, NodeIsReleased
<1> QED BY <1>1, <1>2, <1>3, <1>4 DEF IInv

\* The invariant says what PublishedWhole says of the files of a collection.
LEMMA Whole ==
    ASSUME PlanAssumption, IInv
    PROVE  ReleasedWhole
<1> SUFFICES ASSUME NEW c \in Collection, collections[c] # None, NEW e \in Planned(c)
             PROVE  At(e.path) = e.sha \/ \E r \in removed : r.path = e.path
  BY DEF IInv, ReleasedWhole, PublishedWhole
<1>1. applied[c] \in Plan /\ \A j \in DOMAIN applied[c].finals : Kept(c, j)
  BY DEF IInv, CollectionInv
<1>2. PICK j \in DOMAIN applied[c].finals :
        e = Entry(<<c, Names(applied[c])[j]>>, applied[c].finals[j].sha)
  BY DEF Planned
<1> DEFINE n == applied[c].finals[j].path[2]
<1>3. e.path = <<c, n>> /\ e.sha = applied[c].finals[j].sha
  BY <1>2 DEF Entry, Names
<1>4. InCollection(<<c, n>>) /\ <<c, n>>[1] = c /\ <<c, n>>[2] = n
  BY DEF PlanAssumption, InCollection
<1>5. Kept(c, j)
  BY <1>1
<1>6. \/ n \in DOMAIN collections[c] /\ collections[c][n] = e.sha
      \/ IsRemoved(<<c, n>>)
  BY <1>3, <1>5 DEF Kept
<1> HIDE DEF n
<1> QED BY <1>3, <1>4, <1>6 DEF At, IsRemoved

\* finalize::apply keeps its promise for any number of runs, plans, files and edits,
\* killed at any moment: a published collection holds the planned bytes but for files
\* that a plan removed, and the node is written last, when every file of the plan is
\* out of the way.
THEOREM CollectionsReleased ==
    ASSUME PlanAssumption
    PROVE  Spec => []ReleasedWhole
<1>1. Init => IInv
  BY InitInv
<1>2. IInv /\ [Next]_vars => IInv'
  <2> SUFFICES ASSUME IInv, [Next]_vars PROVE IInv'
    OBVIOUS
  <2>1. CASE Next
    BY <2>1, TypeStep, CopiedStep, CollectionStep, RemovedStep, ReleasedStep DEF IInv
  <2>2. CASE UNCHANGED vars
    BY <2>2, StutterStep
  <2> QED BY <2>1, <2>2
<1>3. IInv => ReleasedWhole
  BY Whole
<1> QED BY <1>1, <1>2, <1>3, PTL DEF Spec
=============================================================================
