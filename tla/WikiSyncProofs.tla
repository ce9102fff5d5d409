---------------------------- MODULE WikiSyncProofs ----------------------------
(***************************************************************************)
(* Proofs about WikiSync, for every set of pages, references, processes    *)
(* and bounds: no dangling edge, what a sync may not take away, one node   *)
(* per page, what one undisturbed sync makes of the graph, that syncs      *)
(* settle, and that the appends of a sync amount to its plan.              *)
(***************************************************************************)
EXTENDS WikiSync, TLAPS, FiniteSetTheorems

EndsIn(k, ids) == k.from \in ids /\ k.to \in ids

\* The nodes there are once the nodes of p's plan are written.
Coming(p) == DOMAIN nodes \union {u.id : u \in todo[p].nodes}

\* The state of the syncs is made of functions and records.
Shape ==
    /\ todo = [p \in Proc |-> todo[p]]
    /\ seen = [p \in Proc |-> seen[p]]
    /\ \A p \in Proc : todo[p] = [nodes |-> todo[p].nodes, marks |-> todo[p].marks,
                                  retracts |-> todo[p].retracts, asserts |-> todo[p].asserts]

\* The edges of the graph, those of every plan, and the one that `graph
\* relate` has validated have their nodes.
LiveEnds  == \A e \in live : EndsIn(e.key, DOMAIN nodes)
RelateEnds == relating # NoKey => EndsIn(relating, DOMAIN nodes)
PlanEnds  == \A p \in Proc : \A e \in todo[p].asserts : EndsIn(e.key, Coming(p))

\* No plan retracts a key that the sync saw another owner assert.
PlanSpares == \A p \in Proc : todo[p].retracts \intersect seen[p] = {}

IInv == Shape /\ LiveEnds /\ RelateEnds /\ PlanEnds /\ PlanSpares

-----------------------------------------------------------------------------
(***************************************************************************)
(* Lemmas about the planning of a sync.                                    *)
(***************************************************************************)

\* An upsert of a graph adds its id and keeps the others.
LEMMA UpsertDomain ==
    ASSUME NEW g, NEW id, NEW fields
    PROVE  DOMAIN Upsert(g, id, fields).nodes = DOMAIN g.nodes \union {id}
BY DEF Upsert, Merge, Graph

\* An id that resolves from a page or from a path is the id of a page.
LEMMA ResolvedIsPage ==
    ASSUME NEW g, NEW ps, NEW r, Cardinality(Resolve(g, ps, r)) = 1
    PROVE  (CHOOSE id \in Resolve(g, ps, r) : TRUE) \in PageIds(g, ps)
<1>1. Resolve(g, ps, r) # {}
  BY FS_EmptySet
<1>2. Resolve(g, ps, r) \subseteq PageIds(g, ps)
  BY DEF Resolve, PageIds
<1> QED
  BY <1>1, <1>2

\* A desired node exists already or is among the events that create it: an
\* absent node has no field that agrees with the desired ones.
LEMMA DesiredComes ==
    ASSUME NEW g, NEW ps, NEW d \in DesiredNodes(g, ps)
    PROVE  d.id \in DOMAIN g.nodes \union {u.id : u \in NodeEvents(g, ps)}
<1>1. CASE d.id \in DOMAIN g.nodes
  BY <1>1
<1>2. CASE d.id \notin DOMAIN g.nodes
  <2>1. "owner" \in DOMAIN d.fields
    BY DEF DesiredNodes, WikiNode, SourceNode
  <2>2. "owner" \in Changed(g, d)
    BY <1>2, <2>1 DEF Changed
  <2>3. [id |-> d.id, fields |-> [f \in Changed(g, d) |-> d.fields[f]]] \in NodeEvents(g, ps)
    BY <2>2 DEF NodeEvents
  <2> QED
    BY <2>3
<1> QED
  BY <1>1, <1>2

\* The id of a page that was read comes.
LEMMA PageComes ==
    ASSUME NEW g, NEW ps, NEW id \in PageIds(g, ps)
    PROVE  id \in DOMAIN g.nodes \union {u.id : u \in NodeEvents(g, ps)}
<1>1. PICK q \in Readable(ps) : id = PageId(g, ps, q)
  BY DEF PageIds
<1>2. [id |-> id, fields |-> WikiNode(ps, q)] \in DesiredNodes(g, ps)
  BY <1>1 DEF DesiredNodes
<1> QED
  BY <1>2, DesiredComes

\* The target of a source that a page lists comes.
LEMMA SourceComes ==
    ASSUME NEW g, NEW ps, NEW q \in Readable(ps), NEW r,
           r \in Ref, Lists(ps[q].sources, r), ResolveSource(g, ps, r) # NoId
    PROVE  ResolveSource(g, ps, r) \in DOMAIN g.nodes \union {u.id : u \in NodeEvents(g, ps)}
<1>1. \/ ResolveSource(g, ps, r) \in DOMAIN g.nodes \union PageIds(g, ps)
      \/ ResolveSource(g, ps, r) = SourceHash(r)
  BY ResolvedIsPage, RefAssumption DEF ResolveSource
<1>2. CASE ResolveSource(g, ps, r) = SourceHash(r) /\ SourceHash(r) \notin PageIds(g, ps)
  <2>1. [id |-> SourceHash(r), fields |-> SourceNode(r)] \in DesiredNodes(g, ps)
    BY <1>2 DEF DesiredNodes
  <2> QED
    BY <1>2, <2>1, DesiredComes
<1> QED
  BY <1>1, <1>2, PageComes

LEMMA RelatedComes ==
    ASSUME NEW g, NEW ps, NEW r, ResolveRelated(g, ps, r) # NoId
    PROVE  ResolveRelated(g, ps, r) \in DOMAIN g.nodes \union {u.id : u \in NodeEvents(g, ps)}
BY ResolvedIsPage, PageComes DEF ResolveRelated

\* A row of a list leads to the target of one of its references.
LEMMA ListRowsTarget ==
    ASSUME NEW from, NEW kind, NEW refs, NEW target, NEW e \in ListRows(from, kind, refs, target)
    PROVE  \E i \in DOMAIN refs : /\ target[refs[i]] # NoId
                                  /\ e.key.from = from
                                  /\ e.key.to = target[refs[i]]
BY DEF ListRows, Row

\* Every row a sync wants has both ends among the nodes that are there and
\* the nodes it writes.
LEMMA RowsCome ==
    ASSUME NEW g, NEW ps, NEW e \in DesiredRows(g, ps)
    PROVE  EndsIn(e.key, DOMAIN g.nodes \union {u.id : u \in NodeEvents(g, ps)})
<1> DEFINE Come == DOMAIN g.nodes \union {u.id : u \in NodeEvents(g, ps)}
<1>1. PICK q \in Readable(ps) :
        \/ e \in ListRows(PageId(g, ps, q), "DERIVED_FROM", ps[q].sources,
                          SourceTargets(g, ps))
        \/ e \in ListRows(PageId(g, ps, q), "RELATED_TO", ps[q].related,
                          RelatedTargets(g, ps))
  BY DEF DesiredRows
<1>2. PageId(g, ps, q) \in Come
  BY PageComes DEF PageIds
<1>3. CASE e \in ListRows(PageId(g, ps, q), "DERIVED_FROM", ps[q].sources,
                          SourceTargets(g, ps))
  <2>0. \A i \in DOMAIN ps[q].sources : ps[q].sources[i] \in Ref
    BY ContentAssumption DEF Readable
  <2>1. PICK i \in DOMAIN ps[q].sources :
          /\ ResolveSource(g, ps, ps[q].sources[i]) # NoId
          /\ e.key.from = PageId(g, ps, q)
          /\ e.key.to = ResolveSource(g, ps, ps[q].sources[i])
    <3>1. PICK i \in DOMAIN ps[q].sources :
            /\ SourceTargets(g, ps)[ps[q].sources[i]] # NoId
            /\ e.key.from = PageId(g, ps, q)
            /\ e.key.to = SourceTargets(g, ps)[ps[q].sources[i]]
      BY <1>3, ListRowsTarget
    <3>2. SourceTargets(g, ps)[ps[q].sources[i]] = ResolveSource(g, ps, ps[q].sources[i])
      BY <2>0 DEF SourceTargets
    <3> QED
      BY <3>1, <3>2
  <2>2. ps[q].sources[i] \in Ref /\ Lists(ps[q].sources, ps[q].sources[i])
    BY ContentAssumption DEF Lists, Readable
  <2>3. ResolveSource(g, ps, ps[q].sources[i]) \in Come
    BY <2>1, <2>2, SourceComes
  <2> QED
    BY <1>2, <2>1, <2>3 DEF EndsIn
<1>4. CASE e \in ListRows(PageId(g, ps, q), "RELATED_TO", ps[q].related,
                          RelatedTargets(g, ps))
  <2>0. \A i \in DOMAIN ps[q].related : ps[q].related[i] \in Ref
    BY ContentAssumption DEF Readable
  <2>1. PICK i \in DOMAIN ps[q].related :
          /\ ResolveRelated(g, ps, ps[q].related[i]) # NoId
          /\ e.key.from = PageId(g, ps, q)
          /\ e.key.to = ResolveRelated(g, ps, ps[q].related[i])
    <3>1. PICK i \in DOMAIN ps[q].related :
            /\ RelatedTargets(g, ps)[ps[q].related[i]] # NoId
            /\ e.key.from = PageId(g, ps, q)
            /\ e.key.to = RelatedTargets(g, ps)[ps[q].related[i]]
      BY <1>4, ListRowsTarget
    <3>2. RelatedTargets(g, ps)[ps[q].related[i]] = ResolveRelated(g, ps, ps[q].related[i])
      BY <2>0 DEF RelatedTargets
    <3> QED
      BY <3>1, <3>2
  <2>2. ResolveRelated(g, ps, ps[q].related[i]) \in Come
    BY <2>1, RelatedComes
  <2> QED
    BY <1>2, <2>1, <2>2 DEF EndsIn
<1> QED
  BY <1>1, <1>3, <1>4

-----------------------------------------------------------------------------
(***************************************************************************)
(* The inductive invariant.                                                *)
(***************************************************************************)

LEMMA InitIInv == Init => IInv
BY DEF Init, IInv, Shape, LiveEnds, RelateEnds, PlanEnds, PlanSpares, NoEvents

\* A step that leaves the plans and the edges alone and forgets no node
\* preserves the invariant.
LEMMA NodesGrow ==
    ASSUME IInv, DOMAIN nodes \subseteq DOMAIN nodes', live' \subseteq live,
           UNCHANGED <<todo, seen, relating>>
    PROVE  IInv'
<1>1. Shape'
  BY DEF IInv, Shape
<1>2. LiveEnds' /\ RelateEnds'
  BY DEF IInv, LiveEnds, RelateEnds, EndsIn
<1>3. PlanEnds'
  BY DEF IInv, PlanEnds, EndsIn, Coming
<1>4. PlanSpares'
  BY DEF IInv, PlanSpares
<1> QED
  BY <1>1, <1>2, <1>3, <1>4 DEF IInv

\* A finished or dead sync has no plan.
LEMMA StopIInv == ASSUME IInv, NEW p \in Proc, Stop(p) PROVE IInv'
<1>1. Shape'
  BY DEF IInv, Shape, Stop, NoEvents
<1>2. LiveEnds' /\ RelateEnds'
  BY DEF IInv, LiveEnds, RelateEnds, EndsIn, Stop
<1>3. PlanEnds'
  BY DEF IInv, Shape, PlanEnds, EndsIn, Coming, Stop, NoEvents
<1>4. PlanSpares'
  BY DEF IInv, Shape, PlanSpares, Stop, NoEvents
<1> QED
  BY <1>1, <1>2, <1>3, <1>4 DEF IInv

\* A plan made from the graph as it is: RowsCome is what makes it safe.
LEMMA ReadGraphIInv == ASSUME IInv, NEW p \in Proc, ReadGraph(p) PROVE IInv'
<1>1. CASE UNCHANGED <<todo, seen>>
  BY <1>1, NodesGrow DEF ReadGraph
<1>2. CASE /\ todo' = [todo EXCEPT ![p] = Plan(Now, pages[p])]
           /\ seen' = [seen EXCEPT ![p] = ForeignKeys(Now)]
  <2> DEFINE plan == Plan(Now, pages[p])
  <2>1. todo'[p] = plan /\ seen'[p] = ForeignKeys(Now)
    BY <1>2 DEF IInv, Shape
  <2>2. \A q \in Proc \ {p} : todo'[q] = todo[q] /\ seen'[q] = seen[q]
    BY <1>2 DEF IInv, Shape
  <2>3. UNCHANGED <<nodes, live, relating>>
    BY DEF ReadGraph
  <2>4. Shape'
    <3>1. plan = [nodes |-> plan.nodes, marks |-> plan.marks,
                  retracts |-> plan.retracts, asserts |-> plan.asserts]
      BY DEF Plan
    <3>2. todo' = [q \in Proc |-> todo'[q]] /\ seen' = [q \in Proc |-> seen'[q]]
      BY <1>2 DEF IInv, Shape
    <3> QED
      BY <2>1, <2>2, <3>1, <3>2 DEF IInv, Shape
  <2>5. LiveEnds' /\ RelateEnds'
    BY <2>3 DEF IInv, LiveEnds, RelateEnds
  <2>6. PlanEnds'
    <3>1. ASSUME NEW e \in plan.asserts
          PROVE  EndsIn(e.key, DOMAIN nodes \union {u.id : u \in plan.nodes})
      <4>1. e \in DesiredRows(Now, pages[p])
        BY DEF Plan, AssertRows
      <4>2. plan.nodes = NodeEvents(Now, pages[p]) /\ Now.nodes = nodes
        BY DEF Plan, Now, Graph
      <4> QED
        BY <4>1, <4>2, RowsCome
    <3>2. ASSUME NEW q \in Proc, NEW e \in todo'[q].asserts
          PROVE  EndsIn(e.key, Coming(q)')
      <4>1. CASE q = p
        BY <2>1, <2>3, <3>1, <3>2, <4>1 DEF Coming
      <4>2. CASE q # p
        BY <2>2, <2>3, <3>2, <4>2 DEF Coming, IInv, PlanEnds
      <4> QED
        BY <4>1, <4>2
    <3> QED
      BY <3>2 DEF PlanEnds
  <2>7. PlanSpares'
    <3>1. plan.retracts \intersect ForeignKeys(Now) = {}
      BY DEF Plan, RetractKeys
    <3> QED
      BY <2>1, <2>2, <3>1 DEF IInv, PlanSpares
  <2> QED
    BY <2>4, <2>5, <2>6, <2>7 DEF IInv
<1> QED
  BY <1>1, <1>2 DEF ReadGraph

LEMMA WriteNodeIInv ==
    ASSUME IInv, NEW p \in Proc, NEW u \in todo[p].nodes, WriteNode(p, u)
    PROVE  IInv'
<1>1. UNCHANGED <<live, seen, relating>>
  BY DEF WriteNode, Becomes, Upsert, Graph, Now
<1>2. DOMAIN nodes' = DOMAIN nodes \union {u.id}
  BY UpsertDomain DEF WriteNode, Becomes, Now, Graph
<1>3. todo' = [todo EXCEPT ![p].nodes = @ \ {u}]
  BY DEF WriteNode
<1>4. Shape'
  BY <1>1, <1>3 DEF IInv, Shape
<1>5. LiveEnds' /\ RelateEnds'
  BY <1>1, <1>2 DEF IInv, LiveEnds, RelateEnds, EndsIn
<1>6. \A q \in Proc : Coming(q) \subseteq Coming(q)'
  BY <1>2, <1>3 DEF Coming, IInv, Shape
<1>7. \A q \in Proc : /\ todo'[q].asserts = todo[q].asserts
                      /\ todo'[q].retracts = todo[q].retracts
  BY <1>3 DEF IInv, Shape
<1>8. PlanEnds'
  BY <1>6, <1>7 DEF IInv, PlanEnds, EndsIn
<1>9. PlanSpares'
  BY <1>1, <1>7 DEF IInv, PlanSpares
<1> QED
  BY <1>4, <1>5, <1>8, <1>9 DEF IInv

\* Marks, retractions and assertions leave the nodes of every plan alone.
LEMMA LaterWriteIInv ==
    ASSUME IInv, NEW p \in Proc, Shape', DOMAIN nodes \subseteq DOMAIN nodes', LiveEnds',
           UNCHANGED <<seen, relating>>,
           \A q \in Proc : /\ todo'[q].nodes = todo[q].nodes
                           /\ todo'[q].asserts \subseteq todo[q].asserts
                           /\ todo'[q].retracts \subseteq todo[q].retracts
    PROVE  IInv'
<1>1. RelateEnds'
  BY DEF IInv, RelateEnds, EndsIn
<1>2. PlanEnds'
  BY DEF IInv, PlanEnds, EndsIn, Coming
<1>3. PlanSpares'
  BY DEF IInv, PlanSpares
<1> QED
  BY <1>1, <1>2, <1>3 DEF IInv

LEMMA WriteMarkIInv ==
    ASSUME IInv, NEW p \in Proc, NEW id \in todo[p].marks, WriteMark(p, id)
    PROVE  IInv'
<1>1. UNCHANGED <<live, seen, relating>>
  BY DEF WriteMark, Becomes, Upsert, Graph, Now
<1>2. DOMAIN nodes' = DOMAIN nodes \union {id}
  BY UpsertDomain DEF WriteMark, Becomes, Now, Graph
<1>3. todo' = [todo EXCEPT ![p].marks = @ \ {id}]
  BY DEF WriteMark
<1>4. Shape' /\ LiveEnds'
  BY <1>1, <1>2, <1>3 DEF IInv, Shape, LiveEnds, EndsIn
<1>5. \A q \in Proc : /\ todo'[q].nodes = todo[q].nodes
                      /\ todo'[q].asserts \subseteq todo[q].asserts
                      /\ todo'[q].retracts \subseteq todo[q].retracts
  BY <1>3 DEF IInv, Shape
<1> QED
  BY <1>1, <1>2, <1>3, <1>4, <1>5, LaterWriteIInv

LEMMA WriteRetractIInv ==
    ASSUME IInv, NEW p \in Proc, NEW k \in todo[p].retracts, WriteRetract(p, k)
    PROVE  IInv'
<1>1. UNCHANGED <<nodes, seen, relating>> /\ live' \subseteq live
  BY DEF WriteRetract, Becomes, Retract, Graph, Now
<1>2. todo' = [todo EXCEPT ![p].retracts = @ \ {k}]
  BY DEF WriteRetract
<1>3. Shape' /\ LiveEnds'
  BY <1>1, <1>2 DEF IInv, Shape, LiveEnds, EndsIn
<1>5. \A q \in Proc : /\ todo'[q].nodes = todo[q].nodes
                      /\ todo'[q].asserts \subseteq todo[q].asserts
                      /\ todo'[q].retracts \subseteq todo[q].retracts
  BY <1>2 DEF IInv, Shape
<1> QED
  BY <1>1, <1>2, <1>3, <1>5, LaterWriteIInv

\* By the time the first edge is written the plan has no node left, so the
\* nodes that were to come are there.
LEMMA WriteAssertIInv ==
    ASSUME IInv, NEW p \in Proc, NEW e \in todo[p].asserts, WriteAssert(p, e)
    PROVE  IInv'
<1>1. UNCHANGED <<nodes, seen, relating>> /\ live' = live \union {Row(e.key, e.ref)}
  BY DEF WriteAssert, Becomes, AddRow, Graph, Now
<1>2. todo' = [todo EXCEPT ![p].asserts = @ \ {e}]
  BY DEF WriteAssert
<1>3. EndsIn(e.key, DOMAIN nodes)
  BY DEF IInv, PlanEnds, EndsIn, Coming, WriteAssert
<1>4. Shape' /\ LiveEnds'
  <2>1. Shape'
    BY <1>1, <1>2 DEF IInv, Shape
  <2>2. \A f \in live' : f \in live \/ f.key = e.key
    BY <1>1 DEF Row
  <2> QED
    BY <1>1, <1>3, <2>1, <2>2 DEF IInv, LiveEnds
<1>5. \A q \in Proc : /\ todo'[q].nodes = todo[q].nodes
                      /\ todo'[q].asserts \subseteq todo[q].asserts
                      /\ todo'[q].retracts \subseteq todo[q].retracts
  BY <1>2 DEF IInv, Shape
<1> QED
  BY <1>1, <1>2, <1>4, <1>5, LaterWriteIInv

LEMMA RelateAppendIInv == ASSUME IInv, RelateAppend PROVE IInv'
<1>1. UNCHANGED <<nodes, todo, seen>> /\ live' = live \union {Row(relating, Foreign)} /\ relating' = NoKey
  BY DEF RelateAppend, Becomes, AddRow, Graph, Now, syncVars
<1>2. LiveEnds' /\ RelateEnds'
  BY <1>1 DEF IInv, LiveEnds, RelateEnds, EndsIn, Row, RelateAppend
<1>3. Shape' /\ PlanEnds' /\ PlanSpares'
  BY <1>1 DEF IInv, Shape, PlanEnds, PlanSpares, Coming
<1> QED
  BY <1>2, <1>3 DEF IInv

LEMMA StepIInv == IInv /\ [Next]_vars => IInv'
<1> SUFFICES ASSUME IInv, [Next]_vars PROVE IInv'
  OBVIOUS
<1>1. ASSUME NEW p \in Proc, SyncStep(p) PROVE IInv'
  <2>1. CASE Scan(p)
    BY <2>1, NodesGrow DEF Scan
  <2>2. CASE ReadGraph(p)
    BY <2>2, ReadGraphIInv
  <2>3. CASE \E u \in todo[p].nodes : WriteNode(p, u)
    BY <2>3, WriteNodeIInv
  <2>4. CASE \E id \in todo[p].marks : WriteMark(p, id)
    BY <2>4, WriteMarkIInv
  <2>5. CASE \E k \in todo[p].retracts : WriteRetract(p, k)
    BY <2>5, WriteRetractIInv
  <2>6. CASE \E e \in todo[p].asserts : WriteAssert(p, e)
    BY <2>6, WriteAssertIInv
  <2>7. CASE Finish(p) \/ Crash(p)
    BY <2>7, StopIInv DEF Finish, Crash
  <2> QED
    BY <1>1, <2>1, <2>2, <2>3, <2>4, <2>5, <2>6, <2>7 DEF SyncStep
<1>2. ASSUME NEW q, NEW c, Edit(q, c) PROVE IInv'
  BY <1>2, NodesGrow DEF Edit, syncVars
<1>3. CASE GraphCommand
  <2>1. ASSUME NEW id, GraphNode(id) PROVE IInv'
    <3>1. live' = live
      BY <2>1 DEF GraphNode, Becomes, Upsert, Now, Graph
    <3>2. DOMAIN nodes' = DOMAIN nodes \union {id}
      BY <2>1, UpsertDomain DEF GraphNode, Becomes, Now, Graph
    <3> QED
      BY <2>1, <3>1, <3>2, NodesGrow DEF GraphNode, syncVars
  <2>2. ASSUME NEW k, GraphRetract(k) PROVE IInv'
    <3>1. nodes' = nodes /\ live' \subseteq live
      BY <2>2 DEF GraphRetract, Becomes, Retract, Now, Graph
    <3> QED
      BY <2>2, <3>1, NodesGrow DEF GraphRetract, syncVars
  <2>3. ASSUME NEW k, RelateCheck(k) PROVE IInv'
    <3>1. UNCHANGED <<nodes, live, todo, seen>>
      BY <2>3 DEF RelateCheck, syncVars
    <3>2. RelateEnds'
      BY <2>3, <3>1 DEF RelateCheck, RelateEnds, EndsIn
    <3> QED
      BY <3>1, <3>2 DEF IInv, Shape, LiveEnds, PlanEnds, PlanSpares, Coming
  <2> QED
    BY <1>3, <2>1, <2>2, <2>3, RelateAppendIInv DEF GraphCommand
<1>4. CASE UNCHANGED vars
  BY <1>4, NodesGrow DEF vars, syncVars
<1> QED
  BY <1>1, <1>2, <1>3, <1>4 DEF Next

-----------------------------------------------------------------------------
(***************************************************************************)
(* The theorems.                                                           *)
(***************************************************************************)

\* The invariant of the graph, the plans and the validated edge: what a plan
\* will assert has its nodes in the graph or earlier in the plan.
THEOREM PlansComplete == Spec => []IInv
<1> QED
  BY InitIInv, StepIInv, PTL DEF Spec

\* Where a sync is, is a function of the sync.
PcShape == pc = [p \in Proc |-> pc[p]]

LEMMA PcShaped == Spec => []PcShape
<1>1. Init => PcShape
  BY DEF Init, PcShape
<1>2. PcShape /\ [Next]_vars => PcShape'
  BY DEF PcShape, Next, vars, syncVars, SyncStep, Scan, ReadGraph, WriteNode, WriteMark,
         WriteRetract, WriteAssert, Finish, Crash, Stop, Edit, GraphCommand, GraphNode,
         GraphRetract, RelateCheck, RelateAppend
<1> QED
  BY <1>1, <1>2, PTL DEF Spec

\* No interleaving of syncs, graph commands, edits and deaths leaves a live
\* edge without its nodes (sync.rs, edge_write.rs).
THEOREM EdgesHaveNodes == Spec => []NoDangling
<1>1. IInv => NoDangling
  BY DEF IInv, LiveEnds, EndsIn, NoDangling
<1> QED
  BY <1>1, PlansComplete, PTL

\* A sync retracts the row of another owner only if it was asserted after the
\* sync had read the graph (sync.rs live_foreign).
THEOREM ForeignRowsKept == Spec => ForeignKept
<1> DEFINE Kept == \A p \in Proc : pc'[p] = "writing" /\ todo'[p].retracts # todo[p].retracts =>
                     \A e \in live \ live' : e.ref = Foreign => e.key \notin seen[p]
<1>1. ASSUME IInv, [Next]_vars PROVE Kept
  <2> SUFFICES ASSUME NEW p \in Proc, todo'[p].retracts # todo[p].retracts, pc'[p] = "writing",
                      NEW e \in live \ live'
               PROVE  e.key \notin seen[p]
    OBVIOUS
  <2>1. PICK q \in Proc : \E k \in todo[q].retracts : WriteRetract(q, k)
    <3>1. live # live' /\ todo # todo'
      OBVIOUS
    <3>2. ASSUME NEW q \in Proc, SyncStep(q), ~ \E k \in todo[q].retracts : WriteRetract(q, k)
          PROVE  live \subseteq live'
      BY <3>2 DEF SyncStep, Scan, ReadGraph, WriteNode, WriteMark, WriteAssert, Finish, Crash,
                  Stop, Becomes, Upsert, AddRow, Now, Graph
    <3>3. ASSUME GraphCommand PROVE todo' = todo
      BY <3>3 DEF GraphCommand, GraphNode, GraphRetract, RelateCheck, RelateAppend, syncVars
    <3>4. ASSUME NEW q, NEW c, Edit(q, c) PROVE todo' = todo
      BY <3>4 DEF Edit, syncVars
    <3> QED
      BY <1>1, <3>1, <3>2, <3>3, <3>4 DEF Next, vars, syncVars
  <2>2. PICK k \in todo[q].retracts : WriteRetract(q, k)
    BY <2>1
  <2>3. q = p
    BY <1>1, <2>2 DEF WriteRetract, IInv, Shape
  <2>4. e.key = k
    BY <2>2 DEF WriteRetract, Becomes, Retract, Now, Graph
  <2> QED
    BY <1>1, <2>3, <2>4 DEF IInv, PlanSpares
<1> QED
  BY <1>1, PlansComplete, PTL DEF Spec, ForeignKept

\* The plan of a sync neither marks the node of an unreadable page missing nor
\* retracts an edge that leads out of it (sync.rs skipped_node_ids).
THEOREM SkippedPagesKept == Spec => SkippedNotErased
<1> DEFINE Kept == \A p \in Proc : pc[p] = "scanned" /\ pc'[p] = "writing" =>
                     LET kept == SkippedNodes(Now, pages[p])
                     IN /\ todo'[p].marks \intersect kept = {}
                        /\ \A k \in todo'[p].retracts : k.from \notin kept
<1>1. ASSUME NEW g, NEW ps
      PROVE  /\ Plan(g, ps).marks \intersect SkippedNodes(g, ps) = {}
             /\ \A k \in Plan(g, ps).retracts : k.from \notin SkippedNodes(g, ps)
  <2>1. Plan(g, ps).marks = MissingMarks(g, ps)
    BY DEF Plan
  <2>2. Plan(g, ps).retracts = RetractKeys(g, ps, DesiredRows(g, ps))
    BY DEF Plan
  <2>3. MissingMarks(g, ps) \intersect SkippedNodes(g, ps) = {}
    BY DEF MissingMarks, SkippedNodes
  <2>4. \A k \in RetractKeys(g, ps, DesiredRows(g, ps)) : k.from \notin SkippedNodes(g, ps)
    BY DEF RetractKeys
  <2> QED
    BY <2>1, <2>2, <2>3, <2>4
<1>2. ASSUME IInv, PcShape, [Next]_vars PROVE Kept
  <2>1. ASSUME NEW p \in Proc, pc[p] = "scanned", pc'[p] = "writing"
        PROVE  todo'[p] = Plan(Now, pages[p])
    <3>1. pc # pc'
      BY <2>1
    <3>2. PICK q \in Proc : SyncStep(q)
      BY <1>2, <3>1 DEF Next, vars, syncVars, Edit, GraphCommand, GraphNode, GraphRetract,
                        RelateCheck, RelateAppend
    <3>3. ReadGraph(q) /\ q = p
      BY <1>2, <2>1, <3>2 DEF SyncStep, Scan, ReadGraph, WriteNode, WriteMark, WriteRetract,
                              WriteAssert, Finish, Crash, Stop, PcShape
    <3> QED
      BY <1>2, <2>1, <3>3 DEF ReadGraph, IInv, Shape, PcShape
  <2> QED
    BY <1>1, <2>1
<1> QED
  BY <1>2, PlansComplete, PcShaped, PTL DEF Spec, SkippedNotErased

-----------------------------------------------------------------------------
(***************************************************************************)
(* One node per page (identity.rs).  A path has one node because a plan    *)
(* takes the node that is registered for it, or has seen that there is     *)
(* none: what is registered for a path and what the plans that are being   *)
(* written will register for it is never more than one node.  `graph node` *)
(* can take a node away from its path, never register one.                 *)
(***************************************************************************)
Sync == "innen:wiki-sync"

\* A node that is sync's has a type.
OwnersTyped ==
    \A id \in DOMAIN nodes :
        Managed(Now, id) => "type" \in DOMAIN nodes[id] /\ nodes[id].owner = Sync

\* An event makes a node one of sync's, or a wiki node, only all at once.
EventWhole(u) ==
    /\ "owner" \in DOMAIN u.fields => u.fields.owner = Sync /\ "type" \in DOMAIN u.fields
    /\ "type" \in DOMAIN u.fields /\ u.fields.type = "Wiki" => "path" \in DOMAIN u.fields

\* Only a sync that writes has events left, and no two wrote at once.
WriterAlone ==
    /\ \A p \in Proc : pc[p] # "writing" => todo[p].nodes = {}
    /\ ~overlapped => \A p, q \in Proc : pc[p] = "writing" /\ pc[q] = "writing" => p = q

\* The event gives its node the path q.
Names(u, q) == "path" \in DOMAIN u.fields /\ u.fields.path = q

\* The nodes that have the path q, or will.
Claims(id, q) ==
    \/ id \in Registered(Now, q)
    \/ \E p \in Proc : \E u \in todo[p].nodes : u.id = id /\ Names(u, q)

\* A path has no second node, and no plan will give it one.
ClaimedOnce ==
    ~overlapped => \A q \in Path : \A i, j : Claims(i, q) /\ Claims(j, q) => i = j

\* What every step keeps of the nodes and of the plans.
Registry ==
    /\ OwnersTyped /\ WriterAlone /\ ClaimedOnce
    /\ \A p \in Proc : \A u \in todo[p].nodes : EventWhole(u)

\* The fields of a node after an upsert.
LEMMA UpsertNode ==
    ASSUME NEW id, NEW fields, NEW g, g = Upsert(Now, id, fields)
    PROVE  /\ DOMAIN g.nodes = DOMAIN nodes \union {id}
           /\ \A i \in DOMAIN nodes \ {id} : g.nodes[i] = nodes[i]
           /\ id \notin DOMAIN nodes => g.nodes[id] = fields
           /\ id \in DOMAIN nodes =>
                 /\ DOMAIN g.nodes[id] = DOMAIN nodes[id] \union DOMAIN fields
                 /\ \A f \in DOMAIN fields : g.nodes[id][f] = fields[f]
                 /\ \A f \in DOMAIN nodes[id] \ DOMAIN fields : g.nodes[id][f] = nodes[id][f]
<1> DEFINE new == IF id \in DOMAIN nodes THEN Merge(nodes[id], fields) ELSE fields
<1>1. g.nodes = Merge(nodes, [i \in {id} |-> new])
  BY DEF Upsert, Now, Graph
<1>2. /\ DOMAIN g.nodes = DOMAIN nodes \union {id} /\ g.nodes[id] = new
      /\ \A i \in DOMAIN nodes \ {id} : g.nodes[i] = nodes[i]
  <2> HIDE DEF new
  <2> QED BY <1>1 DEF Merge
<1>3. id \in DOMAIN nodes =>
         /\ DOMAIN new = DOMAIN nodes[id] \union DOMAIN fields
         /\ \A f \in DOMAIN fields : new[f] = fields[f]
         /\ \A f \in DOMAIN nodes[id] \ DOMAIN fields : new[f] = nodes[id][f]
  BY DEF Merge
<1> QED BY <1>2, <1>3

\* What a plan writes about nodes.
LEMMA PlannedEvents ==
    ASSUME OwnersTyped, NEW ps, ~Fails(Now, ps), NEW u \in NodeEvents(Now, ps)
    PROVE  /\ EventWhole(u)
           /\ \A q : Names(u, q) => q \in Readable(ps) /\ u.id = PageId(Now, ps, q)
<1>1. PICK d \in DesiredNodes(Now, ps) : u = [id |-> d.id, fields |-> [f \in Changed(Now, d) |-> d.fields[f]]]
  BY DEF NodeEvents
<1>2. /\ u.id = d.id /\ DOMAIN u.fields = Changed(Now, d) /\ \A f \in Changed(Now, d) : u.fields[f] = d.fields[f]
  BY <1>1
<1>3. \/ \E q \in Readable(ps) : d.id = PageId(Now, ps, q) /\ d.fields = WikiNode(ps, q)
      \/ \E r \in Ref : d.fields = SourceNode(r)
  BY DEF DesiredNodes
<1>4. /\ d.fields.owner = Sync /\ "owner" \in DOMAIN d.fields /\ "type" \in DOMAIN d.fields
      /\ d.fields.type = "Wiki" => "path" \in DOMAIN d.fields
      /\ \A q : "path" \in DOMAIN d.fields /\ d.fields.path = q => q \in Readable(ps) /\ d.id = PageId(Now, ps, q)
  <2>1. ASSUME NEW q \in Readable(ps), d.id = PageId(Now, ps, q), d.fields = WikiNode(ps, q)
        PROVE  /\ d.fields.owner = Sync /\ DOMAIN d.fields = {"owner", "type", "path", "text", "missing"}
               /\ d.fields.path = q
    BY <2>1 DEF WikiNode, Sync
  <2>2. ASSUME NEW r, d.fields = SourceNode(r)
        PROVE  /\ d.fields.owner = Sync /\ DOMAIN d.fields = {"owner", "type", "source"}
               /\ d.fields.type = "Source"
    BY <2>2 DEF SourceNode, Sync
  <2>3. CASE \E q \in Readable(ps) : d.id = PageId(Now, ps, q) /\ d.fields = WikiNode(ps, q)
    BY <2>1, <2>3
  <2>4. CASE \E r \in Ref : d.fields = SourceNode(r)
    BY <2>2, <2>4
  <2> QED BY <1>3, <2>3, <2>4
<1>5. CASE d.id \notin DOMAIN nodes
  <2>1. Changed(Now, d) = DOMAIN d.fields
    BY <1>5 DEF Changed, Now, Graph
  <2> QED BY <1>2, <1>4, <2>1 DEF EventWhole, Names
<1>6. CASE d.id \in DOMAIN nodes
  <2>1. Managed(Now, d.id) /\ nodes[d.id].type = d.fields.type
    BY <1>6 DEF Fails, Conflict, Now, Graph
  <2>2. /\ {"owner", "type"} \subseteq DOMAIN nodes[d.id] /\ nodes[d.id].owner = d.fields.owner
    BY <1>4, <1>6, <2>1 DEF OwnersTyped, Managed, Now, Graph
  <2>3. "owner" \notin Changed(Now, d) /\ "type" \notin Changed(Now, d) /\ Changed(Now, d) \subseteq DOMAIN d.fields
    BY <1>6, <2>1, <2>2 DEF Changed, Now, Graph
  <2> QED BY <1>2, <1>4, <2>3 DEF EventWhole, Names
<1> QED BY <1>5, <1>6

\* A step that registers no node, and plans none, keeps the registry.
LEMMA RegistryStays ==
    ASSUME Registry, OwnersTyped',
           \A q \in Path : \A i \in Registered(Now, q)' : Claims(i, q),
           \A r \in Proc : todo'[r].nodes \subseteq todo[r].nodes,
           \A r \in Proc : pc'[r] = "writing" => pc[r] = "writing",
           \A r \in Proc : pc'[r] # "writing" => pc[r] # "writing" \/ todo'[r].nodes = {},
           overlapped => overlapped'
    PROVE  Registry'
<1>1. ASSUME NEW q \in Path, NEW i, Claims(i, q)' PROVE Claims(i, q)
  BY <1>1 DEF Claims, Names
<1>2. ClaimedOnce'
  BY <1>1 DEF Registry, ClaimedOnce
<1>3. WriterAlone'
  BY DEF Registry, WriterAlone
<1> QED BY <1>2, <1>3 DEF Registry, EventWhole

\* Only a sync's node events register.
LEMMA WriteNodeRegistry ==
    ASSUME IInv, Registry, PcShape, NEW p \in Proc, NEW u \in todo[p].nodes, WriteNode(p, u)
    PROVE  Registry'
<1>1. PICK g : g = Upsert(Now, u.id, u.fields)
  OBVIOUS
<1>2. /\ nodes' = g.nodes /\ todo' = [todo EXCEPT ![p].nodes = @ \ {u}]
      /\ UNCHANGED <<pc, overlapped>>
  BY <1>1 DEF WriteNode, Becomes
<1>3. /\ DOMAIN nodes' = DOMAIN nodes \union {u.id}
      /\ \A i \in DOMAIN nodes \ {u.id} : nodes'[i] = nodes[i]
      /\ u.id \notin DOMAIN nodes => nodes'[u.id] = u.fields
      /\ u.id \in DOMAIN nodes =>
            /\ DOMAIN nodes'[u.id] = DOMAIN nodes[u.id] \union DOMAIN u.fields
            /\ \A f \in DOMAIN u.fields : nodes'[u.id][f] = u.fields[f]
            /\ \A f \in DOMAIN nodes[u.id] \ DOMAIN u.fields : nodes'[u.id][f] = nodes[u.id][f]
  BY <1>1, <1>2, UpsertNode
<1>4. EventWhole(u)
  BY DEF Registry
<1>5. OwnersTyped'
  BY <1>3, <1>4 DEF Registry, OwnersTyped, EventWhole, Managed, Now, Graph
<1>6. ASSUME NEW q \in Path, NEW i \in Registered(Now, q)' PROVE Claims(i, q)
  <2>1. /\ i \in DOMAIN nodes' /\ {"owner", "path"} \subseteq DOMAIN nodes'[i]
        /\ nodes'[i].type = "Wiki" /\ nodes'[i].path = q
    BY <1>6 DEF Registered, WikiNodes, Managed, Now, Graph
  <2>2. CASE i # u.id
    BY <1>3, <2>1, <2>2 DEF Claims, Registered, WikiNodes, Managed, Now, Graph
  <2>3. CASE i = u.id /\ Names(u, q)
    BY <2>3 DEF Claims
  <2>4. CASE i = u.id /\ ~Names(u, q)
    <3>1. i \in DOMAIN nodes /\ "path" \in DOMAIN nodes[i] /\ "path" \notin DOMAIN u.fields /\ nodes[i].path = q
      BY <1>3, <2>1, <2>4 DEF Names
    <3>2. "type" \notin DOMAIN u.fields
      BY <1>3, <1>4, <2>1, <2>4, <3>1 DEF EventWhole
    <3>3. "owner" \in DOMAIN nodes[i]
      BY <1>3, <1>4, <2>1, <2>4, <3>1, <3>2 DEF EventWhole
    <3>4. nodes[i].type = "Wiki"
      BY <1>3, <2>1, <2>4, <3>1, <3>2, <3>3 DEF Registry, OwnersTyped, Managed, Now, Graph
    <3> QED BY <3>1, <3>3, <3>4 DEF Claims, Registered, WikiNodes, Managed, Now, Graph
  <2> QED BY <2>2, <2>3, <2>4
<1>7. \A r \in Proc : todo'[r].nodes \subseteq todo[r].nodes
  BY <1>2 DEF IInv, Shape
<1> QED BY <1>2, <1>5, <1>6, <1>7, RegistryStays

\* A mark, and `graph node`, which changes the type: neither has an owner or a
\* path to give, and a node of another type is not registered.
LEMMA OtherUpsertRegistry ==
    ASSUME Registry, NEW id, NEW fields, nodes' = Upsert(Now, id, fields).nodes,
           "owner" \notin DOMAIN fields, "path" \notin DOMAIN fields,
           "type" \in DOMAIN fields => fields.type # "Wiki"
    PROVE  OwnersTyped' /\ \A q \in Path : \A i \in Registered(Now, q)' : Claims(i, q)
<1>1. PICK g : g = Upsert(Now, id, fields)
  OBVIOUS
<1>3. /\ DOMAIN nodes' = DOMAIN nodes \union {id}
      /\ \A i \in DOMAIN nodes \ {id} : nodes'[i] = nodes[i]
      /\ id \notin DOMAIN nodes => nodes'[id] = fields
      /\ id \in DOMAIN nodes =>
            /\ DOMAIN nodes'[id] = DOMAIN nodes[id] \union DOMAIN fields
            /\ \A f \in DOMAIN fields : nodes'[id][f] = fields[f]
            /\ \A f \in DOMAIN nodes[id] \ DOMAIN fields : nodes'[id][f] = nodes[id][f]
  BY <1>1, UpsertNode
<1>5. OwnersTyped'
  BY <1>3 DEF Registry, OwnersTyped, Managed, Now, Graph
<1>6. ASSUME NEW q \in Path, NEW i \in Registered(Now, q)' PROVE Claims(i, q)
  <2>1. /\ i \in DOMAIN nodes' /\ {"owner", "path"} \subseteq DOMAIN nodes'[i]
        /\ nodes'[i].type = "Wiki" /\ nodes'[i].path = q
    BY <1>6 DEF Registered, WikiNodes, Managed, Now, Graph
  <2>2. CASE i # id
    BY <1>3, <2>1, <2>2 DEF Claims, Registered, WikiNodes, Managed, Now, Graph
  <2>3. CASE i = id
    <3>1. i \in DOMAIN nodes /\ {"owner", "path"} \subseteq DOMAIN nodes[i] /\ nodes[i].path = q
      BY <1>3, <2>1, <2>3
    <3>2. "type" \in DOMAIN nodes[i] /\ "type" \notin DOMAIN fields
      BY <1>3, <2>1, <2>3, <3>1 DEF Registry, OwnersTyped, Managed, Now, Graph
    <3> QED BY <1>3, <2>1, <2>3, <3>1, <3>2 DEF Claims, Registered, WikiNodes, Managed, Now, Graph
  <2> QED BY <2>2, <2>3
<1> QED BY <1>5, <1>6

\* A plan takes the node that is registered for a path.
LEMMA ReadGraphRegistry ==
    ASSUME IInv, Registry, PcShape, NEW p \in Proc, ReadGraph(p)
    PROVE  Registry'
<1>0. UNCHANGED nodes /\ OwnersTyped' /\ \A q : Registered(Now, q)' = Registered(Now, q)
  BY DEF ReadGraph, Registry, OwnersTyped, Registered, WikiNodes, Managed, Now, Graph
<1>1. CASE pc' = [pc EXCEPT ![p] = "idle"] /\ UNCHANGED <<seen, todo, overlapped>>
  <2>1. \A r \in Proc : pc'[r] = pc[r] \/ (r = p /\ pc'[r] = "idle" /\ pc[r] = "scanned")
    BY <1>1 DEF PcShape, ReadGraph
  <2> QED BY <1>0, <1>1, <2>1, RegistryStays DEF Claims
<1>2. CASE /\ ~Fails(Now, pages[p]) /\ pc' = [pc EXCEPT ![p] = "writing"]
           /\ todo' = [todo EXCEPT ![p] = Plan(Now, pages[p])]
           /\ overlapped' = (overlapped \/ \E q \in Proc \ {p} : pc[q] = "writing")
  <2>1. PICK ps : ps = pages[p]
    OBVIOUS
  <2>2. /\ todo'[p].nodes = NodeEvents(Now, ps) /\ pc'[p] = "writing"
        /\ \A r \in Proc \ {p} : todo'[r] = todo[r] /\ pc'[r] = pc[r]
    BY <1>2, <2>1 DEF IInv, Shape, PcShape, Plan
  <2>3. \A u \in NodeEvents(Now, ps) :
           /\ EventWhole(u)
           /\ \A q : Names(u, q) => q \in Readable(ps) /\ u.id = PageId(Now, ps, q)
    BY <1>2, <2>1, PlannedEvents DEF Registry
  <2>4. WriterAlone'
    BY <1>2, <2>2 DEF Registry, WriterAlone
  <2>5. \A r \in Proc : \A u \in todo'[r].nodes : EventWhole(u)'
    BY <2>2, <2>3 DEF Registry, EventWhole
  <2>6. ASSUME ~overlapped', NEW q \in Path, NEW i, NEW j, Claims(i, q)', Claims(j, q)'
        PROVE  i = j
    <3>1. \A r \in Proc \ {p} : todo'[r].nodes = {}
      BY <1>2, <2>2, <2>6 DEF Registry, WriterAlone
    <3>2. ASSUME NEW x, Claims(x, q)'
          PROVE  x \in Registered(Now, q) \/ x = PageId(Now, ps, q)
      BY <1>0, <2>2, <2>3, <3>1, <3>2 DEF Claims, Names
    <3>3. \A x, y \in Registered(Now, q) : x = y
      BY <1>2, <2>6 DEF Registry, ClaimedOnce, Claims
    <3>4. Registered(Now, q) # {} => PageId(Now, ps, q) \in Registered(Now, q)
      BY DEF PageId
    <3> QED BY <2>6, <3>2, <3>3, <3>4
  <2> QED BY <1>0, <2>4, <2>5, <2>6 DEF Registry, ClaimedOnce
<1> QED BY <1>1, <1>2 DEF ReadGraph

\* Every step keeps the registry.
LEMMA RegistryKept == IInv /\ PcShape /\ Registry /\ [Next]_vars => Registry'
<1> SUFFICES ASSUME IInv, PcShape, Registry, [Next]_vars PROVE Registry'
  OBVIOUS
<1>0. OwnersTyped /\ \A q : \A i \in Registered(Now, q) : Claims(i, q)
  BY DEF Registry, Claims
<1>1. ASSUME UNCHANGED <<nodes, overlapped>>,
             \A r \in Proc : todo'[r].nodes \subseteq todo[r].nodes,
             \A r \in Proc : pc'[r] = "writing" => pc[r] = "writing",
             \A r \in Proc : pc'[r] # "writing" => pc[r] # "writing" \/ todo'[r].nodes = {}
      PROVE  Registry'
  <2>1. OwnersTyped' /\ \A q : Registered(Now, q)' = Registered(Now, q)
    BY <1>0, <1>1 DEF OwnersTyped, Registered, WikiNodes, Managed, Now, Graph
  <2>2. ClaimedOnce'
    BY <1>1, <2>1 DEF Registry, ClaimedOnce, Claims, Names
  <2>3. WriterAlone'
    BY <1>1 DEF Registry, WriterAlone
  <2> QED BY <1>1, <2>1, <2>2, <2>3 DEF Registry, EventWhole
<1>2. ASSUME NEW p \in Proc, SyncStep(p) PROVE Registry'
  <2>1. CASE Scan(p)
    <3>1. UNCHANGED <<nodes, overlapped, todo>> /\ \A r \in Proc : pc'[r] = pc[r] \/ (pc[r] = "idle" /\ pc'[r] = "scanned")
      BY <2>1 DEF Scan, PcShape
    <3> QED BY <1>1, <3>1
  <2>2. CASE ReadGraph(p)
    BY <2>2, ReadGraphRegistry
  <2>3. CASE \E u \in todo[p].nodes : WriteNode(p, u)
    BY <2>3, WriteNodeRegistry
  <2>4. ASSUME NEW id \in todo[p].marks, WriteMark(p, id) PROVE Registry'
    <3>1. /\ nodes' = Upsert(Now, id, [missing |-> TRUE]).nodes /\ UNCHANGED <<pc, overlapped>>
          /\ \A r \in Proc : todo'[r].nodes = todo[r].nodes
      BY <2>4 DEF WriteMark, Becomes, IInv, Shape
    <3>2. OwnersTyped' /\ \A q \in Path : \A i \in Registered(Now, q)' : Claims(i, q)
      BY <3>1, OtherUpsertRegistry
    <3> QED BY <3>1, <3>2, RegistryStays
  <2>5. ASSUME NEW k \in todo[p].retracts, WriteRetract(p, k) PROVE Registry'
    <3>1. /\ UNCHANGED <<nodes, pc, overlapped>> /\ \A r \in Proc : todo'[r].nodes = todo[r].nodes
      BY <2>5 DEF WriteRetract, Becomes, Retract, Graph, Now, IInv, Shape
    <3> QED BY <1>1, <3>1
  <2>6. ASSUME NEW e \in todo[p].asserts, WriteAssert(p, e) PROVE Registry'
    <3>1. /\ UNCHANGED <<nodes, pc, overlapped>> /\ \A r \in Proc : todo'[r].nodes = todo[r].nodes
      BY <2>6 DEF WriteAssert, Becomes, AddRow, Graph, Now, IInv, Shape
    <3> QED BY <1>1, <3>1
  <2>7. CASE Finish(p) \/ Crash(p)
    <3>1. /\ UNCHANGED <<nodes, overlapped>>
          /\ \A r \in Proc : todo'[r].nodes \subseteq todo[r].nodes
          /\ \A r \in Proc : pc'[r] = pc[r] \/ (pc'[r] = "idle" /\ todo'[r].nodes = {})
      BY <2>7 DEF Finish, Crash, Stop, NoEvents, PcShape, IInv, Shape
    <3> QED BY <1>1, <3>1
  <2> QED BY <1>2, <2>1, <2>2, <2>3, <2>4, <2>5, <2>6, <2>7 DEF SyncStep
<1>3. CASE (\E q \in Path, c \in Content \union {Absent, Unreadable} : Edit(q, c)) \/ UNCHANGED vars
  BY <1>1, <1>3 DEF Edit, vars, syncVars
<1>4. CASE GraphCommand
  <2>1. UNCHANGED <<pc, todo, overlapped>>
    BY <1>4 DEF GraphCommand, GraphNode, GraphRetract, RelateCheck, RelateAppend, syncVars
  <2>2. CASE UNCHANGED nodes
    BY <1>1, <2>1, <2>2
  <2>3. ASSUME NEW id \in Explicit, GraphNode(id) PROVE Registry'
    <3>1. nodes' = Upsert(Now, id, [type |-> "Other"]).nodes
      BY <2>3 DEF GraphNode, Becomes
    <3>2. OwnersTyped' /\ \A q \in Path : \A i \in Registered(Now, q)' : Claims(i, q)
      BY <3>1, OtherUpsertRegistry
    <3> QED BY <2>1, <3>2, RegistryStays
  <2> QED BY <1>4, <2>2, <2>3 DEF GraphCommand, GraphRetract, RelateCheck, RelateAppend, Becomes, Retract, AddRow, Now, Graph
<1> QED BY <1>2, <1>3, <1>4 DEF Next

\* As long as no two syncs wrote at once, a page has one node for ever, whatever
\* becomes of its path, its frontmatter and the syncs (identity.rs assign_ids).
THEOREM PagesHaveOneNode == Spec => []OneNodePerPage
<1>1. Init => Registry
  BY DEF Init, Registry, OwnersTyped, WriterAlone, ClaimedOnce, Claims, Registered, WikiNodes, Now, Graph, NoEvents
<1>2. Registry => OneNodePerPage
  <2>1. SUFFICES ASSUME Registry, ~overlapped, NEW q \in Path PROVE Cardinality(Registered(Now, q)) <= 1
    BY DEF OneNodePerPage
  <2>2. \A i, j \in Registered(Now, q) : i = j
    BY <2>1 DEF Registry, ClaimedOnce, Claims
  <2>3. CASE Registered(Now, q) = {}
    BY <2>3, FS_EmptySet
  <2>4. CASE Registered(Now, q) # {}
    <3>1. PICK i \in Registered(Now, q) : TRUE
      BY <2>4
    <3>2. Registered(Now, q) = {i}
      BY <2>2, <3>1
    <3>3. Cardinality({i}) = 1
      BY FS_Singleton
    <3> QED BY <3>2, <3>3
  <2> QED BY <2>3, <2>4
<1> QED BY <1>1, <1>2, RegistryKept, PlansComplete, PcShaped, PTL DEF Spec

-----------------------------------------------------------------------------
(***************************************************************************)
(* What a whole sync makes of the graph.  A plan has one event for each    *)
(* node that it wants, so the graph after it shows that node.              *)
(***************************************************************************)
Wanted(g, ps) == {d.id : d \in DesiredNodes(g, ps)}

\* h is the graph after an undisturbed sync of g.
After(g, ps, h) == ~Fails(g, ps) /\ h = Applied(g, Plan(g, ps))

\* Pages have different ids, sources have different hashes, and a source whose
\* hash is the id of a page is not wanted.
LEMMA WantedOnce ==
    ASSUME NEW g, NEW ps, ~Fails(g, ps), NEW d \in DesiredNodes(g, ps), NEW e \in DesiredNodes(g, ps), d.id = e.id
    PROVE  d = e
<1> DEFINE OfPage(x)   == \E q \in Readable(ps) : x = [id |-> PageId(g, ps, q), fields |-> WikiNode(ps, q)]
           OfSource(x) == \E r \in Ref : /\ x = [id |-> SourceHash(r), fields |-> SourceNode(r)]
                                         /\ SourceHash(r) \notin PageIds(g, ps)
<1>1. \A x \in DesiredNodes(g, ps) : OfPage(x) \/ OfSource(x)
  BY DEF DesiredNodes
<1>2. CASE OfPage(d) /\ OfPage(e)
  BY <1>2 DEF Fails, IdsAssignable
<1>3. CASE OfSource(d) /\ OfSource(e)
  BY <1>3 DEF SourceHash
<1>4. ASSUME NEW x, NEW y, OfPage(x), OfSource(y) PROVE x.id # y.id
  <2>1. x.id \in PageIds(g, ps)
    BY <1>4 DEF PageIds
  <2>2. y.id \notin PageIds(g, ps)
    BY <1>4
  <2> QED BY <2>1, <2>2
<1> HIDE DEF OfPage, OfSource
<1> QED BY <1>1, <1>2, <1>3, <1>4

\* The event of a node that is wanted and not yet as wanted.
Event(g, d) == [id |-> d.id, fields |-> [f \in Changed(g, d) |-> d.fields[f]]]

LEMMA EventOnce ==
    ASSUME NEW g, NEW ps, ~Fails(g, ps), NEW u \in NodeEvents(g, ps), NEW d \in DesiredNodes(g, ps), u.id = d.id
    PROVE  u = Event(g, d) /\ Changed(g, d) # {}
<1>1. PICK e \in DesiredNodes(g, ps) : u = Event(g, e) /\ Changed(g, e) # {}
  BY DEF NodeEvents, Event
<1>2. e = d
  <2>1. e.id = d.id
    BY <1>1 DEF Event
  <2> QED BY <2>1, WantedOnce
<1> QED BY <1>1, <1>2

\* What the nodes are after a sync: the wanted ones carry what they should, the
\* marked ones are missing, the others are as they were.
WantedCarry(g, ps, h) ==
    \A d \in DesiredNodes(g, ps) :
        /\ DOMAIN d.fields \subseteq DOMAIN h.nodes[d.id]
        /\ \A f \in DOMAIN d.fields :
              f # "missing" \/ d.id \notin MissingMarks(g, ps) => h.nodes[d.id][f] = d.fields[f]

WantedKeep(g, ps, h) ==
    \A d \in DesiredNodes(g, ps) :
        /\ d.id \in DOMAIN g.nodes =>
              /\ DOMAIN g.nodes[d.id] \subseteq DOMAIN h.nodes[d.id]
              /\ \A f \in DOMAIN h.nodes[d.id] \ DOMAIN d.fields :
                    \/ f = "missing" /\ d.id \in MissingMarks(g, ps)
                    \/ f \in DOMAIN g.nodes[d.id] /\ h.nodes[d.id][f] = g.nodes[d.id][f]
        /\ d.id \notin DOMAIN g.nodes => DOMAIN h.nodes[d.id] = DOMAIN d.fields

OthersStay(g, ps, h) ==
    \A i \in DOMAIN g.nodes \ (Wanted(g, ps) \union MissingMarks(g, ps)) : h.nodes[i] = g.nodes[i]

MarkedMissing(g, ps, h) ==
    \A i \in MissingMarks(g, ps) : "missing" \in DOMAIN h.nodes[i] /\ h.nodes[i]["missing"] = TRUE

MarkedKeep(g, ps, h) ==
    \A i \in MissingMarks(g, ps) \ Wanted(g, ps) :
        /\ DOMAIN h.nodes[i] = DOMAIN g.nodes[i] \union {"missing"}
        /\ \A f \in DOMAIN g.nodes[i] \ {"missing"} : h.nodes[i][f] = g.nodes[i][f]

LEMMA AppliedNodes ==
    ASSUME NEW g, NEW ps, NEW h, After(g, ps, h)
    PROVE  /\ DOMAIN h.nodes = DOMAIN g.nodes \union Wanted(g, ps)
           /\ WantedCarry(g, ps, h) /\ WantedKeep(g, ps, h) /\ OthersStay(g, ps, h)
           /\ MarkedMissing(g, ps, h) /\ MarkedKeep(g, ps, h)
<1> DEFINE plan  == Plan(g, ps)
           marks == MissingMarks(g, ps)
           old(i) == IF i \in DOMAIN g.nodes THEN g.nodes[i] ELSE << >>
           ev     == [i \in {u.id : u \in plan.nodes} |->
                        Merge(old(i), (CHOOSE u \in plan.nodes : u.id = i).fields)]
           up     == Merge(g.nodes, ev)
<1>0. plan.nodes = NodeEvents(g, ps) /\ plan.marks = marks /\ ~Fails(g, ps)
  BY DEF Plan, After
<1>1. h.nodes = [i \in DOMAIN up |-> IF i \in marks THEN Merge(up[i], [missing |-> TRUE]) ELSE up[i]]
  BY <1>0 DEF Applied, Graph, After
<1>2. DOMAIN up = DOMAIN g.nodes \union {u.id : u \in NodeEvents(g, ps)}
  BY <1>0 DEF Merge
<1>3. ASSUME NEW d \in DesiredNodes(g, ps), Changed(g, d) # {}
      PROVE  /\ d.id \in {u.id : u \in NodeEvents(g, ps)}
             /\ up[d.id] = Merge(old(d.id), [f \in Changed(g, d) |-> d.fields[f]])
  <2>1. Event(g, d) \in NodeEvents(g, ps) /\ Event(g, d).id = d.id
    BY <1>3 DEF NodeEvents, Event
  <2>2. (CHOOSE u \in NodeEvents(g, ps) : u.id = d.id) = Event(g, d)
    BY <1>0, <2>1, EventOnce
  <2>3. ev[d.id] = Merge(old(d.id), Event(g, d).fields) /\ d.id \in DOMAIN ev
    BY <1>0, <2>1, <2>2
  <2>4. up[d.id] = ev[d.id]
    <3> HIDE DEF ev
    <3> QED BY <2>3 DEF Merge
  <2> QED BY <2>1, <2>3, <2>4 DEF Event
<1>4. ASSUME NEW d \in DesiredNodes(g, ps), Changed(g, d) = {}
      PROVE  d.id \in DOMAIN g.nodes /\ up[d.id] = g.nodes[d.id]
  <2>1. d.id \in DOMAIN g.nodes
    <3>1. "owner" \in DOMAIN d.fields
      BY DEF DesiredNodes, WikiNode, SourceNode
    <3> QED BY <1>4, <3>1 DEF Changed
  <2>2. d.id \notin {u.id : u \in NodeEvents(g, ps)}
    BY <1>0, <1>4, EventOnce
  <2> QED
    <3>1. DOMAIN ev = {u.id : u \in NodeEvents(g, ps)}
      BY <1>0
    <3> HIDE DEF ev
    <3> QED BY <2>1, <2>2, <3>1 DEF Merge
<1>5. {u.id : u \in NodeEvents(g, ps)} \subseteq Wanted(g, ps)
  BY DEF NodeEvents, Wanted
<1>6. \A i \in DOMAIN g.nodes \ Wanted(g, ps) : up[i] = g.nodes[i]
  <2>1. DOMAIN ev = {u.id : u \in NodeEvents(g, ps)}
    BY <1>0
  <2> HIDE DEF ev
  <2> QED BY <1>5, <2>1 DEF Merge
<1>7. DOMAIN up = DOMAIN g.nodes \union Wanted(g, ps)
  <2>1. \A d \in DesiredNodes(g, ps) : d.id \in DOMAIN g.nodes \union {u.id : u \in NodeEvents(g, ps)}
    BY DesiredComes
  <2> QED BY <1>2, <1>5, <2>1 DEF Wanted
\* What the events make of a wanted node.
<1>8. ASSUME NEW d \in DesiredNodes(g, ps)
      PROVE  /\ DOMAIN d.fields \subseteq DOMAIN up[d.id]
             /\ \A f \in DOMAIN d.fields : up[d.id][f] = d.fields[f]
             /\ d.id \in DOMAIN g.nodes =>
                   /\ DOMAIN g.nodes[d.id] \subseteq DOMAIN up[d.id]
                   /\ \A f \in DOMAIN up[d.id] \ DOMAIN d.fields :
                         f \in DOMAIN g.nodes[d.id] /\ up[d.id][f] = g.nodes[d.id][f]
             /\ d.id \notin DOMAIN g.nodes => DOMAIN up[d.id] = DOMAIN d.fields
  <2>1. CASE Changed(g, d) = {}
    BY <1>4, <2>1 DEF Changed
  <2>2. CASE Changed(g, d) # {}
    <3> DEFINE new == [f \in Changed(g, d) |-> d.fields[f]]
    <3>1. DOMAIN new = Changed(g, d) /\ \A f \in Changed(g, d) : new[f] = d.fields[f]
      OBVIOUS
    <3>2. up[d.id] = Merge(old(d.id), new)
      BY <1>3, <2>2
    <3>3. Changed(g, d) = {f \in DOMAIN d.fields : f \notin DOMAIN old(d.id) \/ old(d.id)[f] # d.fields[f]}
      BY DEF Changed
    <3>4. d.id \notin DOMAIN g.nodes => DOMAIN old(d.id) = {}
      OBVIOUS
    <3>5. d.id \in DOMAIN g.nodes => old(d.id) = g.nodes[d.id]
      OBVIOUS
    <3> HIDE DEF up, new, old
    <3>6. /\ DOMAIN up[d.id] = DOMAIN old(d.id) \union Changed(g, d)
          /\ \A f \in Changed(g, d) : up[d.id][f] = d.fields[f]
          /\ \A f \in DOMAIN old(d.id) \ Changed(g, d) : up[d.id][f] = old(d.id)[f]
      BY <3>1, <3>2 DEF Merge
    <3> QED BY <3>3, <3>4, <3>5, <3>6
  <2> QED BY <2>1, <2>2
<1>9. DOMAIN [missing |-> TRUE] = {"missing"} /\ [missing |-> TRUE]["missing"] = TRUE
  OBVIOUS
<1>10. ASSUME NEW i \in marks, i \in DOMAIN up
       PROVE  /\ DOMAIN h.nodes[i] = DOMAIN up[i] \union {"missing"}
              /\ h.nodes[i]["missing"] = TRUE
              /\ \A f \in DOMAIN up[i] \ {"missing"} : h.nodes[i][f] = up[i][f]
  <2>1. PICK mark : mark = [missing |-> TRUE]
    OBVIOUS
  <2>2. DOMAIN mark = {"missing"} /\ mark["missing"] = TRUE
    BY <1>9, <2>1
  <2> HIDE DEF up, marks
  <2>3. h.nodes[i] = Merge(up[i], mark)
    BY <1>1, <1>10, <2>1
  <2> QED BY <2>2, <2>3 DEF Merge
<1>11. \A i \in DOMAIN up \ marks : h.nodes[i] = up[i]
  <2> HIDE DEF up, marks
  <2> QED BY <1>1
<1>12. marks \subseteq DOMAIN g.nodes
  BY DEF MissingMarks, WikiNodes
<1>13. DOMAIN h.nodes = DOMAIN up
  <2> HIDE DEF up, marks
  <2> QED BY <1>1
<1> HIDE DEF up, marks, old, ev, plan
<1>14. ASSUME NEW d \in DesiredNodes(g, ps)
       PROVE  /\ DOMAIN d.fields \subseteq DOMAIN h.nodes[d.id]
              /\ \A f \in DOMAIN d.fields :
                    f # "missing" \/ d.id \notin marks => h.nodes[d.id][f] = d.fields[f]
              /\ d.id \in DOMAIN g.nodes =>
                    /\ DOMAIN g.nodes[d.id] \subseteq DOMAIN h.nodes[d.id]
                    /\ \A f \in DOMAIN h.nodes[d.id] \ DOMAIN d.fields :
                          \/ f = "missing" /\ d.id \in marks
                          \/ f \in DOMAIN g.nodes[d.id] /\ h.nodes[d.id][f] = g.nodes[d.id][f]
              /\ d.id \notin DOMAIN g.nodes => DOMAIN h.nodes[d.id] = DOMAIN d.fields
  <2>1. d.id \in DOMAIN up
    BY <1>7 DEF Wanted
  <2>2. CASE d.id \in marks
    <3>1. /\ DOMAIN h.nodes[d.id] = DOMAIN up[d.id] \union {"missing"}
          /\ \A f \in DOMAIN up[d.id] \ {"missing"} : h.nodes[d.id][f] = up[d.id][f]
      BY <1>10, <2>1, <2>2
    <3>2. d.id \in DOMAIN g.nodes
      BY <1>12, <2>2
    <3>3. \A f \in DOMAIN d.fields : f # "missing" => h.nodes[d.id][f] = d.fields[f]
      BY <1>8, <3>1
    <3>4. ASSUME NEW f \in DOMAIN h.nodes[d.id] \ DOMAIN d.fields, f # "missing"
          PROVE  f \in DOMAIN g.nodes[d.id] /\ h.nodes[d.id][f] = g.nodes[d.id][f]
      <4>1. f \in DOMAIN up[d.id] \ DOMAIN d.fields /\ h.nodes[d.id][f] = up[d.id][f]
        BY <3>1, <3>4
      <4> QED BY <1>8, <3>2, <4>1
    <3>5. DOMAIN d.fields \subseteq DOMAIN h.nodes[d.id]
      BY <1>8, <3>1
    <3>6. DOMAIN g.nodes[d.id] \subseteq DOMAIN h.nodes[d.id]
      BY <1>8, <3>1, <3>2
    <3> QED BY <2>2, <3>2, <3>3, <3>4, <3>5, <3>6
  <2>3. CASE d.id \notin marks
    BY <1>8, <1>11, <2>1, <2>3
  <2> QED BY <2>2, <2>3
<1>15. \A i \in DOMAIN g.nodes \ (Wanted(g, ps) \union marks) : h.nodes[i] = g.nodes[i]
  BY <1>6, <1>7, <1>11
<1>16. ASSUME NEW i \in marks
       PROVE  /\ "missing" \in DOMAIN h.nodes[i] /\ h.nodes[i]["missing"] = TRUE
              /\ i \notin Wanted(g, ps) =>
                    /\ DOMAIN h.nodes[i] = DOMAIN g.nodes[i] \union {"missing"}
                    /\ \A f \in DOMAIN g.nodes[i] \ {"missing"} : h.nodes[i][f] = g.nodes[i][f]
  <2>1. i \in DOMAIN up
    BY <1>7, <1>12
  <2> QED BY <1>6, <1>10, <1>12, <2>1
<1>17. WantedCarry(g, ps, h)
  BY <1>14 DEF WantedCarry, marks
<1>18. WantedKeep(g, ps, h)
  BY <1>14 DEF WantedKeep, marks
<1>19. OthersStay(g, ps, h)
  BY <1>15 DEF OthersStay, marks
<1>20. MarkedMissing(g, ps, h) /\ MarkedKeep(g, ps, h)
  BY <1>16 DEF MarkedMissing, MarkedKeep, marks
<1> QED BY <1>7, <1>13, <1>17, <1>18, <1>19, <1>20

\* The row of an edge that the plan does not retract, or asserts, is live after it.
LEMMA AppliedRows ==
    ASSUME NEW g, NEW ps, NEW h, After(g, ps, h)
    PROVE  /\ DesiredRows(g, ps) \subseteq h.live
           /\ \A e \in h.live \ DesiredRows(g, ps) :
                 e \in g.live /\ e.key \notin RetractKeys(g, ps, DesiredRows(g, ps))
           /\ \A e \in g.live : e.key \notin RetractKeys(g, ps, DesiredRows(g, ps)) => e \in h.live
<1>1. PICK rows : rows = DesiredRows(g, ps)
  OBVIOUS
<1>2. PICK gone : gone = RetractKeys(g, ps, rows)
  OBVIOUS
<1>3. h.live = {e \in g.live : e.key \notin gone} \union AssertRows(g, rows, gone)
  <2>1. PICK plan : plan = Plan(g, ps)
    OBVIOUS
  <2>2. plan.retracts = gone /\ plan.asserts = AssertRows(g, rows, gone)
    BY <1>1, <1>2, <2>1 DEF Plan
  <2>3. Applied(g, plan).live = {e \in g.live : e.key \notin plan.retracts} \union plan.asserts
    BY DEF Applied, Graph
  <2> QED BY <2>1, <2>2, <2>3 DEF After
<1> QED BY <1>1, <1>2, <1>3 DEF AssertRows

\* An owned row that is not wanted and survives is that of an unreadable page's
\* node, or of a key that another owner asserted too.
LEMMA OtherRowsProtected ==
    ASSUME NEW g, NEW ps, NEW h, After(g, ps, h),
           NEW e \in h.live \ DesiredRows(g, ps),
           e.key.from \notin SkippedNodes(g, ps), e.ref # Foreign
    PROVE  e.key \in ForeignKeys(h)
<1>1. PICK rows : rows = DesiredRows(g, ps)
  OBVIOUS
<1>2. e \in g.live /\ e.key \notin RetractKeys(g, ps, rows)
  BY <1>1, AppliedRows
<1>3. e.key \in OwnedKeys(g)
  BY <1>2 DEF OwnedKeys
<1>4. Stale(g, rows, e.key)
  <2>1. e \in {x \in g.live : x.key = e.key /\ x.ref # Foreign} /\ e \notin {x \in rows : x.key = e.key}
    BY <1>1, <1>2
  <2> QED BY <2>1 DEF Stale
<1>5. e.key \in ForeignKeys(g)
  BY <1>2, <1>3, <1>4 DEF RetractKeys
<1>6. PICK x \in g.live : x.ref = Foreign /\ x.key = e.key
  BY <1>5 DEF ForeignKeys
<1>7. x \in h.live
  BY <1>1, <1>2, <1>6, AppliedRows
<1> QED BY <1>6, <1>7 DEF ForeignKeys

\* A page's node carries what the page says.
Carries(node, ps, q) ==
    /\ {"owner", "type", "path", "text", "missing"} \subseteq DOMAIN node
    /\ node.owner = Sync /\ node.type = "Wiki" /\ node.path = q /\ node.text = ps[q]

LEMMA PageShown ==
    ASSUME NEW g, NEW ps, NEW h, After(g, ps, h), NEW q \in Readable(ps), NEW id, id = PageId(g, ps, q)
    PROVE  /\ id \in DOMAIN h.nodes /\ Carries(h.nodes[id], ps, q)
           /\ id \notin MissingMarks(g, ps) => ~Missing(h.nodes[id])
<1>2. PICK fields : fields = WikiNode(ps, q)
  OBVIOUS
<1>3. /\ DOMAIN fields = {"owner", "type", "path", "text", "missing"}
      /\ fields["owner"] = Sync /\ fields["type"] = "Wiki" /\ fields["path"] = q
      /\ fields["text"] = ps[q] /\ fields["missing"] = FALSE
  BY <1>2 DEF WikiNode, Sync
<1>4. PICK d \in DesiredNodes(g, ps) : d.id = id /\ d.fields = fields
  <2>1. [id |-> id, fields |-> fields] \in DesiredNodes(g, ps)
    BY <1>2 DEF DesiredNodes
  <2> QED BY <2>1
<1>5. /\ DOMAIN fields \subseteq DOMAIN h.nodes[id]
      /\ \A f \in DOMAIN fields : f # "missing" \/ id \notin MissingMarks(g, ps) => h.nodes[id][f] = fields[f]
      /\ id \in DOMAIN h.nodes
  <2>1. DOMAIN h.nodes = DOMAIN g.nodes \union Wanted(g, ps) /\ WantedCarry(g, ps, h)
    BY AppliedNodes
  <2> QED BY <1>4, <2>1 DEF Wanted, WantedCarry
<1>6. Carries(h.nodes[id], ps, q)
  BY <1>3, <1>5 DEF Carries
<1>7. id \notin MissingMarks(g, ps) => h.nodes[id]["missing"] = FALSE
  BY <1>3, <1>5
<1>8. id \notin MissingMarks(g, ps) => ~Missing(h.nodes[id])
  BY <1>7 DEF Missing
<1> QED BY <1>5, <1>6, <1>8

\* What is a wiki node after the plan and not that of a page that was read was
\* one before, at the same path.
LEMMA OtherWikiNodes ==
    ASSUME NEW g, NEW ps, NEW h, After(g, ps, h),
           NEW i \in WikiNodes(h), i \notin PageIds(g, ps)
    PROVE  /\ i \in WikiNodes(g) /\ h.nodes[i].path = g.nodes[i].path
           /\ i \notin Wanted(g, ps)
           /\ i \notin MissingMarks(g, ps) => h.nodes[i] = g.nodes[i]
<1>1. i \notin Wanted(g, ps)
  <2>1. SUFFICES ASSUME i \in Wanted(g, ps) PROVE FALSE
    OBVIOUS
  <2>2. PICK d \in DesiredNodes(g, ps) : d.id = i
    BY <2>1 DEF Wanted
  <2>3. PICK r \in Ref : d.fields = SourceNode(r)
    BY <2>2 DEF DesiredNodes, PageIds
  <2>4. "type" \in DOMAIN d.fields /\ d.fields.type = "Source"
    BY <2>3 DEF SourceNode
  <2>5. h.nodes[i].type = "Source"
    BY <2>2, <2>4, AppliedNodes DEF WantedCarry
  <2> QED BY <2>5 DEF WikiNodes
<1>2. i \in DOMAIN g.nodes
  BY <1>1, AppliedNodes DEF WikiNodes
<1>3. CASE i \notin MissingMarks(g, ps)
  <2>1. h.nodes[i] = g.nodes[i]
    BY <1>1, <1>2, <1>3, AppliedNodes DEF OthersStay
  <2> QED BY <1>1, <1>2, <1>3, <2>1 DEF WikiNodes, Managed
<1>4. CASE i \in MissingMarks(g, ps)
  <2>1. \A f \in DOMAIN g.nodes[i] \ {"missing"} : h.nodes[i][f] = g.nodes[i][f]
    BY <1>1, <1>4, AppliedNodes DEF MarkedKeep
  <2>2. i \in WikiNodes(g) /\ "path" \in DOMAIN g.nodes[i]
    BY <1>4 DEF MissingMarks, WikiNodes
  <2> QED BY <1>1, <1>4, <2>1, <2>2
<1> QED BY <1>3, <1>4

\* After the plan the nodes of pages that are gone are missing.
LEMMA GoneAreMissing ==
    ASSUME NEW g, NEW ps, NEW h, After(g, ps, h),
           NEW i \in WikiNodes(h), h.nodes[i].path \notin Readable(ps) \union Skipped(ps)
    PROVE  Missing(h.nodes[i])
<1>1. i \notin PageIds(g, ps)
  <2>1. SUFFICES ASSUME NEW q \in Readable(ps), i = PageId(g, ps, q) PROVE FALSE
    BY DEF PageIds
  <2>2. Carries(h.nodes[i], ps, q)
    BY <2>1, PageShown
  <2> QED BY <2>2 DEF Carries
<1>2. /\ i \in WikiNodes(g) /\ h.nodes[i].path = g.nodes[i].path
      /\ i \notin MissingMarks(g, ps) => h.nodes[i] = g.nodes[i]
  BY <1>1, OtherWikiNodes
<1>3. CASE i \in MissingMarks(g, ps)
  <2>1. "missing" \in DOMAIN h.nodes[i] /\ h.nodes[i]["missing"] = TRUE
    BY <1>3, AppliedNodes DEF MarkedMissing
  <2> QED BY <2>1 DEF Missing
<1>4. CASE i \notin MissingMarks(g, ps)
  <2>1. Missing(g.nodes[i])
    BY <1>2, <1>4 DEF MissingMarks
  <2> QED BY <1>2, <1>4, <2>1
<1> QED BY <1>3, <1>4

\* From every graph, whoever left it behind, one undisturbed sync makes the
\* graph show the pages (sync.rs).
THEOREM OneSyncProjects == Spec => []SyncProjects
<1>1. SyncProjects
  <2>1. SUFFICES ASSUME NEW h, After(Now, disk, h)
                 PROVE  /\ \A q \in Readable(disk) :
                              LET n == h.nodes[PageId(Now, disk, q)]
                              IN n.path = q /\ n.text = disk[q] /\ n.type = "Wiki"
                        /\ \A id \in WikiNodes(h) :
                              h.nodes[id].path \notin Readable(disk) \union Skipped(disk) => Missing(h.nodes[id])
                        /\ DesiredRows(Now, disk) \subseteq h.live
                        /\ \A e \in h.live \ DesiredRows(Now, disk) :
                              e.key.from \notin SkippedNodes(Now, disk) /\ e.ref # Foreign => e.key \in ForeignKeys(h)
    BY DEF SyncProjects, After
  <2>2. \A q \in Readable(disk) :
           LET n == h.nodes[PageId(Now, disk, q)]
           IN n.path = q /\ n.text = disk[q] /\ n.type = "Wiki"
    BY <2>1, PageShown DEF Carries
  <2>3. \A id \in WikiNodes(h) :
           h.nodes[id].path \notin Readable(disk) \union Skipped(disk) => Missing(h.nodes[id])
    BY <2>1, GoneAreMissing
  <2>4. DesiredRows(Now, disk) \subseteq h.live
    BY <2>1, AppliedRows
  <2>5. \A e \in h.live \ DesiredRows(Now, disk) :
           e.key.from \notin SkippedNodes(Now, disk) /\ e.ref # Foreign => e.key \in ForeignKeys(h)
    BY <2>1, OtherRowsProtected
  <2> QED BY <2>2, <2>3, <2>4, <2>5
<1> QED BY <1>1, PTL

-----------------------------------------------------------------------------
(***************************************************************************)
(* Undisturbed syncs settle.  The first gives every page its node and      *)
(* marks what is gone, the second takes back the marks of pages that moved *)
(* to a node they claimed, the third asserts what then resolves, and what  *)
(* the third has left is what a fourth would want.                         *)
(***************************************************************************)
RegisteredOnce(g, ps) == \A q \in Readable(ps) : \A i, j \in Registered(g, q) : i = j

SamePages(g, h, ps) == \A q \in Readable(ps) : PageId(h, ps, q) = PageId(g, ps, q)

\* After a sync the node of a page is the one that is registered for it.
LEMMA PagesStay ==
    ASSUME NEW g, NEW ps, NEW h, After(g, ps, h), RegisteredOnce(g, ps)
    PROVE  SamePages(g, h, ps) /\ RegisteredOnce(h, ps)
<1>1. ASSUME NEW q \in Readable(ps), NEW id, id = PageId(g, ps, q)
      PROVE  Registered(h, q) = {id}
  <2>1. id \in DOMAIN h.nodes /\ Carries(h.nodes[id], ps, q)
    BY <1>1, PageShown
  <2>2. id \in Registered(h, q)
    BY <2>1 DEF Carries, Registered, WikiNodes, Managed
  <2>3. ASSUME NEW i \in Registered(h, q) PROVE i = id
    <3>1. i \in WikiNodes(h) /\ h.nodes[i].path = q
      BY <2>3 DEF Registered
    <3>2. CASE i \in PageIds(g, ps)
      <4>1. PICK r \in Readable(ps) : i = PageId(g, ps, r)
        BY <3>2 DEF PageIds
      <4>2. Carries(h.nodes[i], ps, r)
        BY <4>1, PageShown
      <4> QED BY <1>1, <3>1, <4>1, <4>2 DEF Carries
    <3>3. CASE i \notin PageIds(g, ps)
      <4>1. i \in Registered(g, q)
        BY <3>1, <3>3, OtherWikiNodes DEF Registered
      <4>2. PageId(g, ps, q) \in Registered(g, q)
        BY <4>1 DEF PageId
      <4> QED BY <1>1, <4>1, <4>2 DEF RegisteredOnce
    <3> QED BY <3>2, <3>3
  <2> QED BY <2>2, <2>3
<1>2. SamePages(g, h, ps)
  <2>1. ASSUME NEW q \in Readable(ps) PROVE PageId(h, ps, q) = PageId(g, ps, q)
    BY <1>1 DEF PageId
  <2> QED BY <2>1 DEF SamePages
<1>3. RegisteredOnce(h, ps)
  BY <1>1 DEF RegisteredOnce
<1> QED BY <1>2, <1>3

LEMMA SameResolve ==
    ASSUME NEW g, NEW ps, NEW h, SamePages(g, h, ps)
    PROVE  PageIds(h, ps) = PageIds(g, ps) /\ \A r : Resolve(h, ps, r) = Resolve(g, ps, r)
<1>1. PageIds(h, ps) = PageIds(g, ps)
  BY DEF SamePages, PageIds
<1>2. ASSUME NEW r PROVE Resolve(h, ps, r) = Resolve(g, ps, r)
  <2>1. PICK found : /\ found = (IF {RefPath[r]} \intersect Readable(ps) # {} THEN {RefPath[r]} \intersect Readable(ps)
                                 ELSE RefBase[r] \intersect Readable(ps))
                     /\ found \subseteq Readable(ps)
    OBVIOUS
  <2>2. \A x : Resolve(x, ps, r) = {PageId(x, ps, q) : q \in found}
    BY <2>1 DEF Resolve
  <2> QED BY <2>1, <2>2 DEF SamePages
<1> QED BY <1>1, <1>2

\* The ids that a reference can name.
KnownIds(g, ps) == DOMAIN g.nodes \union PageIds(g, ps)

Gone(g, i) == i \in DOMAIN g.nodes /\ Missing(g.nodes[i])

\* When a source names itself: its id is known and not that of a missing node,
\* or nothing else is found.
NamesItself(g, ps, r) == ResolveSource(g, ps, r) = SourceHash(r) /\ SourceHash(r) \notin PageIds(g, ps)

LEMMA NamesItselfIs ==
    ASSUME NEW g, NEW ps, NEW r \in Ref
    PROVE  NamesItself(g, ps, r) <=>
              /\ SourceHash(r) \notin PageIds(g, ps)
              /\ \/ RefKind[r] = "graph" /\ RefId[r] \in KnownIds(g, ps) /\ RefId[r] = SourceHash(r)
                 \/ RefKind[r] = "id" /\ RefId[r] \in KnownIds(g, ps) /\ ~Gone(g, RefId[r]) /\ RefId[r] = SourceHash(r)
                 \/ /\ RefKind[r] # "graph" /\ ~(RefKind[r] = "id" /\ RefId[r] \in KnownIds(g, ps))
                    /\ Resolve(g, ps, r) = {} /\ RefKind[r] # "outside"
<1>0. SourceHash(r) \in Id /\ NoId # SourceHash(r)
  BY NoneAssumption DEF Id
<1>1. PICK known : known = KnownIds(g, ps)
  OBVIOUS
<1>2. PICK wiki : wiki = Resolve(g, ps, r)
  OBVIOUS
<1>3. ResolveSource(g, ps, r) =
        CASE RefKind[r] = "graph" -> IF RefId[r] \in known THEN RefId[r] ELSE NoId
          [] RefKind[r] = "id" /\ RefId[r] \in known -> IF Gone(g, RefId[r]) THEN NoId ELSE RefId[r]
          [] RefKind[r] # "graph" /\ ~(RefKind[r] = "id" /\ RefId[r] \in known) ->
                IF Cardinality(wiki) = 1 THEN CHOOSE id \in wiki : TRUE
                ELSE IF wiki = {} /\ RefKind[r] # "outside" THEN SourceHash(r) ELSE NoId
  BY <1>1, <1>2 DEF ResolveSource, Gone, KnownIds
<1>4. CASE RefKind[r] = "graph"
  <2>1. ResolveSource(g, ps, r) = IF RefId[r] \in known THEN RefId[r] ELSE NoId
    BY <1>3, <1>4
  <2> QED BY <1>0, <1>1, <1>4, <2>1 DEF NamesItself
<1>5. CASE RefKind[r] = "id" /\ RefId[r] \in known
  <2>1. ResolveSource(g, ps, r) = IF Gone(g, RefId[r]) THEN NoId ELSE RefId[r]
    BY <1>3, <1>5
  <2> QED BY <1>0, <1>1, <1>5, <2>1 DEF NamesItself
<1>6. CASE RefKind[r] # "graph" /\ ~(RefKind[r] = "id" /\ RefId[r] \in known)
  <2>1. ResolveSource(g, ps, r) = IF Cardinality(wiki) = 1 THEN CHOOSE id \in wiki : TRUE
                                  ELSE IF wiki = {} /\ RefKind[r] # "outside" THEN SourceHash(r) ELSE NoId
    BY <1>3, <1>6
  <2>2. Cardinality(wiki) = 1 => (CHOOSE id \in wiki : TRUE) \in PageIds(g, ps) /\ wiki # {}
    BY <1>2, ResolvedIsPage, FS_EmptySet
  <2> QED BY <1>0, <1>1, <1>2, <1>6, <2>1, <2>2 DEF NamesItself
<1> QED BY <1>4, <1>5, <1>6

LEMMA DesiredIs ==
    ASSUME NEW g, NEW ps
    PROVE  /\ \A q \in Readable(ps) : [id |-> PageId(g, ps, q), fields |-> WikiNode(ps, q)] \in DesiredNodes(g, ps)
           /\ \A r \in Ref : (\E q \in Readable(ps) : Lists(ps[q].sources, r)) /\ NamesItself(g, ps, r)
                             => [id |-> SourceHash(r), fields |-> SourceNode(r)] \in DesiredNodes(g, ps)
           /\ \A d \in DesiredNodes(g, ps) :
                 \/ \E q \in Readable(ps) : d = [id |-> PageId(g, ps, q), fields |-> WikiNode(ps, q)]
                 \/ \E r \in Ref : /\ d = [id |-> SourceHash(r), fields |-> SourceNode(r)]
                                   /\ \E q \in Readable(ps) : Lists(ps[q].sources, r)
                                   /\ NamesItself(g, ps, r)
BY DEF DesiredNodes, NamesItself

\* After a sync the next one wants no node that is not known.
LEMMA WantedKnown ==
    ASSUME NEW g, NEW ps, NEW h, After(g, ps, h), SamePages(g, h, ps)
    PROVE  Wanted(h, ps) \subseteq KnownIds(h, ps)
<1>1. SUFFICES ASSUME NEW d \in DesiredNodes(h, ps), d.id \notin KnownIds(h, ps) PROVE FALSE
  BY DEF Wanted
<1>2. DOMAIN h.nodes = DOMAIN g.nodes \union Wanted(g, ps)
  BY AppliedNodes
<1>3. PageIds(h, ps) = PageIds(g, ps) /\ \A r : Resolve(h, ps, r) = Resolve(g, ps, r)
  BY SameResolve
<1>4. ~ \E q \in Readable(ps) : d.id = PageId(h, ps, q)
  BY <1>1 DEF KnownIds, PageIds
<1>5. PICK r \in Ref : /\ d = [id |-> SourceHash(r), fields |-> SourceNode(r)]
                       /\ \E q \in Readable(ps) : Lists(ps[q].sources, r)
                       /\ NamesItself(h, ps, r)
  BY <1>4, DesiredIs
<1>6. SourceHash(r) \notin KnownIds(h, ps) /\ KnownIds(g, ps) \subseteq KnownIds(h, ps)
  BY <1>1, <1>2, <1>3, <1>5 DEF KnownIds
<1>7. /\ RefKind[r] # "graph" /\ ~(RefKind[r] = "id" /\ RefId[r] \in KnownIds(h, ps))
      /\ Resolve(h, ps, r) = {} /\ RefKind[r] # "outside"
  BY <1>5, <1>6, NamesItselfIs
<1>8. NamesItself(g, ps, r)
  <2>1. SourceHash(r) \notin PageIds(g, ps)
    BY <1>3, <1>6 DEF KnownIds
  <2> QED BY <1>3, <1>6, <1>7, <2>1, NamesItselfIs
<1>9. SourceHash(r) \in Wanted(g, ps)
  <2>1. [id |-> SourceHash(r), fields |-> SourceNode(r)] \in DesiredNodes(g, ps)
    BY <1>5, <1>8, DesiredIs
  <2> QED BY <2>1 DEF Wanted
<1> QED BY <1>2, <1>6, <1>9 DEF KnownIds

\* After a sync nothing is left to be marked.
LEMMA NothingToMark ==
    ASSUME NEW g, NEW ps, NEW h, After(g, ps, h)
    PROVE  MissingMarks(h, ps) = {}
BY GoneAreMissing DEF MissingMarks

\* A sync that marks nothing takes the marks of the pages and leaves the others.
LEMMA MarksStay ==
    ASSUME NEW h, NEW ps, NEW k, After(h, ps, k), MissingMarks(h, ps) = {}
    PROVE  /\ \A i \in PageIds(h, ps) : ~Gone(k, i)
           /\ \A i \in DOMAIN h.nodes \ PageIds(h, ps) : Gone(h, i) => Gone(k, i)
<1>1. ASSUME NEW i \in PageIds(h, ps) PROVE ~Gone(k, i)
  <2>1. PICK q \in Readable(ps) : i = PageId(h, ps, q)
    BY DEF PageIds
  <2> QED BY <2>1, PageShown DEF Gone
<1>2. ASSUME NEW i \in DOMAIN h.nodes \ PageIds(h, ps), Gone(h, i) PROVE Gone(k, i)
  <2>1. i \in DOMAIN k.nodes
    BY AppliedNodes
  <2>2. CASE i \notin Wanted(h, ps)
    <3>1. k.nodes[i] = h.nodes[i]
      BY <2>2, AppliedNodes DEF OthersStay
    <3> QED BY <1>2, <2>1, <3>1 DEF Gone
  <2>3. CASE i \in Wanted(h, ps)
    <3>1. PICK d \in DesiredNodes(h, ps) : d.id = i
      BY <2>3 DEF Wanted
    <3>2. PICK r \in Ref : d.fields = SourceNode(r)
      BY <3>1, DesiredIs DEF PageIds
    <3>3. "missing" \notin DOMAIN d.fields
      BY <3>2 DEF SourceNode
    <3>4. "missing" \in DOMAIN h.nodes[i] /\ h.nodes[i].missing
      BY <1>2 DEF Gone, Missing
    <3>5. "missing" \in DOMAIN k.nodes[i] /\ k.nodes[i].missing = h.nodes[i].missing
      <4>1. WantedKeep(h, ps, k)
        BY AppliedNodes
      <4>2. /\ DOMAIN h.nodes[i] \subseteq DOMAIN k.nodes[i]
            /\ \A f \in DOMAIN k.nodes[i] \ DOMAIN d.fields : k.nodes[i][f] = h.nodes[i][f]
        BY <3>1, <4>1 DEF WantedKeep
      <4> QED BY <3>3, <3>4, <4>2
    <3> QED BY <2>1, <3>4, <3>5 DEF Gone, Missing
  <2> QED BY <2>2, <2>3
<1> QED BY <1>1, <1>2

\* The third sync wants no node that the second did not want.
LEMMA WantsNoMore ==
    ASSUME NEW g, NEW ps, NEW h, NEW k, After(g, ps, h), After(h, ps, k), RegisteredOnce(g, ps)
    PROVE  DesiredNodes(k, ps) \subseteq DesiredNodes(h, ps)
<1>1. SamePages(g, h, ps) /\ SamePages(h, k, ps)
  BY PagesStay
<1>2. PageIds(k, ps) = PageIds(h, ps) /\ \A r : Resolve(k, ps, r) = Resolve(h, ps, r)
  BY <1>1, SameResolve
<1>3. Wanted(h, ps) \subseteq KnownIds(h, ps)
  BY <1>1, WantedKnown
<1>4. DOMAIN k.nodes = DOMAIN h.nodes \union Wanted(h, ps)
  BY AppliedNodes
<1>5. KnownIds(k, ps) = KnownIds(h, ps)
  BY <1>2, <1>3, <1>4 DEF KnownIds
<1>6. MissingMarks(h, ps) = {}
  BY NothingToMark
<1>7. ASSUME NEW r \in Ref, NamesItself(k, ps, r) PROVE NamesItself(h, ps, r)
  <2>1. SourceHash(r) \notin PageIds(h, ps)
    BY <1>2, <1>7 DEF NamesItself
  <2>2. CASE RefKind[r] = "id" /\ RefId[r] \in KnownIds(k, ps)
    <3>1. RefId[r] = SourceHash(r) /\ ~Gone(k, RefId[r])
      BY <1>7, <2>2, NamesItselfIs
    <3>2. RefId[r] \in DOMAIN h.nodes
      BY <1>5, <2>1, <2>2, <3>1 DEF KnownIds
    <3>3. ~Gone(h, RefId[r])
      BY <1>6, <2>1, <3>1, <3>2, MarksStay
    <3> QED BY <1>5, <2>1, <2>2, <3>1, <3>3, NamesItselfIs
  <2>3. CASE ~(RefKind[r] = "id" /\ RefId[r] \in KnownIds(k, ps))
    BY <1>2, <1>5, <1>7, <2>1, <2>3, NamesItselfIs
  <2> QED BY <2>2, <2>3
<1>8. ASSUME NEW d \in DesiredNodes(k, ps) PROVE d \in DesiredNodes(h, ps)
  <2>1. CASE \E q \in Readable(ps) : d = [id |-> PageId(k, ps, q), fields |-> WikiNode(ps, q)]
    BY <1>1, <2>1, DesiredIs DEF SamePages
  <2>2. CASE \E r \in Ref : /\ d = [id |-> SourceHash(r), fields |-> SourceNode(r)]
                            /\ \E q \in Readable(ps) : Lists(ps[q].sources, r)
                            /\ NamesItself(k, ps, r)
    BY <1>7, <2>2, DesiredIs
  <2> QED BY <2>1, <2>2, DesiredIs
<1> QED BY <1>8

\* The third sync writes no node.
LEMMA NoNodeLeft ==
    ASSUME NEW g, NEW ps, NEW h, NEW k, After(g, ps, h), After(h, ps, k), RegisteredOnce(g, ps)
    PROVE  NodeEvents(k, ps) = {} /\ MissingMarks(k, ps) = {}
<1>1. MissingMarks(h, ps) = {} /\ MissingMarks(k, ps) = {}
  BY NothingToMark
<1>2. ASSUME NEW d \in DesiredNodes(k, ps) PROVE Changed(k, d) = {}
  <2>1. d \in DesiredNodes(h, ps)
    BY WantsNoMore
  <2>2. d.id \in DOMAIN k.nodes
    BY <2>1, AppliedNodes DEF Wanted
  <2>3. DOMAIN d.fields \subseteq DOMAIN k.nodes[d.id] /\ \A f \in DOMAIN d.fields : k.nodes[d.id][f] = d.fields[f]
    BY <1>1, <2>1, AppliedNodes DEF WantedCarry
  <2> QED BY <2>2, <2>3 DEF Changed
<1> QED BY <1>1, <1>2 DEF NodeEvents

\* What a sync wants depends on the nodes only.
LEMMA SameNodes ==
    ASSUME NEW k, NEW ps, NEW m, m.nodes = k.nodes
    PROVE  /\ NodeEvents(m, ps) = NodeEvents(k, ps) /\ MissingMarks(m, ps) = MissingMarks(k, ps)
           /\ DesiredRows(m, ps) = DesiredRows(k, ps) /\ SkippedNodes(m, ps) = SkippedNodes(k, ps)
<1>1. \A q : Registered(m, q) = Registered(k, q)
  BY DEF Registered, WikiNodes, Managed
<1>2. ASSUME NEW q PROVE PageId(m, ps, q) = PageId(k, ps, q)
  <2>1. PICK reg : reg = Registered(m, q)
    OBVIOUS
  <2>2. reg = Registered(k, q)
    BY <1>1, <2>1
  <2> QED BY <2>1, <2>2 DEF PageId
<1>3. PageIds(m, ps) = PageIds(k, ps) /\ \A r : Resolve(m, ps, r) = Resolve(k, ps, r)
  BY <1>2 DEF PageIds, Resolve
<1>4. ASSUME NEW r
      PROVE  ResolveSource(m, ps, r) = ResolveSource(k, ps, r) /\ ResolveRelated(m, ps, r) = ResolveRelated(k, ps, r)
  <2>1. PICK wiki, ids : wiki = Resolve(m, ps, r) /\ ids = PageIds(m, ps)
    OBVIOUS
  <2>2. wiki = Resolve(k, ps, r) /\ ids = PageIds(k, ps)
    BY <1>3, <2>1
  <2>3. ResolveSource(m, ps, r) = ResolveSource(k, ps, r)
    BY <2>1, <2>2 DEF ResolveSource
  <2> QED BY <2>1, <2>2, <2>3 DEF ResolveRelated
<1>5. DesiredNodes(m, ps) = DesiredNodes(k, ps)
  BY <1>2, <1>3, <1>4 DEF DesiredNodes
<1>6. \A d : Changed(m, d) = Changed(k, d)
  BY DEF Changed
<1>7. NodeEvents(m, ps) = NodeEvents(k, ps)
  BY <1>5, <1>6 DEF NodeEvents
<1>8. MissingMarks(m, ps) = MissingMarks(k, ps) /\ SkippedNodes(m, ps) = SkippedNodes(k, ps)
  BY DEF MissingMarks, SkippedNodes, WikiNodes, Managed
<1>9. SourceTargets(m, ps) = SourceTargets(k, ps) /\ RelatedTargets(m, ps) = RelatedTargets(k, ps)
  BY <1>4 DEF SourceTargets, RelatedTargets
<1>10. DesiredRows(m, ps) = DesiredRows(k, ps)
  BY <1>2, <1>9 DEF DesiredRows
<1> QED BY <1>7, <1>8, <1>10

\* The nodes of a graph after a sync are a function, and a plan without node
\* events leaves them as they are.
LEMMA NodesAreFunction ==
    ASSUME NEW h, NEW ps, NEW k, After(h, ps, k)
    PROVE  k.nodes = [i \in DOMAIN k.nodes |-> k.nodes[i]]
<1>1. \E up, marks : k.nodes = [i \in DOMAIN up |-> IF i \in marks THEN Merge(up[i], [missing |-> TRUE]) ELSE up[i]]
  BY DEF After, Applied, Graph
<1> QED BY <1>1

LEMMA QuietNodes ==
    ASSUME NEW k, NEW ps, NEW m, After(k, ps, m), NodeEvents(k, ps) = {}, MissingMarks(k, ps) = {},
           k.nodes = [i \in DOMAIN k.nodes |-> k.nodes[i]]
    PROVE  m.nodes = k.nodes
<1>1. PICK plan : plan = Plan(k, ps)
  OBVIOUS
<1>2. plan.nodes = {} /\ plan.marks = {}
  BY <1>1 DEF Plan
<1> DEFINE ev == [i \in {u.id : u \in plan.nodes} |->
                    Merge(IF i \in DOMAIN k.nodes THEN k.nodes[i] ELSE << >>,
                          (CHOOSE u \in plan.nodes : u.id = i).fields)]
           up == Merge(k.nodes, ev)
<1>3. m.nodes = [i \in DOMAIN up |-> IF i \in plan.marks THEN Merge(up[i], [missing |-> TRUE]) ELSE up[i]]
  BY <1>1 DEF After, Applied, Graph
<1>4. DOMAIN ev = {}
  BY <1>2
<1>5. DOMAIN up = DOMAIN k.nodes /\ \A i \in DOMAIN k.nodes : up[i] = k.nodes[i]
  <2> HIDE DEF ev
  <2> QED BY <1>4 DEF Merge
<1>6. DOMAIN m.nodes = DOMAIN k.nodes /\ \A i \in DOMAIN k.nodes : m.nodes[i] = k.nodes[i]
  <2> HIDE DEF up
  <2> QED BY <1>2, <1>3, <1>5
<1>7. m.nodes = [i \in DOMAIN m.nodes |-> m.nodes[i]]
  BY NodesAreFunction
<1> QED BY <1>6, <1>7

\* Sync's rows are not those of another owner.
LEMMA RowsOwned ==
    ASSUME NEW g, NEW ps, NEW e \in DesiredRows(g, ps)
    PROVE  e.ref # Foreign
<1>1. ASSUME NEW from, NEW kind, NEW refs, NEW target, refs \in Seq(Ref), e \in ListRows(from, kind, refs, target)
      PROVE  e.ref \in Ref
  <2>1. PICK i \in DOMAIN refs : e.ref = refs[i]
    BY <1>1 DEF ListRows, Row
  <2> QED BY <1>1, <2>1
<1>2. PICK q \in Readable(ps) :
        \/ e \in ListRows(PageId(g, ps, q), "DERIVED_FROM", ps[q].sources, SourceTargets(g, ps))
        \/ e \in ListRows(PageId(g, ps, q), "RELATED_TO", ps[q].related, RelatedTargets(g, ps))
  BY DEF DesiredRows
<1>3. ps[q].sources \in Seq(Ref) /\ ps[q].related \in Seq(Ref)
  BY ContentAssumption DEF Readable
<1>4. e.ref \in Ref
  BY <1>1, <1>2, <1>3
<1> QED BY <1>4, NoneAssumption

\* After a sync that wrote no node the next one appends nothing.
LEMMA QuietAfter ==
    ASSUME NEW k, NEW ps, NEW m, After(k, ps, m), NodeEvents(k, ps) = {}, MissingMarks(k, ps) = {}, m.nodes = k.nodes
    PROVE  Plan(m, ps) = NoEvents
<1>1. PICK rows : rows = DesiredRows(k, ps)
  OBVIOUS
<1>2. DesiredRows(m, ps) = rows /\ NodeEvents(m, ps) = {} /\ MissingMarks(m, ps) = {}
      /\ SkippedNodes(m, ps) = SkippedNodes(k, ps)
  BY <1>1, SameNodes
<1>3. rows \subseteq m.live /\ \A e \in rows : e.ref # Foreign
  BY <1>1, AppliedRows, RowsOwned
<1>4. RetractKeys(m, ps, rows) = {}
  <2>1. SUFFICES ASSUME NEW key \in RetractKeys(m, ps, rows) PROVE FALSE
    OBVIOUS
  <2>2. key.from \notin SkippedNodes(k, ps) /\ Stale(m, rows, key) /\ key \notin ForeignKeys(m)
    BY <1>2 DEF RetractKeys
  <2>3. \A e \in m.live : e.key = key /\ e.ref # Foreign => e \in rows
    BY <1>1, <2>2, OtherRowsProtected
  <2>4. {e \in m.live : e.key = key /\ e.ref # Foreign} = {e \in rows : e.key = key}
    BY <1>3, <2>3
  <2> QED BY <2>2, <2>4 DEF Stale
<1>5. AssertRows(m, rows, {}) = {}
  BY <1>3 DEF AssertRows
<1> QED BY <1>2, <1>4, <1>5 DEF Plan, NoEvents

\* An undisturbed sync, which changes nothing where identities conflict.
Synced(g, ps) == IF Fails(g, ps) THEN g ELSE Applied(g, Plan(g, ps))

LEMMA FourthIsQuiet ==
    ASSUME NEW g, NEW ps, ~Fails(g, ps) => RegisteredOnce(g, ps),
           NEW h, h = Synced(g, ps), NEW k, k = Synced(h, ps), NEW m, m = Synced(k, ps), ~Fails(m, ps)
    PROVE  Plan(m, ps) = NoEvents
<1>1. ~Fails(k, ps) /\ ~Fails(h, ps) /\ ~Fails(g, ps)
  BY DEF Synced
<1>2. After(g, ps, h) /\ After(h, ps, k) /\ After(k, ps, m)
  BY <1>1 DEF Synced, After
<1>3. NodeEvents(k, ps) = {} /\ MissingMarks(k, ps) = {}
  BY <1>1, <1>2, NoNodeLeft
<1>4. k.nodes = [i \in DOMAIN k.nodes |-> k.nodes[i]]
  BY <1>2, NodesAreFunction
<1>5. m.nodes = k.nodes
  BY <1>2, <1>3, <1>4, QuietNodes
<1> QED BY <1>2, <1>3, <1>5, QuietAfter

\* The graph has finitely many nodes, so that one at most is one.
FiniteNodes == IsFiniteSet(DOMAIN nodes)

LEMMA FiniteKept == FiniteNodes /\ [Next]_vars => FiniteNodes'
<1> SUFFICES ASSUME FiniteNodes, [Next]_vars PROVE FiniteNodes'
  OBVIOUS
<1>1. ASSUME NEW id, NEW fields, nodes' = Upsert(Now, id, fields).nodes PROVE FiniteNodes'
  <2>1. DOMAIN nodes' = DOMAIN nodes \union {id}
    BY <1>1, UpsertDomain DEF Now, Graph
  <2> QED BY <2>1, FS_AddElement DEF FiniteNodes
<1>2. UNCHANGED nodes \/ \E id, fields : nodes' = Upsert(Now, id, fields).nodes
  BY DEF Next, vars, syncVars, SyncStep, Scan, ReadGraph, WriteNode, WriteMark, WriteRetract, WriteAssert,
         Finish, Crash, Stop, Edit, GraphCommand, GraphNode, GraphRetract, RelateCheck, RelateAppend,
         Becomes, Retract, AddRow, Now, Graph
<1> QED BY <1>1, <1>2 DEF FiniteNodes

LEMMA AtMostOne ==
    ASSUME NEW S, IsFiniteSet(S), Cardinality(S) <= 1, NEW i \in S, NEW j \in S
    PROVE  i = j
<1>1. SUFFICES ASSUME i # j PROVE FALSE
  OBVIOUS
<1>2. Cardinality({i}) = 1 /\ IsFiniteSet({i})
  BY FS_Singleton
<1>3. Cardinality({i} \union {j}) = 2
  BY <1>1, <1>2, FS_AddElement
<1>4. {i} \union {j} \subseteq S
  OBVIOUS
<1>5. Cardinality({i} \union {j}) <= Cardinality(S)
  BY <1>4, FS_Subset
<1>6. Cardinality(S) \in Nat
  BY FS_CardinalityType
<1> QED BY <1>3, <1>5, <1>6

\* Whatever graph syncs and commands have left, undisturbed syncs settle: the
\* fourth in a row has nothing to append, unless identities conflict.
THEOREM SyncsSettle == Spec => []SyncSettles
<1>1. Init => FiniteNodes
  BY FS_EmptySet DEF Init, FiniteNodes
<1>2. FiniteNodes => SyncSettles
  <2> SUFFICES ASSUME FiniteNodes PROVE SyncSettles
    OBVIOUS
  <2>1. ASSUME ~Fails(Now, disk) PROVE RegisteredOnce(Now, disk)
    <3>1. \A q \in Path : Cardinality(Registered(Now, q)) <= 1
      BY <2>1 DEF Fails, IdsAssignable
    <3>2. ASSUME NEW q \in Path, NEW i \in Registered(Now, q), NEW j \in Registered(Now, q) PROVE i = j
      <4>1. Registered(Now, q) \subseteq DOMAIN nodes
        BY DEF Registered, WikiNodes, Now, Graph
      <4>2. IsFiniteSet(Registered(Now, q))
        BY <4>1, FS_Subset DEF FiniteNodes
      <4> QED BY <3>1, <3>2, <4>2, AtMostOne
    <3> QED BY <3>2 DEF RegisteredOnce, Readable
  <2>2. PICK h : h = Synced(Now, disk)
    OBVIOUS
  <2>3. PICK k : k = Synced(h, disk)
    OBVIOUS
  <2>4. PICK m : m = Synced(k, disk)
    OBVIOUS
  <2>5. ~Fails(m, disk) => Plan(m, disk) = NoEvents
    BY <2>1, <2>2, <2>3, <2>4, FourthIsQuiet
  <2> QED BY <2>2, <2>3, <2>4, <2>5 DEF SyncSettles, Synced
<1> QED BY <1>1, <1>2, FiniteKept, PTL DEF Spec

-----------------------------------------------------------------------------
(***************************************************************************)
(* Applied is what the appends of a sync amount to.  It speaks of a plan   *)
(* as a whole; the code appends event after event.  Each append leaves the *)
(* graph that the rest of the plan leads to as it was.                     *)
(***************************************************************************)
OneEventEach(plan) == \A u, v \in plan.nodes : u.id = v.id => u = v

MarkedIn(plan, i, node) == IF i \in plan.marks THEN Merge(node, [missing |-> TRUE]) ELSE node

Before(g, i) == IF i \in DOMAIN g.nodes THEN g.nodes[i] ELSE << >>

EventIds(plan) == {u.id : u \in plan.nodes}

\* The graph that a plan leads to, field by field.
Reaches(g, plan, a) ==
    /\ a = Graph(a.nodes, a.live)
    /\ a.nodes = [i \in DOMAIN a.nodes |-> a.nodes[i]]
    /\ DOMAIN a.nodes = DOMAIN g.nodes \union EventIds(plan)
    /\ \A u \in plan.nodes : a.nodes[u.id] = MarkedIn(plan, u.id, Merge(Before(g, u.id), u.fields))
    /\ \A i \in DOMAIN g.nodes \ EventIds(plan) : a.nodes[i] = MarkedIn(plan, i, g.nodes[i])
    /\ a.live = {e \in g.live : e.key \notin plan.retracts} \union plan.asserts

LEMMA AppliedReaches ==
    ASSUME NEW g, NEW plan, OneEventEach(plan)
    PROVE  Reaches(g, plan, Applied(g, plan))
<1> DEFINE ev == [i \in EventIds(plan) |-> Merge(Before(g, i), (CHOOSE u \in plan.nodes : u.id = i).fields)]
           up == Merge(g.nodes, ev)
           ns == [i \in DOMAIN up |-> MarkedIn(plan, i, up[i])]
           rs == {e \in g.live : e.key \notin plan.retracts} \union plan.asserts
<1>1. Applied(g, plan) = Graph(ns, rs)
  BY DEF Applied, MarkedIn, Before, EventIds
<1>2. DOMAIN ev = EventIds(plan)
  OBVIOUS
<1>3. ASSUME NEW u \in plan.nodes PROVE ev[u.id] = Merge(Before(g, u.id), u.fields)
  <2>1. (CHOOSE v \in plan.nodes : v.id = u.id) = u
    BY DEF OneEventEach
  <2> QED BY <2>1 DEF EventIds
<1>4. /\ DOMAIN up = DOMAIN g.nodes \union EventIds(plan)
      /\ \A u \in plan.nodes : up[u.id] = Merge(Before(g, u.id), u.fields)
      /\ \A i \in DOMAIN g.nodes \ EventIds(plan) : up[i] = g.nodes[i]
  <2>1. \A u \in plan.nodes : u.id \in EventIds(plan)
    BY DEF EventIds
  <2> HIDE DEF ev
  <2>2. /\ DOMAIN up = DOMAIN g.nodes \union EventIds(plan)
        /\ \A i \in EventIds(plan) : up[i] = ev[i]
        /\ \A i \in DOMAIN g.nodes \ EventIds(plan) : up[i] = g.nodes[i]
    BY <1>2 DEF Merge
  <2> HIDE DEF up
  <2> QED BY <1>3, <2>1, <2>2
<1>5. /\ DOMAIN ns = DOMAIN up /\ ns = [i \in DOMAIN ns |-> ns[i]]
      /\ \A i \in DOMAIN up : ns[i] = MarkedIn(plan, i, up[i])
  <2> HIDE DEF up
  <2> QED OBVIOUS
<1> HIDE DEF ev, up, ns, rs
<1>6. Applied(g, plan).nodes = ns /\ Applied(g, plan).live = rs
  BY <1>1 DEF Graph
<1>7. \A u \in plan.nodes : u.id \in EventIds(plan)
  BY DEF EventIds
<1>8. /\ \A u \in plan.nodes : ns[u.id] = MarkedIn(plan, u.id, Merge(Before(g, u.id), u.fields))
      /\ \A i \in DOMAIN g.nodes \ EventIds(plan) : ns[i] = MarkedIn(plan, i, g.nodes[i])
  BY <1>4, <1>5, <1>7
<1> QED BY <1>1, <1>4, <1>5, <1>6, <1>8 DEF Reaches, rs

\* Two graphs that agree on each node and on the rows are one.
LEMMA SameGraph ==
    ASSUME NEW a, NEW b, a = Graph(a.nodes, a.live), b = Graph(b.nodes, b.live),
           a.nodes = [i \in DOMAIN a.nodes |-> a.nodes[i]], b.nodes = [i \in DOMAIN b.nodes |-> b.nodes[i]],
           DOMAIN a.nodes = DOMAIN b.nodes, \A i \in DOMAIN a.nodes : a.nodes[i] = b.nodes[i],
           a.live = b.live
    PROVE  a = b
<1>1. a.nodes = b.nodes
  OBVIOUS
<1> QED BY <1>1

\* A node event that is applied first.
LEMMA NodeFirst ==
    ASSUME NEW g, NEW plan, OneEventEach(plan), NEW u \in plan.nodes,
           u.fields = [f \in DOMAIN u.fields |-> u.fields[f]],
           NEW rest, rest.nodes = plan.nodes \ {u}, rest.marks = plan.marks,
           rest.retracts = plan.retracts, rest.asserts = plan.asserts
    PROVE  Applied(Upsert(g, u.id, u.fields), rest) = Applied(g, plan)
<1>1. PICK h : h = Upsert(g, u.id, u.fields)
  OBVIOUS
<1>2. Merge(Before(g, u.id), u.fields) = IF u.id \in DOMAIN g.nodes THEN Merge(g.nodes[u.id], u.fields) ELSE u.fields
  <2>1. CASE u.id \in DOMAIN g.nodes
    BY <2>1 DEF Before
  <2>2. CASE u.id \notin DOMAIN g.nodes
    <3>1. Merge(<< >>, u.fields) = [f \in DOMAIN u.fields |-> u.fields[f]]
      BY DEF Merge
    <3>2. Before(g, u.id) = << >>
      BY <2>2 DEF Before
    <3> QED BY <2>2, <3>1, <3>2
  <2> QED BY <2>1, <2>2
<1>3. PICK new : new = Merge(Before(g, u.id), u.fields)
  OBVIOUS
<1>4. h = Graph(Merge(g.nodes, [i \in {u.id} |-> new]), g.live)
  BY <1>1, <1>2, <1>3 DEF Upsert
<1>5. /\ DOMAIN h.nodes = DOMAIN g.nodes \union {u.id} /\ h.nodes[u.id] = new
      /\ \A i \in DOMAIN g.nodes \ {u.id} : h.nodes[i] = g.nodes[i]
      /\ h.live = g.live
  BY <1>4 DEF Graph, Merge
<1>6. OneEventEach(rest)
  BY DEF OneEventEach
<1>7. EventIds(plan) = EventIds(rest) \union {u.id} /\ u.id \notin EventIds(rest)
  BY DEF EventIds, OneEventEach
<1>8. PICK a, b : a = Applied(h, rest) /\ b = Applied(g, plan)
  OBVIOUS
<1>9. Reaches(h, rest, a) /\ Reaches(g, plan, b)
  BY <1>6, <1>8, AppliedReaches
<1>10. \A i, node : MarkedIn(rest, i, node) = MarkedIn(plan, i, node)
  BY DEF MarkedIn
<1>11. DOMAIN a.nodes = DOMAIN b.nodes /\ a.live = b.live
  BY <1>5, <1>7, <1>9 DEF Reaches
<1>12. ASSUME NEW i \in DOMAIN a.nodes PROVE a.nodes[i] = b.nodes[i]
  <2>1. CASE i = u.id
    <3>1. a.nodes[i] = MarkedIn(plan, i, new)
      BY <1>5, <1>7, <1>9, <1>10, <2>1 DEF Reaches
    <3>2. b.nodes[i] = MarkedIn(plan, i, new)
      BY <1>3, <1>9, <2>1 DEF Reaches
    <3> QED BY <3>1, <3>2
  <2>2. CASE i \in EventIds(rest)
    <3>1. PICK v \in rest.nodes : v.id = i
      BY <2>2 DEF EventIds
    <3>2. Before(h, i) = Before(g, i)
      BY <1>5, <1>7, <2>2 DEF Before
    <3>3. a.nodes[i] = MarkedIn(plan, i, Merge(Before(g, i), v.fields))
      BY <1>9, <1>10, <3>1, <3>2 DEF Reaches
    <3>4. b.nodes[i] = MarkedIn(plan, i, Merge(Before(g, i), v.fields))
      BY <1>9, <3>1 DEF Reaches
    <3> QED BY <3>3, <3>4
  <2>3. CASE i \notin EventIds(plan)
    <3>1. i \in DOMAIN g.nodes /\ h.nodes[i] = g.nodes[i]
      BY <1>5, <1>7, <1>9, <2>3 DEF Reaches
    <3>2. a.nodes[i] = MarkedIn(plan, i, g.nodes[i])
      BY <1>5, <1>7, <1>9, <1>10, <2>3, <3>1 DEF Reaches
    <3>3. b.nodes[i] = MarkedIn(plan, i, g.nodes[i])
      BY <1>9, <2>3, <3>1 DEF Reaches
    <3> QED BY <3>2, <3>3
  <2> QED BY <1>7, <2>1, <2>2, <2>3
<1>13. /\ a = Graph(a.nodes, a.live) /\ a.nodes = [i \in DOMAIN a.nodes |-> a.nodes[i]]
       /\ b = Graph(b.nodes, b.live) /\ b.nodes = [i \in DOMAIN b.nodes |-> b.nodes[i]]
  BY <1>9 DEF Reaches
<1>14. a = b
  BY <1>11, <1>12, <1>13, SameGraph
<1> QED BY <1>1, <1>8, <1>14

\* A mark that is applied once the node events are.
LEMMA MarkFirst ==
    ASSUME NEW g, NEW plan, plan.nodes = {}, NEW id \in plan.marks, id \in DOMAIN g.nodes,
           NEW rest, rest.nodes = {}, rest.marks = plan.marks \ {id},
           rest.retracts = plan.retracts, rest.asserts = plan.asserts
    PROVE  Applied(Upsert(g, id, [missing |-> TRUE]), rest) = Applied(g, plan)
<1>1. PICK h : h = Upsert(g, id, [missing |-> TRUE])
  OBVIOUS
<1>2. PICK new : new = Merge(g.nodes[id], [missing |-> TRUE])
  OBVIOUS
<1>3. h = Graph(Merge(g.nodes, [i \in {id} |-> new]), g.live)
  BY <1>1, <1>2 DEF Upsert
<1>4. /\ DOMAIN h.nodes = DOMAIN g.nodes /\ h.nodes[id] = new
      /\ \A i \in DOMAIN g.nodes \ {id} : h.nodes[i] = g.nodes[i]
      /\ h.live = g.live
  BY <1>3 DEF Graph, Merge
<1>5. PICK a, b : a = Applied(h, rest) /\ b = Applied(g, plan)
  OBVIOUS
<1>6. Reaches(h, rest, a) /\ Reaches(g, plan, b)
  BY <1>5, AppliedReaches DEF OneEventEach
<1>7. EventIds(plan) = {} /\ EventIds(rest) = {}
  BY DEF EventIds
<1>8. /\ \A i \in DOMAIN g.nodes : a.nodes[i] = MarkedIn(rest, i, h.nodes[i])
      /\ \A i \in DOMAIN g.nodes : b.nodes[i] = MarkedIn(plan, i, g.nodes[i])
  BY <1>4, <1>6, <1>7 DEF Reaches
<1>9. MarkedIn(rest, id, h.nodes[id]) = MarkedIn(plan, id, g.nodes[id])
  BY <1>2, <1>4 DEF MarkedIn
<1>10. \A i \in DOMAIN g.nodes \ {id} : MarkedIn(rest, i, h.nodes[i]) = MarkedIn(plan, i, g.nodes[i])
  BY <1>4 DEF MarkedIn
<1>11. DOMAIN a.nodes = DOMAIN g.nodes /\ DOMAIN b.nodes = DOMAIN g.nodes /\ a.live = b.live
  BY <1>4, <1>6, <1>7 DEF Reaches
<1>12. \A i \in DOMAIN a.nodes : a.nodes[i] = b.nodes[i]
  BY <1>8, <1>9, <1>10, <1>11
<1>13. /\ a = Graph(a.nodes, a.live) /\ a.nodes = [i \in DOMAIN a.nodes |-> a.nodes[i]]
       /\ b = Graph(b.nodes, b.live) /\ b.nodes = [i \in DOMAIN b.nodes |-> b.nodes[i]]
  BY <1>6 DEF Reaches
<1>14. a = b
  BY <1>11, <1>12, <1>13, SameGraph
<1> QED BY <1>1, <1>5, <1>14

\* What differs in the rows only.
LEMMA RowsFirst ==
    ASSUME NEW g, NEW plan, plan.nodes = {}, NEW h, h.nodes = g.nodes,
           NEW rest, rest.nodes = {}, rest.marks = plan.marks,
           {e \in h.live : e.key \notin rest.retracts} \union rest.asserts
             = {e \in g.live : e.key \notin plan.retracts} \union plan.asserts
    PROVE  Applied(h, rest) = Applied(g, plan)
<1>1. PICK a, b : a = Applied(h, rest) /\ b = Applied(g, plan)
  OBVIOUS
<1>2. Reaches(h, rest, a) /\ Reaches(g, plan, b)
  BY <1>1, AppliedReaches DEF OneEventEach
<1>3. EventIds(plan) = {} /\ EventIds(rest) = {}
  BY DEF EventIds
<1>4. \A i, node : MarkedIn(rest, i, node) = MarkedIn(plan, i, node)
  BY DEF MarkedIn
<1>5. DOMAIN a.nodes = DOMAIN b.nodes /\ \A i \in DOMAIN a.nodes : a.nodes[i] = b.nodes[i]
  BY <1>2, <1>3, <1>4 DEF Reaches
<1>6. a = b
  BY <1>2, <1>5, SameGraph DEF Reaches
<1> QED BY <1>1, <1>6

-----------------------------------------------------------------------------
\* Plans are made of one event for each node, of marks of nodes that are
\* there, and of rows.
PlanSound(plan) ==
    /\ OneEventEach(plan)
    /\ \A u \in plan.nodes : u.fields = [f \in DOMAIN u.fields |-> u.fields[f]]
    /\ \A e \in plan.asserts : e = Row(e.key, e.ref)
    /\ plan.marks \subseteq DOMAIN nodes

PlansSound ==
    /\ nodes = [i \in DOMAIN nodes |-> nodes[i]]
    /\ \A p \in Proc : PlanSound(todo[p])

LEMMA PlanIsSound ==
    ASSUME NEW ps, ~Fails(Now, ps)
    PROVE  PlanSound(Plan(Now, ps))
<1>1. PICK plan : plan = Plan(Now, ps)
  OBVIOUS
<1>2. /\ plan.nodes = NodeEvents(Now, ps) /\ plan.marks = MissingMarks(Now, ps)
      /\ plan.asserts \subseteq DesiredRows(Now, ps)
  BY <1>1 DEF Plan, AssertRows
<1>3. OneEventEach(plan)
  <2>1. SUFFICES ASSUME NEW u \in NodeEvents(Now, ps), NEW v \in NodeEvents(Now, ps), u.id = v.id PROVE u = v
    BY <1>2 DEF OneEventEach
  <2>2. PICK d \in DesiredNodes(Now, ps) : u = Event(Now, d)
    BY DEF NodeEvents, Event
  <2>3. u.id = d.id
    BY <2>2 DEF Event
  <2> QED BY <2>1, <2>2, <2>3, EventOnce
<1>4. \A u \in plan.nodes : u.fields = [f \in DOMAIN u.fields |-> u.fields[f]]
  BY <1>2 DEF NodeEvents
<1>5. ASSUME NEW e \in plan.asserts PROVE e = Row(e.key, e.ref)
  <2>1. \E from, kind, refs, target : e \in ListRows(from, kind, refs, target)
    BY <1>2 DEF DesiredRows
  <2> QED BY <2>1 DEF ListRows, Row
<1>6. plan.marks \subseteq DOMAIN nodes
  BY <1>2 DEF MissingMarks, WikiNodes, Now, Graph
<1> QED BY <1>1, <1>3, <1>4, <1>5, <1>6 DEF PlanSound

LEMMA PlansSoundKept == IInv /\ PlansSound /\ [Next]_vars => PlansSound'
<1> SUFFICES ASSUME IInv, PlansSound, [Next]_vars PROVE PlansSound'
  OBVIOUS
<1> DEFINE Less(q) == /\ todo'[q].nodes \subseteq todo[q].nodes /\ todo'[q].marks \subseteq todo[q].marks
                      /\ todo'[q].asserts \subseteq todo[q].asserts
<1>1. ASSUME nodes' = [i \in DOMAIN nodes' |-> nodes'[i]], DOMAIN nodes \subseteq DOMAIN nodes',
             NEW q \in Proc, Less(q)
      PROVE  PlanSound(todo[q])'
  BY <1>1 DEF PlansSound, PlanSound, OneEventEach
<1>2. ASSUME NEW id, NEW fields, nodes' = Upsert(Now, id, fields).nodes
      PROVE  nodes' = [i \in DOMAIN nodes' |-> nodes'[i]] /\ DOMAIN nodes \subseteq DOMAIN nodes'
  BY <1>2 DEF Upsert, Merge, Now, Graph
<1>3. UNCHANGED nodes => nodes' = [i \in DOMAIN nodes' |-> nodes'[i]] /\ DOMAIN nodes \subseteq DOMAIN nodes'
  BY DEF PlansSound
<1>4. ASSUME NEW p \in Proc, ReadGraph(p) PROVE PlansSound'
  <2>1. UNCHANGED nodes
    BY <1>4 DEF ReadGraph
  <2>2. CASE UNCHANGED todo
    BY <2>1, <2>2 DEF PlansSound, PlanSound
  <2>3. CASE todo' = [todo EXCEPT ![p] = Plan(Now, pages[p])] /\ ~Fails(Now, pages[p])
    <3>1. PlanSound(Plan(Now, pages[p]))
      BY <2>3, PlanIsSound
    <3>2. \A q \in Proc : todo'[q] = Plan(Now, pages[p]) \/ todo'[q] = todo[q]
      BY <2>3 DEF IInv, Shape
    <3> QED BY <2>1, <3>1, <3>2 DEF PlansSound, PlanSound
  <2> QED BY <1>4, <2>2, <2>3 DEF ReadGraph
<1>5. ASSUME NEW p \in Proc, SyncStep(p) PROVE PlansSound'
  <2>1. CASE Scan(p)
    BY <2>1 DEF Scan, PlansSound, PlanSound
  <2>2. CASE ReadGraph(p)
    BY <1>4, <2>2
  <2>3. ASSUME NEW u \in todo[p].nodes, WriteNode(p, u) PROVE PlansSound'
    <3>1. nodes' = Upsert(Now, u.id, u.fields).nodes
      BY <2>3 DEF WriteNode, Becomes
    <3>2. \A q \in Proc : Less(q)
      BY <2>3 DEF WriteNode, IInv, Shape
    <3> QED BY <1>1, <1>2, <3>1, <3>2 DEF PlansSound
  <2>4. ASSUME NEW id \in todo[p].marks, WriteMark(p, id) PROVE PlansSound'
    <3>1. nodes' = Upsert(Now, id, [missing |-> TRUE]).nodes
      BY <2>4 DEF WriteMark, Becomes
    <3>2. \A q \in Proc : Less(q)
      BY <2>4 DEF WriteMark, IInv, Shape
    <3> QED BY <1>1, <1>2, <3>1, <3>2 DEF PlansSound
  <2>5. CASE \E k \in todo[p].retracts : WriteRetract(p, k)
    <3>1. nodes' = nodes /\ \A q \in Proc : Less(q)
      BY <2>5 DEF WriteRetract, Becomes, Retract, Now, Graph, IInv, Shape
    <3> QED BY <1>1, <1>3, <3>1 DEF PlansSound
  <2>6. CASE \E e \in todo[p].asserts : WriteAssert(p, e)
    <3>1. nodes' = nodes /\ \A q \in Proc : Less(q)
      BY <2>6 DEF WriteAssert, Becomes, AddRow, Now, Graph, IInv, Shape
    <3> QED BY <1>1, <1>3, <3>1 DEF PlansSound
  <2>7. CASE Finish(p) \/ Crash(p)
    <3>1. nodes' = nodes /\ \A q \in Proc : Less(q)
      BY <2>7 DEF Finish, Crash, Stop, NoEvents, IInv, Shape
    <3> QED BY <1>1, <1>3, <3>1 DEF PlansSound
  <2> QED BY <1>5, <2>1, <2>2, <2>3, <2>4, <2>5, <2>6, <2>7 DEF SyncStep
<1>6. CASE ~ \E p \in Proc : SyncStep(p)
  <2>1. UNCHANGED todo
    BY <1>6 DEF Next, vars, syncVars, Edit, GraphCommand, GraphNode, GraphRetract, RelateCheck, RelateAppend
  <2>2. UNCHANGED nodes \/ \E id : nodes' = Upsert(Now, id, [type |-> "Other"]).nodes
    BY <1>6 DEF Next, vars, syncVars, Edit, GraphCommand, GraphNode, GraphRetract, RelateCheck, RelateAppend,
                Becomes, Retract, AddRow, Now, Graph
  <2> QED BY <1>1, <1>2, <1>3, <2>1, <2>2 DEF PlansSound
<1> QED BY <1>5, <1>6

LEMMA PlansAreSound == Spec => []PlansSound
<1>1. Init => PlansSound
  BY DEF Init, PlansSound, PlanSound, OneEventEach, NoEvents
<1> QED BY <1>1, PlansSoundKept, PlansComplete, PTL DEF Spec

\* A sync plans on the graph as it is, and each event that it appends leaves the
\* graph that the rest of its plan leads to as it was: without other writers the
\* graph at its end is the one its plan led to (sync.rs, the order of appends).
AppendsFollowPlan ==
    [][\A p \in Proc : pc'[p] = "writing" /\ todo'[p] # todo[p] =>
          IF pc[p] = "scanned"
          THEN Now' = Now /\ todo'[p] = Plan(Now, pages[p])
          ELSE Applied(Now, todo[p])' = Applied(Now, todo[p])]_vars

\* The appends of a sync amount to its plan, for every writer and every step.
THEOREM SyncsFollowTheirPlans == Spec => AppendsFollowPlan
<1> DEFINE Follows == \A p \in Proc : pc'[p] = "writing" /\ todo'[p] # todo[p] =>
                          IF pc[p] = "scanned"
                          THEN Now' = Now /\ todo'[p] = Plan(Now, pages[p])
                          ELSE Applied(Now, todo[p])' = Applied(Now, todo[p])
<1>1. ASSUME IInv, PcShape, PlansSound, [Next]_vars PROVE Follows
  <2>1. SUFFICES ASSUME NEW p \in Proc, pc'[p] = "writing", todo'[p] # todo[p]
                 PROVE  IF pc[p] = "scanned"
                        THEN Now' = Now /\ todo'[p] = Plan(Now, pages[p])
                        ELSE Applied(Now', todo'[p]) = Applied(Now, todo[p])
    OBVIOUS
  <2>2. PICK s \in Proc : SyncStep(s)
    BY <1>1, <2>1 DEF Next, vars, syncVars, Edit, GraphCommand, GraphNode, GraphRetract, RelateCheck, RelateAppend
  <2>3. s = p
    BY <1>1, <2>1, <2>2 DEF SyncStep, Scan, ReadGraph, WriteNode, WriteMark, WriteRetract, WriteAssert,
                            Finish, Crash, Stop, IInv, Shape
  <2>4. CASE ReadGraph(p)
    BY <1>1, <2>1, <2>4 DEF ReadGraph, Now, Graph, IInv, Shape
  <2>5. PICK plan, rest : plan = todo[p] /\ rest = todo'[p]
    OBVIOUS
  <2>6. PlanSound(plan)
    BY <1>1, <2>5 DEF PlansSound
  <2>7. ASSUME NEW u \in todo[p].nodes, WriteNode(p, u)
        PROVE  pc[p] # "scanned" /\ Applied(Now', todo'[p]) = Applied(Now, todo[p])
    <3>1. Now' = Upsert(Now, u.id, u.fields)
      BY <2>7 DEF WriteNode, Becomes, Upsert, Now, Graph
    <3>2. /\ rest.nodes = plan.nodes \ {u} /\ rest.marks = plan.marks
          /\ rest.retracts = plan.retracts /\ rest.asserts = plan.asserts
      BY <1>1, <2>5, <2>7 DEF WriteNode, IInv, Shape
    <3>3. Applied(Upsert(Now, u.id, u.fields), rest) = Applied(Now, plan)
      <4>1. /\ OneEventEach(plan) /\ u \in plan.nodes
            /\ u.fields = [f \in DOMAIN u.fields |-> u.fields[f]]
        BY <2>5, <2>6 DEF PlanSound
      <4> QED BY <3>2, <4>1, NodeFirst
    <3> QED BY <2>5, <2>7, <3>1, <3>3 DEF WriteNode
  <2>8. ASSUME NEW id \in todo[p].marks, WriteMark(p, id)
        PROVE  pc[p] # "scanned" /\ Applied(Now', todo'[p]) = Applied(Now, todo[p])
    <3>1. Now' = Upsert(Now, id, [missing |-> TRUE])
      BY <2>8 DEF WriteMark, Becomes, Upsert, Now, Graph
    <3>2. /\ plan.nodes = {} /\ rest.nodes = {} /\ rest.marks = plan.marks \ {id}
          /\ rest.retracts = plan.retracts /\ rest.asserts = plan.asserts
      BY <1>1, <2>5, <2>8 DEF WriteMark, IInv, Shape
    <3>3. id \in DOMAIN Now.nodes
      BY <2>5, <2>6 DEF PlanSound, Now, Graph
    <3>4. Applied(Upsert(Now, id, [missing |-> TRUE]), rest) = Applied(Now, plan)
      BY <2>5, <3>2, <3>3, MarkFirst
    <3> QED BY <2>5, <2>8, <3>1, <3>4 DEF WriteMark
  <2>9. ASSUME NEW k \in todo[p].retracts, WriteRetract(p, k)
        PROVE  pc[p] # "scanned" /\ Applied(Now', todo'[p]) = Applied(Now, todo[p])
    <3>1. Now'.nodes = Now.nodes /\ Now'.live = {e \in Now.live : e.key # k}
      BY <2>9 DEF WriteRetract, Becomes, Retract, Now, Graph
    <3>2. /\ plan.nodes = {} /\ rest.nodes = {} /\ rest.marks = plan.marks
          /\ rest.retracts = plan.retracts \ {k} /\ rest.asserts = plan.asserts /\ k \in plan.retracts
      BY <1>1, <2>5, <2>9 DEF WriteRetract, IInv, Shape
    <3>3. {e \in Now'.live : e.key \notin rest.retracts} \union rest.asserts
            = {e \in Now.live : e.key \notin plan.retracts} \union plan.asserts
      BY <3>1, <3>2
    <3>4. PICK h : h = Now'
      OBVIOUS
    <3>5. Applied(h, rest) = Applied(Now, plan)
      BY <3>1, <3>2, <3>3, <3>4, RowsFirst
    <3>6. pc[p] # "scanned"
      BY <2>9 DEF WriteRetract
    <3> QED BY <2>5, <3>4, <3>5, <3>6
  <2>10. ASSUME NEW e \in todo[p].asserts, WriteAssert(p, e)
         PROVE  pc[p] # "scanned" /\ Applied(Now', todo'[p]) = Applied(Now, todo[p])
    <3>1. Now'.nodes = Now.nodes /\ Now'.live = Now.live \union {e}
      BY <2>5, <2>6, <2>10 DEF PlanSound, WriteAssert, Becomes, AddRow, Now, Graph
    <3>2. /\ plan.nodes = {} /\ rest.nodes = {} /\ rest.marks = plan.marks /\ plan.retracts = {}
          /\ rest.retracts = {} /\ rest.asserts = plan.asserts \ {e} /\ e \in plan.asserts
      BY <1>1, <2>5, <2>10 DEF WriteAssert, IInv, Shape
    <3>3. {x \in Now'.live : x.key \notin rest.retracts} \union rest.asserts
            = {x \in Now.live : x.key \notin plan.retracts} \union plan.asserts
      BY <3>1, <3>2
    <3>4. PICK h : h = Now'
      OBVIOUS
    <3>5. Applied(h, rest) = Applied(Now, plan)
      BY <3>1, <3>2, <3>3, <3>4, RowsFirst
    <3>6. pc[p] # "scanned"
      BY <2>10 DEF WriteAssert
    <3> QED BY <2>5, <3>4, <3>5, <3>6
  <2>11. ~Scan(p) /\ ~Finish(p) /\ ~Crash(p)
    BY <1>1, <2>1 DEF Scan, Finish, Crash, Stop, PcShape
  <2> QED BY <2>2, <2>3, <2>4, <2>7, <2>8, <2>9, <2>10, <2>11 DEF SyncStep
<1> QED BY <1>1, PlansComplete, PcShaped, PlansAreSound, PTL DEF Spec, AppendsFollowPlan
=============================================================================
