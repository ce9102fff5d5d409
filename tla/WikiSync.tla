------------------------------- MODULE WikiSync -------------------------------
(***************************************************************************)
(* `innen wiki sync` (innen-core wiki_graph) together with the other       *)
(* writers of the graph: `graph node`, `graph relate` (edge_write.rs) and  *)
(* `graph retract`.                                                        *)
(*                                                                         *)
(* A sync reads the Markdown pages, then opens the journal and             *)
(* materialises the graph, plans the events that make the graph show the   *)
(* pages, and appends them one by one.  Nothing locks the graph between    *)
(* the reading and the last append.                                        *)
(*                                                                         *)
(* The journal is represented by what materialize makes of it: appended    *)
(* events are applied to the graph in order, which is what a replay of the *)
(* whole journal yields.  Retracted rows and timestamps are left out: sync *)
(* asks for expired edges too and looks at live rows only.                 *)
(***************************************************************************)
EXTENDS Naturals, FiniteSets, Sequences

CONSTANTS
    Proc,        \* processes running `innen wiki sync`
    Path,        \* wiki paths of Markdown pages
    Content,     \* what a readable page can say, see ContentAssumption
    Ref,         \* references that pages list as sources or related
    RefKind,     \* how each reference is spelled
    RefPath,     \* the page a reference names by its path, or NoPath
    RefBase,     \* the pages a reference names by their basename
    RefId,       \* the node id that a reference spells, or NoId
    Explicit,    \* node ids that pages claim or other commands use
    RelateKey,   \* edges that `graph relate` is asked for
    Absent,      \* there is no page
    Unreadable,  \* parse_page fails
    NoPath, NoId, NoKey,
    Foreign,     \* provenance of an edge that sync does not own
    MaxSync,     \* bounds: syncs that start,
    MaxEdit,     \* edits of pages,
    MaxForeign,  \* `graph` commands,
    MaxCrash     \* syncs that die or fail in an append

ASSUME RefAssumption ==
    /\ RefKind \in [Ref -> {"graph", "id", "wiki", "url", "outside"}]
    /\ RefPath \in [Ref -> Path \union {NoPath}]
    /\ RefBase \in [Ref -> SUBSET Path]
    /\ RefId \in [Ref -> Explicit \union {NoId}]

ASSUME ContentAssumption ==
    \A c \in Content : /\ c.explicit \in Explicit \union {NoId}
                       /\ c.sources \in Seq(Ref)
                       /\ c.related \in Seq(Ref)

VARIABLES
    disk,       \* the pages below 02-wiki
    nodes,      \* the materialised nodes
    live,       \* the edge rows that are not retracted
    pc,         \* where each sync is
    pages,      \* the pages as a sync parsed them
    seen,       \* the keys of foreign edges a sync found in the graph
    todo,       \* the events a sync still has to append
    relating,   \* the edge that `graph relate` has validated
    overlapped, \* two syncs were between reading and appending (history)
    syncs, edits, foreign, crashes  \* counters behind the bounds

syncVars   == <<pc, pages, seen, todo, overlapped>>
countVars  == <<syncs, edits, foreign, crashes>>
vars == <<disk, nodes, live, syncVars, relating, countVars>>

-----------------------------------------------------------------------------
(***************************************************************************)
(* The graph.                                                              *)
(***************************************************************************)

\* Ids minted from the path of a page and from the text of a reference.
PageHash(q)   == <<"wiki", q>>
SourceHash(r) == <<"source", r>>

Id == Explicit \union {PageHash(q) : q \in Path} \union {SourceHash(r) : r \in Ref}

\* What stands for no id is none, and the provenance that is not sync's is none
\* of those that sync writes.
ASSUME NoneAssumption == NoId \notin Id /\ Foreign \notin Ref

Key == [from : Id, kind : {"DERIVED_FROM", "RELATED_TO"}, to : Id]

\* A row of an edge; sync's provenance names the page, the field and the
\* reference, of which only the reference is not in the key.
Row(k, r) == [key |-> k, ref |-> r]

\* A node is a partial function of its fields; an upsert overwrites the
\* fields it carries and leaves the others alone.
Merge(old, new) ==
    [f \in DOMAIN old \union DOMAIN new |-> IF f \in DOMAIN new THEN new[f] ELSE old[f]]

Graph(n, l) == [nodes |-> n, live |-> l]

Upsert(g, id, fields) ==
    Graph(Merge(g.nodes,
                [i \in {id} |-> IF id \in DOMAIN g.nodes THEN Merge(g.nodes[id], fields)
                                                         ELSE fields]),
          g.live)

AddRow(g, k, r) == Graph(g.nodes, g.live \union {Row(k, r)})

\* A retraction marks every row of its key, whoever asserted it.
Retract(g, k) == Graph(g.nodes, {e \in g.live : e.key # k})

Managed(g, id) == "owner" \in DOMAIN g.nodes[id]

WikiNodes(g) ==
    {id \in DOMAIN g.nodes : Managed(g, id) /\ g.nodes[id].type = "Wiki"
                             /\ "path" \in DOMAIN g.nodes[id]}

Missing(node) == "missing" \in DOMAIN node /\ node.missing

-----------------------------------------------------------------------------
(***************************************************************************)
(* Identities and references.                                              *)
(***************************************************************************)

Readable(ps) == {q \in Path : ps[q] \in Content}
Skipped(ps)  == {q \in Path : ps[q] = Unreadable}

Registered(g, q) == {id \in WikiNodes(g) : g.nodes[id].path = q}

\* Mutant of PageId: the id in the frontmatter wins over the registration.
PageIdFromPage(g, ps, q) ==
    IF ps[q].explicit # NoId THEN ps[q].explicit
    ELSE IF Registered(g, q) # {} THEN CHOOSE id \in Registered(g, q) : TRUE
    ELSE PageHash(q)

PageId(g, ps, q) ==
    IF Registered(g, q) # {} THEN CHOOSE id \in Registered(g, q) : TRUE
    ELSE IF ps[q].explicit # NoId THEN ps[q].explicit
    ELSE PageHash(q)

\* assign_ids fails when a path has two ids or two pages have one id.
IdsAssignable(g, ps) ==
    /\ \A q \in Path : Cardinality(Registered(g, q)) <= 1
    /\ \A q, r \in Readable(ps) : q # r => PageId(g, ps, q) # PageId(g, ps, r)

\* WikiResolver over the pages that were parsed: the path of a page first,
\* then basenames.  More than one page is ambiguous.
Resolve(g, ps, r) ==
    LET byPath == {RefPath[r]} \intersect Readable(ps)
        found  == IF byPath # {} THEN byPath ELSE RefBase[r] \intersect Readable(ps)
    IN {PageId(g, ps, q) : q \in found}

PageIds(g, ps) == {PageId(g, ps, q) : q \in Readable(ps)}

\* What a source reference resolves to, or NoId.  A literal id finds the node
\* in the graph before the one this sync is about to write.
ResolveSource(g, ps, r) ==
    LET known == DOMAIN g.nodes \union PageIds(g, ps)
        gone  == RefId[r] \in DOMAIN g.nodes /\ Missing(g.nodes[RefId[r]])
        wiki  == Resolve(g, ps, r)
    IN CASE RefKind[r] = "graph" -> IF RefId[r] \in known THEN RefId[r] ELSE NoId
         [] RefKind[r] = "id" /\ RefId[r] \in known -> IF gone THEN NoId ELSE RefId[r]
         [] RefKind[r] # "graph" /\ ~(RefKind[r] = "id" /\ RefId[r] \in known) ->
               IF Cardinality(wiki) = 1 THEN CHOOSE id \in wiki : TRUE
               ELSE IF wiki = {} /\ RefKind[r] # "outside" THEN SourceHash(r) ELSE NoId

\* Mutant of ResolveRelated: the text of an unknown reference is taken as an id.
ResolveRelatedLiteral(g, ps, r) ==
    LET wiki == Resolve(g, ps, r)
    IN IF Cardinality(wiki) = 1 THEN CHOOSE id \in wiki : TRUE ELSE r

ResolveRelated(g, ps, r) ==
    LET wiki == Resolve(g, ps, r)
    IN IF Cardinality(wiki) = 1 THEN CHOOSE id \in wiki : TRUE ELSE NoId

-----------------------------------------------------------------------------
(***************************************************************************)
(* What a sync wants the graph to show.                                    *)
(***************************************************************************)

WikiNode(ps, q) ==
    [owner |-> "innen:wiki-sync", type |-> "Wiki", path |-> q, text |-> ps[q], missing |-> FALSE]

SourceNode(r) == [owner |-> "innen:wiki-sync", type |-> "Source", source |-> r]

Lists(refs, r) == \E i \in DOMAIN refs : refs[i] = r

DesiredNodes(g, ps) ==
    {[id |-> PageId(g, ps, q), fields |-> WikiNode(ps, q)] : q \in Readable(ps)}
    \union
    {[id |-> SourceHash(r), fields |-> SourceNode(r)] :
        r \in {s \in Ref : /\ \E q \in Readable(ps) : Lists(ps[q].sources, s)
                           /\ ResolveSource(g, ps, s) = SourceHash(s)
                           /\ SourceHash(s) \notin PageIds(g, ps)}}

\* The rows of one list of references: of those with the same target the
\* first keeps its provenance.
ListRows(from, kind, refs, target) ==
    {Row([from |-> from, kind |-> kind, to |-> target[refs[i]]], refs[i]) :
        i \in {j \in DOMAIN refs : /\ target[refs[j]] # NoId
                                   /\ \A h \in 1 .. (j - 1) : target[refs[h]] # target[refs[j]]}}

SourceTargets(g, ps)  == [r \in Ref |-> ResolveSource(g, ps, r)]
RelatedTargets(g, ps) == [r \in Ref |-> ResolveRelated(g, ps, r)]

DesiredRows(g, ps) ==
    UNION {ListRows(PageId(g, ps, q), "DERIVED_FROM", ps[q].sources, SourceTargets(g, ps))
           \union
           ListRows(PageId(g, ps, q), "RELATED_TO", ps[q].related, RelatedTargets(g, ps)) : q \in Readable(ps)}

\* A node of another owner or another type is in the way.
Conflict(g, ps) ==
    \E d \in DesiredNodes(g, ps) :
        /\ d.id \in DOMAIN g.nodes
        /\ ~Managed(g, d.id) \/ g.nodes[d.id].type # d.fields.type

-----------------------------------------------------------------------------
(***************************************************************************)
(* The events of a sync.                                                   *)
(***************************************************************************)

Changed(g, d) ==
    LET old == IF d.id \in DOMAIN g.nodes THEN g.nodes[d.id] ELSE << >>
    IN {f \in DOMAIN d.fields : f \notin DOMAIN old \/ old[f] # d.fields[f]}

NodeEvents(g, ps) ==
    {[id |-> d.id, fields |-> [f \in Changed(g, d) |-> d.fields[f]]] :
        d \in {e \in DesiredNodes(g, ps) : Changed(g, e) # {}}}

\* Mutant of MissingMarks: a node that is marked already is marked again.
MissingMarksAgain(g, ps) ==
    {id \in WikiNodes(g) : g.nodes[id].path \notin Readable(ps) \union Skipped(ps)}

\* The nodes whose page is gone.
MissingMarks(g, ps) ==
    {id \in WikiNodes(g) : /\ g.nodes[id].path \notin Readable(ps) \union Skipped(ps)
                           /\ ~Missing(g.nodes[id])}

SkippedNodes(g, ps) ==
    {id \in DOMAIN g.nodes : /\ Managed(g, id) /\ "path" \in DOMAIN g.nodes[id]
                             /\ g.nodes[id].path \in Skipped(ps)}

OwnedKeys(g)   == {e.key : e \in {x \in g.live : x.ref # Foreign}}
ForeignKeys(g) == {e.key : e \in {x \in g.live : x.ref = Foreign}}

\* Owned rows of a key that are not exactly the desired one.
Stale(g, rows, k) ==
    {e \in g.live : e.key = k /\ e.ref # Foreign} # {e \in rows : e.key = k}

\* Mutants of RetractKeys: edges of unreadable pages, and edges that others
\* asserted too, are retracted.
RetractKeysOfSkipped(g, ps, rows) ==
    {k \in OwnedKeys(g) : Stale(g, rows, k) /\ k \notin ForeignKeys(g)}

RetractKeysOfOthers(g, ps, rows) ==
    {k \in OwnedKeys(g) : k.from \notin SkippedNodes(g, ps) /\ Stale(g, rows, k)}

RetractKeys(g, ps, rows) ==
    {k \in OwnedKeys(g) : /\ k.from \notin SkippedNodes(g, ps)
                          /\ Stale(g, rows, k)
                          /\ k \notin ForeignKeys(g)}

\* Mutant of AssertRows: a row that was live is not asserted again after the
\* retraction of its key.
AssertRowsOnce(g, rows, retracts) == {e \in rows : e \notin g.live}

AssertRows(g, rows, retracts) == {e \in rows : e \notin g.live \/ e.key \in retracts}

NoEvents == [nodes |-> {}, marks |-> {}, retracts |-> {}, asserts |-> {}]

Fails(g, ps) == ~IdsAssignable(g, ps) \/ Conflict(g, ps)

Plan(g, ps) ==
    LET rows     == DesiredRows(g, ps)
        retracts == RetractKeys(g, ps, rows)
    IN [nodes |-> NodeEvents(g, ps), marks |-> MissingMarks(g, ps),
        retracts |-> retracts, asserts |-> AssertRows(g, rows, retracts)]

\* The graph after all events of a plan, in the order sync appends them.
Applied(g, plan) ==
    LET old(i)    == IF i \in DOMAIN g.nodes THEN g.nodes[i] ELSE << >>
        upserted  == Merge(g.nodes, [i \in {u.id : u \in plan.nodes} |->
                        Merge(old(i), (CHOOSE u \in plan.nodes : u.id = i).fields)])
        marked    == [i \in DOMAIN upserted |-> IF i \in plan.marks
                        THEN Merge(upserted[i], [missing |-> TRUE]) ELSE upserted[i]]
        remaining == {e \in g.live : e.key \notin plan.retracts}
    IN Graph(marked, remaining \union plan.asserts)

-----------------------------------------------------------------------------
(***************************************************************************)
(* The processes.                                                          *)
(***************************************************************************)

Now == Graph(nodes, live)

Becomes(g) == nodes' = g.nodes /\ live' = g.live

\* The bounds; where a second edit comes, nothing else does.
Within(e, f, c) ==
    /\ e <= MaxEdit /\ f <= MaxForeign /\ c <= MaxCrash
    /\ e > 1 => f + c = 0

Init ==
    /\ disk \in [Path -> Content \union {Absent}]
    /\ nodes = << >>
    /\ live = {}
    /\ pc = [p \in Proc |-> "idle"]
    /\ pages = [p \in Proc |-> [q \in Path |-> Absent]]
    /\ seen = [p \in Proc |-> {}]
    /\ todo = [p \in Proc |-> NoEvents]
    /\ relating = NoKey
    /\ overlapped = FALSE
    /\ syncs = 0 /\ edits = 0 /\ foreign = 0 /\ crashes = 0

\* The user writes, breaks or deletes a page.
Edit(q, c) ==
    /\ Within(edits + 1, foreign, crashes)
    /\ edits' = edits + 1
    /\ disk[q] # c
    /\ disk' = [disk EXCEPT ![q] = c]
    /\ UNCHANGED <<nodes, live, syncVars, relating, syncs, foreign, crashes>>

\* collect_markdown and parse_page of every page.  Reading them one by one
\* while pages are edited yields what some order of the edits yields here.
Scan(p) ==
    /\ pc[p] = "idle"
    /\ syncs < MaxSync
    /\ syncs' = syncs + 1
    /\ pc' = [pc EXCEPT ![p] = "scanned"]
    /\ pages' = [pages EXCEPT ![p] = disk]
    /\ UNCHANGED <<disk, nodes, live, seen, todo, overlapped, relating, edits, foreign, crashes>>

\* Journal::open, read_all, materialize, and the plan.  An identity conflict
\* ends the command before any event is appended.
ReadGraph(p) ==
    /\ pc[p] = "scanned"
    /\ pages' = [pages EXCEPT ![p] = [q \in Path |-> Absent]]
    /\ \/ /\ Fails(Now, pages[p])
          /\ pc' = [pc EXCEPT ![p] = "idle"]
          /\ UNCHANGED <<seen, todo, overlapped>>
       \/ /\ ~Fails(Now, pages[p])
          /\ pc' = [pc EXCEPT ![p] = "writing"]
          /\ todo' = [todo EXCEPT ![p] = Plan(Now, pages[p])]
          /\ seen' = [seen EXCEPT ![p] = ForeignKeys(Now)]
          /\ overlapped' = (overlapped \/ \E q \in Proc \ {p} : pc[q] = "writing")
    /\ UNCHANGED <<disk, nodes, live, relating, countVars>>

\* The appends: nodes, missing marks, retractions, assertions, each kind in
\* the order of its map's keys, which First fixes.
First(s) == CHOOSE x \in s : TRUE

WriteNode(p, u) ==
    /\ pc[p] = "writing"
    /\ u = First(todo[p].nodes)
    /\ todo' = [todo EXCEPT ![p].nodes = @ \ {u}]
    /\ Becomes(Upsert(Now, u.id, u.fields))
    /\ UNCHANGED <<disk, pc, pages, seen, overlapped, relating, countVars>>

WriteMark(p, id) ==
    /\ pc[p] = "writing"
    /\ todo[p].nodes = {}
    /\ id = First(todo[p].marks)
    /\ todo' = [todo EXCEPT ![p].marks = @ \ {id}]
    /\ Becomes(Upsert(Now, id, [missing |-> TRUE]))
    /\ UNCHANGED <<disk, pc, pages, seen, overlapped, relating, countVars>>

WriteRetract(p, k) ==
    /\ pc[p] = "writing"
    /\ todo[p].nodes = {} /\ todo[p].marks = {}
    /\ k = First(todo[p].retracts)
    /\ todo' = [todo EXCEPT ![p].retracts = @ \ {k}]
    /\ Becomes(Retract(Now, k))
    /\ UNCHANGED <<disk, pc, pages, seen, overlapped, relating, countVars>>

\* Mutant of WriteAssert: edges are appended without waiting for the nodes.
WriteAssertFirst(p, e) ==
    /\ pc[p] = "writing"
    /\ e = First(todo[p].asserts)
    /\ todo' = [todo EXCEPT ![p].asserts = @ \ {e}]
    /\ Becomes(AddRow(Now, e.key, e.ref))
    /\ UNCHANGED <<disk, pc, pages, seen, overlapped, relating, countVars>>

WriteAssert(p, e) ==
    /\ pc[p] = "writing"
    /\ todo[p].nodes = {} /\ todo[p].marks = {} /\ todo[p].retracts = {}
    /\ e = First(todo[p].asserts)
    /\ todo' = [todo EXCEPT ![p].asserts = @ \ {e}]
    /\ Becomes(AddRow(Now, e.key, e.ref))
    /\ UNCHANGED <<disk, pc, pages, seen, overlapped, relating, countVars>>

Stop(p) ==
    /\ pc' = [pc EXCEPT ![p] = "idle"]
    /\ seen' = [seen EXCEPT ![p] = {}]
    /\ todo' = [todo EXCEPT ![p] = NoEvents]
    /\ UNCHANGED <<disk, nodes, live, pages, relating, overlapped, syncs, edits, foreign>>

Finish(p) ==
    /\ pc[p] = "writing"
    /\ todo[p] = NoEvents
    /\ Stop(p)
    /\ UNCHANGED crashes

\* The process dies, or an append fails and the rest is not appended.
Crash(p) ==
    /\ pc[p] = "writing"
    /\ Within(edits, foreign, crashes + 1)
    /\ crashes' = crashes + 1
    /\ Stop(p)

\* `graph node`: a node of no owner, or other fields of an existing one.
GraphNode(id) ==
    /\ Within(edits, foreign + 1, crashes)
    /\ foreign' = foreign + 1
    /\ Becomes(Upsert(Now, id, [type |-> "Other"]))
    /\ UNCHANGED <<disk, syncVars, relating, syncs, edits, crashes>>

\* `graph retract` of any edge.
GraphRetract(k) ==
    /\ Within(edits, foreign + 1, crashes)
    /\ foreign' = foreign + 1
    /\ \E e \in live : e.key = k
    /\ Becomes(Retract(Now, k))
    /\ UNCHANGED <<disk, syncVars, relating, syncs, edits, crashes>>

\* `graph relate` validates the endpoints before it opens the journal: both
\* exist (--allow-dangling and URI targets are left out), and every pair of node kinds is
\* legal for a custom party with a provenance.
RelateCheck(k) ==
    /\ Within(edits, foreign + 1, crashes)
    /\ foreign' = foreign + 1
    /\ relating = NoKey
    /\ k.from \in DOMAIN nodes /\ k.to \in DOMAIN nodes
    /\ relating' = k
    /\ UNCHANGED <<disk, nodes, live, syncVars, syncs, edits, crashes>>

RelateAppend ==
    /\ relating # NoKey
    /\ Becomes(AddRow(Now, relating, Foreign))
    /\ relating' = NoKey
    /\ UNCHANGED <<disk, syncVars, countVars>>

SyncStep(p) ==
    \/ Scan(p)
    \/ ReadGraph(p)
    \/ \E u \in todo[p].nodes : WriteNode(p, u)
    \/ \E id \in todo[p].marks : WriteMark(p, id)
    \/ \E k \in todo[p].retracts : WriteRetract(p, k)
    \/ \E e \in todo[p].asserts : WriteAssert(p, e)
    \/ Finish(p)
    \/ Crash(p)

GraphCommand ==
    \/ \E id \in Explicit : GraphNode(id)
    \/ \E k \in OwnedKeys(Now) \union ForeignKeys(Now) : GraphRetract(k)
    \/ \E k \in RelateKey : RelateCheck(k)
    \/ RelateAppend

Next ==
    \/ \E p \in Proc : SyncStep(p)
    \/ \E q \in Path, c \in Content \union {Absent, Unreadable} : Edit(q, c)
    \/ GraphCommand

Spec == Init /\ [][Next]_vars
-----------------------------------------------------------------------------
(***************************************************************************)
(* What a sync promises.                                                   *)
(***************************************************************************)

Field == {"owner", "type", "path", "text", "missing", "source"}

\* Type invariant of the graph and of the state of each sync (types.rs).
TypeOK ==
    /\ disk \in [Path -> Content \union {Absent, Unreadable}]
    /\ DOMAIN nodes \subseteq Id
    /\ \A id \in DOMAIN nodes : DOMAIN nodes[id] \subseteq Field
    /\ \A e \in live : e.key \in Key /\ e.ref \in Ref \union {Foreign}
    /\ pc \in [Proc -> {"idle", "scanned", "writing"}]
    /\ pages \in [Proc -> [Path -> Content \union {Absent, Unreadable}]]
    /\ \A p \in Proc : /\ seen[p] = {} \/ pc[p] = "writing"
                       /\ todo[p] = NoEvents \/ pc[p] = "writing"
                       /\ todo[p].retracts \subseteq Key
    /\ relating \in Key \union {NoKey}
    /\ overlapped \in BOOLEAN

\* Every live edge has both its nodes, wherever a sync dies and however syncs
\* and graph commands interleave: "an unknown endpoint fails closed instead of
\* landing as a dangling edge" (edge_write.rs, sync.rs appends).
NoDangling == \A e \in live : {e.key.from, e.key.to} \subseteq DOMAIN nodes

\* A sync takes away the row of another owner only if that row was asserted
\* after the sync had read the graph (sync.rs live_foreign, "Foreign edges
\* are retained").
ForeignKept ==
    [][\A p \in Proc : pc'[p] = "writing" /\ todo'[p].retracts # todo[p].retracts =>
          \A e \in live \ live' : e.ref = Foreign => e.key \notin seen[p]]_vars

\* A page that could not be parsed is not a page that was deleted: the sync
\* neither marks its node missing nor retracts the edges that lead out of it
\* (sync.rs skipped_paths, skipped_node_ids).
SkippedNotErased ==
    [][\A p \in Proc : pc[p] = "scanned" /\ pc'[p] = "writing" =>
          LET kept == SkippedNodes(Now, pages[p])
          IN /\ todo'[p].marks \intersect kept = {}
             /\ \A k \in todo'[p].retracts : k.from \notin kept]_vars

\* Unless two syncs were writing at once, a page has one node for ever: the
\* registration of its path is authoritative (identity.rs assign_ids).
OneNodePerPage ==
    overlapped \/ \A q \in Path : Cardinality(Registered(Now, q)) <= 1

\* No sync is in the middle of its appends; whether others have read the pages
\* or died is open.
Resting == \A p \in Proc : pc[p] # "writing"

\* From every reachable graph, also those that dead or interleaved syncs have
\* left behind, one undisturbed sync makes the graph show the pages: each
\* readable page has its node with its text, the nodes of deleted pages are
\* missing, and the owned edges are the ones the pages list, but where a
\* foreign edge protects an old row or the row leads out of the node of a page
\* that cannot be read (sync.rs as a whole).
SyncProjects ==
    Resting /\ ~Fails(Now, disk) =>
        LET g    == Applied(Now, Plan(Now, disk))
            rows == DesiredRows(Now, disk)
        IN /\ \A q \in Readable(disk) :
                 LET n == g.nodes[PageId(Now, disk, q)]
                 IN n.path = q /\ n.text = disk[q] /\ n.type = "Wiki"
           /\ \A id \in WikiNodes(g) :
                 g.nodes[id].path \notin Readable(disk) \union Skipped(disk) => Missing(g.nodes[id])
           /\ rows \subseteq g.live
           /\ \A e \in g.live \ rows :
                 e.key.from \notin SkippedNodes(Now, disk) /\ e.ref # Foreign => e.key \in ForeignKeys(g)

\* Undisturbed syncs settle: the fourth one in a row appends nothing, or the
\* identities conflict (tests/wiki_graph.rs "projects_wiki_sources_related_and_is_idempotent").
\* The first may mark the node of a page that moved, the second unmarks it and the
\* third restores the edges that lead to it.
SyncSettles ==
    LET Sync(g) == IF Fails(g, disk) THEN g ELSE Applied(g, Plan(g, disk))
        last    == Sync(Sync(Sync(Now)))
    IN Resting => Fails(last, disk) \/ Plan(last, disk) = NoEvents

\* A page that is there is not marked missing by an undisturbed sync
\* (docs/wiki-graph.md, "A page that disappears is retained and marked").
PresentNotMissing ==
    ~Fails(Now, disk) =>
        \A q \in Readable(disk) :
            ~Missing(Applied(Now, Plan(Now, disk)).nodes[PageId(Now, disk, q)])

\* "A skipped page keeps its node and its edges" (docs/release-v0.11.0.md):
\* no edge to a page that could not be parsed is retracted while the page it
\* leads out of still lists it.
SkippedKeepsEdges ==
    [][\A p \in Proc : pc[p] = "scanned" /\ pc'[p] = "writing" =>
          \A e \in live : e.key \in todo'[p].retracts /\ e.key.to \in SkippedNodes(Now, pages[p]) =>
              ~ \E q \in Readable(pages[p]) :
                    /\ PageId(Now, pages[p], q) = e.key.from
                    /\ Lists(pages[p][q].sources \o pages[p][q].related, e.ref)]_vars
=============================================================================
