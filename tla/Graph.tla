--------------------------------- MODULE Graph ---------------------------------
(***************************************************************************)
(* The typed graph that the journal replays into: graph node, graph        *)
(* relate, graph retract and query (innen-core graph, edge_write and       *)
(* query).                                                                 *)
(*                                                                         *)
(* relate validates an edge against the journal and appends it later, and  *)
(* the journal may grow in between.  A query replays the journal, starts   *)
(* from the nodes that match its text, and follows edges forward.          *)
(*                                                                         *)
(* Nodes are numbered in the order of their ids, and an event is observed  *)
(* at its position in the journal.  A time that is not written in the      *)
(* canonical form is Odd.  The journal is intact: Journal is about that.   *)
(***************************************************************************)
EXTENDS Naturals, Sequences, FiniteSetsExt

CONSTANTS
    Proc,        \* relate commands that may overlap
    Start,       \* the journals that may be found
    NodeArgs, RelateArgs, RetractArgs,  \* what the commands are given
    Question,    \* what a query asks for
    Uri,         \* targets that look like a URI
    MaxStep,     \* bound: commands before the query
    Odd, None

VARIABLES
    log,      \* the journal
    checked,  \* per relate: its arguments and the journal they were valid for
    acked,    \* the edges that relate reported, with that journal
    steps,    \* commands so far
    output    \* what the query showed

vars == <<log, checked, acked, steps, output>>

\* What a journal consists of: nodes have their numbers, and relate asserts.
Line == NodeArgs \union RelateArgs \union RetractArgs \union UNION {{l[i] : i \in DOMAIN l} : l \in Start}

LogAssumption ==
    /\ \A l \in Start : l \in Seq(Line)
    /\ \A e \in Line : e.op = "node" => e.id \in Nat
    /\ \A a \in RelateArgs : a.op = "assert"
    /\ \A q \in Question : q.limit \in Nat

-----------------------------------------------------------------------------
(***************************************************************************)
(* validate: which edges are legal between which kinds of nodes.           *)
(***************************************************************************)
CoreNode == {"Conversation", "Task", "Decision", "Experiment", "Dataset", "Model", "Artifact",
             "Project", "Product"}

Legal == [
    BELONGS_TO   |-> {"Conversation", "Task", "Decision", "Experiment", "Artifact"} \X {"Project"},
    FOLLOWS_UP   |-> ({"Conversation"} \X {"Conversation", "Task"})
                     \union ({"Task"} \X {"Task", "Decision", "Conversation", "Artifact"})
                     \union ({"Decision"} \X {"Task", "Decision"}),
    SUPPORTS     |-> {"Decision", "Experiment"} \X {"Task", "Decision"},
    EVALUATES    |-> {"Experiment"} \X {"Product", "Dataset", "Model"},
    DISCUSSED_IN |-> {"Experiment", "Decision"} \X {"Conversation"},
    DERIVED_FROM |-> {"Model", "Dataset", "Artifact"} \X {"Dataset", "Model", "Conversation"},
    SUPERSEDES   |-> {<<"Artifact", "Artifact">>, <<"Decision", "Decision">>},
    LOCATED_AT   |-> {"Dataset", "Model", "Artifact"} \X {"uri"},
    ORIGINATED_AT |-> {"Dataset", "Model", "Artifact"} \X {"uri"},
    CONTAINS     |-> {<<"Artifact", "Artifact">>},
    PART_OF      |-> {<<"Artifact", "Artifact">>},
    INFORMS      |-> {"Product", "Experiment"} \X {"Project"}]

Located == {"LOCATED_AT", "ORIGINATED_AT"}

CustomEdge(kind) == kind \notin DOMAIN Legal
CustomNode(kind) == kind \notin CoreNode \union {"uri", None}

HasProvenance(p) == p \notin {None, "blank"}

\* A custom node or edge is legal anywhere but needs a provenance, and only the
\* two location edges may point at a URI.
Valid(from, kind, to, provenance) ==
    LET custom == CustomNode(from) \/ CustomEdge(kind) \/ CustomNode(to)
    IN /\ custom => HasProvenance(provenance)
       /\ to = "uri" => kind \in Located
       /\ ~custom => <<from, to>> \in Legal[kind]

-----------------------------------------------------------------------------
(***************************************************************************)
(* materialize.                                                            *)
(***************************************************************************)
Upsert(e, n) == e.op = "node" /\ e.id = n

Known(l, n) == \E i \in DOMAIN l : Upsert(l[i], n)

\* Fields that an upsert does not carry keep their values.
Carrying(l, n, f) == {i \in DOMAIN l : Upsert(l[i], n) /\ l[i][f] # None}

Field(l, n, f) ==
    IF Carrying(l, n, f) = {} THEN None ELSE l[Max(Carrying(l, n, f))][f]

Kind(l, x) == IF x \in Uri THEN "uri" ELSE Field(l, x, "kind")

SameEdge(e, f) == e.from = f.from /\ e.kind = f.kind /\ e.to = f.to

Retracted(l, i) == \E j \in DOMAIN l : j > i /\ l[j].op = "retract" /\ SameEdge(l[i], l[j])

Since(l, i) == IF l[i].since = None THEN i ELSE l[i].since

Canonical(e) == e.since # Odd /\ e.until # Odd

HoldsAt(l, i, asOf) == Since(l, i) <= asOf /\ (l[i].until # None => asOf <= l[i].until)

\* The edges that a snapshot keeps, by their positions.
Edges(l, asOf, expired) ==
    {i \in DOMAIN l : /\ l[i].op = "assert" /\ Canonical(l[i])
                      /\ expired \/ HoldsAt(l, i, asOf)}

-----------------------------------------------------------------------------
(***************************************************************************)
(* validate_relate_request_strict.                                         *)
(***************************************************************************)
Relatable(l, a) ==
    LET from == Kind(l, a.from)
        to == Kind(l, a.to)
        custom == CustomNode(from) \/ CustomEdge(a.kind) \/ CustomNode(to)
    IN /\ ~a.dangling => from # None /\ to # None
       /\ IF from # None /\ to # None THEN Valid(from, a.kind, to, a.provenance)
          ELSE /\ to = "uri" => a.kind \in Located \/ CustomEdge(a.kind)
               /\ custom => HasProvenance(a.provenance)

-----------------------------------------------------------------------------
(***************************************************************************)
(* query.                                                                  *)
(***************************************************************************)
MaxDepth == 3
MaxLimit == 100

\* Nodes whose id, label or body match the text; an empty text matches nothing.
\* The full text index holds the label and the body of a node.
Seeds(l, text) ==
    {n \in {l[i].id : i \in {j \in DOMAIN l : l[j].op = "node"}} :
        text # None /\ text \in {Field(l, n, "label"), Field(l, n, "body")}}

\* Mutant of Provenance: the edge's own provenance is not looked at, as the
\* comment at the head of query.rs has it ("provenance read from the from-node's
\* provenance field").
ProvenanceOfNode(l, i) == Field(l, l[i].from, "provenance")

\* The code takes the edge's own; rows of older journals have none.
Provenance(l, i) == IF l[i].provenance # None THEN l[i].provenance
                    ELSE Field(l, l[i].from, "provenance")

Followed(l, q) ==
    {i \in Edges(l, q.asOf, q.expired) :
        /\ ~Retracted(l, i)
        /\ Known(l, l[i].from) /\ Known(l, l[i].to)
        /\ Valid(Kind(l, l[i].from), l[i].kind, Kind(l, l[i].to), Provenance(l, i))}

\* Layer d holds the nodes that are d steps from the seeds, and no fewer.
Layers(l, q) ==
    LET layer[d \in 0 .. MaxDepth] ==
            IF d = 0 THEN Seeds(l, q.text)
            ELSE {l[i].to : i \in {j \in Followed(l, q) : l[j].from \in layer[d - 1]}}
                 \ UNION {layer[c] : c \in 0 .. d - 1}
    IN layer

Hits(l, q) ==
    LET layers == Layers(l, q)
    IN UNION {{[id |-> n, depth |-> d] : n \in layers[d]} : d \in 0 .. MaxDepth}

\* Hits are ranked by depth and then by id; the first are shown.
Ranked(hits, h) == {g \in hits : g.depth < h.depth \/ (g.depth = h.depth /\ g.id < h.id)}

Shown(l, q) ==
    LET hits == Hits(l, q)
        limit == Min({q.limit, MaxLimit})
    IN [hits |-> {h \in hits : Cardinality(Ranked(hits, h)) < limit},
        truncated |-> q.limit = 0 \/ q.limit > MaxLimit \/ Cardinality(hits) > limit]

-----------------------------------------------------------------------------
Init ==
    /\ log \in Start
    /\ checked = [p \in Proc |-> None]
    /\ acked = {} /\ steps = 0 /\ output = None

Busy == output = None /\ steps < MaxStep

\* graph node: check_node_provenance
Node(a) ==
    /\ Busy
    /\ CustomNode(a.kind) => HasProvenance(a.provenance)
    /\ log' = Append(log, a) /\ steps' = steps + 1
    /\ UNCHANGED <<checked, acked, output>>

\* graph relate: the raw journal is read and the edge validated against it,
Check(p, a) ==
    /\ Busy /\ checked[p] = None
    /\ Relatable(log, a)
    /\ checked' = [checked EXCEPT ![p] = [args |-> a, seen |-> Len(log)]]
    /\ steps' = steps + 1
    /\ UNCHANGED <<log, acked, output>>

\* and then appended without another look.
Relate(p) ==
    /\ output = None /\ checked[p] # None
    /\ log' = Append(log, checked[p].args)
    /\ acked' = acked \union {[at |-> Len(log) + 1, seen |-> checked[p].seen]}
    /\ checked' = [checked EXCEPT ![p] = None]
    /\ UNCHANGED <<steps, output>>

\* graph retract: nothing is checked, since a repair must be able to remove
\* dangling edges.
Retract(a) ==
    /\ Busy
    /\ log' = Append(log, a) /\ steps' = steps + 1
    /\ UNCHANGED <<checked, acked, output>>

Query(q) ==
    /\ output = None
    /\ output' = [question |-> q, hits |-> Shown(log, q).hits, truncated |-> Shown(log, q).truncated]
    /\ UNCHANGED <<log, checked, acked, steps>>

Next ==
    \/ \E a \in NodeArgs : Node(a)
    \/ \E p \in Proc : Relate(p) \/ \E a \in RelateArgs : Check(p, a)
    \/ \E a \in RetractArgs : Retract(a)
    \/ \E q \in Question : Query(q)

Spec == Init /\ [][Next]_vars

-----------------------------------------------------------------------------

\* The ends of an edge have not been upserted since the edge was validated.
Undisturbed(r) ==
    \A i \in r.seen + 1 .. Len(log) : log[i].op = "node" => log[i].id \notin {log[r.at].from, log[r.at].to}

\* What relate acknowledged, with canonical times and between known nodes that
\* are still what they were, a query at a time when it holds follows
\* (edge_write.rs:9-12); and every hit beyond the seeds was reached by an edge
\* that was asserted, holds then and was not retracted after, from a hit one
\* step nearer.  The provenance that makes an edge valid is its own, against what
\* the head of query.rs pins.
QueryFollows ==
    output # None =>
        LET q == output.question
            shown == output.hits
        IN /\ \A r \in acked :
                LET e == log[r.at] IN
                (/\ ~e.dangling /\ Canonical(e) /\ Undisturbed(r) /\ e.to \notin Uri
                 /\ q.expired \/ HoldsAt(log, r.at, q.asOf)
                 /\ ~\E j \in r.at + 1 .. Len(log) : log[j].op = "retract" /\ SameEdge(e, log[j])
                 /\ ~output.truncated)
                => \A h \in shown : h.id = e.from /\ h.depth < MaxDepth =>
                        \E g \in shown : g.id = e.to /\ g.depth <= h.depth + 1
           /\ \A h \in shown : h.depth > 0 =>
                \E g \in shown, i \in DOMAIN log :
                    /\ log[i].op = "assert" /\ log[i].from = g.id /\ log[i].to = h.id
                    /\ g.depth = h.depth - 1
                    /\ Canonical(log[i]) /\ (q.expired \/ HoldsAt(log, i, q.asOf))
                    /\ \A j \in i + 1 .. Len(log) : log[j].op = "retract" => ~SameEdge(log[i], log[j])
================================================================================
