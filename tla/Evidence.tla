------------------------------- MODULE Evidence -------------------------------
(***************************************************************************)
(* Contract-scoped evidence closure (innen-core evidence_closure and       *)
(* task_proposal, with context_selection as the solver).                   *)
(*                                                                         *)
(* A controller inspects nodes and pins their versions.  A contract names  *)
(* the nodes in scope, the pins, a window of observation times, and facts, *)
(* each with alternative sets of root nodes.  A query follows DEPENDS_ON   *)
(* from the roots and answers with a packet, or says why there is none.    *)
(* Meanwhile the journal grows.  A model may be asked to propose the facts *)
(* from a prepared context; its proposal is reviewed before it counts.     *)
(*                                                                         *)
(* Nodes are numbered in the order of their ids.  An event upserts a node, *)
(* or asserts or retracts an edge; the journal holds no other operations   *)
(* that the graph depends on, and times are canonical.  The value of a     *)
(* node is what its SHA-256 tells apart.                                   *)
(***************************************************************************)
EXTENDS Naturals, FiniteSetsExt, SequencesExt

CONSTANTS
    Node,       \* ids, numbered in their order
    Start,      \* the journals that the controller may find
    Inspected,  \* the sets of nodes that the controller may pin
    Event,      \* the events that may be appended meanwhile
    Question,   \* what a contract says beside its pins, see Contract
    Draft,      \* proposals with their reviews, see Decide
    AsOf, MinObserved,  \* the window of observation times
    MaxAppend,  \* bound: events appended after the inspection
    None

\* Ids are numbers, limits and costs are counts, and facts list alternatives.
EvidenceAssumption ==
    /\ IsFiniteSet(Node) /\ Node \subseteq Nat /\ \A s \in SUBSET Node : s # None
    /\ \A l \in Start : l \in Seq(ToSet(l))
    /\ \A q \in Question :
          /\ q.hops \in Nat /\ q.budget \in Nat /\ q.limit \in Nat
          /\ \A s \in SUBSET Node : q.cost[s] \in Nat
          /\ q.facts \in Seq(Seq(SUBSET Node))
    /\ \A d \in Draft :
          /\ d.requirements \in Seq(ToSet(d.requirements))
          /\ \A k \in DOMAIN d.requirements : d.requirements[k].alternatives \in Seq(SUBSET Node)

VARIABLES
    log,      \* the journal
    appends,  \* how many events were appended
    pins,     \* the inspected nodes with the versions seen; None before that
    context,  \* the prepared proposal context
    output    \* the last answer, with the contract and the journal it is about

vars == <<log, appends, pins, context, output>>

Never == 0   \* an edge without valid_until

\* A set of numbers as a list.
InOrder(S) == [k \in 1 .. Cardinality(S) |-> CHOOSE x \in S : Cardinality({y \in S : y < x}) = k - 1]

-----------------------------------------------------------------------------
(***************************************************************************)
(* snapshot: the graph at the cutoff.                                      *)
(***************************************************************************)
Visible(l) ==
    LET upto[n \in 0 .. Len(l)] ==
            IF n = 0 THEN << >>
            ELSE IF l[n].at <= AsOf THEN Append(upto[n - 1], l[n]) ELSE upto[n - 1]
    IN upto[Len(l)]

\* The two kinds that the closure knows are matched whatever their case.
Upper(kind) == IF kind = "depends_on" THEN "DEPENDS_ON" ELSE kind

Upserts(l, n) == SelectSeq(l, LAMBDA e : e.op = "node" /\ e.id = n)

Nodes(l) == {n \in Node : Upserts(l, n) # << >>}

\* Later upserts replace the fields they carry; the observation time only grows.
Value(l, n) ==
    LET us == Upserts(l, n)
    IN [body |-> us[Len(us)].body,
        sound |-> \E i \in DOMAIN us : us[i].sound,
        at |-> Max({us[i].at : i \in DOMAIN us})]

SameEdge(e, f) == e.from = f.from /\ e.to = f.to /\ Upper(e.kind) = Upper(f.kind)

\* The rows that hold at the cutoff, by their positions: a retraction marks the
\* rows before it.
Rows(l) ==
    {i \in DOMAIN l : /\ l[i].op = "assert"
                      /\ ~\E j \in DOMAIN l : j > i /\ l[j].op = "retract" /\ SameEdge(l[i], l[j])
                      /\ l[i].until = Never \/ AsOf <= l[i].until}

\* Mutant of Adjacent: a contradiction is seen from the node that states it.
AdjacentForward(l, n) ==
    {i \in Rows(l) : \/ Upper(l[i].kind) = "DEPENDS_ON" /\ l[i].from = n
                     \/ l[i].kind = "CONTRADICTS" /\ l[i].from = n}

\* The rows seen from a node: what it depends on, and contradictions either way.
Adjacent(l, n) ==
    {i \in Rows(l) : \/ Upper(l[i].kind) = "DEPENDS_ON" /\ l[i].from = n
                     \/ l[i].kind = "CONTRADICTS" /\ n \in {l[i].from, l[i].to}}

-----------------------------------------------------------------------------
(***************************************************************************)
(* eligible and closure.                                                   *)
(***************************************************************************)
\* A set of one problem; {} is none.
Problem(reason, n, c) == {[reason |-> reason, source |-> IF n \in c.scope THEN n ELSE None]}

\* Why a node cannot be used, or "eligible".
Eligibility(l, c, n) ==
    CASE n \notin c.scope -> "scope_or_source_unavailable"
      [] n \in c.scope /\ n \notin DOMAIN c.pins -> "source_pin_missing"
      [] n \in c.scope /\ n \in DOMAIN c.pins /\ n \notin Nodes(l) -> "scope_or_source_unavailable"
      [] OTHER ->
            LET v == Value(l, n)
            IN IF v # c.pins[n] THEN "source_changed"
               ELSE IF v.at < MinObserved \/ v.at > AsOf THEN "observation_outside_window"
               ELSE IF ~v.sound THEN "source_provenance_missing" ELSE "eligible"

Other(e, n) == IF e.from = n THEN e.to ELSE e.from

\* What is wrong with following a row from node n, which is `depth` steps from
\* the roots, when the nodes in `seen` are in the closure.
RowProblem(l, c, i, n, depth, seen) ==
    LET e == l[i] IN
    IF e.kind = "CONTRADICTS" THEN
        IF Other(e, n) \notin c.scope THEN Problem("scope_or_source_unavailable", Other(e, n), c)
        ELSE Problem("unresolved_conflict", Other(e, n), c)
    ELSE IF Eligibility(l, c, e.to) # "eligible" THEN Problem(Eligibility(l, c, e.to), e.to, c)
    ELSE IF ~e.sound THEN Problem("dependency_provenance_missing", n, c)
    ELSE IF depth >= c.hops /\ e.to \notin seen THEN Problem("hop_limit", n, c)
    ELSE {}

\* The rows are read in the order of the journal, and the first problem ends it.
FirstProblem(l, c, n, depth, seen) ==
    LET bad == {i \in Adjacent(l, n) : RowProblem(l, c, i, n, depth, seen) # {}}
    IN IF bad = {} THEN {} ELSE RowProblem(l, c, Min(bad), n, depth, seen)

\* One node of the queue, with its depth: passed over, refused, or in the closure
\* with what it depends on queued.
Follow(l, c, w) ==
    LET n == Head(w.queue)[1]
        depth == Head(w.queue)[2]
        now == w.seen \union {n}
        problem == IF Eligibility(l, c, n) # "eligible"
                   THEN Problem(Eligibility(l, c, n), n, c)
                   ELSE FirstProblem(l, c, n, depth, now)
        fresh == InOrder({i \in Adjacent(l, n) : l[i].to \notin now})
        queued == [k \in DOMAIN fresh |-> <<l[fresh[k]].to, depth + 1>>]
    IN IF n \in w.seen THEN [queue |-> Tail(w.queue), seen |-> w.seen, problem |-> {}]
       ELSE IF problem # {} THEN [queue |-> w.queue, seen |-> {}, problem |-> problem]
       ELSE [queue |-> Tail(w.queue) \o queued, seen |-> now, problem |-> {}]

\* Breadth first from the roots.  A row is queued once at most.
Closure(l, c, roots) ==
    LET ids == InOrder(roots)
        most == Cardinality(roots) + Cardinality(DOMAIN l)
        walk[k \in 0 .. most] ==
            IF k = 0 THEN [queue |-> [n \in DOMAIN ids |-> <<ids[n], 0>>], seen |-> {}, problem |-> {}]
            ELSE LET w == walk[k - 1]
                 IN IF w.queue = << >> \/ w.problem # {} THEN w ELSE Follow(l, c, w)
    IN [nodes |-> walk[most].seen, problem |-> walk[most].problem]

-----------------------------------------------------------------------------
(***************************************************************************)
(* evaluate: the alternatives that close, and the cheapest choice of one   *)
(* for each fact.                                                          *)
(***************************************************************************)
Tried(l, c) == [f \in DOMAIN c.facts |-> [k \in DOMAIN c.facts[f] |-> Closure(l, c, c.facts[f][k])]]

\* The node sets of the admitted alternatives of each fact, in their order.
Admitted(tried) ==
    [f \in DOMAIN tried |->
        LET admitted == InOrder({k \in DOMAIN tried[f] : tried[f][k].problem = {}})
        IN [k \in DOMAIN admitted |-> tried[f][admitted[k]].nodes]]

Options(l, c) == Admitted(Tried(l, c))

Problems(l, c) == UNION {UNION {t.problem : t \in ToSet(Tried(l, c)[f])} : f \in DOMAIN c.facts}

\* What the search keeps: `best` is the first of the cheapest selections.
Searching(options, limit) ==
    [visited : SUBSET ((1 .. Len(options) + 1) \X SUBSET Node), states : 0 .. limit,
     over : BOOLEAN, best : {None} \union SUBSET Node]

\* One option of a fact after another.
VisitEach(list, selected, deeper, s) ==
    LET after[k \in 0 .. Len(list)] ==
            IF k = 0 THEN s
            ELSE LET t == after[k - 1]
                 IN IF t.over THEN t ELSE deeper[<<selected \union list[k], t>>]
    IN after[Len(list)]

\* A pair of a fact, of which there are `left` with those after it, and a selection
\* is visited once, and the visits are counted.  Only whole selections are priced:
\* the cost of a packet is not monotone.
Visit(c, options, left, deeper, selected, s) ==
    LET f == Len(options) + 1 - left
        known == s.visited \union {<<f, selected>>}
        t == [visited |-> known, states |-> s.states + 1, over |-> FALSE, best |-> s.best]
    IN IF <<f, selected>> \in s.visited THEN s
       ELSE IF s.over \/ s.states >= c.limit
            THEN [visited |-> known, states |-> s.states, over |-> TRUE, best |-> s.best]
       ELSE IF left # 0 THEN VisitEach(options[f], selected, deeper, t)
       ELSE IF c.cost[selected] > c.budget \/ (s.best # None /\ c.cost[selected] >= c.cost[s.best]) THEN t
       ELSE [t EXCEPT !.best = selected]

Search(c, options) ==
    LET visit[left \in 0 .. Len(options)] ==
            [x \in (SUBSET Node) \X Searching(options, c.limit) |->
                Visit(c, options, left, visit[left - 1], x[1], x[2])]
    IN visit[Len(options)][<<{}, [visited |-> {}, states |-> 0, over |-> FALSE, best |-> None]>>]

Answer(resolution, selected, requests) ==
    [resolution |-> resolution, selected |-> selected, requests |-> requests]

\* A conflict met by any alternative blocks the answer, then a missing fact.
Resolve(c, problems, options) ==
    LET requests == {p.source : p \in {x \in problems : x.reason \in {"source_pin_missing", "source_changed"}}} \ {None}
        found == Search(c, options)
    IN IF \E p \in problems : p.reason = "unresolved_conflict" THEN Answer("conflict", {}, requests)
       ELSE IF \E f \in DOMAIN options : options[f] = << >> THEN Answer("blocked", {}, requests)
       ELSE IF found.over THEN Answer("search_limit_unknown", {}, requests)
       ELSE IF found.best = None THEN Answer("budget_insufficient", {}, requests)
       ELSE Answer("covered", found.best, requests)

Evaluate(l, c) == Resolve(c, Problems(l, c), Options(l, c))

-----------------------------------------------------------------------------
(***************************************************************************)
(* task_proposal: what a model proposes counts after a review that binds   *)
(* the exact context.                                                      *)
(***************************************************************************)

\* The context quotes the pinned sources, which must all be usable.
Context(l, c) ==
    IF DOMAIN c.pins # {} /\ \A n \in DOMAIN c.pins : Eligibility(l, c, n) = "eligible"
    THEN [scope |-> c.scope, pins |-> c.pins] ELSE None

\* assess, over the premises of a review: each has a missing fact, or spans
\* that support or refute it.
Malformed(p) ==
    \/ p.supports \intersect p.refutes # {}
    \/ p.missing /\ p.supports \union p.refutes # {}
    \/ ~p.missing /\ p.supports \union p.refutes = {}

Readiness(premises) ==
    IF premises = {} \/ \E p \in premises : Malformed(p) THEN "error"
    ELSE IF \E p \in premises : p.refutes # {} THEN "conflicting_evidence"
    ELSE IF \E p \in premises : p.missing THEN "needs_more_evidence"
    ELSE "proceed_with_investigation"

\* Sources of the control channel are data about the work, not for it.
Citable(c, ns) == ns # {} /\ ns \subseteq {n \in DOMAIN c.pins : c.pins[n].body # "control"}

\* bind_draft: evidence ids are positions among the pinned sources.
Bound(c, d) ==
    IF ~d.byId THEN d.requirements
    ELSE LET sources == InOrder(DOMAIN c.pins)
             named(r) == {sources[i] : i \in r.cited \intersect DOMAIN sources}
         IN [k \in DOMAIN d.requirements |->
                [cited |-> IF d.requirements[k].cited \subseteq DOMAIN sources
                           THEN named(d.requirements[k]) ELSE {},
                 alternatives |-> <<named(d.requirements[k])>>]]

Facts(c, d) == [k \in DOMAIN d.requirements |-> Bound(c, d)[k].alternatives]

\* task_proposal::evaluate.  A draft holds requirements, a disposition, and its
\* review: None, "rejected" or "accepted" with premises.
Judge(l, c, made, d) ==
    LET now == Context(l, c)
        cited == [k \in DOMAIN d.requirements |-> Bound(c, d)[k].cited]
        spans == UNION {p.supports \union p.refutes : p \in d.premises}
    IN IF \/ now = None \/ made # now
          \/ \E k \in DOMAIN cited : \/ ~Citable(c, cited[k])
                                      \/ \E a \in ToSet(Facts(c, d)[k]) : a = {} \/ ~a \subseteq cited[k]
       THEN Answer("error", {}, {})
       ELSE IF d.review = None THEN Answer("source_validated_review_required", {}, {})
       ELSE IF d.review = "rejected" THEN Answer("review_rejected", {}, {})
       ELSE IF (spans # {} /\ ~Citable(c, spans)) \/ Readiness(d.premises) # d.disposition
       THEN Answer("error", {}, {})
       ELSE CASE d.disposition = "needs_more_evidence" -> Answer("reviewed_needs_evidence", {}, {})
              [] d.disposition = "conflicting_evidence" -> Answer("reviewed_conflict", {}, {})
              [] OTHER -> Evaluate(l, [c EXCEPT !.facts = Facts(c, d)])

-----------------------------------------------------------------------------
(***************************************************************************)
(* The controller, and the journal that grows meanwhile.                   *)
(***************************************************************************)
Contract(q) == [scope |-> q.scope, pins |-> pins, facts |-> q.facts, hops |-> q.hops,
                budget |-> q.budget, limit |-> q.limit, cost |-> q.cost]

Init == log \in Start /\ appends = 0 /\ pins = None /\ context = None /\ output = None

\* The controller inspects nodes and pins what it saw.
Inspect(ns) ==
    /\ pins = None
    /\ pins' = [n \in ns \intersect Nodes(Visible(log)) |-> Value(Visible(log), n)]
    /\ UNCHANGED <<log, appends, context, output>>

Grow(e) ==
    /\ pins # None /\ output = None /\ appends < MaxAppend
    /\ log' = Append(log, e) /\ appends' = appends + 1
    /\ UNCHANGED <<pins, context, output>>

\* query --evidence-contract
Ask(q) ==
    /\ pins # None /\ output = None /\ context = None
    /\ output' = [answer |-> Evaluate(Visible(log), Contract(q)), contract |-> Contract(q)]
    /\ UNCHANGED <<log, appends, pins, context>>

\* query --prepare-proposal, with a contract that has no facts yet.
Prepare(q) ==
    /\ pins # None /\ output = None /\ context = None
    /\ Context(Visible(log), Contract(q)) # None
    /\ context' = [question |-> q, made |-> Context(Visible(log), Contract(q))]
    /\ UNCHANGED <<log, appends, pins, output>>

\* query --task-proposal --proposal-review
Decide(d) ==
    /\ context # None /\ output = None
    /\ LET c == Contract(context.question)
       IN output' = [answer |-> Judge(Visible(log), c, context.made, d),
                     contract |-> [c EXCEPT !.facts = Facts(c, d)]]
    /\ UNCHANGED <<log, appends, pins, context>>

Next ==
    \/ \E ns \in Inspected : Inspect(ns)
    \/ \E e \in Event : Grow(e)
    \/ \E q \in Question : Ask(q) \/ Prepare(q)
    \/ \E d \in Draft : Decide(d)

Spec == Init /\ [][Next]_vars

-----------------------------------------------------------------------------
(***************************************************************************)
(* What an answer promises.                                                *)
(***************************************************************************)
Depends(l) == {i \in Rows(l) : Upper(l[i].kind) = "DEPENDS_ON"}

\* The nodes within k dependencies of the roots.
Within(l, roots) ==
    LET near[k \in 0 .. Cardinality(Node)] ==
            IF k = 0 THEN roots
            ELSE near[k - 1] \union {l[i].to : i \in {j \in Depends(l) : l[j].from \in near[k - 1]}}
    IN near

Contradicted(l, n) == \E i \in Rows(l) : l[i].kind = "CONTRADICTS" /\ n \in {l[i].from, l[i].to}

\* All that an alternative rests on: no further than the hops allow, each node
\* as it was pinned, each dependency with its provenance, no contradiction.
Grounded(l, c, roots) ==
    LET all == Within(l, roots)[Cardinality(Node)]
    IN /\ all = Within(l, roots)[Min({c.hops, Cardinality(Node)})]
       /\ \A n \in all : Eligibility(l, c, n) = "eligible" /\ ~Contradicted(l, n)
       /\ \A i \in Depends(l) : l[i].from \in all => l[i].sound

\* The packets that one admitted alternative for each fact makes.
Packets(options) ==
    {UNION {choice[f] : f \in DOMAIN options} :
        choice \in {g \in [DOMAIN options -> UNION {ToSet(options[f]) : f \in DOMAIN options}] :
                        \A f \in DOMAIN options : g[f] \in ToSet(options[f])}}

\* The engine follows DEPENDS_ON and checks pins, windows and provenance at
\* every hop (README.md:328-330): a covered answer holds for each fact all that
\* one of its alternatives rests on, nothing in it is contradicted, and no other
\* choice makes a cheaper packet; budget_insufficient means that none fits.
CoveredIsGrounded ==
    output # None =>
        LET l == Visible(log)
            c == output.contract
            packets == Packets(Options(l, c))
        IN /\ output.answer.resolution = "covered" =>
                /\ \A f \in DOMAIN c.facts : \E roots \in ToSet(c.facts[f]) :
                        /\ Grounded(l, c, roots)
                        /\ Within(l, roots)[Cardinality(Node)] \subseteq output.answer.selected
                /\ \A n \in output.answer.selected : ~Contradicted(l, n)
                /\ c.cost[output.answer.selected] <= c.budget
                /\ \A p \in packets : c.cost[output.answer.selected] <= c.cost[p]
           /\ output.answer.resolution = "budget_insufficient" =>
                \A p \in packets : c.cost[p] > c.budget

\* "Active `CONTRADICTS` links block coverage rather than being hidden by another
\* alternative" (README.md:331): no usable root of any alternative of a covered
\* answer is contradicted by a node in scope.
ContradictionBlocks ==
    output # None /\ output.answer.resolution = "covered" =>
        LET l == Visible(log)
            c == output.contract
        IN \A f \in DOMAIN c.facts : \A n \in UNION ToSet(c.facts[f]) :
              Eligibility(l, c, n) = "eligible" =>
                \A i \in Rows(l) : l[i].kind = "CONTRADICTS" /\ n \in {l[i].from, l[i].to}
                                        => Other(l[i], n) \notin c.scope
================================================================================
