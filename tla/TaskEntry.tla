------------------------------- MODULE TaskEntry -------------------------------
(***************************************************************************)
(* Context for a task (innen-core task_entry, behind `query --q`): which   *)
(* nodes a request selects, what is claimed about them, and the pages that *)
(* an agent reads one after another under a ceiling on their size.         *)
(*                                                                         *)
(* A text is the set of phrases it contains, and a node carries the texts  *)
(* that the gates read: its id, label, anchor, identity and all that is    *)
(* searched, each contained in the next but for the id.  Relevance is a    *)
(* score out of 100 that the node carries, coverage of a request by terms  *)
(* that weigh something.  The journal does not change between the pages.   *)
(***************************************************************************)
EXTENDS Naturals, FiniteSetsExt, SequencesExt, Functions

CONSTANTS
    Graph,     \* the graphs that may be found: nodes in the order of their ids,
               \* and BELONGS_TO edges as pairs of their positions
    Question,  \* requests: text, terms, weights, limits, see Page
    FallbackLimit, NeighborhoodLimit, ConstraintLimit, MinKept,  \* 10, 12, 12, 3
    None

\* Nodes have positions, scores and sizes, terms weigh something, and limits are
\* counts; None is no offset and no budget.
TaskAssumption ==
    /\ \A g \in Graph :
          /\ DOMAIN g.nodes = 1 .. Len(g.nodes) /\ Len(g.nodes) \in Nat
          /\ \A i \in DOMAIN g.nodes : g.nodes[i].score \in Nat /\ g.nodes[i].cost \in Nat \ {0}
    /\ \A q \in Question :
          /\ q.limit \in Nat /\ q.budget \in Nat \union {None} /\ q.base \in Nat /\ q.short \in Nat
          /\ IsFiniteSet(q.terms) /\ IsFiniteSet(q.identities)
          /\ \A t \in q.terms \union q.identities : q.weight[t] \in Nat \ {0}
    /\ FallbackLimit \in Nat /\ NeighborhoodLimit \in Nat /\ ConstraintLimit \in Nat
    /\ None \notin Nat

VARIABLES
    graph, question,
    found,   \* what the request selects in the graph
    offset,  \* where the next page begins; None after the last one
    shown    \* the candidates shown so far

vars == <<graph, question, found, offset, shown>>

-----------------------------------------------------------------------------
(***************************************************************************)
(* Admission: terms that identify something must be met, all of them, or   *)
(* the named entity must be; an edit of an asset may browse its variants.  *)
(***************************************************************************)
Nodes(g) == DOMAIN g.nodes

HasEntityAnchor(n, q) == q.entities # {} /\ ~n.pathLike /\ q.entities \subseteq n.anchor

HasAllTerms(n, q) == q.identities # {} /\ q.identities \subseteq n.searched

ByFts(n, q) ==
    /\ q.terms \intersect n.searched # {}
    /\ HasAllTerms(n, q) \/ (q.entities # {} /\ HasEntityAnchor(n, q))

ExactId(n, q) == n.id = {q.text}

\* A term of the request, or of the entity it names, is in the label or the id.
ByTerm(n, q, t) ==
    /\ q.entities # {} => t \in q.entities
    /\ ~n.pathLike /\ t \in n.label \union n.id
    /\ Cardinality(q.entities) > 1 /\ ~q.edit => q.entities \subseteq n.label \union n.id

ByText(n, q) == q.text \in n.label \/ (~n.pathLike /\ q.text \in n.id)

Exact(n, q) ==
    \/ ExactId(n, q) \/ ByText(n, q)
    \/ \E t \in q.terms : ByTerm(n, q, t) /\ (n.label = {t} \/ n.id = {t})

\* One common word must not admit a node for a request of several.
ByLiteral(n, q) ==
    \/ ExactId(n, q)
    \/ /\ \/ ByText(n, q) \/ \E t \in q.terms : ByTerm(n, q, t)
          \/ IF q.entities = {} THEN q.identities \intersect n.identity # {} ELSE HasEntityAnchor(n, q)
       /\ q.edit \/ Cardinality(q.identities) <= 1 \/ HasAllTerms(n, q)

Score(n, q) == IF ByLiteral(n, q) /\ Exact(n, q) THEN 100 ELSE n.score

\* S in the strict order Before.
Ordered(S, Before(_, _)) ==
    [k \in 1 .. Cardinality(S) |-> CHOOSE x \in S : Cardinality({y \in S : Before(y, x)}) = k - 1]

\* Positions and scores, the best first.
InOrder(candidates) ==
    Ordered(candidates, LAMBDA x, y : x.score > y.score \/ (x.score = y.score /\ x.node < y.node))

Matches(g, q) ==
    {[node |-> i, score |-> Score(g.nodes[i], q)] :
        i \in {j \in Nodes(g) : ByFts(g.nodes[j], q) \/ ByLiteral(g.nodes[j], q)}}

\* The weights of some terms together.
Weight(q, terms) == Cardinality(UNION {{t} \X (1 .. q.weight[t]) : t \in terms})

\* A request that nothing matches as a whole is tried term by term.
PerTerm(g, q) ==
    {[node |-> i, score |-> (100 * Weight(q, q.identities \intersect g.nodes[i].identity))
                                \div Weight(q, q.identities)] :
        i \in {j \in Nodes(g) : q.identities \intersect g.nodes[j].identity # {}}}

Leading(list, n) == [k \in 1 .. Min({n, Len(list)}) |-> list[k]]

\* The entries of a list at some of its positions, in their order.
At(list, positions) ==
    LET place == Ordered(positions, LAMBDA i, j : i < j)
    IN [k \in 1 .. Cardinality(positions) |-> list[place[k]]]

\* The same document in two formats, or twice, is shown where it ranks best.
SameDocument(m, n) == m.kind = n.kind /\ m.stem = n.stem /\ m.ext # None /\ n.ext # None

Firsts(list, Same(_, _)) ==
    At(list, {k \in DOMAIN list : ~\E j \in 1 .. k - 1 : Same(list[j], list[k])})

\* The request as a whole, or by its terms: the best of what they find.
Search(g, q) ==
    LET whole == Matches(g, q)
        byTerm == IF whole = {} /\ Cardinality(q.identities) >= 2 THEN PerTerm(g, q) ELSE {}
        best == IF byTerm = {} THEN InOrder(whole) ELSE Leading(InOrder(byTerm), FallbackLimit)
    IN [whole |-> whole, byTerm |-> byTerm, partial |-> byTerm # {},
        ranked |-> Firsts(best, LAMBDA x, y : SameDocument(g.nodes[x.node], g.nodes[y.node]))]

-----------------------------------------------------------------------------
(***************************************************************************)
(* What is claimed about the candidates.                                   *)
(***************************************************************************)
Ids(ranked) == {c.node : c \in ToSet(ranked)}

Projects(g, ids) ==
    {i \in ids : g.nodes[i].kind = "Project"}
    \union {e[2] : e \in {f \in g.edges : f[1] \in ids /\ g.nodes[f[2]].kind = "Project"}}

\* Approved, in an editable format, and where it is recorded to be.
Approved(g, ids) == {i \in ids : g.nodes[i].approved /\ g.nodes[i].editable /\ g.nodes[i].located}

Top(ranked) == {c.node : c \in {d \in ToSet(ranked) : d.score = ranked[1].score}}

Owned(g, projects) == {i \in Nodes(g) : \E p \in projects : <<i, p>> \in g.edges}

\* The other files of a project that the request names.
Neighborhood(g, ranked) ==
    LET named == IF ranked # << >> /\ \E i \in Top(ranked) : g.nodes[i].kind = "Project"
                 THEN Projects(g, Top(ranked)) ELSE {}
        files == {i \in Owned(g, named) \ Ids(ranked) : g.nodes[i].kind # "Constraint"}
    IN Firsts(Ordered(files, LAMBDA i, j : i < j),
              LAMBDA i, j : SameDocument(g.nodes[i], g.nodes[j]))

\* What was recorded as binding for the projects of the best candidates, the
\* most relevant first and each once.
Constraints(g, q, ranked) ==
    LET projects == IF ranked = << >> THEN {} ELSE Projects(g, Top(ranked))
        rows == {i \in Owned(g, projects) : g.nodes[i].kind = "Constraint"}
        relevance(i) == Weight(q, q.terms \intersect g.nodes[i].searched)
        before(i, j) == relevance(i) > relevance(j) \/ (relevance(i) = relevance(j) /\ i < j)
    IN Firsts(Ordered(rows, before), LAMBDA i, j : g.nodes[i].searched = g.nodes[j].searched)

Unmatched(g, q, search, constraints) ==
    IF ~search.partial THEN {}
    ELSE q.identities \ (UNION {g.nodes[c.node].identity : c \in search.byTerm} \union
                         UNION {g.nodes[i].searched : i \in ToSet(constraints)})

\* Matches of single terms are weak evidence of ownership.
Linked(g, search) ==
    Projects(g, IF search.partial THEN Top(search.ranked) ELSE Ids(search.ranked))

\* An edit needs one approved baseline, of one project at most.  A request that
\* finds nothing is taken to the names of local files.
Resolution(g, q, search) ==
    LET approved == Approved(g, Ids(search.ranked))
        projects == Linked(g, search)
        missing == CASE q.local = "found" -> "unindexed_local_candidates"
                     [] q.local = "incomplete" -> "local_search_incomplete"
                     [] OTHER -> "missing"
    IN IF search.ranked = << >> THEN missing
       ELSE IF search.partial THEN "partial"
       ELSE IF q.edit /\ Cardinality(approved) > 1 THEN "ambiguous"
       ELSE IF q.edit /\ approved = {} THEN missing
       ELSE IF Cardinality(projects) > 1 THEN "ambiguous"
       ELSE IF q.edit THEN "ready" ELSE "retrieved"

\* Candidates that the page lists as constraints are not listed again, and weak
\* matches of single terms, which rank last, are dropped.
Candidates(search, constraints) ==
    LET fresh == {k \in DOMAIN search.ranked : search.ranked[k].node \notin ToSet(constraints)}
        base == IF fresh = {} THEN search.ranked ELSE At(search.ranked, fresh)
        strong == {k \in DOMAIN base : k <= MinKept \/ 2 * base[k].score >= base[1].score}
    IN IF search.partial THEN Leading(base, Cardinality(strong)) ELSE base

\* What a request selects, the same for each of its pages.
Found(g, q) ==
    LET search == Search(g, q)
        constraints == Leading(Constraints(g, q, search.ranked), ConstraintLimit)
    IN [admitted |-> {c.node : c \in search.whole}, ranked |-> Ids(search.ranked),
        candidates |-> Candidates(search, constraints), constraints |-> constraints,
        neighborhood |-> Leading(Neighborhood(g, search.ranked), NeighborhoodLimit),
        resolution |-> Resolution(g, q, search), baseline |-> Approved(g, Ids(search.ranked)),
        unmatched |-> Unmatched(g, q, search, constraints)]

-----------------------------------------------------------------------------
(***************************************************************************)
(* fit_to_budget: entries are taken by what they are worth per character.  *)
(***************************************************************************)
\* What a rank leaves of a value, in thousandths: each takes 0.85 of it.
Decay(n) ==
    LET left[k \in 0 .. n] == IF k = 0 THEN 1000 ELSE (85 * left[k - 1]) \div 100
    IN left

\* Constraints, files and rows with what they are worth and what they cost.
Entries(lists, g) ==
    LET node(l, k) == IF l = 3 THEN lists[l][k].node ELSE lists[l][k]
        value(l, k) == CASE l = 1 -> 1000 [] l = 2 -> 250 [] l = 3 -> 8 * Max({5, lists[l][k].score})
        entry(l, k) == [list |-> l, at |-> k, worth |-> value(l, k) * Decay(Len(lists[l]))[k - 1],
                        cost |-> g.nodes[node(l, k)].cost]
    IN UNION {{entry(l, k) : k \in DOMAIN lists[l]} : l \in 1 .. 3}

\* By density, then list, then rank.
ByDensity(entries) ==
    Ordered(entries, LAMBDA x, y :
        \/ x.worth * y.cost > y.worth * x.cost
        \/ x.worth * y.cost = y.worth * x.cost /\ (x.list < y.list \/ (x.list = y.list /\ x.at < y.at)))

\* A constraint that does not fit whole may fit when it is shortened.
Take(q, acc, x) ==
    LET short == Min({x.cost, q.short}) IN
    IF acc.used + x.cost <= q.budget THEN [used |-> acc.used + x.cost, kept |-> acc.kept \union {<<x.list, x.at>>}]
    ELSE IF x.list = 1 /\ short < x.cost /\ acc.used + short <= q.budget
    THEN [used |-> acc.used + short, kept |-> acc.kept \union {<<x.list, x.at>>}]
    ELSE acc

Chosen(q, entries) ==
    LET order == ByDensity(entries)
        taken[k \in 0 .. Len(order)] ==
            IF k = 0 THEN [used |-> q.base, kept |-> {}] ELSE Take(q, taken[k - 1], order[k])
    IN taken[Len(order)].kept

\* Nothing is cut from a page that is within its budget, or has none.
Fits(q, entries) ==
    q.budget = None \/ FoldSet(LAMBDA x, sum : x.cost + sum, q.base, entries) <= q.budget

\* Mutant of LeadingRun: all chosen rows are shown, with gaps between them.
LeadingRunGaps(chosen, n) == {k \in 1 .. n : <<3, k>> \in chosen}

\* Rows are paged, so that only a leading run of them can be kept.
LeadingRun(chosen, n) == {k \in 1 .. n : \A j \in 1 .. k : <<3, j>> \in chosen}

\* Mutant of KeptRows: a page on which no row fits shows none.
KeptRowsThatFit(q, lists, g) ==
    LET entries == Entries(lists, g)
    IN IF Fits(q, entries) THEN DOMAIN lists[3] ELSE LeadingRun(Chosen(q, entries), Len(lists[3]))

\* The best row is put back when no row was chosen; when another one was, the
\* run is empty and the page ends where it began.
KeptRows(q, lists, g) ==
    LET entries == Entries(lists, g)
        chosen == Chosen(q, entries)
        rows == IF \E x \in chosen : x[1] = 3 THEN chosen ELSE chosen \union {<<3, 1>>}
    IN IF Fits(q, entries) THEN DOMAIN lists[3] ELSE LeadingRun(rows, Len(lists[3]))

-----------------------------------------------------------------------------
(***************************************************************************)
(* Pages.                                                                  *)
(***************************************************************************)
Init ==
    /\ graph \in Graph /\ question \in Question
    /\ found = Found(graph, question)
    /\ offset = 0 /\ shown = << >>

\* The candidates that the limit leaves for the page at the offset, and those of
\* them that the budget leaves.
Rows == SubSeq(found.candidates, offset + 1, Min({offset + question.limit, Len(found.candidates)}))

Kept == KeptRows(question, <<found.constraints, found.neighborhood, Rows>>, graph)

\* query --q --limit --budget, and --offset with the next_offset of the last page.
Page ==
    LET listed == At(Rows, Kept)
        next == offset + Len(listed)
    IN /\ offset # None
       /\ shown' = shown \o [k \in DOMAIN listed |-> listed[k].node]
       /\ offset' = IF next < Len(found.candidates) THEN next ELSE None
       /\ UNCHANGED <<graph, question, found>>

Next == Page

Spec == Init /\ [][Next]_vars

-----------------------------------------------------------------------------
\* Pages that are read by their next_offset show the candidates in their order,
\* each once, none is left out, and the last page says that it is the last
\* (budget.rs:99-107).  A page goes on from where the one before it ended, unless a
\* later row costs less than its first: that row may be kept in its place, and then
\* the page is empty and its next_offset is its own (budget.rs:71-95).  A request
\* that is "ready" has one approved baseline, and every other approved document
\* that it admits is the same one in another format (entry.rs:245-263).
PagesShowAll ==
    /\ LET all == [k \in DOMAIN found.candidates |-> found.candidates[k].node]
       IN /\ shown = Leading(all, Len(shown))
          /\ offset = None => shown = all
    /\ LET cost(k) == graph.nodes[Rows[k].node].cost
       IN offset # None /\ Rows # << >> /\ (\A k \in DOMAIN Rows : cost(1) <= cost(k)) => 1 \in Kept
    /\ found.resolution = "ready" =>
        /\ Cardinality(found.baseline) = 1
        /\ \A i \in found.admitted : Approved(graph, {i}) # {} =>
                \E j \in found.ranked : j = i \/ SameDocument(graph.nodes[j], graph.nodes[i])
================================================================================
