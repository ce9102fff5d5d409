--------------------------------- MODULE Trace ---------------------------------
(***************************************************************************)
(* innen trace (innen-core trace, with conversation/scan): a search goes   *)
(* from matching nodes along the links that hold now, best first, to the   *)
(* sources that the nodes name, and quotes their passages; expand fetches  *)
(* one passage again.  Sources are files that other programs change, also  *)
(* while they are read.  What was read is kept and used again as long as   *)
(* size and modification time of the source are the same.                  *)
(*                                                                         *)
(* Nodes are numbered in the order of their ids, scores are thousandths,   *)
(* and a passage counts as one byte and as one record.  Passages match in  *)
(* the order of the file.  Every file of the cache is written under        *)
(* another name first and is named by its content, or names such a file,   *)
(* so that searches share them without seeing one another.                 *)
(***************************************************************************)
EXTENDS Integers, FiniteSetsExt, SequencesExt

CONSTANTS
    Journal,    \* the graphs that the journal may replay to
    Name,       \* files
    Content,    \* what a file may hold
    Question,   \* what a search asks for, with its budgets
    SeedLimit, FrontierLimit,
    Root,       \* square roots, in hundredths
    MaxNow, MaxEdit, MaxSearch,  \* bounds
    Missing, None

\* Names of sources, of a file or of something that is not fetched.
IsLocator(l) ==
    \/ l.kind = "url"
    \/ l.kind = "short" /\ l.of \subseteq Name
    \/ l.kind \in {"file", "native", "document"} /\ l.name \in Name

\* Graphs are finite, nodes are numbered, the references of a source have ids of
\* their own, and budgets are counts.  A node names a source, or bears the bare
\* name of a file that may be in either of two places.
TraceAssumption ==
    /\ SeedLimit \in Nat /\ FrontierLimit \in Nat
    /\ \A g \in Journal :
          /\ IsFiniteSet(DOMAIN g.nodes) /\ IsFiniteSet(g.links)
          /\ DOMAIN g.nodes \union DOMAIN g.outside \subseteq Nat
          /\ \A n \in DOMAIN g.nodes :
                /\ g.nodes[n].score \in Nat
                /\ LET l == g.nodes[n].locator
                   IN l = None \/ l.kind = "bare" \/ IsLocator(l)
          /\ \A n \in DOMAIN g.outside : g.outside[n] = None \/ IsLocator(g.outside[n])
          /\ \A n \in 1..(2 * Cardinality(g.links)) : Root[n] \in Nat \ {0}
    /\ \A c \in Content :
          /\ c.passages \in Seq(ToSet(c.passages)) /\ IsFiniteSet(c.refs)
          /\ \A ref \in c.refs : ref.id \in Nat /\ IsLocator(ref.locator)
          /\ \A ref, other \in c.refs : ref.id = other.id => ref = other
    /\ \A q \in Question :
          {q.maxSources, q.maxBytes, q.maxRecords, q.maxNodes, q.maxDepth, q.limit} \subseteq Nat

VARIABLES
    graph,      \* what the journal replays to
    now,
    files,      \* content and modification time, or Missing
    graphs,     \* replays that are kept
    kept,       \* readings of sources that are kept
    heads,      \* per locator: the reading to use again
    run,        \* the search: its question, what is pending, what it found
    output,     \* the last search, with the files that were there when it began (history)
    expanded,   \* the last passage that was fetched again
    held,       \* history: what each file held since the search began
    restamped,  \* history: files changed without a change of size and time
    edits, searches

vars == <<graph, now, files, graphs, kept, heads, run, output, expanded, held, restamped, edits, searches>>

cacheVars == <<graphs, kept, heads>>

-----------------------------------------------------------------------------
(***************************************************************************)
(* The graph: which links hold, and how far they carry a score.            *)
(***************************************************************************)
Valid(g, l) ==
    /\ l.since <= now
    /\ l.until # None => now <= l.until
    /\ l.from \in DOMAIN g.nodes
    /\ l.to \in DOMAIN g.nodes \union DOMAIN g.outside
    /\ l.sound

Weight(kind, reverse) ==
    CASE kind = "DERIVED_FROM" /\ ~reverse -> 90
      [] kind = "DELIVERED" /\ reverse -> 90
      [] kind = "DESCRIBES" -> 80
      [] kind = "FOLLOWS_UP" -> 65
      [] kind = "RELATED_TO" -> 35
      [] kind = "BELONGS_TO" -> 12
      [] OTHER -> 0

Step(l, reverse) ==
    [target |-> IF reverse THEN l.from ELSE l.to, weight |-> Weight(l.kind, reverse),
     crowd |-> l.kind = "BELONGS_TO"]

Adjacent(g, n) ==
    LET links == {l \in g.links : Valid(g, l)}
        forward == {Step(l, FALSE) : l \in {l \in links : l.from = n}}
        backward == {Step(l, TRUE) : l \in {l \in links : l.to = n}}
    IN {s \in forward \union backward : s.weight > 0}

Before(s, t) == s.weight > t.weight \/ (s.weight = t.weight /\ s.target < t.target)

\* Weak routes through a project with many members are weaker still.
Carried(score, s, all) ==
    (score * s.weight) \div IF s.crowd THEN Root[all] ELSE 100

\* What graph keeps of the journal: every link, whenever it holds.
Replay(g) == g

Derived(g, n) == {l \in g.links : l.to = n /\ l.kind = "DERIVED_FROM"}

\* Nodes that may start a search: pages that are gone may not, nor their sources.
Document(g, n) ==
    /\ g.nodes[n].score > 0 /\ ~g.nodes[n].missing
    /\ g.nodes[n].managed => Derived(g, n) # {}

Seeds(g, q) ==
    LET eligible == {n \in DOMAIN g.nodes :
                       Document(g, n) /\ (g.nodes[n].managed => \E l \in Derived(g, n) : Valid(g, l))}
        Ahead(n) == {m \in eligible : \/ g.nodes[m].score > g.nodes[n].score
                                      \/ g.nodes[m].score = g.nodes[n].score /\ m < n}
    IN IF q.seed # None THEN {q.seed} ELSE {n \in eligible : Cardinality(Ahead(n)) < SeedLimit}

\* S in the strict order First.
Sorted(S, First(_, _)) ==
    [k \in 1..Cardinality(S) |-> CHOOSE x \in S : Cardinality({y \in S : First(y, x)}) = k - 1]

Point(n, score, depth) == [node |-> n, score |-> score, depth |-> depth]

\* The place of the first of the best in a sequence.
BestAt(s) ==
    CHOOSE i \in DOMAIN s : \A j \in DOMAIN s :
        \/ s[i].score > s[j].score
        \/ s[i].score = s[j].score /\ s[i].node < s[j].node
        \/ s[i].score = s[j].score /\ s[i].node = s[j].node /\ i <= j

\* Files that are there now.
There == {name \in Name : files[name] # Missing}

\* A name without a directory, as harvest kept it once, is that of the file in
\* the root or else of the one in the inbox, if either is there.
InferredBareFile(l, there) ==
    IF l.root \in there THEN [kind |-> "file", name |-> l.root]
    ELSE IF l.inbox \in there THEN [kind |-> "file", name |-> l.inbox]
    ELSE None

\* The source that a node names, with the files that are there at that time.
Locator(g, n, there) ==
    IF n \notin DOMAIN g.nodes THEN g.outside[n]
    ELSE LET l == g.nodes[n].locator
         IN IF l # None /\ l.kind = "bare" THEN InferredBareFile(l, there) ELSE l

\* The seeds, where the walk begins.
Start(g, q) ==
    LET seeds == Sorted(Seeds(g, q), <)
    IN [i \in DOMAIN seeds |-> Point(seeds[i], IF q.seed # None THEN 1000 ELSE g.nodes[seeds[i]].score, 0)]

\* A round of candidates: the best that is pending is visited, unless it was, and
\* the nodes next to it are pending from now on.
Round(g, q, w) ==
    LET at == BestAt(w.pending)
        point == w.pending[at]
        rest == RemoveAt(w.pending, at)
        old == {p.node : p \in ToSet(w.visited)}
        all == Adjacent(g, point.node)
        fresh == Sorted({s \in all : s.target \notin old \union {point.node}}, Before)
        room == Max({0, FrontierLimit - Len(rest)})
        next == [i \in 1..Min({room, Len(fresh)}) |->
                    Point(fresh[i].target, Carried(point.score, fresh[i], Cardinality(all)), point.depth + 1)]
    IN IF point.node \in old THEN [w EXCEPT !.pending = rest]
       ELSE IF point.depth >= q.maxDepth THEN
           [pending |-> rest, visited |-> Append(w.visited, point), limited |-> w.limited \/ fresh # << >>]
       ELSE [pending |-> rest \o next, visited |-> Append(w.visited, point),
             limited |-> w.limited \/ Len(fresh) > room]

\* No more rounds than this are made: each takes one point away, and those that
\* visit a node add no more than the frontier holds.
Rounds(g, q) == Cardinality(Seeds(g, q)) + q.maxNodes * FrontierLimit

\* Mutant of CutShort: what is still pending was not looked at.
CutShortByDepth(limited, pending) == limited
CutShort(limited, pending) == limited \/ pending # << >>

\* candidates: the nodes visited, and whether a bound cut the walk short.
Explore(g, q) ==
    LET walk[k \in 0..Rounds(g, q)] ==
            IF k = 0 THEN [pending |-> Start(g, q), visited |-> << >>, limited |-> FALSE]
            ELSE LET w == walk[k - 1]
                 IN IF w.pending = << >> \/ Len(w.visited) >= q.maxNodes THEN w ELSE Round(g, q, w)
        end == walk[Rounds(g, q)]
    IN [visited |-> end.visited, limited |-> CutShort(end.limited, end.pending)]

\* One candidate per locator, the best one.
Ahead(p, r) == p.score > r.score \/ (p.score = r.score /\ p.node < r.node)

Candidates(g, visited, there) ==
    LET named == {p \in ToSet(visited) : Locator(g, p.node, there) # None}
        first == {p \in named : \A r \in named :
                      Ahead(r, p) => Locator(g, r.node, there) # Locator(g, p.node, there)}
        sorted == Sorted(first, Ahead)
    IN [k \in DOMAIN sorted |-> [node |-> sorted[k].node, score |-> sorted[k].score,
                                 depth |-> sorted[k].depth, locator |-> Locator(g, sorted[k].node, there)]]

-----------------------------------------------------------------------------
(***************************************************************************)
(* Sources.                                                                *)
(***************************************************************************)
Version(name) == <<Len(files[name].content.passages), files[name].stamp>>

\* A short session identity stands for the only session that it begins.
Resolve(l) ==
    IF l.kind # "short" THEN l
    ELSE IF Cardinality(l.of) = 1 THEN [kind |-> "native", name |-> CHOOSE n \in l.of : TRUE]
    ELSE None

Allowance(remaining, others) == Min({Max({remaining \div (others + 1), 1}), remaining})

\* A partial reading serves only the budget it was made under.
Usable(r, allowance, q) ==
    \/ r.complete
    \/ r.maxBytes = allowance /\ r.maxRecords = q.maxRecords

Cached(loc, allowance, q) ==
    /\ ~q.refresh /\ loc \in DOMAIN heads
    /\ Usable(heads[loc], allowance, q)
    /\ files[loc.name] # Missing /\ Version(loc.name) = heads[loc].version

\* read_file and scan: a prefix of the source.  A document is parsed whole.
Bytes(loc, content, allowance, q) ==
    LET size == Min({Len(content.passages), allowance})
    IN IF loc.kind = "native" THEN Min({size, q.maxRecords}) ELSE size

Reading(loc, content, version, allowance, q) ==
    LET bytes == Bytes(loc, content, allowance, q)
        whole == IF loc.kind = "file" THEN bytes = version[1] ELSE bytes = Len(content.passages)
        count == IF loc.kind = "document" /\ ~whole THEN 0 ELSE Min({bytes, q.maxRecords})
        cut == loc.kind = "file" /\ bytes > q.maxRecords
        refs == IF loc.kind = "file" /\ whole /\ ~cut THEN content.refs ELSE {}
    IN [locator |-> loc, version |-> version, maxBytes |-> allowance, maxRecords |-> q.maxRecords,
        complete |-> whole /\ count = bytes, passages |-> SubSeq(content.passages, 1, count), refs |-> refs]

\* The passages that the query matches, with their ranks.
Matching(passages, q) == {i \in DOMAIN passages : passages[i].hit /\ q.role \in {None, passages[i].role}}

Hit(c, rank, passages, i) ==
    [node |-> c.node, line |-> i, text |-> passages[i].text,
     score |-> 1000000 \div (60 + rank)
               + 1000000 \div (61 + Cardinality({j \in 1..(i - 1) : passages[j].hit}))]

Better(h, k) ==
    \/ h.score > k.score
    \/ h.score = k.score /\ h.node < k.node
    \/ h.score = k.score /\ h.node = k.node /\ h.line < k.line

Best(hits, limit) == {h \in hits : Cardinality({k \in hits : Better(k, h)}) < limit}

\* The references of a source are followed in the order of their ids.
FirstId(ref, other) == ref.id < other.id

\* rank, success and enqueue_metadata.
Use(r, c, rec, spent) ==
    LET found == Matching(rec.passages, r.q)
        shown == {i \in found : ~rec.passages[i].secret}
        follow == rec.refs # {} /\ c.depth < r.q.maxDepth
        refs == Sorted(rec.refs, FirstId)
        room == Max({0, FrontierLimit - Len(r.pending)})
        more == [i \in 1..(IF follow THEN Min({room, Len(refs)}) ELSE 0) |->
                    [node |-> refs[i].id, score |-> (c.score * 90) \div 100, depth |-> c.depth + 1,
                     locator |-> refs[i].locator]]
    IN [r EXCEPT !.hits = Best(@ \union {Hit(c, r.attempted, rec.passages, i) : i \in shown}, r.q.limit),
                 !.matched = @ + Cardinality(found),
                 !.charged = @ + spent, !.measured = @ + spent,
                 !.limited = @ \/ ~rec.complete \/ Len(more) < Cardinality(rec.refs),
                 !.pending = @ \o more, !.stage = "next", !.at = None]

\* A failure that may have read anything is charged all it was allowed.
Fail(r, allowance, known) ==
    [r EXCEPT !.charged = @ + IF known THEN 0 ELSE allowance,
              !.unknown = @ \/ ~known, !.limited = TRUE, !.stage = "next", !.at = None]

-----------------------------------------------------------------------------
Init ==
    /\ graph \in Journal /\ now = 0
    /\ files \in [Name -> [content : Content, stamp : {0}]]
    /\ graphs = {} /\ kept = {} /\ heads = << >>
    /\ run = None /\ output = None /\ expanded = None
    /\ held = [n \in Name |-> {}] /\ restamped = {}
    /\ edits = 0 /\ searches = 0

\* The journal is read once, or its replay is found among those kept, and the walk
\* asks for each bare name whether there is such a file.
Begin(q) ==
    LET found == {k \in graphs : k.of = graph}
        known == found # {} /\ ~q.refresh
        g == IF known THEN (CHOOSE k \in found : TRUE).replay ELSE Replay(graph)
        walk == Explore(g, q)
    IN
    /\ run = None /\ searches < MaxSearch
    /\ q.seed # None => q.seed \in DOMAIN graph.nodes
    /\ graphs' = {k \in graphs : k.of # graph} \union {[of |-> graph, replay |-> g]}
    /\ run' = [q |-> q, graph |-> graph, now |-> now, there |-> There,
               pending |-> Candidates(g, walk.visited, There),
               limited |-> walk.limited \/ \A n \in DOMAIN g.nodes : ~g.nodes[n].wiki,
               seen |-> {}, attempted |-> 0, charged |-> 0, measured |-> 0, unknown |-> FALSE,
               read |-> 0, matched |-> 0, hits |-> {}, stage |-> "next", at |-> None]
    /\ held' = [n \in Name |-> {files[n]} \ {Missing}]
    /\ searches' = searches + 1 /\ output' = None /\ expanded' = None
    /\ UNCHANGED <<graph, now, files, kept, heads, restamped, edits>>

\* The best pending candidate, when it has nothing to be read.
Pass ==
    /\ run # None /\ run.stage = "next" /\ run.pending # << >>
    /\ LET at == BestAt(run.pending)
           rest == RemoveAt(run.pending, at)
           c == run.pending[at]
           loc == Resolve(c.locator)
           remote == c.locator.kind = "url"
       IN /\ \/ remote
             \/ run.attempted < run.q.maxSources /\ (loc = None \/ loc \in run.seen)
          /\ run' = [run EXCEPT !.pending = rest, !.limited = @ \/ remote \/ loc = None,
                                !.attempted = @ + IF ~remote /\ loc = None THEN 1 ELSE 0]
    /\ UNCHANGED <<graph, now, files, cacheVars, output, expanded, held, restamped, edits, searches>>

\* The best pending candidate is looked up, or its source is examined before it
\* is read.
Take ==
    /\ run # None /\ run.stage = "next" /\ run.pending # << >>
    /\ LET at == BestAt(run.pending)
           rest == RemoveAt(run.pending, at)
           c == run.pending[at]
           loc == Resolve(c.locator)
           allowance == Allowance(Max({0, run.q.maxBytes - run.charged}), Len(rest))
           r == [run EXCEPT !.pending = rest, !.seen = @ \union {loc}, !.attempted = @ + 1]
       IN /\ c.locator.kind # "url" /\ loc \notin run.seen \union {None}
          /\ run.attempted < run.q.maxSources
          /\ run' = IF Cached(loc, allowance, run.q) THEN Use(r, c, heads[loc], 0)
                    ELSE IF allowance = 0 THEN Fail(r, allowance, TRUE)
                    ELSE IF files[loc.name] = Missing THEN Fail(r, allowance, loc.kind = "file")
                    ELSE [r EXCEPT !.stage = "open",
                                   !.at = [c |-> c, locator |-> loc, allowance |-> allowance,
                                           version |-> Version(loc.name), content |-> None]]
    /\ UNCHANGED <<graph, now, files, cacheVars, output, expanded, held, restamped, edits, searches>>

ReadSource ==
    /\ run # None /\ run.stage = "open"
    /\ LET name == run.at.locator.name
           content == files[name].content
           bytes == Bytes(run.at.locator, content, run.at.allowance, run.q)
       IN run' = IF files[name] = Missing THEN Fail(run, run.at.allowance, FALSE)
                 ELSE IF ~content.sound THEN Fail([run EXCEPT !.read = @ + bytes], run.at.allowance, FALSE)
                 ELSE [run EXCEPT !.stage = "read", !.at.content = content, !.read = @ + bytes]
    /\ UNCHANGED <<graph, now, files, cacheVars, output, expanded, held, restamped, edits, searches>>

Unchanged(at) == files[at.locator.name] # Missing /\ Version(at.locator.name) = at.version

\* The source is examined again, and what was read is kept and used.
Persist ==
    /\ run # None /\ run.stage = "read"
    /\ LET at == run.at
           rec == Reading(at.locator, at.content, at.version, at.allowance, run.q)
       IN IF Unchanged(at) THEN
              /\ run' = Use(run, at.c, rec, Bytes(at.locator, at.content, at.allowance, run.q))
              /\ kept' = kept \union {rec}
              /\ heads' = [loc \in DOMAIN heads \union {at.locator} |->
                              IF loc = at.locator THEN rec ELSE heads[loc]]
          ELSE /\ run' = Fail(run, at.allowance, FALSE)
               /\ UNCHANGED <<kept, heads>>
    /\ UNCHANGED <<graph, now, files, graphs, output, expanded, held, restamped, edits, searches>>

\* Nothing is pending, or the next candidate is one source too many.
Finish ==
    /\ run # None /\ run.stage = "next"
    /\ run.pending # << >> =>
          run.attempted >= run.q.maxSources /\ run.pending[BestAt(run.pending)].locator.kind # "url"
    /\ output' = [run EXCEPT !.limited = @ \/ run.pending # << >>]
    /\ run' = None
    /\ UNCHANGED <<graph, now, files, cacheVars, expanded, held, restamped, edits, searches>>

\* expand: the bytes at the place of a kept passage, when they are still the same.
SameText(passage, i, name) ==
    /\ i \in DOMAIN files[name].content.passages
    /\ files[name].content.passages[i].text = passage.text

Expand(rec, i) ==
    LET passage == rec.passages[i]
        name == rec.locator.name
    IN
    /\ run = None /\ expanded = None /\ output # None
    /\ files[name] # Missing /\ SameText(passage, i, name)
    /\ ~files[name].content.passages[i].secret
    /\ expanded' = [quoted |-> passage, text |-> files[name].content.passages[i].text]
    /\ UNCHANGED <<graph, now, files, cacheVars, run, output, held, restamped, edits, searches>>

\* Another program writes, removes or restores a source.
Edit(name, content) ==
    /\ edits < MaxEdit /\ edits' = edits + 1
    /\ \E stamp \in {edits + 1, IF files[name] = Missing THEN 0 ELSE files[name].stamp} :
          /\ files' = [files EXCEPT ![name] = [content |-> content, stamp |-> stamp]]
          /\ files' # files
          /\ held' = [held EXCEPT ![name] = @ \union {files'[name]}]
          /\ restamped' = IF stamp = edits + 1 THEN restamped ELSE restamped \union {name}
    /\ UNCHANGED <<graph, now, cacheVars, run, output, expanded, searches>>

Delete(name) ==
    /\ edits < MaxEdit /\ edits' = edits + 1
    /\ files[name] # Missing /\ files' = [files EXCEPT ![name] = Missing]
    /\ UNCHANGED <<graph, now, cacheVars, run, output, expanded, held, restamped, searches>>

\* Time passes, or the journal grows, between two searches.
Later ==
    /\ run = None /\ now < MaxNow /\ now' = now + 1
    /\ graph' \in Journal
    /\ UNCHANGED <<files, cacheVars, run, output, expanded, held, restamped, edits, searches>>

Next ==
    \/ \E q \in Question : Begin(q)
    \/ Pass \/ Take \/ ReadSource \/ Persist \/ Finish \/ Later
    \/ \E rec \in kept : \E i \in DOMAIN rec.passages : Expand(rec, i)
    \/ \E name \in Name : Delete(name) \/ \E content \in Content : Edit(name, content)

Spec == Init /\ [][Next]_vars

-----------------------------------------------------------------------------
\* The links that hold at a time, and the nodes that they connect.
Holding(g, at) ==
    {l \in g.links : /\ l.since <= at /\ (l.until = None \/ at <= l.until) /\ l.sound
                     /\ l.from \in DOMAIN g.nodes
                     /\ l.to \in DOMAIN g.nodes \union DOMAIN g.outside}

ClosedUnder(links, nodes) ==
    \A l \in links : /\ Weight(l.kind, FALSE) > 0 /\ l.from \in nodes => l.to \in nodes
                     /\ Weight(l.kind, TRUE) > 0 /\ l.to \in nodes => l.from \in nodes

\* Where the links that hold lead to, however far.
Reached(g, at, nodes) ==
    LET all == DOMAIN g.nodes \union DOMAIN g.outside
    IN {n \in all : \A X \in SUBSET all : nodes \subseteq X /\ ClosedUnder(Holding(g, at), X) => n \in X}

\* What a question matches: nodes that are there, and what a page derives from.
Matched(g, at, q) ==
    IF q.seed # None THEN {q.seed}
    ELSE {n \in DOMAIN g.nodes :
             /\ g.nodes[n].score > 0 /\ ~g.nodes[n].missing
             /\ g.nodes[n].managed => \E l \in Holding(g, at) : l.to = n /\ l.kind = "DERIVED_FROM"}

\* What a file holds is quoted as far as the question asks for it.
Quoted(out, content) ==
    \A i \in Matching(content.passages, out.q) :
        content.passages[i].secret \/ \E h \in out.hits : h.line = i /\ h.text = content.passages[i].text

\* Some content that the source had since the search began is quoted, and so are
\* the sources that it names.
Covered(out, locator) ==
    LET loc == Resolve(locator)
    IN /\ loc # None /\ locator.kind # "url"
       /\ \E f \in held[loc.name] :
             /\ Quoted(out, f.content)
             /\ loc.kind = "file" => \A ref \in f.content.refs :
                   \E g \in held[Resolve(ref.locator).name] : Quoted(out, g.content)

\* A search that reports its coverage as complete has looked at every source
\* that the links of the journal lead to at that time, from what is in the
\* files and not from what is kept of them (coverage, "limitations and
\* unavailable sources are explicit"), unless there were more seeds than it
\* takes, or a file changed and has its old size and time.  A bare name whose
\* file was gone when the search began is no source: the search neither looks
\* for it nor says so, and may still call its coverage complete.
CompleteIsComplete ==
    (output # None /\ ~output.limited /\ output.matched <= output.q.limit /\ restamped = {}) =>
        LET g == output.graph
            at == output.now
            seeds == Matched(g, at, output.q)
        IN Cardinality(seeds) <= SeedLimit =>
           \A n \in Reached(g, at, seeds) :
              LET l == Locator(g, n, output.there)
              IN l # None => Covered(output, l)

\* Whatever fails, a search reads no more than it may, and the bytes that it
\* reports are those that it read (retrieve, failure: "conservatively charges
\* the remaining allowance").
BudgetKept ==
    \A r \in {run, output} \ {None} :
        /\ r.charged <= r.q.maxBytes
        /\ r.stage = "next" => r.read <= r.charged /\ (~r.unknown => r.measured = r.read)

\* What expand returns is what was quoted (expand, "rejects a changed record").
ExpandedAsQuoted == expanded # None => expanded.text = expanded.quoted.text

TraceIsHonest == CompleteIsComplete /\ BudgetKept /\ ExpandedAsQuoted
================================================================================
