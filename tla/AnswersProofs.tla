----------------------------- MODULE AnswersProofs -----------------------------
(***************************************************************************)
(* Proofs about Answers: what the components that answer questions promise *)
(* for any graph, requests and limits, see AnswersAssumption.              *)
(***************************************************************************)
EXTENDS Answers, SearchProofs

-----------------------------------------------------------------------------
(***************************************************************************)
(* TaskEntry: the rows of each page are a run of the candidates, so that the*)
(* pages show all of them, and what is "ready" has one approved baseline.  *)
(***************************************************************************)

\* TaskEntry counts, as FiniteSets does.
LEMMA SameCount == ASSUME NEW S PROVE K!Cardinality(S) = Cardinality(S)
BY DEF Cardinality, K!Cardinality

\* The places of the entries of a list: those of positions, in their order.
LEMMA AtIs ==
    ASSUME NEW list, NEW S \in SUBSET Nat, IsFiniteSet(S)
    PROVE  /\ Cardinality(S) \in Nat
           /\ K!At(list, S) = [k \in 1 .. Cardinality(S) |-> K!At(list, S)[k]]
           /\ \A i \in S : \E k \in 1 .. Cardinality(S) : K!At(list, S)[k] = list[i]
<1> DEFINE before == {p \in S \X S : p[1] < p[2]}
           place == [k \in 1 .. Cardinality(S) |->
                        CHOOSE x \in S : Cardinality(Lower(S, before, x)) = k - 1]
<1>1. Cardinality(S) \in Nat
  BY FS_CardinalityType
<1>2. K!At(list, S) = [k \in 1 .. Cardinality(S) |-> list[place[k]]]
  <2>1. \A x \in S : Lower(S, before, x) = {y \in S : y < x}
    BY DEF Lower
  <2>2. \A k \in 1 .. Cardinality(S) :
           place[k] = (CHOOSE x \in S : K!Cardinality({y \in S : y < x}) = k - 1)
    BY <2>1, SameCount
  <2>3. K!At(list, S) =
          [k \in 1 .. K!Cardinality(S) |->
              list[[j \in 1 .. K!Cardinality(S) |->
                      CHOOSE x \in S : K!Cardinality({y \in S : y < x}) = j - 1][k]]]
    BY DEF K!At, K!Ordered
  <2> HIDE DEF place
  <2> QED
    BY <2>2, <2>3, SameCount
<1>3. Ranks(S, before)
  BY DEF Ranks
<1>4. \A i \in S : \E k \in 1 .. Cardinality(S) : place[k] = i
  <2> HIDE DEF before
  <2> QED
    BY <1>3, OrderedHas
<1> HIDE DEF place
<1> QED
  BY <1>1, <1>2, <1>4

\* Sorting: what is listed earlier comes before what is listed later.
LEMMA ListRises ==
    ASSUME NEW X, IsFiniteSet(X), NEW before, Ranks(X, before),
           NEW j \in 1 .. Cardinality(X), NEW k \in 1 .. Cardinality(X), j < k
    PROVE  /\ ListOf(X, before)[j] \in X /\ ListOf(X, before)[k] \in X
           /\ <<ListOf(X, before)[j], ListOf(X, before)[k]>> \in before
<1>1. PICK x \in X : x = ListOf(X, before)[j] /\ Cardinality(Lower(X, before, x)) = j - 1
  BY PlaceIsTaken DEF ListOf
<1>2. PICK y \in X : y = ListOf(X, before)[k] /\ Cardinality(Lower(X, before, y)) = k - 1
  BY PlaceIsTaken DEF ListOf
<1>3. Cardinality(X) \in Nat
  BY FS_CardinalityType
<1>4. x # y
  BY <1>1, <1>2, <1>3
<1>5. <<y, x>> \notin before
  <2>1. <<y, x>> \in before => Cardinality(Lower(X, before, y)) < Cardinality(Lower(X, before, x))
    BY RankIsLess
  <2> QED
    BY <1>1, <1>2, <1>3, <2>1
<1> QED
  BY <1>1, <1>2, <1>4, <1>5 DEF Ranks

\* The entries of a list at some places: each is one of them, in their order.
LEMMA AtPlaces ==
    ASSUME NEW list, NEW S \in SUBSET Nat, IsFiniteSet(S)
    PROVE  \E at \in [1 .. Cardinality(S) -> S] :
              /\ K!At(list, S) = [k \in 1 .. Cardinality(S) |-> list[at[k]]]
              /\ \A j, k \in 1 .. Cardinality(S) : j < k => at[j] < at[k]
<1> DEFINE at == ListOf(S, NumberOrder(S))
           Place(k) == CHOOSE x \in S : Cardinality(Lower(S, NumberOrder(S), x)) = k - 1
<1>1. Ranks(S, NumberOrder(S))
  BY NumbersRank
<1>2. Cardinality(S) \in Nat /\ at \in [1 .. Cardinality(S) -> S]
  BY <1>1, ListOfIs
<1>3. \A j, k \in 1 .. Cardinality(S) : j < k => at[j] < at[k]
  <2> TAKE j, k \in 1 .. Cardinality(S)
  <2>1. j < k => <<at[j], at[k]>> \in NumberOrder(S)
    BY <1>1, ListRises
  <2> HIDE DEF at
  <2> QED
    BY <2>1 DEF NumberOrder
<1>4. \A k : Place(k) = (CHOOSE x \in S : K!Cardinality({y \in S : y < x}) = k - 1)
  <2>1. \A x \in S : Lower(S, NumberOrder(S), x) = {y \in S : y < x}
    BY DEF Lower, NumberOrder
  <2> QED
    BY <2>1, SameCount
<1>5. \A k \in 1 .. Cardinality(S) : at[k] = Place(k)
  BY DEF ListOf
<1>6. K!At(list, S) =
        [k \in 1 .. K!Cardinality(S) |->
            list[[j \in 1 .. K!Cardinality(S) |->
                    CHOOSE x \in S : K!Cardinality({y \in S : y < x}) = j - 1][k]]]
  BY DEF K!At, K!Ordered
<1> HIDE DEF Place, at
<1>7. K!At(list, S) = [k \in 1 .. Cardinality(S) |-> list[at[k]]]
  BY <1>4, <1>5, <1>6, SameCount
<1> QED
  BY <1>2, <1>3, <1>7

\* A leading run of positions is a run of entries.
LEMMA AtRun ==
    ASSUME NEW list, NEW m \in Nat
    PROVE  K!At(list, 1 .. m) = [k \in 1 .. m |-> list[k]]
<1>1. \A n \in 0 .. m : IsFiniteSet(1 .. n) /\ Cardinality(1 .. n) = n
  BY FS_Interval
<1>2. \A x \in 1 .. m : {y \in 1 .. m : y < x} = 1 .. x - 1
  OBVIOUS
<1>3. ASSUME NEW x \in 1 .. m PROVE K!Cardinality({y \in 1 .. m : y < x}) = x - 1
  <2>1. x - 1 \in 0 .. m
    OBVIOUS
  <2>2. Cardinality(1 .. x - 1) = x - 1
    BY <1>1, <2>1
  <2>3. K!Cardinality(1 .. x - 1) = Cardinality(1 .. x - 1)
    BY SameCount
  <2> QED
    BY <1>2, <2>2, <2>3
<1>4. \A k \in 1 .. m : (CHOOSE x \in 1 .. m : K!Cardinality({y \in 1 .. m : y < x}) = k - 1) = k
  <2> TAKE k \in 1 .. m
  <2>1. \A x \in 1 .. m : K!Cardinality({y \in 1 .. m : y < x}) = k - 1 <=> x = k
    BY <1>3
  <2> DEFINE Is(x) == K!Cardinality({y \in 1 .. m : y < x}) = k - 1
  <2>2. (CHOOSE x \in 1 .. m : Is(x)) = k
    <3> HIDE DEF Is
    <3>1. \A x \in 1 .. m : Is(x) <=> x = k
      BY <2>1 DEF Is
    <3> QED
      BY <3>1
  <2> QED
    BY <2>2
<1>5. K!Cardinality(1 .. m) = m
  BY <1>1, SameCount
<1>6. K!At(list, 1 .. m) =
          [k \in 1 .. m |->
              list[[j \in 1 .. m |->
                      CHOOSE x \in 1 .. m : K!Cardinality({y \in 1 .. m : y < x}) = j - 1][k]]]
  BY <1>5 DEF K!At, K!Ordered
<1> QED
  BY <1>4, <1>6

\* Lists, as TaskEntry makes them.
IsList(s) == \E n \in Nat : s = [k \in 1 .. n |-> s[k]]

\* What every list of rows is: as long as its domain.
LEMMA ListIs == ASSUME NEW s, IsList(s) PROVE Len(s) \in Nat /\ DOMAIN s = 1 .. Len(s)
BY DEF IsList

\* fold_documents: the documents of a list, each where it comes first.
FirstDocuments(g, list) ==
    K!Firsts(list, LAMBDA x, y : K!SameDocument(g.nodes[x.node], g.nodes[y.node]))

FirstPlaces(g, list) ==
    {k \in DOMAIN list :
        ~\E j \in 1 .. k - 1 : K!SameDocument(g.nodes[list[j].node], g.nodes[list[k].node])}

\* fold_documents: the places kept are those of no earlier copy.
LEMMA FirstsAre ==
    ASSUME NEW g, NEW list, IsList(list)
    PROVE  /\ FirstDocuments(g, list) = K!At(list, FirstPlaces(g, list))
           /\ FirstPlaces(g, list) \in SUBSET Nat /\ IsFiniteSet(FirstPlaces(g, list))
           /\ IsList(FirstDocuments(g, list))
<1>1. FirstDocuments(g, list) = K!At(list, FirstPlaces(g, list))
  BY DEF FirstDocuments, FirstPlaces, K!Firsts
<1>2. FirstPlaces(g, list) \in SUBSET Nat /\ IsFiniteSet(FirstPlaces(g, list))
  <2>1. DOMAIN list = 1 .. Len(list) /\ IsFiniteSet(1 .. Len(list))
    BY ListIs, FS_Interval
  <2>2. FirstPlaces(g, list) \subseteq 1 .. Len(list)
    BY <2>1 DEF FirstPlaces
  <2> QED
    BY <2>1, <2>2, FS_Subset
<1>3. IsList(FirstDocuments(g, list))
  <2>1. PICK S \in SUBSET Nat : S = FirstPlaces(g, list) /\ IsFiniteSet(S)
    BY <1>2
  <2>2. Cardinality(S) \in Nat /\ K!At(list, S) = [k \in 1 .. Cardinality(S) |-> K!At(list, S)[k]]
    BY <2>1, AtIs
  <2> QED
    BY <1>1, <2>1, <2>2 DEF IsList
<1> QED
  BY <1>1, <1>2, <1>3

\* fold_documents: a document, or the same one, is kept.
LEMMA FirstsHave ==
    ASSUME NEW g, NEW list, IsList(list), NEW i \in DOMAIN list
    PROVE  \E k \in DOMAIN FirstDocuments(g, list) :
              \/ FirstDocuments(g, list)[k] = list[i]
              \/ K!SameDocument(g.nodes[FirstDocuments(g, list)[k].node], g.nodes[list[i].node])
<1> DEFINE Same(j, k) == K!SameDocument(g.nodes[list[j].node], g.nodes[list[k].node])
           back == {j \in DOMAIN list : j = i \/ Same(j, i)}
<1>1. Len(list) \in Nat /\ DOMAIN list = 1 .. Len(list)
  BY ListIs
<1>2. PICK j \in back : \A k \in back : j <= k
  <2>1. back \in SUBSET Nat /\ i \in back
    BY <1>1
  <2> HIDE DEF back
  <2> QED
    BY <2>1, LeastNat
<1>3. j \in FirstPlaces(g, list)
  <2> SUFFICES ASSUME NEW h \in 1 .. j - 1, Same(h, j) PROVE FALSE
    BY <1>1 DEF FirstPlaces
  <2>1. Same(h, i)
    BY <1>2 DEF K!SameDocument
  <2>2. h \in back
    BY <1>1, <2>1
  <2> QED
    BY <1>1, <1>2, <2>2
<1>4. PICK k \in DOMAIN FirstDocuments(g, list) : FirstDocuments(g, list)[k] = list[j]
  BY <1>3, FirstsAre, AtIs
<1>5. list[j] = list[i] \/ Same(j, i)
  BY <1>2
<1> QED
  BY <1>4, <1>5

\* Candidates in a list: nodes with their scores, no later one with a better score.
BestFirst(g, list) ==
    /\ IsList(list)
    /\ \A k \in DOMAIN list : list[k].node \in DOMAIN g.nodes /\ list[k].score \in Nat
    /\ \A j, k \in DOMAIN list : j < k => list[j].score >= list[k].score

\* Some of the candidates, in their order.
LEMMA AtBest ==
    ASSUME NEW g, NEW list, BestFirst(g, list), NEW S \in SUBSET DOMAIN list
    PROVE  BestFirst(g, K!At(list, S))
<1>1. IsList(list) /\ DOMAIN list = 1 .. Len(list) /\ Len(list) \in Nat
  BY ListIs DEF BestFirst
<1>2. S \in SUBSET Nat /\ IsFiniteSet(S)
  <2>1. IsFiniteSet(1 .. Len(list)) /\ S \subseteq 1 .. Len(list)
    BY <1>1, FS_Interval
  <2> QED
    BY <2>1, FS_Subset
<1>3. PICK at \in [1 .. Cardinality(S) -> S] :
          /\ K!At(list, S) = [k \in 1 .. Cardinality(S) |-> list[at[k]]]
          /\ \A j, k \in 1 .. Cardinality(S) : j < k => at[j] < at[k]
  BY <1>2, AtPlaces
<1>4. PICK n \in Nat : n = Cardinality(S)
  BY <1>2, FS_CardinalityType
<1>5. PICK some : some = K!At(list, S)
  OBVIOUS
<1>6. some = [k \in 1 .. n |-> list[at[k]]] /\ at \in [1 .. n -> S]
  BY <1>3, <1>4, <1>5
<1>7. IsList(some) /\ DOMAIN some = 1 .. n
  BY <1>6 DEF IsList
<1>8. \A k \in 1 .. n : some[k].node \in DOMAIN g.nodes /\ some[k].score \in Nat
  BY <1>6 DEF BestFirst
<1>9. \A j, k \in 1 .. n : j < k => some[j].score >= some[k].score
  <2> TAKE j, k \in 1 .. n
  <2>1. at[j] \in DOMAIN list /\ at[k] \in DOMAIN list /\ (j < k => at[j] < at[k])
    BY <1>3, <1>4, <1>6
  <2>2. some[j] = list[at[j]] /\ some[k] = list[at[k]]
    BY <1>6
  <2> QED
    BY <2>1, <2>2 DEF BestFirst
<1> QED
  BY <1>5, <1>7, <1>8, <1>9 DEF BestFirst

\* The first candidates of a list.
LEMMA LeadingBest ==
    ASSUME NEW g, NEW list, BestFirst(g, list), NEW n \in Nat
    PROVE  BestFirst(g, K!Leading(list, n))
<1>1. IsList(list) /\ DOMAIN list = 1 .. Len(list) /\ Len(list) \in Nat
  BY ListIs DEF BestFirst
<1>2. PICK m \in Nat : m = K!Min({n, Len(list)}) /\ m <= Len(list)
  <2>1. K!Min({n, Len(list)}) \in Nat /\ K!Min({n, Len(list)}) <= Len(list)
    BY <1>1 DEF K!Min
  <2> QED
    BY <2>1
<1>3. PICK some : some = K!Leading(list, n)
  OBVIOUS
<1>4. some = [k \in 1 .. m |-> list[k]] /\ 1 .. m \subseteq DOMAIN list
  BY <1>1, <1>2, <1>3 DEF K!Leading
<1>5. IsList(some) /\ DOMAIN some = 1 .. m /\ \A k \in 1 .. m : some[k] = list[k]
  BY <1>4 DEF IsList
<1> QED
  BY <1>3, <1>4, <1>5 DEF BestFirst

\* ranked_candidates: in their order the best are first.
LEMMA InOrderBest ==
    ASSUME NEW g, DOMAIN g.nodes \subseteq Nat, NEW S, IsFiniteSet(S),
           \A x \in S : x.node \in DOMAIN g.nodes /\ x.score \in Nat,
           \A x, y \in S : x.node = y.node => x = y
    PROVE  BestFirst(g, K!InOrder(S))
<1> DEFINE Prior(x, y) == x.score > y.score \/ (x.score = y.score /\ x.node < y.node)
           before == {p \in S \X S : Prior(p[1], p[2])}
           Place(k) == CHOOSE x \in S : K!Cardinality({y \in S : Prior(y, x)}) = k - 1
<1>1. Ranks(S, before)
  BY DEF Ranks
<1>2. \A x \in S : Lower(S, before, x) = {y \in S : Prior(y, x)}
  BY DEF Lower
<1>3. K!InOrder(S) = [k \in 1 .. K!Cardinality(S) |-> Place(k)]
  BY DEF K!InOrder, K!Ordered
<1>4. \A x \in S : K!Cardinality({y \in S : Prior(y, x)}) = Cardinality(Lower(S, before, x))
  BY <1>2, SameCount
<1>5. ListOf(S, before) = [k \in 1 .. K!Cardinality(S) |-> Place(k)]
  <2> HIDE DEF before, Prior
  <2> QED
    BY <1>4, SameCount DEF ListOf
<1>6. PICK list : list = K!InOrder(S) /\ list = ListOf(S, before)
  <2> HIDE DEF before, Place
  <2> QED
    BY <1>3, <1>5
<1>7. PICK n \in Nat : n = Cardinality(S) /\ list \in Seq(S) /\ Len(list) = n /\ DOMAIN list = 1 .. n
  <2> HIDE DEF before, Place
  <2> QED
    BY <1>1, <1>6, ListOfIs
<1>8. \A j, k \in 1 .. n : j < k => list[j].score >= list[k].score
  <2> TAKE j, k \in 1 .. n
  <2>1. j < k => list[j] \in S /\ list[k] \in S /\ <<list[j], list[k]>> \in before
    <3> HIDE DEF before, Place
    <3> QED
      BY <1>1, <1>6, <1>7, ListRises
  <2> QED
    BY <2>1
<1>9. IsList(list) /\ \A k \in 1 .. n : list[k] \in S
  BY <1>7 DEF IsList
<1> HIDE DEF before, Place
<1> QED
  BY <1>6, <1>7, <1>8, <1>9 DEF BestFirst

\* A graph of TaskEntry: so many nodes, each with a score.
LEMMA GraphNodes ==
    ASSUME NEW g \in TaskGraph
    PROVE  \E n \in Nat : /\ K!Nodes(g) = 1 .. n /\ IsFiniteSet(K!Nodes(g))
                          /\ \A i \in 1 .. n : g.nodes[i].score \in Nat /\ g.nodes[i].cost \in Nat \ {0}
<1> DEFINE Is(i) == g.nodes[i].score \in Nat /\ g.nodes[i].cost \in Nat \ {0}
<1>1. \E n \in Nat : DOMAIN g.nodes = 1 .. n /\ \A i \in 1 .. n : Is(i)
  BY AnswersAssumption DEF K!TaskAssumption
<1>2. PICK n \in Nat : DOMAIN g.nodes = 1 .. n /\ \A i \in 1 .. n : Is(i)
  BY <1>1
<1>3. IsFiniteSet(1 .. n)
  BY FS_Interval
<1> QED
  BY <1>2, <1>3 DEF K!Nodes

\* A request: its limits are counts, and so is what its terms weigh.
LEMMA RequestIs ==
    ASSUME NEW q \in TaskRequest
    PROVE  /\ q.limit \in Nat /\ q.budget \in Nat \union {Unset} /\ q.base \in Nat /\ q.short \in Nat
           /\ \A S \in (SUBSET q.terms) \union (SUBSET q.identities) :
                /\ K!Weight(q, S) \in Nat
                /\ S # {} => K!Weight(q, S) # 0
<1>1. /\ q.limit \in Nat /\ q.budget \in Nat \union {Unset} /\ q.base \in Nat /\ q.short \in Nat
      /\ K!IsFiniteSet(q.terms) /\ K!IsFiniteSet(q.identities)
      /\ \A t \in q.terms \union q.identities : q.weight[t] \in Nat \ {0}
  BY AnswersAssumption DEF K!TaskAssumption
<1>2. IsFiniteSet(q.terms) /\ IsFiniteSet(q.identities)
  BY <1>1 DEF IsFiniteSet, K!IsFiniteSet
<1>3. ASSUME NEW S \in (SUBSET q.terms) \union (SUBSET q.identities)
      PROVE  K!Weight(q, S) \in Nat /\ (S # {} => K!Weight(q, S) # 0)
  <2> DEFINE Units(t) == {t} \X (1 .. q.weight[t])
             all == {Units(t) : t \in S}
  <2>1. IsFiniteSet(S) /\ \A t \in S : q.weight[t] \in Nat \ {0}
    <3>1. S \subseteq q.terms \/ S \subseteq q.identities
      BY <1>3
    <3> QED
      BY <1>1, <1>2, <3>1, FS_Subset
  <2>2. \A t \in S : IsFiniteSet(Units(t)) /\ <<t, 1>> \in Units(t)
    <3> TAKE t \in S
    <3>1. IsFiniteSet(1 .. q.weight[t]) /\ 1 \in 1 .. q.weight[t]
      BY <2>1, FS_Interval
    <3>2. IsFiniteSet({t})
      BY FS_Singleton
    <3> QED
      BY <3>1, <3>2, FS_Product
  <2>3. IsFiniteSet(all)
    <3>1. [t \in S |-> Units(t)] \in Surjection(S, all)
      BY DEF Surjection
    <3> HIDE DEF all, Units
    <3> QED
      BY <2>1, <3>1, FS_Surjection
  <2>4. \A T \in all : IsFiniteSet(T)
    BY <2>2
  <2>5. IsFiniteSet(UNION all)
    <3> HIDE DEF all
    <3> QED
      BY <2>3, <2>4, FS_UNION
  <2>6. K!Weight(q, S) = Cardinality(UNION all)
    BY SameCount DEF K!Weight
  <2>7. S # {} => UNION all # {}
    <3> SUFFICES ASSUME NEW t \in S PROVE UNION all # {}
      OBVIOUS
    <3>1. Units(t) \in all /\ <<t, 1>> \in Units(t)
      BY <2>2
    <3> HIDE DEF all, Units
    <3> QED
      BY <3>1
  <2> HIDE DEF all
  <2> QED
    BY <2>5, <2>6, <2>7, FS_CardinalityType, FS_EmptySet
<1> QED
  BY <1>1, <1>3

\* ranked_candidates: the best first, and each has its place.
LEMMA InOrderHas ==
    ASSUME NEW S, IsFiniteSet(S), NEW c \in S,
           \A x \in S : x.node \in Nat /\ x.score \in Nat,
           \A x, y \in S : x.node = y.node => x = y
    PROVE  \E k \in DOMAIN K!InOrder(S) : K!InOrder(S)[k] = c
<1> DEFINE Prior(x, y) == x.score > y.score \/ (x.score = y.score /\ x.node < y.node)
           before == {p \in S \X S : Prior(p[1], p[2])}
<1>1. Ranks(S, before)
  BY DEF Ranks
<1>2. PICK k \in 1 .. Cardinality(S) :
          (CHOOSE x \in S : Cardinality(Lower(S, before, x)) = k - 1) = c
  <2> HIDE DEF before
  <2> QED
    BY <1>1, OrderedHas
<1>3. \A x \in S : Lower(S, before, x) = {y \in S : Prior(y, x)}
  BY DEF Lower
<1>4. (CHOOSE x \in S : Cardinality(Lower(S, before, x)) = k - 1)
      = (CHOOSE x \in S : K!Cardinality({y \in S : Prior(y, x)}) = k - 1)
  BY <1>3, SameCount
<1>5. K!InOrder(S) =
        [j \in 1 .. K!Cardinality(S) |-> CHOOSE x \in S : K!Cardinality({y \in S : Prior(y, x)}) = j - 1]
  BY DEF K!InOrder, K!Ordered
<1>6. K!Cardinality(S) = Cardinality(S)
  BY SameCount
<1> HIDE DEF before, Prior
<1> QED
  BY <1>2, <1>4, <1>5, <1>6

\* A node that matches is a candidate, and there are finitely many.
LEMMA MatchesAre ==
    ASSUME NEW g \in TaskGraph, NEW q
    PROVE  /\ IsFiniteSet(K!Matches(g, q))
           /\ \A x \in K!Matches(g, q) : x.node \in DOMAIN g.nodes /\ x.node \in Nat /\ x.score \in Nat
           /\ \A x, y \in K!Matches(g, q) : x.node = y.node => x = y
<1>1. PICK n \in Nat : /\ K!Nodes(g) = 1 .. n /\ IsFiniteSet(K!Nodes(g))
                       /\ \A i \in 1 .. n : g.nodes[i].score \in Nat
  BY GraphNodes
<1> DEFINE At(i) == [node |-> i, score |-> K!Score(g.nodes[i], q)]
           some == {j \in K!Nodes(g) : K!ByFts(g.nodes[j], q) \/ K!ByLiteral(g.nodes[j], q)}
<1>2. K!Matches(g, q) = {At(i) : i \in some}
  BY DEF K!Matches
<1>3. IsFiniteSet(some)
  BY <1>1, FS_Subset
<1>4. \A i \in some : i \in DOMAIN g.nodes /\ i \in Nat /\ K!Score(g.nodes[i], q) \in Nat
  BY <1>1 DEF K!Score, K!Nodes
<1>5. IsFiniteSet({At(i) : i \in some})
  <2>1. [i \in some |-> At(i)] \in Surjection(some, {At(i) : i \in some})
    BY DEF Surjection
  <2> HIDE DEF some, At
  <2> QED
    BY <1>3, <2>1, FS_Surjection
<1> HIDE DEF some
<1> QED
  BY <1>2, <1>4, <1>5

\* per_term_candidates: finitely many, each with a share of what the terms weigh.
LEMMA PerTermAre ==
    ASSUME NEW g \in TaskGraph, NEW q \in TaskRequest
    PROVE  /\ IsFiniteSet(K!PerTerm(g, q))
           /\ \A x \in K!PerTerm(g, q) : x.node \in DOMAIN g.nodes /\ x.score \in Nat
           /\ \A x, y \in K!PerTerm(g, q) : x.node = y.node => x = y
<1> DEFINE Share(i) == (100 * K!Weight(q, q.identities \intersect g.nodes[i].identity))
                           \div K!Weight(q, q.identities)
           At(i) == [node |-> i, score |-> Share(i)]
           some == {j \in K!Nodes(g) : q.identities \intersect g.nodes[j].identity # {}}
<1>1. IsFiniteSet(K!Nodes(g))
  BY GraphNodes
<1>2. IsFiniteSet(some) /\ some \subseteq DOMAIN g.nodes
  BY <1>1, FS_Subset DEF K!Nodes
<1>3. K!PerTerm(g, q) = {At(i) : i \in some}
  BY DEF K!PerTerm
<1>4. \A i \in some : Share(i) \in Nat
  <2> TAKE i \in some
  <2>1. PICK a \in Nat : a = K!Weight(q, q.identities \intersect g.nodes[i].identity)
    <3>1. q.identities \intersect g.nodes[i].identity \in SUBSET q.identities
      OBVIOUS
    <3> QED
      BY <3>1, RequestIs
  <2>2. PICK b \in Nat \ {0} : b = K!Weight(q, q.identities)
    <3>1. q.identities # {} /\ q.identities \in SUBSET q.identities
      OBVIOUS
    <3> QED
      BY <3>1, RequestIs
  <2>3. (100 * a) \div b \in Nat
    BY ShareIs
  <2> QED
    BY <2>1, <2>2, <2>3
<1> HIDE DEF some, Share
<1>5. IsFiniteSet({At(i) : i \in some})
  <2>1. [i \in some |-> At(i)] \in Surjection(some, {At(i) : i \in some})
    BY DEF Surjection
  <2> HIDE DEF At
  <2> QED
    BY <1>2, <2>1, FS_Surjection
<1> QED
  BY <1>2, <1>3, <1>4, <1>5

\* The leading entries of a list are a list.
LEMMA LeadingIs ==
    ASSUME NEW s, IsList(s), NEW n \in Nat
    PROVE  /\ IsList(K!Leading(s, n))
           /\ n <= Len(s) => K!Leading(s, n) = [k \in 1 .. n |-> s[k]]
<1>1. Len(s) \in Nat
  BY ListIs
<1>2. K!Min({n, Len(s)}) \in Nat /\ (n <= Len(s) => K!Min({n, Len(s)}) = n)
  BY <1>1 DEF K!Min
<1> QED
  BY <1>2 DEF K!Leading, IsList

\* What a request matches as a whole is ranked, but for copies of a document.
LEMMA SearchRanks ==
    ASSUME NEW g \in TaskGraph, NEW q \in TaskRequest
    PROVE  /\ BestFirst(g, K!Search(g, q).ranked)
           /\ K!Search(g, q).whole = K!Matches(g, q)
           /\ \A c \in K!Matches(g, q) : \E k \in DOMAIN K!Search(g, q).ranked :
                \/ K!Search(g, q).ranked[k] = c
                \/ K!SameDocument(g.nodes[K!Search(g, q).ranked[k].node], g.nodes[c.node])
<1> DEFINE whole == K!Matches(g, q)
           byTerm == IF whole = {} /\ K!Cardinality(q.identities) >= 2 THEN K!PerTerm(g, q) ELSE {}
           best == IF byTerm = {} THEN K!InOrder(whole) ELSE K!Leading(K!InOrder(byTerm), FallbackLimit)
<1>1. K!Search(g, q).ranked = FirstDocuments(g, best) /\ K!Search(g, q).whole = whole
  BY DEF K!Search, FirstDocuments
<1>2. /\ IsFiniteSet(whole)
      /\ \A x \in whole : x.node \in DOMAIN g.nodes /\ x.node \in Nat /\ x.score \in Nat
      /\ \A x, y \in whole : x.node = y.node => x = y
  BY MatchesAre
<1>3. /\ IsFiniteSet(byTerm)
      /\ \A x \in byTerm : x.node \in DOMAIN g.nodes /\ x.score \in Nat
      /\ \A x, y \in byTerm : x.node = y.node => x = y
  BY PerTermAre, FS_EmptySet
<1>4. BestFirst(g, best)
  <2> HIDE DEF whole, byTerm
  <2>1. DOMAIN g.nodes \subseteq Nat
    BY GraphNodes DEF K!Nodes
  <2>2. BestFirst(g, K!InOrder(whole)) /\ BestFirst(g, K!InOrder(byTerm))
    BY <1>2, <1>3, <2>1, InOrderBest
  <2>3. FallbackLimit \in Nat
    BY AnswersAssumption DEF K!TaskAssumption
  <2> QED
    BY <2>2, <2>3, LeadingBest
<1>5. BestFirst(g, FirstDocuments(g, best))
  <2> HIDE DEF best
  <2>1. IsList(best)
    BY <1>4 DEF BestFirst
  <2>2. FirstDocuments(g, best) = K!At(best, FirstPlaces(g, best)) /\ FirstPlaces(g, best) \in SUBSET DOMAIN best
    BY <2>1, FirstsAre DEF FirstPlaces
  <2> QED
    BY <1>4, <2>2, AtBest
<1>6. ASSUME NEW c \in whole
      PROVE  \E k \in DOMAIN FirstDocuments(g, best) :
                \/ FirstDocuments(g, best)[k] = c
                \/ K!SameDocument(g.nodes[FirstDocuments(g, best)[k].node], g.nodes[c.node])
  <2>1. best = K!InOrder(whole)
    BY <1>6
  <2>2. PICK i \in DOMAIN best : best[i] = c
    <3> HIDE DEF whole, best
    <3> QED
      BY <1>2, <1>6, <2>1, InOrderHas
  <2> HIDE DEF best
  <2>3. IsList(best)
    BY <1>4 DEF BestFirst
  <2> QED
    BY <2>2, <2>3, FirstsHave
<1> HIDE DEF best, whole
<1> QED
  BY <1>1, <1>5, <1>6 DEF whole

\* TaskEntry's set of the entries of a list.
LEMMA EntriesAre == ASSUME NEW s PROVE K!ToSet(s) = {s[i] : i \in DOMAIN s}
BY DEF K!ToSet

\* entry.rs, the candidates: finitely many nodes are ranked.
LEMMA IdsFinite ==
    ASSUME NEW s, IsList(s)
    PROVE  K!Ids(s) = {s[i].node : i \in DOMAIN s} /\ IsFiniteSet(K!Ids(s))
<1>1. K!Ids(s) = {s[i].node : i \in DOMAIN s}
  BY EntriesAre DEF K!Ids
<1>2. DOMAIN s = 1 .. Len(s) /\ IsFiniteSet(1 .. Len(s))
  BY ListIs, FS_Interval
<1>3. [i \in DOMAIN s |-> s[i].node] \in Surjection(DOMAIN s, {s[i].node : i \in DOMAIN s})
  BY DEF Surjection
<1> QED
  BY <1>1, <1>2, <1>3, FS_Surjection

\* task_entry: what is "ready" has one approved baseline, and every approved document
\* that is admitted is ranked, or the same one is.
LEMMA ReadyHolds ==
    ASSUME NEW g \in TaskGraph, NEW q \in TaskRequest, K!Found(g, q).resolution = "ready"
    PROVE  /\ Cardinality(K!Found(g, q).baseline) = 1
           /\ \A i \in K!Found(g, q).admitted :
                 \E j \in K!Found(g, q).ranked : j = i \/ K!SameDocument(g.nodes[j], g.nodes[i])
<1> DEFINE search == K!Search(g, q)
           approved == K!Approved(g, K!Ids(search.ranked))
<1>1. /\ K!Found(g, q).resolution = K!Resolution(g, q, search)
      /\ K!Found(g, q).baseline = approved
      /\ K!Found(g, q).ranked = K!Ids(search.ranked)
      /\ K!Found(g, q).admitted = {c.node : c \in search.whole}
  BY DEF K!Found
<1>2. IsList(search.ranked) /\ K!Ids(search.ranked) = {search.ranked[i].node : i \in DOMAIN search.ranked}
  BY SearchRanks, IdsFinite DEF BestFirst
<1>3. Cardinality(approved) = 1
  <2>1. IsFiniteSet(approved)
    <3>1. IsFiniteSet(K!Ids(search.ranked))
      BY <1>2, IdsFinite
    <3>2. approved \subseteq K!Ids(search.ranked)
      BY DEF K!Approved
    <3> QED
      BY <3>1, <3>2, FS_Subset
  <2>2. ~(K!Cardinality(approved) > 1) /\ approved # {}
    <3> HIDE DEF search, approved
    <3>1. K!Resolution(g, q, search) = "ready"
      BY <1>1
    <3> QED
      BY <3>1 DEF K!Resolution, approved
  <2> HIDE DEF approved
  <2>3. Cardinality(approved) \in Nat /\ Cardinality(approved) # 0 /\ K!Cardinality(approved) = Cardinality(approved)
    BY <2>1, <2>2, FS_CardinalityType, FS_EmptySet, SameCount
  <2> QED
    BY <2>2, <2>3
<1>4. ASSUME NEW i \in K!Found(g, q).admitted
      PROVE  \E j \in K!Found(g, q).ranked : j = i \/ K!SameDocument(g.nodes[j], g.nodes[i])
  <2>1. PICK c \in K!Matches(g, q) : i = c.node
    BY <1>1, SearchRanks
  <2>2. PICK k \in DOMAIN search.ranked :
          \/ search.ranked[k] = c
          \/ K!SameDocument(g.nodes[search.ranked[k].node], g.nodes[c.node])
    BY SearchRanks
  <2> HIDE DEF search
  <2> QED
    BY <1>1, <1>2, <2>1, <2>2
<1> HIDE DEF search, approved
<1> QED
  BY <1>1, <1>3, <1>4

\* prune_candidates: what is left are candidates, the best first.
LEMMA CandidatesBest ==
    ASSUME NEW g \in TaskGraph, NEW q \in TaskRequest
    PROVE  BestFirst(g, K!Found(g, q).candidates)
<1> DEFINE search == K!Search(g, q)
<1>1. PICK constraints : K!Found(g, q).candidates = K!Candidates(search, constraints)
  BY DEF K!Found
<1> DEFINE news == {k \in DOMAIN search.ranked : search.ranked[k].node \notin K!ToSet(constraints)}
           base == IF news = {} THEN search.ranked ELSE K!At(search.ranked, news)
           strong == {k \in DOMAIN base : k <= MinKept \/ 2 * base[k].score >= base[1].score}
<1>2. BestFirst(g, search.ranked)
  BY SearchRanks
<1>3. BestFirst(g, base)
  <2> HIDE DEF search
  <2>1. news \in SUBSET DOMAIN search.ranked
    OBVIOUS
  <2> HIDE DEF news
  <2> QED
    BY <1>2, <2>1, AtBest
<1>4. K!Candidates(search, constraints) = IF search.partial THEN K!Leading(base, K!Cardinality(strong)) ELSE base
  BY DEF K!Candidates
<1>5. K!Cardinality(strong) \in Nat
  <2> HIDE DEF base
  <2>1. DOMAIN base = 1 .. Len(base) /\ IsFiniteSet(1 .. Len(base))
    BY <1>3, ListIs, FS_Interval DEF BestFirst
  <2>2. strong \subseteq 1 .. Len(base)
    BY <2>1
  <2> HIDE DEF strong
  <2>3. IsFiniteSet(strong)
    BY <2>1, <2>2, FS_Subset
  <2> QED
    BY <2>3, FS_CardinalityType, SameCount
<1>6. BestFirst(g, K!Leading(base, K!Cardinality(strong)))
  <2> HIDE DEF base, strong
  <2> QED
    BY <1>3, <1>5, LeadingBest
<1> HIDE DEF base, strong
<1> QED
  BY <1>1, <1>3, <1>4, <1>6

\* and a list.
LEMMA CandidatesListed ==
    ASSUME NEW g \in TaskGraph, NEW q \in TaskRequest
    PROVE  IsList(K!Found(g, q).candidates)
BY CandidatesBest DEF BestFirst

\* A list of nodes.
NodeList(g, list) == IsList(list) /\ \A k \in DOMAIN list : list[k] \in DOMAIN g.nodes

\* A list that is made of so many entries.
LEMMA ListMade ==
    ASSUME NEW n \in Nat, NEW s, s = [k \in 1 .. n |-> s[k]]
    PROVE  IsList(s) /\ Len(s) = n /\ DOMAIN s = 1 .. n
BY DEF IsList

\* The smaller of two counts.
LEMMA Smaller ==
    ASSUME NEW n \in Nat, NEW m \in Nat
    PROVE  K!Min({n, m}) \in Nat /\ K!Min({n, m}) <= m
BY DEF K!Min

\* The first of some entries of a list are a list.
LEMMA SomeListed ==
    ASSUME NEW S, NEW list, IsList(list), \A k \in DOMAIN list : list[k] \in S, NEW P \in SUBSET DOMAIN list,
           NEW n \in Nat
    PROVE  LET first == K!Leading(K!At(list, P), n) IN IsList(first) /\ \A k \in DOMAIN first : first[k] \in S
<1>1. P \in SUBSET Nat /\ IsFiniteSet(P)
  <2>1. PICK c \in Nat : c = Len(list) /\ DOMAIN list = 1 .. c
    BY ListIs
  <2>2. IsFiniteSet(1 .. c) /\ P \subseteq 1 .. c
    BY <2>1, FS_Interval
  <2>3. IsFiniteSet(P)
    BY <2>2, FS_Subset
  <2> QED
    BY <2>2, <2>3
<1>2. PICK at \in [1 .. Cardinality(P) -> P] :
          /\ K!At(list, P) = [k \in 1 .. Cardinality(P) |-> list[at[k]]]
          /\ \A j, k \in 1 .. Cardinality(P) : j < k => at[j] < at[k]
  BY <1>1, AtPlaces
<1>3. PICK m \in Nat : m = Cardinality(P)
  BY <1>1, FS_CardinalityType
<1>4. PICK some : some = K!At(list, P)
  OBVIOUS
<1>5. \A k \in 1 .. m : at[k] \in DOMAIN list
  BY <1>2, <1>3
<1>6. some = [k \in 1 .. m |-> list[at[k]]]
  BY <1>2, <1>3, <1>4
<1>7. \A k \in 1 .. m : some[k] \in S
  BY <1>5, <1>6
<1>8. some = [k \in 1 .. m |-> some[k]]
  BY <1>6
<1> HIDE <1>2, <1>6
<1>9. Len(some) = m
  BY <1>8, ListMade
<1>10. PICK l \in Nat : l = K!Min({n, m}) /\ l <= m
  BY Smaller
<1>11. PICK first : first = K!Leading(some, n)
  OBVIOUS
<1>12. first = [k \in 1 .. l |-> some[k]]
  BY <1>9, <1>10, <1>11 DEF K!Leading
<1>13. \A k \in 1 .. l : first[k] \in S
  <2>1. \A k \in 1 .. l : k \in 1 .. m
    BY <1>10
  <2> QED
    BY <1>7, <1>12, <2>1
<1>14. first = [k \in 1 .. l |-> first[k]]
  BY <1>12
<1>15. IsList(first) /\ DOMAIN first = 1 .. l
  BY <1>14, ListMade
<1> QED
  BY <1>4, <1>11, <1>13, <1>15

\* The first of some nodes, in their order, that are not the same as an earlier one.
LEMMA NodesListed ==
    ASSUME NEW g \in TaskGraph, NEW S \in SUBSET K!Nodes(g), NEW before, Ranks(S, before),
           NEW P \in SUBSET DOMAIN ListOf(S, before), NEW n \in Nat
    PROVE  NodeList(g, K!Leading(K!At(ListOf(S, before), P), n))
<1>1. IsFiniteSet(S) /\ S \subseteq DOMAIN g.nodes
  BY GraphNodes, FS_Subset DEF K!Nodes
<1>2. PICK list : list = ListOf(S, before)
  OBVIOUS
<1>3. PICK c \in Nat : list \in Seq(S) /\ Len(list) = c /\ DOMAIN list = 1 .. c
  BY <1>1, <1>2, ListOfIs
<1>4. IsList(list) /\ \A k \in DOMAIN list : list[k] \in S
  <2>1. list = [k \in 1 .. c |-> list[k]] /\ \A k \in DOMAIN list : list[k] \in S
    BY <1>3
  <2> QED
    BY <2>1, ListMade
<1>5. P \in SUBSET DOMAIN list
  BY <1>2
<1>6. PICK first : first = K!Leading(K!At(list, P), n)
  OBVIOUS
<1>7. IsList(first) /\ \A k \in DOMAIN first : first[k] \in S
  BY <1>4, <1>5, <1>6, SomeListed
<1> QED
  BY <1>1, <1>2, <1>6, <1>7 DEF NodeList

\* project_neighbors: the files of a project.
LEMMA NeighborhoodIs ==
    ASSUME NEW g \in TaskGraph, NEW q \in TaskRequest
    PROVE  NodeList(g, K!Found(g, q).neighborhood)
<1> DEFINE ranked == K!Search(g, q).ranked
           named == IF ranked # << >> /\ \E i \in K!Top(ranked) : g.nodes[i].kind = "Project"
                    THEN K!Projects(g, K!Top(ranked)) ELSE {}
           files == {i \in K!Owned(g, named) \ K!Ids(ranked) : g.nodes[i].kind # "Constraint"}
           sorted == K!Ordered(files, LAMBDA i, j : i < j)
           places == {k \in DOMAIN sorted :
                        ~\E j \in 1 .. k - 1 : K!SameDocument(g.nodes[sorted[j]], g.nodes[sorted[k]])}
           Place(k) == CHOOSE x \in files : Cardinality(Lower(files, NumberOrder(files), x)) = k - 1
<1>1. K!Found(g, q).neighborhood = K!Leading(K!Neighborhood(g, ranked), NeighborhoodLimit)
  BY DEF K!Found
<1>2. K!Neighborhood(g, ranked) = K!At(sorted, places)
  BY DEF K!Neighborhood, K!Firsts
<1>3. files \in SUBSET K!Nodes(g)
  BY DEF K!Owned
<1> HIDE DEF named, ranked
<1>4. sorted = ListOf(files, NumberOrder(files))
  <2> HIDE DEF files
  <2>1. \A x \in files : Lower(files, NumberOrder(files), x) = {y \in files : y < x}
    BY DEF Lower, NumberOrder
  <2>2. \A k : Place(k) = (CHOOSE x \in files : K!Cardinality({y \in files : y < x}) = k - 1)
    BY <2>1, SameCount
  <2>3. sorted = [k \in 1 .. K!Cardinality(files) |->
                    CHOOSE x \in files : K!Cardinality({y \in files : y < x}) = k - 1]
    BY DEF K!Ordered
  <2>4. ListOf(files, NumberOrder(files)) = [k \in 1 .. Cardinality(files) |-> Place(k)]
    BY DEF ListOf
  <2> HIDE DEF Place, sorted
  <2> QED
    BY <2>2, <2>3, <2>4, SameCount
<1>5. Ranks(files, NumberOrder(files))
  <2>1. files \in SUBSET Nat
    BY <1>3, GraphNodes
  <2> HIDE DEF files
  <2> QED
    BY <2>1, NumbersRank
<1>6. places \in SUBSET DOMAIN sorted /\ NeighborhoodLimit \in Nat
  BY AnswersAssumption DEF K!TaskAssumption
<1> HIDE DEF files, sorted, places
<1> QED
  BY <1>1, <1>2, <1>3, <1>4, <1>5, <1>6, NodesListed

\* project_constraints: what is binding for the projects.
LEMMA ConstraintsIs ==
    ASSUME NEW g \in TaskGraph, NEW q \in TaskRequest
    PROVE  NodeList(g, K!Found(g, q).constraints)
<1> DEFINE ranked == K!Search(g, q).ranked
           projects == IF ranked = << >> THEN {} ELSE K!Projects(g, K!Top(ranked))
           rows == {i \in K!Owned(g, projects) : g.nodes[i].kind = "Constraint"}
           Relevance(i) == K!Weight(q, q.terms \intersect g.nodes[i].searched)
           Prior(i, j) == Relevance(i) > Relevance(j) \/ (Relevance(i) = Relevance(j) /\ i < j)
           before == {p \in rows \X rows : Prior(p[1], p[2])}
           sorted == K!Ordered(rows, Prior)
           places == {k \in DOMAIN sorted :
                        ~\E j \in 1 .. k - 1 : g.nodes[sorted[j]].searched = g.nodes[sorted[k]].searched}
           Place(k) == CHOOSE x \in rows : Cardinality(Lower(rows, before, x)) = k - 1
<1>1. K!Found(g, q).constraints = K!Leading(K!Constraints(g, q, ranked), ConstraintLimit)
  BY DEF K!Found
<1>2. K!Constraints(g, q, ranked) = K!At(sorted, places)
  BY DEF K!Constraints, K!Firsts
<1>3. rows \in SUBSET K!Nodes(g)
  BY DEF K!Owned
<1> HIDE DEF projects, ranked
<1>4. sorted = ListOf(rows, before)
  <2> HIDE DEF rows, Prior
  <2>1. \A x \in rows : Lower(rows, before, x) = {y \in rows : Prior(y, x)}
    BY DEF Lower
  <2>2. \A k : Place(k) = (CHOOSE x \in rows : K!Cardinality({y \in rows : Prior(y, x)}) = k - 1)
    BY <2>1, SameCount
  <2>3. sorted = [k \in 1 .. K!Cardinality(rows) |->
                    CHOOSE x \in rows : K!Cardinality({y \in rows : Prior(y, x)}) = k - 1]
    BY DEF K!Ordered
  <2>4. ListOf(rows, before) = [k \in 1 .. Cardinality(rows) |-> Place(k)]
    BY DEF ListOf
  <2> HIDE DEF Place, sorted, before
  <2> QED
    BY <2>2, <2>3, <2>4, SameCount
<1>5. Ranks(rows, before)
  <2>1. rows \in SUBSET Nat /\ \A i \in rows : Relevance(i) \in Nat
    <3>1. \A i : q.terms \intersect g.nodes[i].searched \in SUBSET q.terms
      OBVIOUS
    <3> QED
      BY <1>3, <3>1, GraphNodes, RequestIs
  <2> HIDE DEF rows, Relevance
  <2> QED
    BY <2>1 DEF Ranks
<1>6. places \in SUBSET DOMAIN sorted /\ ConstraintLimit \in Nat
  BY AnswersAssumption DEF K!TaskAssumption
<1> HIDE DEF rows, sorted, places, before
<1> QED
  BY <1>1, <1>2, <1>3, <1>4, <1>5, <1>6, NodesListed

\* value: what a rank leaves, and no later rank leaves more.
LEMMA DecayIs ==
    ASSUME NEW n \in Nat
    PROVE  /\ \A k \in 0 .. n : K!Decay(n)[k] \in Nat
           /\ \A k \in 1 .. n : K!Decay(n)[k] <= K!Decay(n)[k - 1]
<1> DEFINE Is(f) == f = [k \in 0 .. n |-> IF k = 0 THEN 1000 ELSE (85 * f[k - 1]) \div 100]
           more == [k \in 1 .. n |-> [x \in Nat |-> (85 * x) \div 100]]
<1>1. \A x \in Nat : (85 * x) \div 100 \in Nat /\ (85 * x) \div 100 <= x
  OBVIOUS
<1>2. more \in [1 .. n -> [Nat -> Nat]]
  BY <1>1
<1>3. PICK f : Iterates(n, Nat, 1000, more, f)
  <2> DEFINE X == Nat
             a == 1000
  <2>1. a \in X /\ more \in [1 .. n -> [X -> X]]
    BY <1>2
  <2> HIDE DEF X, a, more
  <2>2. \E f : Iterates(n, X, a, more, f)
    BY <2>1, Iteration
  <2> QED
    BY <2>2 DEF X, a
<1>4. Is(f)
  <2>1. \A k \in 0 .. n : k = 0 \/ k \in 1 .. n
    OBVIOUS
  <2>2. f \in [0 .. n -> Nat] /\ f[0] = 1000
    BY <1>3 DEF Iterates
  <2>3. \A k \in 1 .. n : f[k] = (85 * f[k - 1]) \div 100
    <3> TAKE k \in 1 .. n
    <3>1. k - 1 \in 0 .. n
      OBVIOUS
    <3>2. f[k - 1] \in Nat
      BY <2>2, <3>1
    <3>3. f[k] = more[k][f[k - 1]]
      BY <1>3 DEF Iterates
    <3> QED
      BY <3>2, <3>3
  <2>4. \A k \in 0 .. n : f[k] = IF k = 0 THEN 1000 ELSE (85 * f[k - 1]) \div 100
    BY <2>1, <2>2, <2>3
  <2> QED
    BY <2>2, <2>4
<1> DEFINE left == CHOOSE g : Is(g)
<1>5. Is(left)
  <2> HIDE DEF Is
  <2> QED
    BY <1>4
<1>6. K!Decay(n) = left
  BY DEF K!Decay
<1> HIDE DEF left
<1>7. left[0] = 1000 /\ \A k \in 1 .. n : left[k] = (85 * left[k - 1]) \div 100
  <2>1. \A k \in 0 .. n : left[k] = IF k = 0 THEN 1000 ELSE (85 * left[k - 1]) \div 100
    BY <1>5
  <2>2. 0 \in 0 .. n /\ \A k \in 1 .. n : k \in 0 .. n /\ k # 0
    OBVIOUS
  <2> QED
    BY <2>1, <2>2
<1>8. \A k \in 0 .. n : left[k] \in Nat
  <2>1. left[0] \in Nat /\ \A k \in 1 .. n : left[k - 1] \in Nat => left[k] \in Nat
    BY <1>1, <1>7
  <2> QED
    BY <2>1, IterationStays
<1>9. ASSUME NEW k \in 1 .. n PROVE left[k] <= left[k - 1]
  <2>1. k - 1 \in 0 .. n
    OBVIOUS
  <2>2. PICK x \in Nat : x = left[k - 1]
    BY <1>8, <2>1
  <2> QED
    BY <1>1, <1>7, <2>2
<1> QED
  BY <1>6, <1>8, <1>9

\* value: a lower rank leaves no less.
LEMMA DecayFalls ==
    ASSUME NEW n \in Nat, NEW j \in 0 .. n, NEW k \in j .. n
    PROVE  K!Decay(n)[j] \in Nat /\ K!Decay(n)[k] \in Nat /\ K!Decay(n)[k] <= K!Decay(n)[j]
<1>1. PICK left : left = K!Decay(n)
  OBVIOUS
<1>2. (\A i \in 0 .. n : left[i] \in Nat) /\ \A i \in 1 .. n : left[i] <= left[i - 1]
  BY <1>1, DecayIs
<1> DEFINE P == {i \in Nat : j + i <= n => left[j + i] <= left[j]}
<1>3. 0 \in P
  BY <1>2
<1>4. ASSUME NEW i \in 0 .. n - 1, i \in P PROVE i + 1 \in P
  <2> SUFFICES ASSUME j + (i + 1) <= n PROVE left[j + (i + 1)] <= left[j]
    OBVIOUS
  <2>1. j + i \in 0 .. n /\ j + (i + 1) \in 1 .. n /\ (j + (i + 1)) - 1 = j + i
    OBVIOUS
  <2>2. left[j + i] <= left[j]
    BY <1>4, <2>1
  <2>3. left[j + (i + 1)] <= left[j + i]
    BY <1>2, <2>1
  <2>4. left[j] \in Nat /\ left[j + i] \in Nat /\ left[j + (i + 1)] \in Nat
    BY <1>2, <2>1
  <2> QED
    BY <2>2, <2>3, <2>4
<1>5. \A i \in 0 .. n : i \in P
  <2> HIDE DEF P
  <2> QED
    BY <1>3, <1>4, UpTo
<1>6. k - j \in 0 .. n /\ j + (k - j) = k
  OBVIOUS
<1>7. left[k] <= left[j]
  BY <1>5, <1>6
<1> QED
  BY <1>1, <1>2, <1>7

\* What a page may list: constraints and files that are nodes, and candidates.
PageLists(g, lists) == NodeList(g, lists[1]) /\ NodeList(g, lists[2]) /\ BestFirst(g, lists[3])

NodeAt(lists, l, k) == IF l = 3 THEN lists[l][k].node ELSE lists[l][k]

ValueAt(lists, l, k) ==
    CASE l = 1 -> 1000 [] l = 2 -> 250 [] l = 3 -> 8 * K!Max({5, lists[l][k].score})

EntryAt(g, lists, l, k) ==
    [list |-> l, at |-> k, worth |-> ValueAt(lists, l, k) * K!Decay(Len(lists[l]))[k - 1],
     cost |-> g.nodes[NodeAt(lists, l, k)].cost]

\* value: the score of a row, within its bounds.
LEMMA ScoreIs ==
    ASSUME NEW x \in Nat
    PROVE  K!Max({5, x}) \in Nat /\ \A y \in Nat : y <= x => K!Max({5, y}) <= K!Max({5, x})
<1>1. \A y \in Nat : K!Max({5, y}) = IF y <= 5 THEN 5 ELSE y
  BY DEF K!Max
<1> QED
  BY <1>1

\* What an entry is worth and costs are numbers.
LEMMA EntryIs ==
    ASSUME NEW g \in TaskGraph, NEW lists, PageLists(g, lists), NEW l \in 1 .. 3, NEW k \in DOMAIN lists[l]
    PROVE  /\ Len(lists[l]) \in Nat /\ k \in 1 .. Len(lists[l])
           /\ ValueAt(lists, l, k) \in Nat /\ K!Decay(Len(lists[l]))[k - 1] \in Nat
           /\ EntryAt(g, lists, l, k).worth \in Nat /\ EntryAt(g, lists, l, k).cost \in Nat \ {0}
<1>1. l = 1 \/ l = 2 \/ l = 3
  OBVIOUS
<1>2. IsList(lists[l])
  BY <1>1 DEF PageLists, NodeList, BestFirst
<1>3. PICK n \in Nat : n = Len(lists[l]) /\ k \in 1 .. n
  BY <1>2, ListIs
<1>4. PICK d \in Nat : d = K!Decay(n)[k - 1]
  <2>1. k - 1 \in 0 .. n
    BY <1>3
  <2> QED
    BY <2>1, DecayIs
<1>5. PICK v \in Nat : v = ValueAt(lists, l, k)
  <2>1. CASE l = 3
    <3>1. lists[l][k].score \in Nat
      BY <2>1 DEF PageLists, BestFirst
    <3>2. PICK m \in Nat : m = K!Max({5, lists[l][k].score})
      BY <3>1, ScoreIs
    <3> QED
      BY <2>1, <3>2 DEF ValueAt
  <2>2. CASE l # 3
    BY <1>1, <2>2 DEF ValueAt
  <2> QED
    BY <2>1, <2>2
<1>6. v * d \in Nat
  OBVIOUS
<1>7. NodeAt(lists, l, k) \in DOMAIN g.nodes
  BY <1>1 DEF PageLists, NodeList, BestFirst, NodeAt
<1>8. g.nodes[NodeAt(lists, l, k)].cost \in Nat \ {0}
  BY <1>7, GraphNodes DEF K!Nodes
<1> QED
  BY <1>3, <1>4, <1>5, <1>6, <1>8 DEF EntryAt

\* fit_to_budget, items: the entries of the three lists.
LEMMA EntriesOf ==
    ASSUME NEW g, NEW lists
    PROVE  K!Entries(lists, g) = UNION {{EntryAt(g, lists, l, k) : k \in DOMAIN lists[l]} : l \in 1 .. 3}
BY DEF K!Entries, EntryAt, ValueAt, NodeAt

\* What the entries of a page are: which they are says what they cost and are worth.
IsEntry(x) ==
    x.list \in 1 .. 3 /\ x.at \in Nat /\ x.worth \in Nat /\ x.cost \in Nat \ {0}

LEMMA EntriesFound ==
    ASSUME NEW g \in TaskGraph, NEW lists, PageLists(g, lists)
    PROVE  LET all == K!Entries(lists, g)
           IN /\ IsFiniteSet(all)
              /\ \A x \in all : /\ IsEntry(x) /\ x.at \in DOMAIN lists[x.list]
                                /\ x = EntryAt(g, lists, x.list, x.at)
              /\ \A x, y \in all : x.list = y.list /\ x.at = y.at => x = y
              /\ \A k \in DOMAIN lists[3] : EntryAt(g, lists, 3, k) \in all
<1> DEFINE Part(l) == {EntryAt(g, lists, l, k) : k \in DOMAIN lists[l]}
           parts == {Part(l) : l \in 1 .. 3}
<1>1. PICK all : all = K!Entries(lists, g) /\ all = UNION parts
  BY EntriesOf
<1>2. \A l, k : EntryAt(g, lists, l, k).list = l /\ EntryAt(g, lists, l, k).at = k
  BY DEF EntryAt
<1>3. ASSUME NEW l \in 1 .. 3 PROVE IsFiniteSet(Part(l))
  <2>1. IsList(lists[l])
    <3>1. l = 1 \/ l = 2 \/ l = 3
      OBVIOUS
    <3> QED
      BY <3>1 DEF PageLists, NodeList, BestFirst
  <2>2. PICK n \in Nat : DOMAIN lists[l] = 1 .. n
    BY <2>1, ListIs
  <2>3. IsFiniteSet(1 .. n)
    BY FS_Interval
  <2>4. [k \in DOMAIN lists[l] |-> EntryAt(g, lists, l, k)] \in Surjection(DOMAIN lists[l], Part(l))
    BY DEF Surjection
  <2> HIDE DEF Part
  <2> QED
    BY <2>2, <2>3, <2>4, FS_Surjection
<1>4. all = Part(1) \union Part(2) \union Part(3)
  <2>1. \A l : l \in 1 .. 3 <=> l = 1 \/ l = 2 \/ l = 3
    OBVIOUS
  <2> HIDE DEF Part
  <2> QED
    BY <1>1, <2>1
<1>5. IsFiniteSet(Part(1)) /\ IsFiniteSet(Part(2)) /\ IsFiniteSet(Part(3))
  <2> HIDE DEF Part
  <2> QED
    BY <1>3
<1>6. IsFiniteSet(all)
  <2> HIDE DEF Part
  <2> QED
    BY <1>4, <1>5, FS_Union
<1>7. ASSUME NEW x \in all
      PROVE  IsEntry(x) /\ x.at \in DOMAIN lists[x.list] /\ x = EntryAt(g, lists, x.list, x.at)
  <2>1. PICK l \in 1 .. 3 : x \in Part(l)
    <3> HIDE DEF Part
    <3> QED
      BY <1>1
  <2>2. PICK k \in DOMAIN lists[l] : x = EntryAt(g, lists, l, k)
    BY <2>1
  <2>3. x.list = l /\ x.at = k
    BY <1>2, <2>2
  <2>4. k \in Nat /\ x.worth \in Nat /\ x.cost \in Nat \ {0}
    BY <2>2, EntryIs
  <2> QED
    BY <2>2, <2>3, <2>4 DEF IsEntry
<1>8. ASSUME NEW k \in DOMAIN lists[3] PROVE EntryAt(g, lists, 3, k) \in all
  <2>1. EntryAt(g, lists, 3, k) \in Part(3) /\ Part(3) \in parts
    OBVIOUS
  <2> HIDE DEF parts, Part
  <2> QED
    BY <1>1, <2>1
<1>9. \A x, y \in all : x.list = y.list /\ x.at = y.at => x = y
  BY <1>7
<1> QED
  BY <1>1, <1>6, <1>7, <1>8, <1>9

\* Rows that follow the first are worth no more.
LEMMA RowsFall ==
    ASSUME NEW g \in TaskGraph, NEW lists, PageLists(g, lists), NEW k \in DOMAIN lists[3]
    PROVE  /\ 1 \in DOMAIN lists[3]
           /\ EntryAt(g, lists, 3, k).worth <= EntryAt(g, lists, 3, 1).worth
<1>1. PICK n \in Nat : n = Len(lists[3]) /\ DOMAIN lists[3] = 1 .. n
  BY ListIs DEF PageLists, BestFirst
<1>2. 1 \in 1 .. n /\ k \in 1 .. n /\ k - 1 \in 0 .. n /\ 0 \in 0 .. n
  BY <1>1
<1>3. PICK d \in Nat : d = K!Decay(n)[1 - 1]
  BY <1>2, DecayIs
<1>4. PICK e \in Nat : e = K!Decay(n)[k - 1] /\ e <= d
  <2>1. k - 1 \in 0 .. n /\ 1 - 1 = 0
    BY <1>2
  <2> QED
    BY <1>3, <2>1, DecayFalls
<1>5. lists[3][k].score \in Nat /\ lists[3][1].score \in Nat /\ lists[3][k].score <= lists[3][1].score
  BY <1>1, <1>2 DEF PageLists, BestFirst
<1>6. PICK v \in Nat : v = K!Max({5, lists[3][1].score})
  BY <1>5, ScoreIs
<1>7. PICK u \in Nat : u = K!Max({5, lists[3][k].score}) /\ u <= v
  BY <1>5, <1>6, ScoreIs
<1>8. (8 * u) * e <= (8 * v) * d
  <2>1. PICK a \in Nat : a = 8 * u
    OBVIOUS
  <2>2. PICK b \in Nat : b = 8 * v /\ a <= b
    BY <1>7, <2>1
  <2>3. a * e <= b * e
    BY <2>2
  <2>4. b * e <= b * d
    BY <1>4
  <2>5. a * e \in Nat /\ b * e \in Nat /\ b * d \in Nat
    OBVIOUS
  <2> QED
    BY <2>1, <2>2, <2>3, <2>4, <2>5
<1>9. EntryAt(g, lists, 3, k).worth = (8 * u) * e /\ EntryAt(g, lists, 3, 1).worth = (8 * v) * d
  BY <1>1, <1>3, <1>4, <1>6, <1>7 DEF EntryAt, ValueAt
<1> QED
  BY <1>1, <1>2, <1>8, <1>9

\* Densities are compared across.
LEMMA Across ==
    ASSUME NEW a \in Nat, NEW b \in Nat, NEW c \in Nat,
           NEW p \in Nat \ {0}, NEW q \in Nat \ {0}, NEW r \in Nat \ {0}
    PROVE  /\ a * q >= b * p /\ b * r >= c * q => a * r >= c * p
           /\ a * q > b * p /\ b * r >= c * q => a * r > c * p
           /\ a * q >= b * p /\ b * r > c * q => a * r > c * p
<1>1. q * (a * r) = (a * q) * r /\ q * (c * p) = (c * q) * p /\ (b * p) * r = (b * r) * p
  OBVIOUS
<1>2. PICK x \in Nat : x = a * q
  OBVIOUS
<1>3. PICK y \in Nat : y = b * p
  OBVIOUS
<1>4. PICK z \in Nat : z = b * r
  OBVIOUS
<1>5. PICK w \in Nat : w = c * q
  OBVIOUS
<1>6. PICK s \in Nat : s = a * r
  OBVIOUS
<1>7. PICK t \in Nat : t = c * p
  OBVIOUS
<1>8. q * s = x * r /\ q * t = w * p /\ y * r = z * p
  BY <1>1, <1>2, <1>3, <1>4, <1>5, <1>6, <1>7
<1>9. /\ x >= y => x * r >= y * r
      /\ x > y => x * r > y * r
      /\ z >= w => z * p >= w * p
      /\ z > w => z * p > w * p
  OBVIOUS
<1>10. (q * s >= q * t => s >= t) /\ (q * s > q * t => s > t)
  OBVIOUS
<1>11. x * r \in Nat /\ y * r \in Nat /\ z * p \in Nat /\ w * p \in Nat /\ q * s \in Nat /\ q * t \in Nat
  OBVIOUS
<1>12. /\ x >= y /\ z >= w => s >= t
       /\ x > y /\ z >= w => s > t
       /\ x >= y /\ z > w => s > t
  BY <1>8, <1>9, <1>10, <1>11
<1> QED
  BY <1>2, <1>3, <1>4, <1>5, <1>6, <1>7, <1>12

\* fit_to_budget, items.sort_by: what is denser, or as dense and listed earlier.
Denser(x, y) ==
    \/ x.worth * y.cost > y.worth * x.cost
    \/ x.worth * y.cost = y.worth * x.cost /\ (x.list < y.list \/ (x.list = y.list /\ x.at < y.at))

DensityOrder(S) == {p \in S \X S : Denser(p[1], p[2])}

\* Entries are ordered by their density.
LEMMA DensityRanks ==
    ASSUME NEW S, \A x \in S : IsEntry(x), \A x, y \in S : x.list = y.list /\ x.at = y.at => x = y
    PROVE  Ranks(S, DensityOrder(S))
<1> DEFINE Worth(x, y) == x.worth * y.cost
<1>1. \A x \in S : x.list \in Nat /\ x.at \in Nat /\ x.worth \in Nat /\ x.cost \in Nat \ {0}
  BY DEF IsEntry
<1>2. \A x, y \in S : Worth(x, y) \in Nat
  BY <1>1
<1>3. \A x, y, z \in S :
        /\ Worth(x, y) >= Worth(y, x) /\ Worth(y, z) >= Worth(z, y) => Worth(x, z) >= Worth(z, x)
        /\ Worth(x, y) > Worth(y, x) /\ Worth(y, z) >= Worth(z, y) => Worth(x, z) > Worth(z, x)
        /\ Worth(x, y) >= Worth(y, x) /\ Worth(y, z) > Worth(z, y) => Worth(x, z) > Worth(z, x)
  BY <1>1, Across
<1>4. \A x, y \in S : Denser(x, y) <=>
        \/ Worth(x, y) > Worth(y, x)
        \/ Worth(x, y) = Worth(y, x) /\ (x.list < y.list \/ (x.list = y.list /\ x.at < y.at))
  BY DEF Denser
<1> HIDE DEF Worth
<1>5. ASSUME NEW x \in S, NEW y \in S, NEW z \in S, Denser(x, y), Denser(y, z) PROVE Denser(x, z)
  <2>1. Worth(x, y) >= Worth(y, x) /\ Worth(y, z) >= Worth(z, y)
    BY <1>2, <1>4, <1>5
  <2>2. CASE Worth(x, y) > Worth(y, x) \/ Worth(y, z) > Worth(z, y)
    BY <1>3, <1>4, <2>1, <2>2
  <2>3. CASE Worth(x, y) = Worth(y, x) /\ Worth(y, z) = Worth(z, y)
    <3>1. Worth(x, z) >= Worth(z, x) /\ Worth(z, x) >= Worth(x, z)
      BY <1>2, <1>3, <2>3
    <3>2. Worth(x, z) = Worth(z, x)
      BY <1>2, <3>1
    <3>3. /\ x.list < y.list \/ (x.list = y.list /\ x.at < y.at)
          /\ y.list < z.list \/ (y.list = z.list /\ y.at < z.at)
      BY <1>2, <1>4, <1>5, <2>3
    <3>4. x.list < z.list \/ (x.list = z.list /\ x.at < z.at)
      BY <1>1, <3>3
    <3> QED
      BY <1>4, <3>2, <3>4
  <2> QED
    BY <1>2, <2>1, <2>2, <2>3
<1>6. ASSUME NEW x \in S, NEW y \in S, x # y PROVE Denser(x, y) \/ Denser(y, x)
  <2>1. x.list # y.list \/ x.at # y.at
    BY <1>6
  <2>2. \/ x.list < y.list \/ (x.list = y.list /\ x.at < y.at)
        \/ y.list < x.list \/ (y.list = x.list /\ y.at < x.at)
    BY <1>1, <2>1
  <2>3. Worth(x, y) > Worth(y, x) \/ Worth(x, y) = Worth(y, x) \/ Worth(y, x) > Worth(x, y)
    BY <1>2
  <2> QED
    BY <1>4, <2>2, <2>3
<1>7. \A x \in S : ~Denser(x, x)
  BY <1>1, <1>2, <1>4
<1>8. \A x, y \in S : <<x, y>> \in DensityOrder(S) <=> Denser(x, y)
  BY DEF DensityOrder
<1> QED
  BY <1>5, <1>6, <1>7, <1>8 DEF Ranks

\* The entries in their order.
LEMMA DensitySorted ==
    ASSUME NEW S PROVE K!ByDensity(S) = ListOf(S, DensityOrder(S))
<1> DEFINE Place(k) == CHOOSE x \in S : Cardinality(Lower(S, DensityOrder(S), x)) = k - 1
<1>1. \A x \in S : Lower(S, DensityOrder(S), x) = {y \in S : Denser(y, x)}
  BY DEF Lower, DensityOrder
<1>2. \A k : Place(k) = (CHOOSE x \in S : K!Cardinality({y \in S : Denser(y, x)}) = k - 1)
  BY <1>1, SameCount
<1>3. K!ByDensity(S) = [k \in 1 .. K!Cardinality(S) |->
                            CHOOSE x \in S : K!Cardinality({y \in S : Denser(y, x)}) = k - 1]
  BY DEF K!ByDensity, K!Ordered, Denser
<1>4. ListOf(S, DensityOrder(S)) = [k \in 1 .. Cardinality(S) |-> Place(k)]
  BY DEF ListOf
<1> HIDE DEF Place
<1> QED
  BY <1>2, <1>3, <1>4, SameCount

\* What has been taken for a page.
TakenRows == [used : Nat, kept : SUBSET ((1 .. 3) \X Nat)]

\* One entry is taken, or left out when it does not fit.
LEMMA TakeIs ==
    ASSUME NEW q \in TaskRequest, q.budget \in Nat, NEW acc \in TakenRows, NEW x, IsEntry(x),
           NEW more, more = K!Take(q, acc, x)
    PROVE  /\ more \in TakenRows /\ more.used >= acc.used
           /\ acc.kept \subseteq more.kept /\ more.kept \subseteq acc.kept \union {<<x.list, x.at>>}
           /\ x.list = 3 => IF acc.used + x.cost <= q.budget THEN <<x.list, x.at>> \in more.kept
                            ELSE more = acc
<1>1. acc.used \in Nat /\ acc.kept \in SUBSET ((1 .. 3) \X Nat)
  BY DEF TakenRows
<1>2. x.list \in 1 .. 3 /\ x.at \in Nat /\ x.cost \in Nat
  BY DEF IsEntry
<1>3. PICK short \in Nat : short = K!Min({x.cost, q.short})
  BY <1>2, RequestIs, Smaller
<1> DEFINE With(cost) == [used |-> acc.used + cost, kept |-> acc.kept \union {<<x.list, x.at>>}]
<1>4. \/ more = With(x.cost) /\ acc.used + x.cost <= q.budget
      \/ more = With(short) /\ x.list = 1 /\ ~(acc.used + x.cost <= q.budget)
      \/ more = acc /\ ~(acc.used + x.cost <= q.budget)
  BY <1>3 DEF K!Take
<1>5. \A cost \in Nat : /\ With(cost) \in TakenRows /\ With(cost).used >= acc.used
                        /\ With(cost).kept = acc.kept \union {<<x.list, x.at>>}
  BY <1>1, <1>2 DEF TakenRows
<1> HIDE DEF With
<1> QED
  BY <1>1, <1>2, <1>3, <1>4, <1>5

\* Entries are taken one after another.
Takes(q, order, n, taken) ==
    /\ taken[0] = [used |-> q.base, kept |-> {}]
    /\ \A k \in 1 .. n : taken[k] = K!Take(q, taken[k - 1], order[k])
    /\ \A k \in 0 .. n : taken[k] \in TakenRows

LEMMA ChosenIs ==
    ASSUME NEW q \in TaskRequest, q.budget \in Nat, NEW S, \A x \in S : IsEntry(x),
           NEW order \in Seq(S), order = K!ByDensity(S), NEW n \in Nat, n = Len(order)
    PROVE  \E taken : Takes(q, order, n, taken) /\ K!Chosen(q, S) = taken[n].kept
<1> DEFINE none == [used |-> q.base, kept |-> {}]
           After(k, acc) == K!Take(q, acc, order[k])
           Is(f) == f = [k \in 0 .. n |-> IF k = 0 THEN none ELSE After(k, f[k - 1])]
           more == [k \in 1 .. n |-> [acc \in TakenRows |-> After(k, acc)]]
<1>1. \A k \in 1 .. n : \A acc \in TakenRows : After(k, acc) \in TakenRows
  <2> TAKE k \in 1 .. n
  <2> TAKE acc \in TakenRows
  <2>1. IsEntry(order[k])
    OBVIOUS
  <2> QED
    BY <2>1, TakeIs
<1>2. none \in TakenRows
  BY RequestIs DEF TakenRows
<1>3. more \in [1 .. n -> [TakenRows -> TakenRows]]
  <2> HIDE DEF After
  <2> QED
    BY <1>1
<1>4. PICK f : Iterates(n, TakenRows, none, more, f)
  <2> HIDE DEF more, none
  <2> QED
    BY <1>2, <1>3, Iteration
<1> HIDE DEF none, After
<1>5. Is(f)
  <2>1. \A k \in 0 .. n : k = 0 \/ k \in 1 .. n
    OBVIOUS
  <2>2. f \in [0 .. n -> TakenRows] /\ f[0] = none
    BY <1>4 DEF Iterates
  <2>3. \A k \in 1 .. n : f[k] = After(k, f[k - 1])
    <3> TAKE k \in 1 .. n
    <3>1. k - 1 \in 0 .. n
      OBVIOUS
    <3>2. f[k - 1] \in TakenRows
      BY <2>2, <3>1
    <3>3. f[k] = more[k][f[k - 1]]
      BY <1>4 DEF Iterates
    <3> QED
      BY <3>2, <3>3
  <2>4. \A k \in 0 .. n : f[k] = IF k = 0 THEN none ELSE After(k, f[k - 1])
    BY <2>1, <2>2, <2>3
  <2> QED
    BY <2>2, <2>4
<1> DEFINE taken == CHOOSE g : Is(g)
<1>6. Is(taken)
  <2> HIDE DEF Is
  <2> QED
    BY <1>5
<1>7. K!Chosen(q, S) = taken[n].kept
  BY DEF K!Chosen, After, none
<1> HIDE DEF taken
<1>8. taken[0] = none /\ \A k \in 1 .. n : taken[k] = After(k, taken[k - 1])
  <2>1. \A k \in 0 .. n : taken[k] = IF k = 0 THEN none ELSE After(k, taken[k - 1])
    BY <1>6
  <2>2. 0 \in 0 .. n /\ \A k \in 1 .. n : k \in 0 .. n /\ k # 0
    OBVIOUS
  <2> QED
    BY <2>1, <2>2
<1>9. \A k \in 0 .. n : taken[k] \in TakenRows
  <2>1. taken[0] \in TakenRows /\ \A k \in 1 .. n : taken[k - 1] \in TakenRows => taken[k] \in TakenRows
    BY <1>1, <1>2, <1>8
  <2> QED
    BY <2>1, IterationStays
<1>10. Takes(q, order, n, taken)
  BY <1>8, <1>9 DEF Takes, After, none
<1> QED
  BY <1>7, <1>10

\* When the first row costs no more than any other, no row is taken before it, and
\* none when it does not fit.
FirstOrNone(q, S, first, at, i, acc) ==
    \/ <<3, 1>> \in acc.kept
    \/ /\ \A k \in Nat : <<3, k>> \notin acc.kept
       /\ i >= at => acc.used + first.cost > q.budget

LEMMA FirstChosen ==
    ASSUME NEW q \in TaskRequest, q.budget \in Nat, NEW S, IsFiniteSet(S), \A x \in S : IsEntry(x),
           \A x, y \in S : x.list = y.list /\ x.at = y.at => x = y,
           NEW first \in S, first.list = 3, first.at = 1,
           \A x \in S : x.list = 3 => first.cost <= x.cost /\ x.worth <= first.worth /\ x.at >= 1
    PROVE  (\E x \in K!Chosen(q, S) : x[1] = 3) => <<3, 1>> \in K!Chosen(q, S)
<1>1. Ranks(S, DensityOrder(S))
  BY DensityRanks
<1>2. PICK order : order = K!ByDensity(S) /\ order = ListOf(S, DensityOrder(S))
  BY DensitySorted
<1>3. PICK n \in Nat : n = Cardinality(S) /\ order \in Seq(S) /\ Len(order) = n /\ DOMAIN order = 1 .. n
                       /\ Entries(order) = S
  BY <1>1, <1>2, ListOfIs
<1>4. PICK at \in 1 .. n : order[at] = first
  BY <1>3 DEF Entries
<1>5. ASSUME NEW k \in 1 .. n, order[k].list = 3, k # at PROVE k > at
  <2>1. PICK x \in S : x = order[k]
    BY <1>3
  <2>2. k < at => <<x, first>> \in DensityOrder(S)
    BY <1>1, <1>2, <1>3, <1>4, <2>1, ListRises
  <2>3. k < at => Denser(x, first)
    BY <2>2 DEF DensityOrder
  <2>4. /\ x.worth \in Nat /\ x.cost \in Nat /\ first.worth \in Nat /\ first.cost \in Nat
        /\ x.worth <= first.worth /\ first.cost <= x.cost /\ x.at >= 1 /\ x.at \in Nat /\ x.list = 3
    BY <1>5, <2>1 DEF IsEntry
  <2>5. x.worth * first.cost <= first.worth * x.cost
    <3>1. PICK a \in Nat : a = x.worth
      BY <2>4
    <3>2. PICK b \in Nat : b = first.worth /\ a <= b
      BY <2>4, <3>1
    <3>3. PICK c \in Nat : c = first.cost
      BY <2>4
    <3>4. PICK d \in Nat : d = x.cost /\ c <= d
      BY <2>4, <3>3
    <3>5. a * c <= b * c /\ b * c <= b * d /\ a * c \in Nat /\ b * c \in Nat /\ b * d \in Nat
      BY <3>2, <3>4
    <3> QED
      BY <3>1, <3>2, <3>3, <3>4, <3>5
  <2>6. ~Denser(x, first)
    <3>1. PICK v \in Nat : v = x.worth * first.cost
      BY <2>4
    <3>2. PICK w \in Nat : w = first.worth * x.cost
      BY <2>4
    <3> QED
      BY <2>4, <2>5, <3>1, <3>2 DEF Denser
  <2> QED
    BY <2>3, <2>6, <1>5
<1>6. PICK taken : Takes(q, order, n, taken) /\ K!Chosen(q, S) = taken[n].kept
  <2>1. order \in Seq(S) /\ order = K!ByDensity(S) /\ n = Len(order)
    BY <1>2, <1>3
  <2> QED
    BY <2>1, ChosenIs
<1> DEFINE P == {i \in Nat : FirstOrNone(q, S, first, at, i, taken[i])}
<1>7. 0 \in P
  BY <1>6 DEF Takes, FirstOrNone
<1>8. ASSUME NEW i \in 0 .. n - 1, i \in P PROVE i + 1 \in P
  <2>1. PICK k \in 1 .. n : k = i + 1 /\ k - 1 = i
    OBVIOUS
  <2>2. PICK x \in S : x = order[k]
    BY <1>3
  <2>3. PICK acc \in TakenRows : acc = taken[i]
    BY <1>6 DEF Takes
  <2>4. PICK more : more = taken[k] /\ more = K!Take(q, acc, x)
    BY <1>6, <2>1, <2>2, <2>3 DEF Takes
  <2>5. /\ more \in TakenRows /\ more.used >= acc.used
        /\ acc.kept \subseteq more.kept /\ more.kept \subseteq acc.kept \union {<<x.list, x.at>>}
        /\ x.list = 3 => IF acc.used + x.cost <= q.budget THEN <<x.list, x.at>> \in more.kept
                         ELSE more = acc
    BY <2>4, TakeIs
  <2>6. FirstOrNone(q, S, first, at, i, acc)
    BY <1>8, <2>3
  <2>7. /\ acc.used \in Nat /\ more.used \in Nat /\ first.cost \in Nat /\ x.cost \in Nat
        /\ x.list \in Nat /\ x.at \in Nat
    BY <2>5 DEF TakenRows, IsEntry
  <2>8. FirstOrNone(q, S, first, at, k, more)
    <3>1. CASE <<3, 1>> \in acc.kept
      BY <2>5, <3>1 DEF FirstOrNone
    <3>2. CASE <<3, 1>> \notin acc.kept /\ x.list # 3
      <4>1. k # at
        BY <1>4, <2>2, <3>2
      <4>2. \A j \in Nat : <<3, j>> \notin more.kept
        BY <2>5, <2>6, <3>2 DEF FirstOrNone
      <4>3. k >= at => acc.used + first.cost > q.budget
        BY <2>1, <2>6, <3>2, <4>1 DEF FirstOrNone
      <4> QED
        BY <2>5, <2>7, <4>2, <4>3 DEF FirstOrNone
    <3>3. CASE <<3, 1>> \notin acc.kept /\ x = first
      <4>1. acc.used + x.cost <= q.budget => <<3, 1>> \in more.kept
        BY <2>5, <3>3
      <4>2. ~(acc.used + x.cost <= q.budget) => more = acc
        BY <2>5, <3>3
      <4> QED
        BY <2>6, <2>7, <3>3, <4>1, <4>2 DEF FirstOrNone
    <3>4. CASE <<3, 1>> \notin acc.kept /\ x.list = 3 /\ x # first
      <4>1. k > at
        BY <1>4, <1>5, <2>2, <3>4
      <4>2. acc.used + first.cost > q.budget
        BY <2>1, <2>6, <3>4, <4>1 DEF FirstOrNone
      <4>3. first.cost <= x.cost
        BY <3>4
      <4>4. more = acc
        BY <2>5, <2>7, <3>4, <4>2, <4>3
      <4> QED
        BY <2>6, <3>4, <4>2, <4>4 DEF FirstOrNone
    <3> QED
      BY <3>1, <3>2, <3>3, <3>4
  <2>9. i + 1 \in Nat /\ FirstOrNone(q, S, first, at, i + 1, taken[i + 1])
    BY <2>1, <2>4, <2>8
  <2> QED
    BY <2>9
<1>9. \A i \in 0 .. n : i \in P
  <2> HIDE DEF P
  <2> QED
    BY <1>7, <1>8, UpTo
<1>10. FirstOrNone(q, S, first, at, n, taken[n]) /\ taken[n] \in TakenRows
  BY <1>6, <1>9 DEF Takes
<1>11. ASSUME NEW x \in taken[n].kept, x[1] = 3 PROVE <<3, 1>> \in taken[n].kept
  <2>1. PICK kept : kept = taken[n].kept /\ kept \in SUBSET ((1 .. 3) \X Nat)
    BY <1>10 DEF TakenRows
  <2>2. x \in (1 .. 3) \X Nat
    BY <1>11, <2>1
  <2>3. PICK k \in Nat : x = <<3, k>>
    BY <1>11, <2>2
  <2> QED
    BY <1>10, <1>11, <2>3 DEF FirstOrNone
<1> QED
  BY <1>6, <1>11

\* fit_to_budget: a page keeps its first row, unless a later row costs less.
LEMMA FirstKept ==
    ASSUME NEW g \in TaskGraph, NEW q \in TaskRequest, NEW lists, PageLists(g, lists), lists[3] # << >>,
           \A k \in DOMAIN lists[3] : g.nodes[lists[3][1].node].cost <= g.nodes[lists[3][k].node].cost
    PROVE  1 \in K!KeptRows(q, lists, g)
<1>1. PICK n \in Nat : n = Len(lists[3]) /\ DOMAIN lists[3] = 1 .. n /\ n # 0
  <2>1. IsList(lists[3])
    BY DEF PageLists, BestFirst
  <2>2. PICK m \in Nat : m = Len(lists[3]) /\ DOMAIN lists[3] = 1 .. m /\ lists[3] = [k \in 1 .. m |-> lists[3][k]]
    BY <2>1, ListIs DEF IsList
  <2>3. m # 0
    BY <2>2
  <2> QED
    BY <2>2, <2>3
<1>2. 1 \in 1 .. n
  BY <1>1
<1>3. CASE K!Fits(q, K!Entries(lists, g))
  BY <1>1, <1>2, <1>3 DEF K!KeptRows
<1>4. CASE ~K!Fits(q, K!Entries(lists, g))
  <2>1. PICK all : all = K!Entries(lists, g)
    OBVIOUS
  <2>2. q.budget \in Nat
    BY <1>4, RequestIs DEF K!Fits
  <2>3. PICK first \in all : first = EntryAt(g, lists, 3, 1)
    BY <1>1, <1>2, <2>1, EntriesFound
  <2>4. first.list = 3 /\ first.at = 1 /\ first.cost = g.nodes[lists[3][1].node].cost
    BY <2>3 DEF EntryAt, NodeAt
  <2>5. ASSUME NEW x \in all, x.list = 3
        PROVE  first.cost <= x.cost /\ x.worth <= first.worth /\ x.at >= 1
    <3>1. PICK k \in 1 .. n : k = x.at /\ x = EntryAt(g, lists, 3, k)
      BY <1>1, <2>1, <2>5, EntriesFound
    <3>2. x.cost = g.nodes[lists[3][k].node].cost
      BY <3>1 DEF EntryAt, NodeAt
    <3>3. x.worth <= first.worth
      BY <1>1, <2>3, <3>1, RowsFall
    <3> QED
      BY <1>1, <2>4, <3>1, <3>2, <3>3
  <2>6. /\ IsFiniteSet(all) /\ \A x \in all : IsEntry(x)
        /\ \A x, y \in all : x.list = y.list /\ x.at = y.at => x = y
    BY <2>1, EntriesFound
  <2>7. (\E x \in K!Chosen(q, all) : x[1] = 3) => <<3, 1>> \in K!Chosen(q, all)
    BY <2>2, <2>4, <2>5, <2>6, FirstChosen
  <2>8. PICK rows : /\ rows = IF \E x \in K!Chosen(q, all) : x[1] = 3 THEN K!Chosen(q, all)
                              ELSE K!Chosen(q, all) \union {<<3, 1>>}
                    /\ K!KeptRows(q, lists, g) = K!LeadingRun(rows, Len(lists[3]))
    BY <1>4, <2>1 DEF K!KeptRows
  <2>9. <<3, 1>> \in rows
    BY <2>7, <2>8
  <2>10. 1 \in K!LeadingRun(rows, n)
    <3>1. \A j \in 1 .. 1 : j = 1
      OBVIOUS
    <3> QED
      BY <1>2, <2>9, <3>1 DEF K!LeadingRun
  <2> QED
    BY <1>1, <2>8, <2>10
<1> QED
  BY <1>3, <1>4

\* fit_to_budget: rows are paged, so that only a leading run of them is kept.
LEMMA KeptIsRun ==
    ASSUME NEW q, NEW lists, NEW g, IsList(lists[3])
    PROVE  \E m \in 0 .. Len(lists[3]) : K!KeptRows(q, lists, g) = 1 .. m
<1>1. Len(lists[3]) \in Nat /\ DOMAIN lists[3] = 1 .. Len(lists[3])
  BY ListIs
<1>2. ASSUME NEW chosen
      PROVE  \E m \in 0 .. Len(lists[3]) : K!LeadingRun(chosen, Len(lists[3])) = 1 .. m
  <2> DEFINE n == Len(lists[3])
             out == {k \in 1 .. n : <<3, k>> \notin chosen}
  <2>1. CASE out = {}
    <3>1. K!LeadingRun(chosen, n) = 1 .. n
      BY <1>1, <2>1 DEF K!LeadingRun
    <3> QED
      BY <1>1, <3>1
  <2>2. CASE out # {}
    <3>1. PICK x \in out : \A y \in out : x <= y
      <4>1. out \in SUBSET Nat
        BY <1>1
      <4> HIDE DEF out
      <4> QED
        BY <2>2, <4>1, LeastNat
    <3>2. x - 1 \in 0 .. n /\ K!LeadingRun(chosen, n) = 1 .. x - 1
      BY <1>1, <3>1 DEF K!LeadingRun
    <3> QED
      BY <3>2
  <2> QED
    BY <2>1, <2>2
<1>3. \/ K!KeptRows(q, lists, g) = DOMAIN lists[3]
      \/ \E chosen : K!KeptRows(q, lists, g) = K!LeadingRun(chosen, Len(lists[3]))
  BY DEF K!KeptRows
<1> QED
  BY <1>1, <1>2, <1>3

\* Lists are sequences.
LEMMA ListSeq == ASSUME NEW s, IsList(s) PROVE s \in Seq({s[k] : k \in DOMAIN s})
<1>1. Len(s) \in Nat /\ DOMAIN s = 1 .. Len(s)
  BY ListIs
<1>2. PICK n \in Nat : s = [k \in 1 .. n |-> s[k]]
  BY DEF IsList
<1>3. s \in [1 .. n -> {s[k] : k \in DOMAIN s}]
  BY <1>2
<1> QED
  BY <1>2, <1>3

\* A function on a run of positions is a sequence.
LEMMA RunSeq ==
    ASSUME NEW X, NEW n \in Nat, NEW f \in [1 .. n -> X]
    PROVE  f \in Seq(X) /\ Len(f) = n
OBVIOUS

\* The rows of a page are those that follow the earlier pages.
LEMMA PageRows ==
    ASSUME NEW s, IsList(s), NEW m \in 0 .. Len(s), NEW n \in m .. Len(s)
    PROVE  /\ IsList(SubSeq(s, m + 1, n))
           /\ Len(SubSeq(s, m + 1, n)) = n - m
           /\ \A k \in 1 .. n - m : SubSeq(s, m + 1, n)[k] = s[m + k]
<1> DEFINE X == {s[k] : k \in DOMAIN s}
<1>1. s \in Seq(X) /\ Len(s) \in Nat
  BY ListSeq, ListIs
<1> HIDE DEF X
<1>2. SubSeq(s, m + 1, n) = [k \in 1 .. n - m |-> s[m + k]]
  BY <1>1
<1>3. n - m \in Nat
  BY <1>1
<1> QED
  BY <1>2, <1>3 DEF IsList

\* The candidates of a page.
LEMMA PageBest ==
    ASSUME NEW g, NEW list, BestFirst(g, list), NEW m \in 0 .. Len(list), NEW n \in m .. Len(list)
    PROVE  BestFirst(g, SubSeq(list, m + 1, n))
<1>1. IsList(list) /\ DOMAIN list = 1 .. Len(list) /\ Len(list) \in Nat
  BY ListIs DEF BestFirst
<1>2. PICK some : some = SubSeq(list, m + 1, n)
  OBVIOUS
<1>3. IsList(some) /\ Len(some) = n - m /\ \A k \in 1 .. n - m : some[k] = list[m + k]
  BY <1>1, <1>2, PageRows
<1>4. DOMAIN some = 1 .. n - m
  BY <1>3, ListIs
<1>5. \A k \in 1 .. n - m : m + k \in DOMAIN list
  BY <1>1
<1>6. \A k \in 1 .. n - m : some[k].node \in DOMAIN g.nodes /\ some[k].score \in Nat
  BY <1>3, <1>5 DEF BestFirst
<1>7. \A j, k \in 1 .. n - m : j < k => some[j].score >= some[k].score
  <2> TAKE j, k \in 1 .. n - m
  <2>1. m + j \in DOMAIN list /\ m + k \in DOMAIN list /\ (j < k => m + j < m + k)
    BY <1>1, <1>5
  <2> QED
    BY <1>3, <2>1 DEF BestFirst
<1> QED
  BY <1>2, <1>3, <1>4, <1>6, <1>7 DEF BestFirst

\* What has been shown of a list of candidates by m of them.
ShownOf(list, m) == [k \in 1 .. m |-> list[k].node]

\* budget.rs, next_offset: what a page adds to what has been shown.
LEMMA ShownMore ==
    ASSUME NEW list, IsList(list), NEW m \in 0 .. Len(list), NEW more \in Nat, m + more <= Len(list),
           NEW s, s = [k \in 1 .. more |-> list[m + k].node]
    PROVE  ShownOf(list, m) \o s = ShownOf(list, m + more)
<1>1. Len(list) \in Nat
  BY ListIs
<1> DEFINE X == {list[k].node : k \in 1 .. m + more}
<1>2. ShownOf(list, m) \in Seq(X) /\ s \in Seq(X) /\ Len(ShownOf(list, m)) = m /\ Len(s) = more
  <2>1. m \in Nat /\ ShownOf(list, m) \in [1 .. m -> X] /\ s \in [1 .. more -> X]
    <3>1. m \in Nat /\ \A k \in 1 .. m : k \in 1 .. m + more
      BY <1>1
    <3>2. \A k \in 1 .. more : m + k \in 1 .. m + more
      BY <1>1
    <3>3. ShownOf(list, m) \in [1 .. m -> X]
      BY <3>1 DEF ShownOf
    <3>4. s \in [1 .. more -> X]
      BY <3>2
    <3> QED
      BY <3>1, <3>3, <3>4
  <2> HIDE DEF X
  <2>2. ShownOf(list, m) \in Seq(X) /\ Len(ShownOf(list, m)) = m
    BY <2>1, RunSeq
  <2>3. s \in Seq(X) /\ Len(s) = more
    BY <2>1, RunSeq
  <2> QED
    BY <2>2, <2>3
<1> HIDE DEF X
<1>3. ShownOf(list, m) \o s = [k \in 1 .. m + more |-> IF k <= m THEN ShownOf(list, m)[k] ELSE s[k - m]]
  <2>1. PICK t : t = ShownOf(list, m)
    OBVIOUS
  <2>2. t \o s = [k \in 1 .. m + more |-> IF k <= m THEN t[k] ELSE s[k - m]]
    <3>1. t \in Seq(X) /\ s \in Seq(X) /\ Len(t) = m /\ Len(s) = more
      BY <1>2, <2>1
    <3>2. t \o s = [k \in 1 .. Len(t) + Len(s) |-> IF k <= Len(t) THEN t[k] ELSE s[k - Len(t)]]
      BY <3>1
    <3> QED
      BY <3>1, <3>2
  <2> QED
    BY <2>1, <2>2
<1>4. \A k \in 1 .. m + more : (IF k <= m THEN ShownOf(list, m)[k] ELSE s[k - m]) = list[k].node
  BY <1>1 DEF ShownOf
<1> QED
  BY <1>3, <1>4 DEF ShownOf

\* The candidates shown so far lead all that were found, as far as the offset says.
TaskInv ==
    /\ taskGraph \in TaskGraph /\ question \in TaskRequest
    /\ found = K!Found(taskGraph, question)
    /\ \E m \in 0 .. Len(found.candidates) :
          /\ shown = ShownOf(found.candidates, m)
          /\ offset = m \/ (offset = Unset /\ m = Len(found.candidates))

\* query --q: nothing has been shown before the first page.
LEMMA TaskInit == K!Init => TaskInv
<1> SUFFICES ASSUME K!Init PROVE TaskInv
  OBVIOUS
<1>1. taskGraph \in TaskGraph /\ question \in TaskRequest /\ found = K!Found(taskGraph, question)
      /\ offset = 0 /\ shown = << >>
  BY DEF K!Init
<1>2. Len(found.candidates) \in Nat
  BY <1>1, CandidatesListed, ListIs
<1>3. ShownOf(found.candidates, 0) = << >>
  BY DEF ShownOf
<1> QED
  BY <1>1, <1>2, <1>3 DEF TaskInv

\* A page goes on where the last one ended.
LEMMA TaskStep == TaskInv /\ K!Page => TaskInv'
<1> SUFFICES ASSUME TaskInv, K!Page PROVE TaskInv'
  OBVIOUS
<1> DEFINE list == found.candidates
           last == K!Min({offset + question.limit, Len(list)})
           rows == SubSeq(list, offset + 1, last)
           kept == K!KeptRows(question, <<found.constraints, found.neighborhood, rows>>, taskGraph)
           listed == K!At(rows, kept)
<1>1. /\ taskGraph' = taskGraph /\ question' = question /\ found' = found
      /\ offset # Unset
      /\ shown' = shown \o [k \in DOMAIN listed |-> listed[k].node]
      /\ offset' = IF offset + Len(listed) < Len(list) THEN offset + Len(listed) ELSE Unset
  BY DEF K!Page, K!Rows, K!Kept
<1>2. taskGraph \in TaskGraph /\ question \in TaskRequest /\ found = K!Found(taskGraph, question)
  BY DEF TaskInv
<1>3. IsList(list) /\ Len(list) \in Nat
  BY <1>2, CandidatesListed, ListIs
<1>4. offset \in 0 .. Len(list) /\ shown = ShownOf(list, offset)
  BY <1>1 DEF TaskInv
<1>5. last \in offset .. Len(list)
  <2>1. question.limit \in Nat
    BY <1>2, AnswersAssumption DEF K!TaskAssumption
  <2> HIDE DEF list
  <2> QED
    BY <1>3, <1>4, <2>1 DEF K!Min
<1> HIDE DEF last
<1>6. /\ IsList(rows) /\ Len(rows) = last - offset
      /\ \A k \in 1 .. last - offset : rows[k] = list[offset + k]
  <2> HIDE DEF list
  <2> QED
    BY <1>3, <1>4, <1>5, PageRows
<1>7. PICK m \in 0 .. last - offset : kept = 1 .. m
  <2>1. PICK lists : lists = <<found.constraints, found.neighborhood, rows>>
    OBVIOUS
  <2>2. lists[3] = rows
    BY <2>1
  <2> HIDE DEF rows
  <2>3. \E m \in 0 .. Len(lists[3]) : K!KeptRows(question, lists, taskGraph) = 1 .. m
    BY <1>6, <2>2, KeptIsRun
  <2> QED
    BY <1>6, <2>1, <2>2, <2>3
<1> HIDE DEF kept
<1>8. m \in Nat /\ listed = [k \in 1 .. m |-> rows[k]]
  <2> HIDE DEF rows, list
  <2>1. m \in Nat
    BY <1>3, <1>4, <1>5
  <2> QED
    BY <1>7, <2>1, AtRun
<1> HIDE DEF rows, listed
<1>9. Len(listed) = m /\ DOMAIN listed = 1 .. m /\ offset + m \in 0 .. Len(list)
  <2> HIDE DEF list
  <2> QED
    BY <1>3, <1>4, <1>5, <1>8
<1>10. [k \in DOMAIN listed |-> listed[k].node] = [k \in 1 .. m |-> list[offset + k].node]
  <2> HIDE DEF list
  <2>1. \A k \in 1 .. m : listed[k] = list[offset + k]
    BY <1>3, <1>4, <1>5, <1>6, <1>7, <1>8
  <2> QED
    BY <1>9, <2>1
<1>11. shown' = ShownOf(list, offset + m)
  <2>1. PICK s : s = [k \in 1 .. m |-> list[offset + k].node]
    OBVIOUS
  <2>2. shown' = ShownOf(list, offset) \o s
    BY <1>1, <1>4, <1>10, <2>1
  <2>3. PICK l : l = list
    OBVIOUS
  <2> HIDE DEF list
  <2>4. IsList(l) /\ offset \in 0 .. Len(l) /\ m \in Nat /\ offset + m <= Len(l)
        /\ s = [k \in 1 .. m |-> l[offset + k].node]
    BY <1>3, <1>4, <1>8, <1>9, <2>1, <2>3
  <2>5. ShownOf(l, offset) \o s = ShownOf(l, offset + m)
    BY <2>4, ShownMore
  <2> QED
    BY <2>2, <2>3, <2>5
<1>12. offset' = offset + m \/ (offset' = Unset /\ offset + m = Len(list))
  <2>1. offset' = IF offset + m < Len(list) THEN offset + m ELSE Unset
    BY <1>1, <1>9
  <2>2. PICK n : n = Len(list) /\ n \in Nat
    BY <1>3
  <2> HIDE DEF list
  <2> QED
    BY <1>9, <2>1, <2>2
<1> QED
  BY <1>1, <1>2, <1>9, <1>11, <1>12 DEF TaskInv

\* Other components leave the pages alone.
LEMMA TaskStill == TaskInv /\ UNCHANGED taskEntryVars => TaskInv'
BY DEF TaskInv, taskEntryVars, ShownOf

\* budget.rs, the best row is always kept: a page goes on, unless a later row costs less.
LEMMA PageGoesOn ==
    ASSUME TaskInv, offset # Unset, K!Rows # << >>,
           \A k \in DOMAIN K!Rows : taskGraph.nodes[K!Rows[1].node].cost <= taskGraph.nodes[K!Rows[k].node].cost
    PROVE  1 \in K!Kept
<1>1. taskGraph \in TaskGraph /\ question \in TaskRequest /\ found = K!Found(taskGraph, question)
  BY DEF TaskInv
<1>2. PICK list : list = found.candidates /\ BestFirst(taskGraph, list)
  BY <1>1, CandidatesBest
<1>3. PICK n \in Nat : n = Len(list)
  BY <1>2, ListIs DEF BestFirst
<1>4. offset \in 0 .. n
  BY <1>2, <1>3 DEF TaskInv
<1>5. PICK last \in offset .. n : last = K!Min({offset + question.limit, n})
  <2>1. question.limit \in Nat
    BY <1>1, RequestIs
  <2>2. PICK m \in Nat : m = offset + question.limit /\ offset <= m
    BY <1>4, <2>1
  <2>3. K!Min({m, n}) \in Nat /\ K!Min({m, n}) <= n /\ (K!Min({m, n}) = m \/ K!Min({m, n}) = n)
    BY DEF K!Min
  <2> QED
    BY <1>4, <2>2, <2>3
<1>6. PICK rows : rows = K!Rows /\ rows = SubSeq(list, offset + 1, last)
  BY <1>2, <1>3, <1>5 DEF K!Rows
<1>7. BestFirst(taskGraph, rows)
  BY <1>2, <1>3, <1>4, <1>5, <1>6, PageBest
<1>8. PICK lists : lists = <<found.constraints, found.neighborhood, rows>>
  OBVIOUS
<1>9. PageLists(taskGraph, lists) /\ lists[3] = rows
  <2>1. NodeList(taskGraph, found.constraints) /\ NodeList(taskGraph, found.neighborhood)
    BY <1>1, ConstraintsIs, NeighborhoodIs
  <2>2. lists[1] = found.constraints /\ lists[2] = found.neighborhood /\ lists[3] = rows
    BY <1>8
  <2> QED
    BY <1>7, <2>1, <2>2 DEF PageLists
<1>10. 1 \in K!KeptRows(question, lists, taskGraph)
  BY <1>1, <1>6, <1>9, FirstKept
<1> QED
  BY <1>6, <1>8, <1>10 DEF K!Kept

\* What the invariant says of the pages.
LEMMA TaskHolds == TaskInv => K!PagesShowAll
<1> SUFFICES ASSUME TaskInv PROVE K!PagesShowAll
  OBVIOUS
<1> DEFINE list == found.candidates
           all == [k \in DOMAIN list |-> list[k].node]
<1>1. taskGraph \in TaskGraph /\ question \in TaskRequest /\ found = K!Found(taskGraph, question)
  BY DEF TaskInv
<1>2. IsList(list) /\ Len(list) \in Nat /\ DOMAIN list = 1 .. Len(list)
  BY <1>1, CandidatesListed, ListIs
<1>3. PICK m \in 0 .. Len(list) : /\ shown = ShownOf(list, m)
                                  /\ offset = m \/ (offset = Unset /\ m = Len(list))
  BY DEF TaskInv
<1>4. offset = Unset => m = Len(list)
  BY <1>2, <1>3, AnswersAssumption DEF K!TaskAssumption
<1>5. shown = K!Leading(all, Len(shown))
  <2> HIDE DEF list
  <2>1. IsList(all) /\ Len(all) = Len(list) /\ m \in Nat /\ m <= Len(list)
    BY <1>2 DEF IsList
  <2>2. \A k \in 1 .. m : all[k] = list[k].node
    BY <1>2
  <2> HIDE DEF all
  <2>3. K!Leading(all, m) = [k \in 1 .. m |-> all[k]]
    BY <2>1, LeadingIs
  <2>4. Len(shown) = m
    <3>1. shown \in [1 .. m -> {list[k].node : k \in 1 .. m}]
      BY <1>3 DEF ShownOf
    <3> QED
      BY <2>1, <3>1, RunSeq
  <2> QED
    BY <1>3, <2>2, <2>3, <2>4 DEF ShownOf
<1>6. offset = Unset => shown = all
  <2> HIDE DEF list
  <2> QED
    BY Zenon, <1>2, <1>3, <1>4 DEF ShownOf
<1>7. found.resolution = "ready" =>
        /\ K!Cardinality(found.baseline) = 1
        /\ \A i \in found.admitted : K!Approved(taskGraph, {i}) # {} =>
              \E j \in found.ranked : j = i \/ K!SameDocument(taskGraph.nodes[j], taskGraph.nodes[i])
  BY <1>1, ReadyHolds, SameCount
<1>8. offset # Unset /\ K!Rows # << >>
      /\ (\A k \in DOMAIN K!Rows : taskGraph.nodes[K!Rows[1].node].cost <= taskGraph.nodes[K!Rows[k].node].cost)
      => 1 \in K!Kept
  BY PageGoesOn
<1> HIDE DEF list
<1> QED
  BY <1>5, <1>6, <1>7, <1>8 DEF K!PagesShowAll, list

-----------------------------------------------------------------------------
(***************************************************************************)
(* Middleware, the decisions: the walk over ancestors is closed, and what no*)
(* guard reaches rests on nothing that was replaced or competes.           *)
(***************************************************************************)

\* A request of decisions that validate accepts.
Sound(r) == r \in HistoryFile /\ M!Valid(r)

\* validate: what a decision names are earlier decisions of its task.
LEMMA SoundIs ==
    ASSUME NEW r, Sound(r)
    PROVE  /\ Len(r.events) \in Nat /\ M!Indices(r.events) = 1 .. Len(r.events)
           /\ \A i \in M!Indices(r.events) : \A list \in {r.events[i].supersedes, r.events[i].depends_on} :
                /\ DOMAIN list = 1 .. Len(list) /\ Len(list) \in Nat
                /\ \A n \in DOMAIN list :
                      /\ M!Position(r.events, list[n]) \in 1 .. i - 1
                      /\ r.events[M!Position(r.events, list[n])].id = list[n]
                      /\ r.events[M!Position(r.events, list[n])].task = r.events[i].task
<1>1. /\ Len(r.events) \in Nat
      /\ \A i \in M!Indices(r.events) : \A list \in {r.events[i].supersedes, r.events[i].depends_on} :
           DOMAIN list = 1 .. Len(list) /\ Len(list) \in Nat
  BY AnswersAssumption DEF Sound, M!MiddlewareAssumption
<1>2. M!Indices(r.events) = 1 .. Len(r.events)
  BY DEF M!Indices
<1>3. ASSUME NEW i \in M!Indices(r.events), NEW list \in {r.events[i].supersedes, r.events[i].depends_on},
             NEW n \in DOMAIN list
      PROVE  /\ M!Position(r.events, list[n]) \in 1 .. i - 1
             /\ r.events[M!Position(r.events, list[n])].id = list[n]
             /\ r.events[M!Position(r.events, list[n])].task = r.events[i].task
  <2>1. list[n] \in M!Ids(list)
    BY DEF M!Ids
  <2>2. PICK j \in 1 .. i - 1 : r.events[j].id = list[n] /\ r.events[j].task = r.events[i].task
    <3>1. M!ReferencesHold(r.events)
      BY DEF Sound, M!Valid
    <3>2. \A id \in M!Ids(list) : \E j \in 1 .. i - 1 :
             r.events[j].id = id /\ r.events[j].task = r.events[i].task
      BY <3>1 DEF M!ReferencesHold
    <3> QED
      BY <2>1, <3>2
  <2>3. j \in M!Indices(r.events)
    BY <1>1, <1>2
  <2>4. \A k \in M!Indices(r.events) : r.events[k].id = list[n] => k = j
    BY <2>2, <2>3 DEF Sound, M!Valid, M!UniqueIds
  <2>5. M!Position(r.events, list[n]) = j
    BY <2>2, <2>3, <2>4 DEF M!Position
  <2> QED
    BY <2>2, <2>5
<1> QED
  BY <1>1, <1>2, <1>3

Refers(es, i, id) ==
    \E n \in 1 .. Len(M!References(es, i)) : es[M!References(es, i)[n][1]].id = id

\* collect_ancestors: what a decision refers to are earlier decisions of its task,
\* all that it depends on among them.
LEMMA ReferencesAre ==
    ASSUME NEW r, Sound(r), NEW i \in M!Indices(r.events)
    PROVE  /\ Len(M!References(r.events, i)) \in Nat
           /\ \A n \in 1 .. Len(M!References(r.events, i)) :
                LET ref == M!References(r.events, i)[n]
                IN /\ ref[1] \in 1 .. i - 1 /\ ref[1] \in M!Indices(r.events)
                   /\ ref \in M!Met(r.events) /\ ref[2] # "current"
                   /\ r.events[ref[1]].task = r.events[i].task
           /\ \A id \in M!Ids(r.events[i].depends_on) : Refers(r.events, i, id)
<1> DEFINE es == r.events
           Good(x) == /\ x[1] \in 1 .. i - 1 /\ x[1] \in M!Indices(r.events)
                      /\ x \in M!Met(r.events) /\ x[2] # "current"
                      /\ r.events[x[1]].task = r.events[i].task
           Set == {x \in M!Met(r.events) : Good(x)}
           d == [n \in DOMAIN es[i].depends_on |-> <<M!Position(es, es[i].depends_on[n]), "dependency">>]
           s == [n \in DOMAIN es[i].supersedes |-> <<M!Position(es, es[i].supersedes[n]), "superseded">>]
<1>1. M!References(es, i) = d \o s
  BY DEF M!References
<1>2. Len(es) \in Nat /\ M!Indices(es) = 1 .. Len(es)
  BY SoundIs
<1>3. \A list \in {es[i].supersedes, es[i].depends_on} :
         /\ DOMAIN list = 1 .. Len(list) /\ Len(list) \in Nat
         /\ \A n \in DOMAIN list :
               /\ M!Position(es, list[n]) \in 1 .. i - 1
               /\ M!Position(es, list[n]) \in M!Indices(es)
               /\ es[M!Position(es, list[n])].id = list[n]
               /\ es[M!Position(es, list[n])].task = es[i].task
  BY <1>2, SoundIs
<1>4. \A j \in M!Indices(es) : j \in 1 .. i - 1 /\ es[j].task = es[i].task =>
         <<j, "dependency">> \in Set /\ <<j, "superseded">> \in Set
  BY DEF M!Met
<1>5. d \in [1 .. Len(es[i].depends_on) -> Set] /\ s \in [1 .. Len(es[i].supersedes) -> Set]
  <2> HIDE DEF Set
  <2> QED
    BY <1>3, <1>4
<1>6. d \in Seq(Set) /\ Len(d) = Len(es[i].depends_on)
  <2> HIDE DEF Set, d, s
  <2> QED
    BY <1>3, <1>5, RunSeq
<1>7. s \in Seq(Set) /\ Len(s) = Len(es[i].supersedes)
  <2> HIDE DEF Set, d, s
  <2> QED
    BY <1>3, <1>5, RunSeq
<1>8. /\ d \o s \in Seq(Set) /\ Len(d \o s) \in Nat
      /\ \A n \in 1 .. Len(d \o s) : (d \o s)[n] \in Set
      /\ \A n \in 1 .. Len(d) : (d \o s)[n] = d[n] /\ n \in 1 .. Len(d \o s)
  <2> HIDE DEF Set, d, s
  <2> QED
    BY <1>6, <1>7
<1>9. ASSUME NEW id \in M!Ids(es[i].depends_on)
      PROVE  \E n \in 1 .. Len(d \o s) : es[(d \o s)[n][1]].id = id
  <2>1. PICK n \in DOMAIN es[i].depends_on : id = es[i].depends_on[n]
    BY DEF M!Ids
  <2>2. n \in 1 .. Len(d) /\ d[n][1] = M!Position(es, es[i].depends_on[n])
    BY <1>3, <1>6
  <2>3. es[d[n][1]].id = id
    BY <1>3, <2>1, <2>2
  <2> HIDE DEF d, s
  <2> QED
    BY <1>8, <2>2, <2>3
<1> HIDE DEF d, s
<1>10. \A id \in M!Ids(es[i].depends_on) : Refers(es, i, id)
  BY Zenon, <1>1, <1>9 DEF Refers
<1> QED
  BY <1>1, <1>8, <1>10

\* collect_ancestors: one reference further.
Followed(es, f, i, n, met) ==
    IF n = 0 THEN met
    ELSE LET before == f[i][n - 1][met]
             ref == M!References(es, i)[n]
         IN IF ref[1] \in M!Events(before) THEN before
            ELSE f[ref[1]][Len(M!References(es, ref[1]))][before \union {ref}]

WalkOf(es, f, i) ==
    f[i] = [n \in 0 .. Len(M!References(es, i)) |-> [met \in SUBSET M!Met(es) |-> Followed(es, f, i, n, met)]]

WalkType(es, i) ==
    [0 .. Len(M!References(es, i)) -> [SUBSET M!Met(es) -> SUBSET M!Met(es)]]

RowOf(es, f, i, h) ==
    h = [n \in 0 .. Len(M!References(es, i)) |->
            [met \in SUBSET M!Met(es) |->
                IF n = 0 THEN met
                ELSE LET before == h[n - 1][met]
                         ref == M!References(es, i)[n]
                     IN IF ref[1] \in M!Events(before) THEN before
                        ELSE f[ref[1]][Len(M!References(es, ref[1]))][before \union {ref}]]]

\* The walk through the references of a decision is defined: they are earlier ones.
LEMMA WalkStep ==
    ASSUME NEW r, Sound(r), NEW i \in M!Indices(r.events), NEW f,
           \A j \in 1 .. i - 1 : f[j] \in WalkType(r.events, j)
    PROVE  \E h \in WalkType(r.events, i) : RowOf(r.events, f, i, h)
<1> USE DEF WalkType
<1> DEFINE es == r.events
           W == SUBSET M!Met(es)
           X == [W -> W]
           refs == M!References(es, i)
           L == Len(refs)
           Next_(before, n) == IF refs[n][1] \in M!Events(before) THEN before
                               ELSE f[refs[n][1]][Len(M!References(es, refs[n][1]))][before \union {refs[n]}]
           step == [n \in 0 .. L |-> [h \in [0 .. L -> X] |->
                      [met \in W |-> IF n = 0 THEN met ELSE Next_(h[n - 1][met], n)]]]
<1>1. L \in Nat /\ \A n \in 1 .. L : refs[n][1] \in 1 .. i - 1 /\ refs[n] \in M!Met(es)
  BY ReferencesAre
<1>2. \A j \in 1 .. i - 1 : Len(M!References(es, j)) \in Nat
  <2>1. \A j \in 1 .. i - 1 : j \in M!Indices(es)
    BY SoundIs
  <2> QED
    BY <2>1, ReferencesAre
<1>3. ASSUME NEW n \in 1 .. L, NEW before \in W PROVE Next_(before, n) \in W
  <2>1. PICK j \in 1 .. i - 1 : j = refs[n][1]
    BY <1>1
  <2>2. PICK k : k = Len(M!References(es, j)) /\ k \in Nat
    BY <1>2
  <2>3. f[j][k] \in X
    <3>1. f[j] \in [0 .. k -> X]
      BY <2>2
    <3> HIDE DEF X
    <3> QED
      BY <2>2, <3>1
  <2>4. before \union {refs[n]} \in W
    BY <1>1
  <2> HIDE DEF W, refs
  <2>5. f[j][k][before \union {refs[n]}] \in W
    BY <2>3, <2>4
  <2> QED
    BY <2>1, <2>2, <2>5
<1> HIDE DEF W, Next_, L
<1>4. ASSUME NEW n \in 0 .. L, NEW h \in [0 .. L -> X] PROVE step[n][h] \in X
  <2>1. step[n][h] = [met \in W |-> IF n = 0 THEN met ELSE Next_(h[n - 1][met], n)]
    OBVIOUS
  <2>2. ASSUME NEW met \in W PROVE (IF n = 0 THEN met ELSE Next_(h[n - 1][met], n)) \in W
    <3>1. CASE n = 0
      BY <3>1
    <3>2. CASE n # 0
      <4>1. n - 1 \in 0 .. L /\ n \in 1 .. L
        BY <1>1, <3>2
      <4>2. h[n - 1][met] \in W
        BY <4>1
      <4> QED
        BY <1>3, <3>2, <4>1, <4>2
    <3> QED
      BY <3>1, <3>2
  <2> QED
    BY <2>1, <2>2
<1>5. ASSUME NEW n \in 0 .. L, NEW v \in [0 .. L -> X], NEW w \in [0 .. L -> X],
             \A j \in 0 .. n - 1 : v[j] = w[j]
      PROVE  step[n][v] = step[n][w]
  <2>1. CASE n = 0
    BY <2>1
  <2>2. CASE n # 0
    <3>1. v[n - 1] = w[n - 1]
      BY <1>1, <1>5, <2>2
    <3> QED
      BY <3>1
  <2> QED
    BY <2>1, <2>2
<1>6. [met \in W |-> met] \in X
  OBVIOUS
<1>7. PICK h : Solves(0, L, X, step, h)
  <2> HIDE DEF X, step
  <2>1. \A n \in 0 .. L : \A v \in [0 .. L -> X] : step[n][v] \in X
    BY <1>4
  <2>2. \A n \in 0 .. L : \A v, w \in [0 .. L -> X] : (\A j \in 0 .. n - 1 : v[j] = w[j]) => step[n][v] = step[n][w]
    BY <1>5
  <2>3. Defines(0, L, X, step) /\ X # {}
    BY <1>6, <2>1, <2>2 DEF Defines
  <2> QED
    BY <1>1, <2>3, RecursionExists
<1>8. h \in [0 .. L -> X] /\ \A n \in 0 .. L : h[n] = [met \in W |-> IF n = 0 THEN met ELSE Next_(h[n - 1][met], n)]
  BY <1>7 DEF Solves
<1>9. h = [n \in 0 .. L |-> [met \in W |-> IF n = 0 THEN met ELSE Next_(h[n - 1][met], n)]]
  <2> HIDE DEF step, X
  <2> QED
    BY <1>8
<1> QED
  BY Zenon, <1>8, <1>9 DEF W, Next_, L, RowOf

WalkTo(es, f, k) ==
    /\ f = [i \in M!Indices(es) |-> f[i]]
    /\ \A i \in 1 .. k : WalkOf(es, f, i) /\ f[i] \in WalkType(es, i)

\* What is met depends on what was defined below only.
LEMMA WalkAgrees ==
    ASSUME NEW r, Sound(r), NEW i \in M!Indices(r.events), NEW f, NEW g,
           \A j \in 1 .. i - 1 : g[j] = f[j], NEW h, g[i] = h, RowOf(r.events, f, i, h)
    PROVE  WalkOf(r.events, g, i)
<1> DEFINE refs == M!References(r.events, i)
<1>1. \A n \in 1 .. Len(refs) : g[refs[n][1]] = f[refs[n][1]]
  BY ReferencesAre
<1>2. Len(refs) \in Nat
  BY ReferencesAre
<1> DEFINE Of(n, met) ==
               IF n = 0 THEN met
               ELSE LET before == h[n - 1][met]
                        ref == refs[n]
                    IN IF ref[1] \in M!Events(before) THEN before
                       ELSE f[ref[1]][Len(M!References(r.events, ref[1]))][before \union {ref}]
<1>3. ASSUME NEW n \in 0 .. Len(refs), NEW met
      PROVE  Followed(r.events, g, i, n, met) = Of(n, met)
  <2>1. CASE n = 0
    BY <2>1 DEF Followed
  <2>2. CASE n # 0
    <3>1. n \in 1 .. Len(refs)
      BY <1>2, <2>2
    <3>2. g[refs[n][1]] = f[refs[n][1]]
      BY <1>1, <3>1
    <3>3. Followed(r.events, g, i, n, met) =
             IF refs[n][1] \in M!Events(h[n - 1][met]) THEN h[n - 1][met]
             ELSE g[refs[n][1]][Len(M!References(r.events, refs[n][1]))][h[n - 1][met] \union {refs[n]}]
      BY Zenon, <2>2 DEF Followed
    <3> HIDE DEF refs
    <3> QED
      BY <2>2, <3>2, <3>3
  <2> QED
    BY <2>1, <2>2
<1>4. h = [n \in 0 .. Len(refs) |-> [met \in SUBSET M!Met(r.events) |-> Of(n, met)]]
  BY Zenon DEF RowOf
<1>5. g[i] = h
  OBVIOUS
<1> HIDE DEF Of
<1>6. h = [n \in 0 .. Len(refs) |-> [met \in SUBSET M!Met(r.events) |-> Followed(r.events, g, i, n, met)]]
  BY Zenon, <1>3, <1>4
<1> QED
  BY <1>5, <1>6 DEF WalkOf

\* A walk that is defined is one step from what it is made of.
LEMMA WalkRow ==
    ASSUME NEW es, NEW f, NEW i, WalkOf(es, f, i)
    PROVE  RowOf(es, f, i, f[i])
BY Zenon DEF WalkOf, RowOf, Followed

\* The walk is defined for one decision more,
LEMMA WalkMore ==
    ASSUME NEW r, Sound(r), NEW i \in M!Indices(r.events), NEW f, WalkTo(r.events, f, i - 1)
    PROVE  \E g : WalkTo(r.events, g, i)
<1>1. Len(r.events) \in Nat /\ M!Indices(r.events) = 1 .. Len(r.events) /\ i \in 1 .. Len(r.events)
  BY SoundIs
<1>2. \A j \in 1 .. i - 1 : f[j] \in WalkType(r.events, j)
  BY DEF WalkTo
<1>3. PICK h \in WalkType(r.events, i) : RowOf(r.events, f, i, h)
  BY <1>2, WalkStep
<1> DEFINE g == [f EXCEPT ![i] = h]
<1>4. g = [j \in M!Indices(r.events) |-> g[j]] /\ g[i] = h /\ \A j \in 1 .. i - 1 : g[j] = f[j]
  <2>1. DOMAIN f = M!Indices(r.events) /\ g = [j \in DOMAIN f |-> IF j = i THEN h ELSE f[j]]
    BY DEF WalkTo
  <2> HIDE DEF g
  <2> QED
    BY <1>1, <2>1
<1> HIDE DEF g
<1>5. ASSUME NEW j \in 1 .. i - 1 PROVE WalkOf(r.events, g, j) /\ g[j] \in WalkType(r.events, j)
  <2>1. WalkOf(r.events, f, j) /\ f[j] \in WalkType(r.events, j) /\ g[j] = f[j]
    BY <1>4 DEF WalkTo
  <2>2. RowOf(r.events, f, j, f[j])
    BY <2>1, WalkRow
  <2>3. j \in M!Indices(r.events) /\ \A k \in 1 .. j - 1 : g[k] = f[k]
    <3>1. j \in 1 .. Len(r.events) /\ \A k \in 1 .. j - 1 : k \in 1 .. i - 1
      BY <1>1
    <3> QED
      BY <1>1, <1>4, <3>1
  <2> QED
    BY <2>1, <2>2, <2>3, WalkAgrees
<1>6. WalkOf(r.events, g, i) /\ g[i] \in WalkType(r.events, i)
  BY <1>3, <1>4, WalkAgrees
<1>7. \A j \in 1 .. i : j \in 1 .. i - 1 \/ j = i
  BY <1>1
<1> QED
  BY <1>4, <1>5, <1>6, <1>7 DEF WalkTo

\* and so for all.
LEMMA WalkIs ==
    ASSUME NEW r, Sound(r)
    PROVE  \A i \in M!Indices(r.events) : WalkOf(r.events, M!Walk(r.events), i)
<1> DEFINE es == r.events
           P == {k \in Nat : \E f : WalkTo(es, f, k)}
           Is(f) == f = [i \in M!Indices(es) |->
                            [n \in 0 .. Len(M!References(es, i)) |->
                               [met \in SUBSET M!Met(es) |-> Followed(es, f, i, n, met)]]]
<1>1. Len(es) \in Nat /\ M!Indices(es) = 1 .. Len(es)
  BY SoundIs
<1>2. 0 \in P
  <2> DEFINE f0 == [i \in M!Indices(es) |-> 0]
  <2>1. f0 = [i \in M!Indices(es) |-> f0[i]]
    OBVIOUS
  <2>2. WalkTo(es, f0, 0)
    BY <2>1 DEF WalkTo
  <2> QED
    BY <2>2
<1>3. ASSUME NEW k \in 0 .. Len(es) - 1, k \in P PROVE k + 1 \in P
  <2>1. PICK i \in M!Indices(r.events) : i = k + 1 /\ k = i - 1
    BY <1>1
  <2>2. PICK f : WalkTo(r.events, f, i - 1)
    BY <1>3, <2>1
  <2>3. \E g : WalkTo(r.events, g, i)
    BY <2>2, WalkMore
  <2> QED
    BY <2>1, <2>3
<1>4. Len(es) \in P
  <2> HIDE DEF P
  <2> QED
    BY <1>1, <1>2, <1>3, UpTo
<1>5. PICK f : WalkTo(es, f, Len(es))
  BY <1>4
<1>6. Is(f)
  BY <1>1, <1>5 DEF WalkTo, WalkOf
<1>7. M!Walk(es) = CHOOSE w : Is(w)
  BY DEF M!Walk, Followed
<1>8. Is(M!Walk(es))
  <2> HIDE DEF Is
  <2> QED
    BY <1>6, <1>7
<1> QED
  BY <1>8 DEF WalkOf

\* All that a decision refers to has been met.
Closed(es, j, met) ==
    \A k \in 1 .. Len(M!References(es, j)) : M!References(es, j)[k][1] \in M!Events(met)

\* What the walk makes of met when it has followed n references of i.
Meets(es, i, n, met, all) ==
    /\ all \in SUBSET M!Met(es) /\ met \subseteq all
    /\ \A k \in 1 .. n : M!References(es, i)[k][1] \in M!Events(all)
    /\ \A m \in all \ met : m[2] # "current" /\ es[m[1]].task = es[i].task /\ Closed(es, m[1], all)

\* collect_ancestors: what has been met stays met,
LEMMA EventsGrow == ASSUME NEW met, NEW all, met \subseteq all PROVE M!Events(met) \subseteq M!Events(all)
BY DEF M!Events

\* and so does all that a decision refers to.
LEMMA ClosedGrows ==
    ASSUME NEW es, NEW j, NEW met, NEW all, met \subseteq all, Closed(es, j, met)
    PROVE  Closed(es, j, all)
BY EventsGrow DEF Closed

\* collect_ancestors: a reference that was met already,
LEMMA MeetAgain ==
    ASSUME NEW es, NEW i, NEW n \in Nat, n # 0, NEW met, NEW all, Meets(es, i, n - 1, met, all),
           M!References(es, i)[n][1] \in M!Events(all)
    PROVE  Meets(es, i, n, met, all)
<1>1. \A k \in 1 .. n : k \in 1 .. n - 1 \/ k = n
  OBVIOUS
<1> QED
  BY <1>1 DEF Meets

\* and one that was not, and is visited.
LEMMA MeetNew ==
    ASSUME NEW r, Sound(r), NEW i \in M!Indices(r.events), NEW n \in 1 .. Len(M!References(r.events, i)),
           NEW met, NEW before, Meets(r.events, i, n - 1, met, before),
           NEW ref, ref = M!References(r.events, i)[n], NEW all,
           Meets(r.events, ref[1], Len(M!References(r.events, ref[1])), before \union {ref}, all)
    PROVE  Meets(r.events, i, n, met, all)
<1> DEFINE es == r.events
<1>1. /\ ref \in M!Met(es) /\ ref[2] # "current" /\ es[ref[1]].task = es[i].task
      /\ Len(M!References(es, i)) \in Nat
  BY ReferencesAre
<1>2. /\ all \in SUBSET M!Met(es) /\ before \union {ref} \subseteq all
      /\ Closed(es, ref[1], all)
      /\ \A m \in all \ (before \union {ref}) :
            m[2] # "current" /\ es[m[1]].task = es[ref[1]].task /\ Closed(es, m[1], all)
  BY DEF Meets, Closed
<1>3. met \subseteq before /\ \A k \in 1 .. n - 1 : M!References(es, i)[k][1] \in M!Events(all)
  BY <1>2, EventsGrow DEF Meets
<1>4. ref[1] \in M!Events(all)
  BY <1>2 DEF M!Events
<1>5. \A k \in 1 .. n : k \in 1 .. n - 1 \/ k = n
  BY <1>1
<1>6. ASSUME NEW m \in all \ met
      PROVE  m[2] # "current" /\ es[m[1]].task = es[i].task /\ Closed(es, m[1], all)
  <2>1. CASE m \in before
    <3>1. m[2] # "current" /\ es[m[1]].task = es[i].task /\ Closed(es, m[1], before)
      BY <1>6, <2>1 DEF Meets
    <3> QED
      BY <1>2, <3>1, ClosedGrows
  <2>2. CASE m = ref
    BY <1>1, <1>2, <2>2
  <2>3. CASE m \notin before \union {ref}
    BY <1>1, <1>2, <1>6, <2>3
  <2> QED
    BY <2>1, <2>2, <2>3
<1>7. \A k \in 1 .. n : M!References(es, i)[k][1] \in M!Events(all)
  BY <1>3, <1>4, <1>5
<1> QED
  BY <1>2, <1>3, <1>6, <1>7 DEF Meets

\* collect_ancestors: the walk meets all that a decision refers to, and all that
\* these refer to.
LEMMA WalkMeets ==
    ASSUME NEW r, Sound(r)
    PROVE  \A i \in M!Indices(r.events) : \A n \in 0 .. Len(M!References(r.events, i)) :
              \A met \in SUBSET M!Met(r.events) :
                 Meets(r.events, i, n, met, M!Walk(r.events)[i][n][met])
<1> DEFINE es == r.events
           w == M!Walk(es)
           Right(i) == \A n \in 0 .. Len(M!References(es, i)) : \A met \in SUBSET M!Met(es) :
                          Meets(es, i, n, met, w[i][n][met])
           P == {i \in M!Indices(es) : Right(i)}
<1>1. Len(es) \in Nat /\ M!Indices(es) = 1 .. Len(es)
  BY SoundIs
<1>2. ASSUME NEW i \in 1 .. Len(es), \A j \in 1 .. i - 1 : j \in P PROVE i \in P
  <2>1. i \in M!Indices(es) /\ Len(M!References(es, i)) \in Nat
    BY <1>1, ReferencesAre
  <2>2. WalkOf(es, w, i)
    BY <2>1, WalkIs
  <2> HIDE DEF w
  <2>3. ASSUME NEW n \in 0 .. Len(M!References(es, i)), NEW met \in SUBSET M!Met(es)
        PROVE  w[i][n][met] = Followed(es, w, i, n, met)
    BY <2>2 DEF WalkOf
  <2> SUFFICES ASSUME NEW met \in SUBSET M!Met(es)
               PROVE  \A n \in 0 .. Len(M!References(es, i)) : Meets(es, i, n, met, w[i][n][met])
    BY <1>1
  <2> DEFINE Q == {n \in Nat : Meets(es, i, n, met, w[i][n][met])}
  <2>4. 0 \in Q
    <3>1. w[i][0][met] = Followed(es, w, i, 0, met)
      BY <2>1, <2>3
    <3>2. w[i][0][met] = met
      BY <3>1 DEF Followed
    <3> QED
      BY <3>2 DEF Meets
  <2>5. ASSUME NEW n \in 0 .. Len(M!References(es, i)) - 1, n \in Q PROVE n + 1 \in Q
    <3>1. PICK k : k = n + 1 /\ k \in 1 .. Len(M!References(es, i)) /\ k - 1 = n /\ k \in Nat
      BY <2>1
    <3>2. PICK before : before = w[i][n][met] /\ Meets(es, i, k - 1, met, before)
      BY <2>5, <3>1
    <3>3. PICK ref : ref = M!References(es, i)[k]
      OBVIOUS
    <3>4. w[i][k][met] = IF ref[1] \in M!Events(before) THEN before
                         ELSE w[ref[1]][Len(M!References(es, ref[1]))][before \union {ref}]
      <4>1. w[i][k][met] = Followed(es, w, i, k, met)
        BY <2>1, <2>3, <3>1
      <4>2. k # 0
        BY <3>1
      <4> QED
        BY <3>1, <3>2, <3>3, <4>1, <4>2 DEF Followed
    <3>5. CASE ref[1] \in M!Events(before)
      <4>1. Meets(es, i, k, met, before) /\ w[i][k][met] = before
        BY <3>1, <3>2, <3>3, <3>4, <3>5, MeetAgain
      <4> QED
        BY <3>1, <4>1
    <3>6. CASE ref[1] \notin M!Events(before)
      <4>1. ref[1] \in 1 .. i - 1 /\ ref[1] \in M!Indices(es) /\ ref \in M!Met(es)
        BY <2>1, <3>1, <3>3, ReferencesAre
      <4>2. PICK l : l = Len(M!References(es, ref[1])) /\ l \in Nat
        BY <4>1, ReferencesAre
      <4>3. before \union {ref} \in SUBSET M!Met(es)
        BY <3>2, <4>1 DEF Meets
      <4>4. Right(ref[1])
        BY <1>2, <4>1
      <4>5. Meets(es, ref[1], l, before \union {ref}, w[ref[1]][l][before \union {ref}])
        BY <4>2, <4>3, <4>4
      <4>6. Meets(es, i, k, met, w[i][k][met])
        BY <2>1, <3>1, <3>2, <3>3, <3>4, <3>6, <4>2, <4>5, MeetNew
      <4> QED
        BY <3>1, <4>6
    <3> QED
      BY <3>5, <3>6
  <2> HIDE DEF Q
  <2>6. \A n \in 0 .. Len(M!References(es, i)) : n \in Q
    BY <2>1, <2>4, <2>5, UpTo
  <2> QED
    BY <2>6 DEF Q
<1>3. \A i \in 1 .. Len(es) : i \in P
  <2> HIDE DEF P
  <2> QED
    BY <1>1, <1>2, Below
<1> QED
  BY <1>1, <1>3

Roots(r) == {<<i, "current">> : i \in M!Matching(r)}

\* prepare: what has been met after the first n decisions.
WalkedTo(r, walk, n) ==
    IF n = 0 THEN Roots(r)
    ELSE IF n \in M!Matching(r) THEN M!Visit(r.events, n, walk[n - 1]) ELSE walk[n - 1]

\* prepare: the walk begins at the matching decisions, of the task all of them.
LEMMA RootsAre ==
    ASSUME NEW r, Sound(r)
    PROVE  /\ Roots(r) \in SUBSET M!Met(r.events) /\ M!Events(Roots(r)) = M!Matching(r)
           /\ \A i \in M!Matching(r) : i \in M!Indices(r.events) /\ r.events[i].task = r.task.id
<1>1. \A i \in M!Matching(r) : i \in M!Indices(r.events) /\ r.events[i].task = r.task.id
  BY DEF M!Matching, M!Current
<1>2. Roots(r) \in SUBSET M!Met(r.events)
  BY <1>1 DEF Roots, M!Met
<1>3. M!Events(Roots(r)) = M!Matching(r)
  <2>1. ASSUME NEW m \in Roots(r) PROVE m[1] \in M!Matching(r)
    BY DEF Roots
  <2>2. ASSUME NEW i \in M!Matching(r) PROVE i \in {m[1] : m \in Roots(r)}
    <3>1. <<i, "current">> \in Roots(r) /\ <<i, "current">>[1] = i
      BY DEF Roots
    <3> QED
      BY <3>1
  <2> QED
    BY <2>1, <2>2 DEF M!Events
<1> QED
  BY <1>1, <1>2, <1>3

\* collect_ancestors: a whole visit meets all that the decision refers to.
LEMMA VisitMeets ==
    ASSUME NEW r, Sound(r), NEW i \in M!Indices(r.events), NEW met \in SUBSET M!Met(r.events)
    PROVE  Meets(r.events, i, Len(M!References(r.events, i)), met, M!Visit(r.events, i, met))
<1>1. PICK k : k = Len(M!References(r.events, i))
  OBVIOUS
<1>2. k \in 0 .. Len(M!References(r.events, i))
  BY <1>1, ReferencesAre
<1>3. Meets(r.events, i, k, met, M!Walk(r.events)[i][k][met])
  BY <1>2, WalkMeets
<1> QED
  BY <1>1, <1>3 DEF M!Visit

\* prepare: the walk over all matching decisions is defined,
LEMMA WalkedIs ==
    ASSUME NEW r, Sound(r)
    PROVE  \E walk : /\ walk \in [0 .. Len(r.events) -> SUBSET M!Met(r.events)]
                     /\ \A n \in 0 .. Len(r.events) : walk[n] = WalkedTo(r, walk, n)
                     /\ M!Ancestors(r) = walk[Len(r.events)] \ Roots(r)
<1> DEFINE es == r.events
           X == SUBSET M!Met(es)
           L == Len(es)
           step == [n \in 0 .. L |-> [walk \in [0 .. L -> X] |-> WalkedTo(r, walk, n)]]
           Is(walk) == walk = [n \in 0 .. L |-> WalkedTo(r, walk, n)]
<1>1. L \in Nat /\ M!Indices(es) = 1 .. L
  BY SoundIs
<1>2. ASSUME NEW n \in 0 .. L, NEW walk, n # 0 => walk[n - 1] \in X
      PROVE  WalkedTo(r, walk, n) \in X
  <2>1. CASE n = 0
    BY <2>1, RootsAre DEF WalkedTo
  <2>2. CASE n # 0
    <3>1. n \in M!Indices(es)
      BY <1>1, <2>2
    <3>2. M!Visit(es, n, walk[n - 1]) \in X
      <4>1. PICK met : met = walk[n - 1] /\ met \in SUBSET M!Met(es)
        BY <1>2, <2>2
      <4>2. Meets(r.events, n, Len(M!References(r.events, n)), met, M!Visit(r.events, n, met))
        BY <3>1, <4>1, VisitMeets
      <4> QED
        BY <4>1, <4>2 DEF Meets
    <3> QED
      BY <1>2, <2>2, <3>2 DEF WalkedTo
  <2> QED
    BY <2>1, <2>2
<1>3. Defines(0, L, X, step)
  <2>1. ASSUME NEW n \in 0 .. L, NEW walk \in [0 .. L -> X] PROVE step[n][walk] \in X
    <3>1. n # 0 => walk[n - 1] \in X
      BY <1>1
    <3>2. WalkedTo(r, walk, n) \in X
      BY <1>2, <3>1
    <3> QED
      BY <3>2
  <2>2. ASSUME NEW n \in 0 .. L, NEW v \in [0 .. L -> X], NEW w \in [0 .. L -> X],
               \A j \in 0 .. n - 1 : v[j] = w[j]
        PROVE  step[n][v] = step[n][w]
    <3>1. n # 0 => v[n - 1] = w[n - 1]
      BY <1>1, <2>2
    <3>2. WalkedTo(r, v, n) = WalkedTo(r, w, n)
      BY <3>1 DEF WalkedTo
    <3> QED
      BY <3>2
  <2> HIDE DEF X, step
  <2> QED
    BY <2>1, <2>2 DEF Defines
<1>4. PICK f : Solves(0, L, X, step, f)
  <2> HIDE DEF step, L
  <2>1. X # {} /\ 0 \in Nat /\ L \in Nat
    BY <1>1
  <2> HIDE DEF X
  <2> QED
    BY <1>3, <2>1, RecursionExists
<1>5. Is(f)
  <2>1. f \in [0 .. L -> X] /\ \A n \in 0 .. L : f[n] = step[n][f]
    BY <1>4 DEF Solves
  <2>2. \A n \in 0 .. L : f[n] = WalkedTo(r, f, n)
    BY <2>1
  <2> HIDE DEF step, X
  <2> QED
    BY <2>1, <2>2
<1> DEFINE walk == CHOOSE w : Is(w)
<1>6. Is(walk)
  <2> HIDE DEF Is
  <2> QED
    BY <1>5
<1>7. M!Ancestors(r) = walk[L] \ Roots(r)
  BY DEF M!Ancestors, Roots, WalkedTo
<1> HIDE DEF walk
<1>8. \A n \in 0 .. L : walk[n] = WalkedTo(r, walk, n)
  BY <1>6
<1>9. walk \in [0 .. L -> X]
  <2> DEFINE P == {n \in Nat : walk[n] \in X}
  <2> HIDE DEF X, Is
  <2>1. 0 \in P
    <3>1. walk[0] = WalkedTo(r, walk, 0)
      BY <1>1, <1>8
    <3>2. WalkedTo(r, walk, 0) \in X
      BY <1>1, <1>2
    <3> QED
      BY <3>1, <3>2
  <2>2. ASSUME NEW n \in 0 .. L - 1, n \in P PROVE n + 1 \in P
    <3>1. PICK k : k = n + 1 /\ k \in 0 .. L /\ k - 1 = n /\ k \in Nat
      BY <1>1
    <3>2. walk[k] = WalkedTo(r, walk, k)
      BY <1>8, <3>1
    <3>3. WalkedTo(r, walk, k) \in X
      BY <1>2, <2>2, <3>1
    <3> QED
      BY <3>1, <3>2, <3>3
  <2>3. \A n \in 0 .. L : n \in P
    <3> HIDE DEF P
    <3> QED
      BY <1>1, <2>1, <2>2, UpTo
  <2>4. walk = [n \in 0 .. L |-> walk[n]]
    BY <1>6 DEF Is
  <2> QED
    BY <2>3, <2>4
<1> QED
  BY <1>7, <1>8, <1>9

Walked(r, n, all) ==
    /\ Roots(r) \subseteq all
    /\ \A m \in all \ Roots(r) : m[2] # "current" /\ r.events[m[1]].task = r.task.id /\ Closed(r.events, m[1], all)
    /\ \A i \in M!Matching(r) : i <= n => Closed(r.events, i, all)

\* and meets all that what it meets refers to.
LEMMA WalkedStep ==
    ASSUME NEW r, Sound(r), NEW n \in M!Indices(r.events), NEW met \in SUBSET M!Met(r.events), Walked(r, n - 1, met),
           NEW all, all = IF n \in M!Matching(r) THEN M!Visit(r.events, n, met) ELSE met
    PROVE  Walked(r, n, all)
<1>0. n \in Nat /\ \A i \in M!Matching(r) : i \in Nat
  BY SoundIs, RootsAre
<1>1. CASE n \notin M!Matching(r)
  <2>1. \A i \in M!Matching(r) : i <= n => i <= n - 1
    BY <1>0, <1>1
  <2> QED
    BY <1>1, <2>1 DEF Walked
<1>2. CASE n \in M!Matching(r)
  <2>1. Meets(r.events, n, Len(M!References(r.events, n)), met, all)
    BY <1>2, VisitMeets
  <2>2. met \subseteq all /\ Closed(r.events, n, all)
        /\ \A m \in all \ met : m[2] # "current" /\ r.events[m[1]].task = r.task.id /\ Closed(r.events, m[1], all)
    BY <1>2, <2>1, RootsAre DEF Meets, Closed
  <2>3. Roots(r) \subseteq all
    BY <2>2 DEF Walked
  <2>4. ASSUME NEW m \in all \ Roots(r)
        PROVE  m[2] # "current" /\ r.events[m[1]].task = r.task.id /\ Closed(r.events, m[1], all)
    <3>1. CASE m \in met
      <4>1. m[2] # "current" /\ r.events[m[1]].task = r.task.id /\ Closed(r.events, m[1], met)
        BY <2>4, <3>1 DEF Walked
      <4> QED
        BY <2>2, <4>1, ClosedGrows
    <3> QED
      BY <2>2, <2>4, <3>1
  <2>5. ASSUME NEW i \in M!Matching(r), i <= n PROVE Closed(r.events, i, all)
    <3>1. CASE i <= n - 1
      <4>1. Closed(r.events, i, met)
        BY <3>1 DEF Walked
      <4> QED
        BY <2>2, <4>1, ClosedGrows
    <3> QED
      BY <1>0, <2>2, <2>5, <3>1
  <2> QED
    BY <2>3, <2>4, <2>5 DEF Walked
<1> QED
  BY <1>1, <1>2

\* prepare: the packet is closed: all that a listed decision refers to is listed,
\* and no ancestor is of another task or called current.
LEMMA AncestorsAre ==
    ASSUME NEW r, Sound(r)
    PROVE  /\ \A m \in M!Ancestors(r) : /\ m[2] # "current" /\ m[1] \in M!Indices(r.events)
                                        /\ r.events[m[1]].task = r.task.id
           /\ \A m \in M!Ancestors(r) \union Roots(r) :
                Closed(r.events, m[1], M!Ancestors(r) \union Roots(r))
<1>1. PICK walk : /\ walk \in [0 .. Len(r.events) -> SUBSET M!Met(r.events)]
                  /\ \A n \in 0 .. Len(r.events) : walk[n] = WalkedTo(r, walk, n)
                  /\ M!Ancestors(r) = walk[Len(r.events)] \ Roots(r)
  BY WalkedIs
<1>2. Len(r.events) \in Nat /\ M!Indices(r.events) = 1 .. Len(r.events)
  BY SoundIs
<1> DEFINE P == {n \in Nat : Walked(r, n, walk[n])}
<1>3. 0 \in P
  <2>1. walk[0] = Roots(r)
    <3>1. walk[0] = WalkedTo(r, walk, 0)
      BY <1>1, <1>2
    <3> QED
      BY <3>1 DEF WalkedTo
  <2>2. \A i \in M!Matching(r) : i \in Nat /\ ~(i <= 0)
    BY <1>2, RootsAre
  <2> QED
    BY <2>1, <2>2 DEF Walked
<1>4. ASSUME NEW n \in 0 .. Len(r.events) - 1, n \in P PROVE n + 1 \in P
  <2>1. PICK k : k = n + 1 /\ k \in 0 .. Len(r.events) /\ k \in M!Indices(r.events) /\ k - 1 = n /\ k # 0 /\ k \in Nat
    BY <1>2
  <2>2. walk[k] = IF k \in M!Matching(r) THEN M!Visit(r.events, k, walk[n]) ELSE walk[n]
    <3>1. walk[k] = WalkedTo(r, walk, k)
      BY <1>1, <2>1
    <3> QED
      BY <2>1, <3>1 DEF WalkedTo
  <2>3. walk[n] \in SUBSET M!Met(r.events)
    <3>1. n \in 0 .. Len(r.events)
      BY <1>2
    <3> QED
      BY <1>1, <3>1
  <2>4. Walked(r, k, walk[k])
    BY <1>4, <2>1, <2>2, <2>3, WalkedStep
  <2> QED
    BY <2>1, <2>4
<1>5. Walked(r, Len(r.events), walk[Len(r.events)])
  <2>1. \A n \in 0 .. Len(r.events) : n \in P
    <3> HIDE DEF P
    <3> QED
      BY <1>2, <1>3, <1>4, UpTo
  <2> QED
    BY <1>2, <2>1
<1>6. PICK all \in SUBSET M!Met(r.events) : all = walk[Len(r.events)]
  BY <1>1, <1>2
<1>7. /\ M!Ancestors(r) = all \ Roots(r) /\ M!Ancestors(r) \union Roots(r) = all
      /\ Walked(r, Len(r.events), all)
  BY <1>1, <1>5, <1>6 DEF Walked
<1>8. \A m \in all : m[1] \in M!Indices(r.events)
  BY DEF M!Met
<1>9. ASSUME NEW m \in Roots(r) PROVE Closed(r.events, m[1], all)
  <2>1. m[1] \in M!Matching(r)
    BY DEF Roots
  <2>2. m[1] <= Len(r.events)
    BY <1>2, <2>1, RootsAre
  <2> QED
    BY <1>7, <2>1, <2>2 DEF Walked
<1> QED
  BY <1>7, <1>8, <1>9 DEF Walked

\* The decisions that a decision depends on, and those nothing may rest on.
Direct(r, i) == {M!Position(r.events, id) : id \in M!Ids(r.events[i].depends_on)}

Bad(r) == {j \in M!Indices(r.events) : \/ r.events[j].id \in M!Superseded(r)
                                       \/ ~M!Applicable(r.task, r.events[j])
                                       \/ j \in M!Competing(r)}

\* validate: a decision depends on earlier decisions of its task.
LEMMA DirectAre ==
    ASSUME NEW r, Sound(r), NEW i \in M!Indices(r.events)
    PROVE  \A j \in Direct(r, i) : /\ j \in 1 .. i - 1 /\ j \in M!Indices(r.events)
                                   /\ r.events[j].task = r.events[i].task
<1>1. \A n \in DOMAIN r.events[i].depends_on :
         /\ M!Position(r.events, r.events[i].depends_on[n]) \in 1 .. i - 1
         /\ r.events[M!Position(r.events, r.events[i].depends_on[n])].task = r.events[i].task
  BY SoundIs
<1>2. \A j \in Direct(r, i) : \E n \in DOMAIN r.events[i].depends_on :
         j = M!Position(r.events, r.events[i].depends_on[n])
  BY DEF Direct, M!Ids
<1>3. \A j \in 1 .. i - 1 : j \in M!Indices(r.events)
  BY SoundIs
<1> QED
  BY <1>1, <1>2, <1>3

GuardsOf(r, guards, i) == (Direct(r, i) \intersect Bad(r)) \union UNION {guards[j] : j \in Direct(r, i)}

\* dependency_guards: what guards a decision is what guards those it depends on.
LEMMA GuardsAre ==
    ASSUME NEW r, Sound(r), NEW i \in M!Indices(r.events)
    PROVE  M!DependencyGuards(r)[i] = GuardsOf(r, M!DependencyGuards(r), i)
<1> DEFINE X == SUBSET M!Indices(r.events)
           L == Len(r.events)
           step == [k \in 1 .. L |-> [guards \in [1 .. L -> X] |-> GuardsOf(r, guards, k)]]
           Is(guards) == guards = [k \in M!Indices(r.events) |-> GuardsOf(r, guards, k)]
<1>1. L \in Nat /\ M!Indices(r.events) = 1 .. L
  BY SoundIs
<1>2. Defines(1, L, X, step)
  <2>1. ASSUME NEW k \in 1 .. L, NEW v \in [1 .. L -> X] PROVE step[k][v] \in X
    <3>1. Direct(r, k) \subseteq 1 .. L
      BY <1>1, DirectAre
    <3>2. GuardsOf(r, v, k) \in X
      BY <1>1, <3>1 DEF GuardsOf
    <3> QED
      BY <3>2
  <2>2. ASSUME NEW k \in 1 .. L, NEW v \in [1 .. L -> X], NEW w \in [1 .. L -> X],
               \A j \in 1 .. k - 1 : v[j] = w[j]
        PROVE  step[k][v] = step[k][w]
    <3>1. \A j \in Direct(r, k) : v[j] = w[j]
      BY <1>1, <2>2, DirectAre
    <3>2. GuardsOf(r, v, k) = GuardsOf(r, w, k)
      BY <3>1 DEF GuardsOf
    <3> QED
      BY <3>2
  <2> HIDE DEF X, step
  <2> QED
    BY <2>1, <2>2 DEF Defines
<1>3. PICK f : Solves(1, L, X, step, f)
  <2> HIDE DEF step, L
  <2>1. X # {} /\ 1 \in Nat /\ L \in Nat
    BY <1>1
  <2> HIDE DEF X
  <2> QED
    BY <1>2, <2>1, RecursionExists
<1>4. Is(f)
  <2>1. f \in [1 .. L -> X] /\ \A k \in 1 .. L : f[k] = step[k][f]
    BY <1>3 DEF Solves
  <2>2. \A k \in 1 .. L : f[k] = GuardsOf(r, f, k)
    BY <2>1
  <2> HIDE DEF step, X
  <2> QED
    BY <1>1, <2>1, <2>2
<1>5. Is(CHOOSE g : Is(g))
  <2> HIDE DEF Is
  <2> QED
    BY <1>4
<1>6. M!DependencyGuards(r) = CHOOSE g : Is(g)
  BY DEF M!DependencyGuards, GuardsOf, Direct, Bad
<1> QED
  BY <1>5, <1>6

ReliableOf(r, rel, i) ==
    /\ M!Applicable(r.task, r.events[i])
    /\ \A j \in M!Indices(r.events) : r.events[i].id \notin M!Ids(r.events[j].supersedes)
    /\ M!Peers(r, i) = {}
    /\ \A id \in M!Ids(r.events[i].depends_on) : rel[M!Position(r.events, id)]

\* What the task may rely on rests on what it may rely on.
LEMMA ReliableAre ==
    ASSUME NEW r, Sound(r), NEW i \in M!Indices(r.events)
    PROVE  M!Reliable(r)[i] = ReliableOf(r, M!Reliable(r), i)
<1> DEFINE L == Len(r.events)
           step == [k \in 1 .. L |-> [rel \in [1 .. L -> BOOLEAN] |-> ReliableOf(r, rel, k)]]
           Is(rel) == rel = [k \in M!Indices(r.events) |-> ReliableOf(r, rel, k)]
<1>1. L \in Nat /\ M!Indices(r.events) = 1 .. L
  BY SoundIs
<1>2. Defines(1, L, BOOLEAN, step)
  <2>1. ASSUME NEW k \in 1 .. L, NEW v \in [1 .. L -> BOOLEAN] PROVE step[k][v] \in BOOLEAN
    <3>1. ReliableOf(r, v, k) \in BOOLEAN
      BY DEF ReliableOf
    <3> QED
      BY <3>1
  <2>2. ASSUME NEW k \in 1 .. L, NEW v \in [1 .. L -> BOOLEAN], NEW w \in [1 .. L -> BOOLEAN],
               \A j \in 1 .. k - 1 : v[j] = w[j]
        PROVE  step[k][v] = step[k][w]
    <3>1. \A id \in M!Ids(r.events[k].depends_on) : v[M!Position(r.events, id)] = w[M!Position(r.events, id)]
      <4>1. \A id \in M!Ids(r.events[k].depends_on) : M!Position(r.events, id) \in Direct(r, k)
        BY DEF Direct
      <4> QED
        BY <1>1, <2>2, <4>1, DirectAre
    <3>2. (\A id \in M!Ids(r.events[k].depends_on) : v[M!Position(r.events, id)])
             <=> (\A id \in M!Ids(r.events[k].depends_on) : w[M!Position(r.events, id)])
      BY <3>1
    <3>3. ReliableOf(r, v, k) = ReliableOf(r, w, k)
      BY <3>2 DEF ReliableOf
    <3> QED
      BY <3>3
  <2> HIDE DEF step
  <2> QED
    BY <2>1, <2>2 DEF Defines
<1>3. PICK f : Solves(1, L, BOOLEAN, step, f)
  <2> HIDE DEF step, L
  <2>1. BOOLEAN # {} /\ 1 \in Nat /\ L \in Nat
    BY <1>1
  <2> QED
    BY <1>2, <2>1, RecursionExists
<1>4. Is(f)
  <2>1. f \in [1 .. L -> BOOLEAN] /\ \A k \in 1 .. L : f[k] = step[k][f]
    BY <1>3 DEF Solves
  <2>2. \A k \in 1 .. L : f[k] = ReliableOf(r, f, k)
    BY <2>1
  <2>3. f = [k \in 1 .. L |-> f[k]]
    BY <2>1
  <2> HIDE DEF step
  <2> QED
    BY <1>1, <2>2, <2>3
<1>5. Is(CHOOSE g : Is(g))
  <2> HIDE DEF Is
  <2> QED
    BY <1>4
<1>6. M!Reliable(r) = CHOOSE g : Is(g)
  BY DEF M!Reliable, ReliableOf
<1> QED
  BY <1>5, <1>6

\* dependency_guards: a decision that nothing replaces or competes with, that
\* applies, and that nothing guards may be relied on, however far its dependencies
\* reach.
LEMMA UnguardedIsReliable ==
    ASSUME NEW r, Sound(r), NEW i \in M!Indices(r.events), i \notin Bad(r),
           r.events[i].task = r.task.id, M!DependencyGuards(r)[i] = {}
    PROVE  M!Reliable(r)[i]
<1> DEFINE L == Len(r.events)
           P == {n \in 1 .. L : n \notin Bad(r) /\ r.events[n].task = r.task.id
                                  /\ M!DependencyGuards(r)[n] = {} => M!Reliable(r)[n]}
<1>1. L \in Nat /\ M!Indices(r.events) = 1 .. L
  BY SoundIs
<1>2. ASSUME NEW n \in 1 .. L, \A m \in 1 .. n - 1 : m \in P PROVE n \in P
  <2>1. SUFFICES ASSUME n \notin Bad(r), r.events[n].task = r.task.id, M!DependencyGuards(r)[n] = {}
                 PROVE  M!Reliable(r)[n]
    OBVIOUS
  <2>2. n \in M!Indices(r.events)
    BY <1>1
  <2>3. M!Applicable(r.task, r.events[n]) /\ r.events[n].id \notin M!Superseded(r) /\ n \notin M!Competing(r)
    BY <2>1, <2>2 DEF Bad
  <2>4. \A j \in M!Indices(r.events) : r.events[n].id \notin M!Ids(r.events[j].supersedes)
    BY <2>3 DEF M!Superseded
  <2>5. M!Peers(r, n) = {}
    BY <2>1, <2>2, <2>3 DEF M!Competing, M!Current
  <2>6. ASSUME NEW j \in Direct(r, n) PROVE M!Reliable(r)[j]
    <3>1. j \in 1 .. n - 1 /\ r.events[j].task = r.task.id /\ j \in M!Indices(r.events)
      BY <2>1, <2>2, DirectAre
    <3>2. GuardsOf(r, M!DependencyGuards(r), n) = {}
      BY <2>1, <2>2, GuardsAre
    <3>3. j \notin Bad(r) /\ M!DependencyGuards(r)[j] = {}
      BY <3>2 DEF GuardsOf
    <3>4. j \in P
      BY <1>2, <3>1
    <3> QED
      BY <3>1, <3>3, <3>4
  <2>7. \A id \in M!Ids(r.events[n].depends_on) : M!Reliable(r)[M!Position(r.events, id)]
    BY <2>6 DEF Direct
  <2>8. ReliableOf(r, M!Reliable(r), n)
    BY <2>3, <2>4, <2>5, <2>7 DEF ReliableOf
  <2> QED
    BY <2>2, <2>8, ReliableAre
<1>3. \A n \in 1 .. L : n \in P
  <2> HIDE DEF P
  <2> QED
    BY <1>1, <1>2, Below
<1> QED
  BY <1>1, <1>3

\* history::prepare: what a packet says it quotes, the task may rely on, and a
\* packet that is prepared quotes all that the action calls for and holds all that
\* this depends on.
LEMMA PacketIsTrustworthy ==
    ASSUME NEW r \in HistoryFile, NEW p, p.source = r, p.packet = M!PrepareHistory(r)
    PROVE  M!Trustworthy(p)
<1> DEFINE quoted == {x.event : x \in {y \in p.packet.items : y.statement}}
           all == M!Ancestors(r) \union Roots(r)
<1>1. CASE p.packet = [resolution |-> "error", items |-> {}]
  BY <1>1 DEF M!Trustworthy
<1>2. CASE p.packet # [resolution |-> "error", items |-> {}]
  <2>1. Sound(r) /\ p.packet = [resolution |-> M!Resolution(r), items |-> M!Items(r)]
    BY <1>2 DEF M!PrepareHistory, Sound
  <2>2. p.packet.items = {[event |-> m[1], kind |-> m[2], statement |-> M!Quoted(r, m[1], m[2])] : m \in all}
    BY <2>1 DEF M!Items, Roots
  <2>3. \A m \in all : m[1] \in M!Indices(r.events) /\ r.events[m[1]].task = r.task.id
    <3>1. \A m \in M!Ancestors(r) : m[1] \in M!Indices(r.events) /\ r.events[m[1]].task = r.task.id
      BY <2>1, AncestorsAre
    <3>2. \A m \in Roots(r) : m[1] \in M!Matching(r)
      BY DEF Roots
    <3>3. \A i \in M!Matching(r) : i \in M!Indices(r.events) /\ r.events[i].task = r.task.id
      BY <2>1, RootsAre
    <3> QED
      BY <3>1, <3>2, <3>3
  <2>4. ASSUME NEW i \in quoted
        PROVE  \E m \in all : m[1] = i /\ M!Quoted(r, m[1], m[2])
    BY <2>2
  <2>5. ASSUME NEW i \in quoted PROVE M!Reliable(r)[i]
    <3>1. PICK m \in all : m[1] = i /\ M!Quoted(r, m[1], m[2])
      BY <2>4
    <3>2. r.events[i].id \notin M!Superseded(r)
      <4>1. CASE m \in Roots(r)
        BY <3>1, <4>1 DEF Roots, M!Matching, M!Current
      <4>2. CASE m \in M!Ancestors(r)
        <5>1. m[2] # "current"
          BY <2>1, <4>2, AncestorsAre
        <5> QED
          BY <3>1, <5>1 DEF M!Quoted
      <4> QED
        BY <4>1, <4>2
    <3>3. M!Applicable(r.task, r.events[i]) /\ M!DependencyGuards(r)[i] = {} /\ M!Peers(r, i) = {}
      BY <3>1 DEF M!Quoted, M!Guards
    <3>4. i \notin Bad(r)
      BY <3>2, <3>3 DEF Bad, M!Competing
    <3> QED
      BY <2>1, <2>3, <3>1, <3>3, <3>4, UnguardedIsReliable
  <2>6. ASSUME p.packet.resolution = "prepared", NEW i \in M!Indices(r.events),
               r.events[i].task = r.task.id, r.task.action \in r.events[i].actions,
               \A j \in M!Indices(r.events) : r.events[i].id \notin M!Ids(r.events[j].supersedes)
        PROVE  i \in quoted
    <3>1. i \in M!Matching(r)
      BY <2>6 DEF M!Matching, M!Current, M!Superseded
    <3>2. M!Guarded(r) = {}
      BY <2>1, <2>6 DEF M!Resolution
    <3>3. M!Quoted(r, i, "current")
      BY <3>1, <3>2 DEF M!Guarded, M!Quoted
    <3>4. PICK x : x = [event |-> i, kind |-> "current", statement |-> M!Quoted(r, i, "current")]
      OBVIOUS
    <3>5. x \in p.packet.items
      <4>1. <<i, "current">> \in all
        BY <3>1 DEF Roots
      <4>2. <<i, "current">>[1] = i /\ <<i, "current">>[2] = "current"
        OBVIOUS
      <4> QED
        BY <2>2, <3>4, <4>1, <4>2
    <3>6. x.statement /\ x.event = i
      BY <3>3, <3>4
    <3> QED
      BY <3>5, <3>6
  <2>7. ASSUME NEW i \in quoted, NEW id \in M!Ids(r.events[i].depends_on)
        PROVE  \E x \in p.packet.items : r.events[x.event].id = id
    <3>1. PICK m \in all : m[1] = i
      BY <2>4
    <3>2. Closed(r.events, i, all)
      BY <2>1, <3>1, AncestorsAre
    <3>3. PICK n \in 1 .. Len(M!References(r.events, i)) : r.events[M!References(r.events, i)[n][1]].id = id
      <4>1. i \in M!Indices(r.events)
        BY <2>3, <3>1
      <4>2. Refers(r.events, i, id)
        BY <2>1, <2>7, <4>1, ReferencesAre
      <4> QED
        BY <4>2 DEF Refers
    <3>4. PICK w \in all : w[1] = M!References(r.events, i)[n][1]
      BY <3>2 DEF Closed, M!Events
    <3>5. PICK x \in p.packet.items : x.event = w[1]
      <4>1. [event |-> w[1], kind |-> w[2], statement |-> M!Quoted(r, w[1], w[2])] \in p.packet.items
        BY <2>2
      <4> QED
        BY <4>1
    <3> QED
      BY <3>3, <3>4, <3>5
  <2> QED
    BY <2>5, <2>6, <2>7 DEF M!Trustworthy
<1> QED
  BY <1>1, <1>2

-----------------------------------------------------------------------------
(***************************************************************************)
(* Middleware, the items: an item is left out only for those before it.    *)
(***************************************************************************)

Choosable(r) == DOMAIN r.items \ M!RequiredItems(r)

AheadOf(r) == {p \in Choosable(r) \X Choosable(r) : M!Ahead(r, p[1], p[2])}

\* Items are in a strict order of importance.
LEMMA ChoosableRanked ==
    ASSUME NEW r \in ItemFile
    PROVE  /\ Choosable(r) \subseteq Nat /\ IsFiniteSet(Choosable(r)) /\ Cardinality(Choosable(r)) \in Nat
           /\ Ranks(Choosable(r), AheadOf(r))
           /\ \A i \in Choosable(r) : {j \in Choosable(r) : M!Ahead(r, j, i)} = Lower(Choosable(r), AheadOf(r), i)
<1>1. DOMAIN r.items = 1 .. Len(r.items) /\ Len(r.items) \in Nat
      /\ \A i \in DOMAIN r.items : r.items[i].priority \in Nat \union {Unset}
  BY AnswersAssumption DEF M!MiddlewareAssumption
<1>2. IsFiniteSet(DOMAIN r.items)
  BY <1>1, FS_Interval
<1>3. IsFiniteSet(Choosable(r)) /\ Choosable(r) \subseteq DOMAIN r.items
  BY <1>2, FS_Subset DEF Choosable
<1>4. \A i \in Choosable(r) : M!Importance(r.items[i]) \in Nat /\ i \in Nat
  BY <1>1, <1>3 DEF M!Importance
<1>5. \A i, j \in Choosable(r) : <<i, j>> \in AheadOf(r) <=> M!Ahead(r, i, j)
  BY DEF AheadOf
<1>6. Ranks(Choosable(r), AheadOf(r))
  <2>1. \A i, j, k \in Choosable(r) : M!Ahead(r, i, j) /\ M!Ahead(r, j, k) => M!Ahead(r, i, k)
    BY <1>4 DEF M!Ahead
  <2>2. \A i, j \in Choosable(r) : i # j => M!Ahead(r, i, j) \/ M!Ahead(r, j, i)
    BY <1>4 DEF M!Ahead
  <2>3. \A i \in Choosable(r) : ~M!Ahead(r, i, i)
    BY <1>4 DEF M!Ahead
  <2> QED
    BY <1>5, <2>1, <2>2, <2>3 DEF Ranks
<1>7. \A i \in Choosable(r) : {j \in Choosable(r) : M!Ahead(r, j, i)} = Lower(Choosable(r), AheadOf(r), i)
  BY <1>5 DEF Lower
<1> QED
  BY <1>3, <1>4, <1>6, <1>7, FS_CardinalityType

\* prepare: the optional items are tried in that order, each once.
LEMMA OptionalIs ==
    ASSUME NEW r \in ItemFile
    PROVE  /\ Len(M!Optional(r)) = Cardinality(Choosable(r)) /\ Len(M!Optional(r)) \in Nat
           /\ \A k \in 1 .. Len(M!Optional(r)) : M!Optional(r)[k] \in Choosable(r)
           /\ \A i \in Choosable(r) : \E k \in 1 .. Len(M!Optional(r)) : M!Optional(r)[k] = i
           /\ \A k, m \in 1 .. Len(M!Optional(r)) :
                 M!Ahead(r, M!Optional(r)[m], M!Optional(r)[k]) <=> m < k
<1> DEFINE S == Choosable(r)
           before == AheadOf(r)
           n == Cardinality(S)
           order == [k \in 1 .. n |-> CHOOSE i \in S : Cardinality(Lower(S, before, i)) = k - 1]
<1>1. n \in Nat /\ IsFiniteSet(S) /\ Ranks(S, before)
      /\ \A i \in S : {j \in S : M!Ahead(r, j, i)} = Lower(S, before, i)
  BY ChoosableRanked
<1>2. M!Optional(r) = order
  <2>1. \A X : M!Cardinality(X) = Cardinality(X)
    BY DEF M!Cardinality, Cardinality
  <2>2. \A k : (CHOOSE i \in S : M!Cardinality({j \in S : M!Ahead(r, j, i)}) = k - 1)
               = (CHOOSE i \in S : Cardinality(Lower(S, before, i)) = k - 1)
    BY <1>1, <2>1
  <2>3. M!Optional(r) = [k \in 1 .. M!Cardinality(S) |->
                            CHOOSE i \in S : M!Cardinality({j \in S : M!Ahead(r, j, i)}) = k - 1]
    BY DEF M!Optional, Choosable
  <2> HIDE DEF S, before
  <2> QED
    BY <2>1, <2>2, <2>3
<1>3. Len(order) = n
  BY <1>1
<1> HIDE DEF S, before, n
<1>4. \A k \in 1 .. n : order[k] \in S /\ Cardinality(Lower(S, before, order[k])) = k - 1
  BY <1>1, PlaceIsTaken DEF n
<1>5. \A i \in S : \E k \in 1 .. n : order[k] = i
  BY <1>1, OrderedHas DEF n
<1>6. ASSUME NEW k \in 1 .. n, NEW m \in 1 .. n
      PROVE  M!Ahead(r, order[m], order[k]) <=> m < k
  <2> PICK x \in S, y \in S : x = order[m] /\ y = order[k]
    BY <1>4
  <2>1. Cardinality(Lower(S, before, x)) = m - 1 /\ Cardinality(Lower(S, before, y)) = k - 1
    BY <1>4
  <2>2. M!Ahead(r, x, y) <=> x \in Lower(S, before, y)
    BY <1>1
  <2>3. M!Ahead(r, x, y) <=> <<x, y>> \in before
    BY <2>2 DEF Lower
  <2>4. CASE M!Ahead(r, x, y)
    BY <1>1, <2>1, <2>3, <2>4, RankIsLess
  <2>5. CASE ~M!Ahead(r, x, y)
    <3>1. x = y \/ <<y, x>> \in before
      BY <1>1, <2>3, <2>5 DEF Ranks
    <3>2. CASE x = y
      BY <2>1, <2>5, <3>2
    <3>3. CASE <<y, x>> \in before
      <4>1. Cardinality(Lower(S, before, y)) < Cardinality(Lower(S, before, x))
        BY <1>1, <3>3, RankIsLess
      <4> QED
        BY <2>1, <2>5, <4>1
    <3> QED
      BY <3>1, <3>2, <3>3
  <2> QED
    BY <2>4, <2>5
<1> QED
  BY <1>1, <1>2, <1>3, <1>4, <1>5, <1>6 DEF n, S

\* prepare: what is kept after the first k optional items.
KeptOf(r, kept, k) ==
    IF k = 0 THEN M!RequiredItems(r)
    ELSE LET more == kept[k - 1] \union {M!Optional(r)[k]}
         IN IF r.cost[more] <= r.budget THEN more ELSE kept[k - 1]

\* prepare: what is kept are items of the request.
LEMMA KeptInside ==
    ASSUME NEW r \in ItemFile, NEW k \in 0 .. Len(M!Optional(r)), NEW kept,
           k # 0 => kept[k - 1] \in SUBSET DOMAIN r.items
    PROVE  KeptOf(r, kept, k) \in SUBSET DOMAIN r.items
<1>1. CASE k = 0
  BY <1>1 DEF KeptOf, M!RequiredItems
<1>2. CASE k # 0
  <2>1. k \in 1 .. Len(M!Optional(r))
    BY <1>2, OptionalIs
  <2>2. M!Optional(r)[k] \in DOMAIN r.items
    BY <2>1, OptionalIs DEF Choosable
  <2> QED
    BY <1>2, <2>2 DEF KeptOf
<1> QED
  BY <1>1, <1>2

\* prepare: the loop over the optional items ends with what is selected.
LEMMA SelectedIs ==
    ASSUME NEW r \in ItemFile
    PROVE  \E kept \in [0 .. Len(M!Optional(r)) -> SUBSET DOMAIN r.items] :
              /\ \A k \in 0 .. Len(M!Optional(r)) : kept[k] = KeptOf(r, kept, k)
              /\ M!Selected(r) = kept[Len(M!Optional(r))]
<1> DEFINE X == SUBSET DOMAIN r.items
           L == Len(M!Optional(r))
           step == [k \in 0 .. L |-> [kept \in [0 .. L -> X] |-> KeptOf(r, kept, k)]]
           Is(kept) == kept = [k \in 0 .. L |-> KeptOf(r, kept, k)]
<1>1. L \in Nat
  BY OptionalIs
<1>2. Defines(0, L, X, step)
  <2>1. ASSUME NEW k \in 0 .. L, NEW v \in [0 .. L -> X] PROVE step[k][v] \in X
    <3>1. k # 0 => v[k - 1] \in X
      BY <1>1
    <3>2. KeptOf(r, v, k) \in X
      BY <3>1, KeptInside
    <3> QED
      BY <3>2
  <2>2. ASSUME NEW k \in 0 .. L, NEW v \in [0 .. L -> X], NEW w \in [0 .. L -> X],
               \A j \in 0 .. k - 1 : v[j] = w[j]
        PROVE  step[k][v] = step[k][w]
    <3>1. k # 0 => v[k - 1] = w[k - 1]
      BY <1>1, <2>2
    <3>2. KeptOf(r, v, k) = KeptOf(r, w, k)
      BY <3>1 DEF KeptOf
    <3> QED
      BY <3>2
  <2> HIDE DEF X, step
  <2> QED
    BY <2>1, <2>2 DEF Defines
<1>3. PICK f : Solves(0, L, X, step, f)
  <2> HIDE DEF step, L
  <2>1. X # {} /\ 0 \in Nat /\ L \in Nat
    BY <1>1
  <2> HIDE DEF X
  <2> QED
    BY <1>2, <2>1, RecursionExists
<1>4. Is(f)
  <2>1. f \in [0 .. L -> X] /\ \A k \in 0 .. L : f[k] = step[k][f]
    BY <1>3 DEF Solves
  <2>2. \A k \in 0 .. L : f[k] = KeptOf(r, f, k)
    BY <2>1
  <2> HIDE DEF step, X
  <2> QED
    BY <2>1, <2>2
<1> DEFINE kept == CHOOSE w : Is(w)
<1>5. Is(kept)
  <2> HIDE DEF Is
  <2> QED
    BY <1>4
<1>6. M!Selected(r) = kept[L]
  BY DEF M!Selected, KeptOf
<1> HIDE DEF kept
<1>7. \A k \in 0 .. L : kept[k] = KeptOf(r, kept, k)
  BY <1>5
<1>8. kept \in [0 .. L -> X]
  <2> DEFINE P == {k \in Nat : kept[k] \in X}
  <2> HIDE DEF X, Is
  <2>1. 0 \in P
    <3>1. kept[0] = KeptOf(r, kept, 0)
      BY <1>1, <1>7
    <3>2. KeptOf(r, kept, 0) \in X
      BY DEF X, KeptOf, M!RequiredItems
    <3> QED
      BY <3>1, <3>2
  <2>2. ASSUME NEW n \in 0 .. L - 1, n \in P PROVE n + 1 \in P
    <3>1. PICK k : k = n + 1 /\ k \in 0 .. L /\ k - 1 = n /\ k \in Nat
      BY <1>1
    <3>2. kept[k] = KeptOf(r, kept, k)
      BY <1>7, <3>1
    <3>3. KeptOf(r, kept, k) \in X
      BY <2>2, <3>1, KeptInside DEF X
    <3> QED
      BY <3>1, <3>2, <3>3
  <2>3. \A n \in 0 .. L : n \in P
    <3> HIDE DEF P
    <3> QED
      BY <1>1, <2>1, <2>2, UpTo
  <2>4. kept = [k \in 0 .. L |-> kept[k]]
    BY <1>5 DEF Is
  <2> QED
    BY <2>3, <2>4
<1> QED
  BY <1>6, <1>7, <1>8

\* What was kept when m items had been tried is what is kept in the end, of those.
KeptTo(r, kept, k) ==
    /\ M!RequiredItems(r) \subseteq kept[k]
    /\ r.cost[kept[k]] <= r.budget
    /\ \A m \in 0 .. k :
          kept[m] = {j \in kept[k] : j \in M!RequiredItems(r) \/ \E l \in 1 .. m : M!Optional(r)[l] = j}

\* prepare: one more item is tried, and kept when it fits.
LEMMA KeptStep ==
    ASSUME NEW r \in ItemFile, NEW k \in 1 .. Len(M!Optional(r)), NEW kept, KeptTo(r, kept, k - 1),
           kept[k] = KeptOf(r, kept, k)
    PROVE  KeptTo(r, kept, k)
<1> DEFINE i == M!Optional(r)[k]
<1>1. k \in Nat /\ k # 0 /\ Len(M!Optional(r)) \in Nat
  BY OptionalIs
<1>2. i \notin M!RequiredItems(r) /\ \A l \in 1 .. k - 1 : M!Optional(r)[l] # i
  <2>1. i \notin M!RequiredItems(r)
    BY OptionalIs DEF Choosable
  <2>2. ASSUME NEW l \in 1 .. k - 1, M!Optional(r)[l] = i PROVE FALSE
    <3>1. l \in 1 .. Len(M!Optional(r)) /\ l < k
      BY <1>1
    <3>2. M!Ahead(r, M!Optional(r)[l], M!Optional(r)[k]) /\ ~M!Ahead(r, M!Optional(r)[k], M!Optional(r)[k])
      BY <1>1, <3>1, OptionalIs
    <3> QED
      BY <2>2, <3>2
  <2> QED
    BY <2>1, <2>2
<1>3. kept[k] = kept[k - 1] \/ (kept[k] = kept[k - 1] \union {i} /\ r.cost[kept[k]] <= r.budget)
  BY <1>1 DEF KeptOf
<1>4. M!RequiredItems(r) \subseteq kept[k] /\ r.cost[kept[k]] <= r.budget
  BY <1>3 DEF KeptTo
<1>5. ASSUME NEW m \in 0 .. k
      PROVE  kept[m] = {j \in kept[k] : j \in M!RequiredItems(r) \/ \E l \in 1 .. m : M!Optional(r)[l] = j}
  <2>1. \A j \in kept[k - 1] : j \in M!RequiredItems(r) \/ \E l \in 1 .. k - 1 : M!Optional(r)[l] = j
    <3>1. k - 1 \in 0 .. k - 1
      BY <1>1
    <3> QED
      BY <3>1 DEF KeptTo
  <2>2. CASE m = k
    <3>1. \A l \in 1 .. k - 1 : l \in 1 .. k
      BY <1>1
    <3>2. k \in 1 .. k
      BY <1>1
    <3> QED
      BY <1>3, <2>1, <2>2, <3>1, <3>2
  <2>3. CASE m # k
    <3>1. m \in 0 .. k - 1
      BY <1>1, <2>3
    <3>2. kept[m] = {j \in kept[k - 1] : j \in M!RequiredItems(r) \/ \E l \in 1 .. m : M!Optional(r)[l] = j}
      BY <3>1 DEF KeptTo
    <3>3. \A l \in 1 .. m : l \in 1 .. k - 1
      BY <1>1, <3>1
    <3>4. ~(i \in M!RequiredItems(r) \/ \E l \in 1 .. m : M!Optional(r)[l] = i)
      BY <1>2, <3>3
    <3> QED
      BY <1>3, <3>2, <3>4
  <2> QED
    BY <2>2, <2>3
<1> QED
  BY <1>4, <1>5 DEF KeptTo

\* prepare: all that is required is kept, within the budget, and an item is left
\* out only when it does not fit with those before it.
LEMMA SelectedHolds ==
    ASSUME NEW r \in ItemFile, r.cost[M!RequiredItems(r)] <= r.budget
    PROVE  /\ M!RequiredItems(r) \subseteq M!Selected(r) /\ r.cost[M!Selected(r)] <= r.budget
           /\ \A i \in DOMAIN r.items \ M!Selected(r) :
                 r.cost[{i} \union {j \in M!Selected(r) : r.items[j].required \/ M!Ahead(r, j, i)}] > r.budget
<1>1. PICK kept \in [0 .. Len(M!Optional(r)) -> SUBSET DOMAIN r.items] :
              /\ \A k \in 0 .. Len(M!Optional(r)) : kept[k] = KeptOf(r, kept, k)
              /\ M!Selected(r) = kept[Len(M!Optional(r))]
  BY SelectedIs
<1> DEFINE L == Len(M!Optional(r))
           P == {k \in Nat : KeptTo(r, kept, k)}
<1>2. L \in Nat
  BY OptionalIs
<1>3. 0 \in P
  <2>1. kept[0] = M!RequiredItems(r)
    <3>1. kept[0] = KeptOf(r, kept, 0)
      BY <1>1, <1>2
    <3> QED
      BY <3>1 DEF KeptOf
  <2>2. \A m \in 0 .. 0 : m = 0
    OBVIOUS
  <2> QED
    BY <2>1, <2>2 DEF KeptTo
<1>4. ASSUME NEW n \in 0 .. L - 1, n \in P PROVE n + 1 \in P
  <2>1. PICK k : k = n + 1 /\ k \in 1 .. L /\ k \in 0 .. L /\ k - 1 = n /\ k \in Nat
    BY <1>2
  <2>2. KeptTo(r, kept, k)
    BY <1>1, <1>4, <2>1, KeptStep
  <2> QED
    BY <2>1, <2>2
<1>5. \A n \in 0 .. L : n \in P
  <2> HIDE DEF P, L
  <2> QED
    BY <1>2, <1>3, <1>4, UpTo
<1>6. PICK whole : whole = kept[L] /\ M!Selected(r) = whole /\ KeptTo(r, kept, L) /\ whole \in SUBSET DOMAIN r.items
  BY <1>1, <1>2, <1>5
<1>7. M!RequiredItems(r) \subseteq whole /\ r.cost[whole] <= r.budget
  BY <1>6 DEF KeptTo
<1>8. ASSUME NEW i \in DOMAIN r.items \ whole
      PROVE  r.cost[{i} \union {j \in whole : r.items[j].required \/ M!Ahead(r, j, i)}] > r.budget
  <2>1. i \in Choosable(r)
    BY <1>7 DEF Choosable
  <2>2. PICK k \in 1 .. L : M!Optional(r)[k] = i
    BY <2>1, OptionalIs
  <2>3. k \in 0 .. L /\ k - 1 \in 0 .. L /\ k \in Nat /\ k # 0
    BY <1>2
  <2>4. /\ kept[k - 1] = {j \in whole : j \in M!RequiredItems(r) \/ \E l \in 1 .. k - 1 : M!Optional(r)[l] = j}
        /\ kept[k] \subseteq whole
    BY <1>6, <2>3 DEF KeptTo
  <2>5. ASSUME NEW j \in whole
        PROVE  (j \in M!RequiredItems(r) \/ \E l \in 1 .. k - 1 : M!Optional(r)[l] = j)
                  <=> (r.items[j].required \/ M!Ahead(r, j, i))
    <3>1. CASE j \in M!RequiredItems(r)
      BY <3>1 DEF M!RequiredItems
    <3>2. CASE j \notin M!RequiredItems(r)
      <4>1. j \in Choosable(r) /\ ~r.items[j].required
        BY <1>6, <3>2 DEF Choosable, M!RequiredItems
      <4>2. PICK l \in 1 .. L : M!Optional(r)[l] = j
        BY <4>1, OptionalIs
      <4>3. M!Ahead(r, j, i) <=> l < k
        BY <2>2, <4>2, OptionalIs
      <4>4. ASSUME NEW x \in 1 .. k - 1, M!Optional(r)[x] = j PROVE M!Ahead(r, j, i)
        <5>1. x \in 1 .. L /\ x < k
          BY <1>2
        <5> QED
          BY <2>2, <4>4, <5>1, OptionalIs
      <4>5. l < k => l \in 1 .. k - 1
        BY <1>2
      <4> QED
        BY <3>2, <4>1, <4>2, <4>3, <4>4, <4>5
    <3> QED
      BY <3>1, <3>2
  <2>6. kept[k - 1] = {j \in whole : r.items[j].required \/ M!Ahead(r, j, i)}
    BY <2>4, <2>5
  <2>7. PICK more : more = kept[k - 1] \union {i} /\ more \in SUBSET DOMAIN r.items
    <3>1. PICK before : before = kept[k - 1] /\ before \in SUBSET DOMAIN r.items
      BY <1>1, <2>3
    <3>2. before \union {i} \in SUBSET DOMAIN r.items
      BY <3>1
    <3> QED
      BY <3>1, <3>2
  <2>8. kept[k] = IF r.cost[more] <= r.budget THEN more ELSE kept[k - 1]
    BY <1>1, <2>2, <2>3, <2>7 DEF KeptOf
  <2>9. ~(r.cost[more] <= r.budget)
    BY <2>4, <2>7, <2>8
  <2>10. r.cost[more] \in Nat /\ r.budget \in Nat
    BY <2>7, AnswersAssumption DEF M!MiddlewareAssumption
  <2>11. more = {i} \union {j \in whole : r.items[j].required \/ M!Ahead(r, j, i)}
    BY <2>6, <2>7
  <2> QED
    BY <2>9, <2>10, <2>11
<1> QED
  BY <1>6, <1>7, <1>8

-----------------------------------------------------------------------------
(***************************************************************************)
(* Middleware: the packets that the commands made are of the request as it *)
(* was then.                                                               *)
(***************************************************************************)

\* The packets that the commands make, and what a session hears or is handed.
HistoryReceipt(r) == [source |-> r, packet |-> M!PrepareHistory(r),
                      code |-> IF M!PrepareHistory(r).resolution = "prepared" THEN 0 ELSE 2]
ItemReceipt(r) == [source |-> r, packet |-> M!PrepareItems(r)]

SourceIds(r) == M!Ids(IF "events" \in DOMAIN r THEN r.events ELSE r.items)

MiddlewareInv ==
    /\ requestFile \in HistoryFile \union ItemFile
    /\ \/ receipt = Unset
       \/ \E r \in HistoryFile : receipt = HistoryReceipt(r)
       \/ \E r \in ItemFile : receipt = ItemReceipt(r)
    /\ \/ answer = Unset
       \/ \E r, hears, packet : /\ answer = [hears |-> hears, source |-> r, packet |-> packet]
                                /\ hears = "context" => r \in HistoryFile /\ packet = M!PrepareHistory(r)
       \/ \E given : /\ answer = [contents |-> given] /\ receipt # Unset
                     /\ given \subseteq SourceIds(receipt.source)

\* Requests are of decisions or of items.
LEMMA Kinds ==
    /\ \A r \in HistoryFile : "events" \in DOMAIN r /\ DOMAIN r.events = M!Indices(r.events)
    /\ \A r \in ItemFile : "events" \notin DOMAIN r
BY AnswersAssumption DEF M!MiddlewareAssumption

\* expand: what is handed out is in the request that the packet was made from.
LEMMA Handed ==
    ASSUME NEW r, NEW expected, NEW ids
    PROVE  /\ r \in HistoryFile => M!ExpandHistory(r, expected, ids) \subseteq SourceIds(expected)
           /\ r \in ItemFile => M!ExpandItems(r, expected, ids) \subseteq SourceIds(expected)
<1>1. ASSUME r \in HistoryFile PROVE M!ExpandHistory(r, expected, ids) \subseteq SourceIds(expected)
  <2>1. M!ExpandHistory(r, expected, ids) = {} \/ r = expected
    BY DEF M!ExpandHistory
  <2>2. \A x \in M!ExpandHistory(r, expected, ids) : \E i \in M!Indices(r.events) : x = r.events[i]
    BY DEF M!ExpandHistory
  <2>3. SourceIds(r) = {r.events[i] : i \in M!Indices(r.events)}
    BY <1>1, Kinds DEF SourceIds, M!Ids
  <2> QED
    BY <2>1, <2>2, <2>3
<1>2. ASSUME r \in ItemFile PROVE M!ExpandItems(r, expected, ids) \subseteq SourceIds(expected)
  <2>1. M!ExpandItems(r, expected, ids) = {} \/ r = expected
    BY DEF M!ExpandItems
  <2>2. \A x \in M!ExpandItems(r, expected, ids) : \E i \in DOMAIN r.items : x = r.items[i]
    BY DEF M!ExpandItems
  <2>3. SourceIds(r) = {r.items[i] : i \in DOMAIN r.items}
    BY <1>2, Kinds DEF SourceIds, M!Ids
  <2> QED
    BY <2>1, <2>2, <2>3
<1> QED
  BY <1>1, <1>2

\* The middleware begins with no packet and no answer.
LEMMA MiddlewareInit == M!Init => MiddlewareInv
BY DEF M!Init, MiddlewareInv

\* Other components leave the packets alone.
LEMMA MiddlewareStill == MiddlewareInv /\ UNCHANGED middlewareVars => MiddlewareInv'
<1> SUFFICES ASSUME MiddlewareInv, UNCHANGED middlewareVars PROVE MiddlewareInv'
  OBVIOUS
<1>1. requestFile' = requestFile /\ receipt' = receipt /\ answer' = answer
  BY DEF middlewareVars
<1> QED
  BY <1>1 DEF MiddlewareInv

\* Each command keeps this.
LEMMA MiddlewareStep == MiddlewareInv /\ M!Next => MiddlewareInv'
<1> SUFFICES ASSUME MiddlewareInv, M!Next PROVE MiddlewareInv'
  OBVIOUS
<1> USE DEF MiddlewareInv
<1>0. M!OfHistory => requestFile \in HistoryFile
  BY Kinds DEF M!OfHistory
<1>00. ~M!OfHistory => requestFile \in ItemFile
  BY Kinds DEF M!OfHistory
<1>1. CASE M!Rewrite
  <2>1. requestFile' \in HistoryFile \union ItemFile /\ receipt' = receipt /\ answer' = answer
    BY <1>1 DEF M!Rewrite
  <2> QED
    BY <2>1
<1>2. CASE M!HistoryPrepare
  <2>1. requestFile \in HistoryFile /\ receipt' = HistoryReceipt(requestFile) /\ requestFile' = requestFile
        /\ answer = Unset /\ answer' = Unset
    BY <1>0, <1>2 DEF M!HistoryPrepare, HistoryReceipt
  <2> QED
    BY <2>1
<1>3. ASSUME NEW e \in SessionEvent, M!HistoryHook(e) PROVE MiddlewareInv'
  <2>1. requestFile \in HistoryFile /\ receipt = Unset /\ receipt' = Unset /\ requestFile' = requestFile
        /\ answer' = [hears |-> M!Hears(e), source |-> requestFile,
                      packet |-> IF M!Hears(e) = "context" THEN M!PrepareHistory(requestFile) ELSE Unset]
    BY <1>0, <1>3 DEF M!HistoryHook
  <2>2. \E r, hears, packet : /\ answer' = [hears |-> hears, source |-> r, packet |-> packet]
                              /\ hears = "context" => r \in HistoryFile /\ packet = M!PrepareHistory(r)
    BY <2>1
  <2> QED
    BY <2>1, <2>2
<1>4. ASSUME NEW ids \in Asked, M!HistoryExpand(ids) \/ M!Expand(ids) PROVE MiddlewareInv'
  <2>1. PICK given : answer' = [contents |-> given] /\ given \subseteq SourceIds(receipt.source)
    BY <1>0, <1>00, <1>4, Handed DEF M!HistoryExpand, M!Expand
  <2>2. requestFile' = requestFile /\ receipt # Unset /\ receipt' = receipt
    BY <1>4 DEF M!HistoryExpand, M!Expand
  <2> QED
    BY <2>1, <2>2
<1>5. CASE M!Prepare
  <2>1. requestFile \in ItemFile /\ receipt' = ItemReceipt(requestFile) /\ requestFile' = requestFile
        /\ answer' = answer /\ receipt = Unset
    BY <1>00, <1>5 DEF M!Prepare, ItemReceipt
  <2>2. \/ answer' = Unset
        \/ \E r, hears, packet : /\ answer' = [hears |-> hears, source |-> r, packet |-> packet]
                                 /\ hears = "context" => r \in HistoryFile /\ packet = M!PrepareHistory(r)
    BY <2>1
  <2> QED
    BY <2>1, <2>2
<1> QED
  BY <1>1, <1>2, <1>3, <1>4, <1>5 DEF M!Next

\* What it says of the packets.
LEMMA MiddlewareHolds == MiddlewareInv => M!PacketsAreTrue
<1> SUFFICES ASSUME MiddlewareInv PROVE M!PacketsAreTrue
  OBVIOUS
<1>1. ASSUME receipt # Unset, "code" \in DOMAIN receipt
      PROVE  M!Trustworthy(receipt) /\ (receipt.code = 0 <=> receipt.packet.resolution = "prepared")
  <2>1. PICK r \in HistoryFile : receipt = HistoryReceipt(r)
    BY <1>1 DEF MiddlewareInv, ItemReceipt
  <2>2. receipt.source = r /\ receipt.packet = M!PrepareHistory(r)
        /\ receipt.code = (IF M!PrepareHistory(r).resolution = "prepared" THEN 0 ELSE 2)
    BY <2>1 DEF HistoryReceipt
  <2> QED
    BY <2>2, PacketIsTrustworthy
<1>2. ASSUME answer # Unset, "hears" \in DOMAIN answer, answer.hears = "context" PROVE M!Trustworthy(answer)
  <2>1. PICK r, hears, packet : /\ answer = [hears |-> hears, source |-> r, packet |-> packet]
                                /\ hears = "context" => r \in HistoryFile /\ packet = M!PrepareHistory(r)
    BY <1>2 DEF MiddlewareInv
  <2> QED
    BY <1>2, <2>1, PacketIsTrustworthy
<1>3. ASSUME receipt # Unset, "code" \notin DOMAIN receipt, receipt.packet.resolution = "prepared",
             NEW r, r = receipt.source, NEW kept, kept = receipt.packet.selected
      PROVE  /\ M!RequiredItems(r) \subseteq kept /\ r.cost[kept] <= r.budget
             /\ \A i \in DOMAIN r.items \ kept :
                   r.cost[{i} \union {j \in kept : r.items[j].required \/ M!Ahead(r, j, i)}] > r.budget
  <2>1. r \in ItemFile /\ receipt.packet = M!PrepareItems(r)
    BY <1>3 DEF MiddlewareInv, HistoryReceipt, ItemReceipt
  <2>2. kept = M!Selected(r) /\ ~(r.cost[M!RequiredItems(r)] > r.budget)
    BY <1>3, <2>1 DEF M!PrepareItems
  <2>3. r.cost[M!RequiredItems(r)] \in Nat /\ r.budget \in Nat
    BY <2>1, AnswersAssumption DEF M!MiddlewareAssumption, M!RequiredItems
  <2> QED
    BY <2>1, <2>2, <2>3, SelectedHolds
<1>4. ASSUME answer # Unset, "contents" \in DOMAIN answer
      PROVE  answer.contents \subseteq SourceIds(receipt.source)
  BY <1>4 DEF MiddlewareInv
<1> QED
  BY <1>1, <1>2, <1>3, <1>4 DEF M!PacketsAreTrue, SourceIds

-----------------------------------------------------------------------------
(***************************************************************************)
(* Evidence, the snapshot and the closure: a walk that ends without a problem*)
(* has seen all that the roots rest on, within the hops, and nothing in it is*)
(* contradicted.                                                           *)
(***************************************************************************)

\* Evidence counts, and lists, as the standard modules do.
LEMMA EvidenceCounts == ASSUME NEW S PROVE E!Cardinality(S) = Cardinality(S)
BY DEF Cardinality, E!Cardinality

\* The modules that Evidence extends mean the same by a finite set
LEMMA EvidenceFinite == ASSUME NEW S PROVE E!IsFiniteSet(S) <=> IsFiniteSet(S)
BY DEF IsFiniteSet, E!IsFiniteSet

\* and by the members of a list.
LEMMA EvidenceEntries == ASSUME NEW s PROVE E!ToSet(s) = {s[i] : i \in DOMAIN s}
BY DEF E!ToSet

\* snapshot: the events up to the cutoff are a list of events.
LEMMA VisibleIs ==
    ASSUME NEW S, NEW l \in Seq(S)
    PROVE  E!Visible(l) \in Seq(S)
<1> DEFINE X == Seq(S)
           L == Len(l)
           After(n, s) == IF l[n].at <= AsOf THEN Append(s, l[n]) ELSE s
           Is(f) == f = [n \in 0 .. L |-> IF n = 0 THEN << >> ELSE After(n, f[n - 1])]
           more == [n \in 1 .. L |-> [s \in X |-> After(n, s)]]
<1>1. L \in Nat /\ << >> \in X /\ \A n \in 1 .. L : \A s \in X : After(n, s) \in X
  OBVIOUS
<1>2. more \in [1 .. L -> [X -> X]]
  <2> HIDE DEF X, L, After
  <2> QED
    BY <1>1
<1>3. PICK f : Iterates(L, X, << >>, more, f)
  <2>1. L \in Nat /\ << >> \in X
    BY <1>1
  <2> HIDE DEF X, L, more
  <2> QED
    BY <1>2, <2>1, Iteration
<1>4. Is(f)
  <2>1. ASSUME NEW n \in 1 .. L PROVE f[n] = After(n, f[n - 1])
    <3>1. n - 1 \in 0 .. L
      BY <1>1
    <3>2. f[n - 1] \in X
      BY <1>3, <3>1 DEF Iterates
    <3>3. f[n] = more[n][f[n - 1]]
      BY <1>3 DEF Iterates
    <3> HIDE DEF X, L, After
    <3> QED
      BY <3>2, <3>3
  <2>2. \A n \in 0 .. L : n = 0 \/ n \in 1 .. L
    BY <1>1
  <2>4. f \in [0 .. L -> X] /\ f[0] = << >>
    BY <1>3 DEF Iterates
  <2>3. \A n \in 0 .. L : f[n] = IF n = 0 THEN << >> ELSE After(n, f[n - 1])
    <3> HIDE DEF L, After
    <3> QED
      BY <2>1, <2>2, <2>4
  <2> HIDE DEF X, L, After
  <2> QED
    BY <2>3, <2>4
<1> DEFINE upto == CHOOSE g : Is(g)
<1>5. Is(upto)
  <2> HIDE DEF Is
  <2> QED
    BY <1>4
<1>6. E!Visible(l) = upto[L]
  BY DEF E!Visible
<1> HIDE DEF upto
<1>7. upto[0] \in X /\ \A n \in 1 .. L : upto[n - 1] \in X => upto[n] \in X
  <2>1. \A n \in 0 .. L : upto[n] = IF n = 0 THEN << >> ELSE After(n, upto[n - 1])
    BY <1>5
  <2>2. 0 \in 0 .. L /\ \A n \in 1 .. L : n \in 0 .. L /\ n # 0
    BY <1>1
  <2> HIDE DEF X, L, After
  <2> QED
    BY <1>1, <2>1, <2>2
<1>8. \A n \in 0 .. L : upto[n] \in X
  <2> HIDE DEF X, L
  <2> QED
    BY <1>1, <1>7, IterationStays
<1> QED
  BY <1>1, <1>6, <1>8

\* Positions in their order: each of them has its place.
LEMMA InOrderIs ==
    ASSUME NEW S \in SUBSET Nat, IsFiniteSet(S)
    PROVE  /\ E!InOrder(S) \in Seq(S) /\ Len(E!InOrder(S)) = Cardinality(S)
           /\ \A x \in S : \E k \in 1 .. Cardinality(S) : E!InOrder(S)[k] = x
<1> DEFINE before == {p \in S \X S : p[1] < p[2]}
           Place(k) == CHOOSE x \in S : Cardinality(Lower(S, before, x)) = k - 1
           place == [k \in 1 .. Cardinality(S) |-> Place(k)]
<1>1. Cardinality(S) \in Nat
  BY FS_CardinalityType
<1>2. E!InOrder(S) = place
  <2>1. \A x \in S : Lower(S, before, x) = {y \in S : y < x}
    BY DEF Lower
  <2>2. \A k : Place(k) = (CHOOSE x \in S : E!Cardinality({y \in S : y < x}) = k - 1)
    BY <2>1, EvidenceCounts
  <2>3. E!InOrder(S) =
          [k \in 1 .. E!Cardinality(S) |-> CHOOSE x \in S : E!Cardinality({y \in S : y < x}) = k - 1]
    BY DEF E!InOrder
  <2> HIDE DEF Place
  <2> QED
    BY <2>2, <2>3, EvidenceCounts
<1>3. Ranks(S, before)
  BY DEF Ranks
<1>4. \A i \in S : \E k \in 1 .. Cardinality(S) : place[k] = i
  <2> HIDE DEF before
  <2> QED
    BY <1>3, OrderedHas
<1>5. \A k \in 1 .. Cardinality(S) : place[k] \in S
  <2> HIDE DEF before
  <2> QED
    BY <1>3, PlaceIsTaken
<1>6. place \in [1 .. Cardinality(S) -> S]
  BY <1>5
<1> HIDE DEF place
<1> QED
  BY <1>1, <1>2, <1>4, <1>6, RunSeq

\* A list is its head and the rest,
LEMMA TailEntries ==
    ASSUME NEW S, NEW q \in Seq(S), q # << >>
    PROVE  /\ Head(q) \in S /\ Tail(q) \in Seq(S) /\ Len(Tail(q)) = Len(q) - 1
           /\ Len(q) \in Nat /\ Len(q) > 0
           /\ Entries(q) = {Head(q)} \union Entries(Tail(q))
<1>1. Len(q) \in Nat /\ Len(q) > 0 /\ DOMAIN q = 1 .. Len(q)
  OBVIOUS
<1>2. /\ Head(q) = q[1] /\ Tail(q) \in Seq(S) /\ Len(Tail(q)) = Len(q) - 1
      /\ DOMAIN Tail(q) = 1 .. Len(q) - 1 /\ \A j \in 1 .. Len(q) - 1 : Tail(q)[j] = q[j + 1]
  BY <1>1
<1>3. Entries(q) \subseteq {Head(q)} \union Entries(Tail(q))
  <2> SUFFICES ASSUME NEW j \in 1 .. Len(q) PROVE q[j] = q[1] \/ q[j] \in Entries(Tail(q))
    BY <1>1, <1>2 DEF Entries
  <2>1. CASE j = 1
    BY <2>1
  <2>2. CASE j # 1
    <3>1. j - 1 \in 1 .. Len(q) - 1 /\ (j - 1) + 1 = j
      BY <1>1, <2>2
    <3>2. Tail(q)[j - 1] = q[j]
      BY <1>2, <3>1
    <3> QED
      BY <1>2, <3>1, <3>2 DEF Entries
  <2> QED
    BY <2>1, <2>2
<1>4. {Head(q)} \union Entries(Tail(q)) \subseteq Entries(q)
  <2>1. \A j \in 1 .. Len(q) - 1 : j + 1 \in 1 .. Len(q)
    BY <1>1
  <2>2. 1 \in 1 .. Len(q)
    BY <1>1
  <2> QED
    BY <1>1, <1>2, <2>1, <2>2 DEF Entries
<1>5. Head(q) \in S
  BY <1>1, <1>2
<1> QED
  BY <1>1, <1>2, <1>3, <1>4, <1>5

\* and two lists make one.
LEMMA JoinEntries ==
    ASSUME NEW S, NEW p \in Seq(S), NEW q \in Seq(S)
    PROVE  /\ p \o q \in Seq(S) /\ Len(p \o q) = Len(p) + Len(q)
           /\ Entries(p \o q) = Entries(p) \union Entries(q)
<1>1. /\ Len(p) \in Nat /\ Len(q) \in Nat /\ DOMAIN p = 1 .. Len(p) /\ DOMAIN q = 1 .. Len(q)
      /\ p \o q \in Seq(S) /\ Len(p \o q) = Len(p) + Len(q)
  OBVIOUS
<1>2. /\ DOMAIN (p \o q) = 1 .. Len(p) + Len(q)
      /\ \A j \in 1 .. Len(p) + Len(q) : (p \o q)[j] = IF j <= Len(p) THEN p[j] ELSE q[j - Len(p)]
  BY <1>1
<1>3. \A j \in 1 .. Len(p) + Len(q) : j \in 1 .. Len(p) \/ (~ j <= Len(p) /\ j - Len(p) \in 1 .. Len(q))
  BY <1>1
<1>4. \A j \in 1 .. Len(p) : j \in 1 .. Len(p) + Len(q) /\ j <= Len(p)
  BY <1>1
<1>5. \A j \in 1 .. Len(q) : /\ j + Len(p) \in 1 .. Len(p) + Len(q) /\ ~ j + Len(p) <= Len(p)
                              /\ (j + Len(p)) - Len(p) = j
  BY <1>1
<1>6. \A j \in 1 .. Len(q) : (p \o q)[j + Len(p)] = q[j]
  BY <1>2, <1>5
<1>7. Entries(q) \subseteq Entries(p \o q)
  BY <1>1, <1>2, <1>5, <1>6 DEF Entries
<1>8. Entries(p) \subseteq Entries(p \o q)
  BY <1>1, <1>2, <1>4 DEF Entries
<1>9. Entries(p \o q) \subseteq Entries(p) \union Entries(q)
  <2> SUFFICES ASSUME NEW j \in 1 .. Len(p) + Len(q) PROVE (p \o q)[j] \in Entries(p) \union Entries(q)
    BY <1>2 DEF Entries
  <2>1. CASE j \in 1 .. Len(p)
    BY <1>1, <1>2, <1>4, <2>1 DEF Entries
  <2>2. CASE ~ j <= Len(p) /\ j - Len(p) \in 1 .. Len(q)
    BY <1>1, <1>2, <2>2 DEF Entries
  <2> QED
    BY <1>3, <2>1, <2>2
<1> QED
  BY <1>1, <1>7, <1>8, <1>9

\* The nodes that a walk may meet, what it may complain of, and its states.
Targets(l) == EvidenceNode \union {l[i].to : i \in DOMAIN l}

Reasons ==
    {"eligible", "scope_or_source_unavailable", "source_pin_missing", "source_changed",
     "observation_outside_window", "source_provenance_missing", "unresolved_conflict",
     "dependency_provenance_missing", "hop_limit"}

Complaints(c) == SUBSET [reason : Reasons, source : c.scope \union {Unset}]

ClosureState(l, c) ==
    [queue : Seq(Targets(l) \X Nat), seen : SUBSET Targets(l), problem : Complaints(c)]

\* snapshot: rows are events of the journal.
LEMMA RowsInside == ASSUME NEW l PROVE E!Rows(l) \subseteq DOMAIN l
BY DEF E!Rows

\* closure.rs: a problem is one reason at one source.
LEMMA ProblemIs ==
    ASSUME NEW c, NEW n, NEW reason \in Reasons
    PROVE  E!Problem(reason, n, c) \in Complaints(c) /\ E!Problem(reason, n, c) # {}
BY DEF E!Problem, Complaints

\* closure.rs, eligible: the verdicts on a node.
LEMMA EligibilityIs ==
    ASSUME NEW l, NEW c, NEW n
    PROVE  /\ E!Eligibility(l, c, n) \in Reasons
           /\ E!Eligibility(l, c, n) = "eligible" => n \in EvidenceNode
<1>1. CASE n \notin c.scope
  BY <1>1 DEF E!Eligibility, Reasons
<1>2. CASE n \in c.scope /\ n \notin DOMAIN c.pins
  BY <1>2 DEF E!Eligibility, Reasons
<1>3. CASE n \in c.scope /\ n \in DOMAIN c.pins /\ n \notin E!Nodes(l)
  BY <1>3 DEF E!Eligibility, Reasons
<1>4. CASE n \in c.scope /\ n \in DOMAIN c.pins /\ n \in E!Nodes(l)
  <2>1. n \in EvidenceNode
    BY <1>4 DEF E!Nodes
  <2>2. E!Eligibility(l, c, n) =
            LET v == E!Value(l, n)
            IN IF v # c.pins[n] THEN "source_changed"
               ELSE IF v.at < MinObserved \/ v.at > AsOf THEN "observation_outside_window"
               ELSE IF ~v.sound THEN "source_provenance_missing" ELSE "eligible"
    BY <1>4 DEF E!Eligibility, Reasons
  <2> QED
    BY <2>1, <2>2 DEF Reasons
<1> QED
  BY <1>1, <1>2, <1>3, <1>4

\* A row that leads to no problem is a sound dependency, on an eligible node, within
\* the hops.
LEMMA RowProblemIs ==
    ASSUME NEW l, NEW c, NEW i, NEW n, NEW depth, NEW seen
    PROVE  /\ E!RowProblem(l, c, i, n, depth, seen) \in Complaints(c)
           /\ E!RowProblem(l, c, i, n, depth, seen) = {} =>
                /\ l[i].kind # "CONTRADICTS" /\ l[i].sound
                /\ depth >= c.hops => l[i].to \in seen
<1> DEFINE e == l[i]
<1>1. CASE e.kind = "CONTRADICTS"
  BY <1>1, ProblemIs DEF E!RowProblem, Reasons
<1>2. CASE e.kind # "CONTRADICTS" /\ E!Eligibility(l, c, e.to) # "eligible"
  <2>1. E!RowProblem(l, c, i, n, depth, seen) = E!Problem(E!Eligibility(l, c, e.to), e.to, c)
    BY <1>2 DEF E!RowProblem
  <2> QED
    BY <2>1, ProblemIs, EligibilityIs
<1>3. CASE e.kind # "CONTRADICTS" /\ E!Eligibility(l, c, e.to) = "eligible" /\ ~e.sound
  <2>1. E!RowProblem(l, c, i, n, depth, seen) = E!Problem("dependency_provenance_missing", n, c)
    BY <1>3 DEF E!RowProblem
  <2> QED
    BY <2>1, ProblemIs DEF Reasons
<1>4. CASE /\ e.kind # "CONTRADICTS" /\ E!Eligibility(l, c, e.to) = "eligible" /\ e.sound
           /\ depth >= c.hops /\ e.to \notin seen
  <2>1. E!RowProblem(l, c, i, n, depth, seen) = E!Problem("hop_limit", n, c)
    BY <1>4 DEF E!RowProblem
  <2> QED
    BY <2>1, ProblemIs DEF Reasons
<1>5. CASE /\ e.kind # "CONTRADICTS" /\ E!Eligibility(l, c, e.to) = "eligible" /\ e.sound
           /\ ~(depth >= c.hops /\ e.to \notin seen)
  <2>1. E!RowProblem(l, c, i, n, depth, seen) = {}
    BY <1>5 DEF E!RowProblem
  <2> QED
    BY <1>5, <2>1 DEF Complaints
<1> QED
  BY <1>1, <1>2, <1>3, <1>4, <1>5

\* When there is no first problem, there is none.
LEMMA FirstProblemIs ==
    ASSUME NEW S, NEW l \in Seq(S), NEW c, NEW n, NEW depth, NEW seen
    PROVE  /\ E!FirstProblem(l, c, n, depth, seen) \in Complaints(c)
           /\ E!FirstProblem(l, c, n, depth, seen) = {} =>
                \A i \in E!Adjacent(l, n) : E!RowProblem(l, c, i, n, depth, seen) = {}
<1> DEFINE bad == {i \in E!Adjacent(l, n) : E!RowProblem(l, c, i, n, depth, seen) # {}}
<1>1. CASE bad = {}
  <2>1. E!FirstProblem(l, c, n, depth, seen) = {}
    BY <1>1 DEF E!FirstProblem
  <2> QED
    BY <1>1, <2>1 DEF Complaints
<1>2. CASE bad # {}
  <2>1. E!FirstProblem(l, c, n, depth, seen) = E!RowProblem(l, c, E!Min(bad), n, depth, seen)
    BY <1>2 DEF E!FirstProblem
  <2>2. bad \in SUBSET Nat
    <3>1. DOMAIN l \subseteq Nat
      OBVIOUS
    <3> QED
      BY <3>1, RowsInside DEF E!Adjacent
  <2>3. E!Min(bad) \in bad
    <3> HIDE DEF bad
    <3>1. PICK x \in bad : \A y \in bad : x <= y
      BY <1>2, <2>2, LeastNat
    <3> QED
      BY <3>1 DEF E!Min
  <2> QED
    BY <2>1, <2>3, RowProblemIs
<1> QED
  BY <1>1, <1>2

\* The rows that lead from a node to where the walk has not been.
NewRows(l, n, now) == {i \in E!Adjacent(l, n) : l[i].to \notin now}

Queued(l, n, now, depth) ==
    [k \in DOMAIN E!InOrder(NewRows(l, n, now)) |-> <<l[E!InOrder(NewRows(l, n, now))[k]].to, depth + 1>>]

\* Their ends, one step further.
Further(l, rows, depth) == {<<l[i].to, depth + 1>> : i \in rows}

\* closure.rs: the rows to nodes that were not seen are finitely many.
LEMMA NewRowsAre ==
    ASSUME NEW S, NEW l \in Seq(S), NEW n, NEW now
    PROVE  /\ NewRows(l, n, now) \subseteq DOMAIN l /\ DOMAIN l = 1 .. Len(l) /\ Len(l) \in Nat
           /\ NewRows(l, n, now) \in SUBSET Nat /\ IsFiniteSet(NewRows(l, n, now)) /\ IsFiniteSet(DOMAIN l)
<1>1. DOMAIN l = 1 .. Len(l) /\ Len(l) \in Nat
  OBVIOUS
<1>2. NewRows(l, n, now) \subseteq DOMAIN l
  BY RowsInside DEF NewRows, E!Adjacent
<1>3. IsFiniteSet(1 .. Len(l))
  BY <1>1, FS_Interval
<1>4. IsFiniteSet(NewRows(l, n, now))
  BY <1>1, <1>2, <1>3, FS_Subset
<1> QED
  BY <1>1, <1>2, <1>3, <1>4

\* closure.rs, the queue: the ends of the new rows, one step further.
LEMMA QueuedIs ==
    ASSUME NEW S, NEW l \in Seq(S), NEW n, NEW now, NEW depth \in Nat
    PROVE  /\ Queued(l, n, now, depth) \in Seq(Targets(l) \X Nat)
           /\ Len(Queued(l, n, now, depth)) = Cardinality(NewRows(l, n, now))
           /\ Entries(Queued(l, n, now, depth)) = Further(l, NewRows(l, n, now), depth)
<1> DEFINE rows == NewRows(l, n, now)
           list == E!InOrder(rows)
           q == Queued(l, n, now, depth)
<1>1. rows \in SUBSET Nat /\ IsFiniteSet(rows) /\ rows \subseteq DOMAIN l
  BY NewRowsAre
<1>2. /\ list \in Seq(rows) /\ Len(list) = Cardinality(rows) /\ Cardinality(rows) \in Nat
      /\ \A x \in rows : \E k \in 1 .. Cardinality(rows) : list[k] = x
  <2> HIDE DEF rows
  <2> QED
    BY <1>1, InOrderIs, FS_CardinalityType
<1>3. DOMAIN list = 1 .. Cardinality(rows) /\ \A k \in 1 .. Cardinality(rows) : list[k] \in rows
  <2> HIDE DEF rows, list
  <2> QED
    BY <1>2
<1>4. q = [k \in 1 .. Cardinality(rows) |-> <<l[list[k]].to, depth + 1>>]
  BY <1>3 DEF Queued
<1>5. \A k \in 1 .. Cardinality(rows) : <<l[list[k]].to, depth + 1>> \in Targets(l) \X Nat
  <2>1. \A i \in rows : l[i].to \in Targets(l)
    BY <1>1 DEF Targets
  <2> HIDE DEF rows, list
  <2> QED
    BY <1>3, <2>1
<1>6. q \in [1 .. Cardinality(rows) -> Targets(l) \X Nat]
  <2> HIDE DEF rows, list, q
  <2> QED
    BY <1>4, <1>5
<1>7. q \in Seq(Targets(l) \X Nat) /\ Len(q) = Cardinality(rows)
  <2> HIDE DEF rows, list, q
  <2> QED
    BY <1>2, <1>6, RunSeq
<1>8. Entries(q) = Further(l, rows, depth)
  <2> HIDE DEF rows, list, q
  <2>1. DOMAIN q = 1 .. Cardinality(rows) /\ \A k \in 1 .. Cardinality(rows) : q[k] = <<l[list[k]].to, depth + 1>>
    BY <1>4
  <2>2. ASSUME NEW i \in rows PROVE <<l[i].to, depth + 1>> \in Entries(q)
    <3>1. PICK k \in 1 .. Cardinality(rows) : list[k] = i
      BY <1>2
    <3> QED
      BY <2>1, <3>1 DEF Entries
  <2>3. ASSUME NEW k \in DOMAIN q PROVE q[k] \in {<<l[i].to, depth + 1>> : i \in rows}
    <3>1. q[k] = <<l[list[k]].to, depth + 1>> /\ list[k] \in rows
      BY <1>3, <2>1
    <3> QED
      BY <3>1
  <2> QED
    BY <2>2, <2>3 DEF Entries, Further
<1> QED
  BY <1>7, <1>8

\* What has been said against a node that joins the closure: nothing.
Joins(l, c, n, depth, now) ==
    /\ E!Eligibility(l, c, n) = "eligible"
    /\ \A i \in E!Adjacent(l, n) : E!RowProblem(l, c, i, n, depth, now) = {}

Passed(w, t) == t.queue = Tail(w.queue) /\ t.seen = w.seen /\ t.problem = {}

Joined(l, n, depth, w, t) ==
    /\ t.queue = Tail(w.queue) \o Queued(l, n, w.seen \union {n}, depth)
    /\ t.seen = w.seen \union {n} /\ t.problem = {}

\* closure.rs, the loop: a node is passed over, refused, or joins.
LEMMA FollowIs ==
    ASSUME NEW S, NEW l \in Seq(S), NEW c, NEW w \in ClosureState(l, c), w.queue # << >>
    PROVE  LET n == Head(w.queue)[1]
               depth == Head(w.queue)[2]
               t == E!Follow(l, c, w)
           IN /\ t \in ClosureState(l, c) /\ n \in Targets(l) /\ depth \in Nat
              /\ \/ n \in w.seen /\ Passed(w, t)
                 \/ n \notin w.seen /\ t.problem # {} /\ t.seen = {}
                 \/ /\ n \notin w.seen /\ Joins(l, c, n, depth, w.seen \union {n})
                    /\ Joined(l, n, depth, w, t)
<1> DEFINE n == Head(w.queue)[1]
           depth == Head(w.queue)[2]
           t == E!Follow(l, c, w)
           now == w.seen \union {n}
           problem == IF E!Eligibility(l, c, n) # "eligible"
                      THEN E!Problem(E!Eligibility(l, c, n), n, c)
                      ELSE E!FirstProblem(l, c, n, depth, now)
           Pairs == Targets(l) \X Nat
<1>1. w.queue \in Seq(Pairs) /\ w.seen \in SUBSET Targets(l)
  BY DEF ClosureState
<1>2. Head(w.queue) \in Pairs /\ Tail(w.queue) \in Seq(Pairs)
  <2> HIDE DEF Pairs
  <2> QED
    BY <1>1, TailEntries
<1>3. n \in Targets(l) /\ depth \in Nat /\ now \in SUBSET Targets(l)
  BY <1>1, <1>2
<1>4. t = IF n \in w.seen THEN [queue |-> Tail(w.queue), seen |-> w.seen, problem |-> {}]
          ELSE IF problem # {} THEN [queue |-> w.queue, seen |-> {}, problem |-> problem]
          ELSE [queue |-> Tail(w.queue) \o Queued(l, n, now, depth), seen |-> now, problem |-> {}]
  BY DEF E!Follow, Queued, NewRows
<1>5. problem \in Complaints(c) /\ (problem = {} => Joins(l, c, n, depth, now))
  <2> HIDE DEF n, depth, now
  <2>1. CASE E!Eligibility(l, c, n) # "eligible"
    BY <2>1, EligibilityIs, ProblemIs
  <2>2. CASE E!Eligibility(l, c, n) = "eligible"
    BY <2>2, FirstProblemIs DEF Joins
  <2> QED
    BY <2>1, <2>2
<1>6. {} \in Complaints(c) /\ {} \in SUBSET Targets(l)
  BY DEF Complaints
<1>7. Tail(w.queue) \o Queued(l, n, now, depth) \in Seq(Pairs)
  <2>1. Queued(l, n, now, depth) \in Seq(Pairs)
    BY <1>3, QueuedIs
  <2> HIDE DEF Pairs, n, depth, now
  <2> QED
    BY <1>2, <2>1, JoinEntries
<1> HIDE DEF n, depth, now, problem, t, Pairs
<1>8. CASE n \in w.seen
  <2>1. t = [queue |-> Tail(w.queue), seen |-> w.seen, problem |-> {}]
    BY <1>4, <1>8
  <2> QED
    BY <1>1, <1>2, <1>3, <1>6, <1>8, <2>1 DEF Passed, ClosureState, n, depth, t, Pairs
<1>9. CASE n \notin w.seen /\ problem # {}
  <2>1. t = [queue |-> w.queue, seen |-> {}, problem |-> problem]
    BY <1>4, <1>9
  <2> QED
    BY <1>1, <1>3, <1>5, <1>6, <1>9, <2>1 DEF ClosureState, n, depth, t, Pairs
<1>10. CASE n \notin w.seen /\ problem = {}
  <2>1. t = [queue |-> Tail(w.queue) \o Queued(l, n, now, depth), seen |-> now, problem |-> {}]
    BY <1>4, <1>10
  <2>2. t \in ClosureState(l, c)
    BY <1>3, <1>6, <1>7, <2>1 DEF ClosureState, Pairs
  <2>3. Joined(l, n, depth, w, t)
    BY <2>1 DEF Joined, now
  <2> QED
    BY <1>3, <1>5, <1>10, <2>2, <2>3 DEF n, depth, t, now
<1> QED
  BY <1>8, <1>9, <1>10

Furthest == Cardinality(EvidenceNode)

\* No node is further than there are nodes.
LEMMA FurthestIs == Furthest \in Nat /\ IsFiniteSet(EvidenceNode)
<1>1. IsFiniteSet(EvidenceNode)
  BY AnswersAssumption, EvidenceFinite DEF E!EvidenceAssumption
<1> QED
  BY <1>1, FS_CardinalityType DEF Furthest

\* What the nodes depend on.
Needs(l, ns) == {l[i].to : i \in {j \in E!Depends(l) : l[j].from \in ns}}

Nearer(l, roots, near) ==
    /\ near[0] = roots
    /\ \A k \in 1 .. Furthest : near[k] = near[k - 1] \union Needs(l, near[k - 1])

\* The nodes within k dependencies, one more at a time.
LEMMA WithinIs ==
    ASSUME NEW l, NEW roots \in SUBSET EvidenceNode
    PROVE  Nearer(l, roots, E!Within(l, roots))
<1> DEFINE X == SUBSET Targets(l)
           After(s) == s \union Needs(l, s)
           Is(f) == f = [k \in 0 .. Furthest |-> IF k = 0 THEN roots ELSE After(f[k - 1])]
           more == [k \in 1 .. Furthest |-> [s \in X |-> After(s)]]
<1>1. roots \in X /\ \A s \in X : After(s) \in X
  BY RowsInside DEF Targets, Needs, E!Depends
<1>2. more \in [1 .. Furthest -> [X -> X]]
  <2> HIDE DEF X, After
  <2> QED
    BY <1>1
<1>3. PICK f : Iterates(Furthest, X, roots, more, f)
  <2> HIDE DEF X, more
  <2> QED
    BY <1>1, <1>2, Iteration, FurthestIs
<1>4. Is(f)
  <2>1. f \in [0 .. Furthest -> X] /\ f[0] = roots
    BY <1>3 DEF Iterates
  <2>2. ASSUME NEW k \in 1 .. Furthest PROVE f[k] = After(f[k - 1])
    <3>1. f[k - 1] \in X
      <4>1. k - 1 \in 0 .. Furthest
        BY FurthestIs
      <4> HIDE DEF X
      <4> QED
        BY <2>1, <4>1
    <3>2. f[k] = more[k][f[k - 1]]
      BY <1>3 DEF Iterates
    <3> HIDE DEF X, After
    <3> QED
      BY <3>1, <3>2
  <2>3. \A k \in 0 .. Furthest : k = 0 \/ k \in 1 .. Furthest
    BY FurthestIs
  <2> HIDE DEF X, After
  <2> QED
    BY <2>1, <2>2, <2>3
<1> DEFINE near == CHOOSE g : Is(g)
<1>5. Is(near)
  <2> HIDE DEF Is
  <2> QED
    BY <1>4
<1>6. E!Within(l, roots) = near
  BY EvidenceCounts DEF E!Within, Needs, Furthest
<1> HIDE DEF near
<1>7. 0 \in 0 .. Furthest /\ \A k \in 1 .. Furthest : k \in 0 .. Furthest /\ k # 0
  BY FurthestIs
<1>8. near[0] = roots /\ \A k \in 1 .. Furthest : near[k] = After(near[k - 1])
  BY <1>5, <1>7
<1> QED
  BY <1>6, <1>8 DEF Nearer

\* What is near stays near.
LEMMA WithinGrows ==
    ASSUME NEW l, NEW roots, NEW near, Nearer(l, roots, near), NEW j \in 0 .. Furthest
    PROVE  \A k \in j .. Furthest : near[j] \subseteq near[k]
<1> DEFINE P == {k \in Nat : k >= j => near[j] \subseteq near[k]}
<1>1. 0 \in P
  BY FurthestIs
<1>2. ASSUME NEW n \in 0 .. Furthest - 1, n \in P PROVE n + 1 \in P
  <2>1. PICK k \in 1 .. Furthest : k = n + 1 /\ k - 1 = n
    BY FurthestIs
  <2>2. near[n] \subseteq near[n + 1]
    BY <2>1 DEF Nearer
  <2>3. CASE n >= j
    BY <1>2, <2>2, <2>3
  <2>4. CASE ~(n >= j)
    <3>1. n + 1 >= j => n + 1 = j
      BY <2>4, FurthestIs
    <3> QED
      BY <3>1
  <2> QED
    BY <2>3, <2>4
<1>3. \A n \in 0 .. Furthest : n \in P
  <2> HIDE DEF P
  <2> QED
    BY <1>1, <1>2, UpTo, FurthestIs
<1> QED
  BY <1>3, FurthestIs

\* What holds the roots and all that it depends on holds all that is near.
LEMMA WithinInside ==
    ASSUME NEW l, NEW roots, NEW near, Nearer(l, roots, near), NEW all,
           roots \subseteq all, Needs(l, all) \subseteq all
    PROVE  \A k \in 0 .. Furthest : near[k] \subseteq all
<1> DEFINE P == {k \in Nat : near[k] \subseteq all}
<1>1. 0 \in P
  BY DEF Nearer
<1>2. ASSUME NEW n \in 0 .. Furthest - 1, n \in P PROVE n + 1 \in P
  <2>1. PICK k \in 1 .. Furthest : k = n + 1 /\ k - 1 = n
    BY FurthestIs
  <2>2. near[k] = near[n] \union Needs(l, near[n])
    BY <2>1 DEF Nearer
  <2>3. Needs(l, near[n]) \subseteq Needs(l, all)
    BY <1>2 DEF Needs
  <2> QED
    BY <1>2, <2>1, <2>2, <2>3
<1>3. \A n \in 0 .. Furthest : n \in P
  <2> HIDE DEF P
  <2> QED
    BY <1>1, <1>2, UpTo, FurthestIs
<1> QED
  BY <1>3

Waiting(w) == {e[1] : e \in Entries(w.queue)}

\* The roots are in the closure or wait to be.
Rooted(roots, w) == roots \subseteq w.seen \union Waiting(w)

\* A node in the closure is usable, uncontradicted, and so is what it depends on, or
\* that waits.
Settled(l, c, w) ==
    \A n \in w.seen :
        /\ n \in EvidenceNode /\ E!Eligibility(l, c, n) = "eligible" /\ ~E!Contradicted(l, n)
        /\ \A i \in E!Depends(l) : l[i].from = n => l[i].sound /\ l[i].to \in w.seen \union Waiting(w)

\* Depths are within the hops and count the nodes on the way.
Shallow(c, near, w) ==
    /\ \A e \in Entries(w.queue) :
          e[2] <= c.hops /\ e[2] <= Cardinality(w.seen) /\ e[1] \in near[e[2]]
    /\ \A n \in w.seen : \E d \in 0 .. Furthest : d <= c.hops /\ n \in near[d]

\* The rows of nodes that were not followed.
Unfollowed(l, seen) == {i \in DOMAIN l : l[i].from \notin seen}

\* What is left to do becomes less.
Ending(l, roots, w, k) ==
    w.queue # << >> =>
        Len(w.queue) + Cardinality(Unfollowed(l, w.seen)) + k <= Cardinality(roots) + Cardinality(DOMAIN l)

WalkInv(l, c, roots, near, w, k) ==
    /\ w \in ClosureState(l, c)
    /\ w.problem = {} => Rooted(roots, w) /\ Settled(l, c, w) /\ Shallow(c, near, w) /\ Ending(l, roots, w, k)

\* A node that joins is not contradicted and its dependencies are sound.
LEMMA JoinsIs ==
    ASSUME NEW l, NEW c, NEW n, NEW depth, NEW now, Joins(l, c, n, depth, now)
    PROVE  /\ n \in EvidenceNode /\ ~E!Contradicted(l, n)
           /\ \A i \in E!Depends(l) : l[i].from = n =>
                 l[i].sound /\ (l[i].to \in now \/ i \in NewRows(l, n, now))
           /\ \A i \in NewRows(l, n, now) : i \in E!Depends(l) /\ l[i].from = n /\ ~(depth >= c.hops)
<1>1. \A i \in E!Adjacent(l, n) :
          l[i].kind # "CONTRADICTS" /\ l[i].sound /\ (depth >= c.hops => l[i].to \in now)
  BY RowProblemIs DEF Joins
<1>2. n \in EvidenceNode
  BY EligibilityIs DEF Joins
<1>3. ~E!Contradicted(l, n)
  BY <1>1 DEF E!Contradicted, E!Adjacent
<1>4. \A i \in E!Depends(l) : l[i].from = n => i \in E!Adjacent(l, n)
  BY DEF E!Depends, E!Adjacent
<1>5. \A i \in NewRows(l, n, now) : i \in E!Adjacent(l, n) /\ l[i].to \notin now
  BY DEF NewRows
<1>6. \A i \in E!Adjacent(l, n) : l[i].to \in now \/ i \in NewRows(l, n, now)
  BY DEF NewRows
<1>7. \A i \in E!Adjacent(l, n) : l[i].kind # "CONTRADICTS" => i \in E!Depends(l) /\ l[i].from = n
  BY DEF E!Depends, E!Adjacent
<1> QED
  BY <1>1, <1>2, <1>3, <1>4, <1>5, <1>6, <1>7

\* The walk goes on after a node that was in the closure already,
LEMMA PassedKeeps ==
    ASSUME NEW S, NEW l \in Seq(S), NEW c, NEW roots, NEW near, NEW k \in Nat,
           NEW w \in ClosureState(l, c), w.queue # << >>, w.problem = {}, WalkInv(l, c, roots, near, w, k),
           Head(w.queue)[1] \in w.seen, NEW t \in ClosureState(l, c), Passed(w, t),
           Cardinality(roots) \in Nat
    PROVE  WalkInv(l, c, roots, near, t, k + 1)
<1>1. /\ Rooted(roots, w) /\ Settled(l, c, w) /\ Shallow(c, near, w) /\ Ending(l, roots, w, k)
      /\ t.queue = Tail(w.queue) /\ t.seen = w.seen
  BY DEF WalkInv, Passed
<1>2. w.queue \in Seq(Targets(l) \X Nat)
  BY DEF ClosureState
<1>3. /\ Entries(w.queue) = {Head(w.queue)} \union Entries(t.queue)
      /\ Len(t.queue) = Len(w.queue) - 1 /\ Len(w.queue) \in Nat
  BY <1>1, <1>2, TailEntries
<1>4. t.seen \union Waiting(t) = w.seen \union Waiting(w)
  BY <1>1, <1>3 DEF Waiting
<1>5. Rooted(roots, t) /\ Settled(l, c, t)
  BY <1>1, <1>4 DEF Rooted, Settled
<1>6. Shallow(c, near, t)
  BY <1>1, <1>3 DEF Shallow
<1>7. Ending(l, roots, t, k + 1)
  <2>1. IsFiniteSet(DOMAIN l) /\ Unfollowed(l, w.seen) \subseteq DOMAIN l
    BY NewRowsAre DEF Unfollowed
  <2>2. Cardinality(DOMAIN l) \in Nat /\ Cardinality(Unfollowed(l, w.seen)) \in Nat
    BY <2>1, FS_Subset, FS_CardinalityType
  <2>3. Len(w.queue) + Cardinality(Unfollowed(l, w.seen)) + k <= Cardinality(roots) + Cardinality(DOMAIN l)
    BY <1>1 DEF Ending
  <2> QED
    BY <1>1, <1>3, <2>2, <2>3 DEF Ending
<1> QED
  BY <1>5, <1>6, <1>7 DEF WalkInv

\* The rows of one more node were followed.
LEMMA RowsFollowed ==
    ASSUME NEW S, NEW l \in Seq(S), NEW n, NEW seen, n \notin seen, NEW own, own \subseteq Unfollowed(l, seen),
           \A i \in own : l[i].from = n
    PROVE  /\ Cardinality(own) \in Nat /\ Cardinality(Unfollowed(l, seen \union {n})) \in Nat
           /\ Cardinality(Unfollowed(l, seen)) \in Nat
           /\ Cardinality(own) + Cardinality(Unfollowed(l, seen \union {n})) <= Cardinality(Unfollowed(l, seen))
<1> DEFINE rows == Unfollowed(l, seen)
           rest == Unfollowed(l, seen \union {n})
<1>1. IsFiniteSet(rows)
  BY NewRowsAre, FS_Subset DEF Unfollowed
<1>2. rest \subseteq rows /\ own \intersect rest = {} /\ own \union rest \subseteq rows
  BY DEF Unfollowed
<1> HIDE DEF rows, rest
<1>3. IsFiniteSet(own) /\ IsFiniteSet(rest)
  BY <1>1, <1>2, FS_Subset
<1>4. Cardinality(own \union rest) = Cardinality(own) + Cardinality(rest) - Cardinality(own \intersect rest)
  BY <1>3, FS_Union
<1>5. Cardinality(own \intersect rest) = 0
  BY <1>2, FS_EmptySet
<1>6. Cardinality(own \union rest) <= Cardinality(rows)
  BY <1>1, <1>2, FS_Subset
<1>7. Cardinality(own) \in Nat /\ Cardinality(rest) \in Nat /\ Cardinality(rows) \in Nat
  BY <1>1, <1>3, FS_CardinalityType
<1> QED
  BY <1>4, <1>5, <1>6, <1>7 DEF rows, rest

\* and after a node that joins.
LEMMA JoinedKeeps ==
    ASSUME NEW S, NEW l \in Seq(S), NEW c, c.hops \in Nat, NEW roots, NEW near, Nearer(l, roots, near),
           NEW k \in Nat, NEW w \in ClosureState(l, c), w.queue # << >>, w.problem = {},
           WalkInv(l, c, roots, near, w, k), NEW n, n = Head(w.queue)[1],
           NEW depth \in Nat, depth = Head(w.queue)[2], n \notin w.seen,
           Joins(l, c, n, depth, w.seen \union {n}),
           NEW t \in ClosureState(l, c), Joined(l, n, depth, w, t), Cardinality(roots) \in Nat
    PROVE  WalkInv(l, c, roots, near, t, k + 1)
<1> DEFINE now == w.seen \union {n}
           rows == NewRows(l, n, now)
           q == Queued(l, n, now, depth)
           Pairs == Targets(l) \X Nat
<1>1. /\ Rooted(roots, w) /\ Settled(l, c, w) /\ Shallow(c, near, w) /\ Ending(l, roots, w, k)
      /\ t.queue = Tail(w.queue) \o q /\ t.seen = now
  BY DEF WalkInv, Joined
<1> HIDE DEF now
<1>2. w.queue \in Seq(Pairs)
  BY DEF ClosureState
<1>4. q \in Seq(Pairs) /\ Len(q) = Cardinality(rows) /\ Entries(q) = Further(l, rows, depth)
  <2>1. q \in Seq(Pairs)
    BY QueuedIs
  <2>2. Len(q) = Cardinality(rows)
    BY QueuedIs
  <2>3. Entries(q) = Further(l, rows, depth)
    BY QueuedIs
  <2> QED
    BY <2>1, <2>2, <2>3
<1> HIDE DEF q, rows, Pairs
<1>3. /\ Entries(w.queue) = {Head(w.queue)} \union Entries(Tail(w.queue))
      /\ Tail(w.queue) \in Seq(Pairs)
      /\ Len(Tail(w.queue)) = Len(w.queue) - 1 /\ Len(w.queue) \in Nat
  BY <1>2, TailEntries
<1>5. /\ Entries(t.queue) = Entries(Tail(w.queue)) \union Entries(q)
      /\ Len(t.queue) = Len(w.queue) - 1 + Len(q)
  <2>1. PICK rest \in Seq(Pairs) : rest = Tail(w.queue)
    BY <1>3
  <2>2. q \in Seq(Pairs)
    BY <1>4
  <2>3. Len(rest \o q) = Len(rest) + Len(q) /\ Entries(rest \o q) = Entries(rest) \union Entries(q)
    BY <2>2, JoinEntries
  <2> QED
    BY <1>1, <1>3, <2>1, <2>3
<1>6. /\ n \in EvidenceNode /\ E!Eligibility(l, c, n) = "eligible" /\ ~E!Contradicted(l, n)
      /\ \A i \in E!Depends(l) : l[i].from = n => l[i].sound /\ (l[i].to \in now \/ i \in rows)
      /\ \A i \in rows : i \in E!Depends(l) /\ l[i].from = n /\ depth < c.hops
  <2>1. ~(depth >= c.hops) => depth < c.hops
    OBVIOUS
  <2>2. Joins(l, c, n, depth, now)
    BY DEF now
  <2>3. E!Eligibility(l, c, n) = "eligible"
    BY <2>2 DEF Joins
  <2> QED
    BY <2>1, <2>2, <2>3, JoinsIs DEF rows
<1>7. /\ w.seen \union Waiting(w) \subseteq t.seen \union Waiting(t)
      /\ \A i \in rows : l[i].to \in Waiting(t)
  <2>1. \A e \in Entries(w.queue) : e[1] = n \/ e \in Entries(t.queue)
    BY <1>3, <1>5
  <2>2. ASSUME NEW i \in rows PROVE l[i].to \in Waiting(t)
    <3>1. <<l[i].to, depth + 1>> \in Entries(t.queue)
      BY <1>4, <1>5 DEF Further
    <3>2. \E e \in Entries(t.queue) : e[1] = l[i].to
      BY <3>1
    <3> QED
      BY <3>2 DEF Waiting
  <2>3. Waiting(w) \subseteq {n} \union Waiting(t)
    BY <2>1 DEF Waiting
  <2> QED
    BY <1>1, <2>2, <2>3 DEF now
<1>8. Rooted(roots, t)
  BY <1>1, <1>7 DEF Rooted
<1>9. Settled(l, c, t)
  <2>1. ASSUME NEW m \in w.seen
        PROVE  /\ m \in EvidenceNode /\ E!Eligibility(l, c, m) = "eligible" /\ ~E!Contradicted(l, m)
               /\ \A i \in E!Depends(l) : l[i].from = m => l[i].sound /\ l[i].to \in t.seen \union Waiting(t)
    BY <1>1, <1>7, <2>1 DEF Settled
  <2>2. \A i \in E!Depends(l) : l[i].from = n => l[i].sound /\ l[i].to \in t.seen \union Waiting(t)
    BY <1>1, <1>6, <1>7
  <2>3. \A m \in t.seen : m \in w.seen \/ m = n
    BY <1>1 DEF now
  <2> QED
    BY <1>6, <2>1, <2>2, <2>3 DEF Settled
<1>10. /\ Cardinality(t.seen) = Cardinality(w.seen) + 1 /\ Cardinality(w.seen) \in Nat
       /\ Cardinality(t.seen) <= Furthest
  <2>1. w.seen \subseteq EvidenceNode /\ t.seen \subseteq EvidenceNode
    BY <1>1, <1>6 DEF Settled, now
  <2>2. IsFiniteSet(w.seen) /\ IsFiniteSet(t.seen) /\ Cardinality(t.seen) <= Furthest
    BY <2>1, FurthestIs, FS_Subset DEF Furthest
  <2>3. Cardinality(w.seen) \in Nat
    BY <2>2, FS_CardinalityType
  <2>4. Cardinality(w.seen \union {n}) = Cardinality(w.seen) + 1
    BY <2>2, FS_AddElement
  <2> QED
    BY <1>1, <2>2, <2>3, <2>4 DEF now
<1>11. depth <= c.hops /\ depth <= Cardinality(w.seen) /\ n \in near[depth]
  BY <1>1, <1>3 DEF Shallow
<1>12. Shallow(c, near, t)
  <2>1. ASSUME NEW e \in Entries(Tail(w.queue))
        PROVE  e[2] <= c.hops /\ e[2] <= Cardinality(t.seen) /\ e[1] \in near[e[2]]
    <3>1. e[2] <= c.hops /\ e[2] <= Cardinality(w.seen) /\ e[1] \in near[e[2]]
      BY <1>1, <1>3, <2>1 DEF Shallow
    <3>2. e[2] \in Nat
      <4>1. PICK rest \in Seq(Pairs) : rest = Tail(w.queue)
        BY <1>2, TailEntries
      <4>2. \A x \in Entries(rest) : x \in Pairs
        BY DEF Entries
      <4>3. e \in Targets(l) \X Nat
        BY <2>1, <4>1, <4>2 DEF Pairs
      <4> QED
        BY <4>3
    <3> QED
      BY <1>10, <3>1, <3>2
  <2>2. ASSUME NEW i \in rows
        PROVE  depth + 1 <= c.hops /\ depth + 1 <= Cardinality(t.seen) /\ l[i].to \in near[depth + 1]
    <3>1. depth + 1 \in 1 .. Furthest /\ (depth + 1) - 1 = depth
      <4>1. PICK size \in Nat : size = Cardinality(w.seen) /\ size + 1 <= Furthest /\ depth <= size
        BY <1>10, <1>11
      <4> QED
        BY <4>1, FurthestIs
    <3>2. near[depth + 1] = near[depth] \union Needs(l, near[depth])
      BY <3>1 DEF Nearer
    <3>3. l[i].to \in Needs(l, near[depth])
      BY <1>6, <1>11, <2>2 DEF Needs
    <3>4. depth + 1 <= Cardinality(t.seen)
      BY <1>10, <1>11
    <3>5. depth < c.hops
      BY <1>6, <2>2
    <3>6. depth + 1 <= c.hops
      BY <3>5
    <3>7. l[i].to \in near[depth + 1]
      BY <3>2, <3>3
    <3> QED
      BY <3>4, <3>6, <3>7
  <2>3. ASSUME NEW e \in Entries(t.queue)
        PROVE  e[2] <= c.hops /\ e[2] <= Cardinality(t.seen) /\ e[1] \in near[e[2]]
    <3>1. CASE e \in Entries(Tail(w.queue))
      BY <2>1, <3>1
    <3>2. CASE e \in Entries(q)
      <4>1. PICK i \in rows : e = <<l[i].to, depth + 1>>
        BY <1>4, <3>2 DEF Further
      <4> QED
        BY <2>2, <4>1
    <3> QED
      BY <1>5, <3>1, <3>2
  <2>4. depth \in 0 .. Furthest
    BY <1>10, <1>11, FurthestIs
  <2>5. \A m \in t.seen : \E d \in 0 .. Furthest : d <= c.hops /\ m \in near[d]
    BY <1>1, <1>11, <2>4 DEF Shallow, now
  <2> QED
    BY <2>3, <2>5 DEF Shallow
<1>13. Ending(l, roots, t, k + 1)
  <2>1. rows \subseteq Unfollowed(l, w.seen)
    BY <1>6, RowsInside DEF Unfollowed, E!Depends
  <2>2. /\ Cardinality(rows) \in Nat /\ Cardinality(Unfollowed(l, now)) \in Nat
        /\ Cardinality(Unfollowed(l, w.seen)) \in Nat
        /\ Cardinality(rows) + Cardinality(Unfollowed(l, now)) <= Cardinality(Unfollowed(l, w.seen))
    BY <1>6, <2>1, RowsFollowed DEF now
  <2>3. Cardinality(DOMAIN l) \in Nat
    BY NewRowsAre, FS_CardinalityType
  <2>4. Len(w.queue) + Cardinality(Unfollowed(l, w.seen)) + k <= Cardinality(roots) + Cardinality(DOMAIN l)
    BY <1>1 DEF Ending
  <2>5. /\ Len(t.queue) = Len(w.queue) - 1 + Cardinality(rows)
        /\ Cardinality(Unfollowed(l, t.seen)) = Cardinality(Unfollowed(l, now))
    BY <1>1, <1>4, <1>5
  <2>6. Len(t.queue) + Cardinality(Unfollowed(l, t.seen)) + (k + 1) <= Cardinality(roots) + Cardinality(DOMAIN l)
    <3>1. PICK x \in Nat : x = Cardinality(Unfollowed(l, now))
      BY <2>2
    <3>2. PICK y \in Nat : y = Cardinality(Unfollowed(l, w.seen))
      BY <2>2
    <3>3. PICK more \in Nat : more = Cardinality(rows) /\ more + x <= y
      BY <2>2, <3>1, <3>2
    <3>4. PICK long \in Nat : long = Len(w.queue)
      BY <1>2
    <3>5. PICK most \in Nat : most = Cardinality(roots) + Cardinality(DOMAIN l) /\ long + y + k <= most
      BY <2>3, <2>4, <3>2, <3>4
    <3>6. Len(t.queue) = long - 1 + more /\ Cardinality(Unfollowed(l, t.seen)) = x
      BY <2>5, <3>1, <3>3, <3>4
    <3>7. (long - 1 + more) + x + (k + 1) <= most
      BY <3>3, <3>5
    <3> QED
      BY <3>5, <3>6, <3>7
  <2> QED
    BY <2>6 DEF Ending
<1> QED
  BY <1>8, <1>9, <1>12, <1>13 DEF WalkInv

WalkStart(roots) ==
    [queue |-> [n \in DOMAIN E!InOrder(roots) |-> <<E!InOrder(roots)[n], 0>>], seen |-> {}, problem |-> {}]

WalkNext(l, c, w) == IF w.queue = << >> \/ w.problem # {} THEN w ELSE E!Follow(l, c, w)

\* closure.rs: at first the roots wait.
LEMMA StartKept ==
    ASSUME NEW S, NEW l \in Seq(S), NEW c, c.hops \in Nat, NEW roots \in SUBSET EvidenceNode,
           NEW near, Nearer(l, roots, near)
    PROVE  /\ WalkStart(roots) \in ClosureState(l, c)
           /\ WalkInv(l, c, roots, near, WalkStart(roots), 0)
           /\ Cardinality(roots) \in Nat /\ Cardinality(DOMAIN l) \in Nat
<1> DEFINE list == E!InOrder(roots)
           n == Cardinality(roots)
           q == [k \in DOMAIN list |-> <<list[k], 0>>]
           w == WalkStart(roots)
           Pairs == Targets(l) \X Nat
<1>1. roots \in SUBSET Nat /\ IsFiniteSet(roots)
  <2>1. EvidenceNode \subseteq Nat
    BY AnswersAssumption DEF E!EvidenceAssumption
  <2> QED
    BY <2>1, FurthestIs, FS_Subset
<1>2. n \in Nat /\ Cardinality(DOMAIN l) \in Nat
  BY <1>1, NewRowsAre, FS_CardinalityType
<1>3. /\ list \in Seq(roots) /\ Len(list) = n
      /\ \A x \in roots : \E k \in 1 .. n : list[k] = x
  BY <1>1, InOrderIs
<1> HIDE DEF list, n
<1>4. DOMAIN list = 1 .. n /\ \A k \in 1 .. n : list[k] \in roots
  BY <1>2, <1>3
<1>5. \A k \in 1 .. n : <<list[k], 0>> \in Pairs
  <2>1. roots \subseteq Targets(l)
    BY DEF Targets
  <2> QED
    BY <1>4, <2>1
<1>6. q \in Seq(Pairs) /\ Len(q) = n
  <2>1. q \in [1 .. n -> Pairs]
    <3> HIDE DEF Pairs
    <3> QED
      BY <1>4, <1>5
  <2> HIDE DEF Pairs, q
  <2> QED
    BY <1>2, <2>1, RunSeq
<1>7. w = [queue |-> q, seen |-> {}, problem |-> {}]
  BY DEF WalkStart, list
<1>8. \A e \in Entries(q) : e[2] = 0 /\ e[1] \in roots
  <2>1. \A k \in 1 .. n : q[k][2] = 0 /\ q[k][1] \in roots
    BY <1>4
  <2>2. DOMAIN q = 1 .. n
    BY <1>4
  <2> HIDE DEF q
  <2> QED
    BY <2>1, <2>2 DEF Entries
<1>9. \A x \in roots : x \in Waiting(w)
  <2> TAKE x \in roots
  <2>1. PICK k \in 1 .. n : list[k] = x
    BY <1>3
  <2>2. q[k] = <<x, 0>> /\ k \in DOMAIN q
    BY <1>4, <2>1
  <2>3. <<x, 0>> \in Entries(q)
    BY <2>2 DEF Entries
  <2>4. \E e \in Entries(w.queue) : e[1] = x
    <3>1. w.queue = q /\ <<x, 0>>[1] = x
      BY <1>7
    <3> HIDE DEF w, q
    <3> QED
      BY <2>3, <3>1
  <2> QED
    BY <2>4 DEF Waiting
<1>10. w \in ClosureState(l, c)
  <2>1. {} \in Complaints(c) /\ {} \in SUBSET Targets(l)
    BY DEF Complaints
  <2> HIDE DEF w, q
  <2> QED
    BY <1>6, <1>7, <2>1 DEF ClosureState
<1>11. Rooted(roots, w) /\ Settled(l, c, w)
  BY <1>7, <1>9 DEF Rooted, Settled
<1>12. Shallow(c, near, w)
  <2>1. w.seen = {} /\ w.queue = q
    BY <1>7
  <2>2. Cardinality({}) = 0
    BY FS_EmptySet
  <2>3. roots = near[0]
    BY DEF Nearer
  <2> HIDE DEF w, q
  <2> QED
    BY <1>8, <2>1, <2>2, <2>3 DEF Shallow
<1>13. Ending(l, roots, w, 0)
  <2>1. w.seen = {} /\ w.queue = q
    BY <1>7
  <2>2. Unfollowed(l, w.seen) = DOMAIN l
    BY <2>1 DEF Unfollowed
  <2>3. Len(w.queue) = Cardinality(roots)
    BY <1>6, <2>1 DEF n
  <2> HIDE DEF w, q
  <2> QED
    BY <1>2, <2>2, <2>3 DEF Ending, n
<1> QED
  BY <1>2, <1>10, <1>11, <1>12, <1>13 DEF WalkInv, n

\* closure.rs, the loop keeps what the closure rests on.
LEMMA NextKeeps ==
    ASSUME NEW S, NEW l \in Seq(S), NEW c, c.hops \in Nat, NEW roots, NEW near, Nearer(l, roots, near),
           NEW k \in Nat, NEW w, w \in ClosureState(l, c), WalkInv(l, c, roots, near, w, k),
           Cardinality(roots) \in Nat
    PROVE  WalkInv(l, c, roots, near, WalkNext(l, c, w), k + 1)
<1>1. CASE w.queue = << >> \/ w.problem # {}
  <2>1. WalkNext(l, c, w) = w
    BY <1>1 DEF WalkNext
  <2> QED
    BY <1>1, <2>1 DEF WalkInv, Ending
<1>2. CASE w.queue # << >> /\ w.problem = {}
  <2> DEFINE n == Head(w.queue)[1]
             depth == Head(w.queue)[2]
             t == E!Follow(l, c, w)
  <2>1. /\ t \in ClosureState(l, c) /\ depth \in Nat
        /\ \/ n \in w.seen /\ Passed(w, t)
           \/ n \notin w.seen /\ t.problem # {} /\ t.seen = {}
           \/ n \notin w.seen /\ Joins(l, c, n, depth, w.seen \union {n}) /\ Joined(l, n, depth, w, t)
    BY <1>2, FollowIs
  <2>2. WalkNext(l, c, w) = t
    BY <1>2 DEF WalkNext
  <2> HIDE DEF t
  <2>3. CASE n \in w.seen /\ Passed(w, t)
    BY <1>2, <2>1, <2>2, <2>3, PassedKeeps
  <2>4. CASE t.problem # {}
    BY <2>1, <2>2, <2>4 DEF WalkInv
  <2>5. CASE n \notin w.seen /\ Joins(l, c, n, depth, w.seen \union {n}) /\ Joined(l, n, depth, w, t)
    <3>1. PICK m : m = n
      OBVIOUS
    <3>5. PICK d \in Nat : d = depth
      BY <2>1
    <3> HIDE DEF n, depth
    <3>2. m = Head(w.queue)[1] /\ d = Head(w.queue)[2]
      BY <3>1, <3>5 DEF n, depth
    <3>3. m \notin w.seen /\ Joins(l, c, m, d, w.seen \union {m}) /\ Joined(l, m, d, w, t)
      BY <2>5, <3>1, <3>5
    <3>4. WalkInv(l, c, roots, near, t, k + 1)
      BY <1>2, <2>1, <3>2, <3>3, JoinedKeeps
    <3> QED
      BY <2>2, <3>4
  <2> QED
    BY <2>1, <2>3, <2>4, <2>5
<1> QED
  BY <1>1, <1>2

\* closure.rs: what the loop ends with.
LEMMA ClosureWalk ==
    ASSUME NEW S, NEW l \in Seq(S), NEW c, c.hops \in Nat, NEW roots \in SUBSET EvidenceNode,
           NEW near, Nearer(l, roots, near)
    PROVE  \E w : /\ WalkInv(l, c, roots, near, w, Cardinality(roots) + Cardinality(DOMAIN l))
                  /\ E!Closure(l, c, roots) = [nodes |-> w.seen, problem |-> w.problem]
<1> DEFINE X == ClosureState(l, c)
           most == Cardinality(roots) + Cardinality(DOMAIN l)
           start == WalkStart(roots)
           Is(f) == f = [k \in 0 .. most |-> IF k = 0 THEN start ELSE WalkNext(l, c, f[k - 1])]
           more == [k \in 1 .. most |-> [w \in X |-> WalkNext(l, c, w)]]
<1>1. start \in X /\ WalkInv(l, c, roots, near, start, 0) /\ Cardinality(roots) \in Nat /\ most \in Nat
  <2>1. /\ start \in X /\ WalkInv(l, c, roots, near, start, 0)
        /\ Cardinality(roots) \in Nat /\ Cardinality(DOMAIN l) \in Nat
    BY StartKept
  <2> QED
    BY <2>1
<1>2. ASSUME NEW w \in X PROVE WalkNext(l, c, w) \in X
  <2>1. CASE w.queue = << >> \/ w.problem # {}
    BY <2>1 DEF WalkNext
  <2>2. CASE w.queue # << >> /\ w.problem = {}
    BY <2>2, FollowIs DEF WalkNext
  <2> QED
    BY <2>1, <2>2
<1> HIDE DEF X, most, start
<1>3. more \in [1 .. most -> [X -> X]]
  BY <1>2
<1>4. PICK f : Iterates(most, X, start, more, f)
  <2> HIDE DEF more
  <2> QED
    BY <1>1, <1>3, Iteration
<1>5. Is(f)
  <2>1. f \in [0 .. most -> X] /\ f[0] = start
    BY <1>4 DEF Iterates
  <2>2. ASSUME NEW k \in 1 .. most PROVE f[k] = WalkNext(l, c, f[k - 1])
    <3>1. k - 1 \in 0 .. most
      BY <1>1
    <3>2. f[k] = more[k][f[k - 1]] /\ f[k - 1] \in X
      BY <1>4, <2>1, <3>1 DEF Iterates
    <3> QED
      BY <3>2
  <2>3. \A k \in 0 .. most : k = 0 \/ k \in 1 .. most
    BY <1>1
  <2> QED
    BY <2>1, <2>2, <2>3
<1> DEFINE walk == CHOOSE g : Is(g)
<1>6. Is(walk)
  <2> HIDE DEF Is
  <2> QED
    BY <1>5
<1>7. E!Closure(l, c, roots) = [nodes |-> walk[most].seen, problem |-> walk[most].problem]
  <2>1. E!Cardinality(roots) + E!Cardinality(DOMAIN l) = most
    BY EvidenceCounts DEF most
  <2> QED
    BY <2>1 DEF E!Closure, WalkNext, WalkStart, start
<1> HIDE DEF walk
<1>8. walk[0] = start /\ \A k \in 1 .. most : walk[k] = WalkNext(l, c, walk[k - 1])
  <2>1. 0 \in 0 .. most /\ \A k \in 1 .. most : k \in 0 .. most /\ k # 0
    BY <1>1
  <2> QED
    BY <1>6, <2>1
<1> DEFINE P == {k \in Nat : WalkInv(l, c, roots, near, walk[k], k)}
<1>9. 0 \in P
  BY <1>1, <1>8
<1>10. ASSUME NEW n \in 0 .. most - 1, n \in P PROVE n + 1 \in P
  <2>1. n \in Nat /\ n + 1 \in 1 .. most /\ (n + 1) - 1 = n
    BY <1>1
  <2>2. walk[n + 1] = WalkNext(l, c, walk[n])
    BY <1>8, <2>1
  <2>3. WalkInv(l, c, roots, near, walk[n], n)
    BY <1>10
  <2>4. walk[n] \in ClosureState(l, c)
    BY <2>3 DEF WalkInv
  <2>5. WalkInv(l, c, roots, near, WalkNext(l, c, walk[n]), n + 1)
    BY <1>1, <2>1, <2>3, <2>4, NextKeeps
  <2> QED
    BY <2>1, <2>2, <2>5
<1>11. most \in P
  <2> HIDE DEF P
  <2>1. \A n \in 0 .. most : n \in P
    BY <1>1, <1>9, <1>10, UpTo
  <2> QED
    BY <1>1, <2>1
<1> QED
  BY <1>7, <1>11 DEF most

\* What an admitted alternative stands for.
Rests(l, c, roots, nodes) ==
    /\ E!Grounded(l, c, roots) /\ E!Within(l, roots)[E!Cardinality(EvidenceNode)] \subseteq nodes
    /\ nodes \in SUBSET EvidenceNode /\ \A n \in nodes : ~E!Contradicted(l, n)

\* The lesser of two numbers.
LEMMA LesserIs ==
    ASSUME NEW a \in Nat, NEW b \in Nat
    PROVE  E!Min({a, b}) \in {a, b} /\ E!Min({a, b}) <= a /\ E!Min({a, b}) <= b
<1>1. \E x \in {a, b} : \A y \in {a, b} : x <= y
  <2>1. CASE a <= b
    BY <2>1
  <2>2. CASE b <= a
    BY <2>2
  <2> QED
    BY <2>1, <2>2
<1> QED
  BY <1>1 DEF E!Min

\* closure.rs: an alternative without a problem holds all that it rests on, within the
\* hops, each node as it was pinned.
LEMMA ClosureIs ==
    ASSUME NEW S, NEW l \in Seq(S), NEW c, c.hops \in Nat, NEW roots \in SUBSET EvidenceNode,
           E!Closure(l, c, roots).problem = {}
    PROVE  Rests(l, c, roots, E!Closure(l, c, roots).nodes)
<1> DEFINE near == E!Within(l, roots)
           least == E!Min({c.hops, E!Cardinality(EvidenceNode)})
<1>1. Nearer(l, roots, near)
  BY WithinIs
<1>2. PICK w : /\ WalkInv(l, c, roots, near, w, Cardinality(roots) + Cardinality(DOMAIN l))
               /\ E!Closure(l, c, roots) = [nodes |-> w.seen, problem |-> w.problem]
  <2> HIDE DEF near
  <2> QED
    BY <1>1, ClosureWalk
<1>3. w.problem = {} /\ E!Closure(l, c, roots).nodes = w.seen
  BY <1>2
<1> HIDE DEF near
<1>4. /\ w \in ClosureState(l, c) /\ Rooted(roots, w) /\ Settled(l, c, w) /\ Shallow(c, near, w)
      /\ Ending(l, roots, w, Cardinality(roots) + Cardinality(DOMAIN l))
  BY <1>2, <1>3 DEF WalkInv
<1>5. w.queue = << >>
  <2> SUFFICES ASSUME w.queue # << >> PROVE FALSE
    OBVIOUS
  <2>1. w.queue \in Seq(Targets(l) \X Nat)
    BY <1>4 DEF ClosureState
  <2>2. Len(w.queue) \in Nat /\ Len(w.queue) > 0
    BY <2>1, TailEntries
  <2>3. Cardinality(roots) \in Nat /\ Cardinality(DOMAIN l) \in Nat
    BY <1>1, StartKept
  <2>4. Cardinality(Unfollowed(l, w.seen)) \in Nat
    <3>1. IsFiniteSet(DOMAIN l) /\ Unfollowed(l, w.seen) \subseteq DOMAIN l
      BY NewRowsAre DEF Unfollowed
    <3> QED
      BY <3>1, FS_Subset, FS_CardinalityType
  <2>5. Len(w.queue) + Cardinality(Unfollowed(l, w.seen)) + (Cardinality(roots) + Cardinality(DOMAIN l))
            <= Cardinality(roots) + Cardinality(DOMAIN l)
    BY <1>4 DEF Ending
  <2> QED
    BY <2>2, <2>3, <2>4, <2>5
<1>6. Waiting(w) = {}
  <2>1. DOMAIN w.queue = {}
    BY <1>5
  <2> QED
    BY <2>1 DEF Waiting, Entries
<1>7. roots \subseteq w.seen /\ Needs(l, w.seen) \subseteq w.seen
  BY <1>4, <1>6 DEF Rooted, Settled, Needs
<1>8. \A k \in 0 .. Furthest : near[k] \subseteq w.seen
  BY <1>1, <1>7, WithinInside
<1>9. E!Cardinality(EvidenceNode) = Furthest /\ Furthest \in Nat
  BY EvidenceCounts, FurthestIs DEF Furthest
<1>10. least \in 0 .. Furthest /\ least <= c.hops /\ (least = c.hops \/ least = Furthest)
  <2>1. least \in {c.hops, Furthest} /\ least <= c.hops /\ least <= Furthest
    BY <1>9, LesserIs
  <2> QED
    BY <1>9, <2>1
<1> HIDE DEF least
<1>11. w.seen \subseteq near[least]
  <2> SUFFICES ASSUME NEW n \in w.seen PROVE n \in near[least]
    OBVIOUS
  <2>1. PICK d \in 0 .. Furthest : d <= c.hops /\ n \in near[d]
    BY <1>4 DEF Shallow
  <2>2. least \in d .. Furthest
    BY <1>9, <1>10, <2>1
  <2>3. near[d] \subseteq near[least]
    BY <1>1, <2>2, WithinGrows
  <2> QED
    BY <2>1, <2>3
<1>12. near[Furthest] = w.seen /\ near[least] = w.seen
  <2>1. Furthest \in least .. Furthest /\ Furthest \in 0 .. Furthest
    BY <1>9, <1>10
  <2>2. near[least] \subseteq near[Furthest]
    BY <1>1, <1>10, <2>1, WithinGrows
  <2> QED
    BY <1>8, <1>10, <1>11, <2>1, <2>2
<1>13. /\ \A n \in w.seen : E!Eligibility(l, c, n) = "eligible" /\ ~E!Contradicted(l, n)
       /\ \A i \in E!Depends(l) : l[i].from \in w.seen => l[i].sound
       /\ w.seen \in SUBSET EvidenceNode
  BY <1>4 DEF Settled
<1>14. E!Grounded(l, c, roots)
  BY <1>9, <1>12, <1>13 DEF E!Grounded, near, least
<1> QED
  BY <1>3, <1>9, <1>12, <1>13, <1>14 DEF Rests, near

\* What evaluate needs of a contract.
WellFormed(c) ==
    /\ c.hops \in Nat /\ c.budget \in Nat /\ c.limit \in Nat
    /\ \A s \in SUBSET EvidenceNode : c.cost[s] \in Nat
    /\ c.facts \in Seq(Seq(SUBSET EvidenceNode))

\* evaluate: the options of a fact are those of its alternatives that close.
LEMMA OptionsAre ==
    ASSUME NEW S, NEW l \in Seq(S), NEW c, WellFormed(c)
    PROVE  /\ E!Options(l, c) \in Seq(Seq(SUBSET EvidenceNode)) /\ Len(E!Options(l, c)) = Len(c.facts)
           /\ \A f \in DOMAIN E!Options(l, c) : \A k \in DOMAIN E!Options(l, c)[f] :
                 \E j \in DOMAIN c.facts[f] : Rests(l, c, c.facts[f][j], E!Options(l, c)[f][k])
<1> DEFINE N == Len(c.facts)
           tried == E!Tried(l, c)
           Good(f) == {k \in DOMAIN tried[f] : tried[f][k].problem = {}}
           Opt(f) == [k \in DOMAIN E!InOrder(Good(f)) |-> tried[f][E!InOrder(Good(f))[k]].nodes]
           options == E!Options(l, c)
<1>1. N \in Nat /\ DOMAIN c.facts = 1 .. N /\ \A f \in 1 .. N : c.facts[f] \in Seq(SUBSET EvidenceNode)
  BY DEF WellFormed
<1>2. /\ DOMAIN tried = 1 .. N
      /\ \A f \in 1 .. N : /\ DOMAIN tried[f] = DOMAIN c.facts[f]
                           /\ \A k \in DOMAIN c.facts[f] : tried[f][k] = E!Closure(l, c, c.facts[f][k])
  BY <1>1 DEF E!Tried
<1>3. options = [f \in 1 .. N |-> Opt(f)]
  BY <1>2 DEF E!Options, E!Admitted
<1>4. ASSUME NEW f \in 1 .. N
      PROVE  /\ Opt(f) \in Seq(SUBSET EvidenceNode)
             /\ \A k \in DOMAIN Opt(f) : \E j \in DOMAIN c.facts[f] : Rests(l, c, c.facts[f][j], Opt(f)[k])
  <2> DEFINE good == Good(f)
             list == E!InOrder(good)
             o == Opt(f)
  <2>1. good \in SUBSET Nat /\ IsFiniteSet(good) /\ good \subseteq DOMAIN c.facts[f]
    <3>1. good \subseteq DOMAIN c.facts[f]
      BY <1>2
    <3>2. PICK n \in Nat : DOMAIN c.facts[f] = 1 .. n
      BY <1>1
    <3>3. IsFiniteSet(1 .. n)
      <4> HIDE DEF N, tried, Good, Opt, options, good, list, o
      <4>1. 1 \in Int /\ n \in Int
        BY <3>2
      <4> QED
        BY <4>1, FS_Interval
    <3> HIDE DEF good
    <3> QED
      BY <3>1, <3>2, <3>3, FS_Subset
  <2>2. \A j \in good : Rests(l, c, c.facts[f][j], tried[f][j].nodes)
    <3> TAKE j \in good
    <3>1. j \in DOMAIN c.facts[f] /\ tried[f][j].problem = {} /\ tried[f][j] = E!Closure(l, c, c.facts[f][j])
      BY <1>2, <2>1
    <3>2. c.facts[f][j] \in SUBSET EvidenceNode
      BY <1>1, <3>1
    <3>3. c.hops \in Nat
      BY DEF WellFormed
    <3> HIDE DEF tried, good
    <3> QED
      BY <3>1, <3>2, <3>3, ClosureIs
  <2> DEFINE n == Cardinality(good)
  <2>3. list \in Seq(good) /\ Len(list) = n /\ n \in Nat
    <3> HIDE DEF good
    <3> QED
      BY <2>1, InOrderIs, FS_CardinalityType
  <2> HIDE DEF good
  <2>4. DOMAIN list = 1 .. n /\ \A k \in 1 .. n : list[k] \in good
    <3> HIDE DEF list, n
    <3> QED
      BY <2>3
  <2>5. o = [k \in 1 .. n |-> tried[f][list[k]].nodes]
    BY <2>4 DEF good
  <2> HIDE DEF list, n, tried, o
  <2>6. \A k \in 1 .. n : Rests(l, c, c.facts[f][list[k]], o[k]) /\ list[k] \in DOMAIN c.facts[f]
    BY <2>1, <2>2, <2>4, <2>5
  <2>7. o \in [1 .. n -> SUBSET EvidenceNode]
    BY <2>5, <2>6 DEF Rests
  <2>8. o \in Seq(SUBSET EvidenceNode) /\ DOMAIN o = 1 .. n
    BY <2>3, <2>7, RunSeq
  <2> QED
    BY <2>6, <2>8 DEF o
<1> HIDE DEF Opt
<1>5. options \in [1 .. N -> Seq(SUBSET EvidenceNode)]
  BY <1>3, <1>4
<1> HIDE DEF options
<1>6. options \in Seq(Seq(SUBSET EvidenceNode)) /\ Len(options) = N /\ DOMAIN options = 1 .. N
  BY <1>1, <1>5, RunSeq
<1>7. \A f \in 1 .. N : options[f] = Opt(f)
  BY <1>3
<1> QED
  BY <1>4, <1>6, <1>7 DEF options

-----------------------------------------------------------------------------
(***************************************************************************)
(* Evidence, the search: every selection that was visited is priced, but for*)
(* those on the way to the one at hand, so the best is the cheapest.       *)
(***************************************************************************)

Offered(options) == options \in Seq(Seq(SUBSET EvidenceNode))

SearchState(c, options) == E!Searching(options, c.limit)

SearchDomain(c, options) == (SUBSET EvidenceNode) \X SearchState(c, options)

EachNext(list, selected, deeper, k, t) ==
    IF t.over THEN t ELSE deeper[<<selected \union list[k], t>>]

Tries(c, options, list, selected, deeper, s, after) ==
    /\ after \in [0 .. Len(list) -> SearchState(c, options)] /\ after[0] = s
    /\ \A k \in 1 .. Len(list) : after[k] = EachNext(list, selected, deeper, k, after[k - 1])
    /\ E!VisitEach(list, selected, deeper, s) = after[Len(list)]

\* context_selection.rs: the options of a fact are tried one after another.
LEMMA EachIs ==
    ASSUME NEW c, NEW options, NEW list \in Seq(SUBSET EvidenceNode), NEW selected \in SUBSET EvidenceNode,
           NEW deeper \in [SearchDomain(c, options) -> SearchState(c, options)],
           NEW s \in SearchState(c, options)
    PROVE  \E after : Tries(c, options, list, selected, deeper, s, after)
<1> DEFINE X == SearchState(c, options)
           L == Len(list)
           After(k, t) == EachNext(list, selected, deeper, k, t)
           Is(f) == f = [k \in 0 .. L |-> IF k = 0 THEN s ELSE After(k, f[k - 1])]
           more == [k \in 1 .. L |-> [t \in X |-> After(k, t)]]
<1>1. L \in Nat
  OBVIOUS
<1>2. ASSUME NEW k \in 1 .. L, NEW t \in X PROVE After(k, t) \in X
  <2>1. selected \union list[k] \in SUBSET EvidenceNode
    OBVIOUS
  <2>2. <<selected \union list[k], t>> \in SearchDomain(c, options)
    BY <2>1 DEF SearchDomain
  <2>3. deeper[<<selected \union list[k], t>>] \in X
    BY <2>2
  <2> QED
    BY <2>3 DEF EachNext
<1> HIDE DEF X, L, After
<1>3. more \in [1 .. L -> [X -> X]]
  BY <1>2
<1>4. PICK f : Iterates(L, X, s, more, f)
  <2>1. s \in X
    BY DEF X
  <2> HIDE DEF more
  <2> QED
    BY <1>1, <1>3, <2>1, Iteration
<1>5. Is(f)
  <2>1. f \in [0 .. L -> X] /\ f[0] = s
    BY <1>4 DEF Iterates
  <2>2. ASSUME NEW k \in 1 .. L PROVE f[k] = After(k, f[k - 1])
    <3>1. k - 1 \in 0 .. L
      BY <1>1
    <3>2. f[k] = more[k][f[k - 1]] /\ f[k - 1] \in X
      BY <1>4, <2>1, <3>1 DEF Iterates
    <3> QED
      BY <3>2
  <2>3. \A k \in 0 .. L : k = 0 \/ k \in 1 .. L
    BY <1>1
  <2> QED
    BY <2>1, <2>2, <2>3
<1> DEFINE after == CHOOSE g : Is(g)
<1>6. Is(after)
  <2> HIDE DEF Is
  <2> QED
    BY <1>5
<1>7. E!VisitEach(list, selected, deeper, s) = after[L]
  BY DEF E!VisitEach, EachNext, After, L
<1> HIDE DEF after
<1>8. after[0] = s /\ \A k \in 1 .. L : after[k] = After(k, after[k - 1])
  <2>1. 0 \in 0 .. L /\ \A k \in 1 .. L : k \in 0 .. L /\ k # 0
    BY <1>1
  <2> QED
    BY <1>6, <2>1
<1>9. \A k \in 0 .. L : after[k] \in X
  <2>1. after[0] \in X /\ \A k \in 1 .. L : after[k - 1] \in X => after[k] \in X
    BY <1>2, <1>8 DEF X
  <2> QED
    BY <1>1, <2>1, IterationStays
<1>10. after \in [0 .. L -> X]
  <2>1. after = [k \in 0 .. L |-> after[k]]
    BY <1>6
  <2> QED
    BY <1>9, <2>1
<1> QED
  BY <1>7, <1>8, <1>10 DEF X, L, After, Tries

Seeing(options, left, selected, s) == s.visited \union {<<Len(options) + 1 - left, selected>>}

Counted(options, left, selected, s) ==
    [visited |-> Seeing(options, left, selected, s), states |-> s.states + 1, over |-> FALSE, best |-> s.best]

Stopped(options, left, selected, s) ==
    [visited |-> Seeing(options, left, selected, s), states |-> s.states, over |-> TRUE, best |-> s.best]

\* context_selection.rs: the states of the search.
LEMMA VisitStates ==
    ASSUME NEW c, c.limit \in Nat, NEW options, Offered(options), NEW left \in 0 .. Len(options),
           NEW selected \in SUBSET EvidenceNode, NEW s \in SearchState(c, options)
    PROVE  /\ Stopped(options, left, selected, s) \in SearchState(c, options)
           /\ ~(s.states >= c.limit) => /\ Counted(options, left, selected, s) \in SearchState(c, options)
                                        /\ [Counted(options, left, selected, s) EXCEPT !.best = selected]
                                              \in SearchState(c, options)
<1> DEFINE V == SUBSET ((1 .. Len(options) + 1) \X SUBSET EvidenceNode)
           B == {Unset} \union SUBSET EvidenceNode
<1>1. Len(options) \in Nat
  BY DEF Offered
<1>2. Len(options) + 1 - left \in 1 .. Len(options) + 1
  BY <1>1
<1>3. SearchState(c, options) = [visited : V, states : 0 .. c.limit, over : BOOLEAN, best : B]
  BY DEF SearchState, E!Searching
<1>4. s.visited \in V /\ s.states \in 0 .. c.limit /\ s.best \in B
  <2> HIDE DEF V, B
  <2> QED
    BY <1>3
<1>5. Seeing(options, left, selected, s) \in V
  BY <1>2, <1>4 DEF Seeing
<1>6. ~(s.states >= c.limit) => s.states + 1 \in 0 .. c.limit
  BY <1>4
<1>7. selected \in B
  OBVIOUS
<1> HIDE DEF V, B
<1>9. Stopped(options, left, selected, s) \in SearchState(c, options)
  BY <1>3, <1>4, <1>5 DEF Stopped
<1>10. ~(s.states >= c.limit) => Counted(options, left, selected, s) \in SearchState(c, options)
  BY <1>3, <1>4, <1>5, <1>6 DEF Counted
<1>11. ~(s.states >= c.limit) =>
          [Counted(options, left, selected, s) EXCEPT !.best = selected] \in SearchState(c, options)
  BY <1>3, <1>7, <1>10
<1> QED
  BY <1>9, <1>10, <1>11

Costly(c, best, selected) ==
    c.cost[selected] > c.budget \/ (best # Unset /\ c.cost[selected] >= c.cost[best])

Chosen(options, left, selected, s) == [Counted(options, left, selected, s) EXCEPT !.best = selected]

\* What one visit comes to.
Visits(c, options, left, deeper, selected, s, r) ==
    LET f == Len(options) + 1 - left IN
    \/ <<f, selected>> \in s.visited /\ r = s
    \/ <<f, selected>> \notin s.visited /\ r = Stopped(options, left, selected, s)
    \/ /\ <<f, selected>> \notin s.visited /\ ~s.over /\ ~(s.states >= c.limit)
       /\ \/ left # 0 /\ r = E!VisitEach(options[f], selected, deeper, Counted(options, left, selected, s))
          \/ left = 0 /\ Costly(c, s.best, selected) /\ r = Counted(options, left, selected, s)
          \/ left = 0 /\ ~Costly(c, s.best, selected) /\ r = Chosen(options, left, selected, s)

\* context_selection.rs, visit: the ways that a visit ends.
LEMMA VisitCases ==
    ASSUME NEW c, NEW options, NEW left, NEW deeper, NEW selected, NEW s
    PROVE  Visits(c, options, left, deeper, selected, s, E!Visit(c, options, left, deeper, selected, s))
<1> DEFINE f == Len(options) + 1 - left
           t == Counted(options, left, selected, s)
           r == E!Visit(c, options, left, deeper, selected, s)
<1>1. r = IF <<f, selected>> \in s.visited THEN s
          ELSE IF s.over \/ s.states >= c.limit THEN Stopped(options, left, selected, s)
          ELSE IF left # 0 THEN E!VisitEach(options[f], selected, deeper, t)
          ELSE IF Costly(c, s.best, selected) THEN t
          ELSE Chosen(options, left, selected, s)
  BY DEF E!Visit, Counted, Stopped, Chosen, Costly, Seeing
<1> HIDE DEF r, t
<1> QED
  BY <1>1 DEF Visits, r, t

\* context_selection.rs: a visit comes to a state of the search.
LEMMA VisitIs ==
    ASSUME NEW c, WellFormed(c), NEW options, Offered(options), NEW left \in 0 .. Len(options), NEW deeper,
           left # 0 => deeper \in [SearchDomain(c, options) -> SearchState(c, options)],
           NEW selected \in SUBSET EvidenceNode, NEW s \in SearchState(c, options)
    PROVE  E!Visit(c, options, left, deeper, selected, s) \in SearchState(c, options)
<1> DEFINE f == Len(options) + 1 - left
           t == Counted(options, left, selected, s)
           r == E!Visit(c, options, left, deeper, selected, s)
<1>1. Visits(c, options, left, deeper, selected, s, r)
  BY VisitCases
<1>2. c.limit \in Nat
  BY DEF WellFormed
<1>3. /\ Stopped(options, left, selected, s) \in SearchState(c, options)
      /\ ~(s.states >= c.limit) => /\ t \in SearchState(c, options)
                                   /\ Chosen(options, left, selected, s) \in SearchState(c, options)
  BY <1>2, VisitStates DEF Chosen
<1>4. ASSUME left # 0, ~(s.states >= c.limit)
      PROVE  E!VisitEach(options[f], selected, deeper, t) \in SearchState(c, options)
  <2>1. f \in 1 .. Len(options) /\ Len(options) \in Nat
    BY <1>4 DEF Offered
  <2>2. options[f] \in Seq(SUBSET EvidenceNode)
    BY <2>1 DEF Offered
  <2>3. deeper \in [SearchDomain(c, options) -> SearchState(c, options)] /\ t \in SearchState(c, options)
    BY <1>3, <1>4
  <2> HIDE DEF t, f
  <2>4. PICK list \in Seq(SUBSET EvidenceNode) : list = options[f]
    BY <2>2
  <2>5. PICK after : Tries(c, options, list, selected, deeper, t, after)
    BY <2>3, EachIs
  <2>6. Len(list) \in 0 .. Len(list)
    BY <2>4
  <2> QED
    BY <2>4, <2>5, <2>6 DEF Tries
<1> HIDE DEF r, t
<1> QED
  BY <1>1, <1>3, <1>4 DEF Visits, r, t

VisitsBy(c, options, left, deeper, h) ==
    h = [x \in SearchDomain(c, options) |-> E!Visit(c, options, left, deeper, x[1], x[2])]

SearchStart == [visited |-> {}, states |-> 0, over |-> FALSE, best |-> Unset]

\* context_selection.rs: the search is defined by what is left of the facts.
LEMMA SearchIs ==
    ASSUME NEW c, WellFormed(c), NEW options, Offered(options)
    PROVE  \E visit \in [0 .. Len(options) -> [SearchDomain(c, options) -> SearchState(c, options)]] :
              /\ \A left \in 0 .. Len(options) : VisitsBy(c, options, left, visit[left - 1], visit[left])
              /\ E!Search(c, options) = visit[Len(options)][<<{}, SearchStart>>]
<1> DEFINE Inputs == SearchDomain(c, options)
           W == SearchState(c, options)
           X == [Inputs -> W]
           L == Len(options)
           Row(left, deeper) == [x \in Inputs |-> E!Visit(c, options, left, deeper, x[1], x[2])]
           Is(f) == f = [left \in 0 .. L |-> Row(left, f[left - 1])]
           step == [left \in 0 .. L |-> [f \in [0 .. L -> X] |-> Row(left, f[left - 1])]]
<1>1. L \in Nat
  BY DEF Offered
<1>2. \A x \in Inputs : x[1] \in SUBSET EvidenceNode /\ x[2] \in W
  BY DEF SearchDomain
<1>3. ASSUME NEW left \in 0 .. L, NEW deeper, left # 0 => deeper \in X PROVE Row(left, deeper) \in X
  <2>1. \A x \in Inputs : E!Visit(c, options, left, deeper, x[1], x[2]) \in W
    BY <1>2, <1>3, VisitIs
  <2> HIDE DEF Inputs, W
  <2> QED
    BY <2>1
<1>4. ASSUME NEW v, NEW w PROVE Row(0, v) = Row(0, w)
  BY DEF E!Visit
<1> HIDE DEF Inputs, W, X, L, Row
<1>5. ASSUME NEW left \in 0 .. L, NEW f \in [0 .. L -> X] PROVE step[left][f] \in X
  <2>1. left # 0 => f[left - 1] \in X
    BY <1>1
  <2> QED
    BY <1>3, <2>1
<1>6. ASSUME NEW left \in 0 .. L, NEW v \in [0 .. L -> X], NEW w \in [0 .. L -> X],
             \A j \in 0 .. left - 1 : v[j] = w[j]
      PROVE  step[left][v] = step[left][w]
  <2>1. CASE left = 0
    BY <1>4, <2>1
  <2>2. CASE left # 0
    <3>1. v[left - 1] = w[left - 1]
      BY <1>1, <1>6, <2>2
    <3> QED
      BY <3>1
  <2> QED
    BY <2>1, <2>2
<1>7. X # {}
  <2>1. PICK left \in 0 .. L : left = 0
    BY <1>1
  <2>2. Row(left, 0) \in X
    BY <1>3, <2>1
  <2> QED
    BY <2>2
<1>8. PICK f : Solves(0, L, X, step, f)
  <2> HIDE DEF step
  <2>1. Defines(0, L, X, step)
    BY <1>5, <1>6 DEF Defines
  <2> QED
    BY <1>1, <1>7, <2>1, RecursionExists
<1>9. Is(f)
  <2>1. f \in [0 .. L -> X] /\ \A left \in 0 .. L : f[left] = step[left][f]
    BY <1>8 DEF Solves
  <2>2. \A left \in 0 .. L : f[left] = Row(left, f[left - 1])
    BY <2>1
  <2> HIDE DEF step
  <2> QED
    BY <2>1, <2>2
<1> DEFINE visit == CHOOSE g : Is(g)
<1>10. Is(visit)
  <2> HIDE DEF Is
  <2> QED
    BY <1>9
<1>11. E!Search(c, options) = visit[L][<<{}, SearchStart>>]
  BY DEF E!Search, SearchStart, Row, L, Inputs, SearchDomain, SearchState
<1> HIDE DEF visit
<1>12. \A left \in 0 .. L : visit[left] = Row(left, visit[left - 1])
  BY <1>10
<1>13. \A left \in 0 .. L : visit[left] \in X
  <2>1. visit[0] \in X
    <3>1. 0 \in 0 .. L
      BY <1>1
    <3>2. Row(0, visit[0 - 1]) \in X
      BY <1>3, <3>1
    <3> QED
      BY <1>12, <3>1, <3>2
  <2>2. \A left \in 1 .. L : visit[left - 1] \in X => visit[left] \in X
    <3> TAKE left \in 1 .. L
    <3>1. left \in 0 .. L
      BY <1>1
    <3> QED
      BY <1>3, <1>12, <3>1
  <2> QED
    BY <1>1, <2>1, <2>2, IterationStays
<1>14. visit \in [0 .. L -> X]
  <2>1. visit = [left \in 0 .. L |-> visit[left]]
    BY <1>10
  <2> QED
    BY <1>13, <2>1
<1> QED
  BY <1>11, <1>12, <1>14 DEF X, L, Inputs, W, Row, VisitsBy

\* A selection of one option of each fact before f, and one of each fact from f on
\* added to it.
Partly(options, f, selected) ==
    \E g : /\ \A i \in 1 .. f - 1 : g[i] \in Entries(options[i])
           /\ selected = UNION {g[i] : i \in 1 .. f - 1}

Completes(options, f, selected, p) ==
    \E g : /\ \A i \in f .. Len(options) : g[i] \in Entries(options[i])
           /\ p = selected \union UNION {g[i] : i \in f .. Len(options)}

\* A packet that does not fit or is not cheaper than the best.
Beaten(c, best, p) == c.cost[p] > c.budget \/ (best # Unset /\ c.cost[best] <= c.cost[p])

Priced(c, options, best, f, selected) ==
    \A p \in SUBSET EvidenceNode : Completes(options, f, selected, p) => Beaten(c, best, p)

Fitting(c, options, best) ==
    best = Unset \/ (Partly(options, Len(options) + 1, best) /\ c.cost[best] <= c.budget)

\* Every pair that was visited is priced, but for those that are open.
SearchInv(c, options, open, s) ==
    /\ s \in SearchState(c, options) /\ Fitting(c, options, s.best)
    /\ s.over \/ \A x \in s.visited : x \in open \/ Priced(c, options, s.best, x[1], x[2])

Visited(c, options, open, f, selected, s, r) ==
    /\ SearchInv(c, options, open, r) /\ s.visited \subseteq r.visited
    /\ r.over \/ <<f, selected>> \in r.visited

\* The visits of level f do what they are for.
LevelHolds(c, options, f, deeper) ==
    \A open, selected, s :
        /\ SearchInv(c, options, open, s) /\ selected \in SUBSET EvidenceNode
        /\ Partly(options, f, selected) /\ \A x \in open : x[1] \in 1 .. f - 1
        => Visited(c, options, open, f, selected, s, deeper[<<selected, s>>])

\* One more option is chosen.
LEMMA PartlyMore ==
    ASSUME NEW options, NEW f \in Nat, f > 0, NEW selected, Partly(options, f, selected),
           NEW o \in Entries(options[f])
    PROVE  Partly(options, f + 1, selected \union o)
<1>1. PICK g : /\ \A i \in 1 .. f - 1 : g[i] \in Entries(options[i])
               /\ selected = UNION {g[i] : i \in 1 .. f - 1}
  BY DEF Partly
<1> DEFINE h == [i \in 1 .. f |-> IF i = f THEN o ELSE g[i]]
<1>2. (f + 1) - 1 = f /\ f \in 1 .. f /\ \A i \in 1 .. f : i = f \/ i \in 1 .. f - 1
  OBVIOUS
<1>3. h[f] = o /\ \A i \in 1 .. f - 1 : h[i] = g[i] /\ i \in 1 .. f
  OBVIOUS
<1> HIDE DEF h
<1>4. \A i \in 1 .. f : h[i] \in Entries(options[i])
  BY <1>1, <1>2, <1>3
<1>5. selected \union o = UNION {h[i] : i \in 1 .. f}
  <2>1. \A x \in selected : \E i \in 1 .. f : x \in h[i]
    <3> TAKE x \in selected
    <3>1. PICK i \in 1 .. f - 1 : x \in g[i]
      BY <1>1
    <3> QED
      BY <1>3, <3>1
  <2>2. \A x \in o : x \in h[f]
    BY <1>3
  <2>3. ASSUME NEW i \in 1 .. f PROVE h[i] \subseteq selected \union o
    <3>1. CASE i = f
      BY <1>3, <3>1
    <3>2. CASE i \in 1 .. f - 1
      BY <1>1, <1>3, <3>2
    <3> QED
      BY <1>2, <3>1, <3>2
  <2> QED
    BY <1>2, <2>1, <2>2, <2>3
<1> QED
  BY <1>2, <1>4, <1>5 DEF Partly

\* What completes a selection completes it with one of the options.
LEMMA CompletesMore ==
    ASSUME NEW options, Len(options) \in Nat, NEW f \in 1 .. Len(options), NEW selected, NEW p,
           Completes(options, f, selected, p)
    PROVE  \E o \in Entries(options[f]) : Completes(options, f + 1, selected \union o, p)
<1>1. PICK g : /\ \A i \in f .. Len(options) : g[i] \in Entries(options[i])
               /\ p = selected \union UNION {g[i] : i \in f .. Len(options)}
  BY DEF Completes
<1>2. /\ f \in f .. Len(options)
      /\ \A i \in f .. Len(options) : i = f \/ i \in f + 1 .. Len(options)
      /\ \A i \in f + 1 .. Len(options) : i \in f .. Len(options)
  OBVIOUS
<1>3. p = (selected \union g[f]) \union UNION {g[i] : i \in f + 1 .. Len(options)}
  BY <1>1, <1>2
<1>4. g[f] \in Entries(options[f]) /\ \A i \in f + 1 .. Len(options) : g[i] \in Entries(options[i])
  BY <1>1, <1>2
<1>5. Completes(options, f + 1, selected \union g[f], p)
  BY <1>3, <1>4 DEF Completes
<1> QED
  BY <1>4, <1>5

\* A whole selection is the packet.
LEMMA CompletesWhole ==
    ASSUME NEW options, Len(options) \in Nat, NEW selected, NEW p,
           Completes(options, Len(options) + 1, selected, p)
    PROVE  p = selected
<1>1. Len(options) + 1 .. Len(options) = {}
  OBVIOUS
<1> QED
  BY <1>1 DEF Completes

\* context_selection.rs: the best is a set of nodes, if any.
LEMMA StateIs ==
    ASSUME NEW c, NEW options, NEW s \in SearchState(c, options)
    PROVE  s.best = Unset \/ s.best \in SUBSET EvidenceNode
BY DEF SearchState, E!Searching

\* context_selection.rs: a visit that was made before.
LEMMA VisitAgain ==
    ASSUME NEW c, NEW options, NEW open, NEW f, NEW selected, NEW s, SearchInv(c, options, open, s),
           <<f, selected>> \in s.visited
    PROVE  Visited(c, options, open, f, selected, s, s)
BY DEF Visited

\* context_selection.rs: a visit that comes after the limit.
LEMMA VisitStopped ==
    ASSUME NEW c, NEW options, NEW open, NEW left, NEW selected, NEW s, SearchInv(c, options, open, s),
           Stopped(options, left, selected, s) \in SearchState(c, options)
    PROVE  Visited(c, options, open, Len(options) + 1 - left, selected, s, Stopped(options, left, selected, s))
<1> DEFINE r == Stopped(options, left, selected, s)
<1>1. r.over /\ r.best = s.best /\ s.visited \subseteq r.visited
  BY DEF Stopped, Seeing
<1> QED
  BY <1>1 DEF Visited, SearchInv

\* context_selection.rs: a whole selection is priced.
LEMMA VisitWhole ==
    ASSUME NEW c, WellFormed(c), NEW options, Len(options) \in Nat, NEW open, NEW f, f = Len(options) + 1,
           NEW selected \in SUBSET EvidenceNode, NEW s, ~s.over, SearchInv(c, options, open, s),
           Partly(options, f, selected), NEW r \in SearchState(c, options), ~r.over,
           r.visited = s.visited \union {<<f, selected>>},
           \/ Costly(c, s.best, selected) /\ r.best = s.best
           \/ ~Costly(c, s.best, selected) /\ r.best = selected
    PROVE  Visited(c, options, open, f, selected, s, r)
<1>1. \A p \in SUBSET EvidenceNode : c.cost[p] \in Nat
  BY DEF WellFormed
<1>2. c.budget \in Nat
  BY DEF WellFormed
<1>3. s.best = Unset \/ s.best \in SUBSET EvidenceNode
  BY StateIs DEF SearchInv
<1>4. \A n \in SUBSET EvidenceNode : n # Unset
  BY AnswersAssumption DEF E!EvidenceAssumption
<1>5. Beaten(c, r.best, selected)
  <2>1. CASE Costly(c, s.best, selected) /\ r.best = s.best
    <3>1. s.best # Unset /\ c.cost[selected] >= c.cost[s.best] => c.cost[s.best] <= c.cost[selected]
      BY <1>1, <1>3
    <3> QED
      BY <2>1, <3>1 DEF Costly, Beaten
  <2>2. CASE ~Costly(c, s.best, selected) /\ r.best = selected
    BY <1>1, <1>4, <2>2 DEF Beaten
  <2> QED
    BY <2>1, <2>2
<1>6. ASSUME NEW p \in SUBSET EvidenceNode, Beaten(c, s.best, p) PROVE Beaten(c, r.best, p)
  <2>1. CASE r.best = s.best
    BY <1>6, <2>1
  <2>2. CASE ~Costly(c, s.best, selected) /\ r.best = selected
    <3>1. CASE c.cost[p] > c.budget
      BY <3>1 DEF Beaten
    <3>2. CASE s.best # Unset /\ c.cost[s.best] <= c.cost[p]
      <4>1. s.best \in SUBSET EvidenceNode /\ ~(c.cost[selected] >= c.cost[s.best])
        BY <1>3, <2>2, <3>2 DEF Costly
      <4>2. c.cost[selected] \in Nat /\ c.cost[s.best] \in Nat /\ c.cost[p] \in Nat
        BY <1>1, <4>1
      <4>3. c.cost[selected] <= c.cost[p]
        BY <3>2, <4>1, <4>2
      <4> QED
        BY <1>4, <2>2, <4>3 DEF Beaten
    <3> QED
      BY <1>6, <3>1, <3>2 DEF Beaten
  <2> QED
    BY <2>1, <2>2
<1>7. Priced(c, options, r.best, f, selected)
  BY <1>5, CompletesWhole DEF Priced
<1>8. ASSUME NEW x \in r.visited PROVE x \in open \/ Priced(c, options, r.best, x[1], x[2])
  <2>1. CASE x \in s.visited
    <3>1. x \in open \/ Priced(c, options, s.best, x[1], x[2])
      BY <2>1 DEF SearchInv
    <3> QED
      BY <1>6, <3>1 DEF Priced
  <2>2. CASE x = <<f, selected>>
    BY <1>7, <2>2
  <2> QED
    BY <2>1, <2>2
<1>9. Fitting(c, options, r.best)
  <2>1. CASE r.best = s.best
    BY <2>1 DEF SearchInv
  <2>2. CASE ~Costly(c, s.best, selected) /\ r.best = selected
    <3>1. ~(c.cost[selected] > c.budget)
      BY <2>2 DEF Costly
    <3>2. c.cost[selected] <= c.budget
      BY <1>1, <1>2, <3>1
    <3> QED
      BY <2>2, <3>2 DEF Fitting
  <2> QED
    BY <2>1, <2>2
<1> QED
  BY <1>8, <1>9 DEF Visited, SearchInv

\* What the visits made for the first k options of a fact leave behind.
Round(c, options, open, f, list, selected, seen, k, s) ==
    /\ SearchInv(c, options, open, s) /\ seen \subseteq s.visited
    /\ s.over \/ \A j \in 1 .. k : <<f + 1, selected \union list[j]>> \in s.visited

\* context_selection.rs: one more option is tried.
LEMMA RoundOn ==
    ASSUME NEW c, NEW options, NEW open, NEW f \in Nat, f > 0, NEW list \in Seq(SUBSET EvidenceNode),
           list = options[f], NEW selected \in SUBSET EvidenceNode, Partly(options, f, selected),
           \A x \in open : x[1] \in 1 .. f, NEW deeper, LevelHolds(c, options, f + 1, deeper),
           NEW seen, NEW k \in 1 .. Len(list), NEW s,
           Round(c, options, open, f, list, selected, seen, k - 1, s)
    PROVE  Round(c, options, open, f, list, selected, seen, k, EachNext(list, selected, deeper, k, s))
<1>1. CASE s.over
  BY <1>1 DEF Round, EachNext
<1>2. CASE ~s.over
  <2> DEFINE o == selected \union list[k]
             r == deeper[<<o, s>>]
  <2>1. list[k] \in SUBSET EvidenceNode
    OBVIOUS
  <2>2. o \in SUBSET EvidenceNode
    BY <2>1
  <2>3. list[k] \in Entries(options[f])
    BY DEF Entries
  <2>4. Partly(options, f + 1, o)
    BY <2>3, PartlyMore
  <2> HIDE DEF o
  <2>5. SearchInv(c, options, open, s) /\ f = (f + 1) - 1
    BY DEF Round
  <2>6. Visited(c, options, open, f + 1, o, s, r)
    BY <2>2, <2>4, <2>5 DEF LevelHolds
  <2>7. SearchInv(c, options, open, r) /\ s.visited \subseteq r.visited /\ (r.over \/ <<f + 1, o>> \in r.visited)
    BY <2>6 DEF Visited
  <2> HIDE DEF r
  <2>8. seen \subseteq r.visited
    BY <2>7 DEF Round
  <2>9. \A j \in 1 .. k : j = k \/ j \in 1 .. k - 1
    OBVIOUS
  <2>10. ASSUME ~r.over, NEW j \in 1 .. k PROVE <<f + 1, selected \union list[j]>> \in r.visited
    <3>1. CASE j = k
      BY <2>7, <2>10, <3>1 DEF o
    <3>2. CASE j \in 1 .. k - 1
      <4>1. <<f + 1, selected \union list[j]>> \in s.visited
        BY <1>2, <3>2 DEF Round
      <4> QED
        BY <2>7, <4>1
    <3> QED
      BY <2>9, <3>1, <3>2
  <2>11. EachNext(list, selected, deeper, k, s) = r
    BY <1>2 DEF EachNext, r, o
  <2> QED
    BY <2>7, <2>8, <2>10, <2>11 DEF Round
<1> QED
  BY <1>1, <1>2

\* context_selection.rs: when all options were tried, the selection is priced.
LEMMA VisitMore ==
    ASSUME NEW c, NEW options, Offered(options), NEW f \in 1 .. Len(options),
           NEW deeper \in [SearchDomain(c, options) -> SearchState(c, options)],
           LevelHolds(c, options, f + 1, deeper), NEW open, \A x \in open : x[1] \in 1 .. f - 1,
           NEW selected \in SUBSET EvidenceNode, Partly(options, f, selected),
           NEW s, ~s.over, SearchInv(c, options, open, s),
           NEW t \in SearchState(c, options), ~t.over, t.best = s.best,
           t.visited = s.visited \union {<<f, selected>>}
    PROVE  Visited(c, options, open, f, selected, s, E!VisitEach(options[f], selected, deeper, t))
<1> DEFINE open1 == open \union {<<f, selected>>}
           Holds(k, u) == Round(c, options, open1, f, options[f], selected, t.visited, k, u)
           r == E!VisitEach(options[f], selected, deeper, t)
<1>1. Len(options) \in Nat /\ f \in Nat /\ f > 0
  BY DEF Offered
<1>2. PICK list \in Seq(SUBSET EvidenceNode) : list = options[f]
  BY <1>1 DEF Offered
<1>3. \A x \in open1 : x[1] \in 1 .. f
  BY <1>1
<1>4. PICK after : Tries(c, options, list, selected, deeper, t, after)
  BY EachIs
<1>5. SearchInv(c, options, open1, t)
  <2>1. Fitting(c, options, t.best)
    BY DEF SearchInv
  <2>2. ASSUME NEW x \in t.visited PROVE x \in open1 \/ Priced(c, options, t.best, x[1], x[2])
    BY DEF SearchInv
  <2> QED
    BY <2>1, <2>2 DEF SearchInv
<1>6. Len(list) \in Nat
  BY <1>2
<1>7. Holds(0, after[0])
  BY <1>2, <1>4, <1>5 DEF Tries, Round
<1>8. ASSUME NEW k \in 1 .. Len(list), Holds(k - 1, after[k - 1]) PROVE Holds(k, after[k])
  <2>1. after[k] = EachNext(list, selected, deeper, k, after[k - 1])
    BY <1>4 DEF Tries
  <2>2. Round(c, options, open1, f, list, selected, t.visited, k - 1, after[k - 1])
    BY <1>2, <1>8
  <2> HIDE DEF open1
  <2>3. Round(c, options, open1, f, list, selected, t.visited, k, EachNext(list, selected, deeper, k, after[k - 1]))
    BY <1>1, <1>2, <1>3, <2>2, RoundOn
  <2> QED
    BY <1>2, <2>1, <2>3
<1>9. Holds(Len(list), after[Len(list)])
  <2> DEFINE P == {n \in Nat : Holds(n, after[n])}
  <2> HIDE DEF Holds
  <2>1. 0 \in P
    BY <1>7
  <2>2. ASSUME NEW n \in 0 .. Len(list) - 1, n \in P PROVE n + 1 \in P
    <3>1. PICK k \in 1 .. Len(list) : k = n + 1 /\ k - 1 = n
      BY <1>6
    <3>2. Holds(k - 1, after[k - 1])
      BY <2>2, <3>1
    <3>3. Holds(k, after[k])
      BY <1>8, <3>2
    <3> QED
      BY <3>1, <3>3
  <2> HIDE DEF P
  <2>3. \A n \in 0 .. Len(list) : n \in P
    BY <1>6, <2>1, <2>2, UpTo
  <2>4. Len(list) \in P
    BY <1>6, <2>3
  <2> QED
    BY <2>4 DEF P
<1>10. r = after[Len(list)]
  BY <1>2, <1>4 DEF Tries
<1>11. /\ SearchInv(c, options, open1, r) /\ t.visited \subseteq r.visited
       /\ r.over \/ \A j \in 1 .. Len(list) : <<f + 1, selected \union list[j]>> \in r.visited
  BY <1>2, <1>9, <1>10 DEF Round
<1> HIDE DEF r
<1>12. ASSUME ~r.over PROVE Priced(c, options, r.best, f, selected)
  <2> SUFFICES ASSUME NEW p \in SUBSET EvidenceNode, Completes(options, f, selected, p)
               PROVE  Beaten(c, r.best, p)
    BY DEF Priced
  <2>1. PICK o \in Entries(list) : Completes(options, f + 1, selected \union o, p)
    BY <1>1, <1>2, CompletesMore
  <2>2. PICK j \in 1 .. Len(list) : o = list[j]
    BY <1>2, <2>1 DEF Entries
  <2> DEFINE x == <<f + 1, selected \union o>>
  <2>3. x \in r.visited
    BY <1>11, <1>12, <2>2
  <2>4. x \notin open1
    BY <1>1, <1>3
  <2>5. Priced(c, options, r.best, x[1], x[2])
    BY <1>11, <1>12, <2>3, <2>4 DEF SearchInv
  <2>6. Priced(c, options, r.best, f + 1, selected \union o)
    BY <2>5
  <2> QED
    BY <2>1, <2>6 DEF Priced
<1>13. ASSUME ~r.over, NEW x \in r.visited PROVE x \in open \/ Priced(c, options, r.best, x[1], x[2])
  <2>1. CASE x \in open1
    BY <1>12, <1>13, <2>1
  <2>2. CASE Priced(c, options, r.best, x[1], x[2])
    BY <2>2
  <2> QED
    BY <1>11, <1>13, <2>1, <2>2 DEF SearchInv
<1>14. SearchInv(c, options, open, r)
  <2>1. r \in SearchState(c, options) /\ Fitting(c, options, r.best)
    BY <1>11 DEF SearchInv
  <2> QED
    BY <1>13, <2>1 DEF SearchInv
<1>15. s.visited \subseteq r.visited /\ <<f, selected>> \in r.visited
  BY <1>11
<1>16. Visited(c, options, open, f, selected, s, r)
  BY <1>14, <1>15 DEF Visited
<1> QED
  BY <1>16 DEF r

\* context_selection.rs: a visit keeps what the levels below it keep.
LEMMA LevelOn ==
    ASSUME NEW c, WellFormed(c), NEW options, Offered(options), NEW left \in 0 .. Len(options), NEW deeper,
           left # 0 => /\ deeper \in [SearchDomain(c, options) -> SearchState(c, options)]
                       /\ LevelHolds(c, options, Len(options) + 1 - left + 1, deeper),
           NEW h, VisitsBy(c, options, left, deeper, h)
    PROVE  LevelHolds(c, options, Len(options) + 1 - left, h)
<1> DEFINE f == Len(options) + 1 - left
<1> SUFFICES ASSUME NEW open, NEW selected, NEW s, SearchInv(c, options, open, s),
                    selected \in SUBSET EvidenceNode, Partly(options, f, selected),
                    \A x \in open : x[1] \in 1 .. f - 1
             PROVE  Visited(c, options, open, f, selected, s, h[<<selected, s>>])
  BY DEF LevelHolds
<1> DEFINE t == Counted(options, left, selected, s)
           r == h[<<selected, s>>]
<1>1. Len(options) \in Nat /\ f \in 1 .. Len(options) + 1
  BY DEF Offered
<1>2. s \in SearchState(c, options)
  BY DEF SearchInv
<1>3. r = E!Visit(c, options, left, deeper, selected, s)
  <2>1. <<selected, s>> \in SearchDomain(c, options)
    BY <1>2 DEF SearchDomain
  <2> QED
    BY <2>1 DEF VisitsBy
<1>4. Visits(c, options, left, deeper, selected, s, r)
  BY <1>3, VisitCases
<1>5. /\ Stopped(options, left, selected, s) \in SearchState(c, options)
      /\ ~(s.states >= c.limit) => /\ t \in SearchState(c, options)
                                   /\ Chosen(options, left, selected, s) \in SearchState(c, options)
  BY <1>2, VisitStates DEF Chosen, WellFormed
<1>6. ~t.over /\ t.best = s.best /\ t.visited = s.visited \union {<<f, selected>>}
  BY DEF Counted, Seeing
<1>7. LET w == Chosen(options, left, selected, s)
      IN ~w.over /\ w.best = selected /\ w.visited = s.visited \union {<<f, selected>>}
  BY DEF Chosen, Counted, Seeing
<1> HIDE DEF r, t
<1>8. CASE <<f, selected>> \in s.visited /\ r = s
  BY <1>8, VisitAgain DEF r
<1>9. CASE r = Stopped(options, left, selected, s)
  BY <1>5, <1>9, VisitStopped DEF r
<1>10. CASE /\ ~s.over /\ ~(s.states >= c.limit) /\ left # 0
            /\ r = E!VisitEach(options[f], selected, deeper, t)
  <2>1. f \in 1 .. Len(options)
    BY <1>1, <1>10
  <2>2. /\ deeper \in [SearchDomain(c, options) -> SearchState(c, options)]
        /\ LevelHolds(c, options, f + 1, deeper)
    BY <1>10
  <2>3. t \in SearchState(c, options)
    BY <1>5, <1>10
  <2> HIDE DEF f
  <2>4. Visited(c, options, open, f, selected, s, E!VisitEach(options[f], selected, deeper, t))
    BY <1>6, <1>10, <2>1, <2>2, <2>3, VisitMore
  <2> QED
    BY <1>10, <2>4 DEF r
<1>11. CASE /\ ~s.over /\ ~(s.states >= c.limit) /\ left = 0
            /\ \/ Costly(c, s.best, selected) /\ r = t
               \/ ~Costly(c, s.best, selected) /\ r = Chosen(options, left, selected, s)
  <2>1. f = Len(options) + 1
    BY <1>1, <1>11
  <2>2. r \in SearchState(c, options) /\ ~r.over /\ r.visited = s.visited \union {<<f, selected>>}
    BY <1>5, <1>6, <1>7, <1>11
  <2>3. \/ Costly(c, s.best, selected) /\ r.best = s.best
        \/ ~Costly(c, s.best, selected) /\ r.best = selected
    BY <1>6, <1>7, <1>11
  <2> HIDE DEF f
  <2>4. Visited(c, options, open, f, selected, s, r)
    BY <1>1, <1>11, <2>1, <2>2, <2>3, VisitWhole
  <2> QED
    BY <2>4 DEF r
<1>12. \/ <<f, selected>> \in s.visited /\ r = s
       \/ r = Stopped(options, left, selected, s)
       \/ /\ ~s.over /\ ~(s.states >= c.limit) /\ left # 0
          /\ r = E!VisitEach(options[f], selected, deeper, t)
       \/ /\ ~s.over /\ ~(s.states >= c.limit) /\ left = 0
          /\ \/ Costly(c, s.best, selected) /\ r = t
             \/ ~Costly(c, s.best, selected) /\ r = Chosen(options, left, selected, s)
  <2> DEFINE each == E!VisitEach(options[f], selected, deeper, t)
  <2>1. \/ <<f, selected>> \in s.visited /\ r = s
        \/ <<f, selected>> \notin s.visited /\ r = Stopped(options, left, selected, s)
        \/ /\ <<f, selected>> \notin s.visited /\ ~s.over /\ ~(s.states >= c.limit)
           /\ \/ left # 0 /\ r = each
              \/ left = 0 /\ Costly(c, s.best, selected) /\ r = t
              \/ left = 0 /\ ~Costly(c, s.best, selected) /\ r = Chosen(options, left, selected, s)
    BY <1>4 DEF Visits, t
  <2> HIDE DEF each, f
  <2> QED
    BY <2>1 DEF each
<1> QED
  BY <1>8, <1>9, <1>10, <1>11, <1>12

\* context_selection.rs: from the last fact to the first, every level holds.
LEMMA LevelsHold ==
    ASSUME NEW c, WellFormed(c), NEW options, Offered(options),
           NEW visit \in [0 .. Len(options) -> [SearchDomain(c, options) -> SearchState(c, options)]],
           \A left \in 0 .. Len(options) : VisitsBy(c, options, left, visit[left - 1], visit[left])
    PROVE  \A left \in 0 .. Len(options) : LevelHolds(c, options, Len(options) + 1 - left, visit[left])
<1> DEFINE N == Len(options)
           P == {n \in Nat : n \in 0 .. N => LevelHolds(c, options, N + 1 - n, visit[n])}
<1>1. N \in Nat
  BY DEF Offered
<1>2. 0 \in P
  <2>1. 0 \in 0 .. N
    BY <1>1
  <2>2. VisitsBy(c, options, 0, visit[0 - 1], visit[0])
    BY <2>1
  <2>3. LevelHolds(c, options, N + 1 - 0, visit[0])
    BY <2>1, <2>2, LevelOn
  <2> QED
    BY <2>3
<1>3. ASSUME NEW n \in 0 .. N - 1, n \in P PROVE n + 1 \in P
  <2>1. PICK k \in 0 .. N : k = n + 1 /\ k - 1 = n
    BY <1>1
  <2>2. n \in 0 .. N /\ N + 1 - k + 1 = N + 1 - n
    BY <1>1, <2>1
  <2>3. visit[k - 1] \in [SearchDomain(c, options) -> SearchState(c, options)]
    BY <2>1, <2>2
  <2>4. LevelHolds(c, options, N + 1 - k + 1, visit[k - 1])
    BY <1>3, <2>1, <2>2
  <2>5. VisitsBy(c, options, k, visit[k - 1], visit[k])
    BY <2>1
  <2>6. LevelHolds(c, options, N + 1 - k, visit[k])
    BY <2>3, <2>4, <2>5, LevelOn
  <2>7. k \in Nat
    BY <1>1
  <2>8. k \in P
    BY <2>6, <2>7
  <2> QED
    BY <2>1, <2>8
<1> HIDE DEF P
<1>4. \A n \in 0 .. N : n \in P
  BY <1>1, <1>2, <1>3, UpTo
<1>5. \A n \in 0 .. N : n \in Nat
  BY <1>1
<1> QED
  BY <1>4 DEF P

\* context_selection.rs: a search that ends within its limit leaves the cheapest
\* packet that fits, if there is one.
LEMMA SearchBest ==
    ASSUME NEW c, WellFormed(c), NEW options, Offered(options)
    PROVE  LET r == E!Search(c, options)
           IN /\ r \in SearchState(c, options) /\ Fitting(c, options, r.best)
              /\ r.over \/ Priced(c, options, r.best, 1, {})
<1> DEFINE N == Len(options)
           r == E!Search(c, options)
<1>1. PICK visit \in [0 .. Len(options) -> [SearchDomain(c, options) -> SearchState(c, options)]] :
           /\ \A left \in 0 .. Len(options) : VisitsBy(c, options, left, visit[left - 1], visit[left])
           /\ E!Search(c, options) = visit[Len(options)][<<{}, SearchStart>>]
  BY SearchIs
<1>2. \A left \in 0 .. N : LevelHolds(c, options, N + 1 - left, visit[left])
  BY <1>1, LevelsHold
<1>3. N \in 0 .. N /\ N + 1 - N = 1
  BY DEF Offered
<1>4. LevelHolds(c, options, 1, visit[N])
  <2>1. LevelHolds(c, options, N + 1 - N, visit[N])
    BY <1>2, <1>3
  <2> QED
    BY <1>3, <2>1
<1>5. SearchInv(c, options, {}, SearchStart)
  <2>1. SearchStart \in SearchState(c, options)
    BY DEF SearchStart, SearchState, E!Searching, WellFormed
  <2> QED
    BY <2>1 DEF SearchInv, SearchStart, Fitting
<1>6. Partly(options, 1, {})
  <2>1. 1 .. 1 - 1 = {}
    OBVIOUS
  <2> QED
    BY <2>1 DEF Partly
<1>7. Visited(c, options, {}, 1, {}, SearchStart, visit[N][<<{}, SearchStart>>])
  BY <1>4, <1>5, <1>6 DEF LevelHolds
<1>8. SearchInv(c, options, {}, r) /\ (r.over \/ <<1, {}>> \in r.visited)
  BY <1>1, <1>7 DEF Visited
<1> HIDE DEF r
<1>9. ASSUME ~r.over PROVE Priced(c, options, r.best, 1, {})
  <2> DEFINE x == <<1, {}>>
  <2>1. x \in r.visited
    BY <1>8, <1>9
  <2>2. Priced(c, options, r.best, x[1], x[2])
    BY <1>8, <1>9, <2>1 DEF SearchInv
  <2> QED
    BY <2>2
<1>10. r \in SearchState(c, options) /\ Fitting(c, options, r.best)
  BY <1>8 DEF SearchInv
<1> QED
  BY <1>9, <1>10 DEF r

-----------------------------------------------------------------------------
(***************************************************************************)
(* Evidence, the controller: an answer keeps its promise at the journal that*)
(* it is about.                                                            *)
(***************************************************************************)

\* What an answer promises of the contract at the journal it is about.
Promised(l, c, a) ==
    LET packets == E!Packets(E!Options(l, c))
    IN /\ a.resolution = "covered" =>
            /\ \A f \in DOMAIN c.facts : \E roots \in E!ToSet(c.facts[f]) :
                    /\ E!Grounded(l, c, roots)
                    /\ E!Within(l, roots)[E!Cardinality(EvidenceNode)] \subseteq a.selected
            /\ \A n \in a.selected : ~E!Contradicted(l, n)
            /\ c.cost[a.selected] <= c.budget
            /\ \A p \in packets : c.cost[a.selected] <= c.cost[p]
       /\ a.resolution = "budget_insufficient" =>
            \A p \in packets : c.cost[p] > c.budget

\* A packet is one option of each fact.
LEMMA PacketIs ==
    ASSUME NEW options, Offered(options), NEW p \in E!Packets(options)
    PROVE  p \in SUBSET EvidenceNode /\ Completes(options, 1, {}, p)
<1> DEFINE Facts == DOMAIN options
<1>1. PICK g \in [Facts -> UNION {E!ToSet(options[f]) : f \in Facts}] :
           (\A f \in Facts : g[f] \in E!ToSet(options[f])) /\ p = UNION {g[f] : f \in Facts}
  BY DEF E!Packets
<1>2. Facts = 1 .. Len(options) /\ \A f \in Facts : options[f] \in Seq(SUBSET EvidenceNode)
  BY DEF Offered
<1>3. \A f \in Facts : g[f] \in Entries(options[f])
  BY <1>1, EvidenceEntries DEF Entries
<1>4. \A f \in Facts : g[f] \in SUBSET EvidenceNode
  BY <1>2, <1>3 DEF Entries
<1>5. p \in SUBSET EvidenceNode
  BY <1>1, <1>4
<1>6. p = {} \union UNION {g[i] : i \in 1 .. Len(options)}
  BY <1>1, <1>2
<1> QED
  BY <1>2, <1>3, <1>5, <1>6 DEF Completes

\* evaluate: what is covered rests on one alternative of each fact.
LEMMA CoveredRests ==
    ASSUME NEW S, NEW l \in Seq(S), NEW c, WellFormed(c), NEW best,
           Partly(E!Options(l, c), Len(E!Options(l, c)) + 1, best)
    PROVE  /\ \A f \in DOMAIN c.facts : \E roots \in E!ToSet(c.facts[f]) :
                 E!Grounded(l, c, roots) /\ E!Within(l, roots)[E!Cardinality(EvidenceNode)] \subseteq best
           /\ \A n \in best : ~E!Contradicted(l, n)
<1> DEFINE N == Len(c.facts)
<1>1. PICK options \in Seq(Seq(SUBSET EvidenceNode)) : options = E!Options(l, c)
  BY OptionsAre
<1>2. Len(options) = N /\ N \in Nat /\ DOMAIN c.facts = 1 .. N /\ DOMAIN options = 1 .. N
  BY <1>1, OptionsAre DEF WellFormed
<1>3. \A f \in 1 .. N : \A k \in DOMAIN options[f] :
         \E j \in DOMAIN c.facts[f] : Rests(l, c, c.facts[f][j], options[f][k])
  BY <1>1, <1>2, OptionsAre
<1>4. (Len(options) + 1) - 1 = N
  BY <1>2
<1>5. PICK g : /\ \A i \in 1 .. N : g[i] \in Entries(options[i])
               /\ best = UNION {g[i] : i \in 1 .. N}
  BY <1>1, <1>4 DEF Partly
<1>6. ASSUME NEW f \in 1 .. N
      PROVE  \E roots \in E!ToSet(c.facts[f]) : Rests(l, c, roots, g[f])
  <2>1. PICK k \in DOMAIN options[f] : g[f] = options[f][k]
    BY <1>5 DEF Entries
  <2>2. PICK j \in DOMAIN c.facts[f] : Rests(l, c, c.facts[f][j], g[f])
    BY <1>3, <2>1
  <2>3. c.facts[f][j] \in E!ToSet(c.facts[f])
    BY EvidenceEntries
  <2> QED
    BY <2>2, <2>3
<1>7. ASSUME NEW f \in DOMAIN c.facts
      PROVE  \E roots \in E!ToSet(c.facts[f]) :
                E!Grounded(l, c, roots) /\ E!Within(l, roots)[E!Cardinality(EvidenceNode)] \subseteq best
  <2>1. f \in 1 .. N
    BY <1>2
  <2>2. PICK roots \in E!ToSet(c.facts[f]) : Rests(l, c, roots, g[f])
    BY <1>6, <2>1
  <2>3. g[f] \subseteq best
    BY <1>5, <2>1
  <2>4. E!Grounded(l, c, roots) /\ E!Within(l, roots)[E!Cardinality(EvidenceNode)] \subseteq g[f]
    BY <2>2 DEF Rests
  <2> QED
    BY <2>3, <2>4
<1>8. ASSUME NEW n \in best PROVE ~E!Contradicted(l, n)
  <2>1. PICK f \in 1 .. N : n \in g[f]
    BY <1>5
  <2>2. PICK roots \in E!ToSet(c.facts[f]) : Rests(l, c, roots, g[f])
    BY <1>6
  <2> QED
    BY <2>1, <2>2 DEF Rests
<1> QED
  BY <1>7, <1>8

\* evaluate: the answer keeps what it promises.
LEMMA EvaluateIs ==
    ASSUME NEW S, NEW l \in Seq(S), NEW c, WellFormed(c)
    PROVE  Promised(l, c, E!Evaluate(l, c))
<1> DEFINE options == E!Options(l, c)
           outcome == E!Search(c, options)
           a == E!Evaluate(l, c)
<1>1. Offered(options)
  BY OptionsAre DEF Offered
<1> HIDE DEF options
<1>2. /\ outcome \in SearchState(c, options) /\ Fitting(c, options, outcome.best)
      /\ outcome.over \/ Priced(c, options, outcome.best, 1, {})
  BY <1>1, SearchBest
<1>3. \/ a.resolution \notin {"covered", "budget_insufficient"}
      \/ ~outcome.over /\ outcome.best = Unset /\ a.resolution = "budget_insufficient"
      \/ ~outcome.over /\ outcome.best # Unset /\ a.resolution = "covered" /\ a.selected = outcome.best
  BY DEF E!Evaluate, E!Resolve, E!Answer, options
<1> HIDE DEF outcome, a
<1>4. \A p \in SUBSET EvidenceNode : c.cost[p] \in Nat
  BY DEF WellFormed
<1>5. c.budget \in Nat
  BY DEF WellFormed
<1>6. ASSUME ~outcome.over, NEW p \in E!Packets(options)
      PROVE  Beaten(c, outcome.best, p) /\ c.cost[p] \in Nat
  <2>1. p \in SUBSET EvidenceNode /\ Completes(options, 1, {}, p)
    BY <1>1, PacketIs
  <2> QED
    BY <1>2, <1>4, <1>6, <2>1 DEF Priced
<1>7. CASE a.resolution \notin {"covered", "budget_insufficient"}
  BY <1>7 DEF Promised, a
<1>8. CASE ~outcome.over /\ outcome.best = Unset /\ a.resolution = "budget_insufficient"
  <2>1. \A p \in E!Packets(options) : c.cost[p] > c.budget
    BY <1>6, <1>8 DEF Beaten
  <2> QED
    BY <1>8, <2>1 DEF Promised, a, options
<1>9. CASE ~outcome.over /\ outcome.best # Unset /\ a.resolution = "covered" /\ a.selected = outcome.best
  <2> DEFINE best == outcome.best
  <2>1. best \in SUBSET EvidenceNode
    BY <1>2, <1>9, StateIs
  <2>2. Partly(options, Len(options) + 1, best) /\ c.cost[best] <= c.budget
    BY <1>2, <1>9 DEF Fitting
  <2> HIDE DEF best
  <2>3. /\ \A f \in DOMAIN c.facts : \E roots \in E!ToSet(c.facts[f]) :
              E!Grounded(l, c, roots) /\ E!Within(l, roots)[E!Cardinality(EvidenceNode)] \subseteq best
        /\ \A n \in best : ~E!Contradicted(l, n)
    BY <2>2, CoveredRests DEF options
  <2>4. ASSUME NEW p \in E!Packets(options) PROVE c.cost[best] <= c.cost[p]
    <3>1. c.cost[p] \in Nat /\ c.cost[best] \in Nat
      BY <1>4, <1>6, <1>9, <2>1
    <3>2. c.cost[p] > c.budget \/ c.cost[best] <= c.cost[p]
      BY <1>6, <1>9 DEF Beaten, best
    <3> QED
      BY <1>5, <2>2, <3>1, <3>2
  <2>5. a.selected = best
    BY <1>9 DEF best
  <2> QED
    BY <1>9, <2>2, <2>3, <2>4, <2>5 DEF Promised, a, options
<1> QED
  BY <1>3, <1>7, <1>8, <1>9 DEF a

\* The journal is a list, the pins are of nodes, and an answer was given.
EvidenceInv ==
    /\ \E S : evidenceLog \in Seq(S)
    /\ pins = Unset \/ DOMAIN pins \in SUBSET EvidenceNode
    /\ context = Unset \/ (pins # Unset /\ context.question \in Contracted)
    /\ evidenceOutput = Unset
          \/ Promised(E!Visible(evidenceLog), evidenceOutput.contract, evidenceOutput.answer)

\* evidence_closure.rs: contracts hold counts and alternatives.
LEMMA ContractIs ==
    ASSUME NEW q \in Contracted
    PROVE  /\ WellFormed(E!Contract(q)) /\ E!Contract(q).pins = pins
           /\ "facts" \in DOMAIN E!Contract(q)
<1>1. /\ q.hops \in Nat /\ q.budget \in Nat /\ q.limit \in Nat
      /\ \A s \in SUBSET EvidenceNode : q.cost[s] \in Nat
      /\ q.facts \in Seq(Seq(SUBSET EvidenceNode))
  BY AnswersAssumption DEF E!EvidenceAssumption
<1> QED
  BY <1>1 DEF E!Contract, WellFormed

\* task_proposal::bind_draft: what is bound are alternatives for each fact.
LEMMA FactsAre ==
    ASSUME NEW c, DOMAIN c.pins \in SUBSET EvidenceNode, NEW d \in Draft
    PROVE  E!Facts(c, d) \in Seq(Seq(SUBSET EvidenceNode))
<1> DEFINE reqs == d.requirements
           X == Seq(SUBSET EvidenceNode)
           sources == E!InOrder(DOMAIN c.pins)
           Meant(r) == {sources[i] : i \in r.cited \intersect DOMAIN sources}
<1>1. reqs \in Seq(E!ToSet(reqs)) /\ \A k \in DOMAIN reqs : reqs[k].alternatives \in X
  BY AnswersAssumption DEF E!EvidenceAssumption
<1>2. DOMAIN reqs = 1 .. Len(reqs) /\ Len(reqs) \in Nat
  BY <1>1
<1>3. ASSUME NEW r PROVE <<Meant(r)>> \in X
  <2>1. IsFiniteSet(EvidenceNode) /\ EvidenceNode \subseteq Nat
    BY AnswersAssumption, EvidenceFinite DEF E!EvidenceAssumption
  <2>2. IsFiniteSet(DOMAIN c.pins) /\ DOMAIN c.pins \in SUBSET Nat
    BY <2>1, FS_Subset
  <2>3. sources \in Seq(DOMAIN c.pins)
    BY <2>2, InOrderIs
  <2>4. \A i \in DOMAIN sources : sources[i] \in EvidenceNode
    BY <2>3
  <2>5. Meant(r) \in SUBSET EvidenceNode
    BY <2>4
  <2> QED
    BY <2>5
<1> HIDE DEF X, Meant
<1>4. ASSUME NEW k \in DOMAIN reqs PROVE E!Bound(c, d)[k].alternatives \in X
  <2>1. CASE ~d.byId
    BY <1>1, <2>1 DEF E!Bound
  <2>2. CASE d.byId
    <3>1. E!Bound(c, d)[k].alternatives = <<Meant(reqs[k])>>
      BY <2>2 DEF E!Bound, Meant
    <3> QED
      BY <1>3, <3>1
  <2> QED
    BY <2>1, <2>2
<1>5. E!Facts(c, d) = [k \in DOMAIN reqs |-> E!Bound(c, d)[k].alternatives]
  BY DEF E!Facts
<1> HIDE DEF reqs
<1>6. E!Facts(c, d) \in [1 .. Len(reqs) -> X]
  BY <1>2, <1>4, <1>5
<1> QED
  BY <1>2, <1>6, RunSeq DEF X

\* task_proposal::evaluate: a judgement is an evaluation or covers nothing.
LEMMA JudgeIs ==
    ASSUME NEW S, NEW l \in Seq(S), NEW c, WellFormed(c), "facts" \in DOMAIN c,
           DOMAIN c.pins \in SUBSET EvidenceNode, NEW d \in Draft, NEW made
    PROVE  Promised(l, [c EXCEPT !.facts = E!Facts(c, d)], E!Judge(l, c, made, d))
<1> DEFINE b == [c EXCEPT !.facts = E!Facts(c, d)]
           a == E!Judge(l, c, made, d)
<1>1. \/ a.resolution \notin {"covered", "budget_insufficient"}
      \/ a = E!Evaluate(l, b)
  BY DEF E!Judge, E!Answer
<1>2. WellFormed(b)
  <2>1. E!Facts(c, d) \in Seq(Seq(SUBSET EvidenceNode))
    BY FactsAre
  <2>2. b.hops = c.hops /\ b.budget = c.budget /\ b.limit = c.limit /\ b.cost = c.cost
    OBVIOUS
  <2>3. b.facts = E!Facts(c, d)
    OBVIOUS
  <2> QED
    BY <2>1, <2>2, <2>3 DEF WellFormed
<1> HIDE DEF a, b
<1>3. CASE a.resolution \notin {"covered", "budget_insufficient"}
  BY <1>3 DEF Promised, a, b
<1>4. CASE a = E!Evaluate(l, b)
  BY <1>2, <1>4, EvaluateIs DEF a, b
<1> QED
  BY <1>1, <1>3, <1>4

\* The controller begins with a journal and nothing else.
LEMMA EvidenceInit == E!Init => EvidenceInv
<1> SUFFICES ASSUME E!Init PROVE EvidenceInv
  OBVIOUS
<1>1. evidenceLog \in EvidenceStart /\ pins = Unset /\ context = Unset /\ evidenceOutput = Unset
  BY DEF E!Init
<1>2. evidenceLog \in Seq(E!ToSet(evidenceLog))
  BY <1>1, AnswersAssumption DEF E!EvidenceAssumption
<1>3. \E S : evidenceLog \in Seq(S)
  BY <1>2
<1> QED
  BY <1>1, <1>3 DEF EvidenceInv

\* Other components leave the controller alone.
LEMMA EvidenceStill == EvidenceInv /\ UNCHANGED evidenceVars => EvidenceInv'
<1> SUFFICES ASSUME EvidenceInv, UNCHANGED evidenceVars PROVE EvidenceInv'
  OBVIOUS
<1>1. /\ evidenceLog' = evidenceLog /\ pins' = pins /\ context' = context
      /\ evidenceOutput' = evidenceOutput
  BY DEF evidenceVars
<1> QED
  BY <1>1 DEF EvidenceInv

\* query --evidence-contract, --prepare-proposal and --task-proposal, and what is
\* appended to the journal meanwhile.
LEMMA EvidenceStep == EvidenceInv /\ E!Next => EvidenceInv'
<1> SUFFICES ASSUME EvidenceInv, E!Next PROVE EvidenceInv'
  OBVIOUS
<1>1. PICK S : evidenceLog \in Seq(S)
  BY DEF EvidenceInv
<1>2. E!Visible(evidenceLog) \in Seq(S)
  BY <1>1, VisibleIs
<1>3. ASSUME NEW ns \in EvidencePinned, E!Inspect(ns) PROVE EvidenceInv'
  <2>1. /\ UNCHANGED <<evidenceLog, context, evidenceOutput>> /\ context = Unset
        /\ pins' = [n \in ns \intersect E!Nodes(E!Visible(evidenceLog)) |-> E!Value(E!Visible(evidenceLog), n)]
    BY <1>3 DEF E!Inspect, EvidenceInv
  <2>2. DOMAIN pins' = ns \intersect E!Nodes(E!Visible(evidenceLog))
    BY <2>1
  <2>3. DOMAIN pins' \in SUBSET EvidenceNode
    BY <2>2 DEF E!Nodes
  <2> QED
    BY <2>1, <2>3 DEF EvidenceInv
<1>4. ASSUME NEW e \in EvidenceEvent, E!Grow(e) PROVE EvidenceInv'
  <2>1. /\ UNCHANGED <<pins, context, evidenceOutput>> /\ evidenceOutput = Unset
        /\ evidenceLog' = Append(evidenceLog, e)
    BY <1>4 DEF E!Grow
  <2>2. evidenceLog \in Seq(S \union {e})
    BY <1>1
  <2>3. evidenceLog' \in Seq(S \union {e})
    BY <2>1, <2>2
  <2> QED
    BY <2>1, <2>3 DEF EvidenceInv
<1>5. ASSUME NEW q \in Contracted, E!Ask(q) PROVE EvidenceInv'
  <2> DEFINE c == E!Contract(q)
             l == E!Visible(evidenceLog)
  <2>1. /\ UNCHANGED <<evidenceLog, pins, context>>
        /\ evidenceOutput' = [answer |-> E!Evaluate(l, c), contract |-> c]
    BY <1>5 DEF E!Ask
  <2>2. WellFormed(c)
    BY ContractIs
  <2> HIDE DEF c
  <2>3. Promised(l, c, E!Evaluate(l, c))
    BY <1>2, <2>2, EvaluateIs
  <2>4. Promised(l, evidenceOutput'.contract, evidenceOutput'.answer)
    BY <2>1, <2>3
  <2>5. \E T1 : evidenceLog' \in Seq(T1)
    BY <1>1, <2>1
  <2>6. Promised(E!Visible(evidenceLog'), evidenceOutput'.contract, evidenceOutput'.answer)
    BY <2>1, <2>4
  <2> QED
    BY <2>1, <2>5, <2>6 DEF EvidenceInv
<1>6. ASSUME NEW q \in Contracted, E!Prepare(q) PROVE EvidenceInv'
  <2>1. /\ UNCHANGED <<evidenceLog, pins, evidenceOutput>> /\ pins # Unset
        /\ context' = [question |-> q, made |-> E!Context(E!Visible(evidenceLog), E!Contract(q))]
    BY <1>6 DEF E!Prepare
  <2>2. context'.question \in Contracted
    BY <2>1
  <2> QED
    BY <2>1, <2>2 DEF EvidenceInv
<1>7. ASSUME NEW d \in Draft, E!Decide(d) PROVE EvidenceInv'
  <2> DEFINE c == E!Contract(context.question)
             b == [c EXCEPT !.facts = E!Facts(c, d)]
             l == E!Visible(evidenceLog)
  <2>1. /\ UNCHANGED <<evidenceLog, pins, context>> /\ context # Unset
        /\ evidenceOutput' = [answer |-> E!Judge(l, c, context.made, d), contract |-> b]
    BY <1>7 DEF E!Decide
  <2>2. /\ context.question \in Contracted /\ DOMAIN pins \in SUBSET EvidenceNode
    BY <2>1 DEF EvidenceInv
  <2>3. WellFormed(c) /\ c.pins = pins /\ "facts" \in DOMAIN c
    BY <2>2, ContractIs
  <2> HIDE DEF c
  <2>4. DOMAIN c.pins \in SUBSET EvidenceNode
    BY <2>2, <2>3
  <2>5. Promised(l, b, E!Judge(l, c, context.made, d))
    BY <1>2, <2>3, <2>4, JudgeIs
  <2> HIDE DEF b
  <2>6. Promised(E!Visible(evidenceLog'), evidenceOutput'.contract, evidenceOutput'.answer)
    BY <2>1, <2>5
  <2>7. \E T1 : evidenceLog' \in Seq(T1)
    BY <1>1, <2>1
  <2> QED
    BY <2>1, <2>6, <2>7 DEF EvidenceInv
<1> QED
  BY <1>3, <1>4, <1>5, <1>6, <1>7 DEF E!Next

\* What the invariant says of the answer is what the answer promises.
LEMMA EvidenceHolds == EvidenceInv => E!CoveredIsGrounded
BY DEF EvidenceInv, Promised, E!CoveredIsGrounded

-----------------------------------------------------------------------------
(***************************************************************************)
(* The theorems.                                                           *)
(***************************************************************************)

\* The invariant of the component that this behaviour is about.
AnswersInv ==
    /\ answering \in AnswerPart
    /\ answering = "task" => TaskInv
    /\ answering = "middleware" => MiddlewareInv
    /\ answering = "evidence" => EvidenceInv
    /\ answering = "pickup" => PickupInv
    /\ answering = "trace" => TraceInv

\* query --q, the middleware commands, evidence closure and the searches for unfinished
\* work and for sources keep it, each its own.
LEMMA AnswersKept == AnswerSpec => []AnswersInv
<1>1. AnswerInit => AnswersInv
  BY TaskInit, MiddlewareInit, EvidenceInit, PickupInit, TraceInit
  DEF AnswerInit, AnswerStates, AnswersInv, AnswerPart
<1>2. AnswersInv /\ [AnswerNext]_answerVars => AnswersInv'
  <2> SUFFICES ASSUME AnswersInv, [AnswerNext]_answerVars PROVE AnswersInv'
    OBVIOUS
  <2>1. CASE /\ answering = "task" /\ K!Next
             /\ UNCHANGED <<answering, middlewareVars, evidenceVars, pickupVars, searchVars>>
    BY <2>1, TaskStep DEF AnswersInv, K!Next
  <2>2. CASE /\ answering = "middleware" /\ M!Next
             /\ UNCHANGED <<answering, taskEntryVars, evidenceVars, pickupVars, searchVars>>
    BY <2>2, MiddlewareStep DEF AnswersInv
  <2>3. CASE /\ answering = "evidence" /\ E!Next
             /\ UNCHANGED <<answering, taskEntryVars, middlewareVars, pickupVars, searchVars>>
    BY <2>3, EvidenceStep DEF AnswersInv
  <2>4. CASE /\ answering = "pickup" /\ Pick!Next
             /\ UNCHANGED <<answering, taskEntryVars, middlewareVars, evidenceVars, searchVars>>
    BY <2>4, PickupStep DEF AnswersInv
  <2>5. CASE /\ answering = "trace" /\ Seek!Next
             /\ UNCHANGED <<answering, taskEntryVars, middlewareVars, evidenceVars, pickupVars>>
    BY <2>5, TraceStep DEF AnswersInv
  <2>6. CASE UNCHANGED answerVars
    BY <2>6, TaskStill, MiddlewareStill, EvidenceStill, PickupStill, TraceStill DEF answerVars, AnswersInv
  <2> QED
    BY <2>1, <2>2, <2>3, <2>4, <2>5, <2>6 DEF AnswerNext
<1> QED
  BY <1>1, <1>2, PTL DEF AnswerSpec

\* query --q: pages that are read one after another show every candidate once, in
\* order, and "ready" means one approved baseline (budget.rs:99-107, entry.rs:245-263).
THEOREM PagesComplete == AnswerSpec => []PagesShowAll
<1>1. AnswersInv => PagesShowAll
  BY TaskHolds DEF AnswersInv, PagesShowAll
<1> QED
  BY <1>1, AnswersKept, PTL

\* middleware prepare and expand: a packet quotes only what the task may rely on,
\* "prepared" means all of it and all it rests on, and items are left out only for
\* more important ones (prepare.rs:51-53, 100-101; expand.rs:7-8).
THEOREM PacketsTrue == AnswerSpec => []PacketsAreTrue
<1>1. AnswersInv => PacketsAreTrue
  BY MiddlewareHolds DEF AnswersInv, PacketsAreTrue
<1> QED
  BY <1>1, AnswersKept, PTL

\* query --evidence-contract: a covered answer holds for each fact all that one of
\* its alternatives rests on, within the hops, each source as it was pinned, nothing
\* in it is contradicted, and no choice of alternatives makes a cheaper packet;
\* budget_insufficient means that none fits (README.md:328-330; closure.rs and
\* context_selection.rs).
THEOREM AnswersGrounded == AnswerSpec => []CoveredIsGrounded
<1>1. AnswersInv => CoveredIsGrounded
  BY EvidenceHolds DEF AnswersInv, CoveredIsGrounded
<1> QED
  BY <1>1, AnswersKept, PTL

\* unfinished and pickup: a reason that is given for a session holds when its last
\* record was read, of a transcript that is inspected whole all of them are given, a
\* plan that is reported as confirmed took effect, and is the last that did where
\* every record can be read and paired, and a session that a checkpoint closes is not
\* offered (evidence/per_source.rs:12-80; pickup/task_state/mod.rs; discover.rs).
THEOREM PickupTrue == AnswerSpec => []PickupIsTrue
<1>1. AnswersInv => PickupIsTrue
  BY PickupHolds DEF AnswersInv, PickupIsTrue
<1> QED
  BY <1>1, AnswersKept, PTL

\* trace: a search that reports its coverage as complete has looked at every source
\* that the links of the journal lead to and quotes what each had since the search
\* began, unless there were more seeds than it takes, or a file changed and has its
\* old size and time; it reads and charges no more than its budget, and what expand
\* returns is what was quoted (trace/search.rs; docs of `innen trace`).
THEOREM TraceHonest == AnswerSpec => []TraceIsHonest
<1>1. AnswersInv => TraceIsHonest
  BY TraceHolds DEF AnswersInv, TraceIsHonest
<1> QED
  BY <1>1, AnswersKept, PTL
================================================================================
