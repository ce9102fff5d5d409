----------------------------- MODULE SearchProofs -----------------------------
(***************************************************************************)
(* Proofs about Searches: what a transcript and its plan promise the       *)
(* commands that read them, for any sessions, see PickupAssumption, and    *)
(* what a search for sources promises, for any graphs and files, see       *)
(* TraceAssumption.  AnswersProofs goes on from here.                      *)
(***************************************************************************)
EXTENDS Searches, Integers, Sequences, FiniteSets, WellFoundedInduction, FiniteSetTheorems, TLAPS

-----------------------------------------------------------------------------
(***************************************************************************)
(* Sorting, and what a recursive function is.  A list that is sorted by a  *)
(* strict order has each element at the place of its rank; a function whose*)
(* values are computed from those below it exists.                         *)
(***************************************************************************)

\* A set of numbers that is not empty has a least one.
LEMMA LeastNat ==
    ASSUME NEW X \in SUBSET Nat, X # {}
    PROVE  \E x \in X : \A y \in X : x <= y
<1> DEFINE Pairs == {ss \in Nat \X Nat : ss[1] < ss[2]}
<1>1. OpToRel(<, Nat) = Pairs
  BY Zenon DEF OpToRel
<1>2. IsWellFoundedOn(Pairs, Nat)
  BY <1>1, NatLessThanWellFounded
<1>3. PICK x \in X : \A y \in X : ~ (<<y, x>> \in Pairs)
  <2> HIDE DEF Pairs
  <2> QED BY <1>2, WFMin
<1>4. ASSUME NEW y \in X PROVE x <= y
  <2>1. x \in Nat /\ y \in Nat OBVIOUS
  <2>2. y < x => <<y, x>> \in Pairs BY <2>1
  <2>3. ~ (y < x) BY <2>2, <1>3
  <2> HIDE DEF Pairs
  <2> QED BY <2>1, <2>3
<1> QED BY <1>4

\* How many elements come before x in the strict order `before` of S.
Lower(S, before, x) == {y \in S : <<y, x>> \in before}

Ranks(S, before) ==
    /\ \A x, y, z \in S : <<x, y>> \in before /\ <<y, z>> \in before => <<x, z>> \in before
    /\ \A x, y \in S : x # y => <<x, y>> \in before \/ <<y, x>> \in before
    /\ \A x \in S : <<x, x>> \notin before

\* Sorting: in a strict total order no two elements have as many before them.
LEMMA RankIsUnique ==
    ASSUME NEW S, IsFiniteSet(S), NEW before, Ranks(S, before), NEW x \in S
    PROVE  /\ Cardinality(Lower(S, before, x)) \in 0 .. Cardinality(S) - 1
           /\ Cardinality(S) \in Nat
           /\ \A z \in S : Cardinality(Lower(S, before, z)) = Cardinality(Lower(S, before, x)) => z = x
<1>1. \A z \in S : /\ Lower(S, before, z) \subseteq S /\ Lower(S, before, z) # S
                   /\ z \notin Lower(S, before, z)
  BY DEF Lower, Ranks
<1>2. \A z \in S : /\ IsFiniteSet(Lower(S, before, z))
                   /\ Cardinality(Lower(S, before, z)) \in Nat
                   /\ Cardinality(Lower(S, before, z)) < Cardinality(S)
  <2> TAKE z \in S
  <2>1. /\ IsFiniteSet(Lower(S, before, z))
        /\ Cardinality(Lower(S, before, z)) <= Cardinality(S)
        /\ Cardinality(S) # Cardinality(Lower(S, before, z))
    BY <1>1, FS_Subset
  <2>2. Cardinality(Lower(S, before, z)) \in Nat /\ Cardinality(S) \in Nat
    BY <2>1, FS_CardinalityType
  <2> QED
    BY <2>1, <2>2
<1>3. ASSUME NEW w \in S, NEW z \in S, <<w, z>> \in before
      PROVE  Cardinality(Lower(S, before, w)) < Cardinality(Lower(S, before, z))
  <2>1. Lower(S, before, w) \subseteq Lower(S, before, z) /\ Lower(S, before, w) # Lower(S, before, z)
    BY <1>3 DEF Lower, Ranks
  <2>2. /\ Cardinality(Lower(S, before, w)) <= Cardinality(Lower(S, before, z))
        /\ Cardinality(Lower(S, before, z)) # Cardinality(Lower(S, before, w))
    BY <1>2, <2>1, FS_Subset
  <2> QED
    BY <1>2, <2>2
<1>4. Cardinality(S) \in Nat
  BY FS_CardinalityType
<1>5. \A z \in S : Cardinality(Lower(S, before, z)) = Cardinality(Lower(S, before, x)) => z = x
  <2> TAKE z \in S
  <2>1. z # x => <<z, x>> \in before \/ <<x, z>> \in before
    BY DEF Ranks
  <2> QED
    BY <1>2, <1>3, <2>1
<1> QED
  BY <1>2, <1>4, <1>5

\* Sorting: each element of S has a place.
LEMMA OrderedHas ==
    ASSUME NEW S, IsFiniteSet(S), NEW before, Ranks(S, before), NEW x \in S
    PROVE  \E k \in 1 .. Cardinality(S) :
              (CHOOSE y \in S : Cardinality(Lower(S, before, y)) = k - 1) = x
<1> DEFINE n == Cardinality(Lower(S, before, x))
<1>1. n \in 0 .. Cardinality(S) - 1 /\ Cardinality(S) \in Nat
  BY RankIsUnique
<1>2. n + 1 \in 1 .. Cardinality(S) /\ (n + 1) - 1 = n
  BY <1>1
<1>3. (CHOOSE y \in S : Cardinality(Lower(S, before, y)) = n) = x
  <2>1. \A z \in S : Cardinality(Lower(S, before, z)) = n => z = x
    BY RankIsUnique
  <2>2. Cardinality(Lower(S, before, x)) = n
    OBVIOUS
  <2> HIDE DEF n
  <2> QED
    BY <2>1, <2>2
<1> QED
  BY <1>2, <1>3

\* Sorting: what comes before another element has fewer before it.
LEMMA RankIsLess ==
    ASSUME NEW S, IsFiniteSet(S), NEW before, Ranks(S, before), NEW w \in S, NEW z \in S, <<w, z>> \in before
    PROVE  Cardinality(Lower(S, before, w)) < Cardinality(Lower(S, before, z))
<1>1. Lower(S, before, w) \subseteq Lower(S, before, z) /\ Lower(S, before, w) # Lower(S, before, z)
  BY DEF Lower, Ranks
<1>2. Lower(S, before, z) \subseteq S /\ IsFiniteSet(Lower(S, before, z))
  BY FS_Subset DEF Lower
<1>3. /\ Cardinality(Lower(S, before, w)) <= Cardinality(Lower(S, before, z))
      /\ Cardinality(Lower(S, before, z)) # Cardinality(Lower(S, before, w))
      /\ IsFiniteSet(Lower(S, before, w))
  BY <1>1, <1>2, FS_Subset
<1>4. Cardinality(Lower(S, before, w)) \in Nat /\ Cardinality(Lower(S, before, z)) \in Nat
  BY <1>2, <1>3, FS_CardinalityType
<1> QED
  BY <1>3, <1>4

\* Sorting: each place is taken by the element of that rank.
LEMMA PlaceIsTaken ==
    ASSUME NEW S, IsFiniteSet(S), NEW before, Ranks(S, before), NEW k \in 1 .. Cardinality(S)
    PROVE  LET x == CHOOSE y \in S : Cardinality(Lower(S, before, y)) = k - 1
           IN x \in S /\ Cardinality(Lower(S, before, x)) = k - 1
<1> DEFINE n == Cardinality(S)
           place == [x \in S |-> Cardinality(Lower(S, before, x)) + 1]
<1>1. n \in Nat
  BY FS_CardinalityType
<1>2. \A x \in S : place[x] \in 1 .. n /\ place[x] - 1 = Cardinality(Lower(S, before, x))
  <2> TAKE x \in S
  <2>1. PICK c : c = Cardinality(Lower(S, before, x)) /\ c \in 0 .. n - 1
    BY RankIsUnique
  <2> HIDE DEF n
  <2> QED
    BY <1>1, <2>1
<1>3. \A x, z \in S : place[x] = place[z] => x = z
  <2> TAKE x, z \in S
  <2>1. place[x] = place[z] => Cardinality(Lower(S, before, z)) = Cardinality(Lower(S, before, x))
    BY <1>2
  <2> HIDE DEF place
  <2> QED
    BY <2>1, RankIsUnique
<1>4. place \in Injection(S, 1 .. n)
  <2>1. place \in [S -> 1 .. n]
    BY <1>2
  <2> HIDE DEF place, n
  <2> QED
    BY <1>3, <2>1 DEF Injection, IsInjective
<1>5. IsFiniteSet(1 .. n) /\ Cardinality(1 .. n) = n
  BY <1>1, FS_Interval
<1>6. place \in Surjection(S, 1 .. n)
  BY <1>4, <1>5, FS_Injection
<1>7. PICK x \in S : place[x] = k
  BY <1>6 DEF Surjection
<1>8. Cardinality(Lower(S, before, x)) = k - 1
  BY <1>2, <1>7
<1> QED
  BY <1>8

\* Induction up to a bound,
LEMMA UpTo ==
    ASSUME NEW L \in Nat, NEW P, 0 \in P, \A n \in 0 .. L - 1 : n \in P => n + 1 \in P
    PROVE  \A n \in 0 .. L : n \in P
<1> DEFINE out == {n \in 0 .. L : n \notin P}
<1>1. CASE out = {}
  BY <1>1
<1>2. CASE out # {}
  <2>1. PICK x \in out : \A y \in out : x <= y
    <3>1. out \in SUBSET Nat
      OBVIOUS
    <3> HIDE DEF out
    <3> QED
      BY <1>2, <3>1, LeastNat
  <2>2. x # 0 /\ x \in 0 .. L
    OBVIOUS
  <2>3. x - 1 \in 0 .. L - 1 /\ x - 1 \notin out /\ (x - 1) + 1 = x
    BY <2>1, <2>2
  <2>4. x - 1 \in P
    BY <2>3
  <2> QED
    BY <2>3, <2>4
<1> QED
  BY <1>1, <1>2

\* and from all that comes before.
LEMMA Below ==
    ASSUME NEW L \in Nat, NEW P, \A n \in 1 .. L : (\A m \in 1 .. n - 1 : m \in P) => n \in P
    PROVE  \A n \in 1 .. L : n \in P
<1> DEFINE out == {n \in 1 .. L : n \notin P}
<1>1. CASE out = {}
  BY <1>1
<1>2. CASE out # {}
  <2>1. PICK x \in out : \A y \in out : x <= y
    <3>1. out \in SUBSET Nat
      OBVIOUS
    <3> HIDE DEF out
    <3> QED
      BY <1>2, <3>1, LeastNat
  <2>2. \A m \in 1 .. x - 1 : m \in 1 .. L /\ m \notin out
    BY <2>1
  <2> QED
    BY <2>2
<1> QED
  BY <1>1, <1>2

\* A function that is defined from its values below exists.
Defines(lo, L, X, step) ==
    /\ \A i \in lo .. L : \A v \in [lo .. L -> X] : step[i][v] \in X
    /\ \A i \in lo .. L : \A v, w \in [lo .. L -> X] :
          (\A j \in lo .. i - 1 : v[j] = w[j]) => step[i][v] = step[i][w]

Solves(lo, L, X, step, f) == f \in [lo .. L -> X] /\ \A i \in lo .. L : f[i] = step[i][f]

\* Recursion: the function that each value is computed by from those below exists.
LEMMA RecursionExists ==
    ASSUME NEW lo \in Nat, NEW L \in Nat, NEW X, X # {}, NEW step, Defines(lo, L, X, step)
    PROVE  \E f : Solves(lo, L, X, step, f)
<1> DEFINE Done(f, k) == \A i \in lo .. L : i < k => f[i] = step[i][f]
           P == {k \in Nat : \E f \in [lo .. L -> X] : Done(f, k)}
<1>1. 0 \in P
  <2>1. PICK x0 \in X : TRUE
    OBVIOUS
  <2>3. [i \in lo .. L |-> x0] \in [lo .. L -> X]
    OBVIOUS
  <2>2. \A f : Done(f, 0)
    OBVIOUS
  <2> HIDE DEF Done
  <2> QED
    BY <2>2, <2>3
<1>2. ASSUME NEW k \in 0 .. L, k \in P PROVE k + 1 \in P
  <2>1. PICK f \in [lo .. L -> X] : Done(f, k)
    BY <1>2
  <2>2. CASE k \in lo .. L
    <3> DEFINE g == [f EXCEPT ![k] = step[k][f]]
    <3>1. g \in [lo .. L -> X] /\ g[k] = step[k][f] /\ \A i \in lo .. L : i # k => g[i] = f[i]
      BY <2>2 DEF Defines
    <3> HIDE DEF g
    <3>2. ASSUME NEW i \in lo .. L, i < k + 1 PROVE g[i] = step[i][g]
      <4>1. \A j \in lo .. i - 1 : g[j] = f[j]
        BY <3>1, <3>2
      <4>2. step[i][g] = step[i][f]
        BY <3>1, <4>1 DEF Defines
      <4>3. CASE i = k
        BY <3>1, <4>2, <4>3
      <4>4. CASE i < k
        BY <2>1, <3>1, <4>2, <4>4
      <4> QED
        BY <3>2, <4>3, <4>4
    <3>3. Done(g, k + 1)
      BY <3>2
    <3> HIDE DEF Done
    <3> QED
      BY <3>1, <3>3
  <2>3. CASE k \notin lo .. L
    <3>1. Done(f, k + 1)
      BY <2>1, <2>3
    <3> HIDE DEF Done
    <3> QED
      BY <3>1
  <2> QED
    BY <2>2, <2>3
<1>3. L + 1 \in P
  <2> HIDE DEF P
  <2>1. \A n \in 0 .. L + 1 : n \in P
    <3>1. L + 1 \in Nat /\ (L + 1) - 1 = L
      OBVIOUS
    <3> QED
      BY <1>1, <1>2, <3>1, UpTo
  <2> QED
    BY <2>1
<1>4. PICK f \in [lo .. L -> X] : Done(f, L + 1)
  BY <1>3
<1> QED
  BY <1>4 DEF Solves

\* A step repeated a number of times, and its values.
Iterates(L, X, a, more, f) ==
    f \in [0 .. L -> X] /\ f[0] = a /\ \A k \in 1 .. L : f[k] = more[k][f[k - 1]]

\* A step repeated a number of times.
LEMMA Iteration ==
    ASSUME NEW L \in Nat, NEW X, NEW a \in X, NEW more \in [1 .. L -> [X -> X]]
    PROVE  \E f : Iterates(L, X, a, more, f)
<1> DEFINE step == [k \in 0 .. L |-> [f \in [0 .. L -> X] |-> IF k = 0 THEN a ELSE more[k][f[k - 1]]]]
<1>1. ASSUME NEW k \in 0 .. L, NEW f \in [0 .. L -> X] PROVE step[k][f] \in X
  <2>1. CASE k = 0
    BY <2>1
  <2>2. CASE k # 0
    <3>1. k \in 1 .. L /\ k - 1 \in 0 .. L
      BY <2>2
    <3>2. f[k - 1] \in X /\ more[k] \in [X -> X]
      BY <3>1
    <3> QED
      BY <2>2, <3>2
  <2> QED
    BY <2>1, <2>2
<1>2. ASSUME NEW k \in 0 .. L, NEW v \in [0 .. L -> X], NEW w \in [0 .. L -> X],
             \A j \in 0 .. k - 1 : v[j] = w[j]
      PROVE  step[k][v] = step[k][w]
  <2>1. CASE k = 0
    BY <2>1
  <2>2. CASE k # 0
    <3>1. v[k - 1] = w[k - 1]
      BY <1>2, <2>2
    <3> QED
      BY <3>1
  <2> QED
    BY <2>1, <2>2
<1>3. Defines(0, L, X, step)
  <2> HIDE DEF step
  <2> QED
    BY <1>1, <1>2 DEF Defines
<1>4. PICK f : Solves(0, L, X, step, f)
  <2> HIDE DEF step
  <2> QED
    BY <1>3, RecursionExists
<1>5. f \in [0 .. L -> X] /\ \A k \in 0 .. L : f[k] = step[k][f]
  BY <1>4 DEF Solves
<1>6. f[0] = a /\ \A k \in 1 .. L : f[k] = more[k][f[k - 1]]
  <2>1. 0 \in 0 .. L /\ \A k \in 1 .. L : k \in 0 .. L /\ k # 0
    OBVIOUS
  <2>2. \A k \in 0 .. L : step[k][f] = IF k = 0 THEN a ELSE more[k][f[k - 1]]
    BY <1>5
  <2> HIDE DEF step
  <2> QED
    BY <1>5, <2>1, <2>2
<1> QED
  BY <1>5, <1>6 DEF Iterates

\* A list of a function whose values are of one kind.
LEMMA IterationStays ==
    ASSUME NEW L \in Nat, NEW X, NEW f, f[0] \in X, \A k \in 1 .. L : f[k - 1] \in X => f[k] \in X
    PROVE  \A k \in 0 .. L : f[k] \in X
<1> DEFINE P == {k \in Nat : f[k] \in X}
<1>1. 0 \in P
  OBVIOUS
<1>2. ASSUME NEW n \in 0 .. L - 1, n \in P PROVE n + 1 \in P
  <2>1. PICK k \in 1 .. L : k = n + 1 /\ k - 1 = n
    OBVIOUS
  <2> QED
    BY <1>2, <2>1
<1>3. \A n \in 0 .. L : n \in P
  <2> HIDE DEF P
  <2> QED
    BY <1>1, <1>2, UpTo
<1> QED
  BY <1>3

-----------------------------------------------------------------------------
(***************************************************************************)
(* Pickup: the last line that says something, in a transcript and in its   *)
(* tail, and what the streams of a transcript and its plan are as it grows.*)
(***************************************************************************)

\* The positions of a list that say something.
Saying(source, rs, signal) ==
    {i \in DOMAIN rs : rs[i].word # Unset /\ signal \in Pick!Signals(source, rs[i].word)}

\* The last of some positions, or 0.
IsLast(m, n, X) == m \in 0 .. n /\ (m # 0 => m \in X) /\ \A i \in X : i <= m

\* What is as large as all is the largest.
LEMMA LargestIs ==
    ASSUME NEW Y, NEW x \in Y, \A y \in Y : x >= y
    PROVE  Pick!Max(Y) \in Y /\ \A y \in Y : Pick!Max(Y) >= y
<1> DEFINE m == CHOOSE z \in Y : \A y \in Y : z >= y
<1>1. m \in Y /\ \A y \in Y : m >= y
  <2>1. \E z \in Y : \A y \in Y : z >= y
    OBVIOUS
  <2> QED
    BY <2>1, Zenon
<1>2. Pick!Max(Y) = m
  BY DEF Pick!Max
<1> QED
  BY <1>1, <1>2

\* A set of positions has a last one.
LEMMA LastExists ==
    ASSUME NEW n \in Nat, NEW X \in SUBSET (1 .. n)
    PROVE  IsLast(Pick!Max({0} \union X), n, X)
<1> DEFINE up == {n - x : x \in {0} \union X}
           Y == {0} \union X
<1>1. up \in SUBSET Nat /\ up # {}
  OBVIOUS
<1>2. PICK u \in up : \A y \in up : u <= y
  <2> HIDE DEF up
  <2> QED
    BY <1>1, LeastNat
<1>3. PICK x \in Y : u = n - x
  OBVIOUS
<1>4. \A y \in Y : x >= y
  <2> TAKE y \in Y
  <2>1. n - y \in up /\ x \in Int /\ y \in Int
    OBVIOUS
  <2> HIDE DEF up, Y
  <2> QED
    BY <1>2, <1>3, <2>1
<1>5. Pick!Max(Y) \in Y /\ \A y \in Y : Pick!Max(Y) >= y
  <2> HIDE DEF up, Y
  <2> QED
    BY <1>3, <1>4, LargestIs
<1> DEFINE m == Pick!Max(Y)
<1>6. m \in Y /\ \A y \in Y : m >= y
  BY <1>5
<1> HIDE DEF m
<1>7. IsLast(m, n, X)
  BY <1>6 DEF IsLast
<1> QED
  BY <1>7 DEF m

\* Only one position is the last.
LEMMA LastIsOne ==
    ASSUME NEW n \in Nat, NEW X \in SUBSET (1 .. n), NEW m, IsLast(m, n, X)
    PROVE  Pick!Max({0} \union X) = m
<1>1. IsLast(Pick!Max({0} \union X), n, X)
  BY LastExists
<1> QED
  BY <1>1 DEF IsLast

\* evidence/mod.rs: the index of the last line that says something.
LEMMA LastOfIs ==
    ASSUME NEW R, NEW rs \in Seq(R), NEW source, NEW signal
    PROVE  IsLast(Pick!LastOf(source, rs, signal), Len(rs), Saying(source, rs, signal))
<1>1. Len(rs) \in Nat /\ Saying(source, rs, signal) \in SUBSET (1 .. Len(rs))
  BY DEF Saying
<1> QED
  BY <1>1, LastExists DEF Pick!LastOf, Saying

\* One more line.
LEMMA LastOfAppend ==
    ASSUME NEW R, NEW rs \in Seq(R), NEW r \in R, NEW source, NEW signal
    PROVE  Pick!LastOf(source, Append(rs, r), signal) =
              IF r.word # Unset /\ signal \in Pick!Signals(source, r.word) THEN Len(rs) + 1
              ELSE Pick!LastOf(source, rs, signal)
<1> DEFINE n == Len(rs)
           bs == Append(rs, r)
           X == Saying(source, rs, signal)
           Y == Saying(source, bs, signal)
           says == r.word # Unset /\ signal \in Pick!Signals(source, r.word)
           m == IF says THEN n + 1 ELSE Pick!LastOf(source, rs, signal)
<1>1. n \in Nat /\ bs \in Seq(R) /\ Len(bs) = n + 1 /\ bs[n + 1] = r /\ \A i \in 1 .. n : bs[i] = rs[i]
  OBVIOUS
<1>2. IsLast(Pick!LastOf(source, rs, signal), n, X) /\ X \in SUBSET (1 .. n)
  BY LastOfIs DEF Saying
<1>3. Y = X \union (IF says THEN {n + 1} ELSE {})
  <2>1. DOMAIN bs = 1 .. n + 1 /\ DOMAIN rs = 1 .. n
    BY <1>1
  <2> QED
    BY <1>1, <2>1 DEF Saying
<1>4. IsLast(m, n + 1, Y)
  <2> HIDE DEF says, X, Y, n
  <2> QED
    BY <1>1, <1>2, <1>3 DEF IsLast
<1>5. Y \in SUBSET (1 .. n + 1)
  <2> HIDE DEF says, X, Y, n
  <2> QED
    BY <1>1, <1>2, <1>3
<1>6. Pick!LastOf(source, bs, signal) = Pick!Max({0} \union Y)
  BY DEF Pick!LastOf, Saying
<1>7. Pick!Max({0} \union Y) = m
  <2> HIDE DEF m, Y
  <2> QED
    BY <1>1, <1>4, <1>5, LastIsOne
<1> QED
  BY <1>6, <1>7

\* The larger of two numbers.
LEMMA MaxOfTwo ==
    ASSUME NEW a \in Int, NEW b \in Int
    PROVE  Pick!Max({a, b}) = IF a >= b THEN a ELSE b
<1> DEFINE c == IF a >= b THEN a ELSE b
<1>1. c \in {a, b} /\ \A y \in {a, b} : c >= y
  OBVIOUS
<1> DEFINE Z == {a, b}
<1>2. Pick!Max(Z) \in Z /\ \A y \in Z : Pick!Max(Z) >= y
  <2>1. c \in Z /\ \A y \in Z : c >= y
    BY <1>1
  <2> HIDE DEF c, Z
  <2> QED
    BY <2>1, LargestIs
<1> QED
  BY <1>2

\* The larger of three.
LEMMA MaxOfThree ==
    ASSUME NEW a \in Int, NEW b \in Int, NEW c \in Int
    PROVE  LET m == Pick!Max({a, b, c}) IN m \in {a, b, c} /\ m >= a /\ m >= b /\ m >= c
<1>1. \E x \in {a, b, c} : \A y \in {a, b, c} : x >= y
  <2>1. CASE a >= b /\ a >= c
    BY <2>1
  <2>2. CASE b >= a /\ b >= c
    BY <2>2
  <2>3. CASE c >= a /\ c >= b
    BY <2>3
  <2> QED
    BY <2>1, <2>2, <2>3
<1> DEFINE Z == {a, b, c}
<1>2. Pick!Max(Z) \in Z /\ \A y \in Z : Pick!Max(Z) >= y
  <2>1. PICK x \in Z : \A y \in Z : x >= y
    BY <1>1
  <2> HIDE DEF Z
  <2> QED
    BY <2>1, LargestIs
<1> QED
  BY <1>2

\* tail.rs: what is inspected are the lines after some offset, and all of them when
\* the file is read from its beginning and is short.
TailFrom(rs, t, o) ==
    /\ o \in 0 .. Len(rs) /\ Len(t) = Len(rs) - o
    /\ t = [i \in 1 .. Len(rs) - o |-> rs[o + i]]

LEMMA TailIs ==
    ASSUME NEW R, NEW rs \in Seq(R), NEW start \in Nat
    PROVE  \E o : /\ TailFrom(rs, Pick!Tail200(rs, start), o)
                  /\ start = 0 /\ Len(rs) <= TailLines => o = 0
<1> DEFINE n == Len(rs)
           read == SubSeq(rs, start + 1, n)
           skip == Pick!Max({0, Len(read) - TailLines})
           t == Pick!Tail200(rs, start)
<1>1. n \in Nat /\ TailLines \in Nat
  BY SearchesAssumption DEF Pick!PickupAssumption
<1>2. CASE start > n
  <2>1. read = << >>
    BY <1>1, <1>2
  <2>2. Len(read) = 0
    <3> HIDE DEF read
    <3> QED
      BY <2>1
  <2>3. skip = 0
    BY <1>1, <2>2, MaxOfTwo
  <2>4. t = << >>
    BY <2>1, <2>2, <2>3 DEF Pick!Tail200
  <2>5. TailFrom(rs, t, n)
    <3>1. n - n = 0 /\ n \in 0 .. n
      BY <1>1
    <3>2. << >> = [i \in 1 .. 0 |-> rs[n + i]] /\ Len(<< >>) = 0
      OBVIOUS
    <3> HIDE DEF n, t
    <3>3. t = [i \in 1 .. n - n |-> rs[n + i]] /\ Len(t) = n - n
      BY <2>4, <3>1, <3>2
    <3> QED
      BY <3>1, <3>3 DEF TailFrom, n
  <2> QED
    BY <1>1, <1>2, <2>5
<1>3. CASE start <= n
  <2>1. read \in Seq(R) /\ Len(read) = n - start /\ \A i \in 1 .. n - start : read[i] = rs[start + i]
    BY <1>1, <1>3
  <2>2. skip \in 0 .. n - start /\ (n - start <= TailLines => skip = 0)
    BY <1>1, <1>3, <2>1, MaxOfTwo
  <2>3. t = SubSeq(read, skip + 1, n - start)
    BY <2>1 DEF Pick!Tail200
  <2>4. Len(t) = n - start - skip /\ t = [i \in 1 .. n - start - skip |-> read[skip + i]]
    <3> HIDE DEF read, skip, t, n
    <3> QED
      BY <1>1, <1>3, <2>1, <2>2, <2>3
  <2>5. t = [i \in 1 .. n - (start + skip) |-> rs[(start + skip) + i]]
    <3>1. n - start - skip = n - (start + skip)
      BY <1>1, <1>3, <2>2
    <3>2. \A i \in 1 .. n - (start + skip) : read[skip + i] = rs[(start + skip) + i]
      <4> TAKE i \in 1 .. n - (start + skip)
      <4>1. skip + i \in 1 .. n - start /\ start + (skip + i) = (start + skip) + i
        BY <1>1, <1>3, <2>2
      <4> HIDE DEF read, skip, t, n
      <4> QED
        BY <2>1, <4>1
    <3> HIDE DEF read, skip, t, n
    <3> QED
      BY <2>4, <3>1, <3>2
  <2>6. TailFrom(rs, t, start + skip)
    <3> HIDE DEF read, skip, t
    <3> QED
      BY <1>1, <1>3, <2>2, <2>4, <2>5 DEF TailFrom
  <2>7. start = 0 /\ n <= TailLines => start + skip = 0
    <3> HIDE DEF read, skip
    <3> QED
      BY <1>1, <1>3, <2>2
  <2> HIDE DEF read, skip
  <2> QED
    BY <2>6, <2>7
<1> HIDE DEF read, skip, t
<1> QED
  BY <1>1, <1>2, <1>3 DEF t

\* The last line of the tail that says something is that of the whole list.
LEMMA LastOfTail ==
    ASSUME NEW R, NEW rs \in Seq(R), NEW t, NEW o, TailFrom(rs, t, o), NEW source, NEW signal
    PROVE  LET m == Pick!LastOf(source, rs, signal)
           IN Pick!LastOf(source, t, signal) = IF m > o THEN m - o ELSE 0
<1> DEFINE n == Len(rs)
           X == Saying(source, rs, signal)
           Y == Saying(source, t, signal)
           m == Pick!LastOf(source, rs, signal)
           k == IF m > o THEN m - o ELSE 0
<1>1. n \in Nat /\ o \in 0 .. n /\ IsLast(m, n, X)
  BY LastOfIs DEF TailFrom
<1>2. DOMAIN t = 1 .. n - o /\ \A i \in 1 .. n - o : t[i] = rs[o + i]
  BY DEF TailFrom
<1>3. \A i \in 1 .. n - o : i \in Y <=> o + i \in X
  <2> TAKE i \in 1 .. n - o
  <2>1. o + i \in 1 .. n /\ DOMAIN rs = 1 .. n
    BY <1>1
  <2> QED
    BY <1>2, <2>1 DEF Saying
<1>4. Y \in SUBSET (1 .. n - o) /\ X \in SUBSET (1 .. n)
  BY <1>1, <1>2 DEF Saying
<1>5. IsLast(k, n - o, Y)
  <2> HIDE DEF X, Y, m, n
  <2>1. \A i \in Y : i \in 1 .. n - o /\ o + i \in X
    BY <1>3, <1>4
  <2>2. \A i \in Y : o + i <= m
    BY <1>1, <2>1 DEF IsLast
  <2>3. m > o => m - o \in Y
    <3> SUFFICES ASSUME m > o PROVE m - o \in Y
      OBVIOUS
    <3>1. m \in X /\ m \in 1 .. n
      BY <1>1 DEF IsLast
    <3>2. PICK i \in 1 .. n - o : i = m - o /\ o + i = m
      BY <1>1, <3>1
    <3> QED
      BY <1>3, <3>1, <3>2
  <2> QED
    BY <1>1, <2>1, <2>2, <2>3 DEF IsLast
<1>6. Pick!LastOf(source, t, signal) = Pick!Max({0} \union Y)
  BY DEF Pick!LastOf, Saying
<1>7. n - o \in Nat
  BY <1>1
<1> HIDE DEF X, Y, k, n
<1>8. Pick!Max({0} \union Y) = k
  BY <1>4, <1>5, <1>7, LastIsOne
<1> QED
  BY <1>6, <1>8 DEF k

\* Two iterations with the same steps agree as far as both go.
LEMMA IterationAgrees ==
    ASSUME NEW L \in Nat, NEW H \in Nat, L <= H, NEW X, NEW a, NEW more, NEW next, NEW f, NEW g,
           Iterates(L, X, a, more, f), Iterates(H, X, a, next, g), \A k \in 1 .. L : next[k] = more[k]
    PROVE  \A k \in 0 .. L : g[k] = f[k]
<1> DEFINE N == {k \in Nat : g[k] = f[k]}
<1>1. 0 \in N
  BY DEF Iterates
<1>2. ASSUME NEW n \in 0 .. L - 1, n \in N PROVE n + 1 \in N
  <2>1. PICK k \in 1 .. L : k = n + 1 /\ k - 1 = n /\ k \in 1 .. H
    OBVIOUS
  <2>2. f[k] = more[k][f[n]] /\ g[k] = next[k][g[n]] /\ g[n] = f[n]
    BY <1>2, <2>1 DEF Iterates
  <2>3. g[k] = f[k]
    BY <2>1, <2>2
  <2> QED
    BY <2>1, <2>3
<1>3. \A n \in 0 .. L : n \in N
  <2> HIDE DEF N
  <2> QED
    BY <1>1, <1>2, UpTo
<1> QED
  BY <1>3

\* The last value of an iteration that goes one step further.
LEMMA IterationOnce ==
    ASSUME NEW L \in Nat, NEW X, NEW a, NEW more, NEW next, NEW f, NEW g,
           Iterates(L, X, a, more, f), Iterates(L + 1, X, a, next, g), \A k \in 1 .. L : next[k] = more[k]
    PROVE  f[L] \in X /\ g[L + 1] = next[L + 1][f[L]]
<1>1. L + 1 \in Nat /\ L <= L + 1 /\ L \in 0 .. L /\ L + 1 \in 1 .. L + 1 /\ (L + 1) - 1 = L
  OBVIOUS
<1>2. g[L] = f[L]
  BY <1>1, IterationAgrees
<1> QED
  BY <1>1, <1>2 DEF Iterates

\* per_source.rs: what one record adds to a stream of Grok.
Streaming(rs, chat, X) ==
    [n \in 1 .. Len(rs) |->
        [s \in X |-> IF (rs[n].word \in {"user", "assistant"}) = chat THEN Append(s, rs[n]) ELSE s]]

LEMMA StreamIterates ==
    ASSUME NEW R, NEW rs \in Seq(R), NEW chat
    PROVE  \E f : Iterates(Len(rs), Seq(R), << >>, Streaming(rs, chat, Seq(R)), f) /\ Pick!Stream(rs, chat) = f[Len(rs)]
<1> DEFINE X == Seq(R)
           L == Len(rs)
           After(n, s) == IF (rs[n].word \in {"user", "assistant"}) = chat THEN Append(s, rs[n]) ELSE s
           Is(f) == f = [n \in 0 .. L |-> IF n = 0 THEN << >> ELSE After(n, f[n - 1])]
           more == Streaming(rs, chat, X)
<1>1. L \in Nat /\ << >> \in X /\ \A n \in 1 .. L : \A s \in X : After(n, s) \in X
  OBVIOUS
<1>2. more \in [1 .. L -> [X -> X]] /\ \A n \in 1 .. L : \A s \in X : more[n][s] = After(n, s)
  <2>1. more = [n \in 1 .. L |-> [s \in X |-> After(n, s)]]
    BY DEF Streaming
  <2> HIDE DEF X, L, After, more
  <2> QED
    BY <1>1, <2>1
<1>3. PICK f : Iterates(L, X, << >>, more, f)
  <2> HIDE DEF X, L, After, more
  <2> QED
    BY <1>1, <1>2, Iteration
<1>4. Is(f)
  <2>1. ASSUME NEW n \in 1 .. L PROVE f[n] = After(n, f[n - 1])
    <3>1. n - 1 \in 0 .. L
      BY <1>1
    <3>2. f[n - 1] \in X /\ f[n] = more[n][f[n - 1]]
      BY <1>3, <3>1 DEF Iterates
    <3> HIDE DEF X, L, After, more
    <3> QED
      BY <1>2, <3>2
  <2>2. \A n \in 0 .. L : n = 0 \/ n \in 1 .. L
    BY <1>1
  <2>3. f \in [0 .. L -> X] /\ f[0] = << >>
    BY <1>3 DEF Iterates
  <2>4. \A n \in 0 .. L : f[n] = IF n = 0 THEN << >> ELSE After(n, f[n - 1])
    <3> HIDE DEF L, After
    <3> QED
      BY <2>1, <2>2, <2>3
  <2> HIDE DEF X, L, After
  <2> QED
    BY <2>3, <2>4
<1> DEFINE upto == CHOOSE g : Is(g)
<1>5. Is(upto)
  <2> HIDE DEF Is
  <2> QED
    BY <1>4
<1>6. Pick!Stream(rs, chat) = upto[L]
  BY DEF Pick!Stream
<1> HIDE DEF upto
<1>7. upto[0] = << >> /\ \A n \in 1 .. L : upto[n] = After(n, upto[n - 1])
  <2>1. 0 \in 0 .. L /\ \A n \in 1 .. L : n \in 0 .. L /\ n # 0
    BY <1>1
  <2>2. \A n \in 0 .. L : upto[n] = IF n = 0 THEN << >> ELSE After(n, upto[n - 1])
    BY <1>5
  <2> HIDE DEF L, After
  <2> QED
    BY <2>1, <2>2
<1>8. \A n \in 0 .. L : upto[n] \in X
  <2>1. upto[0] \in X /\ \A n \in 1 .. L : upto[n - 1] \in X => upto[n] \in X
    <3> HIDE DEF X, L, After
    <3> QED
      BY <1>1, <1>7
  <2> HIDE DEF X, L, After
  <2> QED
    BY <1>1, <2>1, IterationStays
<1>9. Iterates(L, X, << >>, more, upto)
  <2>1. \A n \in 1 .. L : n - 1 \in 0 .. L
    BY <1>1
  <2>2. upto \in [0 .. L -> X]
    <3>1. upto = [n \in 0 .. L |-> IF n = 0 THEN << >> ELSE After(n, upto[n - 1])]
      BY <1>5
    <3> HIDE DEF X, L, After
    <3> QED
      BY <1>8, <3>1
  <2>3. \A n \in 1 .. L : upto[n] = more[n][upto[n - 1]]
    <3> HIDE DEF X, L, After, more
    <3> QED
      BY <1>2, <1>7, <1>8, <2>1
  <2> HIDE DEF X, L, After, more
  <2> QED
    BY <1>7, <2>2, <2>3 DEF Iterates
<1> QED
  BY <1>6, <1>9

\* per_source.rs: a stream of Grok is a part of its records, and grows with them.
LEMMA StreamAppend ==
    ASSUME NEW R, NEW rs \in Seq(R), NEW r \in R, NEW chat
    PROVE  /\ Pick!Stream(rs, chat) \in Seq(R)
           /\ Pick!Stream(Append(rs, r), chat) =
                 IF (r.word \in {"user", "assistant"}) = chat THEN Append(Pick!Stream(rs, chat), r)
                 ELSE Pick!Stream(rs, chat)
<1> DEFINE X == Seq(R)
           L == Len(rs)
           bs == Append(rs, r)
           more == Streaming(rs, chat, X)
           next == Streaming(bs, chat, X)
<1>1. L \in Nat /\ bs \in X /\ Len(bs) = L + 1 /\ bs[L + 1] = r /\ \A n \in 1 .. L : bs[n] = rs[n]
  OBVIOUS
<1>2. PICK f : Iterates(L, X, << >>, more, f) /\ Pick!Stream(rs, chat) = f[L]
  BY StreamIterates
<1>3. PICK g : Iterates(L + 1, X, << >>, next, g) /\ Pick!Stream(bs, chat) = g[L + 1]
  <2>1. \E g : Iterates(Len(bs), X, << >>, next, g) /\ Pick!Stream(bs, chat) = g[Len(bs)]
    <3> HIDE DEF bs
    <3> QED
      BY <1>1, StreamIterates
  <2> QED
    BY <1>1, <2>1
<1>4. \A k \in 1 .. L : next[k] = more[k]
  <2> HIDE DEF X, L, bs
  <2> TAKE k \in 1 .. L
  <2>1. k \in 1 .. Len(bs) /\ bs[k] = rs[k] /\ k \in 1 .. Len(rs)
    BY <1>1 DEF L
  <2> QED
    BY <2>1 DEF Streaming
<1>5. f[L] \in X /\ g[L + 1] = next[L + 1][f[L]]
  <2> HIDE DEF X, L, more, next
  <2> QED
    BY <1>1, <1>2, <1>3, <1>4, IterationOnce
<1>6. \A s \in X : next[L + 1][s] = IF (r.word \in {"user", "assistant"}) = chat THEN Append(s, r) ELSE s
  <2>1. L + 1 \in 1 .. Len(bs)
    BY <1>1
  <2> HIDE DEF X, L, bs
  <2> QED
    BY <1>1, <2>1 DEF Streaming
<1> HIDE DEF X, L, bs, next
<1> QED
  BY <1>2, <1>3, <1>5, <1>6 DEF X, bs

\* record.rs: the records of a transcript whose source has some words.
PlanIds == Nat \union {Unset}
WordRecord(W) == {Pick!Word(w) : w \in W}
CallRecord == {Pick!Call(id, items) : id \in PlanIds, items \in AgentPlan}
ResultRecord ==
    {Pick!Result(id, items, failed, named) :
        id \in PlanIds, items \in AgentPlan \union {Unset}, failed \in BOOLEAN, named \in BOOLEAN}
PickRecord(W) == WordRecord(W) \union CallRecord \union ResultRecord \union {Pick!TornLine}

\* task_state/mod.rs: what the reader of a plan may hold.
Writes == [line : Nat, items : AgentPlan]
WritesById == UNION {[D -> Writes] : D \in SUBSET Nat}
PlanStates == [confirmed : SUBSET Writes, pending : WritesById, unpaired : Seq(Writes), lines : Nat]

LEMMA PickupConstants ==
    /\ TailLines \in Nat
    /\ Unset \notin Nat /\ Unset \notin AgentPlan /\ Unset # "completed" /\ Unset # "stopped"
    /\ \A p \in AgentPlan : p \in Seq(Pick!ToSet(p))
    /\ \A s \in WorkSession :
          /\ s.words \subseteq Pick!Vocabulary(s.source) /\ Unset \notin Pick!Vocabulary(s.source)
          /\ s.source \in {"opencode", "mcode"} => s.plan = Unset
BY SearchesAssumption DEF Pick!PickupAssumption

\* A write waits for the result of its call, or no longer.
LEMMA WaitingIs ==
    ASSUME NEW f \in WritesById
    PROVE  /\ DOMAIN f \in SUBSET Nat /\ \A k \in DOMAIN f : f[k] \in Writes
           /\ \A w \in Writes, id \in Nat :
                 [k \in {id} \union DOMAIN f |-> IF k = id THEN w ELSE f[k]] \in WritesById
           /\ \A id : Pick!Without(f, id) \in WritesById
<1>1. PICK D \in SUBSET Nat : f \in [D -> Writes]
  BY DEF WritesById
<1>2. ASSUME NEW w \in Writes, NEW id \in Nat
      PROVE  [k \in {id} \union DOMAIN f |-> IF k = id THEN w ELSE f[k]] \in WritesById
  <2>1. {id} \union D \in SUBSET Nat /\ DOMAIN f = D
    BY <1>1
  <2>2. [k \in {id} \union D |-> IF k = id THEN w ELSE f[k]] \in [{id} \union D -> Writes]
    BY <1>1
  <2> QED
    BY <2>1, <2>2 DEF WritesById
<1>3. ASSUME NEW id PROVE Pick!Without(f, id) \in WritesById
  <2>1. D \ {id} \in SUBSET Nat /\ DOMAIN f = D
    BY <1>1
  <2>2. [k \in D \ {id} |-> f[k]] \in [D \ {id} -> Writes]
    BY <1>1
  <2> QED
    BY <2>1, <2>2 DEF WritesById, Pick!Without
<1> QED
  BY <1>1, <1>2, <1>3

\* A call that waits for its result, or that cannot be read or paired.
Noted(x, y, id, items) ==
    \/ y.pending = x.pending
    \/ /\ id # Unset
       /\ DOMAIN y.pending = {id} \union DOMAIN x.pending /\ y.pending[id].items = items
       /\ \A k \in DOMAIN x.pending : k # id => y.pending[k] = x.pending[k]

\* task_state/mod.rs: what the reader makes of a call
LEMMA CallIs ==
    ASSUME NEW x \in PlanStates, NEW line \in Nat, NEW id \in PlanIds, NEW items \in AgentPlan
    PROVE  LET y == Pick!ObserveCall([x EXCEPT !.lines = line], Pick!Call(id, items), line)
           IN /\ y \in PlanStates /\ y.confirmed = x.confirmed
              /\ Noted(x, y, id, items)
              /\ id \notin DOMAIN x.pending \union {Unset} => y.pending # x.pending
<1> DEFINE x1 == [x EXCEPT !.lines = line]
           r == Pick!Call(id, items)
           w == Pick!Written(line, items)
<1>1. x1 \in PlanStates /\ x1.confirmed = x.confirmed /\ x1.pending = x.pending
  BY DEF PlanStates
<1>2. r.id = id /\ r.items = items /\ items # Unset
  BY PickupConstants DEF Pick!Call
<1>3. w \in Writes
  BY DEF Pick!Written, Writes
<1> HIDE DEF x1, r, w
<1>4. CASE id = Unset
  <2>1. Pick!ObserveCall(x1, r, line) = [x1 EXCEPT !.unpaired = Append(@, w)]
    BY <1>2, <1>4 DEF Pick!ObserveCall, w
  <2>2. Append(x1.unpaired, w) \in Seq(Writes)
    BY <1>1, <1>3 DEF PlanStates
  <2> QED
    BY <1>1, <1>4, <2>1, <2>2 DEF PlanStates, Noted, x1, r
<1>5. CASE id # Unset
  <2> DEFINE more == [k \in {id} \union DOMAIN x.pending |-> IF k = id THEN w ELSE x.pending[k]]
  <2>1. Pick!ObserveCall(x1, r, line) = [x1 EXCEPT !.pending = more]
    BY <1>1, <1>2, <1>5 DEF Pick!ObserveCall, w
  <2>2. more \in WritesById
    <3>1. id \in Nat /\ x.pending \in WritesById
      BY <1>5 DEF PlanIds, PlanStates
    <3> QED
      BY <1>3, <3>1, WaitingIs
  <2> HIDE DEF more
  <2>3. [x1 EXCEPT !.pending = more] \in PlanStates
    BY <1>1, <2>2 DEF PlanStates
  <2>4. /\ DOMAIN more = {id} \union DOMAIN x.pending /\ more[id].items = items
        /\ \A k \in DOMAIN x.pending : k # id => more[k] = x.pending[k]
    BY DEF more, w, Pick!Written
  <2>5. [x1 EXCEPT !.pending = more].pending = more /\ [x1 EXCEPT !.pending = more].confirmed = x.confirmed
    BY <1>1 DEF PlanStates
  <2> QED
    BY <1>5, <2>1, <2>3, <2>4, <2>5 DEF Noted, x1, r
<1> QED
  BY <1>4, <1>5

\* and of a result.
LEMMA ResultIs ==
    ASSUME NEW x \in PlanStates, NEW line \in Nat, NEW id \in PlanIds, NEW items \in AgentPlan \union {Unset},
           NEW failed \in BOOLEAN, NEW named \in BOOLEAN
    PROVE  LET y == Pick!ObserveResult([x EXCEPT !.lines = line], Pick!Result(id, items, failed, named), line)
           IN /\ y \in PlanStates
              /\ y.pending = x.pending \/ y.pending = Pick!Without(x.pending, id)
              /\ \/ y.confirmed = x.confirmed /\ (failed \/ id \notin DOMAIN x.pending)
                 \/ /\ ~failed /\ items # Unset /\ y.confirmed = {Pick!Written(line, items)}
                 \/ /\ ~failed /\ items = Unset /\ id \in DOMAIN x.pending /\ y.confirmed = {x.pending[id]}
<1> DEFINE x1 == [x EXCEPT !.lines = line]
           r == Pick!Result(id, items, failed, named)
           w == Pick!Written(line, items)
           y == Pick!ObserveResult(x1, r, line)
<1>1. x1 \in PlanStates /\ x1.confirmed = x.confirmed /\ x1.pending = x.pending
  BY DEF PlanStates
<1>2. r.id = id /\ r.items = items /\ r.failed = failed /\ r.named = named
  BY DEF Pick!Result
<1>3. items # Unset => w \in Writes
  BY DEF Pick!Written, Writes
<1>4. Pick!Without(x.pending, id) \in WritesById /\ (id \in DOMAIN x.pending => x.pending[id] \in Writes)
  BY WaitingIs DEF PlanStates
<1>5. \/ y = x1 /\ (failed \/ id \notin DOMAIN x.pending)
      \/ /\ ~failed /\ items # Unset
         /\ y = [x1 EXCEPT !.confirmed = {w}, !.pending = Pick!Without(x.pending, id)]
      \/ /\ failed /\ items = Unset
         /\ y = [x1 EXCEPT !.confirmed = x.confirmed, !.pending = Pick!Without(x.pending, id)]
      \/ /\ ~failed /\ items = Unset /\ id \in DOMAIN x.pending
         /\ y = [x1 EXCEPT !.confirmed = {x.pending[id]}, !.pending = Pick!Without(x.pending, id)]
  <2> HIDE DEF x1, r
  <2> QED
    BY <1>1, <1>2 DEF Pick!ObserveResult, w
<1> HIDE DEF r, w, y, x1
<1>6. ASSUME NEW c \in SUBSET Writes, y = [x1 EXCEPT !.confirmed = c, !.pending = Pick!Without(x.pending, id)]
      PROVE  y \in PlanStates /\ y.confirmed = c /\ y.pending = Pick!Without(x.pending, id)
  BY <1>1, <1>4, <1>6 DEF PlanStates
<1>7. x.confirmed \in SUBSET Writes
  BY DEF PlanStates
<1>8. y \in PlanStates /\ (y.pending = x.pending \/ y.pending = Pick!Without(x.pending, id))
      /\ \/ y.confirmed = x.confirmed /\ (failed \/ id \notin DOMAIN x.pending)
         \/ ~failed /\ items # Unset /\ y.confirmed = {w}
         \/ ~failed /\ items = Unset /\ id \in DOMAIN x.pending /\ y.confirmed = {x.pending[id]}
  <2>1. CASE y = x1 /\ (failed \/ id \notin DOMAIN x.pending)
    BY <1>1, <2>1
  <2>2. CASE ~failed /\ items # Unset /\ y = [x1 EXCEPT !.confirmed = {w}, !.pending = Pick!Without(x.pending, id)]
    <3>1. {w} \in SUBSET Writes
      BY <1>3, <2>2
    <3> QED
      BY <1>6, <2>2, <3>1
  <2>3. CASE failed /\ items = Unset
             /\ y = [x1 EXCEPT !.confirmed = x.confirmed, !.pending = Pick!Without(x.pending, id)]
    BY <1>6, <1>7, <2>3
  <2>4. CASE ~failed /\ items = Unset /\ id \in DOMAIN x.pending
             /\ y = [x1 EXCEPT !.confirmed = {x.pending[id]}, !.pending = Pick!Without(x.pending, id)]
    <3>1. {x.pending[id]} \in SUBSET Writes
      BY <1>4, <2>4
    <3> QED
      BY <1>6, <2>4, <3>1
  <2> QED
    BY <1>5, <2>1, <2>2, <2>3, <2>4
<1> QED
  BY <1>8 DEF y, x1, r, w

\* task_state/mod.rs: a record leaves what the reader may hold.
LEMMA ObserveIs ==
    ASSUME NEW W, NEW r \in PickRecord(W), NEW x \in PlanStates
    PROVE  Pick!Observe(x, r) \in PlanStates
<1> DEFINE line == x.lines + 1
           x1 == [x EXCEPT !.lines = line]
<1>1. line \in Nat /\ x1 \in PlanStates
  BY DEF PlanStates
<1> HIDE DEF line
<1>2. CASE r \in CallRecord
  <2>1. PICK id \in PlanIds, items \in AgentPlan : r = Pick!Call(id, items)
    BY <1>2 DEF CallRecord
  <2>2. Pick!Observe(x, r) = Pick!ObserveCall(x1, r, line)
    BY <2>1 DEF Pick!Observe, Pick!Call, line
  <2>3. Pick!ObserveCall([x EXCEPT !.lines = line], Pick!Call(id, items), line) \in PlanStates
    BY <1>1, CallIs
  <2> QED
    BY <2>1, <2>2, <2>3
<1>3. CASE r \in ResultRecord
  <2>1. PICK id \in PlanIds, items \in AgentPlan \union {Unset}, failed \in BOOLEAN, named \in BOOLEAN :
           r = Pick!Result(id, items, failed, named)
    BY <1>3 DEF ResultRecord
  <2>2. Pick!Observe(x, r) = Pick!ObserveResult(x1, r, line)
    BY <2>1 DEF Pick!Observe, Pick!Result, line
  <2>3. Pick!ObserveResult([x EXCEPT !.lines = line], Pick!Result(id, items, failed, named), line) \in PlanStates
    BY <1>1, ResultIs
  <2> QED
    BY <2>1, <2>2, <2>3
<1>4. CASE r \in WordRecord(W) \union {Pick!TornLine}
  <2>1. r.kind \notin {"call", "result"}
    BY <1>4 DEF WordRecord, Pick!Word, Pick!TornLine
  <2>2. Pick!Observe(x, r) = x1
    BY <2>1 DEF Pick!Observe, line
  <2> QED
    BY <1>1, <2>2
<1> QED
  BY <1>2, <1>3, <1>4 DEF PickRecord

Observing(rs) == [n \in 1 .. Len(rs) |-> [x \in PlanStates |-> Pick!Observe(x, rs[n])]]

\* Nothing is read yet.
LEMMA NoWritesIs == Pick!NoWrites \in PlanStates
<1>1. << >> \in [{} -> Writes] /\ {} \in SUBSET Nat
  OBVIOUS
<1>2. << >> \in WritesById
  BY <1>1 DEF WritesById
<1> QED
  BY <1>2 DEF Pick!NoWrites, PlanStates

\* task_state/mod.rs: the records are read one after another.
LEMMA ExtractedIterates ==
    ASSUME NEW W, NEW rs \in Seq(PickRecord(W))
    PROVE  \E f : /\ Iterates(Len(rs), PlanStates, Pick!NoWrites, Observing(rs), f)
                  /\ Pick!Extracted(rs) = f[Len(rs)]
<1> DEFINE X == PlanStates
           L == Len(rs)
           a == Pick!NoWrites
           After(n, s) == Pick!Observe(s, rs[n])
           Is(f) == f = [n \in 0 .. L |-> IF n = 0 THEN a ELSE After(n, f[n - 1])]
           more == Observing(rs)
<1>1. L \in Nat /\ a \in X /\ \A n \in 1 .. L : \A s \in X : After(n, s) \in X
  <2>1. L \in Nat /\ \A n \in 1 .. L : rs[n] \in PickRecord(W)
    OBVIOUS
  <2> HIDE DEF L
  <2> QED
    BY <2>1, ObserveIs, NoWritesIs
<1> HIDE DEF a
<1>2. more \in [1 .. L -> [X -> X]] /\ \A n \in 1 .. L : \A s \in X : more[n][s] = After(n, s)
  <2>1. more = [n \in 1 .. L |-> [s \in X |-> After(n, s)]]
    BY DEF Observing
  <2> HIDE DEF X, L, After, more
  <2> QED
    BY <1>1, <2>1
<1>3. PICK f : Iterates(L, X, a, more, f)
  <2> HIDE DEF X, L, After, more
  <2> QED
    BY <1>1, <1>2, Iteration
<1>4. Is(f)
  <2>1. ASSUME NEW n \in 1 .. L PROVE f[n] = After(n, f[n - 1])
    <3>1. n - 1 \in 0 .. L
      BY <1>1
    <3>2. f[n - 1] \in X /\ f[n] = more[n][f[n - 1]]
      BY <1>3, <3>1 DEF Iterates
    <3> HIDE DEF X, L, After, more
    <3> QED
      BY <1>2, <3>2
  <2>2. \A n \in 0 .. L : n = 0 \/ n \in 1 .. L
    BY <1>1
  <2>3. f \in [0 .. L -> X] /\ f[0] = a
    BY <1>3 DEF Iterates
  <2>4. \A n \in 0 .. L : f[n] = IF n = 0 THEN a ELSE After(n, f[n - 1])
    <3> HIDE DEF L, After
    <3> QED
      BY <2>1, <2>2, <2>3
  <2> HIDE DEF X, L, After
  <2> QED
    BY <2>3, <2>4
<1> DEFINE after == CHOOSE g : Is(g)
<1>5. Is(after)
  <2> HIDE DEF Is
  <2> QED
    BY <1>4
<1>6. Pick!Extracted(rs) = after[L]
  BY DEF Pick!Extracted, a
<1> HIDE DEF after
<1>7. after[0] = a /\ \A n \in 1 .. L : after[n] = After(n, after[n - 1])
  <2>1. 0 \in 0 .. L /\ \A n \in 1 .. L : n \in 0 .. L /\ n # 0
    BY <1>1
  <2>2. \A n \in 0 .. L : after[n] = IF n = 0 THEN a ELSE After(n, after[n - 1])
    BY <1>5
  <2> HIDE DEF L, After
  <2> QED
    BY <2>1, <2>2
<1>8. \A n \in 0 .. L : after[n] \in X
  <2>1. after[0] \in X /\ \A n \in 1 .. L : after[n - 1] \in X => after[n] \in X
    <3> HIDE DEF X, L, After
    <3> QED
      BY <1>1, <1>7
  <2> HIDE DEF X, L, After
  <2> QED
    BY <1>1, <2>1, IterationStays
<1>9. Iterates(L, X, a, more, after)
  <2>1. \A n \in 1 .. L : n - 1 \in 0 .. L
    BY <1>1
  <2>2. after \in [0 .. L -> X]
    <3>1. after = [n \in 0 .. L |-> IF n = 0 THEN a ELSE After(n, after[n - 1])]
      BY <1>5
    <3> HIDE DEF X, L, After
    <3> QED
      BY <1>8, <3>1
  <2>3. \A n \in 1 .. L : after[n] = more[n][after[n - 1]]
    <3> HIDE DEF X, L, After, more
    <3> QED
      BY <1>2, <1>7, <1>8, <2>1
  <2> HIDE DEF X, L, After, more
  <2> QED
    BY <1>7, <2>2, <2>3 DEF Iterates
<1> QED
  BY <1>6, <1>9 DEF a

\* What is read of one more record.
LEMMA ExtractedAppend ==
    ASSUME NEW W, NEW rs \in Seq(PickRecord(W)), NEW r \in PickRecord(W)
    PROVE  /\ Pick!Extracted(rs) \in PlanStates
           /\ Pick!Extracted(Append(rs, r)) = Pick!Observe(Pick!Extracted(rs), r)
<1> DEFINE R == PickRecord(W)
           X == PlanStates
           a == Pick!NoWrites
           L == Len(rs)
           bs == Append(rs, r)
           more == Observing(rs)
           next == Observing(bs)
<1>0. rs \in Seq(R) /\ r \in R
  OBVIOUS
<1> HIDE DEF R
<1>1. L \in Nat /\ bs \in Seq(R) /\ Len(bs) = L + 1 /\ bs[L + 1] = r /\ \A n \in 1 .. L : bs[n] = rs[n]
  BY <1>0
<1>2. PICK f : Iterates(L, X, a, more, f) /\ Pick!Extracted(rs) = f[L]
  BY ExtractedIterates
<1>3. PICK g : Iterates(L + 1, X, a, next, g) /\ Pick!Extracted(bs) = g[L + 1]
  <2>1. \E g : Iterates(Len(bs), X, a, next, g) /\ Pick!Extracted(bs) = g[Len(bs)]
    <3> HIDE DEF bs
    <3> QED
      BY <1>1, ExtractedIterates DEF R
  <2> QED
    BY <1>1, <2>1
<1>4. \A k \in 1 .. L : next[k] = more[k]
  <2> HIDE DEF X, L, bs
  <2> TAKE k \in 1 .. L
  <2>1. k \in 1 .. Len(bs) /\ bs[k] = rs[k] /\ k \in 1 .. Len(rs)
    BY <1>1 DEF L
  <2> QED
    BY <2>1 DEF Observing
<1>5. f[L] \in X /\ g[L + 1] = next[L + 1][f[L]]
  <2> HIDE DEF X, L, more, next, a
  <2> QED
    BY <1>1, <1>2, <1>3, <1>4, IterationOnce
<1>6. \A x \in X : next[L + 1][x] = Pick!Observe(x, r)
  <2>1. L + 1 \in 1 .. Len(bs)
    BY <1>1
  <2> HIDE DEF X, L, bs
  <2> QED
    BY <1>1, <2>1 DEF Observing, X
<1> HIDE DEF X, L, bs, next
<1> QED
  BY <1>2, <1>3, <1>5, <1>6 DEF X, bs

\* SequencesExt: an element is taken out of a list.
LEMMA RemoveAtIs ==
    ASSUME NEW R, NEW s \in Seq(R), NEW i \in 1 .. Len(s)
    PROVE  /\ Pick!RemoveAt(s, i) \in Seq(R) /\ Len(Pick!RemoveAt(s, i)) = Len(s) - 1
           /\ \A j \in 1 .. Len(s) - 1 : Pick!RemoveAt(s, i)[j] = s[IF j < i THEN j ELSE j + 1]
<1> DEFINE n == Len(s)
           before == SubSeq(s, 1, i - 1)
           behind == SubSeq(s, i + 1, n)
<1>1. n \in Nat /\ i \in Int /\ 1 <= i /\ i <= n
  OBVIOUS
<1>2. before \in Seq(R) /\ Len(before) = i - 1 /\ \A j \in 1 .. i - 1 : before[j] = s[j]
  BY <1>1
<1>3. behind \in Seq(R) /\ Len(behind) = n - i /\ \A j \in 1 .. n - i : behind[j] = s[i + j]
  BY <1>1
<1>4. Pick!RemoveAt(s, i) = before \o behind
  BY DEF Pick!RemoveAt
<1> HIDE DEF before, behind, n
<1>5. before \o behind \in Seq(R) /\ Len(before \o behind) = n - 1
  <2>1. before \o behind \in Seq(R)
    BY <1>2, <1>3
  <2>2. Len(before \o behind) = Len(before) + Len(behind)
    <3>1. before \in Seq(R) /\ behind \in Seq(R)
      BY <1>2, <1>3
    <3> QED
      BY <3>1
  <2> QED
    BY <1>1, <1>2, <1>3, <2>1, <2>2
<1>6. ASSUME NEW j \in 1 .. n - 1 PROVE (before \o behind)[j] = s[IF j < i THEN j ELSE j + 1]
  <2>1. CASE j < i
    BY <1>1, <1>2, <1>3, <2>1
  <2>2. CASE ~ j < i
    <3>1. j - (i - 1) \in 1 .. n - i /\ i + (j - (i - 1)) = j + 1 /\ j > Len(before)
      BY <1>1, <1>2, <2>2
    <3>2. (before \o behind)[j] = behind[j - Len(before)]
      BY <1>1, <1>2, <1>3, <3>1
    <3> QED
      BY <1>2, <1>3, <2>2, <3>1, <3>2
  <2> QED
    BY <2>1, <2>2
<1> QED
  BY <1>4, <1>5, <1>6 DEF n

\* The writes that wait for a result.
Waits(x) == {x.pending[id] : id \in DOMAIN x.pending} \union Pick!ToSet(x.unpaired)

InOrder(x) == \A w \in Waits(x) : w.line <= x.lines

\* task_state/mod.rs: what waits after a record waited before it, or is its call.
LEMMA WaitsAre ==
    ASSUME NEW W, NEW r \in PickRecord(W), NEW x \in PlanStates, InOrder(x)
    PROVE  InOrder(Pick!Observe(x, r))
<1> DEFINE line == x.lines + 1
           x1 == [x EXCEPT !.lines = line]
           y == Pick!Observe(x, r)
<1>1. /\ x.lines \in Nat /\ line = x.lines + 1 /\ x1 \in PlanStates /\ x1.lines = line
      /\ x1.pending = x.pending /\ x1.unpaired = x.unpaired /\ x.unpaired \in Seq(Writes) /\ x.pending \in WritesById
  BY DEF PlanStates
<1>2. Waits(x) \subseteq Writes
  <2>1. Pick!ToSet(x.unpaired) \subseteq Writes
    BY <1>1 DEF Pick!ToSet
  <2> QED
    BY <1>1, <2>1, WaitingIs DEF Waits
<1> DEFINE added == Pick!Written(line, r.items)
<1>3. \/ y = x1
      \/ r \in CallRecord /\ y = [x1 EXCEPT !.unpaired = Append(x.unpaired, added)]
      \/ r \in CallRecord /\ y = [x1 EXCEPT !.pending = [k \in {r.id} \union DOMAIN x.pending |->
                                                    IF k = r.id THEN added ELSE x.pending[k]]]
      \/ \E c : y = [x1 EXCEPT !.confirmed = c, !.pending = Pick!Without(x.pending, r.id)]
  <2>1. CASE r.kind = "call"
    <3>1. r \in CallRecord
      BY <2>1 DEF PickRecord, WordRecord, ResultRecord, Pick!Word, Pick!Result, Pick!TornLine
    <3>2. y = Pick!ObserveCall(x1, r, line)
      BY <2>1 DEF Pick!Observe
    <3> HIDE DEF x1, y, line
    <3> QED
      BY <1>1, <3>1, <3>2 DEF Pick!ObserveCall
  <2>2. CASE r.kind = "result"
    <3>1. y = Pick!ObserveResult(x1, r, line)
      BY <2>2 DEF Pick!Observe
    <3> HIDE DEF x1, y, line
    <3> QED
      BY <1>1, <3>1 DEF Pick!ObserveResult
  <2>3. CASE r.kind \notin {"call", "result"}
    BY <2>3 DEF Pick!Observe
  <2> QED
    BY <2>1, <2>2, <2>3
<1> DEFINE Kept(z) == z.lines = line /\ \A w \in Waits(z) : w \in Waits(x) \/ (w = added /\ r \in CallRecord)
<1>4. Kept(y)
  <2>1. CASE y = x1
    <3> HIDE DEF x1, line, y
    <3> QED
      BY <1>1, <2>1 DEF Waits
  <2>2. CASE r \in CallRecord /\ y = [x1 EXCEPT !.unpaired = Append(x.unpaired, added)]
    <3> HIDE DEF y, line
    <3>1. y.unpaired = Append(x.unpaired, added) /\ y.pending = x.pending /\ y.lines = line
      BY <1>1, <2>2 DEF PlanStates
    <3>2. added \in Writes
      BY <1>1, <2>2, PickupConstants DEF added, Pick!Written, Writes, CallRecord, Pick!Call, line
    <3>3. \A w \in Pick!ToSet(Append(x.unpaired, added)) : w \in Pick!ToSet(x.unpaired) \/ w = added
      BY <1>1, <3>2 DEF Pick!ToSet
    <3> QED
      BY <2>2, <3>1, <3>3 DEF Waits
  <2>3. CASE r \in CallRecord /\ y = [x1 EXCEPT !.pending = [k \in {r.id} \union DOMAIN x.pending |->
                                                    IF k = r.id THEN added ELSE x.pending[k]]]
    <3> DEFINE more == [k \in {r.id} \union DOMAIN x.pending |-> IF k = r.id THEN added ELSE x.pending[k]]
    <3>1. \A k \in DOMAIN more : more[k] = added \/ (k \in DOMAIN x.pending /\ more[k] = x.pending[k])
      OBVIOUS
    <3> HIDE DEF y, more, line
    <3>2. y.unpaired = x.unpaired /\ y.pending = more /\ y.lines = line
      BY <1>1, <2>3 DEF PlanStates, more
    <3> QED
      BY <2>3, <3>1, <3>2 DEF Waits
  <2>4. CASE \E c : y = [x1 EXCEPT !.confirmed = c, !.pending = Pick!Without(x.pending, r.id)]
    <3> HIDE DEF y, line
    <3>1. y.unpaired = x.unpaired /\ y.pending = Pick!Without(x.pending, r.id) /\ y.lines = line
      BY <1>1, <2>4 DEF PlanStates
    <3> QED
      BY <3>1 DEF Waits, Pick!Without
  <2> QED
    BY <1>3, <2>1, <2>2, <2>3, <2>4
<1>5. added.line = line
  BY DEF Pick!Written
<1> HIDE DEF y, line, added
<1>6. ASSUME NEW w \in Waits(y) PROVE w.line <= y.lines
  <2>1. CASE w \in Waits(x)
    <3>1. w.line \in Nat /\ w.line <= x.lines
      BY <1>2, <2>1 DEF Writes, InOrder
    <3> QED
      BY <1>1, <1>4, <3>1
  <2>2. CASE w = added
    BY <1>1, <1>4, <1>5, <2>2
  <2> QED
    BY <1>4, <2>1, <2>2
<1> QED
  BY <1>6 DEF InOrder, y

\* Calls of the tool that have no result yet.
OpenCall == [id : PlanIds, items : AgentPlan]

\* task_state/mod.rs: what the reader of n records holds is of the calls without a
\* result and of the plans that took effect; when it can pair them all, it holds
\* each call and the plan that took effect last.
PlanHeld(x, n, clean, done, open) ==
    /\ DOMAIN x.pending \subseteq 1 .. n
    /\ \A i \in DOMAIN open : open[i].id # Unset => open[i].id \in 1 .. n
    /\ \A i, j \in DOMAIN open : i # j /\ open[i].id # Unset => open[i].id # open[j].id
    /\ \A i \in DOMAIN open : open[i].id \in DOMAIN x.pending => x.pending[open[i].id].items = open[i].items
    /\ \A w \in x.confirmed : w.items \in Pick!ToSet(done)
    /\ clean => /\ \A i \in DOMAIN open : open[i].id \in DOMAIN x.pending
                /\ done # << >> => x.confirmed # {} /\ \A w \in x.confirmed : w.items = Pick!Last(done)

\* A record that says nothing of the plan.
LEMMA HeldOn ==
    ASSUME NEW x, NEW y, y.pending = x.pending, y.confirmed = x.confirmed, NEW n \in Nat,
           NEW clean, NEW still, still => clean, NEW done, NEW open, PlanHeld(x, n, clean, done, open)
    PROVE  PlanHeld(y, n + 1, still, done, open)
<1>1. 1 .. n \subseteq 1 .. n + 1
  OBVIOUS
<1> QED
  BY <1>1 DEF PlanHeld

\* A call that no result has, with an id of its own or without.
LEMMA HeldCall ==
    ASSUME NEW x, NEW y, y.confirmed = x.confirmed, NEW n \in Nat,
           NEW id \in {n + 1, Unset}, NEW items \in AgentPlan, Noted(x, y, id, items),
           NEW clean, NEW still, still => clean /\ id # Unset /\ y.pending # x.pending,
           NEW done, NEW open \in Seq(OpenCall), PlanHeld(x, n, clean, done, open)
    PROVE  /\ PlanHeld(y, n + 1, still, done, Append(open, [id |-> id, items |-> items]))
           /\ Append(open, [id |-> id, items |-> items]) \in Seq(OpenCall)
<1> DEFINE m == Len(open)
           call == [id |-> id, items |-> items]
           more == Append(open, call)
<1>1. /\ m \in Nat /\ DOMAIN more = 1 .. m + 1 /\ DOMAIN open = 1 .. m
      /\ \A i \in 1 .. m : more[i] = open[i] /\ more[m + 1] = call
  OBVIOUS
<1>2. \A i \in 1 .. m + 1 : i \in 1 .. m \/ i = m + 1
  BY <1>1
<1>3. call.id = id /\ call.items = items /\ call \in OpenCall
  BY DEF OpenCall, PlanIds
<1>4. more \in Seq(OpenCall)
  BY <1>3
<1>5. n + 1 \notin 1 .. n /\ 1 .. n \subseteq 1 .. n + 1 /\ n + 1 \in 1 .. n + 1 /\ Unset \notin 1 .. n /\ Unset \notin 1 .. n + 1
  BY PickupConstants
<1>6. /\ DOMAIN x.pending \subseteq 1 .. n
      /\ \A i \in 1 .. m : open[i].id # Unset => open[i].id \in 1 .. n
      /\ \A i, j \in 1 .. m : i # j /\ open[i].id # Unset => open[i].id # open[j].id
      /\ \A i \in 1 .. m : open[i].id \in DOMAIN x.pending => x.pending[open[i].id].items = open[i].items
      /\ \A w \in x.confirmed : w.items \in Pick!ToSet(done)
      /\ clean => /\ \A i \in 1 .. m : open[i].id \in DOMAIN x.pending
                  /\ done # << >> => x.confirmed # {} /\ \A w \in x.confirmed : w.items = Pick!Last(done)
  BY <1>1 DEF PlanHeld
<1>7. more[m + 1] = call /\ m + 1 \notin 1 .. m
  BY <1>1
<1> HIDE DEF m, call, more
<1>9. \A i, j \in DOMAIN more : i # j /\ more[i].id # Unset => more[i].id # more[j].id
  BY <1>1, <1>2, <1>3, <1>5, <1>6, <1>7
<1>10. \A i \in DOMAIN more : more[i].id # Unset => more[i].id \in 1 .. n + 1
  BY <1>1, <1>2, <1>3, <1>5, <1>6, <1>7
<1>11. CASE y.pending = x.pending
  <2>1. \A i \in DOMAIN more : more[i].id \in DOMAIN y.pending => y.pending[more[i].id].items = more[i].items
    BY <1>1, <1>2, <1>3, <1>5, <1>6, <1>7, <1>11
  <2> QED
    BY <1>4, <1>5, <1>6, <1>9, <1>10, <1>11, <2>1 DEF PlanHeld, more, call
<1>12. CASE /\ id # Unset
            /\ DOMAIN y.pending = {id} \union DOMAIN x.pending /\ y.pending[id].items = items
            /\ \A k \in DOMAIN x.pending : k # id => y.pending[k] = x.pending[k]
  <2>1. DOMAIN y.pending = {n + 1} \union DOMAIN x.pending /\ y.pending[n + 1].items = items
        /\ \A k \in DOMAIN x.pending : y.pending[k] = x.pending[k]
    BY <1>5, <1>6, <1>12
  <2>2. \A i \in 1 .. m + 1 : more[i].id \in DOMAIN y.pending => y.pending[more[i].id].items = more[i].items
    <3> TAKE i \in 1 .. m + 1
    <3>1. CASE i \in 1 .. m
      BY <1>1, <1>5, <1>6, <2>1, <3>1
    <3>2. CASE i = m + 1
      BY <1>3, <1>7, <1>12, <2>1, <3>2
    <3> QED
      BY <1>2, <3>1, <3>2
  <2>3. still => \A i \in 1 .. m + 1 : more[i].id \in DOMAIN y.pending
    BY <1>1, <1>2, <1>3, <1>6, <1>7, <1>12, <2>1
  <2> QED
    BY <1>1, <1>4, <1>5, <1>6, <1>9, <1>10, <2>1, <2>2, <2>3 DEF PlanHeld, more, call
<1> QED
  BY <1>11, <1>12 DEF Noted

\* The calls that are left without one of them.
LEMMA FewerCalls ==
    ASSUME NEW open \in Seq(OpenCall), NEW i \in 1 .. Len(open)
    PROVE  /\ Pick!RemoveAt(open, i) \in Seq(OpenCall)
           /\ \A j \in DOMAIN Pick!RemoveAt(open, i) :
                 \E k \in DOMAIN open \ {i} : Pick!RemoveAt(open, i)[j] = open[k]
           /\ \A j, l \in DOMAIN Pick!RemoveAt(open, i) : j # l =>
                 \E k, h \in DOMAIN open : /\ k # h /\ Pick!RemoveAt(open, i)[j] = open[k]
                                           /\ Pick!RemoveAt(open, i)[l] = open[h]
<1> DEFINE m == Len(open)
           less == Pick!RemoveAt(open, i)
           from(j) == IF j < i THEN j ELSE j + 1
<1>1. m \in Nat /\ DOMAIN open = 1 .. m /\ i \in 1 .. m
  OBVIOUS
<1>2. less \in Seq(OpenCall) /\ Len(less) = m - 1 /\ \A j \in 1 .. m - 1 : less[j] = open[from(j)]
  BY RemoveAtIs
<1>3. DOMAIN less = 1 .. m - 1
  BY <1>2
<1>4. /\ \A j \in 1 .. m - 1 : from(j) \in (1 .. m) \ {i}
      /\ \A j, l \in 1 .. m - 1 : j # l => from(j) # from(l)
  BY <1>1
<1> HIDE DEF m, less, from
<1>5. \A j \in DOMAIN less : \E k \in DOMAIN open \ {i} : less[j] = open[k]
  BY <1>1, <1>2, <1>3, <1>4
<1>6. \A j, l \in DOMAIN less : j # l =>
         \E k, h \in DOMAIN open : k # h /\ less[j] = open[k] /\ less[l] = open[h]
  BY <1>1, <1>2, <1>3, <1>4
<1> QED
  BY <1>2, <1>5, <1>6 DEF less

\* What is held and the plans that took effect, with a result of the plan.
Took(x, y, id, items, done, after, still) ==
    \/ after = done /\ y.confirmed = x.confirmed
    \/ /\ after = Append(done, items)
       /\ \/ y.confirmed = x.confirmed /\ (still => id \notin DOMAIN x.pending)
          \/ y.confirmed # {} /\ \A w \in y.confirmed : w.items = items

\* A call that has its result, or whose result cannot be read.
LEMMA HeldResult ==
    ASSUME NEW x, NEW y, NEW n \in Nat, NEW clean, NEW still, still => clean,
           NEW done \in Seq(AgentPlan), NEW after,
           NEW open \in Seq(OpenCall), NEW i \in 1 .. Len(open),
           y.pending = x.pending \/ y.pending = Pick!Without(x.pending, open[i].id),
           Took(x, y, open[i].id, open[i].items, done, after, still),
           PlanHeld(x, n, clean, done, open)
    PROVE  PlanHeld(y, n + 1, still, after, Pick!RemoveAt(open, i))
<1> DEFINE less == Pick!RemoveAt(open, i)
           id == open[i].id
           items == open[i].items
<1>1. /\ \A j \in DOMAIN less : \E k \in DOMAIN open \ {i} : less[j] = open[k]
      /\ \A j, l \in DOMAIN less : j # l => \E k, h \in DOMAIN open : k # h /\ less[j] = open[k] /\ less[l] = open[h]
  BY FewerCalls
<1>2. i \in DOMAIN open /\ items \in AgentPlan
  <2>1. i \in DOMAIN open /\ open[i] \in OpenCall
    OBVIOUS
  <2> QED
    BY <2>1 DEF OpenCall
<1>3. /\ DOMAIN y.pending \subseteq DOMAIN x.pending
      /\ \A k \in DOMAIN x.pending : k # id => k \in DOMAIN y.pending
      /\ \A k \in DOMAIN y.pending : y.pending[k] = x.pending[k]
  BY DEF Pick!Without
<1>4. 1 .. n \subseteq 1 .. n + 1 /\ Unset \notin 1 .. n
  BY PickupConstants
<1>5. after = Append(done, items) =>
         Pick!ToSet(done) \subseteq Pick!ToSet(after) /\ items \in Pick!ToSet(after) /\ Pick!Last(after) = items
  <2> SUFFICES ASSUME after = Append(done, items)
               PROVE  Pick!ToSet(done) \subseteq Pick!ToSet(after) /\ items \in Pick!ToSet(after) /\ Pick!Last(after) = items
    OBVIOUS
  <2> HIDE DEF items
  <2>1. /\ Len(after) = Len(done) + 1 /\ after[Len(done) + 1] = items /\ DOMAIN after = 1 .. Len(done) + 1
        /\ Len(done) \in Nat /\ DOMAIN done = 1 .. Len(done)
        /\ \A k \in 1 .. Len(done) : after[k] = done[k]
    BY <1>2
  <2> DEFINE m == Len(done)
  <2>2. m \in Nat /\ Len(after) = m + 1 /\ after[m + 1] = items /\ DOMAIN after = 1 .. m + 1
        /\ DOMAIN done = 1 .. m /\ \A k \in 1 .. m : after[k] = done[k]
    BY <2>1
  <2> HIDE DEF m
  <2>3. m + 1 \in 1 .. m + 1 /\ \A k \in 1 .. m : k \in 1 .. m + 1
    BY <2>2
  <2> QED
    BY <2>2, <2>3 DEF Pick!ToSet, Pick!Last
<1>6. /\ DOMAIN x.pending \subseteq 1 .. n
      /\ \A k \in DOMAIN open : open[k].id # Unset => open[k].id \in 1 .. n
      /\ \A k, h \in DOMAIN open : k # h /\ open[k].id # Unset => open[k].id # open[h].id
      /\ \A k \in DOMAIN open : open[k].id \in DOMAIN x.pending => x.pending[open[k].id].items = open[k].items
      /\ \A w \in x.confirmed : w.items \in Pick!ToSet(done)
      /\ clean => /\ \A k \in DOMAIN open : open[k].id \in DOMAIN x.pending
                  /\ done # << >> => x.confirmed # {} /\ \A w \in x.confirmed : w.items = Pick!Last(done)
  BY DEF PlanHeld
<1> HIDE DEF less, items, id
<1>7. DOMAIN y.pending \subseteq 1 .. n + 1
  BY <1>3, <1>4, <1>6
<1>8. \A j \in DOMAIN less : less[j].id # Unset => less[j].id \in 1 .. n + 1
  BY <1>1, <1>4, <1>6
<1>9. \A j, l \in DOMAIN less : j # l /\ less[j].id # Unset => less[j].id # less[l].id
  BY <1>1, <1>6
<1>10. \A j \in DOMAIN less : less[j].id \in DOMAIN y.pending => y.pending[less[j].id].items = less[j].items
  BY <1>1, <1>3, <1>6
<1>11. \A w \in y.confirmed : w.items \in Pick!ToSet(after)
  BY <1>5, <1>6 DEF items, Took
<1>12. still => \A j \in DOMAIN less : less[j].id \in DOMAIN y.pending
  <2> SUFFICES ASSUME still, NEW j \in DOMAIN less PROVE less[j].id \in DOMAIN y.pending
    OBVIOUS
  <2>1. PICK k \in DOMAIN open \ {i} : less[j] = open[k]
    BY <1>1
  <2>2. open[k].id \in DOMAIN x.pending
    BY <1>6, <2>1
  <2>3. open[k].id # id
    BY <1>2, <1>4, <1>6, <2>1, <2>2 DEF id
  <2> QED
    BY <1>3, <2>1, <2>2, <2>3
<1>13. still /\ after # << >> => y.confirmed # {} /\ \A w \in y.confirmed : w.items = Pick!Last(after)
  <2>1. CASE after = done /\ y.confirmed = x.confirmed
    BY <1>6, <2>1
  <2>2. CASE after = Append(done, items)
    <3>1. still => id \in DOMAIN x.pending
      BY <1>2, <1>6 DEF id
    <3> QED
      BY <1>5, <2>2, <3>1 DEF id, items, Took
  <2> QED
    BY <2>1, <2>2 DEF items, Took
<1> QED
  BY <1>7, <1>8, <1>9, <1>10, <1>11, <1>12, <1>13 DEF PlanHeld, less

\* pickup: the plan that is reported is one that the reader holds.
LEMMA TaskStateIs ==
    ASSUME NEW rs, Pick!Extracted(rs) \in PlanStates, InOrder(Pick!Extracted(rs))
    PROVE  LET plan == Pick!TaskState(rs)
               held == Pick!Extracted(rs).confirmed
           IN \/ plan = Unset /\ held = {}
              \/ held = {} /\ plan.confirmed = FALSE /\ plan.items \in AgentPlan
              \/ \E w \in held : plan = [items |-> w.items, confirmed |-> TRUE] /\ plan.items \in AgentPlan
<1> DEFINE x == Pick!Extracted(rs)
           plan == Pick!TaskState(rs)
<1>1. x \in PlanStates /\ InOrder(x)
  OBVIOUS
<1>2. plan = IF x.confirmed # {} THEN Pick!State(CHOOSE w \in x.confirmed : TRUE, TRUE)
             ELSE IF Waits(x) = {} THEN Unset
             ELSE Pick!State(CHOOSE w \in Waits(x) : \A v \in Waits(x) : v.line <= w.line, FALSE)
  BY DEF Pick!TaskState, Waits
<1> HIDE DEF x, plan
<1>3. CASE x.confirmed # {}
  <2>1. PICK w \in x.confirmed : w = CHOOSE v \in x.confirmed : TRUE
    BY <1>3, Zenon
  <2>2. w.items \in AgentPlan
    BY <1>1 DEF PlanStates, Writes
  <2>3. plan = Pick!State(w, TRUE)
    BY <1>2, <1>3, <2>1
  <2>4. plan = [items |-> w.items, confirmed |-> TRUE]
    BY <2>3 DEF Pick!State
  <2>5. plan.items \in AgentPlan
    BY <2>2, <2>4
  <2> QED
    BY <2>1, <2>4, <2>5 DEF plan, x
<1>4. CASE x.confirmed = {} /\ Waits(x) # {}
  <2>1. Waits(x) \subseteq Writes /\ x.lines \in Nat
    <3>1. Pick!ToSet(x.unpaired) \subseteq Writes
      BY <1>1 DEF Pick!ToSet, PlanStates
    <3>2. x.pending \in WritesById /\ x.lines \in Nat
      BY <1>1 DEF PlanStates
    <3> QED
      BY <3>1, <3>2, WaitingIs DEF Waits
  <2> DEFINE back == {x.lines - w.line : w \in Waits(x)}
  <2>2. back \in SUBSET Nat /\ back # {}
    <3>1. \A w \in Waits(x) : w.line \in Nat /\ w.line <= x.lines
      BY <1>1, <2>1 DEF InOrder, Writes
    <3> QED
      BY <1>4, <2>1, <3>1
  <2>3. PICK b \in back : \A c \in back : b <= c
    <3> HIDE DEF back
    <3> QED
      BY <2>2, LeastNat
  <2>4. PICK u \in Waits(x) : b = x.lines - u.line
    OBVIOUS
  <2>5. \A v \in Waits(x) : v.line <= u.line
    <3> TAKE v \in Waits(x)
    <3>1. x.lines - v.line \in back /\ v.line \in Nat /\ u.line \in Nat
      BY <2>1 DEF Writes
    <3>2. x.lines - u.line <= x.lines - v.line
      BY <2>3, <2>4, <3>1
    <3> QED
      BY <2>1, <3>1, <3>2
  <2> DEFINE first == CHOOSE w \in Waits(x) : \A v \in Waits(x) : v.line <= w.line
  <2>6. first \in Waits(x)
    <3>1. \E w \in Waits(x) : \A v \in Waits(x) : v.line <= w.line
      BY <2>5
    <3> QED
      BY <3>1, Zenon
  <2>7. plan = Pick!State(first, FALSE)
    BY <1>2, <1>4
  <2>8. plan.items = first.items /\ plan.confirmed = FALSE
    BY <2>7 DEF Pick!State
  <2>9. first.items \in AgentPlan
    <3> HIDE DEF first
    <3> QED
      BY <2>1, <2>6 DEF Writes
  <2> QED
    BY <1>4, <2>8, <2>9 DEF plan, x
<1>5. CASE x.confirmed = {} /\ Waits(x) = {}
  BY <1>2, <1>5 DEF plan, x
<1> QED
  BY <1>3, <1>4, <1>5

\* The lines whose word is one of some.
Where(rs, V) == {i \in DOMAIN rs : rs[i].word \in V}

\* Some line of the first is after all of the second.
Later(X, Y) == \E i \in X : \A j \in Y : i > j

\* One more line.
LEMMA WhereAppend ==
    ASSUME NEW R, NEW rs \in Seq(R), NEW r \in R, NEW V
    PROVE  /\ Where(rs, V) \subseteq 1 .. Len(rs)
           /\ Where(Append(rs, r), V) = Where(rs, V) \union IF r.word \in V THEN {Len(rs) + 1} ELSE {}
<1> DEFINE n == Len(rs)
           bs == Append(rs, r)
<1>1. /\ n \in Nat /\ DOMAIN rs = 1 .. n /\ DOMAIN bs = 1 .. n + 1
      /\ bs[n + 1] = r /\ \A i \in 1 .. n : bs[i] = rs[i]
  OBVIOUS
<1>2. 1 .. n + 1 = (1 .. n) \union {n + 1}
  BY <1>1
<1> HIDE DEF n, bs
<1> QED
  BY <1>1, <1>2 DEF Where, n, bs

LEMMA LaterStep ==
    ASSUME NEW n \in Nat, NEW X \in SUBSET (1 .. n), NEW Y \in SUBSET (1 .. n), NEW a \in BOOLEAN, NEW b \in BOOLEAN, ~(a /\ b)
    PROVE  Later(X \union IF a THEN {n + 1} ELSE {}, Y \union IF b THEN {n + 1} ELSE {}) <=> (a \/ (~b /\ Later(X, Y)))
<1>1. \A i \in X \union Y : i \in Nat /\ i < n + 1
  OBVIOUS
<1>2. CASE a
  BY <1>1, <1>2 DEF Later
<1>3. CASE b
  BY <1>1, <1>3 DEF Later
<1>4. CASE ~a /\ ~b
  BY <1>4 DEF Later
<1> QED
  BY <1>2, <1>3, <1>4

\* The words of a source that mean one of some signals.
Means(source, words, A) == {w \in words : Pick!Signals(source, w) \intersect A # {}}

\* per_source.rs compares the last lines that say something.
LEMMA LaterIs ==
    ASSUME NEW W, Unset \notin W, NEW rs \in Seq(PickRecord(W)), NEW source, NEW A, NEW B
    PROVE  LET L(signal) == Pick!LastOf(source, rs, signal)
           IN Later(Where(rs, Means(source, W, A)), Where(rs, Means(source, W, B)))
              <=> \E a \in A : L(a) > 0 /\ \A b \in B : L(a) > L(b)
<1> DEFINE L(signal) == Pick!LastOf(source, rs, signal)
           n == Len(rs)
           S(signal) == Saying(source, rs, signal)
           X == Where(rs, Means(source, W, A))
           Y == Where(rs, Means(source, W, B))
<1>1. n \in Nat /\ \A a : IsLast(L(a), n, S(a)) /\ S(a) \subseteq 1 .. n
  BY LastOfIs DEF Saying
<1>2. \A i \in DOMAIN rs : rs[i].word \in W \union {Unset}
  <2> TAKE i \in DOMAIN rs
  <2>1. rs[i] \in PickRecord(W)
    OBVIOUS
  <2> QED
    BY <2>1 DEF PickRecord, WordRecord, CallRecord, ResultRecord, Pick!Word, Pick!Call, Pick!Result, Pick!TornLine
<1>3. \A i : i \in X <=> \E a \in A : i \in S(a)
  BY <1>2 DEF Where, Means, Saying
<1>4. \A i : i \in Y <=> \E b \in B : i \in S(b)
  BY <1>2 DEF Where, Means, Saying
<1> HIDE DEF L, n, S, X, Y
<1>5. ASSUME NEW i \in X, \A j \in Y : i > j PROVE \E a \in A : L(a) > 0 /\ \A b \in B : L(a) > L(b)
  <2>1. PICK a \in A : i \in S(a)
    BY <1>3
  <2>2. i \in 1 .. n /\ i <= L(a) /\ L(a) \in Nat
    BY <1>1, <2>1 DEF IsLast
  <2>3. \A b \in B : L(b) \in Nat /\ (L(b) # 0 => L(b) \in Y)
    BY <1>1, <1>4 DEF IsLast
  <2>4. \A b \in B : L(b) # 0 => i > L(b)
    BY <1>5, <2>3
  <2>5. \A b \in B : L(a) > L(b)
    <3> TAKE b \in B
    <3>1. L(b) \in Nat /\ (L(b) # 0 => i > L(b))
      BY <2>3, <2>4
    <3> QED
      BY <1>1, <2>2, <3>1
  <2> QED
    BY <1>1, <2>2, <2>5
<1>6. ASSUME NEW a \in A, L(a) > 0, \A b \in B : L(a) > L(b) PROVE \E i \in X : \A j \in Y : i > j
  <2>1. L(a) \in S(a) /\ L(a) \in 1 .. n
    BY <1>1, <1>6 DEF IsLast
  <2>2. \A j \in Y : \E b \in B : j \in 1 .. n /\ j <= L(b) /\ L(b) \in Nat
    BY <1>1, <1>4 DEF IsLast
  <2>3. \A j \in Y : L(a) > j
    BY <1>1, <1>6, <2>1, <2>2
  <2> QED
    BY <1>3, <2>1, <2>3
<1> QED
  BY <1>5, <1>6 DEF Later, L, X, Y

\* Two signals of different words are not said by one line, and one of no word by none.
LEMMA LastApart ==
    ASSUME NEW W, NEW rs \in Seq(PickRecord(W)), NEW source, NEW a, NEW b,
           Means(source, W, {a}) \intersect Means(source, W, {b}) = {}
    PROVE  Pick!LastOf(source, rs, a) = 0 \/ Pick!LastOf(source, rs, a) # Pick!LastOf(source, rs, b)
<1>1. /\ IsLast(Pick!LastOf(source, rs, a), Len(rs), Saying(source, rs, a))
      /\ IsLast(Pick!LastOf(source, rs, b), Len(rs), Saying(source, rs, b))
  BY LastOfIs
<1>2. ASSUME NEW i \in Saying(source, rs, a) PROVE i \notin Saying(source, rs, b)
  <2>1. rs[i] \in PickRecord(W) /\ rs[i].word # Unset
    BY DEF Saying
  <2>2. rs[i].word \in W
    BY <2>1 DEF PickRecord, WordRecord, CallRecord, ResultRecord, Pick!Word, Pick!Call, Pick!Result, Pick!TornLine
  <2> QED
    BY <2>2 DEF Saying, Means
<1> QED
  BY <1>1, <1>2 DEF IsLast

LEMMA LastNone ==
    ASSUME NEW W, NEW rs \in Seq(PickRecord(W)), NEW source, NEW a, Means(source, W, {a}) = {}
    PROVE  Pick!LastOf(source, rs, a) = 0
<1>1. IsLast(Pick!LastOf(source, rs, a), Len(rs), Saying(source, rs, a))
  BY LastOfIs
<1>2. ASSUME NEW i \in Saying(source, rs, a) PROVE FALSE
  <2>1. rs[i] \in PickRecord(W) /\ rs[i].word # Unset
    BY DEF Saying
  <2>2. rs[i].word \in W
    BY <2>1 DEF PickRecord, WordRecord, CallRecord, ResultRecord, Pick!Word, Pick!Call, Pick!Result, Pick!TornLine
  <2> QED
    BY <2>2 DEF Saying, Means
<1> QED
  BY <1>1, <1>2 DEF IsLast

\* The stores that say themselves how a session ended.
Databases == {"opencode", "mcode"}

\* The words that end a turn, and that stop it; that report a failure, and that
\* take the report back.
Ends(source, w) ==
    IF source = "antigravity" THEN Pick!StepStatus(w) = "DONE"
    ELSE Pick!Signals(source, w) \intersect {"end", "end_turn"} # {} \/ w = "succeeded"
Halts(source, w) ==
    ~Ends(source, w)
    /\ (Pick!Signals(source, w) \intersect {"abort", "start", "failed", "tool_use"} # {} \/ w \in {"interrupted", "aborted"})
Fails(source, w) ==
    IF source \in Databases THEN w \in {"failed", "error"}
    ELSE Pick!Signals(source, w) \intersect {"fail", "exit"} # {}
Fixes(source, w) ==
    ~Fails(source, w)
    /\ \/ source \in Databases
       \/ Pick!Signals(source, w) \intersect {"ok", "exit_0"} # {}
       \/ source = "codex" /\ Ends(source, w)

\* The last step of Antigravity and the last message of a database say alone how
\* the work stands.
Sole == Databases \union {"antigravity"}

Concluding(source, W) == {w \in W : Ends(source, w)}
Halting(source, W) == {w \in W : Halts(source, w)}
NotEnding(source, W) == IF source \in Sole THEN W \ Concluding(source, W) ELSE Halting(source, W)
NotHalting(source, W) == IF source \in Sole THEN W \ Halting(source, W) ELSE Concluding(source, W)
Failing(source, W) == {w \in W : Fails(source, w)}
Fixing(source, W) == {w \in W : Fixes(source, w)}

Truths == [asked : BOOLEAN, ended : {"completed", "stopped", Unset}, failing : BOOLEAN]

\* What is open in a session, of the streams that tell of the talk and of the work.
TruthIs(source, W, talk, work, t) ==
    /\ t \in Truths
    /\ t.asked <=> Later(Where(talk, Means(source, W, {"user"})), Where(talk, Means(source, W, {"assistant"})))
    /\ t.ended = "completed" <=> Later(Where(work, Concluding(source, W)), Where(work, NotEnding(source, W)))
    /\ t.ended = "stopped" <=> Later(Where(work, Halting(source, W)), Where(work, NotHalting(source, W)))
    /\ t.failing <=> Later(Where(work, Failing(source, W)), Where(work, Fixing(source, W)))

\* Says of a word.
Told(source, w, t) ==
    [asked |-> IF "user" \in Pick!Signals(source, w) THEN TRUE
               ELSE IF "assistant" \in Pick!Signals(source, w) THEN FALSE ELSE t.asked,
     ended |-> IF Ends(source, w) THEN "completed" ELSE IF Halts(source, w) THEN "stopped"
               ELSE IF source \in Sole THEN Unset ELSE t.ended,
     failing |-> IF Fails(source, w) THEN TRUE ELSE IF Fixes(source, w) THEN FALSE ELSE t.failing]

\* A word that asks does not answer.
LEMMA AskOrTell ==
    ASSUME NEW source, NEW w
    PROVE  ~("user" \in Pick!Signals(source, w) /\ "assistant" \in Pick!Signals(source, w))
BY DEF Pick!Signals

\* A stream, with a word or without one that says nothing in it.
Onward(rs, w, on, V) == on = Append(rs, Pick!Word(w)) \/ (on = rs /\ w \notin V)

LEMMA WhereOnward ==
    ASSUME NEW W, NEW rs \in Seq(PickRecord(W)), NEW w \in W, NEW V, NEW on, Onward(rs, w, on, V)
    PROVE  /\ Where(rs, V) \in SUBSET (1 .. Len(rs))
           /\ Where(on, V) = Where(rs, V) \union IF w \in V THEN {Len(rs) + 1} ELSE {}
<1>1. Pick!Word(w) \in PickRecord(W) /\ Pick!Word(w).word = w
  BY DEF PickRecord, WordRecord, Pick!Word
<1>2. /\ Where(rs, V) \subseteq 1 .. Len(rs)
      /\ Where(Append(rs, Pick!Word(w)), V) = Where(rs, V) \union IF Pick!Word(w).word \in V THEN {Len(rs) + 1} ELSE {}
  BY <1>1, WhereAppend
<1> QED
  BY <1>1, <1>2 DEF Onward

\* Of two kinds of words the last one counts.
LEMMA LaterOnward ==
    ASSUME NEW W, NEW rs \in Seq(PickRecord(W)), NEW w \in W, NEW U, NEW V, NEW on,
           Onward(rs, w, on, U), Onward(rs, w, on, V), ~(w \in U /\ w \in V)
    PROVE  Later(Where(on, U), Where(on, V)) <=> (w \in U \/ (w \notin V /\ Later(Where(rs, U), Where(rs, V))))
<1> DEFINE n == Len(rs)
           X == Where(rs, U)
           Y == Where(rs, V)
           a == w \in U
           b == w \in V
<1>1. n \in Nat /\ a \in BOOLEAN /\ b \in BOOLEAN /\ ~(a /\ b)
  OBVIOUS
<1>2. X \in SUBSET (1 .. n) /\ Where(on, U) = X \union IF a THEN {n + 1} ELSE {}
  BY WhereOnward
<1>3. Y \in SUBSET (1 .. n) /\ Where(on, V) = Y \union IF b THEN {n + 1} ELSE {}
  BY WhereOnward
<1> HIDE DEF n, X, Y, a, b
<1>4. Later(X \union IF a THEN {n + 1} ELSE {}, Y \union IF b THEN {n + 1} ELSE {}) <=> (a \/ (~b /\ Later(X, Y)))
  BY <1>1, <1>2, <1>3, LaterStep
<1>5. Later(Where(on, U), Where(on, V)) <=> (a \/ (~b /\ Later(X, Y)))
  BY <1>2, <1>3, <1>4
<1> QED
  BY <1>5 DEF a, b, X, Y

\* The stream of the work, with a word or without one that says nothing of it.
WorkOn(source, work, w, on) ==
    \/ on = Append(work, Pick!Word(w))
    \/ /\ on = work /\ source \notin Sole
       /\ ~Ends(source, w) /\ ~Halts(source, w) /\ ~Fails(source, w) /\ ~Fixes(source, w)

\* The last word of the session tells what is open in it.
LEMMA TruthOnward ==
    ASSUME NEW source, NEW W, NEW talk \in Seq(PickRecord(W)), NEW work \in Seq(PickRecord(W)), NEW w \in W,
           NEW talk2, NEW work2, NEW t, TruthIs(source, W, talk, work, t),
           Onward(talk, w, talk2, Means(source, W, {"user", "assistant"})), WorkOn(source, work, w, work2)
    PROVE  TruthIs(source, W, talk2, work2, Told(source, w, t))
<1> DEFINE A == Means(source, W, {"user"})
           B == Means(source, W, {"assistant"})
           G == Concluding(source, W)
           NE == NotEnding(source, W)
           H == Halting(source, W)
           NH == NotHalting(source, W)
           F == Failing(source, W)
           X == Fixing(source, W)
           t2 == Told(source, w, t)
<1>1. /\ w \in A <=> "user" \in Pick!Signals(source, w)
      /\ w \in B <=> "assistant" \in Pick!Signals(source, w)
  BY DEF Means
<1>2. /\ w \in G <=> Ends(source, w)
      /\ w \in H <=> Halts(source, w)
      /\ w \in NE <=> IF source \in Sole THEN ~Ends(source, w) ELSE Halts(source, w)
      /\ w \in NH <=> IF source \in Sole THEN ~Halts(source, w) ELSE Ends(source, w)
      /\ w \in F <=> Fails(source, w)
      /\ w \in X <=> Fixes(source, w)
  BY DEF Concluding, NotEnding, Halting, NotHalting, Failing, Fixing
<1>3. ~(Ends(source, w) /\ Halts(source, w)) /\ ~(Fails(source, w) /\ Fixes(source, w))
  BY DEF Halts, Fixes
<1>4. Onward(talk, w, talk2, A) /\ Onward(talk, w, talk2, B)
  BY DEF Onward, Means
<1>5. /\ Onward(work, w, work2, G) /\ Onward(work, w, work2, NE) /\ Onward(work, w, work2, H)
      /\ Onward(work, w, work2, NH) /\ Onward(work, w, work2, F) /\ Onward(work, w, work2, X)
  BY <1>2 DEF Onward, WorkOn
<1>6. /\ t2.asked = IF "user" \in Pick!Signals(source, w) THEN TRUE
                    ELSE IF "assistant" \in Pick!Signals(source, w) THEN FALSE ELSE t.asked
      /\ t2.ended = IF Ends(source, w) THEN "completed" ELSE IF Halts(source, w) THEN "stopped"
                    ELSE IF source \in Sole THEN Unset ELSE t.ended
      /\ t2.failing = IF Fails(source, w) THEN TRUE ELSE IF Fixes(source, w) THEN FALSE ELSE t.failing
  BY DEF Told
<1>7. t \in Truths /\ t2 \in Truths
  BY DEF TruthIs, Truths, Told
<1>8. /\ t.asked <=> Later(Where(talk, A), Where(talk, B))
      /\ t.ended = "completed" <=> Later(Where(work, G), Where(work, NE))
      /\ t.ended = "stopped" <=> Later(Where(work, H), Where(work, NH))
      /\ t.failing <=> Later(Where(work, F), Where(work, X))
  BY DEF TruthIs
<1> HIDE DEF A, B, G, NE, H, NH, F, X, t2
<1>0. Unset # "completed" /\ Unset # "stopped"
  BY PickupConstants
<1>9. t2.asked <=> Later(Where(talk2, A), Where(talk2, B))
  <2>1. ~(w \in A /\ w \in B)
    BY <1>1, AskOrTell
  <2>2. Later(Where(talk2, A), Where(talk2, B)) <=> (w \in A \/ (w \notin B /\ Later(Where(talk, A), Where(talk, B))))
    BY <1>4, <2>1, LaterOnward
  <2> QED
    BY <1>1, <1>6, <1>8, <2>2
<1>10. t2.ended = "completed" <=> Later(Where(work2, G), Where(work2, NE))
  <2>1. ~(w \in G /\ w \in NE)
    BY <1>2, <1>3
  <2>2. Later(Where(work2, G), Where(work2, NE)) <=> (w \in G \/ (w \notin NE /\ Later(Where(work, G), Where(work, NE))))
    BY <1>5, <2>1, LaterOnward
  <2>3. t2.ended = "completed" <=> Ends(source, w) \/ (w \notin NE /\ t.ended = "completed")
    BY <1>0, <1>2, <1>3, <1>6
  <2> QED
    BY <1>2, <1>8, <2>2, <2>3
<1>11. t2.ended = "stopped" <=> Later(Where(work2, H), Where(work2, NH))
  <2>1. ~(w \in H /\ w \in NH)
    BY <1>2, <1>3
  <2>2. Later(Where(work2, H), Where(work2, NH)) <=> (w \in H \/ (w \notin NH /\ Later(Where(work, H), Where(work, NH))))
    BY <1>5, <2>1, LaterOnward
  <2>3. t2.ended = "stopped" <=> Halts(source, w) \/ (w \notin NH /\ t.ended = "stopped")
    BY <1>0, <1>2, <1>3, <1>6
  <2> QED
    BY <1>2, <1>8, <2>2, <2>3
<1>12. t2.failing <=> Later(Where(work2, F), Where(work2, X))
  <2>1. ~(w \in F /\ w \in X)
    BY <1>2, <1>3
  <2>2. Later(Where(work2, F), Where(work2, X)) <=> (w \in F \/ (w \notin X /\ Later(Where(work, F), Where(work, X))))
    BY <1>5, <2>1, LaterOnward
  <2> QED
    BY <1>2, <1>6, <1>8, <2>2
<1> QED
  BY <1>7, <1>9, <1>10, <1>11, <1>12 DEF TruthIs, A, B, G, NE, H, NH, F, X, t2

\* A record without a word changes nothing of it.
LEMMA TruthStill ==
    ASSUME NEW source, NEW W, Unset \notin W, NEW talk \in Seq(PickRecord(W)), NEW work \in Seq(PickRecord(W)),
           NEW r \in PickRecord(W), r.word = Unset, NEW talk2 \in {talk, Append(talk, r)},
           NEW work2 \in {work, Append(work, r)}, NEW t, TruthIs(source, W, talk, work, t)
    PROVE  TruthIs(source, W, talk2, work2, t)
<1>1. \A V \in SUBSET W : Where(talk2, V) = Where(talk, V) /\ Where(work2, V) = Where(work, V)
  <2> TAKE V \in SUBSET W
  <2>1. r.word \notin V
    OBVIOUS
  <2>2. Where(Append(talk, r), V) = Where(talk, V)
    <3>1. Where(Append(talk, r), V) = Where(talk, V) \union IF r.word \in V THEN {Len(talk) + 1} ELSE {}
      BY WhereAppend
    <3> QED
      BY <2>1, <3>1
  <2>3. Where(Append(work, r), V) = Where(work, V)
    <3>1. Where(Append(work, r), V) = Where(work, V) \union IF r.word \in V THEN {Len(work) + 1} ELSE {}
      BY WhereAppend
    <3> QED
      BY <2>1, <3>1
  <2> QED
    BY <2>2, <2>3
<1>2. /\ \A A : Means(source, W, A) \in SUBSET W
      /\ Concluding(source, W) \in SUBSET W /\ NotEnding(source, W) \in SUBSET W
      /\ Halting(source, W) \in SUBSET W /\ NotHalting(source, W) \in SUBSET W
      /\ Failing(source, W) \in SUBSET W /\ Fixing(source, W) \in SUBSET W
  BY DEF Means, Concluding, NotEnding, Halting, NotHalting, Failing, Fixing
<1> QED
  BY <1>1, <1>2 DEF TruthIs

\* Nothing is open in a session that has not begun.
LEMMA TruthFirst ==
    ASSUME NEW source, NEW W
    PROVE  TruthIs(source, W, << >>, << >>, [asked |-> FALSE, ended |-> Unset, failing |-> FALSE])
<1>1. \A V, U : ~Later(Where(<< >>, V), Where(<< >>, U))
  BY DEF Later, Where
<1> QED
  BY <1>1, PickupConstants DEF TruthIs, Truths

\* evidence/mod.rs: what no word says, and what only words apart say.
LEMMA SignalsApart ==
    ASSUME NEW source, NEW w
    PROVE  LET s == Pick!Signals(source, w)
           IN /\ ~("end" \in s /\ s \intersect {"abort", "start", "failed", "tool_use"} # {})
              /\ ~("end_turn" \in s /\ s \intersect {"abort", "start", "failed", "tool_use"} # {})
              /\ ~(s \intersect {"fail", "exit"} # {} /\ s \intersect {"ok", "exit_0", "end", "end_turn"} # {})
BY DEF Pick!Signals

Unsaid(source) ==
    CASE source = "codex" -> {"end_turn", "tool_use", "start", "failed", "fail", "ok"}
      [] source = "claude" -> {"end", "start", "failed", "fail", "exit", "ok", "exit_0"}
      [] source = "copilot" -> {"end_turn", "tool_use", "failed", "exit", "exit_0"}
      [] source = "grok" -> {"end_turn", "tool_use", "abort", "exit", "exit_0"}
      [] OTHER -> {"end", "end_turn", "start", "failed", "tool_use", "fail", "exit", "ok", "exit_0"}

LEMMA WordsOf ==
    ASSUME NEW source, source \notin Databases, NEW w \in Pick!Vocabulary(source)
    PROVE  /\ w \notin {"succeeded", "interrupted", "aborted"}
           /\ Pick!Signals(source, w) \intersect Unsaid(source) = {}
           /\ source = "grok" /\ w \in {"user", "assistant"} => Pick!Signals(source, w) = {w}
           /\ source = "grok" /\ w \notin {"user", "assistant"} =>
                 Pick!Signals(source, w) \intersect {"user", "assistant"} = {}
           /\ source = "antigravity" => /\ w \in {"input", "answer", "cancelled", "running"}
                                        /\ "abort" \in Pick!Signals(source, w) <=> w = "cancelled"
           /\ source \notin {"codex", "claude", "copilot", "grok", "antigravity"} => "abort" \notin Pick!Signals(source, w)
<1>1. CASE source = "codex"
  <2>1. w \in {"user", "assistant", "task_complete", "turn_aborted", "exit_1", "exit_0"}
    BY <1>1 DEF Pick!Vocabulary
  <2> QED
    BY <1>1, <2>1 DEF Pick!Signals, Unsaid
<1>2. CASE source = "claude"
  <2>1. w \in {"user", "end_turn", "tool_use", "api_error", "sidechain"}
    BY <1>2 DEF Pick!Vocabulary
  <2> QED
    BY <1>2, <2>1 DEF Pick!Signals, Unsaid
<1>3. CASE source = "copilot"
  <2>1. w \in {"user", "assistant", "turn_start", "turn_end", "abort", "tool_error", "tool_success"}
    BY <1>3 DEF Pick!Vocabulary
  <2> QED
    BY <1>3, <2>1 DEF Pick!Signals, Unsaid
<1>4. CASE source = "grok"
  <2>1. w \in {"user", "assistant", "loop_started", "turn_success", "turn_error", "tool_error", "tool_success"}
    BY <1>4 DEF Pick!Vocabulary
  <2> QED
    BY <1>4, <2>1 DEF Pick!Signals, Unsaid
<1>5. CASE source = "antigravity"
  <2>1. w \in {"input", "answer", "cancelled", "running"}
    BY <1>5 DEF Pick!Vocabulary
  <2> QED
    BY <1>5, <2>1 DEF Pick!Signals, Unsaid
<1>6. CASE source \notin {"codex", "claude", "copilot", "grok", "antigravity"}
  <2>1. w \in {"user", "assistant"}
    BY <1>6 DEF Pick!Vocabulary, Databases
  <2> QED
    BY <1>6, <2>1 DEF Pick!Signals, Unsaid
<1> QED
  BY <1>1, <1>2, <1>3, <1>4, <1>5, <1>6

\* The words of the sources that tell how a turn ended.
LEMMA WordsMean ==
    ASSUME NEW source, source \notin Sole, NEW W, W \subseteq Pick!Vocabulary(source)
    PROVE  /\ Concluding(source, W) = Means(source, W, {"end", "end_turn"}) /\ NotHalting(source, W) = Concluding(source, W)
           /\ Halting(source, W) = Means(source, W, {"abort", "start", "failed", "tool_use"})
           /\ NotEnding(source, W) = Halting(source, W)
<1>1. ASSUME NEW w \in W
      PROVE  /\ Ends(source, w) <=> Pick!Signals(source, w) \intersect {"end", "end_turn"} # {}
             /\ Halts(source, w) <=> Pick!Signals(source, w) \intersect {"abort", "start", "failed", "tool_use"} # {}
  <2>1. w \notin {"succeeded", "interrupted", "aborted"} /\ source # "antigravity"
    BY WordsOf DEF Sole
  <2>2. LET s == Pick!Signals(source, w)
        IN ~(s \intersect {"end", "end_turn"} # {} /\ s \intersect {"abort", "start", "failed", "tool_use"} # {})
    BY SignalsApart
  <2> QED
    BY <2>1, <2>2 DEF Ends, Halts
<1> QED
  BY <1>1 DEF Concluding, Halting, NotEnding, NotHalting, Means

LEMMA WordsFail ==
    ASSUME NEW source, source \notin Databases, NEW W, W \subseteq Pick!Vocabulary(source)
    PROVE  /\ Failing(source, W) = Means(source, W, {"fail", "exit"})
           /\ Fixing(source, W) = Means(source, W, IF source = "codex" THEN {"ok", "exit_0", "end", "end_turn"}
                                                   ELSE {"ok", "exit_0"})
<1>1. ASSUME NEW w \in W
      PROVE  /\ Fails(source, w) <=> Pick!Signals(source, w) \intersect {"fail", "exit"} # {}
             /\ Fixes(source, w) <=>
                    Pick!Signals(source, w) \intersect
                       (IF source = "codex" THEN {"ok", "exit_0", "end", "end_turn"} ELSE {"ok", "exit_0"}) # {}
  <2>1. w \notin {"succeeded", "interrupted", "aborted"}
    BY WordsOf
  <2>2. LET s == Pick!Signals(source, w)
        IN ~(s \intersect {"fail", "exit"} # {} /\ s \intersect {"ok", "exit_0", "end", "end_turn"} # {})
    BY SignalsApart
  <2> QED
    BY <2>1, <2>2 DEF Fails, Fixes, Ends, Databases
<1> QED
  BY <1>1 DEF Failing, Fixing, Means

\* unfinished and pickup: what is said of a session is so, and of a transcript that
\* is read whole all of it is said.
VerdictIs(reasons, whole, source, t) ==
    /\ "explicit_turn_completed" \in reasons => t.ended = "completed"
    /\ "interrupted_or_cancelled" \in reasons => t.ended # "completed"
    /\ "trailing_user_request_unanswered" \in reasons => t.asked
    /\ "unresolved_tool_failure" \in reasons => t.failing
    /\ whole => /\ t.ended = "completed" => "explicit_turn_completed" \in reasons
                /\ t.ended = "stopped" => "interrupted_or_cancelled" \in reasons
                /\ t.asked /\ source \notin Databases => "trailing_user_request_unanswered" \in reasons
                /\ t.failing => "unresolved_tool_failure" \in reasons

\* The last lines of a stream, and those of its tail.
Lasts(source, rs, t, o) ==
    /\ o \in Nat
    /\ \A a : /\ Pick!LastOf(source, rs, a) \in Nat
              /\ Pick!LastOf(source, t, a) =
                    IF Pick!LastOf(source, rs, a) > o THEN Pick!LastOf(source, rs, a) - o ELSE 0

LEMMA LastsAre ==
    ASSUME NEW R, NEW rs \in Seq(R), NEW t, NEW o, TailFrom(rs, t, o), NEW source
    PROVE  Lasts(source, rs, t, o)
<1>1. o \in Nat
  BY DEF TailFrom
<1>2. ASSUME NEW a
      PROVE  /\ Pick!LastOf(source, rs, a) \in Nat
             /\ Pick!LastOf(source, t, a) =
                    IF Pick!LastOf(source, rs, a) > o THEN Pick!LastOf(source, rs, a) - o ELSE 0
  <2>1. Pick!LastOf(source, rs, a) \in Nat
    <3>1. IsLast(Pick!LastOf(source, rs, a), Len(rs), Saying(source, rs, a))
      BY LastOfIs
    <3> QED
      BY <3>1 DEF IsLast
  <2> QED
    BY <2>1, LastOfTail
<1> QED
  BY <1>1, <1>2 DEF Lasts

\* What never comes together, and what never comes.
Apart(source, rs) ==
    /\ \A a \in {"end", "end_turn"}, b \in {"abort", "start", "failed", "tool_use"} :
          Pick!LastOf(source, rs, a) = 0 \/ Pick!LastOf(source, rs, a) # Pick!LastOf(source, rs, b)
    /\ \A a \in Unsaid(source) : Pick!LastOf(source, rs, a) = 0

LEMMA AreApart ==
    ASSUME NEW source, source \notin Databases, NEW W, W \subseteq Pick!Vocabulary(source), NEW rs \in Seq(PickRecord(W))
    PROVE  Apart(source, rs)
<1>1. ASSUME NEW a \in {"end", "end_turn"}, NEW b \in {"abort", "start", "failed", "tool_use"}
      PROVE  Pick!LastOf(source, rs, a) = 0 \/ Pick!LastOf(source, rs, a) # Pick!LastOf(source, rs, b)
  <2>1. Means(source, W, {a}) \intersect Means(source, W, {b}) = {}
    BY SignalsApart DEF Means
  <2> QED
    BY <2>1, LastApart
<1>2. ASSUME NEW a \in Unsaid(source) PROVE Pick!LastOf(source, rs, a) = 0
  <2>1. Means(source, W, {a}) = {}
    BY WordsOf DEF Means
  <2> QED
    BY <2>1, LastNone
<1> QED
  BY <1>1, <1>2 DEF Apart

\* The truth, by the last lines of the whole streams.
TruthByLines(source, talk, work, t) ==
    LET A(a) == Pick!LastOf(source, talk, a)
        L(a) == Pick!LastOf(source, work, a)
    IN /\ t.asked <=> A("user") > A("assistant")
       /\ source # "antigravity" =>
             /\ t.ended = "completed" <=>
                   \E a \in {"end", "end_turn"} : L(a) > 0 /\ \A b \in {"abort", "start", "failed", "tool_use"} : L(a) > L(b)
             /\ t.ended = "stopped" <=>
                   \E a \in {"abort", "start", "failed", "tool_use"} : L(a) > 0 /\ \A b \in {"end", "end_turn"} : L(a) > L(b)
       /\ t.failing <=>
             \E a \in {"fail", "exit"} : L(a) > 0
                /\ \A b \in (IF source = "codex" THEN {"ok", "exit_0", "end", "end_turn"} ELSE {"ok", "exit_0"}) : L(a) > L(b)

LEMMA TruthByLast ==
    ASSUME NEW source, source \notin Databases, NEW W, W \subseteq Pick!Vocabulary(source), Unset \notin W,
           NEW talk \in Seq(PickRecord(W)), NEW work \in Seq(PickRecord(W)), NEW t, TruthIs(source, W, talk, work, t)
    PROVE  TruthByLines(source, talk, work, t)
<1> DEFINE A(a) == Pick!LastOf(source, talk, a)
           L(a) == Pick!LastOf(source, work, a)
           D == {"end", "end_turn"}
           H == {"abort", "start", "failed", "tool_use"}
           F == {"fail", "exit"}
           X == IF source = "codex" THEN {"ok", "exit_0", "end", "end_turn"} ELSE {"ok", "exit_0"}
           Mean(S) == Means(source, W, S)
<1>1. t.asked <=> A("user") > A("assistant")
  <2>1. t.asked <=> Later(Where(talk, Mean({"user"})), Where(talk, Mean({"assistant"})))
    BY DEF TruthIs
  <2>2. Later(Where(talk, Mean({"user"})), Where(talk, Mean({"assistant"})))
        <=> \E a \in {"user"} : A(a) > 0 /\ \A b \in {"assistant"} : A(a) > A(b)
    BY LaterIs
  <2>3. A("user") \in Nat /\ A("assistant") \in Nat
    BY LastOfIs DEF IsLast
  <2> QED
    BY <2>1, <2>2, <2>3
<1>2. ASSUME source # "antigravity"
      PROVE  /\ t.ended = "completed" <=> \E a \in D : L(a) > 0 /\ \A b \in H : L(a) > L(b)
             /\ t.ended = "stopped" <=> \E a \in H : L(a) > 0 /\ \A b \in D : L(a) > L(b)
  <2>1. source \notin Sole
    BY <1>2 DEF Sole
  <2>2. /\ t.ended = "completed" <=> Later(Where(work, Mean(D)), Where(work, Mean(H)))
        /\ t.ended = "stopped" <=> Later(Where(work, Mean(H)), Where(work, Mean(D)))
    BY <2>1, WordsMean DEF TruthIs
  <2>3. Later(Where(work, Mean(D)), Where(work, Mean(H))) <=> \E a \in D : L(a) > 0 /\ \A b \in H : L(a) > L(b)
    BY LaterIs
  <2>4. Later(Where(work, Mean(H)), Where(work, Mean(D))) <=> \E a \in H : L(a) > 0 /\ \A b \in D : L(a) > L(b)
    BY LaterIs
  <2> HIDE DEF D, H, L, Mean
  <2> QED
    BY <2>2, <2>3, <2>4
<1>3. t.failing <=> \E a \in F : L(a) > 0 /\ \A b \in X : L(a) > L(b)
  <2>1. t.failing <=> Later(Where(work, Mean(F)), Where(work, Mean(X)))
    BY WordsFail DEF TruthIs
  <2>2. Later(Where(work, Mean(F)), Where(work, Mean(X))) <=> \E a \in F : L(a) > 0 /\ \A b \in X : L(a) > L(b)
    BY LaterIs
  <2> HIDE DEF F, X, L, Mean
  <2> QED
    BY <2>1, <2>2
<1> QED
  BY <1>1, <1>2, <1>3 DEF TruthByLines

\* What is left of a position in a tail.
Cut(n, o) == IF n > o THEN n - o ELSE 0

LEMMA CutIs ==
    ASSUME NEW o \in Nat, NEW a \in Nat, NEW b \in Nat
    PROVE  /\ Cut(a, o) \in Nat
           /\ Cut(a, o) > Cut(b, o) <=> a > b /\ a > o
           /\ Cut(a, o) > 0 <=> a > o
           /\ o = 0 => Cut(a, o) = a
BY DEF Cut

\* evidence/mod.rs: the sources whose records name the end and the beginning of a turn.
LEMMA RecordEnded ==
    ASSUME NEW o \in Nat, NEW end \in Nat, NEW start \in Nat, NEW abort \in Nat,
           end = 0 \/ end # abort, end = 0 \/ end # start,
           NEW started, started = IF Cut(start, o) > Cut(end, o) THEN Cut(start, o) ELSE 0,
           NEW negative \in {Cut(abort, o), started, 0}, negative >= Cut(abort, o), negative >= started
    PROVE  /\ Cut(end, o) > 0 /\ Cut(end, o) >= negative => end > 0 /\ end > abort /\ end > start
           /\ negative > Cut(end, o) => ~(end > 0 /\ end > abort /\ end > start)
           /\ o = 0 => /\ end > 0 /\ end > abort /\ end > start => Cut(end, o) > 0 /\ Cut(end, o) >= negative
                       /\ (abort > 0 /\ abort > end) \/ (start > 0 /\ start > end) => negative > Cut(end, o)
BY DEF Cut

LEMMA ExitOpen ==
    ASSUME NEW o \in Nat, NEW wrong \in Nat, NEW right \in Nat, NEW end \in Nat,
           NEW exit, exit = IF Cut(wrong, o) > Cut(right, o) THEN Cut(wrong, o) ELSE 0
    PROVE  /\ exit > 0 /\ exit > Cut(end, o) => wrong > 0 /\ wrong > right /\ wrong > end
           /\ o = 0 /\ wrong > 0 /\ wrong > right /\ wrong > end => exit > 0 /\ exit > Cut(end, o)
BY DEF Cut
\* evidence/mod.rs: a source with one stream of records.
LEMMA StreamVerdict ==
    ASSUME NEW source, source \notin Sole \union {"grok"}, NEW W, W \subseteq Pick!Vocabulary(source), Unset \notin W,
           NEW rs \in Seq(PickRecord(W)), NEW t, NEW o, TailFrom(rs, t, o), NEW whole, whole => o = 0,
           NEW said, TruthIs(source, W, rs, rs, said)
    PROVE  VerdictIs(Pick!StreamReasons(source, t), whole, source, said)
<1> DEFINE L(a) == Pick!LastOf(source, rs, a)
           At(a) == Pick!LastOf(source, t, a)
           stop == Pick!Max({At("end_turn"), At("tool_use")})
           completed == IF source = "claude" THEN IF stop = At("end_turn") THEN stop ELSE 0 ELSE At("end")
           started == IF At("start") > completed THEN At("start") ELSE 0
           stopped == IF source = "claude" /\ stop # At("end_turn") THEN stop ELSE 0
           negative == Pick!Max({At("abort"), started, stopped})
           exit == IF At("exit") > At("exit_0") THEN At("exit") ELSE 0
           reasons == Pick!StreamReasons(source, t)
<1>0. source # "antigravity" /\ source # "grok" /\ source \notin Databases
  BY DEF Sole
<1>1. o \in Nat /\ \A a : L(a) \in Nat /\ At(a) = IF L(a) > o THEN L(a) - o ELSE 0
  BY LastsAre DEF Lasts
<1>2. /\ \A a \in {"end", "end_turn"}, b \in {"abort", "start", "failed", "tool_use"} : L(a) = 0 \/ L(a) # L(b)
      /\ \A a \in Unsaid(source) : L(a) = 0
  BY <1>0, AreApart DEF Apart
<1>3. /\ said.asked <=> L("user") > L("assistant")
      /\ said.ended = "completed" <=>
            \E a \in {"end", "end_turn"} : L(a) > 0 /\ \A b \in {"abort", "start", "failed", "tool_use"} : L(a) > L(b)
      /\ said.ended = "stopped" <=>
            \E a \in {"abort", "start", "failed", "tool_use"} : L(a) > 0 /\ \A b \in {"end", "end_turn"} : L(a) > L(b)
      /\ said.failing <=>
            \E a \in {"fail", "exit"} : L(a) > 0
               /\ \A b \in (IF source = "codex" THEN {"ok", "exit_0", "end", "end_turn"} ELSE {"ok", "exit_0"}) : L(a) > L(b)
  <2>1. TruthByLines(source, rs, rs, said)
    BY <1>0, TruthByLast
  <2> QED
    BY <1>0, <2>1 DEF TruthByLines
<1>4. reasons = Pick!If(completed > 0 /\ completed >= negative, "explicit_turn_completed")
                \union Pick!If(negative > completed, "interrupted_or_cancelled")
                \union Pick!If(Pick!Open(At("user"), At("assistant")), "trailing_user_request_unanswered")
                \union Pick!If(Pick!Open(exit, completed) \/ Pick!Open(At("fail"), At("ok")), "unresolved_tool_failure")
  BY <1>0 DEF Pick!StreamReasons
<1>5. /\ "explicit_turn_completed" \in reasons <=> completed > 0 /\ completed >= negative
      /\ "interrupted_or_cancelled" \in reasons <=> negative > completed
      /\ "trailing_user_request_unanswered" \in reasons <=> At("user") > 0 /\ At("user") > At("assistant")
      /\ "unresolved_tool_failure" \in reasons <=>
            (exit > 0 /\ exit > completed) \/ (At("fail") > 0 /\ At("fail") > At("ok"))
  <2> HIDE DEF At, completed, negative, exit, reasons
  <2> QED
    BY <1>4 DEF Pick!If, Pick!Open
<1>6. \A a : At(a) = Cut(L(a), o) /\ L(a) \in Nat
  BY <1>1 DEF Cut
<1>7. /\ At("user") > 0 /\ At("user") > At("assistant") => L("user") > L("assistant")
      /\ whole /\ L("user") > L("assistant") => At("user") > 0 /\ At("user") > At("assistant")
  <2> HIDE DEF L, At
  <2>1. /\ L("user") \in Nat /\ L("assistant") \in Nat /\ o \in Nat
        /\ At("user") = Cut(L("user"), o) /\ At("assistant") = Cut(L("assistant"), o)
    BY <1>1, <1>6
  <2> QED
    BY <2>1 DEF Cut
<1>8. At("end_turn") \in Int /\ At("tool_use") \in Int /\ At("abort") \in Int /\ At("start") \in Int /\ At("end") \in Int
  BY <1>1
<1>9. stop = IF At("end_turn") >= At("tool_use") THEN At("end_turn") ELSE At("tool_use")
  <2> HIDE DEF At
  <2> QED
    BY <1>8, MaxOfTwo
<1>10. completed \in Int /\ started \in Int /\ stopped \in Int
  <2> HIDE DEF At, stop
  <2> QED
    BY <1>8, <1>9
<1>11. /\ negative \in {At("abort"), started, stopped}
       /\ negative >= At("abort") /\ negative >= started /\ negative >= stopped
  <2> HIDE DEF At, started, stopped
  <2> QED
    BY <1>8, <1>10, MaxOfThree
<1> DEFINE end == L("end")
           turn == L("end_turn")
           tool == L("tool_use")
           abort == L("abort")
           start == L("start")
           fail == L("fail")
           ok == L("ok")
           wrong == L("exit")
           right == L("exit_0")
<1>12. /\ o \in Nat /\ end \in Nat /\ turn \in Nat /\ tool \in Nat /\ abort \in Nat /\ start \in Nat
       /\ fail \in Nat /\ ok \in Nat /\ wrong \in Nat /\ right \in Nat
  BY <1>1
<1>13. /\ At("abort") = Cut(abort, o) /\ At("start") = Cut(start, o) /\ At("end") = Cut(end, o)
       /\ At("end_turn") = Cut(turn, o) /\ At("tool_use") = Cut(tool, o) /\ At("exit") = Cut(wrong, o)
       /\ At("exit_0") = Cut(right, o) /\ At("fail") = Cut(fail, o) /\ At("ok") = Cut(ok, o)
  BY <1>6
<1>14. CASE source = "claude"
  <2>1. end = 0 /\ start = 0 /\ L("failed") = 0 /\ fail = 0 /\ wrong = 0 /\ ok = 0 /\ right = 0
    BY <1>2, <1>14 DEF Unsaid
  <2>2. (turn = 0 \/ turn # abort) /\ (turn = 0 \/ turn # tool)
    BY <1>2
  <2>3. /\ said.ended = "completed" <=> turn > 0 /\ turn > abort /\ turn > tool
        /\ said.ended = "stopped" <=> (abort > 0 /\ abort > turn) \/ (tool > 0 /\ tool > turn)
        /\ ~said.failing
    BY <1>3, <1>12, <1>14, <2>1
  <2>4. At("exit") = 0 /\ At("fail") = 0 /\ At("start") = 0
    BY <1>1, <2>1
  <2> HIDE DEF L, At
  <2>5. /\ completed = (IF Cut(turn, o) >= Cut(tool, o) THEN Cut(turn, o) ELSE 0)
        /\ stopped = (IF Cut(turn, o) >= Cut(tool, o) THEN 0 ELSE Cut(tool, o))
    <3> HIDE DEF turn, tool
    <3>1. Cut(turn, o) \in Nat /\ Cut(tool, o) \in Nat
      BY <1>12, CutIs
    <3> QED
      BY <1>9, <1>13, <1>14, <3>1
  <2>6. started = 0 /\ exit = 0
    <3>1. completed \in Nat
      <4> HIDE DEF completed, turn, tool
      <4> QED
        BY <1>12, <2>5, CutIs
    <3> HIDE DEF completed
    <3> QED
      BY <1>8, <1>13, <2>4, <3>1
  <2> HIDE DEF completed, started, stopped, negative, exit, end, turn, tool, abort, start, fail, ok, wrong, right
  <2>7. negative \in {Cut(abort, o), 0, stopped} /\ negative >= Cut(abort, o) /\ negative >= stopped
    BY <1>11, <1>13, <2>6
  <2>8. /\ completed > 0 /\ completed >= negative => turn > 0 /\ turn > abort /\ turn > tool
        /\ negative > completed => ~(turn > 0 /\ turn > abort /\ turn > tool)
        /\ o = 0 => /\ turn > 0 /\ turn > abort /\ turn > tool => completed > 0 /\ completed >= negative
                    /\ (abort > 0 /\ abort > turn) \/ (tool > 0 /\ tool > turn) => negative > completed
    BY <1>12, <2>2, <2>5, <2>7 DEF Cut
  <2>9. /\ "explicit_turn_completed" \in reasons => said.ended = "completed"
        /\ "interrupted_or_cancelled" \in reasons => said.ended # "completed"
        /\ whole => /\ said.ended = "completed" => "explicit_turn_completed" \in reasons
                    /\ said.ended = "stopped" => "interrupted_or_cancelled" \in reasons
    BY <1>5, <2>3, <2>8
  <2>10. "unresolved_tool_failure" \notin reasons
    BY <1>5, <2>4, <2>6
  <2> QED
    BY <1>3, <1>5, <1>7, <2>3, <2>9, <2>10 DEF VerdictIs, L, At
<1>15. CASE source # "claude"
  <2>1. turn = 0 /\ tool = 0 /\ L("failed") = 0
    BY <1>0, <1>2, <1>15 DEF Unsaid
  <2>2. (end = 0 \/ end # abort) /\ (end = 0 \/ end # start)
    BY <1>2
  <2>3. /\ said.ended = "completed" <=> end > 0 /\ end > abort /\ end > start
        /\ said.ended = "stopped" <=> (abort > 0 /\ abort > end) \/ (start > 0 /\ start > end)
    BY <1>3, <1>12, <2>1
  <2> HIDE DEF L, At
  <2>4. completed = Cut(end, o) /\ stopped = 0
        /\ started = (IF Cut(start, o) > Cut(end, o) THEN Cut(start, o) ELSE 0)
    BY <1>13, <1>15
  <2>5. exit = IF Cut(wrong, o) > Cut(right, o) THEN Cut(wrong, o) ELSE 0
    BY <1>13
  <2>6. /\ source = "codex" => fail = 0 /\ ok = 0
        /\ source # "codex" => wrong = 0 /\ right = 0
    BY <1>0, <1>2, <1>15 DEF Unsaid
  <2>7. source = "codex" => (said.failing <=> wrong > 0 /\ wrong > right /\ wrong > end)
    BY <1>3, <1>12, <2>1, <2>6
  <2>8. source # "codex" => (said.failing <=> fail > 0 /\ fail > ok)
    BY <1>3, <1>12, <2>6
  <2> HIDE DEF completed, started, stopped, negative, exit, end, turn, tool, abort, start, fail, ok, wrong, right
  <2>9. negative \in {Cut(abort, o), started, 0} /\ negative >= Cut(abort, o) /\ negative >= started
    BY <1>11, <1>13, <2>4
  <2>10. /\ Cut(end, o) > 0 /\ Cut(end, o) >= negative => end > 0 /\ end > abort /\ end > start
         /\ negative > Cut(end, o) => ~(end > 0 /\ end > abort /\ end > start)
         /\ o = 0 => /\ end > 0 /\ end > abort /\ end > start => Cut(end, o) > 0 /\ Cut(end, o) >= negative
                     /\ (abort > 0 /\ abort > end) \/ (start > 0 /\ start > end) => negative > Cut(end, o)
    BY <1>12, <2>2, <2>4, <2>9, RecordEnded
  <2>11. /\ "explicit_turn_completed" \in reasons => said.ended = "completed"
         /\ "interrupted_or_cancelled" \in reasons => said.ended # "completed"
         /\ whole => /\ said.ended = "completed" => "explicit_turn_completed" \in reasons
                     /\ said.ended = "stopped" => "interrupted_or_cancelled" \in reasons
    BY <1>5, <2>3, <2>4, <2>10
  <2>12. /\ exit > 0 /\ exit > Cut(end, o) => wrong > 0 /\ wrong > right /\ wrong > end
         /\ o = 0 /\ wrong > 0 /\ wrong > right /\ wrong > end => exit > 0 /\ exit > Cut(end, o)
    BY <1>12, <2>5, ExitOpen
  <2>13. /\ Cut(fail, o) > Cut(ok, o) <=> fail > ok /\ fail > o
         /\ Cut(fail, o) > 0 <=> fail > o
    BY <1>12, CutIs
  <2>14. /\ "unresolved_tool_failure" \in reasons => said.failing
         /\ whole /\ said.failing => "unresolved_tool_failure" \in reasons
    <3>1. "unresolved_tool_failure" \in reasons
          <=> (exit > 0 /\ exit > Cut(end, o)) \/ (Cut(fail, o) > 0 /\ Cut(fail, o) > Cut(ok, o))
      BY <1>5, <1>13, <2>4
    <3>2. CASE source = "codex"
      BY <1>12, <2>6, <2>7, <2>12, <2>13, <3>1, <3>2
    <3>3. CASE source # "codex"
      BY <1>12, <2>6, <2>8, <2>12, <2>13, <3>1, <3>3
    <3> QED
      BY <3>2, <3>3
  <2> QED
    BY <1>3, <1>5, <1>7, <2>11, <2>14 DEF VerdictIs, L, At
<1> QED
  BY <1>14, <1>15

\* per_source.rs: Grok keeps the talk and the runtime in two streams.
LEMMA GrokVerdict ==
    ASSUME NEW W, W \subseteq Pick!Vocabulary("grok"), Unset \notin W,
           NEW talk \in Seq(PickRecord(W)), NEW work \in Seq(PickRecord(W)),
           NEW tc, NEW oc, TailFrom(talk, tc, oc), NEW tr, NEW o, TailFrom(work, tr, o),
           NEW whole, whole => oc = 0 /\ o = 0, NEW said, TruthIs("grok", W, talk, work, said)
    PROVE  VerdictIs(Pick!GrokReasons(tc, tr), whole, "grok", said)
<1> DEFINE A(a) == Pick!LastOf("grok", talk, a)
           L(a) == Pick!LastOf("grok", work, a)
           Ac(a) == Pick!LastOf("grok", tc, a)
           At(a) == Pick!LastOf("grok", tr, a)
           ended == Pick!Max({At("end"), At("failed")})
           running == At("start") > ended
           reasons == Pick!GrokReasons(tc, tr)
<1>1. /\ oc \in Nat /\ o \in Nat
      /\ \A a : A(a) \in Nat /\ Ac(a) = Cut(A(a), oc) /\ L(a) \in Nat /\ At(a) = Cut(L(a), o)
  <2>1. Lasts("grok", talk, tc, oc) /\ Lasts("grok", work, tr, o)
    BY LastsAre
  <2> QED
    BY <2>1 DEF Lasts, Cut
<1>2. /\ L("end") = 0 \/ L("end") # L("failed")
      /\ L("end") = 0 \/ L("end") # L("start")
      /\ L("end_turn") = 0 /\ L("tool_use") = 0 /\ L("abort") = 0 /\ L("exit") = 0 /\ L("exit_0") = 0
  <2>1. Apart("grok", work)
    BY AreApart DEF Databases
  <2> QED
    BY <2>1 DEF Apart, Unsaid
<1>3. /\ said.asked <=> A("user") > A("assistant")
      /\ said.ended = "completed" <=> L("end") > 0 /\ L("end") > L("start") /\ L("end") > L("failed")
      /\ said.ended = "stopped" <=> \/ L("start") > 0 /\ L("start") > L("end")
                                    \/ L("failed") > 0 /\ L("failed") > L("end")
      /\ said.failing <=> L("fail") > 0 /\ L("fail") > L("ok")
  <2>1. /\ said.asked <=> A("user") > A("assistant")
        /\ said.ended = "completed" <=>
              \E a \in {"end", "end_turn"} : L(a) > 0 /\ \A b \in {"abort", "start", "failed", "tool_use"} : L(a) > L(b)
        /\ said.ended = "stopped" <=>
              \E a \in {"abort", "start", "failed", "tool_use"} : L(a) > 0 /\ \A b \in {"end", "end_turn"} : L(a) > L(b)
        /\ said.failing <=> \E a \in {"fail", "exit"} : L(a) > 0 /\ \A b \in {"ok", "exit_0"} : L(a) > L(b)
    <3>1. TruthByLines("grok", talk, work, said)
      BY TruthByLast DEF Databases
    <3> QED
      BY <3>1 DEF TruthByLines
  <2>2. \A a : L(a) \in Nat
    BY <1>1
  <2>3. L("end_turn") = 0 /\ L("tool_use") = 0 /\ L("abort") = 0 /\ L("exit") = 0 /\ L("exit_0") = 0
    BY <1>2
  <2> HIDE DEF L, A
  <2>4. (\E a \in {"end", "end_turn"} : L(a) > 0 /\ \A b \in {"abort", "start", "failed", "tool_use"} : L(a) > L(b))
        <=> L("end") > 0 /\ L("end") > L("start") /\ L("end") > L("failed")
    BY <2>2, <2>3
  <2>5. (\E a \in {"abort", "start", "failed", "tool_use"} : L(a) > 0 /\ \A b \in {"end", "end_turn"} : L(a) > L(b))
        <=> \/ L("start") > 0 /\ L("start") > L("end")
            \/ L("failed") > 0 /\ L("failed") > L("end")
    BY <2>2, <2>3
  <2>6. (\E a \in {"fail", "exit"} : L(a) > 0 /\ \A b \in {"ok", "exit_0"} : L(a) > L(b))
        <=> L("fail") > 0 /\ L("fail") > L("ok")
    BY <2>2, <2>3
  <2> QED
    BY <2>1, <2>4, <2>5, <2>6
<1>4. reasons = Pick!If(Pick!Open(Ac("user"), Ac("assistant")), "trailing_user_request_unanswered")
                \union Pick!If(running \/ (ended > 0 /\ ended = At("failed")), "interrupted_or_cancelled")
                \union Pick!If(~running /\ ended > 0 /\ ended = At("end"), "explicit_turn_completed")
                \union Pick!If(Pick!Open(At("fail"), At("ok")), "unresolved_tool_failure")
  BY DEF Pick!GrokReasons
<1>5. /\ "explicit_turn_completed" \in reasons <=> ~running /\ ended > 0 /\ ended = At("end")
      /\ "interrupted_or_cancelled" \in reasons <=> running \/ (ended > 0 /\ ended = At("failed"))
      /\ "trailing_user_request_unanswered" \in reasons <=> Ac("user") > 0 /\ Ac("user") > Ac("assistant")
      /\ "unresolved_tool_failure" \in reasons <=> At("fail") > 0 /\ At("fail") > At("ok")
  <2> HIDE DEF At, Ac, running, ended, reasons
  <2> QED
    BY <1>4 DEF Pick!If, Pick!Open
<1> DEFINE user == A("user")
           assistant == A("assistant")
           end == L("end")
           start == L("start")
           failed == L("failed")
           fail == L("fail")
           ok == L("ok")
<1>6. /\ oc \in Nat /\ o \in Nat /\ user \in Nat /\ assistant \in Nat /\ end \in Nat /\ start \in Nat /\ failed \in Nat
      /\ fail \in Nat /\ ok \in Nat
      /\ Ac("user") = Cut(user, oc) /\ Ac("assistant") = Cut(assistant, oc) /\ At("end") = Cut(end, o)
      /\ At("start") = Cut(start, o) /\ At("failed") = Cut(failed, o) /\ At("fail") = Cut(fail, o) /\ At("ok") = Cut(ok, o)
  BY <1>1
<1> HIDE DEF A, L, Ac, At, reasons
<1>7. ended = IF Cut(end, o) >= Cut(failed, o) THEN Cut(end, o) ELSE Cut(failed, o)
  <2> HIDE DEF end, failed
  <2>1. At("end") \in Int /\ At("failed") \in Int
    <3>1. Cut(end, o) \in Nat /\ Cut(failed, o) \in Nat
      BY <1>6, CutIs
    <3> QED
      BY <1>6, <3>1
  <2>2. ended = IF At("end") >= At("failed") THEN At("end") ELSE At("failed")
    BY <2>1, MaxOfTwo
  <2> QED
    BY <1>6, <2>2
<1> HIDE DEF ended
<1>8. running <=> Cut(start, o) > ended
  BY <1>6
<1> HIDE DEF running, user, assistant, end, start, failed, fail, ok
<1>9. (end = 0 \/ end # failed) /\ (end = 0 \/ end # start)
  BY <1>2 DEF end, failed, start
<1>10. /\ ~running /\ ended > 0 /\ ended = Cut(end, o) => end > 0 /\ end > start /\ end > failed
       /\ running \/ (ended > 0 /\ ended = Cut(failed, o)) => ~(end > 0 /\ end > start /\ end > failed)
       /\ o = 0 => /\ end > 0 /\ end > start /\ end > failed => ~running /\ ended > 0 /\ ended = Cut(end, o)
                   /\ (start > 0 /\ start > end) \/ (failed > 0 /\ failed > end) =>
                         running \/ (ended > 0 /\ ended = Cut(failed, o))
  BY <1>6, <1>7, <1>8, <1>9 DEF Cut
<1>11. /\ Cut(user, oc) > 0 /\ Cut(user, oc) > Cut(assistant, oc) => user > assistant
       /\ oc = 0 /\ user > assistant => Cut(user, oc) > 0 /\ Cut(user, oc) > Cut(assistant, oc)
       /\ Cut(fail, o) > 0 /\ Cut(fail, o) > Cut(ok, o) => fail > 0 /\ fail > ok
       /\ o = 0 /\ fail > 0 /\ fail > ok => Cut(fail, o) > 0 /\ Cut(fail, o) > Cut(ok, o)
  BY <1>6 DEF Cut
<1>12. /\ said.asked <=> user > assistant
       /\ said.ended = "completed" <=> end > 0 /\ end > start /\ end > failed
       /\ said.ended = "stopped" <=> (start > 0 /\ start > end) \/ (failed > 0 /\ failed > end)
       /\ said.failing <=> fail > 0 /\ fail > ok
  BY <1>3 DEF user, assistant, end, start, failed, fail, ok
<1> QED
  BY <1>5, <1>6, <1>10, <1>11, <1>12 DEF VerdictIs, reasons

\* The last of the words of a kind, when each word counts.
LEMMA LaterAlone ==
    ASSUME NEW W, NEW rs, NEW n \in Nat, NEW V \in SUBSET W, IsLast(n, Len(rs), Where(rs, W)),
           Where(rs, W) \subseteq 1 .. Len(rs)
    PROVE  Later(Where(rs, V), Where(rs, W \ V)) <=> (n > 0 /\ rs[n].word \in V)
<1>1. /\ \A i : i \in Where(rs, W) <=> i \in Where(rs, V) \/ i \in Where(rs, W \ V)
      /\ \A i : ~(i \in Where(rs, V) /\ i \in Where(rs, W \ V))
  BY DEF Where
<1>2. \A i \in Where(rs, W) : i \in Int /\ i > 0 /\ i <= n
  BY DEF IsLast
<1>3. n > 0 => n \in Where(rs, W) /\ (n \in Where(rs, V) <=> rs[n].word \in V)
  BY DEF IsLast, Where
<1>4. CASE n = 0
  <2>1. Where(rs, V) = {}
    BY <1>1, <1>2, <1>4
  <2> QED
    BY <1>4, <2>1 DEF Later
<1>5. CASE n > 0 /\ rs[n].word \in V
  <2>1. n \in Where(rs, V)
    BY <1>3, <1>5
  <2>2. \A j \in Where(rs, W \ V) : n > j
    <3> TAKE j \in Where(rs, W \ V)
    <3>1. j \in Where(rs, W) /\ j # n
      BY <1>1, <2>1
    <3>2. j \in Int /\ j <= n
      BY <1>2, <3>1
    <3> QED
      BY <3>1, <3>2
  <2> QED
    BY <1>5, <2>1, <2>2 DEF Later
<1>6. CASE n > 0 /\ rs[n].word \notin V
  <2>1. n \in Where(rs, W \ V)
    BY <1>1, <1>3, <1>6
  <2>2. \A i \in Where(rs, V) : ~(i > n)
    BY <1>1, <1>2
  <2> QED
    BY <1>6, <2>1, <2>2 DEF Later
<1> QED
  BY <1>4, <1>5, <1>6

\* per_source.rs: OpenCode and Mcode say themselves how a session ended.
LEMMA DatabaseVerdict ==
    ASSUME NEW source \in Databases, NEW W, W \subseteq Pick!Vocabulary(source), Unset \notin Pick!Vocabulary(source),
           NEW rs \in Seq(WordRecord(W)), NEW whole, NEW said, TruthIs(source, W, rs, rs, said)
    PROVE  VerdictIs(Pick!OutcomeReasons(rs), whole, source, said)
<1> DEFINE n == Len(rs)
           outcome == IF rs = << >> THEN Unset ELSE Pick!Last(rs).word
           words == {"succeeded", "failed", "error", "interrupted", "aborted", "none", "idle"}
<1>1. W \subseteq words /\ Unset \notin words /\ source # "antigravity" /\ source \in Sole
  BY DEF Pick!Vocabulary, Databases, Sole
<1>2. n \in Nat /\ DOMAIN rs = 1 .. n /\ (n = 0 <=> rs = << >>) /\ \A i \in 1 .. n : rs[i].word \in W
  <2>1. \A i \in 1 .. n : rs[i] \in WordRecord(W)
    OBVIOUS
  <2> QED
    BY <2>1 DEF WordRecord, Pick!Word
<1>3. Where(rs, W) = 1 .. n
  BY <1>2 DEF Where
<1>4. IsLast(n, n, Where(rs, W))
  BY <1>2, <1>3 DEF IsLast
<1>5. ASSUME NEW V \in SUBSET W PROVE Later(Where(rs, V), Where(rs, W \ V)) <=> outcome \in V
  <2>1. Later(Where(rs, V), Where(rs, W \ V)) <=> (n > 0 /\ rs[n].word \in V)
    BY <1>2, <1>3, <1>4, LaterAlone
  <2>2. n > 0 => outcome = rs[n].word
    BY <1>2 DEF Pick!Last
  <2>3. n = 0 => outcome = Unset /\ Unset \notin V
    BY <1>1, <1>2
  <2> HIDE DEF outcome, n
  <2> QED
    BY <1>2, <2>1, <2>2, <2>3
<1>6. ASSUME NEW w \in words PROVE Pick!Signals(source, w) = {}
  <2>1. w \notin {"user", "input", "assistant", "turn_start", "loop_started", "task_complete", "turn_end", "turn_success",
                  "turn_aborted", "abort", "cancelled", "turn_error", "tool_error", "tool_success", "exit_1", "exit_0",
                  "end_turn", "tool_use", "api_error", "answer"}
    OBVIOUS
  <2> QED
    BY <2>1 DEF Pick!Signals
<1>7. /\ Concluding(source, W) = W \intersect {"succeeded"} /\ Halting(source, W) = W \intersect {"interrupted", "aborted"}
      /\ Failing(source, W) = W \intersect {"failed", "error"} /\ Fixing(source, W) = W \ Failing(source, W)
      /\ NotEnding(source, W) = W \ Concluding(source, W) /\ NotHalting(source, W) = W \ Halting(source, W)
      /\ Means(source, W, {"user"}) = {}
  BY <1>1, <1>6 DEF Concluding, Halting, Failing, Fixing, NotEnding, NotHalting, Means, Ends, Halts, Fails, Fixes
<1>8. outcome \in words => outcome \in W
  <2>1. n > 0 => outcome = rs[n].word /\ rs[n].word \in W
    BY <1>2 DEF Pick!Last
  <2>2. n = 0 => outcome = Unset
    BY <1>2
  <2> HIDE DEF outcome, n
  <2> QED
    BY <1>1, <1>2, <2>1, <2>2
<1> HIDE DEF outcome
<1>9. /\ ~said.asked
      /\ said.ended = "completed" <=> outcome = "succeeded"
      /\ said.ended = "stopped" <=> outcome \in {"interrupted", "aborted"}
      /\ said.failing <=> outcome \in {"failed", "error"}
  <2>1. Where(rs, {}) = {} /\ ~Later({}, Where(rs, Means(source, W, {"assistant"})))
    BY DEF Where, Later
  <2>2. /\ said.ended = "completed" <=> outcome \in Concluding(source, W)
        /\ said.ended = "stopped" <=> outcome \in Halting(source, W)
        /\ said.failing <=> outcome \in Failing(source, W)
    BY <1>5, <1>7 DEF TruthIs
  <2> QED
    BY <1>7, <1>8, <2>1, <2>2 DEF TruthIs
<1>10. Pick!OutcomeReasons(rs) = Pick!If(outcome \in {"failed", "error"}, "unresolved_tool_failure")
                              \union Pick!If(outcome \in {"interrupted", "aborted"}, "interrupted_or_cancelled")
                              \union Pick!If(outcome = "succeeded", "explicit_turn_completed")
  BY DEF Pick!OutcomeReasons, outcome
<1> QED
  BY <1>9, <1>10 DEF VerdictIs, Pick!If

\* per_source.rs: the last step of Antigravity says how the work stands.
LEMMA AntigravityVerdict ==
    ASSUME NEW W, W \subseteq Pick!Vocabulary("antigravity"), Unset \notin W,
           NEW rs \in Seq(PickRecord(W)), NEW t, NEW o, TailFrom(rs, t, o), NEW whole, whole => o = 0,
           NEW said, TruthIs("antigravity", W, rs, rs, said)
    PROVE  VerdictIs(Pick!StreamReasons("antigravity", t), whole, "antigravity", said)
<1> DEFINE n == Len(rs)
           L(a) == Pick!LastOf("antigravity", rs, a)
           At(a) == Pick!LastOf("antigravity", t, a)
           steps == {i \in DOMAIN t : t[i].word # Unset}
           completed == IF steps # {} /\ Pick!StepStatus(t[Pick!Max(steps)].word) = "DONE" THEN Pick!Max(steps) ELSE 0
           started == IF At("start") > completed THEN At("start") ELSE 0
           negative == Pick!Max({At("abort"), started, 0})
           exit == IF At("exit") > At("exit_0") THEN At("exit") ELSE 0
           reasons == Pick!StreamReasons("antigravity", t)
           p == Pick!Max({0} \union Where(rs, W))
<1>1. /\ n \in Nat /\ o \in 0 .. n /\ DOMAIN rs = 1 .. n /\ DOMAIN t = 1 .. n - o
      /\ \A i \in 1 .. n - o : t[i] = rs[o + i]
  BY DEF TailFrom
<1>2. \A i \in 1 .. n : rs[i].word \in W \union {Unset}
  <2> TAKE i \in 1 .. n
  <2>1. rs[i] \in PickRecord(W)
    OBVIOUS
  <2> QED
    BY <2>1 DEF PickRecord, WordRecord, CallRecord, ResultRecord, Pick!Word, Pick!Call, Pick!Result, Pick!TornLine
<1>3. Where(rs, W) \subseteq 1 .. n /\ IsLast(p, n, Where(rs, W))
  <2>1. Where(rs, W) \in SUBSET (1 .. n)
    BY <1>1 DEF Where
  <2> QED
    BY <1>1, <2>1, LastExists
<1>4. /\ \A a : L(a) \in 0 .. n /\ At(a) = Cut(L(a), o) /\ IsLast(L(a), n, Saying("antigravity", rs, a))
      /\ \A a \in {"start", "exit", "exit_0", "fail", "ok"} : L(a) = 0
  <2>1. Lasts("antigravity", rs, t, o) /\ \A a : IsLast(L(a), n, Saying("antigravity", rs, a))
    BY LastsAre, LastOfIs
  <2>2. Apart("antigravity", rs)
    BY AreApart DEF Databases
  <2> QED
    BY <2>1, <2>2 DEF Lasts, Cut, Apart, Unsaid, IsLast
<1>5. \A i : i \in Saying("antigravity", rs, "abort") <=> i \in Where(rs, W) /\ rs[i].word = "cancelled"
  <2>1. \A w \in W : "abort" \in Pick!Signals("antigravity", w) <=> w = "cancelled"
    BY WordsOf DEF Databases
  <2> QED
    BY <1>1, <1>2, <2>1 DEF Saying, Where
<1>6. p \in 0 .. n /\ L("abort") <= p /\ (p > 0 => (L("abort") = p <=> rs[p].word = "cancelled"))
  <2> HIDE DEF p, L, n
  <2> QED
    BY <1>3, <1>4, <1>5 DEF IsLast
<1>7. \A i \in 1 .. n - o : i \in steps <=> o + i \in Where(rs, W)
  <2> TAKE i \in 1 .. n - o
  <2>1. o + i \in 1 .. n /\ t[i] = rs[o + i] /\ i \in DOMAIN t
    BY <1>1
  <2> HIDE DEF n
  <2> QED
    BY <1>1, <1>2, <2>1 DEF Where
<1>8. p <= o => steps = {}
  <2> SUFFICES ASSUME p <= o, NEW i \in steps PROVE FALSE
    OBVIOUS
  <2>1. i \in 1 .. n - o /\ o + i \in Where(rs, W)
    BY <1>1, <1>7
  <2> HIDE DEF p, n, steps
  <2> QED
    BY <1>1, <1>3, <2>1 DEF IsLast
<1>9. p > o => steps # {} /\ Pick!Max(steps) = p - o /\ t[p - o].word = rs[p].word
  <2> SUFFICES ASSUME p > o PROVE steps # {} /\ Pick!Max(steps) = p - o /\ t[p - o].word = rs[p].word
    OBVIOUS
  <2>1. steps \subseteq 1 .. n - o
    BY <1>1
  <2> HIDE DEF p, n, steps
  <2>2. p \in Where(rs, W) /\ p - o \in 1 .. n - o /\ o + (p - o) = p
    BY <1>1, <1>3 DEF IsLast
  <2>3. p - o \in steps /\ t[p - o] = rs[p]
    <3>1. p - o \in steps <=> o + (p - o) \in Where(rs, W)
      BY <1>7, <2>2
    <3>2. t[p - o] = rs[o + (p - o)]
      BY <1>1, <2>2
    <3> QED
      BY <2>2, <3>1, <3>2
  <2>4. \A i \in steps : i \in Int /\ p - o >= i
    <3> TAKE i \in steps
    <3>1. i \in 1 .. n - o /\ o + i \in Where(rs, W)
      BY <1>7, <2>1
    <3>2. o + i <= p
      BY <1>3, <3>1 DEF IsLast
    <3> QED
      BY <1>1, <1>3, <3>1, <3>2 DEF IsLast
  <2>5. Pick!Max(steps) \in steps /\ \A i \in steps : Pick!Max(steps) >= i
    BY <2>3, <2>4, LargestIs
  <2>6. Pick!Max(steps) \in Int /\ p - o \in Int /\ Pick!Max(steps) >= p - o /\ p - o >= Pick!Max(steps)
    BY <2>2, <2>3, <2>4, <2>5
  <2> QED
    BY <2>3, <2>6
<1> DEFINE done == p > o /\ rs[p].word \in Concluding("antigravity", W)
<1>10. completed = IF done THEN p - o ELSE 0
  <2>1. p > o => (rs[p].word \in Concluding("antigravity", W) <=> Pick!StepStatus(rs[p].word) = "DONE")
    <3> SUFFICES ASSUME p > o
                 PROVE  rs[p].word \in Concluding("antigravity", W) <=> Pick!StepStatus(rs[p].word) = "DONE"
      OBVIOUS
    <3>1. p \in Where(rs, W)
      <4> HIDE DEF p, n
      <4> QED
        BY <1>1, <1>3 DEF IsLast
    <3>2. rs[p].word \in W
      <4> HIDE DEF p
      <4> QED
        BY <3>1 DEF Where
    <3> QED
      BY <3>2 DEF Concluding, Ends
  <2> HIDE DEF p, n, steps
  <2> QED
    BY <1>1, <1>6, <1>8, <1>9, <2>1
<1>11. reasons = Pick!If(completed > 0 /\ completed >= negative, "explicit_turn_completed")
                 \union Pick!If(negative > completed, "interrupted_or_cancelled")
                 \union Pick!If(Pick!Open(At("user"), At("assistant")), "trailing_user_request_unanswered")
                 \union Pick!If(Pick!Open(exit, completed) \/ Pick!Open(At("fail"), At("ok")), "unresolved_tool_failure")
  BY DEF Pick!StreamReasons
<1> HIDE DEF reasons, completed, steps
<1>12. completed \in Nat /\ At("start") = 0 /\ At("exit") = 0 /\ At("fail") = 0
  <2> HIDE DEF p, n, L, At
  <2> QED
    BY <1>1, <1>4, <1>6, <1>10 DEF Cut
<1>13. exit = 0 /\ started = 0
  <2> HIDE DEF At
  <2> QED
    BY <1>12
<1>14. negative = Cut(L("abort"), o)
  <2>1. At("abort") \in Nat /\ At("abort") = Cut(L("abort"), o)
    <3> HIDE DEF L, At
    <3>1. L("abort") \in Nat /\ o \in Nat /\ At("abort") = Cut(L("abort"), o)
      BY <1>1, <1>4
    <3> QED
      BY <3>1, CutIs
  <2>2. LET m == Pick!Max({At("abort"), started, 0}) IN m \in {At("abort"), started, 0} /\ m >= At("abort") /\ m >= started /\ m >= 0
    <3>1. At("abort") \in Int /\ started \in Int /\ 0 \in Int
      BY <1>13, <2>1
    <3> HIDE DEF At, started
    <3> QED
      BY <3>1, MaxOfThree
  <2> HIDE DEF At, started
  <2> QED
    BY <1>13, <2>1, <2>2
<1>15. /\ "explicit_turn_completed" \in reasons <=> completed > 0 /\ completed >= negative
       /\ "interrupted_or_cancelled" \in reasons <=> negative > completed
       /\ "trailing_user_request_unanswered" \in reasons <=> At("user") > 0 /\ At("user") > At("assistant")
       /\ "unresolved_tool_failure" \notin reasons
  <2> HIDE DEF At, negative, exit
  <2> QED
    BY <1>11, <1>12, <1>13 DEF Pick!If, Pick!Open
<1>16. /\ said.ended = "completed" <=> p > 0 /\ rs[p].word \in Concluding("antigravity", W)
       /\ said.ended = "stopped" => p > 0 /\ rs[p].word = "cancelled" /\ rs[p].word \notin Concluding("antigravity", W)
  <2>1. p \in Nat /\ Where(rs, W) \subseteq 1 .. Len(rs) /\ IsLast(p, Len(rs), Where(rs, W))
    BY <1>3, <1>6
  <2> HIDE DEF p
  <2>2. ASSUME NEW V \in SUBSET W PROVE Later(Where(rs, V), Where(rs, W \ V)) <=> (p > 0 /\ rs[p].word \in V)
    BY <2>1, LaterAlone
  <2>3. Concluding("antigravity", W) \in SUBSET W /\ Halting("antigravity", W) \in SUBSET W
    BY DEF Concluding, Halting
  <2>4. /\ NotEnding("antigravity", W) = W \ Concluding("antigravity", W)
        /\ NotHalting("antigravity", W) = W \ Halting("antigravity", W)
    BY DEF NotEnding, NotHalting, Sole
  <2>5. \A w \in Halting("antigravity", W) : w = "cancelled" /\ w \notin Concluding("antigravity", W)
    <3> TAKE w \in Halting("antigravity", W)
    <3>1. w \in W /\ Halts("antigravity", w)
      BY DEF Halting
    <3>2. /\ w \notin {"succeeded", "interrupted", "aborted"}
          /\ Pick!Signals("antigravity", w) \intersect Unsaid("antigravity") = {}
          /\ "abort" \in Pick!Signals("antigravity", w) <=> w = "cancelled"
      BY <3>1, WordsOf DEF Databases
    <3>3. {"start", "failed", "tool_use"} \subseteq Unsaid("antigravity")
      BY DEF Unsaid
    <3> QED
      BY <3>1, <3>2, <3>3 DEF Halts, Concluding
  <2>6. said.ended = "completed" <=> p > 0 /\ rs[p].word \in Concluding("antigravity", W)
    BY <2>2, <2>3, <2>4 DEF TruthIs
  <2>7. said.ended = "stopped" <=> p > 0 /\ rs[p].word \in Halting("antigravity", W)
    BY <2>2, <2>3, <2>4 DEF TruthIs
  <2> QED
    BY <2>5, <2>6, <2>7
<1>17. ~said.failing /\ (said.asked <=> L("user") > L("assistant"))
  <2>1. TruthByLines("antigravity", rs, rs, said)
    BY TruthByLast DEF Databases
  <2>2. L("fail") = 0 /\ L("exit") = 0
    BY <1>4
  <2> QED
    BY <2>1, <2>2 DEF TruthByLines
<1>18. /\ At("user") > 0 /\ At("user") > At("assistant") => L("user") > L("assistant")
       /\ whole /\ L("user") > L("assistant") => At("user") > 0 /\ At("user") > At("assistant")
  <2>1. /\ L("user") \in Nat /\ L("assistant") \in Nat /\ o \in Nat
        /\ At("user") = Cut(L("user"), o) /\ At("assistant") = Cut(L("assistant"), o)
    BY <1>1, <1>4
  <2> HIDE DEF L, At
  <2> QED
    BY <2>1 DEF Cut
<1> DEFINE abort == L("abort")
           ending == rs[p].word \in Concluding("antigravity", W)
<1>19. o \in Nat /\ p \in Nat /\ abort \in Nat /\ abort <= p /\ (p > 0 /\ rs[p].word = "cancelled" => abort = p)
  <2>1. o \in Nat /\ p \in Nat /\ abort \in Nat
    BY <1>1, <1>4, <1>6
  <2> QED
    BY <1>6, <2>1
<1> HIDE DEF p, n, L, At, negative, exit, abort
<1>20. completed = (IF p > o /\ ending THEN p - o ELSE 0) /\ negative = Cut(abort, o)
  BY <1>10, <1>14 DEF abort
<1> HIDE DEF ending, done
<1>21. /\ completed > 0 /\ completed >= negative => p > 0 /\ ending
       /\ negative > completed => ~(p > 0 /\ ending)
       /\ o = 0 /\ p > 0 /\ ending => completed > 0 /\ completed >= negative
       /\ o = 0 /\ p > 0 /\ abort = p /\ ~ending => negative > completed
  BY <1>19, <1>20 DEF Cut
<1>22. /\ said.ended = "completed" <=> p > 0 /\ ending
       /\ said.ended = "stopped" => p > 0 /\ abort = p /\ ~ending
  BY <1>16, <1>19 DEF ending
<1> QED
  BY <1>15, <1>17, <1>18, <1>21, <1>22 DEF VerdictIs, reasons

\* The streams that tell of the talk and of the work.
Talk(source, rs) == IF source = "grok" THEN Pick!Stream(rs, TRUE) ELSE rs
Work(source, rs) == IF source = "grok" THEN Pick!Stream(rs, FALSE) ELSE rs

Streams(source, W, rs) ==
    /\ rs \in Seq(PickRecord(W))
    /\ Talk(source, rs) \in Seq(PickRecord(W)) /\ Len(Talk(source, rs)) <= Len(rs)
    /\ Work(source, rs) \in Seq(PickRecord(W)) /\ Len(Work(source, rs)) <= Len(rs)

LEMMA StreamsFirst == ASSUME NEW source, NEW W PROVE Streams(source, W, << >>) /\ Talk(source, << >>) = << >> /\ Work(source, << >>) = << >>
<1> DEFINE R == PickRecord(W)
<1>1. << >> \in Seq(R) /\ Len(<< >>) = 0
  OBVIOUS
<1>2. ASSUME NEW chat PROVE Pick!Stream(<< >>, chat) = << >>
  <2>1. PICK f : Iterates(0, Seq(R), << >>, Streaming(<< >>, chat, Seq(R)), f) /\ Pick!Stream(<< >>, chat) = f[0]
    BY <1>1, StreamIterates
  <2> QED
    BY <2>1 DEF Iterates
<1>3. Talk(source, << >>) = << >> /\ Work(source, << >>) = << >>
  BY <1>2 DEF Talk, Work
<1>4. Len(<< >>) <= Len(<< >>)
  BY <1>1
<1> QED
  BY <1>1, <1>3, <1>4, Zenon DEF Streams

LEMMA StreamsStep ==
    ASSUME NEW source, NEW W, NEW rs, Streams(source, W, rs), NEW r \in PickRecord(W)
    PROVE  /\ Streams(source, W, Append(rs, r))
           /\ Talk(source, Append(rs, r)) = Append(Talk(source, rs), r)
              \/ /\ source = "grok" /\ r.word \notin {"user", "assistant"}
                 /\ Talk(source, Append(rs, r)) = Talk(source, rs)
           /\ Work(source, Append(rs, r)) = Append(Work(source, rs), r)
              \/ /\ source = "grok" /\ r.word \in {"user", "assistant"}
                 /\ Work(source, Append(rs, r)) = Work(source, rs)
<1> DEFINE R == PickRecord(W)
           bs == Append(rs, r)
<1>1. /\ rs \in Seq(R) /\ Talk(source, rs) \in Seq(R) /\ Len(Talk(source, rs)) <= Len(rs)
      /\ Work(source, rs) \in Seq(R) /\ Len(Work(source, rs)) <= Len(rs) /\ r \in R
  BY DEF Streams
<1>2. bs \in Seq(R) /\ Len(bs) = Len(rs) + 1 /\ Len(rs) \in Nat
  BY <1>1
<1>3. \A s \in Seq(R) : Append(s, r) \in Seq(R) /\ Len(Append(s, r)) = Len(s) + 1 /\ Len(s) \in Nat
  BY <1>1
<1>4. ASSUME NEW chat
      PROVE  Pick!Stream(bs, chat) = IF (r.word \in {"user", "assistant"}) = chat THEN Append(Pick!Stream(rs, chat), r)
                                  ELSE Pick!Stream(rs, chat)
  BY <1>1, StreamAppend
<1> HIDE DEF R, bs
<1>5. Talk(source, bs) = Append(Talk(source, rs), r)
      \/ (source = "grok" /\ r.word \notin {"user", "assistant"} /\ Talk(source, bs) = Talk(source, rs))
  <2>1. CASE source = "grok"
    <3>1. Pick!Stream(bs, TRUE) = IF (r.word \in {"user", "assistant"}) = TRUE THEN Append(Pick!Stream(rs, TRUE), r)
                               ELSE Pick!Stream(rs, TRUE)
      BY <1>4
    <3> QED
      BY <2>1, <3>1 DEF Talk
  <2> QED
    BY <2>1 DEF Talk, bs
<1>6. Work(source, bs) = Append(Work(source, rs), r)
      \/ (source = "grok" /\ r.word \in {"user", "assistant"} /\ Work(source, bs) = Work(source, rs))
  <2>1. CASE source = "grok"
    <3>1. Pick!Stream(bs, FALSE) = IF (r.word \in {"user", "assistant"}) = FALSE THEN Append(Pick!Stream(rs, FALSE), r)
                                ELSE Pick!Stream(rs, FALSE)
      BY <1>4
    <3>2. (r.word \in {"user", "assistant"}) = FALSE <=> r.word \notin {"user", "assistant"}
      OBVIOUS
    <3>3. CASE r.word \in {"user", "assistant"}
      BY <2>1, <3>1, <3>2, <3>3 DEF Work
    <3>4. CASE r.word \notin {"user", "assistant"}
      BY <2>1, <3>1, <3>2, <3>4 DEF Work
    <3> QED
      BY <3>3, <3>4
  <2> QED
    BY <2>1 DEF Work, bs
<1>7. ASSUME NEW s \in Seq(R), Len(s) <= Len(rs), NEW u, u = Append(s, r) \/ u = s
      PROVE  u \in Seq(R) /\ Len(u) <= Len(bs)
  <2>1. Append(s, r) \in Seq(R) /\ Len(Append(s, r)) = Len(s) + 1 /\ Len(s) \in Nat
    BY <1>3
  <2>2. Len(s) + 1 <= Len(bs) /\ Len(s) <= Len(bs)
    BY <1>2, <1>7, <2>1
  <2> QED
    BY <1>7, <2>1, <2>2
<1>8. Streams(source, W, bs)
  <2>1. Talk(source, bs) \in Seq(R) /\ Len(Talk(source, bs)) <= Len(bs)
    BY <1>1, <1>5, <1>7
  <2>2. Work(source, bs) \in Seq(R) /\ Len(Work(source, bs)) <= Len(bs)
    BY <1>1, <1>6, <1>7
  <2> QED
    BY <1>2, <2>1, <2>2 DEF Streams, R
<1> QED
  BY <1>5, <1>6, <1>8 DEF bs

\* Says: a word tells what is open.
LEMMA WordTold ==
    ASSUME NEW source, NEW W, W \subseteq Pick!Vocabulary(source), NEW rs, Streams(source, W, rs), NEW w \in W,
           NEW t, TruthIs(source, W, Talk(source, rs), Work(source, rs), t)
    PROVE  TruthIs(source, W, Talk(source, Append(rs, Pick!Word(w))), Work(source, Append(rs, Pick!Word(w))), Told(source, w, t))
<1> DEFINE r == Pick!Word(w)
           talk == Talk(source, rs)
           work == Work(source, rs)
           talk2 == Talk(source, Append(rs, r))
           work2 == Work(source, Append(rs, r))
<1>1. r \in PickRecord(W) /\ r.word = w
  BY DEF PickRecord, WordRecord, Pick!Word
<1>2. talk \in Seq(PickRecord(W)) /\ work \in Seq(PickRecord(W))
  BY DEF Streams
<1>3. talk2 = Append(talk, r) \/ (source = "grok" /\ w \notin {"user", "assistant"} /\ talk2 = talk)
  BY <1>1, StreamsStep
<1>4. work2 = Append(work, r) \/ (source = "grok" /\ w \in {"user", "assistant"} /\ work2 = work)
  BY <1>1, StreamsStep
<1> HIDE DEF talk, work, talk2, work2
<1>5. source = "grok" => /\ w \in {"user", "assistant"} => Pick!Signals(source, w) = {w}
                         /\ w \notin {"user", "assistant"} => Pick!Signals(source, w) \intersect {"user", "assistant"} = {}
                         /\ source \notin Databases
  BY WordsOf DEF Databases
<1>6. Onward(talk, w, talk2, Means(source, W, {"user", "assistant"}))
  <2>1. source = "grok" /\ w \notin {"user", "assistant"} => w \notin Means(source, W, {"user", "assistant"})
    BY <1>5 DEF Means
  <2> QED
    BY <1>3, <2>1 DEF Onward, r
<1>7. WorkOn(source, work, w, work2)
  <2>1. source = "grok" /\ w \in {"user", "assistant"} =>
           /\ source \notin Sole /\ ~Ends(source, w) /\ ~Halts(source, w) /\ ~Fails(source, w) /\ ~Fixes(source, w)
    BY <1>5 DEF Sole, Databases, Ends, Halts, Fails, Fixes
  <2> QED
    BY <1>4, <2>1 DEF WorkOn, r
<1>8. TruthIs(source, W, talk, work, t)
  BY DEF talk, work
<1>9. TruthIs(source, W, talk2, work2, Told(source, w, t))
  BY <1>2, <1>6, <1>7, <1>8, TruthOnward
<1> QED
  BY <1>9 DEF talk2, work2, r

\* A record without a word tells nothing.
LEMMA NothingTold ==
    ASSUME NEW source, NEW W, Unset \notin W, NEW rs, Streams(source, W, rs), NEW r \in PickRecord(W), r.word = Unset,
           NEW t, TruthIs(source, W, Talk(source, rs), Work(source, rs), t)
    PROVE  TruthIs(source, W, Talk(source, Append(rs, r)), Work(source, Append(rs, r)), t)
<1>1. /\ Talk(source, Append(rs, r)) \in {Talk(source, rs), Append(Talk(source, rs), r)}
      /\ Work(source, Append(rs, r)) \in {Work(source, rs), Append(Work(source, rs), r)}
  BY StreamsStep
<1>2. Talk(source, rs) \in Seq(PickRecord(W)) /\ Work(source, rs) \in Seq(PickRecord(W))
  BY DEF Streams
<1> QED
  BY <1>1, <1>2, TruthStill

\* Every line can be read, and every call and result of the plan has its id.
Clean(rs) ==
    \A i \in DOMAIN rs : rs[i].kind # "torn" /\ (rs[i].kind \in {"call", "result"} => rs[i].id # Unset)

\* The session, what is open in it and its plan.
PickupHeld ==
    /\ session \in WorkSession
    /\ Streams(session.source, session.words, dialogue)
    /\ TruthIs(session.source, session.words, Talk(session.source, dialogue), Work(session.source, dialogue), truth)
    /\ session.plan = Unset => calls = << >> /\ dialogue \in Seq(WordRecord(session.words))
    /\ planned \in Seq(AgentPlan) /\ calls \in Seq(OpenCall)
    /\ InOrder(Pick!Extracted(dialogue))
    /\ PlanHeld(Pick!Extracted(dialogue), Len(dialogue), Clean(dialogue), planned, calls)

\* What is inspected of a session says what is so.
LEMMA StructuralIs ==
    ASSUME PickupHeld, NEW start \in Nat
    PROVE  VerdictIs(Pick!Structural(start), ~(start > 0 \/ Len(dialogue) > TailLines), session.source, truth)
<1> DEFINE source == session.source
           W == session.words
           rs == dialogue
           whole == ~(start > 0 \/ Len(rs) > TailLines)
           cut == Pick!If(start > 0, "bounded_tail_incomplete")
<1>1. /\ W \subseteq Pick!Vocabulary(source) /\ Unset \notin Pick!Vocabulary(source) /\ Unset \notin W
      /\ source \in Databases => session.plan = Unset
  BY PickupConstants DEF PickupHeld, Databases
<1>2. /\ rs \in Seq(PickRecord(W)) /\ Talk(source, rs) \in Seq(PickRecord(W)) /\ Work(source, rs) \in Seq(PickRecord(W))
      /\ Len(Talk(source, rs)) <= Len(rs) /\ Len(Work(source, rs)) <= Len(rs)
      /\ TruthIs(source, W, Talk(source, rs), Work(source, rs), truth)
      /\ session.plan = Unset => rs \in Seq(WordRecord(W))
  BY DEF PickupHeld, Streams
<1>3. /\ \A stream \in Seq(PickRecord(W)) : Len(stream) \in Nat
      /\ Len(rs) \in Nat /\ TailLines \in Nat
  BY <1>2, PickupConstants
<1>4. ASSUME NEW said, VerdictIs(said, whole, source, truth) PROVE VerdictIs(said \union cut, whole, source, truth)
  BY <1>4 DEF VerdictIs, Pick!If
<1>5. ASSUME NEW stream \in Seq(PickRecord(W)), Len(stream) <= Len(rs)
      PROVE  \E o : TailFrom(stream, Pick!Tail200(stream, start), o) /\ (whole => o = 0)
  <2>1. PICK o : /\ TailFrom(stream, Pick!Tail200(stream, start), o)
                 /\ start = 0 /\ Len(stream) <= TailLines => o = 0
    BY TailIs
  <2>2. whole => start = 0 /\ Len(stream) <= TailLines
    BY <1>3, <1>5
  <2> QED
    BY <2>1, <2>2
<1> HIDE DEF whole, cut
<1>6. CASE source \in Databases
  <2>1. TruthIs(source, W, rs, rs, truth)
    BY <1>2, <1>6 DEF Talk, Work, Databases
  <2>2. VerdictIs(Pick!OutcomeReasons(rs), whole, source, truth)
    BY <1>1, <1>2, <1>6, <2>1, DatabaseVerdict
  <2>3. Pick!Structural(start) = Pick!OutcomeReasons(rs)
    BY <1>6 DEF Pick!Structural, Databases
  <2> QED
    BY <2>2, <2>3 DEF whole
<1>7. CASE source = "grok"
  <2> DEFINE talk == Pick!Stream(rs, TRUE)
             work == Pick!Stream(rs, FALSE)
  <2>1. /\ talk \in Seq(PickRecord(W)) /\ work \in Seq(PickRecord(W)) /\ Len(talk) <= Len(rs) /\ Len(work) <= Len(rs)
        /\ TruthIs("grok", W, talk, work, truth)
    BY <1>2, <1>7 DEF Talk, Work
  <2>2. PICK oc : TailFrom(talk, Pick!Tail200(talk, start), oc) /\ (whole => oc = 0)
    BY <1>5, <2>1
  <2>3. PICK o : TailFrom(work, Pick!Tail200(work, start), o) /\ (whole => o = 0)
    BY <1>5, <2>1
  <2>4. Pick!Structural(start) = Pick!GrokReasons(Pick!Tail200(talk, start), Pick!Tail200(work, start)) \union cut
    BY <1>7 DEF Pick!Structural, Pick!Chat, Pick!Runtime, cut
  <2> HIDE DEF talk, work
  <2>5. VerdictIs(Pick!GrokReasons(Pick!Tail200(talk, start), Pick!Tail200(work, start)), whole, "grok", truth)
    BY <1>1, <1>7, <2>1, <2>2, <2>3, GrokVerdict
  <2> QED
    BY <1>4, <1>7, <2>4, <2>5 DEF whole
<1>8. CASE source \notin Databases \union {"grok"}
  <2>1. TruthIs(source, W, rs, rs, truth)
    BY <1>2, <1>8 DEF Talk, Work
  <2>2. Len(rs) <= Len(rs)
    BY <1>3
  <2>3. PICK o : TailFrom(rs, Pick!Tail200(rs, start), o) /\ (whole => o = 0)
    BY <1>2, <1>5, <2>2
  <2>4. Pick!Structural(start) = Pick!StreamReasons(source, Pick!Tail200(rs, start)) \union cut
    BY <1>8 DEF Pick!Structural, Databases, cut
  <2>5. VerdictIs(Pick!StreamReasons(source, Pick!Tail200(rs, start)), whole, source, truth)
    <3>1. CASE source = "antigravity"
      BY <1>1, <1>2, <2>1, <2>3, <3>1, AntigravityVerdict
    <3>2. CASE source # "antigravity"
      <4>1. source \notin Sole \union {"grok"}
        BY <1>8, <3>2 DEF Sole
      <4> QED
        BY <1>1, <1>2, <2>1, <2>3, <4>1, StreamVerdict
    <3> QED
      BY <3>1, <3>2
  <2> QED
    BY <1>4, <2>4, <2>5 DEF whole
<1> QED
  BY <1>6, <1>7, <1>8

\* and what is reported of it.
LEMMA InspectedIs ==
    ASSUME PickupHeld, NEW start \in Nat, NEW cp
    PROVE  LET c == Pick!Inspected(cp, start)
           IN VerdictIs(c.reasons, ~c.cut, session.source, truth) /\ c.fresh = TRUE
<1> DEFINE c == Pick!Inspected(cp, start)
           plan == Pick!TaskState(dialogue)
           more == Pick!If(cp # Unset /\ cp.status = "active", "checkpoint_active")
                   \union Pick!If(cp # Unset /\ cp.status = "blocked", "checkpoint_blocked")
                   \union Pick!If(plan # Unset /\ Pick!Outstanding(plan) # {}, "task_state_outstanding")
           codes == Pick!Structural(start)
           whole == ~(start > 0 \/ Len(dialogue) > TailLines)
           said == more \union codes
           reasons == IF said = {} THEN {"recent_activity_uncheckpointed"} ELSE said
<1>1. VerdictIs(codes, whole, session.source, truth)
  BY StructuralIs
<1>2. c.reasons = reasons /\ c.fresh = TRUE /\ (~c.cut <=> whole)
  BY DEF Pick!Inspected
<1>3. more \subseteq {"checkpoint_active", "checkpoint_blocked", "task_state_outstanding"}
  BY DEF Pick!If
<1> HIDE DEF c, more, codes, whole
<1>4. \A code \in {"explicit_turn_completed", "interrupted_or_cancelled", "trailing_user_request_unanswered",
                   "unresolved_tool_failure"} : code \in reasons <=> code \in codes
  BY <1>3
<1> HIDE DEF reasons
<1>5. VerdictIs(reasons, whole, session.source, truth)
  BY <1>1, <1>4 DEF VerdictIs
<1>6. VerdictIs(c.reasons, ~c.cut, session.source, truth)
  BY <1>2, <1>5 DEF VerdictIs
<1> QED
  BY <1>2, <1>6 DEF c

\* One more record of the session.
LEMMA RecordHeld ==
    ASSUME PickupHeld, NEW r \in PickRecord(session.words), Pick!Recorded(r), session' = session
    PROVE  /\ dialogue' = Append(dialogue, r)
           /\ Streams(session.source, session.words, dialogue') /\ session' \in WorkSession
           /\ Pick!Extracted(dialogue) \in PlanStates
           /\ Pick!Extracted(dialogue)' = Pick!Observe(Pick!Extracted(dialogue), r) /\ InOrder(Pick!Extracted(dialogue))'
           /\ Len(dialogue) \in Nat /\ Len(dialogue)' = Len(dialogue) + 1
           /\ Clean(dialogue)' => /\ Clean(dialogue) /\ r.kind # "torn"
                                  /\ r.kind \in {"call", "result"} => r.id # Unset
<1> DEFINE W == session.words
           rs == dialogue
           bs == Append(rs, r)
<1>1. dialogue' = bs
  BY DEF Pick!Recorded
<1>2. rs \in Seq(PickRecord(W)) /\ Streams(session.source, W, bs) /\ session' \in WorkSession
  <2>1. Streams(session.source, W, rs)
    BY DEF PickupHeld
  <2>2. Streams(session.source, W, bs)
    BY <2>1, StreamsStep
  <2> QED
    BY <2>1, <2>2 DEF PickupHeld, Streams
<1>3. Pick!Extracted(rs) \in PlanStates /\ Pick!Extracted(bs) = Pick!Observe(Pick!Extracted(rs), r)
  BY <1>2, ExtractedAppend
<1>4. InOrder(Pick!Observe(Pick!Extracted(rs), r))
  BY <1>3, WaitsAre DEF PickupHeld
<1>5. Len(rs) \in Nat /\ Len(bs) = Len(rs) + 1 /\ DOMAIN bs = 1 .. Len(rs) + 1 /\ DOMAIN rs = 1 .. Len(rs)
      /\ bs[Len(rs) + 1] = r /\ \A i \in 1 .. Len(rs) : bs[i] = rs[i]
  BY <1>2
<1>6. Clean(bs) => Clean(rs) /\ r.kind # "torn" /\ (r.kind \in {"call", "result"} => r.id # Unset)
  <2> DEFINE n == Len(rs)
  <2>1. /\ n \in Nat /\ DOMAIN bs = 1 .. n + 1 /\ DOMAIN rs = 1 .. n
        /\ bs[n + 1] = r /\ \A i \in 1 .. n : bs[i] = rs[i]
    BY <1>5
  <2>2. n + 1 \in 1 .. n + 1 /\ \A i \in 1 .. n : i \in 1 .. n + 1
    BY <2>1
  <2> HIDE DEF n, bs
  <2> QED
    BY <2>1, <2>2 DEF Clean
<1>7. Pick!Extracted(dialogue)' = Pick!Extracted(bs) /\ Clean(dialogue)' = Clean(bs) /\ Len(dialogue)' = Len(bs)
  BY <1>1
<1>8. InOrder(Pick!Extracted(dialogue))'
  <2> HIDE DEF bs
  <2> QED
    BY <1>3, <1>4, <1>7
<1>9. Streams(session.source, session.words, dialogue')
  BY <1>1, <1>2
<1>10. Pick!Extracted(dialogue)' = Pick!Observe(Pick!Extracted(dialogue), r)
  BY <1>3, <1>7
<1>11. Len(dialogue)' = Len(dialogue) + 1
  BY <1>5, <1>7
<1>12. Clean(dialogue)' => /\ Clean(dialogue) /\ r.kind # "torn"
                           /\ r.kind \in {"call", "result"} => r.id # Unset
  BY <1>6, <1>7
<1> HIDE DEF bs
<1> QED
  BY <1>1, <1>2, <1>3, <1>5, <1>8, <1>9, <1>10, <1>11, <1>12, Zenon DEF bs

\* Says.
LEMMA SaysHeld ==
    ASSUME PickupHeld, NEW word \in session.words, Pick!Says(word)
    PROVE  PickupHeld'
<1> DEFINE r == Pick!Word(word)
           x == Pick!Extracted(dialogue)
           source == session.source
           W == session.words
           n == Len(dialogue)
<1>1. r \in PickRecord(W) /\ r \in WordRecord(W) /\ r.word = word /\ r.kind = "word"
  BY DEF PickRecord, WordRecord, Pick!Word
<1>2. Pick!Recorded(r) /\ session' = session /\ calls' = calls /\ planned' = planned
  BY DEF Pick!Says
<1>3. /\ dialogue' = Append(dialogue, r) /\ Streams(source, W, dialogue') /\ session' \in WorkSession
      /\ x \in PlanStates /\ x' = Pick!Observe(x, r) /\ InOrder(x)' /\ n \in Nat /\ n' = n + 1
      /\ Clean(dialogue)' => Clean(dialogue)
  BY <1>1, <1>2, RecordHeld
<1>4. truth' = Told(source, word, truth)
  <2> DEFINE s == Pick!Signals(source, word)
             done == IF source = "antigravity" THEN Pick!StepStatus(word) = "DONE"
                     ELSE s \intersect {"end", "end_turn"} # {} \/ word = "succeeded"
             halted == s \intersect {"abort", "start", "failed", "tool_use"} # {} \/ word \in {"interrupted", "aborted"}
             ended == IF done THEN "completed" ELSE IF halted THEN "stopped"
                      ELSE IF source \in {"antigravity", "opencode", "mcode"} THEN Unset ELSE truth.ended
             failing == IF source \in {"opencode", "mcode"} THEN word \in {"failed", "error"}
                        ELSE IF s \intersect {"fail", "exit"} # {} THEN TRUE
                        ELSE IF s \intersect {"ok", "exit_0"} # {} \/ (source = "codex" /\ done) THEN FALSE
                        ELSE truth.failing
             asked == IF "user" \in s THEN TRUE ELSE IF "assistant" \in s THEN FALSE ELSE truth.asked
  <2>1. truth' = [asked |-> asked, ended |-> ended, failing |-> failing]
    BY DEF Pick!Says
  <2>2. (done <=> Ends(source, word)) /\ (~done => (halted <=> Halts(source, word)))
    <3> HIDE DEF source
    <3> QED
      BY DEF Ends, Halts
  <2>3. source \in {"antigravity", "opencode", "mcode"} <=> source \in Sole
    <3> HIDE DEF source
    <3> QED
      BY DEF Sole, Databases
  <2>4. ended = IF Ends(source, word) THEN "completed" ELSE IF Halts(source, word) THEN "stopped"
                ELSE IF source \in Sole THEN Unset ELSE truth.ended
    <3> HIDE DEF source, done, halted
    <3> QED
      BY <2>2, <2>3
  <2>5. failing = IF Fails(source, word) THEN TRUE ELSE IF Fixes(source, word) THEN FALSE ELSE truth.failing
    <3> HIDE DEF source, done, s
    <3>1. CASE source \in {"opencode", "mcode"}
      <4>1. failing <=> word \in {"failed", "error"}
        BY <3>1
      <4>2. Fails(source, word) <=> word \in {"failed", "error"}
        BY <3>1 DEF Fails, Databases
      <4>3. ~Fails(source, word) => Fixes(source, word)
        BY <3>1 DEF Fixes, Databases
      <4>4. failing = (word \in {"failed", "error"})
        BY <3>1
      <4> QED
        <5>1. CASE word \in {"failed", "error"}
          BY <4>2, <4>4, <5>1
        <5>2. CASE word \notin {"failed", "error"}
          <6>1. ~Fails(source, word) /\ Fixes(source, word)
            BY <4>2, <4>3, <5>2
          <6>2. (word \in {"failed", "error"}) = FALSE
            BY <5>2
          <6>3. failing = FALSE
            BY <4>4, <6>2, Zenon
          <6> HIDE DEF failing
          <6> QED
            BY <6>1, <6>3
        <5> QED
          BY <5>1, <5>2
    <3>2. CASE source \notin {"opencode", "mcode"}
      <4>1. Fails(source, word) <=> s \intersect {"fail", "exit"} # {}
        BY <3>2 DEF Fails, Databases, s
      <4>2. ~Fails(source, word) =>
               (Fixes(source, word) <=> s \intersect {"ok", "exit_0"} # {} \/ (source = "codex" /\ done))
        BY <2>2, <3>2 DEF Fixes, Databases, s
      <4>3. failing = IF s \intersect {"fail", "exit"} # {} THEN TRUE
                      ELSE IF s \intersect {"ok", "exit_0"} # {} \/ (source = "codex" /\ done) THEN FALSE
                      ELSE truth.failing
        BY <3>2
      <4> HIDE DEF failing
      <4> QED
        BY <4>1, <4>2, <4>3
    <3> QED
      BY <3>1, <3>2
  <2> HIDE DEF ended, failing
  <2> QED
    BY <2>1, <2>4, <2>5 DEF Told
<1>5. W \subseteq Pick!Vocabulary(source) /\ Streams(source, W, dialogue)
      /\ TruthIs(source, W, Talk(source, dialogue), Work(source, dialogue), truth)
  BY PickupConstants DEF PickupHeld
<1>6. TruthIs(source, W, Talk(source, dialogue'), Work(source, dialogue'), truth')
  BY <1>3, <1>4, <1>5, WordTold DEF r
<1>7. x'.pending = x.pending /\ x'.confirmed = x.confirmed
  <2>1. Pick!Observe(x, r) = [x EXCEPT !.lines = x.lines + 1]
    BY <1>1 DEF Pick!Observe
  <2> HIDE DEF x
  <2> QED
    BY <1>3, <2>1 DEF PlanStates
<1>8. PlanHeld(x, n, Clean(dialogue), planned, calls)
  BY DEF PickupHeld
<1>9. PlanHeld(x', n + 1, Clean(dialogue)', planned, calls)
  <2> HIDE DEF x, n
  <2> QED
    BY <1>3, <1>7, <1>8, HeldOn
<1>10. session.plan = Unset => calls' = << >> /\ dialogue' \in Seq(WordRecord(W))
  BY <1>1, <1>2, <1>3 DEF PickupHeld
<1> HIDE DEF r
<1> QED
  BY <1>2, <1>3, <1>6, <1>9, <1>10 DEF PickupHeld

\* Calls.
LEMMA CallsHeld ==
    ASSUME PickupHeld, session.plan # Unset, NEW items \in AgentPlan, NEW id \in {Len(dialogue) + 1, Unset},
           Pick!Calls(id, items)
    PROVE  PickupHeld'
<1> DEFINE r == Pick!Call(id, items)
           x == Pick!Extracted(dialogue)
           source == session.source
           W == session.words
           n == Len(dialogue)
           line == x.lines + 1
           y == Pick!ObserveCall([x EXCEPT !.lines = line], r, line)
           more == Append(calls, [id |-> id, items |-> items])
<1>1. n \in Nat
  BY DEF PickupHeld, Streams
<1>2. id \in PlanIds
  BY <1>1 DEF PlanIds
<1>3. r \in PickRecord(W) /\ r.word = Unset /\ r.kind = "call" /\ r.id = id
  BY <1>2 DEF PickRecord, CallRecord, Pick!Call
<1>4. Pick!Recorded(r) /\ session' = session /\ calls' = more /\ planned' = planned /\ truth' = truth
  BY DEF Pick!Calls
<1>5. /\ dialogue' = Append(dialogue, r) /\ Streams(source, W, dialogue') /\ session' \in WorkSession
      /\ x \in PlanStates /\ x' = Pick!Observe(x, r) /\ InOrder(x)' /\ n' = n + 1
      /\ Clean(dialogue)' => Clean(dialogue) /\ id # Unset
  BY <1>3, <1>4, RecordHeld
<1>6. Unset \notin W /\ Streams(source, W, dialogue)
      /\ TruthIs(source, W, Talk(source, dialogue), Work(source, dialogue), truth)
  BY PickupConstants DEF PickupHeld
<1>7. TruthIs(source, W, Talk(source, dialogue'), Work(source, dialogue'), truth)
  BY <1>3, <1>5, <1>6, NothingTold
<1>8. x' = y
  BY <1>3, <1>5 DEF Pick!Observe
<1>9. /\ y.confirmed = x.confirmed /\ Noted(x, y, id, items)
      /\ id \notin DOMAIN x.pending \union {Unset} => y.pending # x.pending
  <2>1. line \in Nat /\ x \in PlanStates
    BY <1>5 DEF PlanStates
  <2> HIDE DEF x, line
  <2> QED
    BY <1>2, <2>1, CallIs DEF r
<1>10. PlanHeld(x, n, Clean(dialogue), planned, calls) /\ calls \in Seq(OpenCall)
  BY DEF PickupHeld
<1> HIDE DEF y, x, r
<1>11. id # Unset => y.pending # x.pending
  <2>1. id # Unset => id \notin DOMAIN x.pending
    BY <1>1, <1>10 DEF PlanHeld
  <2> QED
    BY <1>9, <2>1
<1>12. PlanHeld(y, n + 1, Clean(dialogue)', planned, more) /\ more \in Seq(OpenCall)
  <2>1. Clean(dialogue)' => Clean(dialogue) /\ id # Unset /\ y.pending # x.pending
    BY <1>5, <1>11
  <2>2. id \in {n + 1, Unset} /\ y.confirmed = x.confirmed /\ Noted(x, y, id, items)
    BY <1>9
  <2> HIDE DEF n, line
  <2> QED
    BY <1>1, <1>10, <2>1, <2>2, HeldCall
<1> QED
  BY <1>4, <1>5, <1>7, <1>8, <1>10, <1>12 DEF PickupHeld, x

\* Answers.
LEMMA AnswersHeld ==
    ASSUME PickupHeld, NEW i \in DOMAIN calls, NEW failed \in BOOLEAN, NEW shape, Pick!Answers(i, failed, shape)
    PROVE  PickupHeld'
<1> DEFINE call == calls[i]
           told == IF shape = "bare" THEN Unset ELSE call.items
<1>0. PICK named \in BOOLEAN : Pick!Recorded(Pick!Result(call.id, told, failed, named))
  <2>1. Pick!Recorded(Pick!Result(call.id, told, failed, shape = "named"))
    BY DEF Pick!Answers
  <2>2. (shape = "named") \in BOOLEAN
    OBVIOUS
  <2> QED
    BY <2>1, <2>2, Zenon
<1> DEFINE r == Pick!Result(call.id, told, failed, named)
           x == Pick!Extracted(dialogue)
           source == session.source
           W == session.words
           n == Len(dialogue)
           line == x.lines + 1
           y == Pick!ObserveResult([x EXCEPT !.lines = line], r, line)
           less == Pick!RemoveAt(calls, i)
<1>1. calls \in Seq(OpenCall) /\ i \in 1 .. Len(calls) /\ call \in OpenCall /\ calls # << >>
  BY DEF PickupHeld
<1>2. call.id \in PlanIds /\ call.items \in AgentPlan /\ told \in AgentPlan \union {Unset}
  BY <1>1 DEF OpenCall
<1>3. r \in PickRecord(W) /\ r.word = Unset /\ r.kind = "result" /\ r.id = call.id
  <2> HIDE DEF told, call
  <2>1. r \in ResultRecord
    BY <1>2 DEF ResultRecord
  <2> QED
    BY <2>1 DEF PickRecord, Pick!Result
<1>4. /\ Pick!Recorded(r) /\ session' = session /\ calls' = less /\ truth' = truth
      /\ planned' = IF failed THEN planned ELSE Append(planned, call.items)
  BY <1>0 DEF Pick!Answers
<1> HIDE DEF told, call
<1>5. /\ dialogue' = Append(dialogue, r) /\ Streams(source, W, dialogue') /\ session' \in WorkSession
      /\ x \in PlanStates /\ x' = Pick!Observe(x, r) /\ InOrder(x)' /\ n \in Nat /\ n' = n + 1
      /\ Clean(dialogue)' => Clean(dialogue) /\ call.id # Unset
  BY <1>3, <1>4, RecordHeld
<1>6. Unset \notin W /\ Streams(source, W, dialogue)
      /\ TruthIs(source, W, Talk(source, dialogue), Work(source, dialogue), truth)
  BY PickupConstants DEF PickupHeld
<1>7. TruthIs(source, W, Talk(source, dialogue'), Work(source, dialogue'), truth)
  BY <1>3, <1>5, <1>6, NothingTold
<1>8. x' = y
  BY <1>3, <1>5 DEF Pick!Observe
<1>9. /\ y.pending = x.pending \/ y.pending = Pick!Without(x.pending, call.id)
      /\ \/ y.confirmed = x.confirmed /\ (failed \/ call.id \notin DOMAIN x.pending)
         \/ /\ ~failed /\ told # Unset /\ y.confirmed = {Pick!Written(line, told)}
         \/ /\ ~failed /\ told = Unset /\ call.id \in DOMAIN x.pending /\ y.confirmed = {x.pending[call.id]}
  <2> DEFINE id == call.id
  <2>1. line \in Nat /\ x \in PlanStates /\ id \in PlanIds
    BY <1>2, <1>5 DEF PlanStates
  <2> HIDE DEF x, line, id
  <2> DEFINE z == Pick!ObserveResult([x EXCEPT !.lines = line], Pick!Result(id, told, failed, named), line)
  <2>2. /\ z.pending = x.pending \/ z.pending = Pick!Without(x.pending, id)
        /\ \/ z.confirmed = x.confirmed /\ (failed \/ id \notin DOMAIN x.pending)
           \/ /\ ~failed /\ told # Unset /\ z.confirmed = {Pick!Written(line, told)}
           \/ /\ ~failed /\ told = Unset /\ id \in DOMAIN x.pending /\ z.confirmed = {x.pending[id]}
    BY <1>2, <2>1, ResultIs
  <2> QED
    BY <2>2, Zenon DEF id, r
<1>10. PlanHeld(x, n, Clean(dialogue), planned, calls) /\ planned \in Seq(AgentPlan)
  BY DEF PickupHeld
<1> HIDE DEF y, x, r, less
<1>11. Took(x, y, call.id, call.items, planned, planned', Clean(dialogue)')
  <2>1. CASE failed
    BY <1>4, <1>9, <2>1 DEF Took
  <2>2. CASE ~failed
    <3>1. planned' = Append(planned, call.items)
      BY <1>4, <2>2
    <3>2. CASE y.confirmed = x.confirmed /\ call.id \notin DOMAIN x.pending
      BY <3>1, <3>2 DEF Took
    <3>3. CASE told # Unset /\ y.confirmed = {Pick!Written(line, told)}
      <4>1. Pick!Written(line, told).items = call.items
        BY <3>3 DEF Pick!Written, told
      <4> QED
        BY <3>1, <3>3, <4>1 DEF Took
    <3>4. CASE call.id \in DOMAIN x.pending /\ y.confirmed = {x.pending[call.id]}
      <4>1. x.pending[call.id].items = call.items
        BY <1>10, <3>4 DEF PlanHeld, call
      <4> QED
        BY <3>1, <3>4, <4>1 DEF Took
    <3> QED
      BY <1>9, <2>2, <3>2, <3>3, <3>4
  <2> QED
    BY <2>1, <2>2
<1>12. PlanHeld(y, n + 1, Clean(dialogue)', planned', less) /\ less \in Seq(OpenCall)
  <2>1. Clean(dialogue)' => Clean(dialogue)
    BY <1>5
  <2>2. less \in Seq(OpenCall)
    BY <1>1, FewerCalls DEF less
  <2>3. PlanHeld(y, n + 1, Clean(dialogue)', planned', less)
    <3> HIDE DEF n
    <3> QED
      BY <1>1, <1>5, <1>9, <1>10, <1>11, <2>1, HeldResult DEF call, less
  <2> QED
    BY <2>2, <2>3
<1>13. planned' \in Seq(AgentPlan)
  BY <1>2, <1>4, <1>10
<1>14. session.plan # Unset
  BY <1>1 DEF PickupHeld
<1> QED
  BY <1>4, <1>5, <1>7, <1>8, <1>12, <1>13, <1>14 DEF PickupHeld, x

\* Breaks.
LEMMA BreaksHeld ==
    ASSUME PickupHeld, session.plan # Unset, Pick!Breaks
    PROVE  PickupHeld'
<1> DEFINE r == Pick!TornLine
           x == Pick!Extracted(dialogue)
           source == session.source
           W == session.words
           n == Len(dialogue)
<1>1. r \in PickRecord(W) /\ r.word = Unset /\ r.kind = "torn"
  BY DEF PickRecord, Pick!TornLine
<1>2. Pick!Recorded(r) /\ session' = session /\ truth' = truth
  BY DEF Pick!Breaks
<1>3. /\ dialogue' = Append(dialogue, r) /\ Streams(source, W, dialogue') /\ session' \in WorkSession
      /\ x \in PlanStates /\ x' = Pick!Observe(x, r) /\ InOrder(x)' /\ n \in Nat /\ n' = n + 1
      /\ ~Clean(dialogue)'
  BY <1>1, <1>2, RecordHeld
<1>4. Unset \notin W /\ Streams(source, W, dialogue)
      /\ TruthIs(source, W, Talk(source, dialogue), Work(source, dialogue), truth)
  BY PickupConstants DEF PickupHeld
<1>5. TruthIs(source, W, Talk(source, dialogue'), Work(source, dialogue'), truth)
  BY <1>1, <1>3, <1>4, NothingTold
<1>6. x'.pending = x.pending /\ x'.confirmed = x.confirmed
  <2>1. Pick!Observe(x, r) = [x EXCEPT !.lines = x.lines + 1]
    BY <1>1 DEF Pick!Observe
  <2> HIDE DEF x
  <2> QED
    BY <1>3, <2>1 DEF PlanStates
<1>7. PlanHeld(x, n, Clean(dialogue), planned, calls) /\ planned \in Seq(AgentPlan) /\ calls \in Seq(OpenCall)
  BY DEF PickupHeld
<1> DEFINE y == Pick!Extracted(dialogue)'
           clean == Clean(dialogue)
           still == Clean(dialogue)'
<1>8. y.pending = x.pending /\ y.confirmed = x.confirmed
  BY <1>6
<1>9. ~still
  BY <1>3
<1>10. Pick!Breaks
  OBVIOUS
<1> HIDE DEF r, x, n, y, clean, still
<1>11. PlanHeld(y, n + 1, still, planned', calls') /\ planned' \in Seq(AgentPlan) /\ calls' \in Seq(OpenCall)
  <2>0. n \in Nat /\ n = Len(dialogue) /\ PlanHeld(x, n, clean, planned, calls)
    BY <1>3, <1>7 DEF n, clean
  <2>1. CASE UNCHANGED <<calls, planned>>
    BY <1>7, <1>8, <1>9, <2>0, <2>1, HeldOn
  <2>2. ASSUME NEW items \in AgentPlan,
               calls' = Append(calls, [id |-> Len(dialogue) + 1, items |-> items]), UNCHANGED planned
        PROVE  PlanHeld(y, n + 1, still, planned', calls') /\ planned' \in Seq(AgentPlan) /\ calls' \in Seq(OpenCall)
    <3>1. Noted(x, y, n + 1, items) /\ n + 1 \in {n + 1, Unset}
      BY <1>8 DEF Noted
    <3>2. calls' = Append(calls, [id |-> n + 1, items |-> items])
      BY <2>0, <2>2
    <3>3. /\ PlanHeld(y, n + 1, still, planned, Append(calls, [id |-> n + 1, items |-> items]))
          /\ Append(calls, [id |-> n + 1, items |-> items]) \in Seq(OpenCall)
      <4>1. still => clean /\ n + 1 # Unset /\ y.pending # x.pending
        BY <1>9
      <4> DEFINE id == n + 1
      <4>2. id \in {n + 1, Unset} /\ Noted(x, y, id, items) /\ (still => clean /\ id # Unset /\ y.pending # x.pending)
        BY <3>1, <4>1
      <4> HIDE DEF id
      <4>3. /\ PlanHeld(y, n + 1, still, planned, Append(calls, [id |-> id, items |-> items]))
            /\ Append(calls, [id |-> id, items |-> items]) \in Seq(OpenCall)
        BY <1>7, <1>8, <2>0, <2>2, <4>2, HeldCall
      <4> QED
        BY <4>3 DEF id
    <3> QED
      BY <1>7, <2>2, <3>2, <3>3
  <2>3. ASSUME NEW i \in DOMAIN calls, calls' = Pick!RemoveAt(calls, i), planned' = Append(planned, calls[i].items)
        PROVE  PlanHeld(y, n + 1, still, planned', calls') /\ planned' \in Seq(AgentPlan) /\ calls' \in Seq(OpenCall)
    <3>1. i \in 1 .. Len(calls) /\ calls[i].items \in AgentPlan
      <4>1. calls \in Seq(OpenCall)
        BY <1>7
      <4>2. i \in 1 .. Len(calls) /\ calls[i] \in OpenCall
        BY <4>1
      <4> QED
        BY <4>2 DEF OpenCall
    <3>2. Took(x, y, calls[i].id, calls[i].items, planned, planned', still)
      BY <1>8, <1>9, <2>3 DEF Took
    <3>3. PlanHeld(y, n + 1, still, planned', Pick!RemoveAt(calls, i))
      BY <1>7, <1>8, <1>9, <2>0, <3>1, <3>2, HeldResult
    <3>4. Pick!RemoveAt(calls, i) \in Seq(OpenCall)
      BY <1>7, <3>1, FewerCalls
    <3> QED
      BY <1>7, <2>3, <3>1, <3>3, <3>4
  <2> QED
    BY <1>10, <2>1, <2>2, <2>3 DEF Pick!Breaks
<1> QED
  BY <1>2, <1>3, <1>5, <1>11 DEF PickupHeld, x, y, n, still

-----------------------------------------------------------------------------
(***************************************************************************)
(* Pickup, the commands: what is found and reported is what was so when the*)
(* last record was read.                                                   *)
(***************************************************************************)

\* What is said of a session is so, unless the session went on since.
Reports(reasons, fresh, cut) ==
    fresh \in BOOLEAN /\ (fresh => VerdictIs(reasons, ~cut, session.source, truth))

Report(cp, reasons, confidence, fresh, cut) ==
    [checkpoint |-> cp, reasons |-> reasons, confidence |-> confidence, fresh |-> fresh, cut |-> cut]

FoundHeld ==
    candidate # Unset =>
        \E cp, reasons, confidence, fresh, cut :
            candidate = Report(cp, reasons, confidence, fresh, cut) /\ Reports(reasons, fresh, cut)

\* What each command may have reported.
Refusals == {"error", "not_found", "other", "ambiguous"}
SaidCandidate ==
    \E cp, reasons, confidence, fresh, cut :
        /\ pickupOutput = Pick!Candidate(Report(cp, reasons, confidence, fresh, cut)) /\ Reports(reasons, fresh, cut)
        /\ session.known /\ lastCheckpoint # Damaged => ~Pick!Terminal(lastCheckpoint)
SaidPickedUp ==
    \E cp, reasons, confidence, fresh, cut :
        /\ pickupOutput = Pick!PickedUp(Report(cp, reasons, confidence, fresh, cut), Pick!TaskState(dialogue),
                                     Pick!NextAction(cp, Pick!TaskState(dialogue)))
        /\ Reports(reasons, fresh, cut)
OutputHeld ==
    \/ pickupOutput = Unset
    \/ pickupOutput.kind \in Refusals
    \/ pickupOutput.kind = "excluded" /\ Pick!Terminal(lastCheckpoint)
    \/ SaidCandidate
    \/ SaidPickedUp

PickupInv == PickupHeld /\ FoundHeld /\ OutputHeld

LEMMA PickupInit == Pick!Init => PickupInv
<1> SUFFICES ASSUME Pick!Init PROVE PickupInv
  OBVIOUS
<1> DEFINE source == session.source
           W == session.words
<1>1. /\ session \in WorkSession /\ dialogue = << >> /\ candidate = Unset /\ pickupOutput = Unset
      /\ truth = [asked |-> FALSE, ended |-> Unset, failing |-> FALSE] /\ planned = << >> /\ calls = << >>
  BY DEF Pick!Init
<1>2. /\ Streams(source, W, << >>)
      /\ TruthIs(source, W, Talk(source, << >>), Work(source, << >>), truth)
  BY <1>1, StreamsFirst, TruthFirst
<1>3. Pick!Extracted(<< >>) = Pick!NoWrites
  <2>1. << >> \in Seq(PickRecord(W)) /\ Len(<< >>) = 0
    OBVIOUS
  <2>2. PICK f : Iterates(0, PlanStates, Pick!NoWrites, Observing(<< >>), f) /\ Pick!Extracted(<< >>) = f[0]
    BY <2>1, ExtractedIterates
  <2> QED
    BY <2>2 DEF Iterates
<1>4. InOrder(Pick!NoWrites)
  BY DEF InOrder, Waits, Pick!NoWrites, Pick!ToSet
<1>5. PlanHeld(Pick!NoWrites, 0, Clean(<< >>), << >>, << >>)
  BY DEF PlanHeld, Pick!NoWrites
<1>6. << >> \in Seq(AgentPlan) /\ << >> \in Seq(OpenCall) /\ << >> \in Seq(WordRecord(W)) /\ Len(<< >>) = 0
  OBVIOUS
<1>7. PickupHeld
  BY <1>1, <1>2, <1>3, <1>4, <1>5, <1>6 DEF PickupHeld
<1> QED
  BY <1>1, <1>7 DEF PickupInv, FoundHeld, OutputHeld

\* A command that reads leaves all that it reads.
LEMMA Steady ==
    ASSUME PickupHeld, UNCHANGED <<session, dialogue, truth, planned, calls>>
    PROVE  /\ PickupHeld'
           /\ \A reasons, fresh, cut : Reports(reasons, fresh, cut) => Reports(reasons, fresh, cut)'
<1>1. PickupHeld'
  BY DEF PickupHeld
<1>2. \A reasons, fresh, cut : Reports(reasons, fresh, cut) => Reports(reasons, fresh, cut)'
  BY DEF Reports
<1> QED
  BY <1>1, <1>2

\* A record makes what was found old.
LEMMA RecordInv ==
    ASSUME FoundHeld, NEW r, Pick!Recorded(r), PickupHeld'
    PROVE  PickupInv'
<1>1. pickupOutput' = Unset /\ candidate' = IF candidate = Unset THEN Unset ELSE [candidate EXCEPT !.fresh = FALSE]
  BY DEF Pick!Recorded
<1>2. FoundHeld'
  <2>1. CASE candidate = Unset
    BY <1>1, <2>1 DEF FoundHeld
  <2>2. CASE candidate # Unset
    <3>1. PICK cp, reasons, confidence, fresh, cut : candidate = Report(cp, reasons, confidence, fresh, cut)
      BY <2>2 DEF FoundHeld
    <3>2. candidate' = Report(cp, reasons, confidence, FALSE, cut)
      BY <1>1, <2>2, <3>1 DEF Report
    <3>3. Reports(reasons, FALSE, cut)'
      BY DEF Reports
    <3> QED
      BY <3>2, <3>3, Zenon DEF FoundHeld
  <2> QED
    BY <2>1, <2>2
<1> QED
  BY <1>1, <1>2 DEF PickupInv, OutputHeld

\* The checkpoint that a command knows.
LEMMA KnownIs ==
    ASSUME NEW scope
    PROVE  Pick!Known(scope) = lastCheckpoint \/ (Pick!Known(scope) = Unset /\ ~session.known)
<1>1. CASE session.known
  BY <1>1 DEF Pick!Known
<1>2. CASE ~session.known
  BY <1>2 DEF Pick!Known
<1> QED
  BY <1>1, <1>2

\* What is inspected may be reported.
LEMMA InspectedHeld ==
    ASSUME PickupHeld, NEW start \in Nat, NEW cp
    PROVE  \E reasons, confidence, fresh, cut :
              Pick!Inspected(cp, start) = Report(cp, reasons, confidence, fresh, cut) /\ Reports(reasons, fresh, cut)
<1> DEFINE c == Pick!Inspected(cp, start)
<1>1. PICK reasons, confidence, fresh, cut : c = Report(cp, reasons, confidence, fresh, cut)
  BY DEF Pick!Inspected, Report
<1>2. VerdictIs(c.reasons, ~c.cut, session.source, truth) /\ c.fresh = TRUE
  BY InspectedIs
<1> HIDE DEF c
<1>3. c.reasons = reasons /\ c.cut = cut /\ c.fresh = fresh
  BY <1>1 DEF Report
<1>4. Reports(reasons, fresh, cut)
  BY <1>2, <1>3 DEF Reports
<1> QED
  BY <1>1, <1>4, Zenon DEF c

\* unfinished.
LEMMA UnfinishedInv ==
    ASSUME PickupInv, NEW scope, NEW start \in Nat, Pick!Unfinished(scope, start)
    PROVE  PickupInv'
<1> DEFINE cp == Pick!Known(scope)
           c == Pick!Inspected(cp, start)
<1>1. /\ UNCHANGED <<session, dialogue, truth, planned, calls>> /\ candidate' = candidate
      /\ lastCheckpoint' = lastCheckpoint
      /\ pickupOutput' = IF cp = Damaged THEN [kind |-> "error"]
                         ELSE IF Pick!Terminal(cp) THEN [kind |-> "excluded", known |-> cp]
                         ELSE Pick!Candidate(c)
  BY DEF Pick!Unfinished
<1>2. PickupHeld /\ FoundHeld
  BY DEF PickupInv
<1>3. PickupHeld' /\ \A reasons, fresh, cut : Reports(reasons, fresh, cut) => Reports(reasons, fresh, cut)'
  BY <1>1, <1>2, Steady
<1>4. FoundHeld'
  <2>1. CASE candidate = Unset
    BY <1>1, <2>1 DEF FoundHeld
  <2>2. CASE candidate # Unset
    <3>1. PICK dp, reasons, confidence, fresh, cut :
             candidate = Report(dp, reasons, confidence, fresh, cut) /\ Reports(reasons, fresh, cut)
      BY <1>2, <2>2 DEF FoundHeld
    <3>2. candidate' = Report(dp, reasons, confidence, fresh, cut) /\ Reports(reasons, fresh, cut)'
      BY <1>1, <1>3, <3>1
    <3> QED
      BY <3>2, Zenon DEF FoundHeld
  <2> QED
    BY <2>1, <2>2
<1>5. cp = lastCheckpoint \/ (cp = Unset /\ ~session.known)
  BY KnownIs
<1> HIDE DEF cp, c
<1>6. OutputHeld'
  <2>1. CASE cp = Damaged
    BY <1>1, <2>1 DEF OutputHeld, Refusals
  <2>2. CASE cp # Damaged /\ Pick!Terminal(cp)
    <3>1. pickupOutput'.kind = "excluded"
      BY <1>1, <2>2
    <3>2. Pick!Terminal(lastCheckpoint)'
      BY <1>1, <1>5, <2>2 DEF Pick!Terminal
    <3> QED
      BY <3>1, <3>2 DEF OutputHeld
  <2>3. CASE cp # Damaged /\ ~Pick!Terminal(cp)
    <3>1. pickupOutput' = Pick!Candidate(c)
      BY <1>1, <2>3
    <3>2. session.known /\ lastCheckpoint # Damaged => ~Pick!Terminal(lastCheckpoint)
      BY <1>5, <2>3
    <3>3. PICK reasons, confidence, fresh, cut :
             c = Report(cp, reasons, confidence, fresh, cut) /\ Reports(reasons, fresh, cut)
      BY <1>2, InspectedHeld DEF c
    <3>5. Reports(reasons, fresh, cut)'
      BY <1>3, <3>3
    <3>6. SaidCandidate'
      <4>1. pickupOutput' = Pick!Candidate(Report(cp, reasons, confidence, fresh, cut))
        BY <3>1, <3>3
      <4>2. (session.known /\ lastCheckpoint # Damaged => ~Pick!Terminal(lastCheckpoint))'
        BY <1>1, <3>2
      <4> QED
        BY <3>5, <4>1, <4>2 DEF SaidCandidate
    <3> QED
      BY <3>6 DEF OutputHeld
  <2> QED
    BY <2>1, <2>2, <2>3
<1> QED
  BY <1>3, <1>4, <1>6 DEF PickupInv

\* pickup, of the only candidate.
LEMMA FindInv ==
    ASSUME PickupInv, NEW scope, NEW start \in Nat, Pick!Find(scope, start)
    PROVE  PickupInv'
<1> DEFINE cp == Pick!Known(scope)
           closed == Pick!Terminal(cp)
           count == session.rivals + IF closed THEN 0 ELSE 1
           c == Pick!Inspected(cp, start)
<1>1. /\ UNCHANGED <<session, dialogue, truth, planned, calls>>
      /\ IF cp = Damaged THEN pickupOutput' = [kind |-> "error"] /\ candidate' = Unset
         ELSE IF count # 1 \/ closed THEN
              /\ pickupOutput' = [kind |-> IF count = 0 THEN "not_found" ELSE IF count = 1 THEN "other" ELSE "ambiguous",
                                  known |-> cp]
              /\ candidate' = Unset
         ELSE candidate' = c /\ pickupOutput' = Unset
  BY DEF Pick!Find
<1>2. PickupHeld
  BY DEF PickupInv
<1>3. PickupHeld' /\ \A reasons, fresh, cut : Reports(reasons, fresh, cut) => Reports(reasons, fresh, cut)'
  BY <1>1, <1>2, Steady
<1> HIDE DEF cp, count, closed, c
<1>4. CASE candidate' = Unset
  <2>1. FoundHeld'
    BY <1>4 DEF FoundHeld
  <2>2. pickupOutput' = Unset \/ pickupOutput'.kind \in Refusals
    BY <1>1 DEF Refusals
  <2>3. OutputHeld'
    BY <2>2 DEF OutputHeld
  <2> QED
    BY <1>3, <2>1, <2>3 DEF PickupInv
<1>5. CASE candidate' = c /\ pickupOutput' = Unset
  <2>1. PICK reasons, confidence, fresh, cut :
           c = Report(cp, reasons, confidence, fresh, cut) /\ Reports(reasons, fresh, cut)
    BY <1>2, InspectedHeld DEF c
  <2>2. candidate' = Report(cp, reasons, confidence, fresh, cut) /\ Reports(reasons, fresh, cut)'
    BY <1>3, <1>5, <2>1
  <2>3. FoundHeld'
    BY <2>2, Zenon DEF FoundHeld
  <2> QED
    BY <1>3, <1>5, <2>3 DEF PickupInv, OutputHeld
<1> QED
  BY <1>1, <1>4, <1>5

\* pickup, of a session that is named.
LEMMA ResolveInv ==
    ASSUME PickupInv, NEW scope, Pick!Resolve(scope)
    PROVE  PickupInv'
<1> DEFINE cp == Pick!Known(scope)
           reasons == {IF cp = Unset THEN "explicit_session_selection" ELSE "checkpoint_" \o cp.status}
<1>1. /\ UNCHANGED <<session, dialogue, truth, planned, calls>>
      /\ IF cp = Damaged THEN pickupOutput' = [kind |-> "error"] /\ candidate' = Unset
         ELSE candidate' = Report(cp, reasons, "high", FALSE, FALSE) /\ pickupOutput' = Unset
  BY DEF Pick!Resolve, Report
<1>2. PickupHeld
  BY DEF PickupInv
<1>3. PickupHeld'
  BY <1>1, <1>2, Steady
<1> HIDE DEF cp, reasons
<1>4. CASE pickupOutput' = [kind |-> "error"] /\ candidate' = Unset
  <2>1. FoundHeld' /\ pickupOutput'.kind \in Refusals
    BY <1>4 DEF FoundHeld, Refusals
  <2> QED
    BY <1>3, <2>1 DEF PickupInv, OutputHeld
<1>5. CASE candidate' = Report(cp, reasons, "high", FALSE, FALSE) /\ pickupOutput' = Unset
  <2>1. PICK mark, codes, confidence : mark = cp /\ codes = reasons /\ confidence = "high"
    OBVIOUS
  <2>2. candidate' = Report(mark, codes, confidence, FALSE, FALSE) /\ Reports(codes, FALSE, FALSE)'
    BY <1>5, <2>1 DEF Reports
  <2>3. FoundHeld'
    BY <2>2, Zenon DEF FoundHeld
  <2> QED
    BY <1>3, <1>5, <2>3 DEF PickupInv, OutputHeld
<1> QED
  BY <1>1, <1>4, <1>5

\* build_pickup.
LEMMA BuildInv ==
    ASSUME PickupInv, Pick!Build
    PROVE  PickupInv'
<1> DEFINE plan == Pick!TaskState(dialogue)
<1>1. /\ UNCHANGED <<session, dialogue, truth, planned, calls>> /\ candidate' = Unset /\ candidate # Unset
      /\ pickupOutput' = Pick!PickedUp(candidate, plan, Pick!NextAction(candidate.checkpoint, plan))
  BY DEF Pick!Build
<1>2. PickupHeld /\ FoundHeld
  BY DEF PickupInv
<1>3. PickupHeld' /\ \A reasons, fresh, cut : Reports(reasons, fresh, cut) => Reports(reasons, fresh, cut)'
  BY <1>1, <1>2, Steady
<1>4. PICK cp, reasons, confidence, fresh, cut :
         candidate = Report(cp, reasons, confidence, fresh, cut) /\ Reports(reasons, fresh, cut)
  BY <1>1, <1>2 DEF FoundHeld
<1>5. candidate.checkpoint = cp
  BY <1>4 DEF Report
<1>6. Pick!TaskState(dialogue)' = plan
  BY <1>1
<1> HIDE DEF plan
<1>7. pickupOutput' = Pick!PickedUp(Report(cp, reasons, confidence, fresh, cut), plan, Pick!NextAction(cp, plan))
  BY <1>1, <1>4, <1>5
<1>8. SaidPickedUp'
  <2>1. Reports(reasons, fresh, cut)'
    BY <1>3, <1>4
  <2>2. pickupOutput' = Pick!PickedUp(Report(cp, reasons, confidence, fresh, cut), Pick!TaskState(dialogue)',
                                   Pick!NextAction(cp, Pick!TaskState(dialogue)'))
    BY <1>6, <1>7
  <2> QED
    BY <2>1, <2>2, Zenon DEF SaidPickedUp
<1> QED
  BY <1>1, <1>3, <1>8 DEF PickupInv, FoundHeld, OutputHeld

\* RecordCheckpoint.
LEMMA CheckpointInv ==
    ASSUME PickupInv, NEW cp, Pick!RecordCheckpoint(cp)
    PROVE  PickupInv'
<1>1. UNCHANGED <<session, dialogue, truth, planned, calls>> /\ candidate' = candidate /\ pickupOutput' = Unset
  BY DEF Pick!RecordCheckpoint
<1>2. PickupHeld /\ FoundHeld
  BY DEF PickupInv
<1>3. PickupHeld'
  BY <1>1, <1>2, Steady
<1>4. FoundHeld'
  BY <1>1, <1>2 DEF FoundHeld, Reports
<1> QED
  BY <1>1, <1>3, <1>4 DEF PickupInv, OutputHeld

LEMMA PickupStill == PickupInv /\ UNCHANGED pickupVars => PickupInv'
<1> SUFFICES ASSUME PickupInv, UNCHANGED pickupVars PROVE PickupInv'
  OBVIOUS
<1>1. /\ UNCHANGED <<session, dialogue, truth, planned, calls>> /\ candidate' = candidate
      /\ pickupOutput' = pickupOutput /\ lastCheckpoint' = lastCheckpoint
  BY DEF pickupVars
<1>2. PickupHeld /\ FoundHeld /\ OutputHeld
  BY DEF PickupInv
<1>3. PickupHeld'
  BY <1>1, <1>2, Steady
<1>4. FoundHeld'
  BY <1>1, <1>2 DEF FoundHeld, Reports
<1>5. Pick!TaskState(dialogue)' = Pick!TaskState(dialogue)
  BY <1>1
<1>6. OutputHeld'
  BY <1>1, <1>2, <1>5 DEF OutputHeld, SaidCandidate, SaidPickedUp, Reports
<1> QED
  BY <1>3, <1>4, <1>6 DEF PickupInv

\* The session and the commands.
LEMMA PickupStep == PickupInv /\ Pick!Next => PickupInv'
<1> SUFFICES ASSUME PickupInv, Pick!Next PROVE PickupInv'
  OBVIOUS
<1>1. PickupHeld /\ FoundHeld
  BY DEF PickupInv
<1>2. CASE \E word \in session.words : Pick!Says(word)
  <2>1. PICK word \in session.words : Pick!Says(word)
    BY <1>2
  <2>2. Pick!Recorded(Pick!Word(word))
    BY <2>1 DEF Pick!Says
  <2> QED
    BY <1>1, <2>1, <2>2, SaysHeld, RecordInv
<1>3. ASSUME NEW items \in AgentPlan, NEW id \in {Len(dialogue) + 1, Unset}, session.plan # Unset, Pick!Calls(id, items)
      PROVE  PickupInv'
  <2>1. Pick!Recorded(Pick!Call(id, items))
    BY <1>3 DEF Pick!Calls
  <2>2. PickupHeld'
    BY <1>1, <1>3, CallsHeld
  <2> QED
    BY <1>1, <2>1, <2>2, RecordInv
<1>4. ASSUME NEW i \in DOMAIN calls, NEW failed \in BOOLEAN, NEW shape, Pick!Answers(i, failed, shape)
      PROVE  PickupInv'
  <2>1. \E r : Pick!Recorded(r)
    BY <1>4, Zenon DEF Pick!Answers
  <2>2. PickupHeld'
    BY <1>1, <1>4, AnswersHeld
  <2> QED
    BY <1>1, <2>1, <2>2, RecordInv
<1>5. CASE session.plan # Unset /\ Pick!Breaks
  <2>1. Pick!Recorded(Pick!TornLine)
    BY <1>5 DEF Pick!Breaks
  <2>2. PickupHeld'
    BY <1>1, <1>5, BreaksHeld
  <2> QED
    BY <1>1, <2>1, <2>2, RecordInv
<1>6. CASE \E cp \in session.marks : Pick!RecordCheckpoint(cp)
  BY <1>6, CheckpointInv
<1>7. ASSUME NEW scope, Pick!Resolve(scope) PROVE PickupInv'
  BY <1>7, ResolveInv
<1>8. ASSUME NEW scope, NEW start \in Pick!Starts, Pick!Unfinished(scope, start) \/ Pick!Find(scope, start)
      PROVE  PickupInv'
  <2>1. start \in Nat
    BY DEF Pick!Starts
  <2> QED
    BY <1>8, <2>1, UnfinishedInv, FindInv
<1>9. CASE Pick!Build
  BY <1>9, BuildInv
<1>10. {Len(dialogue) + 1} \union (IF session.plan = "any" THEN {Unset} ELSE {}) \subseteq {Len(dialogue) + 1, Unset}
  OBVIOUS
<1> QED
  BY <1>2, <1>3, <1>4, <1>5, <1>6, <1>7, <1>8, <1>9, <1>10 DEF Pick!Next

\* What unfinished and pickup say of a session is what was so.
LEMMA PickupHolds == PickupInv => Pick!PickupIsTrue
<1> SUFFICES ASSUME PickupInv PROVE Pick!PickupIsTrue
  OBVIOUS
<1> DEFINE out == pickupOutput
           plan == Pick!TaskState(dialogue)
<1>1. PickupHeld /\ OutputHeld
  BY DEF PickupInv
<1>2. CASE out = Unset
  BY <1>2 DEF Pick!PickupIsTrue, Pick!ReasonsAreTrue, Pick!PlanIsTrue, Pick!OfferIsOpen
<1>3. CASE out.kind \in Refusals
  BY <1>3 DEF Refusals, Pick!PickupIsTrue, Pick!ReasonsAreTrue, Pick!PlanIsTrue, Pick!OfferIsOpen
<1>4. CASE out.kind = "excluded" /\ Pick!Terminal(lastCheckpoint)
  BY <1>4 DEF Pick!PickupIsTrue, Pick!ReasonsAreTrue, Pick!PlanIsTrue, Pick!OfferIsOpen
<1>5. ASSUME NEW reasons, NEW fresh, NEW cut, Reports(reasons, fresh, cut),
             out.reasons = reasons, out.fresh = fresh, out.cut = cut
      PROVE  Pick!ReasonsAreTrue
  BY <1>5 DEF Reports, VerdictIs, Databases, Pick!ReasonsAreTrue, Pick!Says_
<1>6. CASE SaidCandidate
  <2>1. PICK cp, reasons, confidence, fresh, cut :
           /\ out = Pick!Candidate(Report(cp, reasons, confidence, fresh, cut)) /\ Reports(reasons, fresh, cut)
           /\ session.known /\ lastCheckpoint # Damaged => ~Pick!Terminal(lastCheckpoint)
    BY <1>6 DEF SaidCandidate
  <2>2. out.kind = "candidate" /\ out.reasons = reasons /\ out.fresh = fresh /\ out.cut = cut
    BY <2>1 DEF Pick!Candidate, Report
  <2>3. Pick!ReasonsAreTrue
    BY <1>5, <2>1, <2>2
  <2>4. Pick!PlanIsTrue /\ Pick!OfferIsOpen
    BY <2>1, <2>2 DEF Pick!PlanIsTrue, Pick!OfferIsOpen
  <2> QED
    BY <2>3, <2>4 DEF Pick!PickupIsTrue
<1>7. CASE SaidPickedUp
  <2>1. PICK cp, reasons, confidence, fresh, cut :
           /\ out = Pick!PickedUp(Report(cp, reasons, confidence, fresh, cut), plan, Pick!NextAction(cp, plan))
           /\ Reports(reasons, fresh, cut)
    BY <1>7 DEF SaidPickedUp
  <2>2. /\ out.kind = "picked_up" /\ out.reasons = reasons /\ out.fresh = fresh /\ out.cut = cut
        /\ out.plan = plan /\ out.next = Pick!NextAction(cp, plan)
    BY <2>1 DEF Pick!PickedUp, Report
  <2>3. Pick!ReasonsAreTrue
    BY <1>5, <2>1, <2>2
  <2> DEFINE x == Pick!Extracted(dialogue)
  <2>4. \/ plan = Unset /\ x.confirmed = {}
        \/ x.confirmed = {} /\ plan.confirmed = FALSE /\ plan.items \in AgentPlan
        \/ \E w \in x.confirmed : plan = [items |-> w.items, confirmed |-> TRUE] /\ plan.items \in AgentPlan
    <3>1. x \in PlanStates
      <4>1. dialogue \in Seq(PickRecord(session.words))
        BY <1>1 DEF PickupHeld, Streams
      <4> QED
        BY <4>1, ExtractedAppend DEF PickRecord
    <3>2. InOrder(x)
      BY <1>1 DEF PickupHeld
    <3> QED
      BY <3>1, <3>2, TaskStateIs
  <2>5. PlanHeld(x, Len(dialogue), Clean(dialogue), planned, calls)
    BY <1>1 DEF PickupHeld
  <2> HIDE DEF x, plan
  <2>6. Pick!PlanIsTrue
    <3>1. plan # Unset /\ plan.confirmed => plan.items \in Pick!ToSet(planned)
      BY <2>4, <2>5 DEF PlanHeld
    <3>2. planned # << >> /\ Clean(dialogue) => plan = [items |-> Pick!Last(planned), confirmed |-> TRUE]
      BY <2>4, <2>5 DEF PlanHeld
    <3> QED
      BY <2>2, <3>1, <3>2 DEF Pick!PlanIsTrue, Clean
  <2>7. Pick!OfferIsOpen
    <3> SUFFICES ASSUME out.next.basis = "task_state"
                 PROVE  \E item \in Pick!ToSet(out.plan.items) :
                           item.text = out.next.text /\ item.status \in {"in_progress", "pending"}
      BY <2>2 DEF Pick!OfferIsOpen
    <3> DEFINE Of(status) == {i \in DOMAIN plan.items : plan.items[i].status = status}
               first == IF Of("in_progress") # {} THEN Of("in_progress") ELSE Of("pending")
               i == Pick!Min(first)
    <3>1. plan # Unset /\ first # {} /\ out.next.text = plan.items[i].text
      BY <2>2 DEF Pick!NextAction
    <3>2. plan.items \in Seq(Pick!ToSet(plan.items))
      BY <2>4, <3>1, PickupConstants
    <3>3. DOMAIN plan.items \subseteq Nat
      BY <3>2
    <3>4. first \subseteq DOMAIN plan.items /\ \A k \in first : plan.items[k].status \in {"in_progress", "pending"}
      OBVIOUS
    <3> HIDE DEF first
    <3>5. i \in first
      <4>1. \E k \in first : \A h \in first : k <= h
        BY <3>1, <3>3, <3>4, LeastNat
      <4>2. i = CHOOSE k \in first : \A h \in first : k <= h
        BY DEF Pick!Min
      <4> QED
        BY <4>1, <4>2, Zenon
    <3> HIDE DEF i
    <3>6. plan.items[i] \in Pick!ToSet(plan.items)
      BY <3>4, <3>5 DEF Pick!ToSet
    <3> QED
      BY <2>2, <3>1, <3>4, <3>5, <3>6
  <2> QED
    BY <2>3, <2>6, <2>7 DEF Pick!PickupIsTrue
<1> QED
  BY <1>1, <1>2, <1>3, <1>4, <1>6, <1>7 DEF OutputHeld

-----------------------------------------------------------------------------
(***************************************************************************)
(* Trace: lists that are kept in order, and the best of what is pending.   *)
(***************************************************************************)

\* Trace counts, and lists, as the standard modules do.
LEMMA SearchCounts == ASSUME NEW X PROVE Seek!Cardinality(X) = Cardinality(X)
BY DEF Cardinality, Seek!Cardinality

\* The modules that Trace extends mean the same by a finite set.
LEMMA SearchFinite == ASSUME NEW X PROVE Seek!IsFiniteSet(X) <=> IsFiniteSet(X)
BY DEF IsFiniteSet, Seek!IsFiniteSet

\* The members of a list.
Entries(s) == {s[i] : i \in DOMAIN s}

LEMMA SearchEntries == ASSUME NEW s PROVE Seek!ToSet(s) = Entries(s)
BY DEF Seek!ToSet, Entries

\* A function on a run of positions is a list of its values.
LEMMA RunIs ==
    ASSUME NEW X, NEW n \in Nat, NEW f \in [1 .. n -> X]
    PROVE  f \in Seq(X) /\ Len(f) = n /\ DOMAIN f = 1 .. n
OBVIOUS

\* A list in which each element of X is at the place of its rank.
ListOf(X, before) ==
    [k \in 1 .. Cardinality(X) |-> CHOOSE x \in X : Cardinality(Lower(X, before, x)) = k - 1]

\* Sorting a set lists each of its elements.
LEMMA ListOfIs ==
    ASSUME NEW X, IsFiniteSet(X), NEW before, Ranks(X, before)
    PROVE  /\ ListOf(X, before) \in Seq(X) /\ Len(ListOf(X, before)) = Cardinality(X)
           /\ Cardinality(X) \in Nat /\ DOMAIN ListOf(X, before) = 1 .. Cardinality(X)
           /\ Entries(ListOf(X, before)) = X
<1> DEFINE f == ListOf(X, before)
           n == Cardinality(X)
<1>1. n \in Nat
  BY FS_CardinalityType
<1>2. f \in [1 .. n -> X]
  <2>1. \A k \in 1 .. n : (CHOOSE x \in X : Cardinality(Lower(X, before, x)) = k - 1) \in X
    BY PlaceIsTaken
  <2> QED
    BY <2>1 DEF ListOf
<1>3. \A x \in X : \E k \in 1 .. n : f[k] = x
  <2> TAKE x \in X
  <2>1. PICK k \in 1 .. n : (CHOOSE y \in X : Cardinality(Lower(X, before, y)) = k - 1) = x
    BY OrderedHas
  <2>2. f[k] = x
    BY <2>1 DEF ListOf
  <2> QED
    BY <2>2
<1> HIDE DEF f, n
<1>4. f \in Seq(X) /\ Len(f) = n /\ DOMAIN f = 1 .. n
  BY <1>1, <1>2, RunIs
<1>5. Entries(f) = X
  BY <1>2, <1>3, <1>4 DEF Entries
<1> QED
  BY <1>1, <1>4, <1>5 DEF f, n

\* What comes first in a strict order.
LEMMA FirstOf ==
    ASSUME NEW X, IsFiniteSet(X), X # {}, NEW before, Ranks(X, before)
    PROVE  \E x \in X : \A y \in X : y = x \/ <<x, y>> \in before
<1>1. Cardinality(X) \in Nat /\ Cardinality(X) # 0
  BY FS_CardinalityType, FS_EmptySet
<1>2. 1 \in 1 .. Cardinality(X)
  BY <1>1
<1>3. PICK x \in X : Cardinality(Lower(X, before, x)) = 0
  BY <1>2, PlaceIsTaken
<1>4. IsFiniteSet(Lower(X, before, x))
  BY FS_Subset DEF Lower
<1>5. Lower(X, before, x) = {}
  BY <1>3, <1>4, FS_EmptySet
<1> QED
  BY <1>5 DEF Lower, Ranks

\* Lists that are joined, a list that goes on, and a list without one of its members.
LEMMA Joining ==
    ASSUME NEW X, NEW s \in Seq(X), NEW t \in Seq(X)
    PROVE  /\ s \o t \in Seq(X) /\ Len(s \o t) = Len(s) + Len(t)
           /\ \A k \in 1 .. Len(s) + Len(t) : (s \o t)[k] = IF k <= Len(s) THEN s[k] ELSE t[k - Len(s)]
OBVIOUS

LEMMA ListEntries ==
    ASSUME NEW X, NEW s \in Seq(X)
    PROVE  Len(s) \in Nat /\ Entries(s) = {s[k] : k \in 1 .. Len(s)} /\ Entries(s) \subseteq X
BY DEF Entries

LEMMA JoinedIs ==
    ASSUME NEW X, NEW s \in Seq(X), NEW t \in Seq(X)
    PROVE  s \o t \in Seq(X) /\ Len(s \o t) = Len(s) + Len(t) /\ Entries(s \o t) = Entries(s) \union Entries(t)
<1>1. PICK u : u = s \o t
  OBVIOUS
<1>2. PICK m \in Nat : m = Len(s)
  OBVIOUS
<1>3. PICK n \in Nat : n = Len(t)
  OBVIOUS
<1>4. /\ u \in Seq(X) /\ Len(u) = m + n
      /\ \A k \in 1 .. m + n : u[k] = IF k <= m THEN s[k] ELSE t[k - m]
  BY <1>1, <1>2, <1>3, Joining
<1>5. /\ Entries(s) = {s[k] : k \in 1 .. m} /\ Entries(t) = {t[k] : k \in 1 .. n}
      /\ Entries(u) = {u[k] : k \in 1 .. m + n}
  BY <1>2, <1>3, <1>4, ListEntries
<1>6. \A k \in 1 .. m : k \in 1 .. m + n /\ u[k] = s[k]
  BY <1>4
<1>7. \A k \in 1 .. n : m + k \in 1 .. m + n /\ u[m + k] = t[k]
  <2> TAKE k \in 1 .. n
  <2>1. m + k \in 1 .. m + n /\ ~(m + k <= m) /\ (m + k) - m = k
    OBVIOUS
  <2> QED
    BY <1>4, <2>1
<1>8. \A k \in 1 .. m + n : k \in 1 .. m \/ (k - m \in 1 .. n /\ u[k] = t[k - m])
  BY <1>4
<1>9. Entries(u) = Entries(s) \union Entries(t)
  <2>1. \A x : x \in Entries(u) => x \in Entries(s) \/ x \in Entries(t)
    BY <1>5, <1>6, <1>8
  <2>2. \A x : x \in Entries(s) \/ x \in Entries(t) => x \in Entries(u)
    BY <1>5, <1>6, <1>7
  <2> QED
    BY <2>1, <2>2
<1> QED
  BY <1>1, <1>2, <1>3, <1>4, <1>9

LEMMA TakenOut ==
    ASSUME NEW X, NEW s \in Seq(X), NEW i \in DOMAIN s
    PROVE  /\ Seek!RemoveAt(s, i) \in Seq(X) /\ Len(Seek!RemoveAt(s, i)) = Len(s) - 1
           /\ Entries(s) = Entries(Seek!RemoveAt(s, i)) \union {s[i]}
           /\ s[i] \in X /\ Len(s) \in Nat \ {0}
<1>1. PICK n \in Nat : n = Len(s) /\ i \in 1 .. n /\ DOMAIN s = 1 .. n /\ s[i] \in X /\ n # 0
  OBVIOUS
<1>2. Seek!RemoveAt(s, i) = Pick!RemoveAt(s, i)
  BY DEF Seek!RemoveAt, Pick!RemoveAt
<1>3. PICK t : t = Seek!RemoveAt(s, i)
  OBVIOUS
<1>4. t \in Seq(X) /\ Len(t) = n - 1 /\ \A j \in 1 .. n - 1 : t[j] = s[IF j < i THEN j ELSE j + 1]
  BY <1>1, <1>2, <1>3, RemoveAtIs
<1>5. Entries(t) = {t[k] : k \in 1 .. n - 1} /\ Entries(s) = {s[k] : k \in 1 .. n}
  BY <1>1, <1>4 DEF Entries
<1>6. \A j \in 1 .. n - 1 : (IF j < i THEN j ELSE j + 1) \in 1 .. n
  BY <1>1
<1>7. \A k \in 1 .. n : k = i \/ \E j \in 1 .. n - 1 : k = IF j < i THEN j ELSE j + 1
  <2> TAKE k \in 1 .. n
  <2>1. CASE k < i
    BY <1>1, <2>1
  <2>2. CASE k > i
    <3>1. k - 1 \in 1 .. n - 1 /\ k = IF k - 1 < i THEN k - 1 ELSE (k - 1) + 1
      BY <1>1, <2>2
    <3> QED
      BY <3>1
  <2> QED
    BY <1>1, <2>1, <2>2
<1>8. \A x : x \in Entries(t) \/ x = s[i] => x \in Entries(s)
  BY <1>1, <1>4, <1>5, <1>6
<1>9. \A k \in 1 .. n : s[k] = s[i] \/ \E j \in 1 .. n - 1 : s[k] = t[j]
  BY <1>4, <1>7
<1>10. \A x : x \in Entries(s) => x \in Entries(t) \/ x = s[i]
  BY <1>5, <1>9
<1> QED
  BY <1>1, <1>3, <1>4, <1>8, <1>10

LEMMA AppendedIs ==
    ASSUME NEW X, NEW s \in Seq(X), NEW x \in X
    PROVE  /\ Append(s, x) \in Seq(X) /\ Len(Append(s, x)) = Len(s) + 1
           /\ Entries(Append(s, x)) = Entries(s) \union {x}
<1> DEFINE m == Len(s)
           u == Append(s, x)
<1>1. m \in Nat /\ DOMAIN s = 1 .. m
  OBVIOUS
<1>2. /\ u \in Seq(X) /\ Len(u) = m + 1 /\ DOMAIN u = 1 .. m + 1
      /\ u[m + 1] = x /\ \A k \in 1 .. m : u[k] = s[k]
  OBVIOUS
<1>3. \A k \in 1 .. m + 1 : k \in 1 .. m \/ k = m + 1
  BY <1>1
<1>4. m + 1 \in 1 .. m + 1 /\ \A k \in 1 .. m : k \in 1 .. m + 1
  BY <1>1
<1> HIDE DEF m, u
<1>5. Entries(u) = Entries(s) \union {x}
  BY <1>1, <1>2, <1>3, <1>4 DEF Entries
<1> QED
  BY <1>2, <1>5 DEF m, u

\* The best of a list that is not empty, by score, then by node, then by place.
LEMMA BestIs ==
    ASSUME NEW X, NEW s \in Seq(X), s # << >>, \A x \in X : x.score \in Nat /\ x.node \in Nat
    PROVE  Seek!BestAt(s) \in DOMAIN s
<1>1. PICK n \in Nat : n = Len(s) /\ DOMAIN s = 1 .. n /\ n # 0
  OBVIOUS
<1>2. PICK f : f = [i \in 1 .. n |-> s[i].score]
  OBVIOUS
<1>3. PICK h : h = [i \in 1 .. n |-> s[i].node]
  OBVIOUS
<1>9. \A i \in 1 .. n : f[i] = s[i].score /\ f[i] \in Nat /\ h[i] = s[i].node /\ h[i] \in Nat
  BY <1>1, <1>2, <1>3
<1> DEFINE Better(i, j) == f[i] > f[j] \/ (f[i] = f[j] /\ (h[i] < h[j] \/ (h[i] = h[j] /\ i < j)))
           before == {p \in (1 .. n) \X (1 .. n) : Better(p[1], p[2])}
<1>4. IsFiniteSet(1 .. n) /\ 1 .. n # {}
  <2>1. 1 \in 1 .. n /\ 1 \in Int /\ n \in Int
    BY <1>1
  <2>2. IsFiniteSet(1 .. n)
    BY <2>1, FS_Interval
  <2> QED
    BY <2>1, <2>2
<1>5. Ranks(1 .. n, before)
  <2>1. \A x, y \in 1 .. n : <<x, y>> \in before <=> Better(x, y)
    OBVIOUS
  <2>2. \A x, y, z \in 1 .. n : Better(x, y) /\ Better(y, z) => Better(x, z)
    BY <1>9
  <2>3. \A x, y \in 1 .. n : x # y => Better(x, y) \/ Better(y, x)
    BY <1>9
  <2>4. \A x \in 1 .. n : ~Better(x, x)
    BY <1>9
  <2> HIDE DEF before, Better
  <2> QED
    BY <2>1, <2>2, <2>3, <2>4 DEF Ranks
<1>6. PICK x \in 1 .. n : \A y \in 1 .. n : y = x \/ Better(x, y)
  <2>1. PICK x \in 1 .. n : \A y \in 1 .. n : y = x \/ <<x, y>> \in before
    <3> HIDE DEF before
    <3>1. PICK D : D = 1 .. n
      OBVIOUS
    <3>2. IsFiniteSet(D) /\ D # {} /\ Ranks(D, before)
      BY <1>4, <1>5, <3>1
    <3>3. \E x \in D : \A y \in D : y = x \/ <<x, y>> \in before
      BY <3>2, FirstOf
    <3> QED
      BY <3>1, <3>3
  <2> QED
    BY <2>1
<1>7. \A j \in 1 .. n :
         \/ s[x].score > s[j].score
         \/ s[x].score = s[j].score /\ s[x].node < s[j].node
         \/ s[x].score = s[j].score /\ s[x].node = s[j].node /\ x <= j
  <2> TAKE j \in 1 .. n
  <2>1. j = x \/ Better(x, j)
    BY <1>6
  <2> QED
    BY <1>9, <2>1
<1> QED
  BY <1>1, <1>7 DEF Seek!BestAt

\* Larger and smaller of two numbers.
LEMMA SearchMax ==
    ASSUME NEW a \in Int, NEW b \in Int PROVE Seek!Max({a, b}) = IF a >= b THEN a ELSE b
<1>1. \A x \in {a, b} : (\A y \in {a, b} : x >= y) <=> x = IF a >= b THEN a ELSE b
  OBVIOUS
<1>2. (IF a >= b THEN a ELSE b) \in {a, b}
  OBVIOUS
<1> QED
  BY <1>1, <1>2 DEF Seek!Max

LEMMA SearchMin ==
    ASSUME NEW a \in Int, NEW b \in Int PROVE Seek!Min({a, b}) = IF a <= b THEN a ELSE b
<1>1. \A x \in {a, b} : (\A y \in {a, b} : x =< y) <=> x = IF a <= b THEN a ELSE b
  OBVIOUS
<1>2. (IF a <= b THEN a ELSE b) \in {a, b}
  OBVIOUS
<1> QED
  BY <1>1, <1>2 DEF Seek!Min

\* A leading part of a whole list is that list.
LEMMA WholeIs ==
    ASSUME NEW X, NEW s \in Seq(X) PROVE SubSeq(s, 1, Len(s)) = s
OBVIOUS

\* Shares are numbers.
LEMMA ShareIs ==
    ASSUME NEW a \in Nat, NEW d \in Nat \ {0} PROVE a \div d \in Nat
OBVIOUS

-----------------------------------------------------------------------------
(***************************************************************************)
(* Trace: the nodes next to a node, and the walk.                          *)
(***************************************************************************)

\* The nodes of a graph, and what the journal points to.
NodesOf(g) == DOMAIN g.nodes \union DOMAIN g.outside

LEMMA SearchGraphIs ==
    ASSUME NEW g \in TraceJournal
    PROVE  /\ IsFiniteSet(DOMAIN g.nodes) /\ IsFiniteSet(g.links) /\ NodesOf(g) \subseteq Nat
           /\ \A n \in DOMAIN g.nodes :
                 /\ g.nodes[n].score \in Nat
                 /\ \/ g.nodes[n].locator = Unset \/ g.nodes[n].locator.kind = "bare"
                    \/ Seek!IsLocator(g.nodes[n].locator)
           /\ \A n \in DOMAIN g.outside : g.outside[n] = Unset \/ Seek!IsLocator(g.outside[n])
           /\ \A n \in 1 .. 2 * Cardinality(g.links) : SquareRoot[n] \in Nat \ {0}
BY SearchesAssumption, SearchCounts, SearchFinite DEF Seek!TraceAssumption, NodesOf

LEMMA SearchLimits ==
    /\ SeedLimit \in Nat /\ FrontierLimit \in Nat
    /\ \A q \in SearchFor :
          {q.maxSources, q.maxBytes, q.maxRecords, q.maxNodes, q.maxDepth, q.limit} \subseteq Nat
BY SearchesAssumption DEF Seek!TraceAssumption

\* graph.rs, weight: what a link carries.
LEMMA WeightIs ==
    ASSUME NEW kind, NEW reverse \in BOOLEAN
    PROVE  /\ Seek!Weight(kind, reverse) \in {0, 12, 35, 65, 80, 90}
           /\ Seek!Weight(kind, reverse) = 12 <=> kind = "BELONGS_TO"
BY DEF Seek!Weight

\* The values of a function on a finite set.
LEMMA Valued ==
    ASSUME NEW S, IsFiniteSet(S), NEW f, DOMAIN f = S, NEW T, T = {f[x] : x \in S},
           f = [x \in S |-> f[x]]
    PROVE  IsFiniteSet(T) /\ Cardinality(T) <= Cardinality(S)
<1>1. f \in Surjection(S, T)
  BY DEF Surjection
<1> QED
  BY <1>1, FS_Surjection

\* What a node leads to, in one direction.
Outward(g, n) == {Seek!Step(l, FALSE) : l \in {l \in g.links : Seek!Valid(g, l) /\ l.from = n}}
Backward(g, n) == {Seek!Step(l, TRUE) : l \in {l \in g.links : Seek!Valid(g, l) /\ l.to = n}}

LEMMA StepsFinite ==
    ASSUME NEW g \in TraceJournal, NEW n
    PROVE  /\ IsFiniteSet(Outward(g, n)) /\ Cardinality(Outward(g, n)) <= Cardinality(g.links)
           /\ IsFiniteSet(Backward(g, n)) /\ Cardinality(Backward(g, n)) <= Cardinality(g.links)
<1> DEFINE F == {l \in g.links : Seek!Valid(g, l) /\ l.from = n}
           B == {l \in g.links : Seek!Valid(g, l) /\ l.to = n}
           f == [l \in F |-> Seek!Step(l, FALSE)]
           b == [l \in B |-> Seek!Step(l, TRUE)]
<1>1. IsFiniteSet(g.links) /\ F \in SUBSET g.links /\ B \in SUBSET g.links
  BY SearchGraphIs
<1>2. IsFiniteSet(F) /\ IsFiniteSet(B) /\ Cardinality(F) <= Cardinality(g.links) /\ Cardinality(B) <= Cardinality(g.links)
  <2> HIDE DEF F, B
  <2> QED
    BY <1>1, FS_Subset
<1>3. /\ DOMAIN f = F /\ f = [x \in F |-> f[x]] /\ Outward(g, n) = {f[x] : x \in F}
      /\ DOMAIN b = B /\ b = [x \in B |-> b[x]] /\ Backward(g, n) = {b[x] : x \in B}
  BY DEF Outward, Backward
<1>4. Cardinality(F) \in Nat /\ Cardinality(B) \in Nat /\ Cardinality(g.links) \in Nat
  <2> HIDE DEF F, B
  <2> QED
    BY <1>1, <1>2, FS_CardinalityType
<1> HIDE DEF F, B, f, b
<1>5. IsFiniteSet(Outward(g, n)) /\ Cardinality(Outward(g, n)) <= Cardinality(F)
  BY <1>2, <1>3, Valued
<1>6. IsFiniteSet(Backward(g, n)) /\ Cardinality(Backward(g, n)) <= Cardinality(B)
  BY <1>2, <1>3, Valued
<1>7. Cardinality(Outward(g, n)) \in Nat /\ Cardinality(Backward(g, n)) \in Nat
  BY <1>5, <1>6, FS_CardinalityType
<1> QED
  BY <1>2, <1>4, <1>5, <1>6, <1>7

\* graph.rs, adjacency: the steps from a node.
IsStep(g, s) ==
    /\ s.target \in NodesOf(g) /\ s.weight \in {12, 35, 65, 80, 90} /\ s.crowd \in BOOLEAN
    /\ s.crowd <=> s.weight = 12
    /\ s = [target |-> s.target, weight |-> s.weight, crowd |-> s.crowd]

LEMMA StepIs ==
    ASSUME NEW g, NEW l, Seek!Valid(g, l), NEW reverse \in BOOLEAN, Seek!Step(l, reverse).weight > 0
    PROVE  IsStep(g, Seek!Step(l, reverse))
<1>1. /\ Seek!Step(l, reverse).target \in NodesOf(g)
      /\ Seek!Step(l, reverse).weight = Seek!Weight(l.kind, reverse)
      /\ Seek!Step(l, reverse).crowd = (l.kind = "BELONGS_TO")
      /\ Seek!Step(l, reverse) = [target |-> Seek!Step(l, reverse).target, weight |-> Seek!Step(l, reverse).weight,
                                  crowd |-> Seek!Step(l, reverse).crowd]
  BY DEF Seek!Step, Seek!Valid, NodesOf
<1>2. /\ Seek!Weight(l.kind, reverse) \in {0, 12, 35, 65, 80, 90}
      /\ Seek!Weight(l.kind, reverse) = 12 <=> l.kind = "BELONGS_TO"
  BY WeightIs
<1>3. PICK s : s = Seek!Step(l, reverse)
  OBVIOUS
<1>4. PICK hub \in BOOLEAN : hub <=> l.kind = "BELONGS_TO"
  OBVIOUS
<1>5. s.crowd = hub
  BY <1>1, <1>3, <1>4
<1>6. s.weight \in {12, 35, 65, 80, 90} /\ (hub <=> s.weight = 12)
  BY <1>1, <1>2, <1>3, <1>4
<1>7. s.target \in NodesOf(g) /\ s = [target |-> s.target, weight |-> s.weight, crowd |-> s.crowd]
  BY <1>1, <1>3
<1> QED
  BY <1>3, <1>5, <1>6, <1>7 DEF IsStep

\* The order of steps.
StepOrder(S) == {p \in S \X S : Seek!Before(p[1], p[2])}

LEMMA StepsRank ==
    ASSUME NEW g, NEW S, \A s \in S : IsStep(g, s) /\ s.target \in Nat
    PROVE  Ranks(S, StepOrder(S))
<1> DEFINE Prior(s, t) == s.weight > t.weight \/ (s.weight = t.weight /\ s.target < t.target)
<1>1. \A s, t \in S : <<s, t>> \in StepOrder(S) <=> Prior(s, t)
  BY DEF StepOrder, Seek!Before
<1>2. \A s \in S : s.weight \in Nat /\ s.target \in Nat
  BY DEF IsStep
<1>3. \A s, t \in S : s.weight = t.weight /\ s.target = t.target => s = t
  <2> SUFFICES ASSUME NEW s \in S, NEW t \in S, s.weight = t.weight, s.target = t.target PROVE s = t
    OBVIOUS
  <2>1. s.crowd = t.crowd
    BY DEF IsStep
  <2> QED
    BY <2>1 DEF IsStep
<1>4. \A r, s, t \in S : Prior(r, s) /\ Prior(s, t) => Prior(r, t)
  BY <1>2
<1>5. \A s, t \in S : s # t => Prior(s, t) \/ Prior(t, s)
  BY <1>2, <1>3
<1>6. \A s \in S : ~Prior(s, s)
  BY <1>2
<1> HIDE DEF Prior
<1> QED
  BY <1>1, <1>4, <1>5, <1>6 DEF Ranks

LEMMA AdjacentIs ==
    ASSUME NEW g \in TraceJournal, NEW n
    PROVE  LET A == Seek!Adjacent(g, n)
           IN /\ IsFiniteSet(A) /\ Cardinality(A) \in 0 .. 2 * Cardinality(g.links)
              /\ \A s \in A : IsStep(g, s) /\ s.target \in Nat
              /\ \A l \in g.links : Seek!Valid(g, l) /\ l.from = n /\ Seek!Weight(l.kind, FALSE) > 0
                                    => \E s \in A : s.target = l.to
              /\ \A l \in g.links : Seek!Valid(g, l) /\ l.to = n /\ Seek!Weight(l.kind, TRUE) > 0
                                    => \E s \in A : s.target = l.from
<1> DEFINE A == Seek!Adjacent(g, n)
<1>1. A = {s \in Outward(g, n) \union Backward(g, n) : s.weight > 0}
  BY DEF Seek!Adjacent, Outward, Backward
<1> HIDE DEF A
<1>2. IsFiniteSet(A) /\ Cardinality(A) \in 0 .. 2 * Cardinality(g.links)
  <2>1. PICK F : F = Outward(g, n)
    OBVIOUS
  <2>2. PICK B : B = Backward(g, n)
    OBVIOUS
  <2>3. PICK c : c = Cardinality(g.links) /\ c \in Nat
    BY SearchGraphIs, FS_CardinalityType
  <2>4. IsFiniteSet(F) /\ IsFiniteSet(B) /\ Cardinality(F) <= c /\ Cardinality(B) <= c
    BY <2>1, <2>2, <2>3, StepsFinite
  <2>5. IsFiniteSet(F \union B) /\ Cardinality(F \union B) = Cardinality(F) + Cardinality(B) - Cardinality(F \cap B)
    BY <2>4, FS_Union
  <2>6. A \in SUBSET (F \union B) /\ IsFiniteSet(F \cap B)
    BY <1>1, <2>1, <2>2, <2>4, FS_Intersection
  <2>7. IsFiniteSet(A) /\ Cardinality(A) <= Cardinality(F \union B)
    BY <2>5, <2>6, FS_Subset
  <2>8. /\ Cardinality(A) \in Nat /\ Cardinality(F) \in Nat /\ Cardinality(B) \in Nat
        /\ Cardinality(F \cap B) \in Nat /\ Cardinality(F \union B) \in Nat
    BY <2>4, <2>5, <2>6, <2>7, FS_CardinalityType
  <2> QED
    BY <2>3, <2>4, <2>5, <2>7, <2>8
<1>3. ASSUME NEW s \in A PROVE IsStep(g, s) /\ s.target \in Nat
  <2>1. s.weight > 0 /\ s \in Outward(g, n) \union Backward(g, n)
    BY <1>1
  <2>2. IsStep(g, s)
    <3>1. CASE s \in Outward(g, n)
      <4>1. PICK l \in g.links : Seek!Valid(g, l) /\ s = Seek!Step(l, FALSE)
        BY <3>1 DEF Outward
      <4> QED
        BY <2>1, <4>1, StepIs
    <3>2. CASE s \in Backward(g, n)
      <4>1. PICK l \in g.links : Seek!Valid(g, l) /\ s = Seek!Step(l, TRUE)
        BY <3>2 DEF Backward
      <4> QED
        BY <2>1, <4>1, StepIs
    <3> QED
      BY <2>1, <3>1, <3>2
  <2>3. s.target \in NodesOf(g) /\ NodesOf(g) \subseteq Nat
    BY <2>2, SearchGraphIs DEF IsStep
  <2> QED
    BY <2>2, <2>3
<1>4. ASSUME NEW l \in g.links, Seek!Valid(g, l), l.from = n, Seek!Weight(l.kind, FALSE) > 0
      PROVE  \E s \in A : s.target = l.to
  <2>1. Seek!Step(l, FALSE) \in Outward(g, n)
    BY <1>4 DEF Outward
  <2>2. Seek!Step(l, FALSE).weight = Seek!Weight(l.kind, FALSE) /\ Seek!Step(l, FALSE).target = l.to
    BY DEF Seek!Step
  <2> QED
    BY <1>1, <1>4, <2>1, <2>2
<1>5. ASSUME NEW l \in g.links, Seek!Valid(g, l), l.to = n, Seek!Weight(l.kind, TRUE) > 0
      PROVE  \E s \in A : s.target = l.from
  <2>1. Seek!Step(l, TRUE) \in Backward(g, n)
    BY <1>5 DEF Backward
  <2>2. Seek!Step(l, TRUE).weight = Seek!Weight(l.kind, TRUE) /\ Seek!Step(l, TRUE).target = l.from
    BY DEF Seek!Step
  <2> QED
    BY <1>1, <1>5, <2>1, <2>2
<1> QED
  BY <1>2, <1>3, <1>4, <1>5 DEF A

\* graph.rs, advance: a route carries a score on.
LEMMA CarriedIs ==
    ASSUME NEW g \in TraceJournal, NEW n, NEW score \in Nat, NEW s \in Seek!Adjacent(g, n)
    PROVE  Seek!Carried(score, s, Seek!Cardinality(Seek!Adjacent(g, n))) \in Nat
<1>1. PICK A : A = Seek!Adjacent(g, n)
  OBVIOUS
<1>2. IsFiniteSet(A) /\ Cardinality(A) \in 0 .. 2 * Cardinality(g.links) /\ IsStep(g, s)
  BY <1>1, AdjacentIs
<1>3. Cardinality(A) # 0
  BY <1>1, <1>2, FS_EmptySet
<1>4. PICK c : c = Cardinality(A) /\ c \in 1 .. 2 * Cardinality(g.links)
  BY <1>2, <1>3
<1>5. PICK r : r = SquareRoot[c] /\ r \in Nat \ {0}
  BY <1>4, SearchGraphIs
<1>6. PICK w : w = s.weight /\ w \in Nat
  BY <1>2 DEF IsStep
<1>7. score * w \in Nat
  BY <1>6
<1>8. (score * w) \div r \in Nat /\ (score * w) \div 100 \in Nat
  BY <1>5, <1>7, ShareIs
<1> QED
  BY <1>1, <1>4, <1>5, <1>6, <1>8, SearchCounts DEF Seek!Carried

\* Steps, and numbers, in their order.
LEMMA StepsSorted ==
    ASSUME NEW S PROVE Seek!Sorted(S, Seek!Before) = ListOf(S, StepOrder(S))
<1> DEFINE Place(k) == CHOOSE x \in S : Cardinality(Lower(S, StepOrder(S), x)) = k - 1
<1>1. \A x \in S : Lower(S, StepOrder(S), x) = {y \in S : Seek!Before(y, x)}
  BY DEF Lower, StepOrder
<1>2. \A k : Place(k) = (CHOOSE x \in S : Seek!Cardinality({y \in S : Seek!Before(y, x)}) = k - 1)
  BY <1>1, SearchCounts
<1>3. Seek!Sorted(S, Seek!Before)
      = [k \in 1 .. Seek!Cardinality(S) |-> CHOOSE x \in S : Seek!Cardinality({y \in S : Seek!Before(y, x)}) = k - 1]
  BY DEF Seek!Sorted
<1>4. ListOf(S, StepOrder(S)) = [k \in 1 .. Cardinality(S) |-> Place(k)]
  BY DEF ListOf
<1> HIDE DEF Place
<1> QED
  BY <1>2, <1>3, <1>4, SearchCounts

NumberOrder(S) == {p \in S \X S : p[1] < p[2]}

LEMMA NumbersRank == ASSUME NEW S \in SUBSET Nat PROVE Ranks(S, NumberOrder(S))
BY DEF Ranks, NumberOrder

LEMMA NumbersSorted ==
    ASSUME NEW S PROVE Seek!Sorted(S, <) = ListOf(S, NumberOrder(S))
<1> DEFINE Place(k) == CHOOSE x \in S : Cardinality(Lower(S, NumberOrder(S), x)) = k - 1
<1>1. \A x \in S : Lower(S, NumberOrder(S), x) = {y \in S : y < x}
  BY DEF Lower, NumberOrder
<1>2. \A k : Place(k) = (CHOOSE x \in S : Seek!Cardinality({y \in S : y < x}) = k - 1)
  BY <1>1, SearchCounts
<1>3. Seek!Sorted(S, <)
      = [k \in 1 .. Seek!Cardinality(S) |-> CHOOSE x \in S : Seek!Cardinality({y \in S : y < x}) = k - 1]
  BY DEF Seek!Sorted
<1>4. ListOf(S, NumberOrder(S)) = [k \in 1 .. Cardinality(S) |-> Place(k)]
  BY DEF ListOf
<1> HIDE DEF Place
<1> QED
  BY <1>2, <1>3, <1>4, SearchCounts

\* The points of a walk, and what it keeps.
WalkPoint(g) == [node : NodesOf(g), score : Nat, depth : Nat]

SearchWalk(g) == [pending : Seq(WalkPoint(g)), visited : Seq(WalkPoint(g)), limited : BOOLEAN]

NodesIn(s) == {p.node : p \in Entries(s)}

\* graph.rs, candidates: the best of what is pending, and what is left.
LEMMA BestTaken ==
    ASSUME NEW X, NEW s \in Seq(X), s # << >>, \A x \in X : x.score \in Nat /\ x.node \in Nat
    PROVE  /\ s[Seek!BestAt(s)] \in X /\ Seek!RemoveAt(s, Seek!BestAt(s)) \in Seq(X)
           /\ Entries(s) = Entries(Seek!RemoveAt(s, Seek!BestAt(s))) \union {s[Seek!BestAt(s)]}
BY BestIs, TakenOut

LEMMA PointIs ==
    ASSUME NEW g \in TraceJournal, NEW p \in WalkPoint(g)
    PROVE  p.node \in NodesOf(g) /\ p.node \in Nat /\ p.score \in Nat /\ p.depth \in Nat
BY SearchGraphIs DEF WalkPoint

\* What remains pending of the steps of a node, each carried on.
NextOf(g, n, score, depth, fresh, room) ==
    [i \in 1 .. Seek!Min({room, Len(fresh)}) |->
        Seek!Point(fresh[i].target,
                   Seek!Carried(score, fresh[i], Seek!Cardinality(Seek!Adjacent(g, n))), depth + 1)]

Carries(g, S, fresh, room, next) ==
    /\ next \in Seq(WalkPoint(g))
    /\ ~(Len(fresh) > room) => \A s \in S : s.target \in NodesIn(next)
    /\ fresh = << >> => S = {}

LEMMA MakesPoint ==
    ASSUME NEW g, NEW a \in NodesOf(g), NEW b \in Nat, NEW d \in Nat
    PROVE  [node |-> a, score |-> b, depth |-> d] \in WalkPoint(g)
BY DEF WalkPoint

LEMMA NextPoints ==
    ASSUME NEW g \in TraceJournal, NEW n, NEW score \in Nat, NEW depth \in Nat,
           NEW S \in SUBSET Seek!Adjacent(g, n), NEW room \in Nat,
           NEW fresh, fresh = Seek!Sorted(S, Seek!Before)
    PROVE  Carries(g, S, fresh, room, NextOf(g, n, score, depth, fresh, room))
<1> DEFINE next == NextOf(g, n, score, depth, fresh, room)
<1>1. PICK A : A = Seek!Adjacent(g, n)
  OBVIOUS
<1>2. \A s \in A : IsStep(g, s) /\ s.target \in Nat
  BY <1>1, AdjacentIs
<1>3. IsFiniteSet(S) /\ \A s \in S : IsStep(g, s) /\ s.target \in Nat
  BY <1>1, <1>2, AdjacentIs, FS_Subset
<1>4. PICK c : c = Cardinality(S)
  OBVIOUS
<1>5. fresh \in Seq(S) /\ Len(fresh) = c /\ c \in Nat /\ DOMAIN fresh = 1 .. c /\ Entries(fresh) = S
  <2>1. Ranks(S, StepOrder(S))
    BY <1>3, StepsRank
  <2>2. fresh = ListOf(S, StepOrder(S))
    BY StepsSorted
  <2> QED
    BY <1>3, <1>4, <2>1, <2>2, ListOfIs
<1>6. PICK m : m = Seek!Min({room, Len(fresh)}) /\ m = IF room <= c THEN room ELSE c
  BY <1>5, SearchMin
<1>7. m \in Nat /\ m <= c
  BY <1>5, <1>6
<1> DEFINE Carry(s) == Seek!Carried(score, s, Seek!Cardinality(Seek!Adjacent(g, n)))
<1>8. \A i \in 1 .. m : fresh[i] \in S /\ fresh[i].target \in NodesOf(g) /\ Carry(fresh[i]) \in Nat
  <2> TAKE i \in 1 .. m
  <2>1. fresh[i] \in S
    BY <1>5, <1>7
  <2>2. Carry(fresh[i]) \in Nat
    BY <2>1, CarriedIs
  <2> QED
    BY <1>3, <2>1, <2>2 DEF IsStep
<1>9. \A i \in 1 .. m : next[i] = [node |-> fresh[i].target, score |-> Carry(fresh[i]), depth |-> depth + 1]
  BY <1>6 DEF NextOf, Seek!Point
<1> HIDE DEF Carry
<1> HIDE DEF next
<1>10. \A i \in 1 .. m : next[i] \in WalkPoint(g) /\ next[i].node = fresh[i].target
  <2> TAKE i \in 1 .. m
  <2>1. PICK a \in NodesOf(g), b \in Nat, d \in Nat : next[i] = [node |-> a, score |-> b, depth |-> d] /\ a = fresh[i].target
    <3>1. depth + 1 \in Nat
      OBVIOUS
    <3> QED
      BY <1>8, <1>9, <3>1
  <2>2. next[i] \in WalkPoint(g)
    BY <2>1, MakesPoint
  <2>3. next[i].node = a
    BY <2>1
  <2> QED
    BY <2>1, <2>2, <2>3
<1>11. next \in [1 .. m -> WalkPoint(g)]
  BY <1>6, <1>10 DEF NextOf, next
<1>12. next \in Seq(WalkPoint(g)) /\ Len(next) = m /\ DOMAIN next = 1 .. m
  BY <1>7, <1>11, RunIs
<1>13. ASSUME ~(Len(fresh) > room), NEW s \in S PROVE s.target \in NodesIn(next)
  <2>1. m = c
    BY <1>5, <1>6, <1>13
  <2>2. PICK i \in 1 .. c : fresh[i] = s
    BY <1>5 DEF Entries
  <2>3. next[i] \in Entries(next) /\ next[i].node = s.target
    BY <1>10, <1>12, <2>1, <2>2 DEF Entries
  <2> QED
    BY <2>3 DEF NodesIn
<1>14. ASSUME fresh = << >> PROVE S = {}
  <2>1. c = 0
    BY <1>5, <1>14
  <2> QED
    BY <1>3, <1>4, <2>1, FS_EmptySet
<1> QED
  BY <1>12, <1>13, <1>14 DEF Carries, next

\* What a walk has seen or will see: the nodes in N, and while it is not limited
\* the nodes next to those that it visited.
WalkKept(g, q, w) ==
    /\ w \in SearchWalk(g)
    /\ \A p, r \in Entries(w.visited) : p.node = r.node => p = r
    /\ Seek!Seeds(g, q) \subseteq NodesIn(w.visited) \union NodesIn(w.pending)
    /\ ~w.limited => \A p \in Entries(w.visited) : \A s \in Seek!Adjacent(g, p.node) :
                        s.target \in NodesIn(w.visited) \union NodesIn(w.pending)

RoundNext(g, q, w) ==
    IF w.pending = << >> \/ Len(w.visited) >= q.maxNodes THEN w ELSE Seek!Round(g, q, w)

LEMMA RoundKeeps ==
    ASSUME NEW g \in TraceJournal, NEW q \in SearchFor, NEW w, WalkKept(g, q, w), w.pending # << >>
    PROVE  WalkKept(g, q, Seek!Round(g, q, w))
<1>1. w \in SearchWalk(g) /\ w.pending \in Seq(WalkPoint(g)) /\ w.visited \in Seq(WalkPoint(g)) /\ w.limited \in BOOLEAN
  BY DEF WalkKept, SearchWalk
<1>2. PICK point : point = w.pending[Seek!BestAt(w.pending)]
  OBVIOUS
<1>3. PICK rest : rest = Seek!RemoveAt(w.pending, Seek!BestAt(w.pending))
  OBVIOUS
<1>4. point \in WalkPoint(g) /\ rest \in Seq(WalkPoint(g)) /\ Entries(w.pending) = Entries(rest) \union {point}
  BY <1>1, <1>2, <1>3, BestTaken, PointIs
<1>5. PICK old : old = {p.node : p \in Seek!ToSet(w.visited)} /\ old = NodesIn(w.visited)
  BY SearchEntries DEF NodesIn
<1>6. PICK A : A = Seek!Adjacent(g, point.node)
  OBVIOUS
<1>7. PICK S : S = {s \in A : s.target \notin old \union {point.node}}
  OBVIOUS
<1>8. PICK fresh : fresh = Seek!Sorted(S, Seek!Before)
  OBVIOUS
<1>9. PICK room : room = Seek!Max({0, FrontierLimit - Len(rest)})
  OBVIOUS
<1>10. room \in Nat
  <2>1. FrontierLimit \in Nat /\ Len(rest) \in Nat
    BY <1>4, SearchLimits
  <2>2. FrontierLimit - Len(rest) \in Int
    BY <2>1
  <2> QED
    BY <1>9, <2>2, SearchMax
<1>11. PICK next : next = NextOf(g, point.node, point.score, point.depth, fresh, room)
  OBVIOUS
<1>12. /\ next \in Seq(WalkPoint(g))
       /\ ~(Len(fresh) > room) => \A s \in S : s.target \in NodesIn(next)
       /\ fresh = << >> => S = {}
  <2>1. S \in SUBSET Seek!Adjacent(g, point.node) /\ point.score \in Nat /\ point.depth \in Nat
    BY <1>4, <1>6, <1>7, PointIs
  <2>2. Carries(g, S, fresh, room, next)
    BY <1>8, <1>10, <1>11, <2>1, NextPoints
  <2> QED
    BY <2>2 DEF Carries
<1>13. Seek!Round(g, q, w) =
          IF point.node \in old THEN [w EXCEPT !.pending = rest]
          ELSE IF point.depth >= q.maxDepth THEN
              [pending |-> rest, visited |-> Append(w.visited, point), limited |-> w.limited \/ fresh # << >>]
          ELSE [pending |-> rest \o next, visited |-> Append(w.visited, point),
                limited |-> w.limited \/ Len(fresh) > room]
  BY <1>2, <1>3, <1>5, <1>6, <1>7, <1>8, <1>9, <1>11 DEF Seek!Round, NextOf
<1>14. PICK nw : nw = Seek!Round(g, q, w)
  OBVIOUS
<1>15. /\ NodesIn(w.pending) = NodesIn(rest) \union {point.node}
       /\ Seek!Seeds(g, q) \subseteq old \union NodesIn(w.pending)
       /\ \A p, r \in Entries(w.visited) : p.node = r.node => p = r
       /\ ~w.limited => \A p \in Entries(w.visited) : \A s \in Seek!Adjacent(g, p.node) :
                           s.target \in old \union NodesIn(w.pending)
  BY <1>4, <1>5 DEF WalkKept, NodesIn
<1>16. CASE point.node \in old
  <2>1. nw = [pending |-> rest, visited |-> w.visited, limited |-> w.limited]
    BY <1>1, <1>13, <1>14, <1>16 DEF SearchWalk
  <2>2. nw \in SearchWalk(g) /\ nw.pending = rest /\ nw.visited = w.visited /\ nw.limited = w.limited
    BY <1>1, <1>4, <2>1 DEF SearchWalk
  <2>3. old \union NodesIn(w.pending) = old \union NodesIn(rest)
    BY <1>15, <1>16
  <2> QED
    BY <1>5, <1>14, <1>15, <2>2, <2>3 DEF WalkKept
<1>17. CASE point.node \notin old
  <2>8. PICK v : v = Append(w.visited, point)
    OBVIOUS
  <2>1. v = Append(w.visited, point) /\ v \in Seq(WalkPoint(g)) /\ Entries(v) = Entries(w.visited) \union {point}
    BY <1>1, <1>4, <2>8, AppendedIs
  <2>2. PICK more \in Seq(WalkPoint(g)), cut \in BOOLEAN :
           /\ nw = [pending |-> more, visited |-> v, limited |-> cut]
           /\ NodesIn(rest) \subseteq NodesIn(more)
           /\ ~cut => ~w.limited /\ \A s \in S : s.target \in NodesIn(more)
    <3>1. CASE point.depth >= q.maxDepth
      <4>1. nw = [pending |-> rest, visited |-> v, limited |-> w.limited \/ fresh # << >>]
        BY <1>13, <1>14, <1>17, <2>1, <3>1
      <4>2. PICK cut \in BOOLEAN : cut = (w.limited \/ fresh # << >>)
        BY <1>1
      <4> QED
        BY <1>4, <1>12, <4>1, <4>2
    <3>2. CASE ~(point.depth >= q.maxDepth)
      <4>1. nw = [pending |-> rest \o next, visited |-> v, limited |-> w.limited \/ Len(fresh) > room]
        BY <1>13, <1>14, <1>17, <2>1, <3>2
      <4>2. PICK cut \in BOOLEAN : cut = (w.limited \/ Len(fresh) > room)
        BY <1>1
      <4>3. PICK more : more = rest \o next
        OBVIOUS
      <4>4. more \in Seq(WalkPoint(g)) /\ Entries(more) = Entries(rest) \union Entries(next)
        BY <1>4, <1>12, <4>3, JoinedIs
      <4>5. NodesIn(rest) \subseteq NodesIn(more) /\ NodesIn(next) \subseteq NodesIn(more)
        BY <4>4 DEF NodesIn
      <4>6. ~cut => ~w.limited /\ \A s \in S : s.target \in NodesIn(more)
        BY <1>12, <4>2, <4>5
      <4>7. nw = [pending |-> more, visited |-> v, limited |-> cut]
        BY <4>1, <4>2, <4>3
      <4> QED
        BY <4>4, <4>5, <4>6, <4>7
    <3> QED
      BY <3>1, <3>2
  <2>3. nw \in SearchWalk(g) /\ nw.pending = more /\ nw.visited = v /\ nw.limited = cut
    BY <2>1, <2>2 DEF SearchWalk
  <2>4. NodesIn(v) = old \union {point.node}
    BY <1>5, <2>1 DEF NodesIn
  <2>5. \A p, r \in Entries(v) : p.node = r.node => p = r
    <3>1. \A p \in Entries(w.visited) : p.node # point.node
      BY <1>5, <1>17 DEF NodesIn
    <3> QED
      BY <1>15, <2>1, <3>1
  <2>6. old \union NodesIn(w.pending) \subseteq NodesIn(v) \union NodesIn(more)
    BY <1>15, <2>2, <2>4
  <2>7. ASSUME ~cut, NEW p \in Entries(v), NEW s \in Seek!Adjacent(g, p.node)
        PROVE  s.target \in NodesIn(v) \union NodesIn(more)
    <3>1. CASE p \in Entries(w.visited)
      BY <1>15, <2>2, <2>6, <2>7, <3>1
    <3>2. CASE p = point
      <4>1. s \in S \/ s.target \in old \union {point.node}
        BY <1>6, <1>7, <2>7, <3>2
      <4> QED
        BY <2>2, <2>4, <2>7, <4>1
    <3> QED
      BY <2>1, <2>7, <3>1, <3>2
  <2> QED
    BY <1>14, <1>15, <2>3, <2>5, <2>6, <2>7 DEF WalkKept
<1> QED
  BY <1>14, <1>16, <1>17

\* A question that names a node names one of the graph.
Posed(g, q) == q.seed # Unset => q.seed \in DOMAIN g.nodes

\* graph.rs, seeds: the nodes that a walk begins with are all that the question
\* matches, unless there are more than it takes.
LEMMA SeedsAre ==
    ASSUME NEW g \in TraceJournal, NEW q \in SearchFor, Posed(g, q)
    PROVE  /\ Seek!Seeds(g, q) \in SUBSET DOMAIN g.nodes /\ IsFiniteSet(Seek!Seeds(g, q))
           /\ Seek!Cardinality(Seek!Matched(g, traceNow, q)) <= SeedLimit
                 => Seek!Matched(g, traceNow, q) \subseteq Seek!Seeds(g, q)
<1> DEFINE eligible == {n \in DOMAIN g.nodes :
                           /\ Seek!Document(g, n)
                           /\ g.nodes[n].managed => \E l \in Seek!Derived(g, n) : Seek!Valid(g, l)}
           Better(n) == {m \in eligible : \/ g.nodes[m].score > g.nodes[n].score
                                          \/ g.nodes[m].score = g.nodes[n].score /\ m < n}
           matched == Seek!Matched(g, traceNow, q)
<1>1. Seek!Seeds(g, q) = IF q.seed # Unset THEN {q.seed}
                         ELSE {n \in eligible : Seek!Cardinality(Better(n)) < SeedLimit}
  BY DEF Seek!Seeds
<1>2. Seek!Seeds(g, q) \in SUBSET DOMAIN g.nodes
  BY <1>1 DEF Posed
<1>3. IsFiniteSet(DOMAIN g.nodes) /\ DOMAIN g.nodes \subseteq Nat /\ \A n \in DOMAIN g.nodes : g.nodes[n].score \in Nat
  BY SearchGraphIs DEF NodesOf
<1>4. IsFiniteSet(Seek!Seeds(g, q))
  BY <1>2, <1>3, FS_Subset
<1>5. CASE q.seed # Unset
  <2>1. matched = {q.seed}
    BY <1>5 DEF Seek!Matched
  <2> QED
    BY <1>1, <1>2, <1>4, <1>5, <2>1
<1>6. CASE q.seed = Unset
  <2>1. matched \subseteq eligible
    <3> SUFFICES ASSUME NEW n \in matched PROVE n \in eligible
      OBVIOUS
    <3>1. /\ n \in DOMAIN g.nodes /\ g.nodes[n].score > 0 /\ ~g.nodes[n].missing
          /\ g.nodes[n].managed => \E l \in Seek!Holding(g, traceNow) : l.to = n /\ l.kind = "DERIVED_FROM"
      BY <1>6 DEF Seek!Matched
    <3>2. ASSUME g.nodes[n].managed PROVE \E l \in Seek!Derived(g, n) : Seek!Valid(g, l)
      <4>1. PICK l \in Seek!Holding(g, traceNow) : l.to = n /\ l.kind = "DERIVED_FROM"
        BY <3>1, <3>2
      <4> QED
        BY <4>1 DEF Seek!Holding, Seek!Derived, Seek!Valid
    <3> QED
      BY <3>1, <3>2 DEF Seek!Document
  <2>2. eligible \subseteq matched
    <3> SUFFICES ASSUME NEW n \in eligible PROVE n \in matched
      OBVIOUS
    <3>1. ASSUME g.nodes[n].managed
          PROVE  \E l \in Seek!Holding(g, traceNow) : l.to = n /\ l.kind = "DERIVED_FROM"
      <4>1. PICK l \in Seek!Derived(g, n) : Seek!Valid(g, l)
        BY <3>1
      <4> QED
        BY <4>1 DEF Seek!Holding, Seek!Derived, Seek!Valid
    <3> QED
      BY <1>6, <3>1 DEF Seek!Document, Seek!Matched
  <2>3. matched = eligible
    BY <2>1, <2>2
  <2>4. IsFiniteSet(eligible) /\ Cardinality(eligible) \in Nat
    <3>1. eligible \in SUBSET DOMAIN g.nodes
      OBVIOUS
    <3> HIDE DEF eligible
    <3> QED
      BY <1>3, <3>1, FS_Subset, FS_CardinalityType
  <2>5. ASSUME Cardinality(eligible) <= SeedLimit, NEW n \in eligible PROVE Cardinality(Better(n)) < SeedLimit
    <3>1. n \notin Better(n) /\ Better(n) \in SUBSET eligible /\ SeedLimit \in Nat
      BY <1>3, SearchLimits
    <3>2. PICK B : B = Better(n)
      OBVIOUS
    <3> HIDE DEF eligible, Better
    <3>3. IsFiniteSet(B) /\ Cardinality(B) <= Cardinality(eligible) /\ Cardinality(B) # Cardinality(eligible)
      BY <2>4, <2>5, <3>1, <3>2, FS_Subset
    <3>4. Cardinality(B) \in Nat
      BY <3>3, FS_CardinalityType
    <3> QED
      BY <2>4, <2>5, <3>1, <3>2, <3>3, <3>4
  <2> HIDE DEF eligible, Better, matched
  <2>6. ASSUME Seek!Cardinality(matched) <= SeedLimit PROVE matched \subseteq Seek!Seeds(g, q)
    <3>1. Cardinality(eligible) <= SeedLimit
      BY <2>3, <2>6, SearchCounts
    <3>2. \A n \in eligible : Seek!Cardinality(Better(n)) < SeedLimit
      BY <2>5, <3>1, SearchCounts
    <3> QED
      BY <1>1, <1>6, <2>3, <3>2
  <2> QED
    BY <1>2, <1>4, <2>6 DEF matched
<1> QED
  BY <1>5, <1>6

\* Where a walk begins.
LEMMA WalkBegins ==
    ASSUME NEW g \in TraceJournal, NEW q \in SearchFor, Posed(g, q)
    PROVE  Seek!Start(g, q) \in Seq(WalkPoint(g)) /\ NodesIn(Seek!Start(g, q)) = Seek!Seeds(g, q)
<1>1. PICK S : S = Seek!Seeds(g, q)
  OBVIOUS
<1>2. S \in SUBSET DOMAIN g.nodes /\ IsFiniteSet(S)
  BY <1>1, SeedsAre
<1>3. /\ DOMAIN g.nodes \subseteq NodesOf(g) /\ DOMAIN g.nodes \subseteq Nat
      /\ \A n \in DOMAIN g.nodes : g.nodes[n].score \in Nat
  BY SearchGraphIs DEF NodesOf
<1>4. PICK c : c = Cardinality(S)
  OBVIOUS
<1>5. PICK seeds : seeds = Seek!Sorted(S, <)
  OBVIOUS
<1>6. seeds \in Seq(S) /\ c \in Nat /\ DOMAIN seeds = 1 .. c /\ Entries(seeds) = S
  <2>1. Ranks(S, NumberOrder(S))
    BY <1>2, <1>3, NumbersRank
  <2>2. seeds = ListOf(S, NumberOrder(S))
    BY <1>5, NumbersSorted
  <2> QED
    BY <1>2, <1>4, <2>1, <2>2, ListOfIs
<1> DEFINE first == Seek!Start(g, q)
           Score(n) == IF q.seed # Unset THEN 1000 ELSE g.nodes[n].score
<1>7. first = [i \in 1 .. c |-> [node |-> seeds[i], score |-> Score(seeds[i]), depth |-> 0]]
  BY <1>1, <1>5, <1>6 DEF Seek!Start, Seek!Point
<1>8. \A i \in 1 .. c : seeds[i] \in S /\ seeds[i] \in NodesOf(g) /\ Score(seeds[i]) \in Nat
  <2> TAKE i \in 1 .. c
  <2>1. seeds[i] \in S
    BY <1>6
  <2> QED
    BY <1>2, <1>3, <2>1
<1> HIDE DEF first, Score
<1>9. \A i \in 1 .. c : first[i] \in WalkPoint(g) /\ first[i].node = seeds[i]
  <2> TAKE i \in 1 .. c
  <2>1. PICK a \in NodesOf(g), b \in Nat : first[i] = [node |-> a, score |-> b, depth |-> 0] /\ a = seeds[i]
    BY <1>7, <1>8
  <2>2. first[i] \in WalkPoint(g)
    BY <2>1, MakesPoint
  <2> QED
    BY <2>1, <2>2
<1>10. first \in [1 .. c -> WalkPoint(g)]
  BY <1>7, <1>9
<1>11. first \in Seq(WalkPoint(g)) /\ DOMAIN first = 1 .. c
  BY <1>6, <1>10, RunIs
<1>12. NodesIn(first) = {first[i].node : i \in 1 .. c}
  BY <1>11 DEF NodesIn, Entries
<1>13. NodesIn(first) = S
  <2>1. NodesIn(first) \subseteq S
    BY <1>8, <1>9, <1>12
  <2>2. ASSUME NEW x \in S PROVE x \in NodesIn(first)
    <3>1. PICK i \in 1 .. c : seeds[i] = x
      BY <1>6 DEF Entries
    <3> QED
      BY <1>9, <1>12, <3>1
  <2> QED
    BY <2>1, <2>2
<1> QED
  BY <1>1, <1>11, <1>13 DEF first

\* What a walk ends with.
WalkDone(g, q, e) ==
    /\ e.visited \in Seq(WalkPoint(g)) /\ e.limited \in BOOLEAN
    /\ \A p, r \in Entries(e.visited) : p.node = r.node => p = r
    /\ ~e.limited =>
          /\ Seek!Seeds(g, q) \subseteq NodesIn(e.visited)
          /\ \A p \in Entries(e.visited) : \A s \in Seek!Adjacent(g, p.node) : s.target \in NodesIn(e.visited)

LEMMA NothingIn == Entries(<< >>) = {} /\ NodesIn(<< >>) = {}
<1>1. Entries(<< >>) = {}
  BY DEF Entries
<1> QED
  BY <1>1 DEF NodesIn

\* graph.rs, candidates: the whole walk.
LEMMA ExploreIs ==
    ASSUME NEW g \in TraceJournal, NEW q \in SearchFor, Posed(g, q)
    PROVE  WalkDone(g, q, Seek!Explore(g, q))
<1> DEFINE X == {w \in SearchWalk(g) : WalkKept(g, q, w)}
           most == Seek!Rounds(g, q)
           start == [pending |-> Seek!Start(g, q), visited |-> << >>, limited |-> FALSE]
           Is(f) == f = [k \in 0 .. most |-> IF k = 0 THEN start ELSE RoundNext(g, q, f[k - 1])]
           more == [k \in 1 .. most |-> [w \in X |-> RoundNext(g, q, w)]]
<1>1. start \in X
  <2>1. PICK p : p = Seek!Start(g, q)
    OBVIOUS
  <2>2. p \in Seq(WalkPoint(g)) /\ NodesIn(p) = Seek!Seeds(g, q)
    BY <2>1, WalkBegins
  <2>3. PICK v : v = << >>
    OBVIOUS
  <2>4. v \in Seq(WalkPoint(g)) /\ Entries(v) = {} /\ NodesIn(v) = {}
    BY <2>3, NothingIn
  <2>5. start = [pending |-> p, visited |-> v, limited |-> FALSE]
    BY <2>1, <2>3
  <2>6. start \in SearchWalk(g) /\ start.pending = p /\ start.visited = v
    BY <2>2, <2>4, <2>5 DEF SearchWalk
  <2> HIDE DEF start
  <2> QED
    BY <2>2, <2>4, <2>6 DEF WalkKept
<1>2. most \in Nat
  <2>1. PICK c : c = Cardinality(Seek!Seeds(g, q)) /\ c \in Nat
    BY SeedsAre, FS_CardinalityType
  <2>2. q.maxNodes \in Nat /\ FrontierLimit \in Nat
    BY SearchLimits
  <2>3. PICK x : x = q.maxNodes * FrontierLimit /\ x \in Nat
    BY <2>2
  <2> QED
    BY <2>1, <2>3, SearchCounts DEF Seek!Rounds
<1>3. ASSUME NEW w \in X PROVE RoundNext(g, q, w) \in X
  <2>1. CASE w.pending = << >> \/ Len(w.visited) >= q.maxNodes
    BY <2>1 DEF RoundNext
  <2>2. CASE ~(w.pending = << >> \/ Len(w.visited) >= q.maxNodes)
    <3>1. WalkKept(g, q, Seek!Round(g, q, w))
      BY <2>2, RoundKeeps
    <3> QED
      BY <2>2, <3>1 DEF RoundNext, WalkKept
  <2> QED
    BY <2>1, <2>2
<1> HIDE DEF X, most, start
<1>4. more \in [1 .. most -> [X -> X]]
  BY <1>3
<1>5. PICK f : Iterates(most, X, start, more, f)
  <2> HIDE DEF more
  <2> QED
    BY <1>1, <1>2, <1>4, Iteration
<1>6. Is(f)
  <2>1. f \in [0 .. most -> X] /\ f[0] = start
    BY <1>5 DEF Iterates
  <2>2. ASSUME NEW k \in 1 .. most PROVE f[k] = RoundNext(g, q, f[k - 1])
    <3>1. k - 1 \in 0 .. most
      BY <1>2
    <3>2. f[k] = more[k][f[k - 1]] /\ f[k - 1] \in X
      BY <1>5, <2>1, <3>1 DEF Iterates
    <3> QED
      BY <3>2
  <2>3. \A k \in 0 .. most : k = 0 \/ k \in 1 .. most
    BY <1>2
  <2> QED
    BY <2>1, <2>2, <2>3
<1> DEFINE walk == CHOOSE h : Is(h)
<1>7. Is(walk)
  <2> HIDE DEF Is
  <2> QED
    BY <1>6
<1>8. Seek!Explore(g, q) = [visited |-> walk[most].visited,
                            limited |-> Seek!CutShort(walk[most].limited, walk[most].pending)]
  BY DEF Seek!Explore, RoundNext, most, start
<1> HIDE DEF walk
<1>9. walk[0] = start /\ \A k \in 1 .. most : walk[k] = RoundNext(g, q, walk[k - 1])
  <2>1. 0 \in 0 .. most /\ \A k \in 1 .. most : k \in 0 .. most /\ k # 0
    BY <1>2
  <2> QED
    BY <1>7, <2>1
<1>10. walk[most] \in X
  <2>1. \A k \in 1 .. most : walk[k - 1] \in X => walk[k] \in X
    BY <1>3, <1>9
  <2>2. \A k \in 0 .. most : walk[k] \in X
    BY <1>1, <1>2, <1>9, <2>1, IterationStays
  <2>3. most \in 0 .. most
    BY <1>2
  <2> QED
    BY <2>2, <2>3
<1>11. PICK w : w = walk[most] /\ WalkKept(g, q, w) /\ w \in SearchWalk(g)
  BY <1>10 DEF X
<1>12. PICK e : e = Seek!Explore(g, q) /\ e.visited = w.visited /\ e.limited = (w.limited \/ w.pending # << >>)
  BY <1>8, <1>11 DEF Seek!CutShort
<1>13. w.visited \in Seq(WalkPoint(g)) /\ w.limited \in BOOLEAN
  BY <1>11 DEF SearchWalk
<1>14. e.limited \in BOOLEAN
  BY <1>12, <1>13
<1>15. ASSUME ~e.limited PROVE ~w.limited /\ NodesIn(w.pending) = {}
  BY <1>12, <1>13, <1>15, NothingIn
<1>16. WalkDone(g, q, e)
  BY <1>11, <1>12, <1>13, <1>14, <1>15 DEF WalkDone, WalkKept
<1> QED
  BY <1>12, <1>16

\* What the links that hold lead to is visited.
LEMMA WalkReaches ==
    ASSUME NEW g \in TraceJournal, NEW q \in SearchFor, Posed(g, q), NEW e, WalkDone(g, q, e), ~e.limited,
           Seek!Cardinality(Seek!Matched(g, traceNow, q)) <= SeedLimit
    PROVE  Seek!Reached(g, traceNow, Seek!Matched(g, traceNow, q)) \subseteq NodesIn(e.visited)
<1> DEFINE V == NodesIn(e.visited)
<1>1. V \in SUBSET NodesOf(g)
  <2>1. PICK v \in Seq(WalkPoint(g)) : v = e.visited
    BY DEF WalkDone
  <2>2. Entries(v) \subseteq WalkPoint(g)
    BY ListEntries
  <2>3. \A p \in Entries(v) : p.node \in NodesOf(g)
    BY <2>2, PointIs
  <2> QED
    BY <2>1, <2>3 DEF NodesIn
<1>2. Seek!Matched(g, traceNow, q) \subseteq V
  BY SeedsAre DEF WalkDone
<1>3. ASSUME NEW n \in V, NEW s \in Seek!Adjacent(g, n) PROVE s.target \in V
  <2>1. PICK p \in Entries(e.visited) : p.node = n
    BY DEF NodesIn
  <2> QED
    BY <1>3, <2>1 DEF WalkDone
<1> HIDE DEF V
<1>4. ASSUME NEW l \in Seek!Holding(g, traceNow)
      PROVE  /\ Seek!Weight(l.kind, FALSE) > 0 /\ l.from \in V => l.to \in V
             /\ Seek!Weight(l.kind, TRUE) > 0 /\ l.to \in V => l.from \in V
  <2>1. l \in g.links /\ Seek!Valid(g, l)
    BY DEF Seek!Holding, Seek!Valid
  <2>2. ASSUME Seek!Weight(l.kind, FALSE) > 0, l.from \in V PROVE l.to \in V
    <3>1. PICK s \in Seek!Adjacent(g, l.from) : s.target = l.to
      BY <2>1, <2>2, AdjacentIs
    <3> QED
      BY <1>3, <2>2, <3>1
  <2>3. ASSUME Seek!Weight(l.kind, TRUE) > 0, l.to \in V PROVE l.from \in V
    <3>1. PICK s \in Seek!Adjacent(g, l.to) : s.target = l.from
      BY <2>1, <2>3, AdjacentIs
    <3> QED
      BY <1>3, <2>3, <3>1
  <2> QED
    BY <2>2, <2>3
<1>5. Seek!ClosedUnder(Seek!Holding(g, traceNow), V)
  BY <1>4 DEF Seek!ClosedUnder
<1> QED
  BY <1>1, <1>2, <1>5 DEF Seek!Reached, NodesOf, V

-----------------------------------------------------------------------------
(***************************************************************************)
(* Trace: the sources that a walk finds, and what is read of them.         *)
(***************************************************************************)

\* The names of sources that nodes, with whatever files are there, and documents may
\* hold, those of files, and the candidates of a search.
LocatorsIn(g) == UNION {{Seek!Locator(g, n, there) : n \in NodesOf(g)} : there \in SUBSET SourceName}
NodeLocators == (UNION {LocatorsIn(g) : g \in TraceJournal}) \ {Unset}
RefLocators == UNION {{ref.locator : ref \in c.refs} : c \in SourceContent}
AnyLocator == NodeLocators \union RefLocators
SourceOf ==
    ({l \in AnyLocator : l.kind \in {"file", "native", "document"}} \union [kind : {"native"}, name : SourceName])
    \ {Unset}
SourceCandidate == [node : Nat, score : Nat, depth : Nat, locator : AnyLocator]

LEMMA SearchContentIs ==
    ASSUME NEW c \in SourceContent
    PROVE  /\ c.passages \in Seq(Entries(c.passages)) /\ IsFiniteSet(c.refs)
           /\ \A ref \in c.refs : ref.id \in Nat /\ ref.locator \in AnyLocator
           /\ \A ref, other \in c.refs : ref.id = other.id => ref = other
<1>1. c.passages \in Seq(Seek!ToSet(c.passages)) /\ Seek!IsFiniteSet(c.refs)
  BY SearchesAssumption DEF Seek!TraceAssumption
<1>2. /\ \A ref \in c.refs : ref.id \in Nat
      /\ \A ref, other \in c.refs : ref.id = other.id => ref = other
  BY SearchesAssumption DEF Seek!TraceAssumption
<1>3. \A ref \in c.refs : ref.locator \in AnyLocator
  BY DEF AnyLocator, RefLocators
<1> QED
  BY <1>1, <1>2, <1>3, SearchEntries, SearchFinite

LEMMA LocatorsAre == \A l \in AnyLocator : Seek!IsLocator(l)
<1>1. ASSUME NEW l \in NodeLocators PROVE Seek!IsLocator(l)
  <2>1. PICK g \in TraceJournal : l \in LocatorsIn(g)
    BY DEF NodeLocators
  <2>2. PICK there \in SUBSET SourceName : \E n \in NodesOf(g) : l = Seek!Locator(g, n, there)
    BY <2>1 DEF LocatorsIn
  <2>3. PICK n \in NodesOf(g) : l = Seek!Locator(g, n, there)
    BY <2>2
  <2>4. l # Unset
    BY DEF NodeLocators
  <2>5. CASE n \in DOMAIN g.nodes
    <3>1. PICK k : k = g.nodes[n].locator
      OBVIOUS
    <3>2. k = Unset \/ k.kind = "bare" \/ Seek!IsLocator(k)
      BY <2>5, <3>1, SearchGraphIs
    <3>3. l = IF k # Unset /\ k.kind = "bare" THEN Seek!InferredBareFile(k, there) ELSE k
      BY <2>3, <2>5, <3>1 DEF Seek!Locator
    <3>4. CASE k # Unset /\ k.kind = "bare"
      <4>1. l = Seek!InferredBareFile(k, there)
        BY <3>3, <3>4
      <4>2. \E name \in there : l = [kind |-> "file", name |-> name]
        BY <2>4, <4>1 DEF Seek!InferredBareFile
      <4>3. PICK name \in SourceName : l = [kind |-> "file", name |-> name]
        BY <4>2
      <4> QED
        BY <4>3 DEF Seek!IsLocator
    <3>5. CASE ~(k # Unset /\ k.kind = "bare")
      BY <2>4, <3>2, <3>3, <3>5
    <3> QED
      BY <3>4, <3>5
  <2>6. CASE n \notin DOMAIN g.nodes
    <3>1. g.outside[n] = Unset \/ Seek!IsLocator(g.outside[n])
      BY <2>6, SearchGraphIs DEF NodesOf
    <3>2. l = g.outside[n]
      BY <2>3, <2>6 DEF Seek!Locator
    <3> QED
      BY <2>4, <3>1, <3>2
  <2> QED
    BY <2>5, <2>6
<1>2. ASSUME NEW l \in RefLocators PROVE Seek!IsLocator(l)
  <2>1. PICK c \in SourceContent : \E ref \in c.refs : l = ref.locator
    BY DEF RefLocators
  <2>2. \A ref \in c.refs : Seek!IsLocator(ref.locator)
    BY SearchesAssumption DEF Seek!TraceAssumption
  <2> QED
    BY <2>1, <2>2
<1> QED
  BY <1>1, <1>2 DEF AnyLocator

LEMMA SourceIs ==
    ASSUME NEW l \in SourceOf
    PROVE  l.name \in SourceName /\ l.kind \in {"file", "native", "document"} /\ l # Unset
<1>1. CASE l \in AnyLocator
  <2>1. Seek!IsLocator(l) /\ l.kind \in {"file", "native", "document"}
    <3>1. Seek!IsLocator(l)
      BY <1>1, LocatorsAre
    <3>2. l \in [kind : {"native"}, name : SourceName] => l.kind = "native"
      OBVIOUS
    <3> QED
      BY <3>1, <3>2 DEF SourceOf
  <2> QED
    BY <2>1 DEF Seek!IsLocator, SourceOf
<1>2. CASE l \in [kind : {"native"}, name : SourceName]
  BY <1>2 DEF SourceOf
<1> QED
  BY <1>1, <1>2 DEF SourceOf

\* source/mod.rs, resolve_locator: what is looked up is a file.
LEMMA ResolvedIs ==
    ASSUME NEW l \in AnyLocator, l.kind # "url", Seek!Resolve(l) # Unset
    PROVE  Seek!Resolve(l) \in SourceOf
<1>1. Seek!IsLocator(l)
  BY LocatorsAre
<1>2. CASE l.kind # "short"
  <2>1. l.kind \in {"file", "native", "document"}
    BY <1>1, <1>2 DEF Seek!IsLocator
  <2> QED
    BY <1>2, <2>1 DEF Seek!Resolve, SourceOf
<1>3. CASE l.kind = "short"
  <2>1. l.of \subseteq SourceName
    BY <1>1, <1>3 DEF Seek!IsLocator
  <2>2. Cardinality(l.of) = 1 /\ Seek!Resolve(l) = [kind |-> "native", name |-> CHOOSE n \in l.of : TRUE]
    BY <1>3, SearchCounts DEF Seek!Resolve
  <2>3. l.of # {}
    BY <2>2, FS_EmptySet
  <2>4. PICK n \in l.of : Seek!Resolve(l) = [kind |-> "native", name |-> n]
    BY <2>2, <2>3
  <2> QED
    BY <2>1, <2>4 DEF SourceOf
<1> QED
  BY <1>2, <1>3

\* The order of points, and of references.
PointOrder(S) == {p \in S \X S : Seek!Ahead(p[1], p[2])}

LEMMA PointsRank ==
    ASSUME NEW S, \A p \in S : p.score \in Nat /\ p.node \in Nat, \A p, r \in S : p.node = r.node => p = r
    PROVE  Ranks(S, PointOrder(S))
<1> DEFINE Prior(s, t) == s.score > t.score \/ (s.score = t.score /\ s.node < t.node)
<1>1. \A s, t \in S : <<s, t>> \in PointOrder(S) <=> Prior(s, t)
  BY DEF PointOrder, Seek!Ahead
<1>2. \A r, s, t \in S : Prior(r, s) /\ Prior(s, t) => Prior(r, t)
  OBVIOUS
<1>3. \A s, t \in S : s # t => Prior(s, t) \/ Prior(t, s)
  OBVIOUS
<1>4. \A s \in S : ~Prior(s, s)
  OBVIOUS
<1> HIDE DEF Prior
<1> QED
  BY <1>1, <1>2, <1>3, <1>4 DEF Ranks

LEMMA PointsSorted ==
    ASSUME NEW S PROVE Seek!Sorted(S, Seek!Ahead) = ListOf(S, PointOrder(S))
<1> DEFINE Place(k) == CHOOSE x \in S : Cardinality(Lower(S, PointOrder(S), x)) = k - 1
<1>1. \A x \in S : Lower(S, PointOrder(S), x) = {y \in S : Seek!Ahead(y, x)}
  BY DEF Lower, PointOrder
<1>2. \A k : Place(k) = (CHOOSE x \in S : Seek!Cardinality({y \in S : Seek!Ahead(y, x)}) = k - 1)
  BY <1>1, SearchCounts
<1>3. Seek!Sorted(S, Seek!Ahead)
      = [k \in 1 .. Seek!Cardinality(S) |-> CHOOSE x \in S : Seek!Cardinality({y \in S : Seek!Ahead(y, x)}) = k - 1]
  BY DEF Seek!Sorted
<1>4. ListOf(S, PointOrder(S)) = [k \in 1 .. Cardinality(S) |-> Place(k)]
  BY DEF ListOf
<1> HIDE DEF Place
<1> QED
  BY <1>2, <1>3, <1>4, SearchCounts

IdOrder(S) == {p \in S \X S : Seek!FirstId(p[1], p[2])}

LEMMA IdsRank ==
    ASSUME NEW S, \A p \in S : p.id \in Nat, \A p, r \in S : p.id = r.id => p = r
    PROVE  Ranks(S, IdOrder(S))
<1>1. \A s, t \in S : <<s, t>> \in IdOrder(S) <=> s.id < t.id
  BY DEF IdOrder, Seek!FirstId
<1> QED
  BY <1>1 DEF Ranks

LEMMA IdsSorted ==
    ASSUME NEW S PROVE Seek!Sorted(S, Seek!FirstId) = ListOf(S, IdOrder(S))
<1> DEFINE Place(k) == CHOOSE x \in S : Cardinality(Lower(S, IdOrder(S), x)) = k - 1
<1>1. \A x \in S : Lower(S, IdOrder(S), x) = {y \in S : Seek!FirstId(y, x)}
  BY DEF Lower, IdOrder
<1>2. \A k : Place(k) = (CHOOSE x \in S : Seek!Cardinality({y \in S : Seek!FirstId(y, x)}) = k - 1)
  BY <1>1, SearchCounts
<1>3. Seek!Sorted(S, Seek!FirstId)
      = [k \in 1 .. Seek!Cardinality(S) |-> CHOOSE x \in S : Seek!Cardinality({y \in S : Seek!FirstId(y, x)}) = k - 1]
  BY DEF Seek!Sorted
<1>4. ListOf(S, IdOrder(S)) = [k \in 1 .. Cardinality(S) |-> Place(k)]
  BY DEF ListOf
<1> HIDE DEF Place
<1> QED
  BY <1>2, <1>3, <1>4, SearchCounts

\* The members of a list are finitely many.
LEMMA EntriesFinite == ASSUME NEW X, NEW s \in Seq(X) PROVE IsFiniteSet(Entries(s))
<1>1. PICK n \in Nat : n = Len(s) /\ DOMAIN s = 1 .. n /\ s = [i \in 1 .. n |-> s[i]]
  OBVIOUS
<1>2. PICK S : S = 1 .. n
  OBVIOUS
<1>3. IsFiniteSet(S)
  <2>1. 1 \in Int /\ n \in Int
    OBVIOUS
  <2> QED
    BY <1>2, <2>1, FS_Interval
<1>4. Entries(s) = {s[i] : i \in S} /\ DOMAIN s = S /\ s = [i \in S |-> s[i]]
  BY <1>1, <1>2 DEF Entries
<1> QED
  BY <1>3, <1>4, Valued

\* graph.rs, candidates: whatever a visited node names is a candidate.
LEMMA CandidatesAre ==
    ASSUME NEW g \in TraceJournal, NEW v \in Seq(WalkPoint(g)), NEW there \in SUBSET SourceName,
           \A p, r \in Entries(v) : p.node = r.node => p = r
    PROVE  /\ Seek!Candidates(g, v, there) \in Seq(SourceCandidate)
           /\ \A n \in NodesIn(v) : Seek!Locator(g, n, there) # Unset
                 => \E c \in Entries(Seek!Candidates(g, v, there)) : c.locator = Seek!Locator(g, n, there)
<1>1. PICK named : named = {p \in Entries(v) : Seek!Locator(g, p.node, there) # Unset}
  OBVIOUS
<1>2. PICK first : first = {p \in named : \A r \in named : Seek!Ahead(r, p)
                                          => Seek!Locator(g, r.node, there) # Seek!Locator(g, p.node, there)}
  OBVIOUS
<1>3. IsFiniteSet(named) /\ named \subseteq Entries(v) /\ first \subseteq named
  BY <1>1, <1>2, EntriesFinite, FS_Subset
<1>4. \A p \in named : p \in WalkPoint(g) /\ p.score \in Nat /\ p.node \in Nat /\ p.depth \in Nat /\ p.node \in NodesOf(g)
  <2>1. \A p \in named : p \in WalkPoint(g)
    BY <1>3, ListEntries
  <2> QED
    BY <2>1, PointIs
<1>5. \A p, r \in named : p.node = r.node => p = r
  BY <1>3
<1>6. ASSUME NEW p \in named PROVE \E x \in first : Seek!Locator(g, x.node, there) = Seek!Locator(g, p.node, there)
  <2>1. PICK same : same = {r \in named : Seek!Locator(g, r.node, there) = Seek!Locator(g, p.node, there)}
    OBVIOUS
  <2>2. same \in SUBSET named /\ IsFiniteSet(same) /\ same # {}
    BY <1>3, <2>1, FS_Subset
  <2>3. Ranks(same, PointOrder(same))
    BY <1>4, <1>5, <2>2, PointsRank
  <2>4. PICK x \in same : \A y \in same : y = x \/ <<x, y>> \in PointOrder(same)
    BY <2>2, <2>3, FirstOf
  <2>5. \A y \in same : y = x \/ Seek!Ahead(x, y)
    BY <2>4 DEF PointOrder
  <2>6. \A y \in named : ~(Seek!Ahead(x, y) /\ Seek!Ahead(y, x)) /\ ~Seek!Ahead(x, x)
    BY <1>4, <2>2 DEF Seek!Ahead
  <2>7. x \in first
    BY <1>2, <2>1, <2>2, <2>5, <2>6
  <2> QED
    BY <2>1, <2>7
<1>7. PICK c : c = Cardinality(first)
  OBVIOUS
<1>8. PICK sorted : sorted = Seek!Sorted(first, Seek!Ahead)
  OBVIOUS
<1>9. sorted \in Seq(first) /\ c \in Nat /\ DOMAIN sorted = 1 .. c /\ Entries(sorted) = first
  <2>1. IsFiniteSet(first)
    BY <1>3, FS_Subset
  <2>2. Ranks(first, PointOrder(first))
    BY <1>3, <1>4, <1>5, PointsRank
  <2>3. sorted = ListOf(first, PointOrder(first))
    BY <1>8, PointsSorted
  <2> QED
    BY <1>7, <2>1, <2>2, <2>3, ListOfIs
<1>10. PICK list : list = Seek!Candidates(g, v, there)
  OBVIOUS
<1>11. list = [k \in 1 .. c |-> [node |-> sorted[k].node, score |-> sorted[k].score,
                                 depth |-> sorted[k].depth, locator |-> Seek!Locator(g, sorted[k].node, there)]]
  <2>1. named = {p \in Seek!ToSet(v) : Seek!Locator(g, p.node, there) # Unset}
    BY <1>1, SearchEntries
  <2> QED
    BY <1>2, <1>8, <1>9, <1>10, <2>1 DEF Seek!Candidates
<1>12. ASSUME NEW k \in 1 .. c
       PROVE  list[k] \in SourceCandidate /\ list[k].locator = Seek!Locator(g, sorted[k].node, there)
  <2>1. PICK p \in first : p = sorted[k]
    BY <1>9
  <2>2. Seek!Locator(g, p.node, there) \in AnyLocator
    BY <1>1, <1>3, <1>4, <2>1 DEF AnyLocator, NodeLocators, LocatorsIn
  <2>3. list[k] = [node |-> p.node, score |-> p.score, depth |-> p.depth, locator |-> Seek!Locator(g, p.node, there)]
    BY <1>11, <2>1
  <2>4. PICK a \in Nat, b \in Nat, d \in Nat : a = p.node /\ b = p.score /\ d = p.depth
    BY <1>3, <1>4, <2>1
  <2>5. PICK l \in AnyLocator : l = Seek!Locator(g, p.node, there)
    BY <2>2
  <2>6. list[k] = [node |-> a, score |-> b, depth |-> d, locator |-> l]
    BY <2>3, <2>4, <2>5
  <2>7. list[k] \in SourceCandidate /\ list[k].locator = l
    BY <2>6 DEF SourceCandidate
  <2> QED
    BY <2>1, <2>5, <2>7
<1>13. list \in [1 .. c -> SourceCandidate]
  BY <1>11, <1>12
<1>14. list \in Seq(SourceCandidate) /\ DOMAIN list = 1 .. c
  BY <1>9, <1>13, RunIs
<1>15. ASSUME NEW n \in NodesIn(v), Seek!Locator(g, n, there) # Unset
       PROVE  \E x \in Entries(list) : x.locator = Seek!Locator(g, n, there)
  <2>1. PICK p \in named : p.node = n
    BY <1>1, <1>15 DEF NodesIn
  <2>2. PICK x \in first : Seek!Locator(g, x.node, there) = Seek!Locator(g, n, there)
    BY <1>6, <2>1
  <2>3. PICK k \in 1 .. c : sorted[k] = x
    BY <1>9 DEF Entries
  <2>4. list[k] \in Entries(list) /\ list[k].locator = Seek!Locator(g, n, there)
    BY <1>12, <1>14, <2>2, <2>3 DEF Entries
  <2> QED
    BY <2>4
<1> QED
  BY <1>10, <1>14, <1>15

-----------------------------------------------------------------------------
(***************************************************************************)
(* Trace: what is read of a source, and what a search takes of it.         *)
(***************************************************************************)

\* Passages, the texts that are quoted, and the references of a source.
PassageOf == UNION {Entries(c.passages) : c \in SourceContent}
RefsOf == {c.refs : c \in SourceContent} \union {{}}
HitOf == [node : Nat, line : Nat, text : {p.text : p \in PassageOf}, score : Nat]

LEMMA PassagesAre == ASSUME NEW c \in SourceContent PROVE c.passages \in Seq(PassageOf)
<1>1. c.passages \in Seq(Entries(c.passages)) /\ Entries(c.passages) \subseteq PassageOf
  BY SearchContentIs DEF PassageOf
<1> QED
  BY <1>1

LEMMA RefsAre ==
    ASSUME NEW R \in RefsOf
    PROVE  /\ IsFiniteSet(R) /\ \A ref \in R : ref.id \in Nat /\ ref.locator \in AnyLocator
           /\ \A ref, other \in R : ref.id = other.id => ref = other
BY SearchContentIs, FS_EmptySet DEF RefsOf

\* read_file.rs and scan.rs: what is read of a source is within what is allowed.
LEMMA BytesIs ==
    ASSUME NEW loc, NEW content \in SourceContent, NEW allowance \in Nat, NEW q \in SearchFor
    PROVE  LET b == Seek!Bytes(loc, content, allowance, q)
           IN b \in Nat /\ b <= allowance /\ b <= Len(content.passages)
<1>1. PICK n \in Nat : n = Len(content.passages)
  BY PassagesAre
<1>2. PICK m \in Nat : m = q.maxRecords
  BY SearchLimits
<1>3. PICK s : s = Seek!Min({n, allowance}) /\ s = IF n <= allowance THEN n ELSE allowance
  BY SearchMin
<1>4. s \in Nat /\ s <= allowance /\ s <= n
  BY <1>3
<1>5. Seek!Min({s, m}) = IF s <= m THEN s ELSE m
  BY <1>4, SearchMin
<1>6. Seek!Bytes(loc, content, allowance, q) = IF loc.kind = "native" THEN Seek!Min({s, m}) ELSE s
  BY <1>1, <1>2, <1>3 DEF Seek!Bytes
<1> QED
  BY <1>1, <1>4, <1>5, <1>6

\* search.rs, retrieve: a share of what is left.
LEMMA AllowanceIs ==
    ASSUME NEW remaining \in Nat, NEW others \in Nat
    PROVE  Seek!Allowance(remaining, others) \in Nat /\ Seek!Allowance(remaining, others) <= remaining
<1>1. PICK d : d = remaining \div (others + 1) /\ d \in Nat
  <2>1. others + 1 \in Nat \ {0}
    OBVIOUS
  <2> QED
    BY <2>1, ShareIs
<1>2. PICK x : x = Seek!Max({d, 1}) /\ x = IF d >= 1 THEN d ELSE 1
  BY <1>1, SearchMax
<1>3. x \in Nat
  BY <1>1, <1>2
<1>4. Seek!Min({x, remaining}) = IF x <= remaining THEN x ELSE remaining
  BY <1>3, SearchMin
<1> QED
  BY <1>1, <1>2, <1>3, <1>4 DEF Seek!Allowance

\* What is kept of a reading.
IsReading(rec) ==
    /\ rec.complete \in BOOLEAN /\ rec.passages \in Seq(PassageOf) /\ rec.refs \in RefsOf
    /\ rec.version \in Nat \X Nat

\* A complete reading has all that a source holds.
ReadsAll(rec, loc, content) ==
    rec.complete => rec.passages = content.passages /\ (loc.kind = "file" => rec.refs = content.refs)

LEMMA Beginning ==
    ASSUME NEW X, NEW s \in Seq(X), NEW n \in Nat, n <= Len(s)
    PROVE  SubSeq(s, 1, n) \in Seq(X) /\ (n = Len(s) => SubSeq(s, 1, n) = s)
OBVIOUS

LEMMA ReadingIs ==
    ASSUME NEW loc \in SourceOf, NEW content \in SourceContent, NEW allowance \in Nat, NEW q \in SearchFor,
           NEW version \in Nat \X Nat
    PROVE  LET rec == Seek!Reading(loc, content, version, allowance, q)
           IN /\ IsReading(rec) /\ rec.version = version /\ rec.locator = loc
              /\ version[1] = Len(content.passages) => ReadsAll(rec, loc, content)
<1>1. PICK n \in Nat : n = Len(content.passages)
  BY PassagesAre
<1>2. PICK m \in Nat : m = q.maxRecords
  BY SearchLimits
<1>3. PICK b \in Nat : b = Seek!Bytes(loc, content, allowance, q) /\ b <= n
  BY <1>1, BytesIs
<1>4. PICK whole \in BOOLEAN : whole = (IF loc.kind = "file" THEN b = version[1] ELSE b = n)
  OBVIOUS
<1>5. PICK lesser : lesser = Seek!Min({b, m}) /\ lesser = IF b <= m THEN b ELSE m
  BY SearchMin
<1>6. PICK count : count = IF loc.kind = "document" /\ ~whole THEN 0 ELSE lesser
  OBVIOUS
<1>7. count \in Nat /\ count <= n /\ (count = b => b <= m \/ (loc.kind = "document" /\ ~whole))
  BY <1>3, <1>5, <1>6
<1>8. PICK refs : refs = IF loc.kind = "file" /\ whole /\ ~(loc.kind = "file" /\ b > m) THEN content.refs ELSE {}
  OBVIOUS
<1>9. PICK all \in BOOLEAN : all = (whole /\ count = b)
  OBVIOUS
<1>10. PICK ps : ps = SubSeq(content.passages, 1, count)
  OBVIOUS
<1>11. PICK rec : rec = Seek!Reading(loc, content, version, allowance, q)
  OBVIOUS
<1>12. rec = [locator |-> loc, version |-> version, maxBytes |-> allowance, maxRecords |-> q.maxRecords,
              complete |-> all, passages |-> ps, refs |-> refs]
  BY <1>1, <1>2, <1>3, <1>4, <1>5, <1>6, <1>8, <1>9, <1>10, <1>11 DEF Seek!Reading
<1>13. rec.locator = loc /\ rec.version = version /\ rec.complete = all /\ rec.passages = ps /\ rec.refs = refs
  BY <1>12
<1>14. ps \in Seq(PassageOf) /\ (count = n => ps = content.passages)
  BY <1>1, <1>7, <1>10, PassagesAre, Beginning
<1>15. refs \in RefsOf
  BY <1>8 DEF RefsOf
<1>16. ASSUME version[1] = n, all PROVE ps = content.passages /\ (loc.kind = "file" => refs = content.refs)
  <2>1. whole /\ count = b /\ b = n
    BY <1>4, <1>9, <1>16
  <2>2. loc.kind = "file" => b <= m
    BY <1>7, <2>1
  <2> QED
    BY <1>3, <1>8, <1>14, <2>1, <2>2
<1> QED
  BY <1>1, <1>11, <1>13, <1>14, <1>15, <1>16 DEF IsReading, ReadsAll

\* search.rs, rank: the hits in the passages of a source.
LEMMA HitIs ==
    ASSUME NEW c \in SourceCandidate, NEW rank \in Nat, NEW ps \in Seq(PassageOf), NEW i \in DOMAIN ps
    PROVE  LET h == Seek!Hit(c, rank, ps, i) IN h \in HitOf /\ h.line = i /\ h.text = ps[i].text
<1>1. PICK n \in Nat : n = Len(ps) /\ i \in 1 .. n /\ ps[i] \in PassageOf
  OBVIOUS
<1>2. PICK S : S = {j \in 1 .. (i - 1) : ps[j].hit}
  OBVIOUS
<1>3. PICK a : a = Cardinality(S) /\ a \in Nat
  <2>1. PICK T : T = 1 .. (i - 1)
    OBVIOUS
  <2>2. IsFiniteSet(T)
    <3>1. 1 \in Int /\ i - 1 \in Int
      BY <1>1
    <3> QED
      BY <2>1, <3>1, FS_Interval
  <2>3. S \in SUBSET T
    BY <1>2, <2>1
  <2> QED
    BY <2>2, <2>3, FS_Subset, FS_CardinalityType
<1>4. 60 + rank \in Nat \ {0} /\ 61 + a \in Nat \ {0} /\ 1000000 \in Nat
  BY <1>3
<1>5. PICK x \in Nat : x = 1000000 \div (60 + rank)
  BY <1>4, ShareIs
<1>6. PICK y \in Nat : y = 1000000 \div (61 + a)
  BY <1>4, ShareIs
<1>7. Seek!Hit(c, rank, ps, i) = [node |-> c.node, line |-> i, text |-> ps[i].text, score |-> x + y]
  BY <1>2, <1>3, <1>5, <1>6, SearchCounts DEF Seek!Hit
<1>8. PICK h : h = Seek!Hit(c, rank, ps, i)
  OBVIOUS
<1>12. PICK d \in Nat : d = c.node
  BY DEF SourceCandidate
<1>13. PICK t \in {p.text : p \in PassageOf} : t = ps[i].text
  BY <1>1
<1>14. PICK z \in Nat : z = x + y
  OBVIOUS
<1>9. d = c.node /\ t = ps[i].text /\ z = x + y
  BY <1>12, <1>13, <1>14
<1>10. h = [node |-> d, line |-> i, text |-> t, score |-> z] /\ i \in Nat
  BY <1>1, <1>7, <1>8, <1>9
<1>11. h \in HitOf /\ h.line = i /\ h.text = t
  BY <1>10 DEF HitOf
<1> QED
  BY <1>8, <1>9, <1>11

\* search.rs, admits: as long as the hits are no more than the limit all are kept.
LEMMA BestKeeps ==
    ASSUME NEW H \in SUBSET HitOf, IsFiniteSet(H), NEW limit \in Nat
    PROVE  /\ Seek!Best(H, limit) \in SUBSET H
           /\ Cardinality(H) <= limit => Seek!Best(H, limit) = H
<1>1. Seek!Best(H, limit) = {h \in H : Cardinality({k \in H : Seek!Better(k, h)}) < limit}
  BY SearchCounts DEF Seek!Best
<1>2. ASSUME Cardinality(H) <= limit, NEW h \in H PROVE Cardinality({k \in H : Seek!Better(k, h)}) < limit
  <2>1. PICK B : B = {k \in H : Seek!Better(k, h)}
    OBVIOUS
  <2>2. h.score \in Nat /\ h.node \in Nat /\ h.line \in Nat
    BY DEF HitOf
  <2>3. B \in SUBSET H /\ h \notin B
    BY <2>1, <2>2 DEF Seek!Better
  <2>4. IsFiniteSet(B) /\ Cardinality(B) <= Cardinality(H) /\ Cardinality(B) # Cardinality(H)
    BY <2>3, FS_Subset
  <2>5. Cardinality(B) \in Nat /\ Cardinality(H) \in Nat
    BY <2>4, FS_CardinalityType
  <2> QED
    BY <1>2, <2>1, <2>4, <2>5
<1> QED
  BY <1>1, <1>2

\* The hits that are new.
NewHits(c, rank, ps, q) ==
    {Seek!Hit(c, rank, ps, i) : i \in {i \in Seek!Matching(ps, q) : ~ps[i].secret}}

LEMMA NewHitsAre ==
    ASSUME NEW c \in SourceCandidate, NEW rank \in Nat, NEW ps \in Seq(PassageOf), NEW q
    PROVE  /\ IsFiniteSet(NewHits(c, rank, ps, q)) /\ NewHits(c, rank, ps, q) \subseteq HitOf
           /\ IsFiniteSet(Seek!Matching(ps, q))
           /\ Cardinality(NewHits(c, rank, ps, q)) <= Cardinality(Seek!Matching(ps, q))
           /\ \A i \in Seek!Matching(ps, q) : ps[i].secret
                 \/ \E h \in NewHits(c, rank, ps, q) : h.line = i /\ h.text = ps[i].text
<1>1. PICK n \in Nat : n = Len(ps) /\ DOMAIN ps = 1 .. n
  OBVIOUS
<1>2. PICK T : T = 1 .. n
  OBVIOUS
<1>3. IsFiniteSet(T)
  <2>1. 1 \in Int /\ n \in Int
    OBVIOUS
  <2> QED
    BY <1>2, <2>1, FS_Interval
<1>4. PICK M2 : M2 = Seek!Matching(ps, q)
  OBVIOUS
<1>5. M2 \in SUBSET T
  BY <1>1, <1>2, <1>4 DEF Seek!Matching
<1>6. PICK S : S = {i \in M2 : ~ps[i].secret}
  OBVIOUS
<1>7. IsFiniteSet(M2) /\ IsFiniteSet(S) /\ Cardinality(S) <= Cardinality(M2)
  <2>1. IsFiniteSet(M2)
    BY <1>3, <1>5, FS_Subset
  <2>2. S \in SUBSET M2
    BY <1>6
  <2> QED
    BY <2>1, <2>2, FS_Subset
<1>8. PICK f : f = [i \in S |-> Seek!Hit(c, rank, ps, i)]
  OBVIOUS
<1>9. PICK H : H = NewHits(c, rank, ps, q)
  OBVIOUS
<1>10. DOMAIN f = S /\ f = [i \in S |-> f[i]] /\ H = {f[i] : i \in S}
  BY <1>4, <1>6, <1>8, <1>9 DEF NewHits
<1>11. IsFiniteSet(H) /\ Cardinality(H) <= Cardinality(S)
  BY <1>7, <1>10, Valued
<1>12. Cardinality(H) <= Cardinality(M2)
  BY <1>7, <1>11, FS_CardinalityType
<1>13. \A i \in S : f[i] \in HitOf /\ f[i].line = i /\ f[i].text = ps[i].text
  <2> TAKE i \in S
  <2>1. i \in DOMAIN ps /\ f[i] = Seek!Hit(c, rank, ps, i)
    BY <1>1, <1>2, <1>5, <1>6, <1>8
  <2> QED
    BY <2>1, HitIs
<1>14. H \subseteq HitOf
  BY <1>10, <1>13
<1>15. \A i \in M2 : ps[i].secret \/ \E h \in H : h.line = i /\ h.text = ps[i].text
  BY <1>6, <1>10, <1>13
<1> QED
  BY <1>4, <1>7, <1>9, <1>11, <1>12, <1>14, <1>15

-----------------------------------------------------------------------------
(***************************************************************************)
(* Trace: a search, and what it does with a source.                        *)
(***************************************************************************)
ExaminedOf ==
    [c : SourceCandidate, locator : SourceOf, allowance : Nat, version : Nat \X Nat,
     content : SourceContent \union {Unset}]

SearchRun ==
    [q : SearchFor, graph : TraceJournal, now : Nat, there : SUBSET SourceName,
     pending : Seq(SourceCandidate), limited : BOOLEAN, seen : SUBSET SourceOf, attempted : Nat, charged : Nat, measured : Nat, unknown : BOOLEAN,
     read : Nat, matched : Nat, hits : SUBSET HitOf, stage : {"next", "open", "read"},
     at : {Unset} \union ExaminedOf]

LEMMA RunTyped ==
    ASSUME NEW r \in SearchRun
    PROVE  /\ r.q \in SearchFor /\ r.graph \in TraceJournal /\ r.now \in Nat
           /\ r.there \in SUBSET SourceName
           /\ r.pending \in Seq(SourceCandidate) /\ r.limited \in BOOLEAN /\ r.seen \in SUBSET SourceOf
           /\ r.attempted \in Nat /\ r.charged \in Nat /\ r.measured \in Nat /\ r.unknown \in BOOLEAN
           /\ r.read \in Nat /\ r.matched \in Nat /\ r.hits \in SUBSET HitOf
           /\ r.stage \in {"next", "open", "read"}
BY DEF SearchRun

\* The search is about the same question, graph, time and files.
SameSearch(r, u) == u.q = r.q /\ u.graph = r.graph /\ u.now = r.now /\ u.there = r.there

\* search.rs, success: the fields that it writes.
Written(r, hits, matched, charged, measured, limited, pending) ==
    [r EXCEPT !.hits = hits, !.matched = matched, !.charged = charged, !.measured = measured,
              !.limited = limited, !.pending = pending, !.stage = "next", !.at = Unset]

LEMMA UseFields ==
    ASSUME NEW r \in SearchRun, NEW hits \in SUBSET HitOf, NEW matched \in Nat, NEW charged \in Nat,
           NEW measured \in Nat, NEW limited \in BOOLEAN, NEW pending \in Seq(SourceCandidate), NEW u,
           u = Written(r, hits, matched, charged, measured, limited, pending)
    PROVE  /\ u \in SearchRun /\ SameSearch(r, u) /\ u.hits = hits /\ u.matched = matched
           /\ u.charged = charged /\ u.measured = measured /\ u.limited = limited /\ u.pending = pending
           /\ u.stage = "next" /\ u.seen = r.seen /\ u.unknown = r.unknown /\ u.read = r.read
BY DEF Written, SearchRun, SameSearch

\* The references that are followed.
FollowedOf(c, refs, n) ==
    [i \in 1 .. n |-> [node |-> refs[i].id, score |-> (c.score * 90) \div 100, depth |-> c.depth + 1,
                       locator |-> refs[i].locator]]

LEMMA FollowedIs ==
    ASSUME NEW c \in SourceCandidate, NEW R \in RefsOf, NEW refs, refs = Seek!Sorted(R, Seek!FirstId),
           NEW n \in Nat, n <= Len(refs)
    PROVE  /\ Len(refs) = Cardinality(R) /\ Cardinality(R) \in Nat
           /\ FollowedOf(c, refs, n) \in Seq(SourceCandidate) /\ Len(FollowedOf(c, refs, n)) = n
           /\ n = Cardinality(R) => \A ref \in R : \E p \in Entries(FollowedOf(c, refs, n)) : p.locator = ref.locator
<1>1. /\ IsFiniteSet(R) /\ \A ref \in R : ref.id \in Nat /\ ref.locator \in AnyLocator
      /\ \A ref, other \in R : ref.id = other.id => ref = other
  BY RefsAre
<1>2. PICK k : k = Cardinality(R)
  OBVIOUS
<1>3. refs \in Seq(R) /\ Len(refs) = k /\ k \in Nat /\ DOMAIN refs = 1 .. k /\ Entries(refs) = R
  <2>1. Ranks(R, IdOrder(R))
    BY <1>1, IdsRank
  <2>2. refs = ListOf(R, IdOrder(R))
    BY IdsSorted
  <2> QED
    BY <1>1, <1>2, <2>1, <2>2, ListOfIs
<1>4. PICK score \in Nat : score = (c.score * 90) \div 100
  <2>1. PICK x \in Nat : x = c.score * 90
    BY DEF SourceCandidate
  <2> QED
    BY <2>1, ShareIs
<1>5. PICK depth \in Nat : depth = c.depth + 1
  BY DEF SourceCandidate
<1>6. PICK list : list = FollowedOf(c, refs, n)
  OBVIOUS
<1>7. list = [i \in 1 .. n |-> [node |-> refs[i].id, score |-> score, depth |-> depth, locator |-> refs[i].locator]]
  BY <1>4, <1>5, <1>6 DEF FollowedOf
<1>8. ASSUME NEW i \in 1 .. n PROVE list[i] \in SourceCandidate /\ list[i].locator = refs[i].locator
  <2>1. refs[i] \in R
    BY <1>3
  <2>2. PICK id \in Nat, l \in AnyLocator : id = refs[i].id /\ l = refs[i].locator
    BY <1>1, <2>1
  <2>3. list[i] = [node |-> id, score |-> score, depth |-> depth, locator |-> l]
    BY <1>7, <2>2
  <2> QED
    BY <2>2, <2>3 DEF SourceCandidate
<1>9. list \in [1 .. n -> SourceCandidate]
  BY <1>7, <1>8
<1>10. list \in Seq(SourceCandidate) /\ Len(list) = n /\ DOMAIN list = 1 .. n
  BY <1>9, RunIs
<1>11. ASSUME n = k, NEW ref \in R PROVE \E p \in Entries(list) : p.locator = ref.locator
  <2>1. PICK i \in 1 .. n : refs[i] = ref
    BY <1>3, <1>11 DEF Entries
  <2>2. list[i] \in Entries(list) /\ list[i].locator = ref.locator
    BY <1>8, <1>10, <2>1 DEF Entries
  <2> QED
    BY <2>2
<1> QED
  BY <1>2, <1>3, <1>6, <1>10, <1>11

\* What is quoted of passages.
QuotedFrom(u, ps) ==
    \A i \in Seek!Matching(ps, u.q) : ps[i].secret \/ \E h \in u.hits : h.line = i /\ h.text = ps[i].text

\* What a search has of a source that it could use.
Used(r, rec, spent, u) ==
    /\ u \in SearchRun /\ SameSearch(r, u) /\ u.stage = "next"
    /\ u.seen = r.seen /\ u.unknown = r.unknown /\ u.read = r.read
    /\ u.charged = r.charged + spent /\ u.measured = r.measured + spent
    /\ IsFiniteSet(u.hits) /\ Cardinality(u.hits) <= u.matched
    /\ r.matched <= u.matched
    /\ u.matched <= u.q.limit => r.hits \subseteq u.hits /\ QuotedFrom(u, rec.passages)
    /\ Entries(r.pending) \subseteq Entries(u.pending)
    /\ ~u.limited => /\ ~r.limited /\ rec.complete
                     /\ \A ref \in rec.refs : \E p \in Entries(u.pending) : p.locator = ref.locator

LEMMA UseIs ==
    ASSUME NEW r \in SearchRun, NEW c \in SourceCandidate, NEW rec, IsReading(rec), NEW spent \in Nat,
           IsFiniteSet(r.hits), Cardinality(r.hits) <= r.matched
    PROVE  Used(r, rec, spent, Seek!Use(r, c, rec, spent))
<1>1. /\ r.q \in SearchFor /\ r.pending \in Seq(SourceCandidate) /\ r.limited \in BOOLEAN /\ r.attempted \in Nat
      /\ r.charged \in Nat /\ r.measured \in Nat /\ r.matched \in Nat /\ r.hits \in SUBSET HitOf
  BY RunTyped
<1>2. rec.complete \in BOOLEAN /\ rec.passages \in Seq(PassageOf) /\ rec.refs \in RefsOf
  BY DEF IsReading
<1>3. PICK same : same = Seek!Matching(rec.passages, r.q)
  OBVIOUS
<1>4. PICK new : new = NewHits(c, r.attempted, rec.passages, r.q)
  OBVIOUS
<1>5. /\ IsFiniteSet(new) /\ new \subseteq HitOf /\ IsFiniteSet(same) /\ Cardinality(new) <= Cardinality(same)
      /\ \A i \in same : rec.passages[i].secret \/ \E h \in new : h.line = i /\ h.text = rec.passages[i].text
  BY <1>1, <1>2, <1>3, <1>4, NewHitsAre
<1>6. PICK refs : refs = Seek!Sorted(rec.refs, Seek!FirstId)
  OBVIOUS
<1>7. PICK k : k = Cardinality(rec.refs) /\ k \in Nat /\ Len(refs) = k
  <2>1. 0 \in Nat /\ 0 <= Len(refs)
    <3>1. IsFiniteSet(rec.refs) /\ Ranks(rec.refs, IdOrder(rec.refs))
      BY <1>2, RefsAre, IdsRank
    <3>2. Len(refs) = Cardinality(rec.refs) /\ Cardinality(rec.refs) \in Nat
      BY <1>6, <3>1, IdsSorted, ListOfIs
    <3> QED
      BY <3>2
  <2> QED
    BY <1>2, <1>6, <2>1, FollowedIs
<1>8. PICK room : room = Seek!Max({0, FrontierLimit - Len(r.pending)})
  OBVIOUS
<1>9. room \in Nat
  <2>1. FrontierLimit \in Nat /\ Len(r.pending) \in Nat
    BY <1>1, SearchLimits
  <2>2. FrontierLimit - Len(r.pending) \in Int
    BY <2>1
  <2> QED
    BY <1>8, <2>2, SearchMax
<1>10. PICK n : n = IF rec.refs # {} /\ c.depth < r.q.maxDepth THEN Seek!Min({room, Len(refs)}) ELSE 0
  OBVIOUS
<1>11. n \in Nat /\ n <= k
  <2>1. Seek!Min({room, Len(refs)}) = IF room <= k THEN room ELSE k
    BY <1>7, <1>9, SearchMin
  <2> QED
    BY <1>7, <1>9, <1>10, <2>1
<1>12. PICK more : more = FollowedOf(c, refs, n)
  OBVIOUS
<1>13. /\ more \in Seq(SourceCandidate) /\ Len(more) = n
       /\ n = k => \A ref \in rec.refs : \E p \in Entries(more) : p.locator = ref.locator
  BY <1>2, <1>6, <1>7, <1>11, <1>12, FollowedIs
<1>14. PICK hits : hits = Seek!Best(r.hits \union new, r.q.limit)
  OBVIOUS
<1>15. PICK limited \in BOOLEAN : limited = (r.limited \/ ~rec.complete \/ n < k)
  OBVIOUS
<1>16. PICK pending : pending = r.pending \o more
  OBVIOUS
<1>17. PICK u : u = Seek!Use(r, c, rec, spent)
  OBVIOUS
<1>18. PICK m : m = Cardinality(same) /\ m \in Nat
  BY <1>5, FS_CardinalityType
<1>19. u = [r EXCEPT !.hits = hits, !.matched = r.matched + m, !.charged = r.charged + spent,
                     !.measured = r.measured + spent, !.limited = limited, !.pending = pending,
                     !.stage = "next", !.at = Unset]
  <2>1. PICK size : size = Seek!Cardinality(rec.refs) /\ size = k
    BY <1>7, SearchCounts
  <2>2. Seek!Cardinality(same) = m
    BY <1>18, SearchCounts
  <2>3. PICK whole : whole = NewHits(c, r.attempted, rec.passages, r.q) /\ whole = new
    BY <1>4
  <2>4. new = {Seek!Hit(c, r.attempted, rec.passages, i) : i \in {i \in same : ~rec.passages[i].secret}}
    BY <1>3, <1>4 DEF NewHits
  <2>5. more = [i \in 1 .. n |-> [node |-> refs[i].id, score |-> (c.score * 90) \div 100, depth |-> c.depth + 1,
                                  locator |-> refs[i].locator]]
    BY <1>12 DEF FollowedOf
  <2>6. Len(more) = n
    BY <1>13
  <2>7. Seek!Use(r, c, rec, spent) =
           [r EXCEPT !.hits = Seek!Best(r.hits \union new, r.q.limit), !.matched = r.matched + Seek!Cardinality(same),
                     !.charged = r.charged + spent, !.measured = r.measured + spent,
                     !.limited = r.limited \/ ~rec.complete \/ Len(more) < Seek!Cardinality(rec.refs),
                     !.pending = r.pending \o more, !.stage = "next", !.at = Unset]
    BY <1>3, <1>6, <1>8, <1>10, <2>4, <2>5 DEF Seek!Use
  <2>8. PICK flag : flag = (r.limited \/ ~rec.complete \/ Len(more) < Seek!Cardinality(rec.refs))
    OBVIOUS
  <2>9. flag = limited
    BY <1>15, <2>1, <2>6, <2>8
  <2>10. u = [r EXCEPT !.hits = hits, !.matched = r.matched + m, !.charged = r.charged + spent,
                       !.measured = r.measured + spent, !.limited = flag, !.pending = pending,
                       !.stage = "next", !.at = Unset]
    BY <1>14, <1>16, <1>17, <2>2, <2>7, <2>8
  <2> QED
    BY <2>9, <2>10
<1>20. PICK H : H = r.hits \union new
  OBVIOUS
<1>21. IsFiniteSet(H) /\ H \in SUBSET HitOf /\ Cardinality(H) <= r.matched + m /\ Cardinality(H) \in Nat
  <2>1. IsFiniteSet(H) /\ Cardinality(H) = Cardinality(r.hits) + Cardinality(new) - Cardinality(r.hits \cap new)
    BY <1>5, <1>20, FS_Union
  <2>2. /\ Cardinality(r.hits) \in Nat /\ Cardinality(new) \in Nat /\ Cardinality(r.hits \cap new) \in Nat
        /\ Cardinality(H) \in Nat
    BY <1>5, <2>1, FS_Intersection, FS_CardinalityType
  <2> QED
    BY <1>1, <1>5, <1>18, <1>20, <2>1, <2>2
<1>22. PICK limit \in Nat : limit = r.q.limit
  BY <1>1, SearchLimits
<1>23. hits \in SUBSET H /\ (Cardinality(H) <= limit => hits = H)
  BY <1>14, <1>20, <1>21, <1>22, BestKeeps
<1>24. IsFiniteSet(hits) /\ Cardinality(hits) <= Cardinality(H) /\ Cardinality(hits) \in Nat
  BY <1>21, <1>23, FS_Subset, FS_CardinalityType
<1>25. pending \in Seq(SourceCandidate) /\ Entries(pending) = Entries(r.pending) \union Entries(more)
  BY <1>1, <1>13, <1>16, JoinedIs
<1>26. /\ u \in SearchRun /\ SameSearch(r, u) /\ u.hits = hits /\ u.matched = r.matched + m
       /\ u.charged = r.charged + spent /\ u.measured = r.measured + spent /\ u.limited = limited /\ u.pending = pending
       /\ u.stage = "next" /\ u.seen = r.seen /\ u.unknown = r.unknown /\ u.read = r.read
  <2>1. PICK a \in Nat : a = r.matched + m
    BY <1>1, <1>18
  <2>2. PICK b \in Nat : b = r.charged + spent
    BY <1>1
  <2>3. PICK d \in Nat : d = r.measured + spent
    BY <1>1
  <2>4. hits \in SUBSET HitOf
    BY <1>21, <1>23
  <2>5. u = Written(r, hits, a, b, d, limited, pending)
    BY <1>19, <2>1, <2>2, <2>3 DEF Written
  <2>6. pending \in Seq(SourceCandidate)
    BY <1>25
  <2>7. /\ u \in SearchRun /\ SameSearch(r, u) /\ u.hits = hits /\ u.matched = a
        /\ u.charged = b /\ u.measured = d /\ u.limited = limited /\ u.pending = pending
        /\ u.stage = "next" /\ u.seen = r.seen /\ u.unknown = r.unknown /\ u.read = r.read
    BY <2>4, <2>5, <2>6, UseFields
  <2> QED
    BY <2>1, <2>2, <2>3, <2>7
<1>27. r.matched <= u.matched /\ Cardinality(u.hits) <= u.matched
  BY <1>1, <1>18, <1>21, <1>24, <1>26
<1>28. ASSUME u.matched <= u.q.limit PROVE r.hits \subseteq u.hits /\ QuotedFrom(u, rec.passages)
  <2>1. u.q = r.q
    BY <1>26 DEF SameSearch
  <2>2. hits = H
    BY <1>1, <1>18, <1>21, <1>22, <1>23, <1>26, <1>28, <2>1
  <2> QED
    BY <1>3, <1>5, <1>20, <1>26, <2>1, <2>2 DEF QuotedFrom
<1>29. ASSUME ~u.limited
       PROVE  /\ ~r.limited /\ rec.complete
              /\ \A ref \in rec.refs : \E p \in Entries(u.pending) : p.locator = ref.locator
  <2>1. ~r.limited /\ rec.complete /\ ~(n < k)
    BY <1>1, <1>2, <1>15, <1>26, <1>29
  <2>2. n = k
    BY <1>7, <1>11, <2>1
  <2> QED
    BY <1>13, <1>25, <1>26, <2>1, <2>2
<1> QED
  BY <1>17, <1>24, <1>25, <1>26, <1>27, <1>28, <1>29 DEF Used

-----------------------------------------------------------------------------
(***************************************************************************)
(* Trace: what is so of a search at every step.                            *)
(***************************************************************************)
FileOf == [content : SourceContent, stamp : Nat]

\* A source that is named is looked up, or will be.
Accounted(r, l) ==
    \/ \E c \in Entries(r.pending) : c.locator = l
    \/ l.kind # "url" /\ Seek!Resolve(l) \in r.seen

\* Something that a source had is quoted, and what it names is accounted for.
LookedUp(r, had, loc) ==
    \E f \in had[loc.name] :
        /\ f.content \in SourceContent /\ QuotedFrom(r, f.content.passages)
        /\ loc.kind = "file" => \A ref \in f.content.refs : Accounted(r, ref.locator)

\* What the links that hold lead to.
LinkedLocators(g, t, q, there) ==
    {Seek!Locator(g, n, there) : n \in Seek!Reached(g, t, Seek!Matched(g, t, q))} \ {Unset}

Few(g, t, q) == Seek!Cardinality(Seek!Matched(g, t, q)) <= SeedLimit

NamedKept(r) ==
    ~r.limited /\ Few(r.graph, r.now, r.q) =>
        \A l \in LinkedLocators(r.graph, r.now, r.q, r.there) : l \in AnyLocator /\ Accounted(r, l)

SeenKept(r, had, odd) ==
    ~r.limited /\ r.matched <= r.q.limit /\ odd = {} =>
        \A l \in r.seen : (r.stage # "next" /\ r.at.locator = l) \/ LookedUp(r, had, l)

\* What is charged covers what is read, with `b` bytes read and not charged, and
\* leaves room for as much as is allowed.
SpentKept(r, b, room) ==
    /\ r.charged + room <= r.q.maxBytes /\ r.read <= r.charged + b
    /\ ~r.unknown => r.measured + b = r.read

ReadFor(r) == Seek!Bytes(r.at.locator, r.at.content, r.at.allowance, r.q)

Spends(r) ==
    /\ r.stage = "next" => SpentKept(r, 0, 0)
    /\ r.stage = "open" => SpentKept(r, 0, r.at.allowance)
    /\ r.stage = "read" => SpentKept(r, ReadFor(r), r.at.allowance)

HitsKept(r) == IsFiniteSet(r.hits) /\ Cardinality(r.hits) <= r.matched

\* A time that is not older than what was read tells what was read.
SameThen(name, version, content, at, odd) ==
    odd = {} /\ at[name] # Removed /\ at[name].stamp = version[2] => at[name].content = content

AtKept(r, at, odd, e) ==
    r.stage # "next" =>
        /\ r.at \in ExaminedOf /\ r.at.locator \in r.seen /\ r.at.version[2] <= e
        /\ r.stage = "read" =>
              /\ r.at.content \in SourceContent
              /\ SameThen(r.at.locator.name, r.at.version, r.at.content, at, odd)

SearchKept(r, at, had, odd, e) ==
    /\ r \in SearchRun /\ HitsKept(r) /\ Spends(r) /\ NamedKept(r) /\ SeenKept(r, had, odd) /\ AtKept(r, at, odd, e)

-----------------------------------------------------------------------------
\* A search goes on.
Onwards(r, u) ==
    /\ SameSearch(r, u) /\ r.matched <= u.matched
    /\ ~u.limited => ~r.limited /\ \A l \in AnyLocator : Accounted(r, l) => Accounted(u, l)
    /\ u.matched <= u.q.limit => r.hits \subseteq u.hits

LEMMA GoesOn ==
    ASSUME NEW r, NEW t, NEW u, Onwards(r, t), Onwards(t, u), r.matched \in Nat, t.matched \in Nat,
           u.matched \in Nat, r.q.limit \in Nat
    PROVE  Onwards(r, u)
<1>1. SameSearch(r, u) /\ t.q = r.q /\ u.q = r.q
  BY DEF Onwards, SameSearch
<1>2. r.matched <= u.matched
  BY DEF Onwards
<1>3. ~u.limited => ~r.limited /\ \A l \in AnyLocator : Accounted(r, l) => Accounted(u, l)
  BY DEF Onwards
<1>4. ASSUME u.matched <= u.q.limit PROVE r.hits \subseteq u.hits
  <2>1. t.matched <= t.q.limit
    BY <1>1, <1>4 DEF Onwards
  <2> QED
    BY <1>4, <2>1 DEF Onwards
<1> QED
  BY <1>1, <1>2, <1>3, <1>4 DEF Onwards

\* More that is pending and more that is looked up.
LEMMA AccountedMore ==
    ASSUME NEW r, NEW u, Entries(r.pending) \subseteq Entries(u.pending), r.seen \subseteq u.seen, NEW l,
           Accounted(r, l)
    PROVE  Accounted(u, l)
BY DEF Accounted

LEMMA NamedOn ==
    ASSUME NEW r, NEW u, Onwards(r, u), NamedKept(r)
    PROVE  NamedKept(u)
<1>1. u.graph = r.graph /\ u.now = r.now /\ u.q = r.q /\ u.there = r.there
  BY DEF Onwards, SameSearch
<1>2. ASSUME ~u.limited, Few(u.graph, u.now, u.q), NEW l \in LinkedLocators(u.graph, u.now, u.q, u.there)
      PROVE  l \in AnyLocator /\ Accounted(u, l)
  <2>1. ~r.limited /\ \A x \in AnyLocator : Accounted(r, x) => Accounted(u, x)
    BY <1>2 DEF Onwards
  <2>2. l \in AnyLocator /\ Accounted(r, l)
    BY <1>1, <1>2, <2>1 DEF NamedKept
  <2> QED
    BY <2>1, <2>2
<1> QED
  BY <1>2 DEF NamedKept

LEMMA QuotedMore ==
    ASSUME NEW r, NEW u, u.q = r.q, r.hits \subseteq u.hits, NEW ps, QuotedFrom(r, ps)
    PROVE  QuotedFrom(u, ps)
BY DEF QuotedFrom

LEMMA RefLocator ==
    ASSUME NEW c \in SourceContent, NEW ref \in c.refs
    PROVE  ref.locator \in AnyLocator
BY SearchContentIs

\* What is settled stays settled.
LEMMA SettledOn ==
    ASSUME NEW r, NEW u, Onwards(r, u), ~u.limited, u.matched <= u.q.limit, NEW had, NEW had2, NEW loc,
           had[loc.name] \subseteq had2[loc.name], LookedUp(r, had, loc)
    PROVE  LookedUp(u, had2, loc)
<1>1. PICK f \in had[loc.name] :
         /\ f.content \in SourceContent /\ QuotedFrom(r, f.content.passages)
         /\ loc.kind = "file" => \A ref \in f.content.refs : Accounted(r, ref.locator)
  BY DEF LookedUp
<1>2. u.q = r.q /\ r.hits \subseteq u.hits /\ \A l \in AnyLocator : Accounted(r, l) => Accounted(u, l)
  BY DEF Onwards, SameSearch
<1>3. QuotedFrom(u, f.content.passages)
  BY <1>1, <1>2, QuotedMore
<1>4. loc.kind = "file" => \A ref \in f.content.refs : Accounted(u, ref.locator)
  BY <1>1, <1>2, RefLocator
<1> QED
  BY <1>1, <1>3, <1>4 DEF LookedUp

\* What was looked up stays settled, but for what is looked up now.
LEMMA SeenOn ==
    ASSUME NEW r, NEW u, Onwards(r, u), NEW had, NEW odd, SeenKept(r, had, odd), odd = {}, ~u.limited,
           u.matched <= u.q.limit, r.matched \in Nat, u.matched \in Nat, r.q.limit \in Nat,
           NEW l \in r.seen, ~(r.stage # "next" /\ r.at.locator = l)
    PROVE  LookedUp(u, had, l)
<1>1. ~r.limited /\ r.matched <= r.q.limit
  BY DEF Onwards, SameSearch
<1>2. LookedUp(r, had, l)
  BY <1>1 DEF SeenKept
<1> QED
  BY <1>2, SettledOn

\* search.rs, success: what it does to a search is to go on, and the source is settled.
LEMMA UsedOn ==
    ASSUME NEW r, NEW rec, NEW spent, NEW u, Used(r, rec, spent, u)
    PROVE  Onwards(r, u)
<1>1. /\ SameSearch(r, u) /\ r.matched <= u.matched /\ u.seen = r.seen
      /\ Entries(r.pending) \subseteq Entries(u.pending)
      /\ u.matched <= u.q.limit => r.hits \subseteq u.hits
      /\ ~u.limited => ~r.limited
  BY DEF Used
<1>2. ASSUME NEW l, Accounted(r, l) PROVE Accounted(u, l)
  BY <1>1, <1>2, AccountedMore
<1> QED
  BY <1>1, <1>2 DEF Onwards

LEMMA UsedSettles ==
    ASSUME NEW r, NEW rec, NEW spent, NEW u, Used(r, rec, spent, u), ~u.limited, u.matched <= u.q.limit,
           NEW loc, NEW f \in FileOf, ReadsAll(rec, loc, f.content), NEW had, f \in had[loc.name]
    PROVE  LookedUp(u, had, loc)
<1>1. /\ QuotedFrom(u, rec.passages) /\ rec.complete
      /\ \A ref \in rec.refs : \E p \in Entries(u.pending) : p.locator = ref.locator
  BY DEF Used
<1>4. f.content \in SourceContent
  BY DEF FileOf
<1>5. rec.passages = f.content.passages /\ (loc.kind = "file" => rec.refs = f.content.refs)
  BY <1>1 DEF ReadsAll
<1>6. QuotedFrom(u, f.content.passages)
  BY <1>1, <1>5
<1>7. loc.kind = "file" => \A ref \in f.content.refs : Accounted(u, ref.locator)
  BY <1>1, <1>5 DEF Accounted
<1> QED
  BY <1>4, <1>6, <1>7 DEF LookedUp

\* search.rs, failure: the fields that it writes.
LEMMA FailIs ==
    ASSUME NEW r \in SearchRun, NEW allowance \in Nat, NEW known \in BOOLEAN, NEW u, u = Seek!Fail(r, allowance, known)
    PROVE  /\ u \in SearchRun /\ SameSearch(r, u) /\ u.limited /\ u.stage = "next" /\ u.hits = r.hits
           /\ u.matched = r.matched /\ u.read = r.read /\ u.measured = r.measured
           /\ u.charged = r.charged + (IF known THEN 0 ELSE allowance)
           /\ u.unknown = (r.unknown \/ ~known)
<1>1. PICK a \in Nat : a = r.charged + (IF known THEN 0 ELSE allowance)
  BY RunTyped
<1>2. PICK b \in BOOLEAN : b = (r.unknown \/ ~known)
  BY RunTyped
<1>3. u = [r EXCEPT !.charged = a, !.unknown = b, !.limited = TRUE, !.stage = "next", !.at = Unset]
  BY <1>1, <1>2 DEF Seek!Fail
<1> QED
  BY <1>1, <1>2, <1>3 DEF SearchRun, SameSearch

\* A search that could not use a source knows that it is limited.
LEMMA FailKept ==
    ASSUME NEW r \in SearchRun, HitsKept(r), NEW allowance \in Nat, NEW known \in BOOLEAN, NEW b \in Nat,
           SpentKept(r, b, allowance), b <= allowance, known => b = 0,
           NEW u, u = Seek!Fail(r, allowance, known), NEW at, NEW had, NEW odd, NEW e
    PROVE  SearchKept(u, at, had, odd, e)
<1>1. /\ u \in SearchRun /\ SameSearch(r, u) /\ u.limited /\ u.stage = "next" /\ u.hits = r.hits
      /\ u.matched = r.matched /\ u.read = r.read /\ u.measured = r.measured
      /\ u.charged = r.charged + (IF known THEN 0 ELSE allowance)
      /\ u.unknown = (r.unknown \/ ~known)
  BY FailIs
<1>2. HitsKept(u)
  BY <1>1 DEF HitsKept
<1>3. SpentKept(u, 0, 0)
  <2>1. r.charged \in Nat /\ r.read \in Nat /\ r.measured \in Nat /\ r.q.maxBytes \in Nat
    BY RunTyped, SearchLimits
  <2>2. u.q = r.q
    BY <1>1 DEF SameSearch
  <2>3. PICK m \in Nat, c \in Nat, d \in Nat, s \in Nat :
           m = r.q.maxBytes /\ c = r.charged /\ d = r.read /\ s = r.measured
    BY <2>1
  <2>4. /\ c + allowance <= m /\ d <= c + b /\ (~r.unknown => s + b = d)
    BY <2>3 DEF SpentKept
  <2>5. CASE known
    <3>1. u.charged = c /\ b = 0 /\ u.unknown = r.unknown
      BY <1>1, <2>3, <2>5, RunTyped
    <3>2. c + 0 <= m /\ d <= c + 0 /\ (~u.unknown => s + 0 = d)
      BY <2>4, <3>1
    <3> QED
      BY <1>1, <2>2, <2>3, <3>1, <3>2 DEF SpentKept
  <2>6. CASE ~known
    <3>1. u.charged = c + allowance /\ u.unknown
      BY <1>1, <2>3, <2>6
    <3>2. (c + allowance) + 0 <= m /\ d <= (c + allowance) + 0
      BY <2>4
    <3> QED
      BY <1>1, <2>2, <2>3, <3>1, <3>2 DEF SpentKept
  <2> QED
    BY <2>5, <2>6
<1> QED
  BY <1>1, <1>2, <1>3 DEF SearchKept, Spends, NamedKept, SeenKept, AtKept

-----------------------------------------------------------------------------
\* All that is looked up is settled, but for one.
SettledBut(r, had, odd, loc) ==
    ~r.limited /\ r.matched <= r.q.limit /\ odd = {} => \A l \in r.seen : l = loc \/ LookedUp(r, had, l)

\* search.rs, retrieve: the candidate that is taken, and what is left.
LEMMA BestPending ==
    ASSUME NEW r \in SearchRun, r.pending # << >>, NEW c, c = r.pending[Seek!BestAt(r.pending)],
           NEW rest, rest = Seek!RemoveAt(r.pending, Seek!BestAt(r.pending))
    PROVE  /\ c \in SourceCandidate /\ rest \in Seq(SourceCandidate)
           /\ Entries(r.pending) = Entries(rest) \union {c} /\ Len(rest) \in Nat
<1>1. r.pending \in Seq(SourceCandidate)
  BY RunTyped
<1>2. \A x \in SourceCandidate : x.score \in Nat /\ x.node \in Nat
  BY DEF SourceCandidate
<1>3. c \in SourceCandidate /\ rest \in Seq(SourceCandidate) /\ Entries(r.pending) = Entries(rest) \union {c}
  BY <1>1, <1>2, BestTaken
<1> QED
  BY <1>3

LEMMA CandidateIs == ASSUME NEW c \in SourceCandidate PROVE c.locator \in AnyLocator
BY DEF SourceCandidate

\* One that is taken out is accounted for when what it names is looked up.
TakesOut(r, u, c) ==
    /\ Entries(r.pending) = Entries(u.pending) \union {c} /\ r.seen \subseteq u.seen
    /\ c.locator.kind # "url" /\ Seek!Resolve(c.locator) \in u.seen

LEMMA AccountedLess ==
    ASSUME NEW r, NEW u, NEW c, TakesOut(r, u, c), NEW l, Accounted(r, l)
    PROVE  Accounted(u, l)
BY DEF Accounted, TakesOut

\* search.rs, retrieve: a candidate that has nothing to be read.
LEMMA PassKept ==
    ASSUME NEW r, NEW at, NEW had, NEW odd, NEW e, SearchKept(r, at, had, odd, e), r.stage = "next",
           r.pending # << >>,
           NEW c, c = r.pending[Seek!BestAt(r.pending)],
           NEW rest, rest = Seek!RemoveAt(r.pending, Seek!BestAt(r.pending)),
           NEW remote \in BOOLEAN, remote = (c.locator.kind = "url"),
           NEW loc, loc = Seek!Resolve(c.locator), remote \/ loc = Unset \/ loc \in r.seen,
           NEW u, u = [r EXCEPT !.pending = rest, !.limited = r.limited \/ remote \/ loc = Unset,
                                !.attempted = r.attempted + IF ~remote /\ loc = Unset THEN 1 ELSE 0]
    PROVE  SearchKept(u, at, had, odd, e)
<1>1. r \in SearchRun /\ HitsKept(r) /\ Spends(r) /\ NamedKept(r) /\ SeenKept(r, had, odd)
  BY DEF SearchKept
<1>2. /\ c \in SourceCandidate /\ rest \in Seq(SourceCandidate) /\ Entries(r.pending) = Entries(rest) \union {c}
  BY <1>1, BestPending
<1>3. PICK limited \in BOOLEAN : limited = (r.limited \/ remote \/ loc = Unset)
  OBVIOUS
<1>4. PICK attempted \in Nat : attempted = r.attempted + IF ~remote /\ loc = Unset THEN 1 ELSE 0
  BY <1>1, RunTyped
<1>5. u = [r EXCEPT !.pending = rest, !.limited = limited, !.attempted = attempted]
  BY <1>3, <1>4
<1>6. /\ u \in SearchRun /\ SameSearch(r, u) /\ u.pending = rest /\ u.limited = limited /\ u.seen = r.seen
      /\ u.hits = r.hits /\ u.matched = r.matched /\ u.charged = r.charged /\ u.measured = r.measured
      /\ u.unknown = r.unknown /\ u.read = r.read /\ u.stage = "next"
  BY <1>1, <1>2, <1>5 DEF SearchRun, SameSearch
<1>7. r.matched \in Nat /\ r.q.limit \in Nat
  BY <1>1, RunTyped, SearchLimits
<1>8. Onwards(r, u)
  <2>1. ASSUME ~u.limited PROVE ~r.limited /\ \A l \in AnyLocator : Accounted(r, l) => Accounted(u, l)
    <3>1. ~r.limited /\ ~remote /\ loc \in u.seen
      BY <1>1, <1>3, <1>6, <2>1, RunTyped
    <3>2. c.locator.kind # "url"
      BY <3>1
    <3>3. TakesOut(r, u, c)
      BY <1>2, <1>6, <3>1, <3>2 DEF TakesOut
    <3>4. ASSUME NEW l, Accounted(r, l) PROVE Accounted(u, l)
      BY <3>3, <3>4, AccountedLess
    <3> QED
      BY <3>1, <3>4
  <2> QED
    BY <1>6, <1>7, <2>1 DEF Onwards
<1>9. NamedKept(u)
  BY <1>1, <1>8, NamedOn
<1>10. SeenKept(u, had, odd)
  <2>1. ASSUME ~u.limited, u.matched <= u.q.limit, odd = {}, NEW l \in u.seen PROVE LookedUp(u, had, l)
    BY <1>1, <1>6, <1>7, <1>8, <2>1, SeenOn
  <2> QED
    BY <2>1 DEF SeenKept
<1>11. Spends(u)
  <2>1. SpentKept(r, 0, 0)
    BY <1>1 DEF Spends
  <2>2. SpentKept(u, 0, 0)
    BY <1>6, <2>1 DEF SpentKept, SameSearch
  <2> QED
    BY <1>6, <2>2 DEF Spends
<1>12. HitsKept(u) /\ AtKept(u, at, odd, e)
  BY <1>1, <1>6 DEF HitsKept, AtKept
<1> QED
  BY <1>6, <1>9, <1>10, <1>11, <1>12 DEF SearchKept

\* search.rs, retrieve: a candidate whose source is looked up.
Taken(r, rest, loc) ==
    [r EXCEPT !.pending = rest, !.seen = r.seen \union {loc}, !.attempted = r.attempted + 1]

LEMMA TakenIs ==
    ASSUME NEW r, NEW at, NEW had, NEW odd, NEW e, SearchKept(r, at, had, odd, e), r.stage = "next",
           r.pending # << >>,
           NEW c, c = r.pending[Seek!BestAt(r.pending)],
           NEW rest, rest = Seek!RemoveAt(r.pending, Seek!BestAt(r.pending)),
           NEW loc, loc = Seek!Resolve(c.locator), c.locator.kind # "url", loc # Unset,
           NEW t, t = Taken(r, rest, loc)
    PROVE  /\ c \in SourceCandidate /\ loc \in SourceOf /\ Len(rest) \in Nat
           /\ t \in SearchRun /\ HitsKept(t) /\ NamedKept(t) /\ SpentKept(t, 0, 0) /\ SettledBut(t, had, odd, loc)
           /\ loc \in t.seen /\ t.charged = r.charged /\ t.q = r.q /\ t.stage = "next"
<1>1. r \in SearchRun /\ HitsKept(r) /\ Spends(r) /\ NamedKept(r) /\ SeenKept(r, had, odd)
  BY DEF SearchKept
<1>2. /\ c \in SourceCandidate /\ rest \in Seq(SourceCandidate) /\ Entries(r.pending) = Entries(rest) \union {c}
      /\ Len(rest) \in Nat
  BY <1>1, BestPending
<1>3. loc \in SourceOf
  BY <1>2, CandidateIs, ResolvedIs
<1>4. PICK attempted \in Nat : attempted = r.attempted + 1
  BY <1>1, RunTyped
<1>5. PICK seen \in SUBSET SourceOf : seen = r.seen \union {loc}
  BY <1>1, <1>3, RunTyped
<1>6. t = [r EXCEPT !.pending = rest, !.seen = seen, !.attempted = attempted]
  BY <1>4, <1>5 DEF Taken
<1>7. /\ t \in SearchRun /\ SameSearch(r, t) /\ t.pending = rest /\ t.limited = r.limited /\ t.seen = seen
      /\ t.hits = r.hits /\ t.matched = r.matched /\ t.charged = r.charged /\ t.measured = r.measured
      /\ t.unknown = r.unknown /\ t.read = r.read /\ t.stage = "next"
  BY <1>1, <1>2, <1>6 DEF SearchRun, SameSearch
<1>8. r.matched \in Nat /\ r.q.limit \in Nat
  BY <1>1, RunTyped, SearchLimits
<1>9. Onwards(r, t)
  <2>1. TakesOut(r, t, c)
    BY <1>2, <1>5, <1>7 DEF TakesOut
  <2>2. ASSUME NEW l, Accounted(r, l) PROVE Accounted(t, l)
    BY <2>1, <2>2, AccountedLess
  <2> QED
    BY <1>7, <1>8, <2>2 DEF Onwards
<1>10. NamedKept(t)
  BY <1>1, <1>9, NamedOn
<1>11. SettledBut(t, had, odd, loc)
  <2>1. ASSUME ~t.limited, t.matched <= t.q.limit, odd = {}, NEW l \in t.seen, l # loc PROVE LookedUp(t, had, l)
    <3>1. l \in r.seen
      BY <1>5, <1>7, <2>1
    <3> QED
      BY <1>1, <1>7, <1>8, <1>9, <2>1, <3>1, SeenOn
  <2> QED
    BY <2>1 DEF SettledBut
<1>12. SpentKept(t, 0, 0)
  <2>1. SpentKept(r, 0, 0)
    BY <1>1 DEF Spends
  <2> QED
    BY <1>7, <2>1 DEF SpentKept, SameSearch
<1>13. HitsKept(t) /\ t.q = r.q
  BY <1>1, <1>7 DEF HitsKept, SameSearch
<1> QED
  BY <1>2, <1>3, <1>5, <1>7, <1>10, <1>11, <1>12, <1>13

\* search.rs, success: what is read of a source is quoted, and what it names is pending.
LEMMA UseKept ==
    ASSUME NEW r \in SearchRun, HitsKept(r), NamedKept(r), NEW c \in SourceCandidate, NEW rec, IsReading(rec),
           NEW spent \in Nat, NEW room \in Nat, spent <= room, SpentKept(r, spent, room),
           NEW at, NEW had, NEW odd, NEW e, NEW loc, SettledBut(r, had, odd, loc),
           odd = {} => \E f \in FileOf : f \in had[loc.name] /\ ReadsAll(rec, loc, f.content),
           NEW u, u = Seek!Use(r, c, rec, spent)
    PROVE  SearchKept(u, at, had, odd, e)
<1>1. Used(r, rec, spent, u)
  BY UseIs DEF HitsKept
<1>2. Onwards(r, u)
  BY <1>1, UsedOn
<1>3. /\ u \in SearchRun /\ SameSearch(r, u) /\ u.stage = "next" /\ u.seen = r.seen /\ u.unknown = r.unknown
      /\ u.read = r.read /\ u.charged = r.charged + spent /\ u.measured = r.measured + spent
      /\ HitsKept(u)
  BY <1>1 DEF Used, HitsKept
<1>4. NamedKept(u)
  BY <1>2, NamedOn
<1>5. SeenKept(u, had, odd)
  <2>1. ASSUME ~u.limited, u.matched <= u.q.limit, odd = {}, NEW l \in u.seen PROVE LookedUp(u, had, l)
    <3>1. CASE l = loc
      <4>1. PICK f \in FileOf : f \in had[loc.name] /\ ReadsAll(rec, loc, f.content)
        BY <2>1
      <4> QED
        BY <1>1, <2>1, <3>1, <4>1, UsedSettles
    <3>2. CASE l # loc
      <4>1. r.matched \in Nat /\ u.matched \in Nat /\ r.q.limit \in Nat
        BY <1>3, RunTyped, SearchLimits
      <4>2. ~r.limited /\ r.matched <= r.q.limit
        BY <1>2, <2>1, <4>1 DEF Onwards, SameSearch
      <4>3. LookedUp(r, had, l)
        BY <1>3, <2>1, <3>2, <4>2 DEF SettledBut
      <4> QED
        BY <1>2, <2>1, <4>3, SettledOn
    <3> QED
      BY <3>1, <3>2
  <2> QED
    BY <2>1 DEF SeenKept
<1>6. SpentKept(u, 0, 0)
  <2>1. u.q = r.q
    BY <1>3 DEF SameSearch
  <2>2. PICK m \in Nat, x \in Nat, y \in Nat, z \in Nat :
           m = r.q.maxBytes /\ x = r.charged /\ y = r.read /\ z = r.measured
    BY RunTyped, SearchLimits
  <2>3. /\ x + room <= m /\ y <= x + spent /\ (~r.unknown => z + spent = y)
    BY <2>2 DEF SpentKept
  <2>4. /\ (x + spent) + 0 <= m /\ y <= (x + spent) + 0 /\ (~u.unknown => (z + spent) + 0 = y)
    BY <1>3, <2>3
  <2> QED
    BY <1>3, <2>1, <2>2, <2>4 DEF SpentKept
<1>7. Spends(u) /\ AtKept(u, at, odd, e)
  BY <1>3, <1>6 DEF Spends, AtKept
<1> QED
  BY <1>3, <1>4, <1>5, <1>7 DEF SearchKept

\* search.rs, retrieve: the source is examined.
LEMMA OpenKept ==
    ASSUME NEW r \in SearchRun, HitsKept(r), NamedKept(r), r.stage = "next",
           NEW at, NEW had, NEW odd, NEW e, NEW a \in ExaminedOf, a.locator \in r.seen, a.version[2] <= e,
           SpentKept(r, 0, a.allowance), SettledBut(r, had, odd, a.locator),
           NEW u, u = [r EXCEPT !.stage = "open", !.at = a]
    PROVE  SearchKept(u, at, had, odd, e)
<1>1. a.locator \in r.seen /\ a \in {Unset} \union ExaminedOf
  OBVIOUS
<1>2. /\ u \in SearchRun /\ SameSearch(r, u) /\ u.pending = r.pending /\ u.limited = r.limited /\ u.seen = r.seen
      /\ u.hits = r.hits /\ u.matched = r.matched /\ u.charged = r.charged /\ u.measured = r.measured
      /\ u.unknown = r.unknown /\ u.read = r.read /\ u.stage = "open" /\ u.at = a
  BY <1>1 DEF SearchRun, SameSearch
<1>3. Onwards(r, u)
  <2>1. ASSUME NEW l, Accounted(r, l) PROVE Accounted(u, l)
    BY <1>2, <2>1, AccountedMore
  <2>2. r.matched \in Nat
    BY RunTyped
  <2> QED
    BY <1>2, <2>1, <2>2 DEF Onwards
<1>4. NamedKept(u)
  BY <1>3, NamedOn
<1>5. SeenKept(u, had, odd)
  <2>1. ASSUME ~u.limited, u.matched <= u.q.limit, odd = {}, NEW l \in u.seen, l # a.locator
        PROVE  LookedUp(u, had, l)
    <3>1. LookedUp(r, had, l)
      BY <1>2, <2>1 DEF SettledBut, SameSearch
    <3> QED
      BY <1>3, <2>1, <3>1, SettledOn
  <2> QED
    BY <1>2, <2>1 DEF SeenKept
<1>6. Spends(u)
  <2>1. SpentKept(u, 0, u.at.allowance)
    BY <1>2 DEF SpentKept, SameSearch
  <2> QED
    BY <1>2, <2>1 DEF Spends
<1>7. AtKept(u, at, odd, e) /\ HitsKept(u)
  BY <1>2 DEF AtKept, HitsKept
<1> QED
  BY <1>2, <1>4, <1>5, <1>6, <1>7 DEF SearchKept

-----------------------------------------------------------------------------
\* read_file.rs and scan.rs: the source is read.
LEMMA ReadKept ==
    ASSUME NEW r, NEW at, NEW had, NEW odd, NEW e, SearchKept(r, at, had, odd, e), r.stage = "open",
           NEW content \in SourceContent, content = at[r.at.locator.name].content,
           NEW b, b = Seek!Bytes(r.at.locator, content, r.at.allowance, r.q),
           NEW u, u = [r EXCEPT !.stage = "read", !.at.content = content, !.read = r.read + b]
    PROVE  SearchKept(u, at, had, odd, e)
<1>1. r \in SearchRun /\ HitsKept(r) /\ Spends(r) /\ NamedKept(r) /\ SeenKept(r, had, odd) /\ AtKept(r, at, odd, e)
  BY DEF SearchKept
<1>2. PICK a \in ExaminedOf : a = r.at /\ a.locator \in r.seen /\ a.version[2] <= e
  BY <1>1 DEF AtKept
<1>3. b \in Nat /\ r.read \in Nat
  <2>1. r.q \in SearchFor /\ a.allowance \in Nat
    BY <1>1, <1>2, RunTyped DEF ExaminedOf
  <2> QED
    BY <1>1, <1>2, <2>1, BytesIs, RunTyped
<1>4. PICK n \in Nat : n = r.read + b
  BY <1>3
<1>5. PICK a2 : a2 = [a EXCEPT !.content = content]
  OBVIOUS
<1>6. /\ a2 \in ExaminedOf /\ a2.locator = a.locator /\ a2.allowance = a.allowance /\ a2.version = a.version
      /\ a2.content = content
  BY <1>5 DEF ExaminedOf
<1>7. u = [r EXCEPT !.stage = "read", !.at = a2, !.read = n]
  BY <1>1, <1>2, <1>4, <1>5 DEF SearchRun
<1>8. a2 \in {Unset} \union ExaminedOf
  BY <1>6
<1>9. /\ u \in SearchRun /\ SameSearch(r, u) /\ u.pending = r.pending /\ u.limited = r.limited /\ u.seen = r.seen
      /\ u.hits = r.hits /\ u.matched = r.matched /\ u.charged = r.charged /\ u.measured = r.measured
      /\ u.unknown = r.unknown /\ u.read = n /\ u.stage = "read" /\ u.at = a2
  BY <1>1, <1>7, <1>8 DEF SearchRun, SameSearch
<1>10. r.matched \in Nat /\ r.q.limit \in Nat
  BY <1>1, RunTyped, SearchLimits
<1>11. Onwards(r, u)
  <2>1. ASSUME NEW l, Accounted(r, l) PROVE Accounted(u, l)
    BY <1>9, <2>1, AccountedMore
  <2> QED
    BY <1>9, <1>10, <2>1 DEF Onwards
<1>12. NamedKept(u)
  BY <1>1, <1>11, NamedOn
<1>13. SeenKept(u, had, odd)
  <2>1. ASSUME ~u.limited, u.matched <= u.q.limit, odd = {}, NEW l \in u.seen, l # u.at.locator
        PROVE  LookedUp(u, had, l)
    <3>1. l \in r.seen /\ ~(r.stage # "next" /\ r.at.locator = l)
      BY <1>2, <1>6, <1>9, <2>1
    <3> QED
      BY <1>1, <1>9, <1>10, <1>11, <2>1, <3>1, SeenOn
  <2> QED
    BY <1>9, <2>1 DEF SeenKept
<1>14. Spends(u)
  <2>1. SpentKept(r, 0, a.allowance)
    BY <1>1, <1>2 DEF Spends
  <2>2. u.q = r.q
    BY <1>9 DEF SameSearch
  <2>3. ReadFor(u) = b
    BY <1>2, <1>6, <1>9, <2>2 DEF ReadFor
  <2>4. PICK m \in Nat, x \in Nat, y \in Nat, z \in Nat, w \in Nat :
           m = r.q.maxBytes /\ x = r.charged /\ y = r.read /\ z = r.measured /\ w = a.allowance
    BY <1>1, RunTyped, SearchLimits DEF ExaminedOf
  <2>5. x + w <= m /\ y <= x + 0 /\ (~r.unknown => z + 0 = y)
    BY <2>1, <2>4 DEF SpentKept
  <2>6. x + w <= m /\ n <= x + b /\ (~u.unknown => z + b = n)
    BY <1>3, <1>4, <1>9, <2>4, <2>5
  <2>7. SpentKept(u, b, w)
    BY <1>9, <2>2, <2>4, <2>6 DEF SpentKept
  <2> QED
    BY <1>6, <1>9, <2>3, <2>4, <2>7 DEF Spends
<1>15. AtKept(u, at, odd, e)
  BY <1>2, <1>6, <1>9 DEF AtKept, SameThen
<1>16. HitsKept(u)
  BY <1>1, <1>9 DEF HitsKept
<1> QED
  BY <1>9, <1>12, <1>13, <1>14, <1>15, <1>16 DEF SearchKept

\* A source that is read and is not text.
LEMMA UnsoundKept ==
    ASSUME NEW r, NEW at, NEW had, NEW odd, NEW e, SearchKept(r, at, had, odd, e), r.stage = "open",
           NEW content \in SourceContent,
           NEW b, b = Seek!Bytes(r.at.locator, content, r.at.allowance, r.q),
           NEW u, u = Seek!Fail([r EXCEPT !.read = r.read + b], r.at.allowance, FALSE)
    PROVE  SearchKept(u, at, had, odd, e)
<1>1. r \in SearchRun /\ HitsKept(r) /\ Spends(r) /\ AtKept(r, at, odd, e)
  BY DEF SearchKept
<1>2. PICK w \in Nat : w = r.at.allowance
  BY <1>1 DEF AtKept, ExaminedOf
<1>3. b \in Nat /\ b <= w
  <2>1. r.q \in SearchFor
    BY <1>1, RunTyped
  <2> QED
    BY <1>2, <2>1, BytesIs
<1>4. PICK n \in Nat : n = r.read + b
  BY <1>1, <1>3, RunTyped
<1>5. PICK t : t = [r EXCEPT !.read = n]
  OBVIOUS
<1>6. /\ t \in SearchRun /\ t.q = r.q /\ t.charged = r.charged /\ t.measured = r.measured /\ t.unknown = r.unknown
      /\ t.read = n /\ t.hits = r.hits /\ t.matched = r.matched
  BY <1>1, <1>5 DEF SearchRun
<1>7. SpentKept(t, b, w)
  <2>1. SpentKept(r, 0, w)
    BY <1>1, <1>2 DEF Spends
  <2>2. PICK m \in Nat, x \in Nat, y \in Nat, z \in Nat :
           m = r.q.maxBytes /\ x = r.charged /\ y = r.read /\ z = r.measured
    BY <1>1, RunTyped, SearchLimits
  <2>3. x + w <= m /\ y <= x + 0 /\ (~r.unknown => z + 0 = y)
    BY <2>1, <2>2 DEF SpentKept
  <2>4. x + w <= m /\ n <= x + b /\ (~t.unknown => z + b = n)
    BY <1>3, <1>4, <1>6, <2>2, <2>3
  <2> QED
    BY <1>6, <2>2, <2>4 DEF SpentKept
<1>8. HitsKept(t)
  BY <1>1, <1>6 DEF HitsKept
<1>9. u = Seek!Fail(t, w, FALSE)
  BY <1>2, <1>4, <1>5
<1> QED
  BY <1>3, <1>6, <1>7, <1>8, <1>9, FailKept

-----------------------------------------------------------------------------
(***************************************************************************)
(* Other programs.                                                         *)
(***************************************************************************)
FilesKept(at, e) ==
    /\ at \in [SourceName -> FileOf \union {Removed}]
    /\ \A name \in SourceName : at[name] # Removed => at[name].stamp <= e

HeldKept(r, at, had) ==
    r # Unset => \A name \in SourceName : at[name] # Removed => at[name] \in had[name]

HeadsKept(hs, at, odd, e) ==
    \A loc \in DOMAIN hs :
        /\ loc \in SourceOf /\ IsReading(hs[loc]) /\ hs[loc].version[2] <= e
        /\ odd = {} /\ at[loc.name] # Removed /\ at[loc.name].stamp = hs[loc].version[2]
              => ReadsAll(hs[loc], loc, at[loc.name].content)

\* What other programs do in one step: a file is removed, or has a time of its
\* own, or is one that changed with its old time.
Moves(at, had, odd, e, at2, had2, odd2, e2) ==
    /\ e \in Nat /\ e2 = e + 1 /\ odd \subseteq odd2
    /\ \A name \in SourceName : had[name] \subseteq had2[name]
    /\ \A name \in SourceName :
          at2[name] = at[name] \/ at2[name] = Removed \/ odd2 # {} \/ at2[name].stamp = e2

\* Times that are known stay known.
LEMMA ThenMoves ==
    ASSUME NEW at, NEW had, NEW odd, NEW e, NEW at2, NEW had2, NEW odd2, NEW e2,
           Moves(at, had, odd, e, at2, had2, odd2, e2), NEW name \in SourceName,
           NEW version \in Nat \X Nat, version[2] <= e, odd2 = {}, at2[name] # Removed,
           at2[name].stamp = version[2]
    PROVE  odd = {} /\ at2[name] = at[name]
BY DEF Moves

LEMMA HeadsMove ==
    ASSUME NEW at, NEW had, NEW odd, NEW e, NEW at2, NEW had2, NEW odd2, NEW e2,
           Moves(at, had, odd, e, at2, had2, odd2, e2), NEW hs, HeadsKept(hs, at, odd, e)
    PROVE  HeadsKept(hs, at2, odd2, e2)
<1>1. ASSUME NEW loc \in DOMAIN hs
      PROVE  /\ loc \in SourceOf /\ IsReading(hs[loc]) /\ hs[loc].version[2] <= e2
             /\ odd2 = {} /\ at2[loc.name] # Removed /\ at2[loc.name].stamp = hs[loc].version[2]
                   => ReadsAll(hs[loc], loc, at2[loc.name].content)
  <2>1. loc \in SourceOf /\ IsReading(hs[loc]) /\ hs[loc].version[2] <= e
    BY <1>1 DEF HeadsKept
  <2>2. loc.name \in SourceName /\ hs[loc].version \in Nat \X Nat
    BY <2>1, SourceIs DEF IsReading
  <2>3. hs[loc].version[2] <= e2
    <3>1. PICK x \in Nat : x = hs[loc].version[2]
      BY <2>2
    <3>2. e \in Nat /\ e2 = e + 1
      BY DEF Moves
    <3> QED
      BY <2>1, <3>1, <3>2
  <2>4. ASSUME odd2 = {}, at2[loc.name] # Removed, at2[loc.name].stamp = hs[loc].version[2]
        PROVE  ReadsAll(hs[loc], loc, at2[loc.name].content)
    <3>1. odd = {} /\ at2[loc.name] = at[loc.name]
      BY <2>1, <2>2, <2>4, ThenMoves
    <3>2. ReadsAll(hs[loc], loc, at[loc.name].content)
      BY <1>1, <2>4, <3>1 DEF HeadsKept
    <3> QED
      BY <3>1, <3>2
  <2> QED
    BY <2>1, <2>3, <2>4
<1> QED
  BY <1>1 DEF HeadsKept

LEMMA SearchMoves ==
    ASSUME NEW at, NEW had, NEW odd, NEW e, NEW at2, NEW had2, NEW odd2, NEW e2,
           Moves(at, had, odd, e, at2, had2, odd2, e2), NEW r, SearchKept(r, at, had, odd, e)
    PROVE  SearchKept(r, at2, had2, odd2, e2)
<1>1. /\ r \in SearchRun /\ HitsKept(r) /\ Spends(r) /\ NamedKept(r) /\ SeenKept(r, had, odd)
      /\ AtKept(r, at, odd, e)
  BY DEF SearchKept
<1>2. SeenKept(r, had2, odd2)
  <2>1. ASSUME ~r.limited, r.matched <= r.q.limit, odd2 = {}, NEW l \in r.seen,
               ~(r.stage # "next" /\ r.at.locator = l)
        PROVE  LookedUp(r, had2, l)
    <3>1. odd = {} /\ l \in SourceOf
      BY <1>1, <2>1, RunTyped DEF Moves
    <3>2. had[l.name] \subseteq had2[l.name]
      BY <3>1, SourceIs DEF Moves
    <3>3. LookedUp(r, had, l)
      BY <1>1, <2>1, <3>1 DEF SeenKept
    <3> QED
      BY <3>2, <3>3 DEF LookedUp
  <2> QED
    BY <2>1 DEF SeenKept
<1>3. AtKept(r, at2, odd2, e2)
  <2>1. ASSUME r.stage # "next"
        PROVE  /\ r.at \in ExaminedOf /\ r.at.locator \in r.seen /\ r.at.version[2] <= e2
               /\ r.stage = "read" =>
                     /\ r.at.content \in SourceContent
                     /\ SameThen(r.at.locator.name, r.at.version, r.at.content, at2, odd2)
    <3>1. r.at \in ExaminedOf /\ r.at.locator \in r.seen /\ r.at.version[2] <= e
      BY <1>1, <2>1 DEF AtKept
    <3>2. r.at.locator \in SourceOf /\ r.at.version \in Nat \X Nat
      BY <3>1 DEF ExaminedOf
    <3>3. r.at.locator.name \in SourceName
      BY <3>2, SourceIs
    <3>4. r.at.version[2] <= e2
      <4>1. PICK x \in Nat : x = r.at.version[2]
        BY <3>2
      <4>2. e \in Nat /\ e2 = e + 1
        BY DEF Moves
      <4> QED
        BY <3>1, <4>1, <4>2
    <3>5. ASSUME r.stage = "read"
          PROVE  /\ r.at.content \in SourceContent
                 /\ SameThen(r.at.locator.name, r.at.version, r.at.content, at2, odd2)
      <4>1. r.at.content \in SourceContent /\ SameThen(r.at.locator.name, r.at.version, r.at.content, at, odd)
        BY <1>1, <2>1, <3>5 DEF AtKept
      <4>2. ASSUME odd2 = {}, at2[r.at.locator.name] # Removed, at2[r.at.locator.name].stamp = r.at.version[2]
            PROVE  at2[r.at.locator.name].content = r.at.content
        <5>1. odd = {} /\ at2[r.at.locator.name] = at[r.at.locator.name]
          BY <3>1, <3>2, <3>3, <4>2, ThenMoves
        <5> QED
          BY <4>1, <4>2, <5>1 DEF SameThen
      <4> QED
        BY <4>1, <4>2 DEF SameThen
    <3> QED
      BY <3>1, <3>4, <3>5
  <2> QED
    BY <2>1 DEF AtKept
<1> QED
  BY <1>1, <1>2, <1>3 DEF SearchKept

-----------------------------------------------------------------------------
(***************************************************************************)
(* What a search returns.                                                  *)
(***************************************************************************)
Shows(o, had, loc) ==
    /\ loc \in SourceOf
    /\ \E f \in had[loc.name] :
          /\ QuotedFrom(o, f.content.passages)
          /\ loc.kind = "file" => \A ref \in f.content.refs :
                /\ Seek!Resolve(ref.locator) \in SourceOf
                /\ \E g \in had[Seek!Resolve(ref.locator).name] : QuotedFrom(o, g.content.passages)

OutputKept(o, had, odd) ==
    /\ o.stage = "next" /\ SpentKept(o, 0, 0)
    /\ o.charged \in Nat /\ o.read \in Nat /\ o.measured \in Nat /\ o.q \in SearchFor
    /\ ~o.limited /\ o.matched <= o.q.limit /\ odd = {} /\ Few(o.graph, o.now, o.q)
          => \A l \in LinkedLocators(o.graph, o.now, o.q, o.there) : l.kind # "url" /\ Shows(o, had, Seek!Resolve(l))

\* What a source had it goes on having had.
LEMMA ShowsMore ==
    ASSUME NEW o, NEW had, NEW had2, \A name \in SourceName : had[name] \subseteq had2[name],
           NEW loc, Shows(o, had, loc)
    PROVE  Shows(o, had2, loc)
<1>1. PICK f \in had[loc.name] :
         /\ QuotedFrom(o, f.content.passages)
         /\ loc.kind = "file" => \A ref \in f.content.refs :
                /\ Seek!Resolve(ref.locator) \in SourceOf
                /\ \E g \in had[Seek!Resolve(ref.locator).name] : QuotedFrom(o, g.content.passages)
  BY DEF Shows
<1>2. loc \in SourceOf /\ f \in had2[loc.name]
  BY <1>1, SourceIs DEF Shows
<1>3. ASSUME loc.kind = "file", NEW ref \in f.content.refs
      PROVE  /\ Seek!Resolve(ref.locator) \in SourceOf
             /\ \E g \in had2[Seek!Resolve(ref.locator).name] : QuotedFrom(o, g.content.passages)
  <2>1. PICK to \in SourceOf : to = Seek!Resolve(ref.locator)
    BY <1>1, <1>3
  <2>2. had[to.name] \subseteq had2[to.name]
    BY SourceIs
  <2>3. PICK g \in had[to.name] : QuotedFrom(o, g.content.passages)
    BY <1>1, <1>3, <2>1
  <2> QED
    BY <2>1, <2>2, <2>3
<1> QED
  BY <1>1, <1>2, <1>3 DEF Shows

LEMMA OutputMoves ==
    ASSUME NEW o, NEW had, NEW had2, \A name \in SourceName : had[name] \subseteq had2[name],
           NEW odd, NEW odd2, odd \subseteq odd2, OutputKept(o, had, odd)
    PROVE  OutputKept(o, had2, odd2)
<1>1. ASSUME ~o.limited, o.matched <= o.q.limit, odd2 = {}, Few(o.graph, o.now, o.q),
             NEW l \in LinkedLocators(o.graph, o.now, o.q, o.there)
      PROVE  l.kind # "url" /\ Shows(o, had2, Seek!Resolve(l))
  <2>1. l.kind # "url" /\ Shows(o, had, Seek!Resolve(l))
    BY <1>1 DEF OutputKept
  <2> QED
    BY <2>1, ShowsMore
<1> QED
  BY <1>1 DEF OutputKept

\* With nothing pending, all that is accounted for is looked up.
LEMMA NothingPending ==
    ASSUME NEW r, r.pending = << >>, NEW l, Accounted(r, l)
    PROVE  l.kind # "url" /\ Seek!Resolve(l) \in r.seen
BY DEF Accounted, Entries

\* search.rs, retrieve: the search ends.
LEMMA FinishKept ==
    ASSUME NEW r, NEW at, NEW had, NEW odd, NEW e, SearchKept(r, at, had, odd, e), r.stage = "next",
           NEW o, o = [r EXCEPT !.limited = r.limited \/ r.pending # << >>]
    PROVE  OutputKept(o, had, odd)
<1>1. r \in SearchRun /\ Spends(r) /\ NamedKept(r) /\ SeenKept(r, had, odd)
  BY DEF SearchKept
<1>2. /\ o.q = r.q /\ o.graph = r.graph /\ o.now = r.now /\ o.there = r.there /\ o.hits = r.hits
      /\ o.matched = r.matched /\ o.charged = r.charged /\ o.measured = r.measured /\ o.unknown = r.unknown /\ o.read = r.read
      /\ o.stage = "next" /\ o.limited = (r.limited \/ r.pending # << >>)
  BY <1>1 DEF SearchRun
<1>3. o.charged \in Nat /\ o.read \in Nat /\ o.measured \in Nat /\ o.q \in SearchFor
  BY <1>1, <1>2, RunTyped
<1>4. SpentKept(o, 0, 0)
  <2>1. SpentKept(r, 0, 0)
    BY <1>1 DEF Spends
  <2> QED
    BY <1>2, <2>1 DEF SpentKept
<1>5. ASSUME ~o.limited, o.matched <= o.q.limit, odd = {}, Few(o.graph, o.now, o.q),
             NEW l \in LinkedLocators(o.graph, o.now, o.q, o.there)
      PROVE  l.kind # "url" /\ Shows(o, had, Seek!Resolve(l))
  <2>1. ~r.limited /\ r.pending = << >> /\ r.matched <= r.q.limit
    BY <1>1, <1>2, <1>5, RunTyped
  <2>2. ASSUME NEW x \in r.seen PROVE LookedUp(r, had, x) /\ x \in SourceOf
    BY <1>1, <1>5, <2>1, <2>2, RunTyped DEF SeenKept
  <2>3. ASSUME NEW ps, QuotedFrom(r, ps) PROVE QuotedFrom(o, ps)
    BY <1>2, <2>3, QuotedMore
  <2>4. Accounted(r, l)
    BY <1>1, <1>2, <1>5, <2>1 DEF NamedKept
  <2>5. l.kind # "url" /\ Seek!Resolve(l) \in r.seen
    BY <2>1, <2>4, NothingPending
  <2>6. PICK loc \in SourceOf : loc = Seek!Resolve(l) /\ LookedUp(r, had, loc)
    BY <2>2, <2>5
  <2>7. PICK f \in had[loc.name] :
           /\ f.content \in SourceContent /\ QuotedFrom(r, f.content.passages)
           /\ loc.kind = "file" => \A ref \in f.content.refs : Accounted(r, ref.locator)
    BY <2>6 DEF LookedUp
  <2>8. ASSUME loc.kind = "file", NEW ref \in f.content.refs
        PROVE  /\ Seek!Resolve(ref.locator) \in SourceOf
               /\ \E g \in had[Seek!Resolve(ref.locator).name] : QuotedFrom(o, g.content.passages)
    <3>1. Seek!Resolve(ref.locator) \in r.seen
      BY <2>1, <2>7, <2>8, NothingPending
    <3>2. PICK to \in SourceOf : to = Seek!Resolve(ref.locator) /\ LookedUp(r, had, to)
      BY <2>2, <3>1
    <3>3. PICK g \in had[to.name] : QuotedFrom(r, g.content.passages)
      BY <3>2 DEF LookedUp
    <3> QED
      BY <2>3, <3>2, <3>3
  <2>9. Shows(o, had, loc)
    BY <2>3, <2>7, <2>8 DEF Shows
  <2> QED
    BY <2>5, <2>6, <2>9
<1> QED
  BY <1>2, <1>3, <1>4, <1>5 DEF OutputKept

-----------------------------------------------------------------------------
ReplaysKept(ks) == \A k \in ks : k.replay = k.of

FetchedKept(x) == x # Unset => x.text = x.quoted.text

TraceInv ==
    /\ traceGraph \in TraceJournal /\ traceNow \in Nat /\ sourceEdits \in Nat
    /\ FilesKept(sourceFiles, sourceEdits) /\ sourceHeld \in [SourceName -> SUBSET FileOf]
    /\ ReplaysKept(replays) /\ HeadsKept(heads, sourceFiles, restamped, sourceEdits)
    /\ HeldKept(seeking, sourceFiles, sourceHeld)
    /\ seeking # Unset => SearchKept(seeking, sourceFiles, sourceHeld, restamped, sourceEdits)
    /\ searchOutput # Unset => OutputKept(searchOutput, sourceHeld, restamped)
    /\ FetchedKept(fetched)

\* Other programs write and remove files: what they do, and what they leave.
LEMMA TraceMoves ==
    ASSUME TraceInv, NEW at2, NEW had2, NEW odd2, NEW e2,
           Moves(sourceFiles, sourceHeld, restamped, sourceEdits, at2, had2, odd2, e2),
           FilesKept(at2, e2), had2 \in [SourceName -> SUBSET FileOf],
           \A name \in SourceName : at2[name] # Removed => at2[name] = sourceFiles[name] \/ at2[name] \in had2[name],
           sourceFiles' = at2, sourceHeld' = had2, restamped' = odd2, sourceEdits' = e2,
           UNCHANGED <<traceGraph, traceNow, replays, readings, heads, seeking, searchOutput, fetched>>
    PROVE  TraceInv'
<1>1. /\ traceGraph \in TraceJournal /\ traceNow \in Nat /\ sourceEdits \in Nat
      /\ ReplaysKept(replays) /\ HeadsKept(heads, sourceFiles, restamped, sourceEdits)
      /\ HeldKept(seeking, sourceFiles, sourceHeld)
      /\ seeking # Unset => SearchKept(seeking, sourceFiles, sourceHeld, restamped, sourceEdits)
      /\ searchOutput # Unset => OutputKept(searchOutput, sourceHeld, restamped)
      /\ FetchedKept(fetched)
  BY DEF TraceInv
<1>2. e2 \in Nat /\ restamped \subseteq odd2 /\ \A name \in SourceName : sourceHeld[name] \subseteq had2[name]
  BY <1>1 DEF Moves
<1>3. HeadsKept(heads, at2, odd2, e2)
  BY <1>1, HeadsMove
<1>4. seeking # Unset => SearchKept(seeking, at2, had2, odd2, e2)
  BY <1>1, SearchMoves
<1>5. searchOutput # Unset => OutputKept(searchOutput, had2, odd2)
  BY <1>1, <1>2, OutputMoves
<1>6. HeldKept(seeking, at2, had2)
  BY <1>1, <1>2 DEF HeldKept
<1> QED
  BY <1>1, <1>2, <1>3, <1>4, <1>5, <1>6 DEF TraceInv

\* A file is written or restored.
LEMMA TraceEdit ==
    ASSUME TraceInv, NEW name \in SourceName, NEW content \in SourceContent, Seek!Edit(name, content)
    PROVE  TraceInv'
<1>1. FilesKept(sourceFiles, sourceEdits) /\ sourceHeld \in [SourceName -> SUBSET FileOf] /\ sourceEdits \in Nat
  BY DEF TraceInv
<1>2. /\ sourceEdits' = sourceEdits + 1
      /\ UNCHANGED <<traceGraph, traceNow, replays, readings, heads, seeking, searchOutput, fetched>>
  BY DEF Seek!Edit, Seek!cacheVars
<1>3. PICK stamp \in {sourceEdits + 1, IF sourceFiles[name] = Removed THEN 0 ELSE sourceFiles[name].stamp} :
         /\ sourceFiles' = [sourceFiles EXCEPT ![name] = [content |-> content, stamp |-> stamp]]
         /\ sourceHeld' = [sourceHeld EXCEPT ![name] = sourceHeld[name] \union {sourceFiles'[name]}]
         /\ restamped' = IF stamp = sourceEdits + 1 THEN restamped ELSE restamped \union {name}
  BY DEF Seek!Edit
<1>4. PICK at, had, odd, e : at = sourceFiles /\ had = sourceHeld /\ odd = restamped /\ e = sourceEdits
  OBVIOUS
<1>5. PICK at2, had2, odd2, e2 : at2 = sourceFiles' /\ had2 = sourceHeld' /\ odd2 = restamped' /\ e2 = sourceEdits'
  OBVIOUS
<1>6. e \in Nat /\ e2 = e + 1 /\ at \in [SourceName -> FileOf \union {Removed}]
      /\ had \in [SourceName -> SUBSET FileOf]
      /\ \A n \in SourceName : at[n] # Removed => at[n].stamp <= e
  BY <1>1, <1>2, <1>4, <1>5 DEF FilesKept
<1>7. stamp \in Nat /\ stamp <= e2
  <2>1. CASE stamp = sourceEdits + 1
    BY <1>4, <1>6, <2>1
  <2>2. CASE sourceFiles[name] = Removed /\ stamp = 0
    BY <1>6, <2>2
  <2>3. CASE sourceFiles[name] # Removed /\ stamp = sourceFiles[name].stamp
    <3>1. at[name] \in FileOf /\ at[name].stamp <= e
      BY <1>4, <1>6, <2>3
    <3>2. at[name].stamp \in Nat
      BY <3>1 DEF FileOf
    <3> QED
      BY <1>4, <1>6, <2>3, <3>1, <3>2
  <2> QED
    BY <1>3, <2>1, <2>2, <2>3
<1>8. PICK f \in FileOf : f = [content |-> content, stamp |-> stamp] /\ f.stamp = stamp
  <2>1. PICK x : x = [content |-> content, stamp |-> stamp]
    OBVIOUS
  <2>2. x \in FileOf /\ x.stamp = stamp
    BY <1>7, <2>1 DEF FileOf
  <2> QED
    BY <2>1, <2>2
<1>9. at2 = [at EXCEPT ![name] = f] /\ at2[name] = f
  BY <1>3, <1>4, <1>5, <1>6, <1>8
<1>10. had2 = [had EXCEPT ![name] = had[name] \union {f}]
  BY <1>3, <1>4, <1>5, <1>9
<1>11. odd2 = IF stamp = e + 1 THEN odd ELSE odd \union {name}
  BY <1>3, <1>4, <1>5
<1>12. FilesKept(at2, e2) /\ had2 \in [SourceName -> SUBSET FileOf]
  <2>1. at2 \in [SourceName -> FileOf \union {Removed}] /\ had2 \in [SourceName -> SUBSET FileOf]
    BY <1>6, <1>9, <1>10
  <2>2. ASSUME NEW n \in SourceName, at2[n] # Removed PROVE at2[n].stamp <= e2
    <3>1. CASE n = name
      BY <1>7, <1>8, <1>9, <3>1
    <3>2. CASE n # name
      <4>1. at2[n] = at[n]
        BY <1>6, <1>9, <3>2
      <4>2. at[n] \in FileOf /\ at[n].stamp <= e
        BY <1>6, <2>2, <4>1
      <4>3. PICK x \in Nat : x = at[n].stamp
        BY <4>2 DEF FileOf
      <4> QED
        BY <1>6, <4>1, <4>2, <4>3
    <3> QED
      BY <3>1, <3>2
  <2> QED
    BY <2>1, <2>2 DEF FilesKept
<1>13. Moves(at, had, odd, e, at2, had2, odd2, e2)
  BY <1>6, <1>8, <1>9, <1>10, <1>11 DEF Moves
<1>14. \A n \in SourceName : at2[n] # Removed => at2[n] = at[n] \/ at2[n] \in had2[n]
  BY <1>6, <1>9, <1>10
<1>15. /\ Moves(sourceFiles, sourceHeld, restamped, sourceEdits, at2, had2, odd2, e2)
       /\ \A n \in SourceName : at2[n] # Removed => at2[n] = sourceFiles[n] \/ at2[n] \in had2[n]
  BY <1>4, <1>13, <1>14
<1> QED
  BY <1>2, <1>5, <1>12, <1>15, TraceMoves

\* A file is removed.
LEMMA TraceDelete ==
    ASSUME TraceInv, NEW name \in SourceName, Seek!Delete(name)
    PROVE  TraceInv'
<1>1. FilesKept(sourceFiles, sourceEdits) /\ sourceHeld \in [SourceName -> SUBSET FileOf] /\ sourceEdits \in Nat
  BY DEF TraceInv
<1>2. /\ sourceEdits' = sourceEdits + 1 /\ sourceFiles' = [sourceFiles EXCEPT ![name] = Removed]
      /\ sourceHeld' = sourceHeld /\ restamped' = restamped
      /\ UNCHANGED <<traceGraph, traceNow, replays, readings, heads, seeking, searchOutput, fetched>>
  BY DEF Seek!Delete, Seek!cacheVars
<1>3. PICK at, had, odd, e : at = sourceFiles /\ had = sourceHeld /\ odd = restamped /\ e = sourceEdits
  OBVIOUS
<1>4. PICK at2, e2 : at2 = [at EXCEPT ![name] = Removed] /\ e2 = e + 1
  OBVIOUS
<1>5. e \in Nat /\ at \in [SourceName -> FileOf \union {Removed}]
      /\ \A n \in SourceName : at[n] # Removed => at[n].stamp <= e
  BY <1>1, <1>3 DEF FilesKept
<1>6. FilesKept(at2, e2)
  <2>1. at2 \in [SourceName -> FileOf \union {Removed}]
    BY <1>4, <1>5
  <2>2. ASSUME NEW n \in SourceName, at2[n] # Removed PROVE at2[n].stamp <= e2
    <3>1. at2[n] = at[n] /\ at[n].stamp <= e
      BY <1>4, <1>5, <2>2
    <3>2. at[n].stamp \in Nat
      BY <1>4, <1>5, <2>2, <3>1 DEF FileOf
    <3> QED
      BY <1>4, <1>5, <3>1, <3>2
  <2> QED
    BY <2>1, <2>2 DEF FilesKept
<1>7. Moves(at, had, odd, e, at2, had, odd, e2)
  BY <1>4, <1>5 DEF Moves
<1>8. \A n \in SourceName : at2[n] # Removed => at2[n] = at[n] \/ at2[n] \in had[n]
  BY <1>4, <1>5
<1>9. /\ Moves(sourceFiles, sourceHeld, restamped, sourceEdits, at2, had, odd, e2)
      /\ \A n \in SourceName : at2[n] # Removed => at2[n] = sourceFiles[n] \/ at2[n] \in had[n]
      /\ had \in [SourceName -> SUBSET FileOf]
      /\ sourceFiles' = at2 /\ sourceHeld' = had /\ restamped' = odd /\ sourceEdits' = e2
  BY <1>1, <1>2, <1>3, <1>4, <1>7, <1>8
<1> QED
  BY <1>2, <1>6, <1>9, TraceMoves

\* A step of a search that leaves everything else alone.
LEMMA TraceRuns ==
    ASSUME TraceInv, NEW u, SearchKept(u, sourceFiles, sourceHeld, restamped, sourceEdits), seeking # Unset,
           seeking' = u,
           UNCHANGED <<traceGraph, traceNow, sourceFiles, replays, heads, searchOutput, fetched, sourceHeld,
                       restamped, sourceEdits>>
    PROVE  TraceInv'
<1>1. HeldKept(u, sourceFiles, sourceHeld)
  BY DEF TraceInv, HeldKept
<1> QED
  BY <1>1 DEF TraceInv

LEMMA TracePass == ASSUME TraceInv, Seek!Pass PROVE TraceInv'
<1>1. PICK r : r = seeking
  OBVIOUS
<1>2. PICK at, had, odd, e : at = sourceFiles /\ had = sourceHeld /\ odd = restamped /\ e = sourceEdits
  OBVIOUS
<1>3. /\ seeking # Unset /\ r.stage = "next" /\ r.pending # << >>
      /\ UNCHANGED <<traceGraph, traceNow, sourceFiles, replays, heads, searchOutput, fetched, sourceHeld,
                     restamped, sourceEdits>>
  BY <1>1 DEF Seek!Pass, Seek!cacheVars
<1>4. PICK c, rest : /\ c = r.pending[Seek!BestAt(r.pending)]
                     /\ rest = Seek!RemoveAt(r.pending, Seek!BestAt(r.pending))
  OBVIOUS
<1>5. PICK loc : loc = Seek!Resolve(c.locator)
  OBVIOUS
<1>6. PICK remote \in BOOLEAN : remote = (c.locator.kind = "url")
  OBVIOUS
<1>7. PICK u : u = [r EXCEPT !.pending = rest, !.limited = r.limited \/ remote \/ loc = Unset,
                             !.attempted = r.attempted + IF ~remote /\ loc = Unset THEN 1 ELSE 0]
  OBVIOUS
<1>8. seeking' = u /\ (remote \/ loc = Unset \/ loc \in r.seen)
  BY <1>1, <1>4, <1>5, <1>6, <1>7 DEF Seek!Pass
<1>9. SearchKept(r, at, had, odd, e)
  BY <1>1, <1>2, <1>3 DEF TraceInv
<1>10. SearchKept(u, at, had, odd, e)
  BY <1>3, <1>4, <1>5, <1>6, <1>7, <1>8, <1>9, PassKept
<1> QED
  BY <1>2, <1>3, <1>8, <1>10, TraceRuns

-----------------------------------------------------------------------------
LEMMA VersionOf ==
    ASSUME FilesKept(sourceFiles, sourceEdits), sourceEdits \in Nat, NEW name \in SourceName,
           sourceFiles[name] # Removed, NEW v, v = Seek!Version(name)
    PROVE  /\ sourceFiles[name] \in FileOf /\ v \in Nat \X Nat
           /\ v[1] = Len(sourceFiles[name].content.passages) /\ v[2] = sourceFiles[name].stamp
           /\ v[2] <= sourceEdits
<1>1. PICK f \in FileOf : f = sourceFiles[name] /\ f.stamp <= sourceEdits
  BY DEF FilesKept
<1>2. f.content \in SourceContent /\ f.stamp \in Nat
  BY <1>1 DEF FileOf
<1>3. Len(f.content.passages) \in Nat
  <2>1. f.content.passages \in Seq(PassageOf)
    BY <1>2, PassagesAre
  <2> QED
    BY <2>1
<1>4. v = <<Len(f.content.passages), f.stamp>>
  BY <1>1 DEF Seek!Version
<1> QED
  BY <1>1, <1>2, <1>3, <1>4

LEMMA TraceTake == ASSUME TraceInv, Seek!Take PROVE TraceInv'
<1>1. PICK r : r = seeking
  OBVIOUS
<1>2. PICK at, had, odd, e : at = sourceFiles /\ had = sourceHeld /\ odd = restamped /\ e = sourceEdits
  OBVIOUS
<1>3. /\ seeking # Unset /\ r.stage = "next" /\ r.pending # << >>
      /\ UNCHANGED <<traceGraph, traceNow, sourceFiles, replays, heads, searchOutput, fetched, sourceHeld,
                     restamped, sourceEdits>>
  BY <1>1 DEF Seek!Take, Seek!cacheVars
<1>4. PICK c, rest : /\ c = r.pending[Seek!BestAt(r.pending)]
                     /\ rest = Seek!RemoveAt(r.pending, Seek!BestAt(r.pending))
  OBVIOUS
<1>5. PICK loc : loc = Seek!Resolve(c.locator)
  OBVIOUS
<1>6. PICK allowance : allowance = Seek!Allowance(Seek!Max({0, r.q.maxBytes - r.charged}), Len(rest))
  OBVIOUS
<1>7. PICK t : t = Taken(r, rest, loc)
  OBVIOUS
<1>8. PICK u : u = seeking'
  OBVIOUS
<1>9. /\ c.locator.kind # "url" /\ loc # Unset
      /\ u = IF Seek!Cached(loc, allowance, r.q) THEN Seek!Use(t, c, heads[loc], 0)
             ELSE IF allowance = 0 THEN Seek!Fail(t, allowance, TRUE)
             ELSE IF sourceFiles[loc.name] = Removed THEN Seek!Fail(t, allowance, loc.kind = "file")
             ELSE [t EXCEPT !.stage = "open",
                            !.at = [c |-> c, locator |-> loc, allowance |-> allowance,
                                    version |-> Seek!Version(loc.name), content |-> Unset]]
  BY <1>1, <1>4, <1>5, <1>6, <1>7, <1>8 DEF Seek!Take, Taken
<1>10. /\ SearchKept(r, at, had, odd, e) /\ FilesKept(sourceFiles, sourceEdits) /\ sourceEdits \in Nat
       /\ HeadsKept(heads, at, odd, e) /\ HeldKept(r, at, had) /\ r # Unset
  BY <1>1, <1>2, <1>3 DEF TraceInv
<1>11. /\ c \in SourceCandidate /\ loc \in SourceOf /\ Len(rest) \in Nat
       /\ t \in SearchRun /\ HitsKept(t) /\ NamedKept(t) /\ SpentKept(t, 0, 0) /\ SettledBut(t, had, odd, loc)
       /\ loc \in t.seen /\ t.charged = r.charged /\ t.q = r.q /\ t.stage = "next"
  BY <1>3, <1>4, <1>5, <1>7, <1>9, <1>10, TakenIs
<1>12. loc.name \in SourceName
  BY <1>11, SourceIs
<1>13. allowance \in Nat /\ SpentKept(t, 0, allowance)
  <2>1. PICK m \in Nat, x \in Nat : m = t.q.maxBytes /\ x = t.charged
    BY <1>11, RunTyped, SearchLimits
  <2>2. x + 0 <= m /\ t.read <= x + 0 /\ (~t.unknown => t.measured + 0 = t.read)
    BY <1>11, <2>1 DEF SpentKept
  <2>3. PICK rem : rem = Seek!Max({0, m - x})
    OBVIOUS
  <2>4. rem \in Nat /\ x + rem = m
    <3>1. rem = IF 0 >= m - x THEN 0 ELSE m - x
      BY <2>1, <2>3, SearchMax
    <3> QED
      BY <2>1, <2>2, <3>1
  <2>5. allowance = Seek!Allowance(rem, Len(rest))
    BY <1>6, <1>11, <2>1, <2>3
  <2>6. allowance \in Nat /\ allowance <= rem
    BY <1>11, <2>4, <2>5, AllowanceIs
  <2>7. x + allowance <= m
    BY <2>1, <2>4, <2>6
  <2> QED
    BY <2>1, <2>2, <2>6, <2>7 DEF SpentKept
<1>14. CASE Seek!Cached(loc, allowance, r.q)
  <2>1. /\ loc \in DOMAIN heads /\ sourceFiles[loc.name] # Removed
        /\ Seek!Version(loc.name) = heads[loc].version
    BY <1>14 DEF Seek!Cached
  <2>2. PICK rec : rec = heads[loc]
    OBVIOUS
  <2>3. /\ at[loc.name] \in FileOf /\ rec.version[2] = at[loc.name].stamp
    BY <1>2, <1>10, <1>12, <2>1, <2>2, VersionOf
  <2>4. IsReading(rec) /\ (odd = {} => ReadsAll(rec, loc, at[loc.name].content))
    BY <1>2, <1>10, <2>1, <2>2, <2>3 DEF HeadsKept
  <2>5. at[loc.name] \in had[loc.name]
    BY <1>2, <1>10, <1>12, <2>1 DEF HeldKept
  <2>6. odd = {} => \E f \in FileOf : f \in had[loc.name] /\ ReadsAll(rec, loc, f.content)
    BY <2>3, <2>4, <2>5
  <2>7. u = Seek!Use(t, c, rec, 0)
    BY <1>9, <1>14, <2>2
  <2>8. SearchKept(u, at, had, odd, e)
    BY <1>11, <2>4, <2>6, <2>7, UseKept
  <2> QED
    BY <1>2, <1>3, <1>8, <2>8, TraceRuns
<1>15. CASE ~Seek!Cached(loc, allowance, r.q)
  <2>1. CASE allowance = 0
    <3>1. PICK known \in BOOLEAN : known = TRUE
      OBVIOUS
    <3>2. u = Seek!Fail(t, allowance, known)
      BY <1>9, <1>15, <2>1, <3>1
    <3>3. SearchKept(u, at, had, odd, e)
      BY <1>11, <1>13, <3>2, FailKept
    <3> QED
      BY <1>2, <1>3, <1>8, <3>3, TraceRuns
  <2>2. CASE allowance # 0 /\ sourceFiles[loc.name] = Removed
    <3>1. PICK known \in BOOLEAN : known = (loc.kind = "file")
      OBVIOUS
    <3>2. u = Seek!Fail(t, allowance, known)
      BY <1>9, <1>15, <2>2, <3>1
    <3>3. SearchKept(u, at, had, odd, e)
      BY <1>11, <1>13, <3>2, FailKept
    <3> QED
      BY <1>2, <1>3, <1>8, <3>3, TraceRuns
  <2>3. CASE allowance # 0 /\ sourceFiles[loc.name] # Removed
    <3>1. PICK v \in Nat \X Nat : v = Seek!Version(loc.name) /\ v[2] <= e
      BY <1>2, <1>10, <1>12, <2>3, VersionOf
    <3>2. PICK a : a = [c |-> c, locator |-> loc, allowance |-> allowance, version |-> v, content |-> Unset]
      OBVIOUS
    <3>3. a \in ExaminedOf /\ a.locator = loc /\ a.allowance = allowance /\ a.version = v
      BY <1>11, <1>13, <3>2 DEF ExaminedOf
    <3>4. u = [t EXCEPT !.stage = "open", !.at = a]
      BY <1>9, <1>15, <2>3, <3>1, <3>2
    <3>5. SearchKept(u, at, had, odd, e)
      BY <1>11, <1>13, <3>1, <3>3, <3>4, OpenKept
    <3> QED
      BY <1>2, <1>3, <1>8, <3>5, TraceRuns
  <2> QED
    BY <2>1, <2>2, <2>3
<1> QED
  BY <1>14, <1>15

LEMMA TraceRead == ASSUME TraceInv, Seek!ReadSource PROVE TraceInv'
<1>1. PICK r : r = seeking
  OBVIOUS
<1>2. PICK at, had, odd, e : at = sourceFiles /\ had = sourceHeld /\ odd = restamped /\ e = sourceEdits
  OBVIOUS
<1>3. /\ seeking # Unset /\ r.stage = "open"
      /\ UNCHANGED <<traceGraph, traceNow, sourceFiles, replays, heads, searchOutput, fetched, sourceHeld,
                     restamped, sourceEdits>>
  BY <1>1 DEF Seek!ReadSource, Seek!cacheVars
<1>4. PICK content, name : name = r.at.locator.name /\ content = at[name].content
  OBVIOUS
<1>5. PICK b : b = Seek!Bytes(r.at.locator, content, r.at.allowance, r.q)
  OBVIOUS
<1>6. PICK u : u = seeking'
  OBVIOUS
<1>7. u = IF at[name] = Removed THEN Seek!Fail(r, r.at.allowance, FALSE)
          ELSE IF ~content.sound THEN Seek!Fail([r EXCEPT !.read = r.read + b], r.at.allowance, FALSE)
          ELSE [r EXCEPT !.stage = "read", !.at.content = content, !.read = r.read + b]
  BY <1>1, <1>2, <1>4, <1>5, <1>6 DEF Seek!ReadSource
<1>8. SearchKept(r, at, had, odd, e) /\ FilesKept(at, e)
  BY <1>1, <1>2, <1>3 DEF TraceInv
<1>9. r \in SearchRun /\ HitsKept(r) /\ Spends(r) /\ AtKept(r, at, odd, e)
  BY <1>8 DEF SearchKept
<1>10. r.at \in ExaminedOf /\ SpentKept(r, 0, r.at.allowance)
  BY <1>3, <1>9 DEF AtKept, Spends
<1>11. r.at.allowance \in Nat /\ name \in SourceName
  BY <1>4, <1>10, SourceIs DEF ExaminedOf
<1>12. SearchKept(u, at, had, odd, e)
  <2>1. CASE at[name] = Removed
    <3>1. PICK known \in BOOLEAN, w \in Nat : known = FALSE /\ w = r.at.allowance
      BY <1>11
    <3>2. u = Seek!Fail(r, w, known) /\ SpentKept(r, 0, w)
      BY <1>7, <1>10, <2>1, <3>1
    <3> QED
      BY <1>9, <3>1, <3>2, FailKept
  <2>2. CASE at[name] # Removed
    <3>1. content \in SourceContent
      BY <1>4, <1>8, <1>11, <2>2 DEF FilesKept, FileOf
    <3>2. CASE ~content.sound
      <4>1. u = Seek!Fail([r EXCEPT !.read = r.read + b], r.at.allowance, FALSE)
        BY <1>7, <2>2, <3>2
      <4> QED
        BY <1>3, <1>5, <1>8, <3>1, <4>1, UnsoundKept
    <3>3. CASE content.sound
      <4>1. u = [r EXCEPT !.stage = "read", !.at.content = content, !.read = r.read + b]
        BY <1>7, <2>2, <3>3
      <4> QED
        BY <1>3, <1>4, <1>5, <1>8, <3>1, <4>1, ReadKept
    <3> QED
      BY <3>2, <3>3
  <2> QED
    BY <2>1, <2>2
<1> QED
  BY <1>2, <1>3, <1>6, <1>12, TraceRuns

LEMMA TraceFinish == ASSUME TraceInv, Seek!Finish PROVE TraceInv'
<1>1. PICK r : r = seeking
  OBVIOUS
<1>2. PICK at, had, odd, e : at = sourceFiles /\ had = sourceHeld /\ odd = restamped /\ e = sourceEdits
  OBVIOUS
<1>3. /\ seeking # Unset /\ r.stage = "next" /\ seeking' = Unset
      /\ searchOutput' = [r EXCEPT !.limited = r.limited \/ r.pending # << >>]
      /\ UNCHANGED <<traceGraph, traceNow, sourceFiles, replays, heads, fetched, sourceHeld, restamped, sourceEdits>>
  BY <1>1 DEF Seek!Finish, Seek!cacheVars
<1>4. SearchKept(r, at, had, odd, e)
  BY <1>1, <1>2, <1>3 DEF TraceInv
<1>5. PICK o : o = [r EXCEPT !.limited = r.limited \/ r.pending # << >>]
  OBVIOUS
<1>6. OutputKept(o, had, odd)
  BY <1>3, <1>4, <1>5, FinishKept
<1>7. searchOutput' = o /\ OutputKept(o, sourceHeld, restamped)
  BY <1>2, <1>3, <1>5, <1>6
<1> QED
  BY <1>3, <1>7 DEF TraceInv, HeldKept

-----------------------------------------------------------------------------
\* A search whose source was read keeps the reading, and uses it.
LEMMA TracePersist == ASSUME TraceInv, Seek!Persist PROVE TraceInv'
<1>1. PICK r : r = seeking
  OBVIOUS
<1>2. PICK at, had, odd, e : at = sourceFiles /\ had = sourceHeld /\ odd = restamped /\ e = sourceEdits
  OBVIOUS
<1>3. /\ seeking # Unset /\ r.stage = "read"
      /\ UNCHANGED <<traceGraph, traceNow, sourceFiles, replays, searchOutput, fetched, sourceHeld,
                     restamped, sourceEdits>>
  BY <1>1 DEF Seek!Persist, Seek!cacheVars
<1>4. /\ SearchKept(r, at, had, odd, e) /\ FilesKept(sourceFiles, sourceEdits) /\ sourceEdits \in Nat
      /\ HeadsKept(heads, at, odd, e) /\ HeldKept(r, at, had) /\ r # Unset
  BY <1>1, <1>2, <1>3 DEF TraceInv
<1>5. /\ r \in SearchRun /\ HitsKept(r) /\ Spends(r) /\ NamedKept(r) /\ SeenKept(r, had, odd)
      /\ AtKept(r, at, odd, e)
  BY <1>4 DEF SearchKept
<1>6. PICK a \in ExaminedOf :
         /\ a = r.at /\ a.locator \in r.seen /\ a.version[2] <= e /\ a.content \in SourceContent
         /\ SameThen(a.locator.name, a.version, a.content, at, odd)
  BY <1>3, <1>5 DEF AtKept
<1>7. /\ a.c \in SourceCandidate /\ a.locator \in SourceOf /\ a.allowance \in Nat /\ a.version \in Nat \X Nat
      /\ r.q \in SearchFor
  BY <1>5, <1>6, RunTyped DEF ExaminedOf
<1>8. PICK loc \in SourceOf : loc = a.locator
  BY <1>7
<1>9. loc.name \in SourceName
  BY SourceIs
<1>10. PICK rec : rec = Seek!Reading(loc, a.content, a.version, a.allowance, r.q)
  OBVIOUS
<1>11. PICK b : b = Seek!Bytes(loc, a.content, a.allowance, r.q)
  OBVIOUS
<1>12. b \in Nat /\ b <= a.allowance /\ SpentKept(r, b, a.allowance)
  <2>1. b \in Nat /\ b <= a.allowance
    BY <1>6, <1>7, <1>11, BytesIs
  <2>2. ReadFor(r) = b
    BY <1>6, <1>8, <1>11 DEF ReadFor
  <2>3. SpentKept(r, b, a.allowance)
    BY <1>3, <1>5, <1>6, <2>2 DEF Spends
  <2> QED
    BY <2>1, <2>3
<1>13. PICK u : u = seeking'
  OBVIOUS
<1>14. CASE Seek!Unchanged(a)
  <2>1. u = Seek!Use(r, a.c, rec, b)
    BY <1>1, <1>6, <1>8, <1>10, <1>11, <1>13, <1>14 DEF Seek!Persist
  <2>2. heads' = [l \in DOMAIN heads \union {loc} |-> IF l = loc THEN rec ELSE heads[l]]
    BY <1>1, <1>6, <1>8, <1>10, <1>14 DEF Seek!Persist
  <2>3. sourceFiles[loc.name] # Removed /\ Seek!Version(loc.name) = a.version
    BY <1>8, <1>14 DEF Seek!Unchanged
  <2>4. PICK f \in FileOf : /\ f = at[loc.name] /\ f \in had[loc.name]
                            /\ a.version[1] = Len(f.content.passages) /\ a.version[2] = f.stamp
    <3>1. /\ at[loc.name] \in FileOf /\ a.version[1] = Len(at[loc.name].content.passages)
          /\ a.version[2] = at[loc.name].stamp
      BY <1>2, <1>4, <1>9, <2>3, VersionOf
    <3>2. at[loc.name] \in had[loc.name]
      BY <1>2, <1>4, <1>9, <2>3 DEF HeldKept
    <3> QED
      BY <3>1, <3>2
  <2>5. /\ IsReading(rec) /\ rec.version = a.version
        /\ a.version[1] = Len(a.content.passages) => ReadsAll(rec, loc, a.content)
    BY <1>6, <1>7, <1>10, ReadingIs
  <2>6. odd = {} => f.content = a.content
    BY <1>2, <1>6, <1>8, <2>3, <2>4 DEF SameThen
  <2>7. odd = {} => ReadsAll(rec, loc, f.content)
    <3> SUFFICES ASSUME odd = {} PROVE ReadsAll(rec, loc, f.content)
      OBVIOUS
    <3>1. f.content = a.content
      BY <2>6
    <3>2. a.version[1] = Len(a.content.passages)
      BY <2>4, <3>1
    <3> QED
      BY <2>5, <3>1, <3>2
  <2>8. SettledBut(r, had, odd, loc)
    BY <1>5, <1>6, <1>8 DEF SeenKept, SettledBut
  <2>9. SearchKept(u, at, had, odd, e)
    <3>1. odd = {} => \E x \in FileOf : x \in had[loc.name] /\ ReadsAll(rec, loc, x.content)
      BY <2>4, <2>7
    <3> QED
      BY <1>5, <1>7, <1>12, <2>1, <2>5, <2>8, <3>1, UseKept
  <2>10. PICK hs : hs = [l \in DOMAIN heads \union {loc} |-> IF l = loc THEN rec ELSE heads[l]]
    OBVIOUS
  <2>11. HeadsKept(hs, at, odd, e)
    <3>1. ASSUME NEW l \in DOMAIN hs
          PROVE  /\ l \in SourceOf /\ IsReading(hs[l]) /\ hs[l].version[2] <= e
                 /\ odd = {} /\ at[l.name] # Removed /\ at[l.name].stamp = hs[l].version[2]
                       => ReadsAll(hs[l], l, at[l.name].content)
      <4>1. CASE l = loc
        <5>1. hs[l] = rec
          BY <2>10, <4>1
        <5> QED
          BY <1>6, <2>4, <2>5, <2>7, <4>1, <5>1
      <4>2. CASE l # loc
        <5>1. l \in DOMAIN heads /\ hs[l] = heads[l]
          BY <2>10, <3>1, <4>2
        <5> QED
          BY <1>4, <5>1 DEF HeadsKept
      <4> QED
        BY <4>1, <4>2
    <3> QED
      BY <3>1 DEF HeadsKept
  <2>12. HeldKept(u, at, had)
    BY <1>4 DEF HeldKept
  <2>13. /\ heads' = hs /\ HeadsKept(hs, sourceFiles, restamped, sourceEdits)
         /\ HeldKept(u, sourceFiles, sourceHeld)
         /\ SearchKept(u, sourceFiles, sourceHeld, restamped, sourceEdits)
    BY <1>2, <2>2, <2>9, <2>10, <2>11, <2>12
  <2> QED
    BY <1>3, <1>13, <2>13 DEF TraceInv
<1>15. CASE ~Seek!Unchanged(a)
  <2>1. u = Seek!Fail(r, a.allowance, FALSE) /\ heads' = heads
    BY <1>1, <1>6, <1>13, <1>15 DEF Seek!Persist
  <2>2. SearchKept(u, at, had, odd, e)
    BY <1>5, <1>7, <1>12, <2>1, FailKept
  <2> QED
    BY <1>2, <1>3, <1>13, <2>1, <2>2, TraceRuns
<1> QED
  BY <1>14, <1>15

\* search.rs, begin: the graph that is kept is the graph of the journal.
KeptGraph(ks, known, g) == IF known THEN (CHOOSE k \in ks : TRUE).replay ELSE Seek!Replay(g)

LEMMA SameGraph ==
    ASSUME NEW g, NEW ks, \A k \in ks : k.of = g /\ k.replay = k.of, NEW known \in BOOLEAN, known => ks # {}
    PROVE  KeptGraph(ks, known, g) = g
<1>1. CASE known
  <2>1. PICK one : one = CHOOSE k \in ks : TRUE
    OBVIOUS
  <2>2. one \in ks
    BY <1>1, <2>1
  <2>3. KeptGraph(ks, known, g) = one.replay
    BY <1>1, <2>1 DEF KeptGraph
  <2> QED
    BY <2>2, <2>3
<1>2. CASE ~known
  BY <1>2 DEF Seek!Replay, KeptGraph
<1> QED
  BY <1>1, <1>2

\* What a search begins with.
BegunWith(g, t, there, q, pending, limited) ==
    [q |-> q, graph |-> g, now |-> t, there |-> there, pending |-> pending, limited |-> limited,
     seen |-> {}, attempted |-> 0, charged |-> 0, measured |-> 0, unknown |-> FALSE,
     read |-> 0, matched |-> 0, hits |-> {}, stage |-> "next", at |-> Unset]

LEMMA BegunKept ==
    ASSUME NEW g \in TraceJournal, traceNow \in Nat, NEW q \in SearchFor, Posed(g, q), NEW walk,
           walk = Seek!Explore(g, q), NEW limited \in BOOLEAN, walk.limited => limited,
           NEW there \in SUBSET SourceName,
           NEW u, u = BegunWith(g, traceNow, there, q, Seek!Candidates(g, walk.visited, there), limited),
           NEW at, NEW had, NEW odd, NEW e
    PROVE  SearchKept(u, at, had, odd, e)
<1>1. WalkDone(g, q, walk)
  BY ExploreIs
<1>2. PICK v, cut : v = walk.visited /\ cut = walk.limited
  OBVIOUS
<1>3. v \in Seq(WalkPoint(g)) /\ \A p, x \in Entries(v) : p.node = x.node => p = x
  BY <1>1, <1>2 DEF WalkDone
<1>4. PICK pending : pending = Seek!Candidates(g, v, there)
  OBVIOUS
<1>5. /\ pending \in Seq(SourceCandidate)
      /\ \A n \in NodesIn(v) : Seek!Locator(g, n, there) # Unset
            => \E c \in Entries(pending) : c.locator = Seek!Locator(g, n, there)
  BY <1>3, <1>4, CandidatesAre
<1>6. PICK t \in Nat : t = traceNow
  OBVIOUS
<1>7. u = BegunWith(g, t, there, q, pending, limited)
  BY <1>2, <1>4, <1>6
<1>8. /\ u \in SearchRun /\ u.q = q /\ u.graph = g /\ u.now = t /\ u.there = there /\ u.pending = pending /\ u.limited = limited
      /\ u.seen = {} /\ u.charged = 0 /\ u.measured = 0 /\ u.read = 0 /\ u.matched = 0 /\ u.hits = {}
      /\ u.stage = "next"
  BY <1>5, <1>7 DEF SearchRun, BegunWith
<1>9. HitsKept(u)
  <2>1. IsFiniteSet({}) /\ Cardinality({}) = 0
    BY FS_EmptySet
  <2> QED
    BY <1>8, <2>1 DEF HitsKept
<1>10. Spends(u)
  <2>1. q.maxBytes \in Nat
    BY SearchLimits
  <2>2. SpentKept(u, 0, 0)
    BY <1>8, <2>1 DEF SpentKept
  <2> QED
    BY <1>8, <2>2 DEF Spends
<1>11. NamedKept(u)
  <2>1. ASSUME ~limited, Few(g, t, q), NEW l \in LinkedLocators(g, t, q, there) PROVE l \in AnyLocator /\ Accounted(u, l)
    <3>1. Seek!Cardinality(Seek!Matched(g, traceNow, q)) <= SeedLimit
      BY <1>6, <2>1 DEF Few
    <3>2. ~walk.limited
      BY <2>1
    <3>3. Seek!Reached(g, traceNow, Seek!Matched(g, traceNow, q)) \subseteq NodesIn(v)
      BY <1>1, <1>2, <3>1, <3>2, WalkReaches
    <3>4. PICK n \in Seek!Reached(g, t, Seek!Matched(g, t, q)) : l = Seek!Locator(g, n, there) /\ l # Unset
      BY <2>1 DEF LinkedLocators
    <3>5. n \in NodesIn(v)
      BY <1>6, <3>3, <3>4
    <3>6. PICK c \in Entries(pending) : c.locator = l
      BY <1>5, <3>4, <3>5
    <3>7. c \in SourceCandidate
      BY <1>5, <3>6, ListEntries
    <3>8. l \in AnyLocator
      BY <3>6, <3>7, CandidateIs
    <3> QED
      BY <1>8, <3>6, <3>8 DEF Accounted
  <2> QED
    BY <1>8, <2>1 DEF NamedKept
<1>12. SeenKept(u, had, odd) /\ AtKept(u, at, odd, e)
  BY <1>8 DEF SeenKept, AtKept
<1> QED
  BY <1>8, <1>9, <1>10, <1>11, <1>12 DEF SearchKept

LEMMA TraceBegin ==
    ASSUME TraceInv, NEW q \in SearchFor, Seek!Begin(q)
    PROVE  TraceInv'
<1>1. /\ traceGraph \in TraceJournal /\ traceNow \in Nat /\ sourceEdits \in Nat
      /\ FilesKept(sourceFiles, sourceEdits) /\ ReplaysKept(replays)
      /\ HeadsKept(heads, sourceFiles, restamped, sourceEdits)
  BY DEF TraceInv
<1>2. PICK g \in TraceJournal : g = traceGraph
  BY <1>1
<1>3. PICK at, odd, e : at = sourceFiles /\ odd = restamped /\ e = sourceEdits
  OBVIOUS
<1>4. PICK same : same = {k \in replays : k.of = g}
  OBVIOUS
<1>5. PICK known \in BOOLEAN : known = (same # {} /\ ~q.refresh)
  OBVIOUS
<1>6. PICK g2 : g2 = KeptGraph(same, known, g)
  OBVIOUS
<1>7. g2 = g
  <2>1. \A k \in same : k.of = g /\ k.replay = k.of
    BY <1>1, <1>4 DEF ReplaysKept
  <2> QED
    BY <1>5, <1>6, <2>1, SameGraph
<1>8. PICK walk : walk = Seek!Explore(g, q)
  OBVIOUS
<1>9. PICK limited \in BOOLEAN : limited = (walk.limited \/ \A n \in DOMAIN g.nodes : ~g.nodes[n].wiki)
  OBVIOUS
<1>10. PICK there \in SUBSET SourceName : there = Seek!There
  BY DEF Seek!There
<1>11. PICK u : u = BegunWith(g, traceNow, there, q, Seek!Candidates(g, walk.visited, there), limited)
  OBVIOUS
<1>12. PICK had : had = [n \in SourceName |-> {at[n]} \ {Removed}]
  OBVIOUS
<1>13. /\ seeking = Unset /\ Posed(g, q) /\ seeking' = u /\ sourceHeld' = had
       /\ replays' = {k \in replays : k.of # g} \union {[of |-> g, replay |-> g]}
       /\ searchOutput' = Unset /\ fetched' = Unset
       /\ UNCHANGED <<traceGraph, traceNow, sourceFiles, heads, restamped, sourceEdits>>
  <2>1. /\ seeking = Unset /\ Posed(g, q) /\ sourceHeld' = had /\ searchOutput' = Unset /\ fetched' = Unset
        /\ UNCHANGED <<traceGraph, traceNow, sourceFiles, heads, restamped, sourceEdits>>
    BY <1>2, <1>3, <1>12 DEF Seek!Begin, Posed
  <2>2. /\ replays' = {k \in replays : k.of # g} \union {[of |-> g, replay |-> g2]}
        /\ seeking' = [q |-> q, graph |-> g, now |-> traceNow, there |-> there,
                       pending |-> Seek!Candidates(g2, Seek!Explore(g2, q).visited, there),
                       limited |-> Seek!Explore(g2, q).limited \/ \A n \in DOMAIN g2.nodes : ~g2.nodes[n].wiki,
                       seen |-> {}, attempted |-> 0, charged |-> 0, measured |-> 0, unknown |-> FALSE,
                       read |-> 0, matched |-> 0, hits |-> {}, stage |-> "next", at |-> Unset]
    BY <1>2, <1>4, <1>5, <1>6, <1>10 DEF Seek!Begin, KeptGraph
  <2> QED
    BY <1>7, <1>8, <1>9, <1>11, <2>1, <2>2 DEF BegunWith
<1>14. SearchKept(u, at, had, odd, e)
  BY <1>1, <1>8, <1>9, <1>11, <1>13, BegunKept
<1>15. had \in [SourceName -> SUBSET FileOf] /\ HeldKept(u, at, had)
  BY <1>1, <1>3, <1>12 DEF FilesKept, HeldKept
<1>16. PICK ks : ks = {k \in replays : k.of # g} \union {[of |-> g, replay |-> g]}
  OBVIOUS
<1>17. ReplaysKept(ks)
  BY <1>1, <1>16 DEF ReplaysKept
<1>18. FetchedKept(Unset)
  BY DEF FetchedKept
<1>19. /\ replays' = ks /\ SearchKept(u, sourceFiles, had, restamped, sourceEdits)
       /\ HeldKept(u, sourceFiles, had)
  BY <1>3, <1>13, <1>14, <1>15, <1>16
<1> QED
  BY <1>1, <1>13, <1>15, <1>17, <1>18, <1>19 DEF TraceInv

LEMMA TraceExpand ==
    ASSUME TraceInv, NEW rec, NEW i, Seek!Expand(rec, i)
    PROVE  TraceInv'
<1>1. PICK p : p = rec.passages[i]
  OBVIOUS
<1>2. PICK text : text = sourceFiles[rec.locator.name].content.passages[i].text
  OBVIOUS
<1>3. /\ fetched' = [quoted |-> p, text |-> text] /\ text = p.text
      /\ UNCHANGED <<traceGraph, traceNow, sourceFiles, replays, heads, seeking, searchOutput, sourceHeld,
                     restamped, sourceEdits>>
  BY <1>1, <1>2 DEF Seek!Expand, Seek!SameText, Seek!cacheVars
<1>4. PICK x : x = [quoted |-> p, text |-> text]
  OBVIOUS
<1>5. fetched' = x /\ FetchedKept(x)
  BY <1>3, <1>4 DEF FetchedKept
<1> QED
  BY <1>3, <1>5 DEF TraceInv

LEMMA TraceLater == ASSUME TraceInv, Seek!Later PROVE TraceInv'
<1>1. /\ traceNow' = traceNow + 1 /\ traceGraph' \in TraceJournal
      /\ UNCHANGED <<sourceFiles, replays, heads, seeking, searchOutput, fetched, sourceHeld, restamped, sourceEdits>>
  BY DEF Seek!Later, Seek!cacheVars
<1>2. traceNow' \in Nat
  BY <1>1 DEF TraceInv
<1> QED
  BY <1>1, <1>2 DEF TraceInv

LEMMA TraceInit == Seek!Init => TraceInv
<1> SUFFICES ASSUME Seek!Init PROVE TraceInv
  OBVIOUS
<1>1. /\ traceGraph \in TraceJournal /\ traceNow = 0 /\ sourceEdits = 0
      /\ sourceFiles \in [SourceName -> [content : SourceContent, stamp : {0}]]
      /\ replays = {} /\ heads = << >> /\ seeking = Unset /\ searchOutput = Unset /\ fetched = Unset
      /\ sourceHeld = [n \in SourceName |-> {}]
  BY DEF Seek!Init
<1>2. FilesKept(sourceFiles, sourceEdits)
  BY <1>1 DEF FilesKept, FileOf
<1>3. sourceHeld \in [SourceName -> SUBSET FileOf]
  BY <1>1
<1>4. ReplaysKept(replays) /\ HeadsKept(heads, sourceFiles, restamped, sourceEdits)
  BY <1>1 DEF ReplaysKept, HeadsKept
<1>5. HeldKept(seeking, sourceFiles, sourceHeld) /\ FetchedKept(fetched)
  BY <1>1 DEF HeldKept, FetchedKept
<1> QED
  BY <1>1, <1>2, <1>3, <1>4, <1>5 DEF TraceInv

LEMMA TraceStill == TraceInv /\ UNCHANGED searchVars => TraceInv'
<1> SUFFICES ASSUME TraceInv, UNCHANGED searchVars PROVE TraceInv'
  OBVIOUS
<1>1. UNCHANGED <<traceGraph, traceNow, sourceFiles, replays, heads, seeking, searchOutput, fetched, sourceHeld,
                  restamped, sourceEdits>>
  BY DEF searchVars
<1> QED
  BY <1>1 DEF TraceInv

LEMMA TraceStep == TraceInv /\ Seek!Next => TraceInv'
<1> SUFFICES ASSUME TraceInv, Seek!Next PROVE TraceInv'
  OBVIOUS
<1>1. \/ \E q \in SearchFor : Seek!Begin(q)
      \/ Seek!Pass \/ Seek!Take \/ Seek!ReadSource \/ Seek!Persist \/ Seek!Finish \/ Seek!Later
      \/ \E rec \in readings : \E i \in DOMAIN rec.passages : Seek!Expand(rec, i)
      \/ \E name \in SourceName : Seek!Delete(name) \/ \E content \in SourceContent : Seek!Edit(name, content)
  BY DEF Seek!Next
<1> QED
  BY <1>1, TraceBegin, TracePass, TraceTake, TraceRead, TracePersist, TraceFinish, TraceLater, TraceExpand,
     TraceDelete, TraceEdit

\* What is kept of a search says what is promised of it.
LEMMA TraceHolds == TraceInv => Seek!TraceIsHonest
<1> SUFFICES ASSUME TraceInv PROVE Seek!TraceIsHonest
  OBVIOUS
<1>1. /\ seeking # Unset => SearchKept(seeking, sourceFiles, sourceHeld, restamped, sourceEdits)
      /\ searchOutput # Unset => OutputKept(searchOutput, sourceHeld, restamped)
      /\ FetchedKept(fetched)
  BY DEF TraceInv
<1>2. Seek!ExpandedAsQuoted
  BY <1>1 DEF FetchedKept, Seek!ExpandedAsQuoted
<1>3. ASSUME NEW r, NEW at, NEW had, NEW odd, NEW e, SearchKept(r, at, had, odd, e)
      PROVE  /\ r.charged <= r.q.maxBytes
             /\ r.stage = "next" => r.read <= r.charged /\ (~r.unknown => r.measured = r.read)
  <2>1. r \in SearchRun /\ Spends(r) /\ AtKept(r, at, odd, e)
    BY <1>3 DEF SearchKept
  <2>2. PICK m \in Nat, x \in Nat, y \in Nat, z \in Nat :
           m = r.q.maxBytes /\ x = r.charged /\ y = r.read /\ z = r.measured
    BY <2>1, RunTyped, SearchLimits
  <2>3. CASE r.stage = "next"
    <3>1. x + 0 <= m /\ y <= x + 0 /\ (~r.unknown => z + 0 = y)
      BY <2>1, <2>2, <2>3 DEF Spends, SpentKept
    <3> QED
      BY <2>2, <3>1
  <2>4. CASE r.stage # "next"
    <3>1. PICK w \in Nat : w = r.at.allowance
      BY <2>1, <2>4 DEF AtKept, ExaminedOf
    <3>2. r.stage \in {"open", "read"}
      BY <2>1, <2>4, RunTyped
    <3>3. x + w <= m
      BY <2>1, <2>2, <3>1, <3>2 DEF Spends, SpentKept
    <3> QED
      BY <2>2, <2>4, <3>3
  <2> QED
    BY <2>3, <2>4
<1>4. ASSUME NEW o, NEW had, NEW odd, OutputKept(o, had, odd)
      PROVE  /\ o.charged <= o.q.maxBytes
             /\ o.stage = "next" => o.read <= o.charged /\ (~o.unknown => o.measured = o.read)
  <2>1. PICK m \in Nat, x \in Nat, y \in Nat, z \in Nat :
           m = o.q.maxBytes /\ x = o.charged /\ y = o.read /\ z = o.measured
    BY <1>4, SearchLimits DEF OutputKept
  <2>2. x + 0 <= m /\ y <= x + 0 /\ (~o.unknown => z + 0 = y)
    BY <1>4, <2>1 DEF OutputKept, SpentKept
  <2> QED
    BY <2>1, <2>2
<1>5. Seek!BudgetKept
  <2> SUFFICES ASSUME NEW r \in {seeking, searchOutput} \ {Unset}
               PROVE  /\ r.charged <= r.q.maxBytes
                      /\ r.stage = "next" => r.read <= r.charged /\ (~r.unknown => r.measured = r.read)
    BY DEF Seek!BudgetKept
  <2>1. CASE r = seeking
    BY <1>1, <1>3, <2>1
  <2>2. CASE r = searchOutput
    BY <1>1, <1>4, <2>2
  <2> QED
    BY <2>1, <2>2
<1>6. Seek!CompleteIsComplete
  <2> SUFFICES ASSUME searchOutput # Unset, ~searchOutput.limited,
                      searchOutput.matched <= searchOutput.q.limit, restamped = {},
                      Seek!Cardinality(Seek!Matched(searchOutput.graph, searchOutput.now, searchOutput.q)) <= SeedLimit,
                      NEW n \in Seek!Reached(searchOutput.graph, searchOutput.now,
                                    Seek!Matched(searchOutput.graph, searchOutput.now, searchOutput.q)),
                      Seek!Locator(searchOutput.graph, n, searchOutput.there) # Unset
               PROVE  Seek!Covered(searchOutput, Seek!Locator(searchOutput.graph, n, searchOutput.there))
    BY DEF Seek!CompleteIsComplete
  <2>1. PICK o, had : o = searchOutput /\ had = sourceHeld
    OBVIOUS
  <2>2. PICK l : l = Seek!Locator(o.graph, n, o.there)
    OBVIOUS
  <2>3. l \in LinkedLocators(o.graph, o.now, o.q, o.there) /\ Few(o.graph, o.now, o.q)
    BY <2>1, <2>2 DEF LinkedLocators, Few
  <2>4. l.kind # "url" /\ Shows(o, had, Seek!Resolve(l))
    BY <1>1, <2>1, <2>3 DEF OutputKept
  <2>5. PICK loc \in SourceOf : loc = Seek!Resolve(l) /\ loc # Unset
    BY <2>4, SourceIs DEF Shows
  <2>6. ASSUME NEW f, QuotedFrom(o, f.content.passages) PROVE Seek!Quoted(o, f.content)
    BY <2>6 DEF QuotedFrom, Seek!Quoted
  <2>7. PICK f \in had[loc.name] :
           /\ QuotedFrom(o, f.content.passages)
           /\ loc.kind = "file" => \A ref \in f.content.refs :
                 \E x \in had[Seek!Resolve(ref.locator).name] : QuotedFrom(o, x.content.passages)
    BY <2>4, <2>5 DEF Shows
  <2>8. /\ Seek!Quoted(o, f.content)
        /\ loc.kind = "file" => \A ref \in f.content.refs :
              \E x \in had[Seek!Resolve(ref.locator).name] : Seek!Quoted(o, x.content)
    BY <2>6, <2>7
  <2>9. Seek!Covered(o, l)
    BY <2>1, <2>4, <2>5, <2>8 DEF Seek!Covered
  <2> QED
    BY <2>1, <2>2, <2>9
<1> QED
  BY <1>2, <1>5, <1>6 DEF Seek!TraceIsHonest
================================================================================
