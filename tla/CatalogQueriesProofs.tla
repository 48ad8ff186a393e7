------------------------ MODULE CatalogQueriesProofs ------------------------
(***************************************************************************)
(* Lemmas about the queries of CatalogQueries on any catalog: what the     *)
(* first n of an order are, and that the orders of the queries are orders. *)
(* ContentApiProofs rests on them.                                         *)
(***************************************************************************)
EXTENDS CatalogQueries, FiniteSetTheorems, TLAPS

\* R is a strict total order on S.
Orders(R, S) ==
    /\ R \subseteq S \X S
    /\ \A r \in S : <<r, r>> \notin R
    /\ \A p, q, r \in S : <<p, q>> \in R /\ <<q, r>> \in R => <<p, r>> \in R
    /\ \A q, r \in S : q # r => <<q, r>> \in R \/ <<r, q>> \in R

\* Those with fewer than n before them.
FirstIn(R, S, n) == {r \in S : Cardinality({q \in S : <<q, r>> \in R}) < n}

\* F is S cut to n: n of them, or all.
CutTo(F, S, n) ==
    /\ F \subseteq S
    /\ IsFiniteSet(F)
    /\ Cardinality(F) = IF n <= Cardinality(S) THEN n ELSE Cardinality(S)

\* The elements with fewer than n before them are n or all, each before everything left
\* out: their ranks are distinct, and as many as there are (ORDER BY with LIMIT,
\* restaurant_repository.py:76-85, and sorted(...)[:n], couvert.py:38-40, 49).
LEMMA FirstOf ==
    ASSUME NEW S, IsFiniteSet(S), NEW n \in Nat, NEW R, Orders(R, S)
    PROVE  /\ CutTo(FirstIn(R, S, n), S, n)
           /\ \A r \in FirstIn(R, S, n), q \in S \ FirstIn(R, S, n) : <<r, q>> \in R
<1> DEFINE below(r) == {q \in S : <<q, r>> \in R}
           size == Cardinality(S)
           rank == [r \in S |-> Cardinality(below(r))]
           F == {r \in S : Cardinality(below(r)) < n}
           len == IF n <= size THEN n ELSE size
<1>1. size \in Nat
  BY FS_CardinalityType
<1>2. \A r \in S : IsFiniteSet(below(r)) /\ Cardinality(below(r)) \in Nat
  BY FS_Subset, FS_CardinalityType
<1>3. ASSUME NEW q \in S, NEW r \in S, <<q, r>> \in R
      PROVE  Cardinality(below(q)) < Cardinality(below(r))
  <2>1. below(q) \subseteq below(r) /\ q \in below(r) /\ q \notin below(q)
    BY <1>3 DEF Orders
  <2>2. /\ Cardinality(below(q)) <= Cardinality(below(r))
        /\ Cardinality(below(q)) # Cardinality(below(r))
    BY <1>2, <2>1, FS_Subset
  <2> QED
    BY <1>2, <2>2
<1>4. ASSUME NEW r \in S
      PROVE  Cardinality(below(r)) \in 0..(size - 1)
  <2>1. below(r) \subseteq S /\ r \notin below(r)
    BY DEF Orders
  <2>2. Cardinality(below(r)) <= size /\ Cardinality(below(r)) # size
    BY <2>1, FS_Subset
  <2> QED
    BY <1>1, <1>2, <2>2
<1> HIDE DEF below
<1>5. ASSUME NEW q \in S, NEW r \in S, Cardinality(below(q)) = Cardinality(below(r))
      PROVE  q = r
  <2>1. /\ ~(Cardinality(below(q)) < Cardinality(below(r)))
        /\ ~(Cardinality(below(r)) < Cardinality(below(q)))
    BY <1>2, <1>5
  <2>2. <<q, r>> \notin R /\ <<r, q>> \notin R
    BY <1>3, <2>1
  <2> QED
    BY <2>2 DEF Orders
<1>6. rank \in Bijection(S, 0..(size - 1))
  <2>1. rank \in [S -> 0..(size - 1)]
    BY <1>4
  <2>2. \A q, r \in S : rank[q] = rank[r] => q = r
    BY <1>5
  <2>3. rank \in Injection(S, 0..(size - 1))
    BY <2>1, <2>2 DEF Injection, IsInjective
  <2>4. IsFiniteSet(0..(size - 1)) /\ Cardinality(0..(size - 1)) = size
    <3> DEFINE top == size - 1
    <3>1. top \in Int /\ 0 \in Int
      BY <1>1
    <3> HIDE DEF top
    <3>2. /\ IsFiniteSet(0..top)
          /\ Cardinality(0..top) = IF 0 > top THEN 0 ELSE top - 0 + 1
      BY <3>1, FS_Interval
    <3> QED
      BY <1>1, <3>2 DEF top
  <2>5. rank \in Surjection(S, 0..(size - 1))
    BY <2>3, <2>4, FS_Injection
  <2> QED
    BY <2>3, <2>5 DEF Bijection
<1>7. Cardinality(F) = len /\ IsFiniteSet(F)
  <2> DEFINE cut == [r \in F |-> Cardinality(below(r))]
  <2>1. cut \in [F -> 0..(len - 1)]
    BY <1>1, <1>4
  <2>2. \A q, r \in F : cut[q] = cut[r] => q = r
    BY <1>5
  <2>3. \A i \in 0..(len - 1) : \E r \in F : cut[r] = i
    <3> SUFFICES ASSUME NEW i \in 0..(len - 1)
                 PROVE  \E r \in F : cut[r] = i
      OBVIOUS
    <3>1. i \in 0..(size - 1) /\ i < n
      BY <1>1
    <3>2. PICK r \in S : rank[r] = i
      BY <1>6, <3>1 DEF Bijection, Surjection
    <3> QED
      BY <3>1, <3>2
  <2>4. cut \in Bijection(F, 0..(len - 1))
    BY <2>1, <2>2, <2>3 DEF Bijection, Injection, IsInjective, Surjection
  <2>5. IsFiniteSet(F)
    BY FS_Subset
  <2>6. len \in Nat
    BY <1>1
  <2> HIDE DEF len
  <2>7. Cardinality(0..(len - 1)) = len
    BY <2>6, FS_Interval
  <2> QED
    BY <2>4, <2>5, <2>7, FS_Bijection DEF ExistsBijection
<1>8. ASSUME NEW r \in F, NEW q \in S \ F
      PROVE  <<r, q>> \in R
  <2>1. q # r /\ ~(Cardinality(below(q)) < Cardinality(below(r)))
    BY <1>2
  <2> QED
    BY <1>3, <2>1 DEF Orders
<1> QED
  BY <1>7, <1>8 DEF CutTo, FirstIn, below

-----------------------------------------------------------------------------
\* What the queries select is a finite set of restaurants (restaurant_repository.py:61-85).
LEMMA Selected ==
    ASSUME NEW c, NEW label, NEW term
    PROVE  /\ InScope(c) \subseteq Restaurants /\ IsFiniteSet(InScope(c))
           /\ Found(c, label, term) \subseteq InScope(c) /\ IsFiniteSet(Found(c, label, term))
           /\ Awarded(c) \subseteq InScope(c) /\ IsFiniteSet(Awarded(c))
           /\ Found(c, None, None) = InScope(c)
<1>1. InScope(c) \subseteq Restaurants
  BY DEF InScope
<1>2. Found(c, label, term) \subseteq InScope(c)
  BY DEF Found
<1>3. Awarded(c) \subseteq InScope(c)
  BY DEF Awarded
<1>4. Found(c, None, None) = InScope(c)
  BY DEF Found
<1> QED
  BY <1>1, <1>2, <1>3, <1>4, FS_Subset, CatalogAssumption

\* Those with fewer than n before them by name.
FirstNamed(S, n) == {r \in S : Cardinality({q \in S : q < r}) < n}

\* The first n by name (ORDER BY c.name, restaurant_repository.py:76-85).
LEMMA FirstByName ==
    ASSUME NEW S, S \subseteq Restaurants, NEW n \in Nat
    PROVE  /\ CutTo(FirstNamed(S, n), S, n)
           /\ \A r \in FirstNamed(S, n), q \in S \ FirstNamed(S, n) : r < q
<1> DEFINE F == FirstNamed(S, n)
           R == {p \in S \X S : p[1] < p[2]}
<1>1. IsFiniteSet(S) /\ S \subseteq Nat
  BY FS_Subset, CatalogAssumption
<1>2. Orders(R, S)
  BY <1>1 DEF Orders
<1>3. F = FirstIn(R, S, n)
  <2>1. \A r \in S : {q \in S : <<q, r>> \in R} = {q \in S : q < r}
    OBVIOUS
  <2> QED
    BY <2>1 DEF FirstIn, FirstNamed
<1>4. \A q, r \in S : <<r, q>> \in R => r < q
  OBVIOUS
<1> HIDE DEF R, F
<1>5. CutTo(F, S, n) /\ \A r \in F, q \in S \ F : <<r, q>> \in R
  <2>1. /\ CutTo(FirstIn(R, S, n), S, n)
        /\ \A r \in FirstIn(R, S, n), q \in S \ FirstIn(R, S, n) : <<r, q>> \in R
    BY <1>1, <1>2, FirstOf, Zenon
  <2> QED
    BY <1>3, <2>1, Zenon
<1> QED
  BY <1>4, <1>5 DEF CutTo, F

\* The first n by awards (_most_awarded, couvert.py:38-40).
LEMMA FirstByAwards ==
    ASSUME NEW c \in Catalogs, NEW n \in Nat, NEW F,
           F = {r \in Awarded(c) : Cardinality({q \in Awarded(c) : MoreAwarded(c, q, r)}) < n}
    PROVE  CutTo(F, Awarded(c), n) /\ \A r \in F, q \in Awarded(c) \ F : MoreAwarded(c, r, q)
<1> DEFINE S == Awarded(c)
           R == {p \in S \X S : MoreAwarded(c, p[1], p[2])}
<1>1. IsFiniteSet(S) /\ S \subseteq Nat
  BY Selected, CatalogAssumption
<1>2. \A r \in S : Cardinality(c[r].awards) \in Nat
  BY FS_Subset, FS_CardinalityType, CatalogAssumption DEF Catalogs, Docs, Awarded, InScope
<1> HIDE DEF S
<1>3. Orders(R, S)
  BY <1>1, <1>2 DEF Orders, MoreAwarded
<1>4. F = FirstIn(R, S, n)
  <2>1. \A r \in S : {q \in S : <<q, r>> \in R} = {q \in S : MoreAwarded(c, q, r)}
    OBVIOUS
  <2> QED
    BY <2>1 DEF FirstIn, S
<1>5. \A q, r \in S : <<r, q>> \in R => MoreAwarded(c, r, q)
  OBVIOUS
<1> HIDE DEF R
<1> QED
  <2>1. /\ CutTo(FirstIn(R, S, n), S, n)
        /\ \A r \in FirstIn(R, S, n), q \in S \ FirstIn(R, S, n) : <<r, q>> \in R
    BY <1>1, <1>3, FirstOf, Zenon
  <2> QED
    BY <1>4, <1>5, <2>1, Zenon DEF CutTo, S

\* The first n cuisines by the number of their restaurants (sorted(counts.items()),
\* restaurant_repository.py:87-94, and counts[:ROW_CUISINES], couvert.py:49).
LEMMA FirstByCount ==
    ASSUME NEW c \in Catalogs, NEW n \in Nat, NEW F,
           F = {x \in Counts(c) : Cardinality({y \in Counts(c) : Commoner(y, x)}) < n}
    PROVE  LET T == {x.cuisine : x \in F}
           IN  /\ CutTo(T, Counted(c), n)
               /\ \A j \in T, k \in Counted(c) \ T : CountOf(c, j) >= CountOf(c, k)
<1> DEFINE S == Counted(c)
           X == Counts(c)
           T == {x.cuisine : x \in F}
           tally == [k \in S |-> [cuisine |-> k, count |-> CountOf(c, k)]]
           R == {p \in X \X X : Commoner(p[1], p[2])}
<1>1. IsFiniteSet(S) /\ S \subseteq Nat
  <2>1. S \subseteq Cuisines
    BY DEF Counted, InScope, Catalogs, Docs
  <2> QED
    BY <2>1, FS_Subset, CatalogAssumption
<1>2. \A k \in S : CountOf(c, k) \in Nat
  BY Selected, FS_Subset, FS_CardinalityType DEF CountOf
<1>3. X = {tally[k] : k \in S} /\ tally \in Bijection(S, X)
  <2>1. X = {tally[k] : k \in S}
    BY DEF Counts
  <2>2. tally \in [S -> X]
    BY <2>1
  <2>3. \A j, k \in S : tally[j] = tally[k] => j = k
    OBVIOUS
  <2> QED
    BY <2>1, <2>2, <2>3 DEF Bijection, Injection, IsInjective, Surjection
<1>4. IsFiniteSet(X) /\ Cardinality(X) = Cardinality(S)
  BY <1>1, <1>3, FS_Bijection DEF ExistsBijection
<1>5. \A x \in X : x.cuisine \in S /\ x = tally[x.cuisine] /\ x.count = CountOf(c, x.cuisine)
  BY <1>3
<1> HIDE DEF S, X
<1>6. Orders(R, X)
  <2>1. \A x \in X : x.cuisine \in Nat /\ x.count \in Nat
    BY <1>1, <1>2, <1>5
  <2>2. \A x, y \in X : x.cuisine = y.cuisine => x = y
    BY <1>5
  <2> HIDE DEF tally
  <2> QED
    BY <2>1, <2>2 DEF Orders, Commoner
<1>7. F = FirstIn(R, X, n)
  <2>1. \A x \in X : {y \in X : <<y, x>> \in R} = {y \in X : Commoner(y, x)}
    OBVIOUS
  <2> QED
    BY <2>1 DEF FirstIn, X
<1>8. \A x, y \in X : <<x, y>> \in R => Commoner(x, y)
  OBVIOUS
<1> HIDE DEF R
<1>9. CutTo(F, X, n) /\ \A x \in F, y \in X \ F : Commoner(x, y)
  <2>1. /\ CutTo(FirstIn(R, X, n), X, n)
        /\ \A x \in FirstIn(R, X, n), y \in X \ FirstIn(R, X, n) : <<x, y>> \in R
    BY <1>4, <1>6, FirstOf, Zenon
  <2> QED
    BY <1>7, <1>8, <2>1, Zenon DEF CutTo
\* A cuisine is in T just when its count is in F.
<1>10. T \subseteq S /\ \A k \in S : k \in T <=> tally[k] \in F
  <2>1. F \subseteq X
    BY <1>9 DEF CutTo
  <2>2. \A k \in S : tally[k].cuisine = k
    OBVIOUS
  <2> HIDE DEF tally
  <2> QED
    BY <1>5, <2>1, <2>2
<1>11. IsFiniteSet(T) /\ Cardinality(T) = Cardinality(F)
  <2> DEFINE f == [k \in T |-> tally[k]]
  <2>1. f \in [T -> F]
    BY <1>10
  <2>2. \A j, k \in T : f[j] = f[k] => j = k
    BY <1>10
  <2>3. \A x \in F : x.cuisine \in T /\ f[x.cuisine] = x
    BY <1>5, <1>9 DEF CutTo
  <2>4. f \in Bijection(T, F)
    BY <2>1, <2>2, <2>3 DEF Bijection, Injection, IsInjective, Surjection
  <2>5. IsFiniteSet(T)
    BY <1>1, <1>10, FS_Subset
  <2> QED
    BY <2>4, <2>5, FS_Bijection DEF ExistsBijection
<1>12. CutTo(T, S, n)
  BY <1>4, <1>9, <1>10, <1>11 DEF CutTo
<1>13. ASSUME NEW j \in T, NEW k \in S \ T
       PROVE  CountOf(c, j) >= CountOf(c, k)
  <2>1. j \in S /\ tally[j] \in F /\ tally[k] \in X \ F
    BY <1>3, <1>10, <1>13
  <2>2. Commoner(tally[j], tally[k])
    BY <1>9, <2>1
  <2> QED
    BY <1>2, <2>1, <2>2 DEF Commoner
<1> QED
  BY <1>12, <1>13 DEF X, S

\* A page is the first n restaurants that match (restaurant_repository.py:76-85).
LEMMA PageFirst ==
    ASSUME NEW c, NEW label, NEW term, NEW n \in Nat
    PROVE  /\ CutTo(Page(c, label, term, n), Found(c, label, term), n)
           /\ \A r \in Page(c, label, term, n) :
              \A q \in Found(c, label, term) \ Page(c, label, term, n) : r < q
<1> DEFINE S == Found(c, label, term)
           F == Page(c, label, term, n)
<1>1. S \subseteq Restaurants
  BY Selected
<1>2. F = FirstNamed(S, n)
  BY DEF Page, Foremost, ByName, FirstNamed
<1> HIDE DEF S, F
<1>3. CutTo(F, S, n) /\ \A r \in F, q \in S \ F : r < q
  BY <1>1, <1>2, FirstByName
<1> QED
  BY <1>3 DEF S, F
=============================================================================
