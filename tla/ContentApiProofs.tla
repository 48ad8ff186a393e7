-------------------------- MODULE ContentApiProofs --------------------------
(***************************************************************************)
(* Proofs about ContentApi, for every catalog, history of catalogs, set of *)
(* requests and any number of phones.  ContentInv, inductive, says that an *)
(* answer is made of one recent version for each query its handler awaits, *)
(* and of what a query of the same key found in it; what the endpoints     *)
(* promise then follows from what the bodies are.                          *)
(***************************************************************************)
EXTENDS ContentApi, CatalogQueriesProofs

\* The handlers read the catalog only as CatalogReads lets them, whether a query is
\* cached or not (core/db/cached_restaurant_repository.py:20-59).
LEMMA CatalogSteps ==
    ASSUME [Next]_vars
    PROVE  /\ content' = content /\ ask' = ask
           /\ \/ UNCHANGED catalogVars
              \/ Reads!Tick \/ Reads!Publish
              \/ \E k \in CachedKeys : Reads!Answer(k)
<1>1. ASSUME NEW s \in Screens,
             ShowKept(s) \/ Request(s) \/ ReadDirectly(s) \/ QueryFails(s) \/ Respond(s)
      PROVE  UNCHANGED <<catalogVars, content, ask>>
  BY <1>1 DEF ShowKept, Request, ReadDirectly, QueryFails, Respond
<1>2. ASSUME NEW s \in Screens, ReadCached(s)
      PROVE  UNCHANGED <<content, ask>> /\ \E k \in CachedKeys : Reads!Answer(k)
  BY <1>2 DEF ReadCached, CachedKeys
<1>3. Publish => UNCHANGED <<content, ask>> /\ Reads!Publish
  BY DEF Publish
<1>4. Tick => UNCHANGED <<content, ask>> /\ Reads!Tick
  BY DEF Tick
<1>5. UNCHANGED vars => UNCHANGED <<catalogVars, content, ask>>
  BY DEF vars
<1> QED
  BY <1>1, <1>2, <1>3, <1>4, <1>5 DEF Next

\* The content endpoints use the catalog as CatalogReads, which the cache implements,
\* lets them.
THEOREM ReadsTheCatalog == Spec => Reads!Spec
<1>1. Init => Reads!Init
  BY DEF Init
<1>2. [Next]_vars => [Reads!Next]_(Reads!vars)
  BY CatalogSteps DEF Reads!Next, Reads!vars, catalogVars
<1> QED
  BY <1>1, <1>2, PTL DEF Spec, Reads!Spec

-----------------------------------------------------------------------------
\* The times and versions of the catalog are numbers.
LEMMA CatalogTyped ==
    ASSUME TypeOK
    PROVE  /\ now \in Nat /\ db \in 0..MaxVersion /\ db \in Nat /\ MaxVersion \in Nat
           /\ \A v \in 0..MaxVersion : v \in Nat /\ since[v] \in Nat
           /\ \A v \in 0..MaxVersion : v < db => v + 1 \in 0..MaxVersion
<1>1. /\ MaxVersion \in Nat /\ MaxTime \in Nat /\ now \in 0..MaxTime /\ db \in 0..MaxVersion
      /\ since \in [0..MaxVersion -> 0..MaxTime]
  BY ContentAssumption DEF TypeOK
<1>2. \A v \in 0..MaxVersion : v \in Nat /\ since[v] \in Nat
  BY <1>1
<1> QED
  BY <1>1, <1>2

\* A version that was current at t or later stays so.
LEMMA VersionsStand ==
    ASSUME TypeOK, [Next]_vars, NEW v \in 0..MaxVersion, NEW t \in Int, t <= now,
           CurrentSince(v, t)
    PROVE  v <= db' /\ (v < db' => since'[v + 1] >= t)
<1> USE ContentAssumption
<1>1. CASE db' = db /\ since' = since
  BY <1>1 DEF CurrentSince
<1>2. CASE Reads!Publish
  <2>1. /\ db' = db + 1 /\ since'[db + 1] = now
        /\ \A w \in 0..MaxVersion : w # db + 1 => since'[w] = since[w]
    BY <1>2 DEF Reads!Publish, TypeOK
  <2> QED
    BY <2>1, CatalogTyped DEF CurrentSince
<1>3. UNCHANGED catalogVars \/ Reads!Tick \/ (\E k \in CachedKeys : Reads!Answer(k))
         => db' = db /\ since' = since
  BY DEF catalogVars, Reads!Tick, Reads!Answer
<1> QED
  BY <1>1, <1>2, <1>3, CatalogSteps

\* What a handler makes of given versions does not change, as no version does.
LEMMA BodyStands ==
    ASSUME content' = content, NEW g, NEW a \in Asks
    PROVE  Body(g, a)' = Body(g, a)
<1>1. \A k : Seen(g, k)' = Seen(g, k)
  BY DEF Seen
<1>2. \A k : ListFor(g, k)' = ListFor(g, k) /\ TotalFor(g, k)' = TotalFor(g, k)
  BY <1>1 DEF ListFor, TotalFor
<1>3. TopCuisines(g)' = TopCuisines(g)
  BY <1>1 DEF TopCuisines
<1>4. Rows(g)' = Rows(g)
  BY <1>2, <1>3 DEF Rows, Row
<1>5. \A n : Leading(g, n)' = Leading(g, n)
  BY <1>1 DEF Leading, Foremost
<1>6. Filler(g, a)' = Filler(g, a) /\ NeedsFiller(g, a)' = NeedsFiller(g, a)
  BY <1>2, <1>5 DEF Filler, NeedsFiller, Foremost, ByName
<1>7. CASE a.endpoint = "cuisines"
  BY <1>1, <1>7 DEF Body
<1>8. CASE a.endpoint \in {"home", "award", "restaurant"}
  BY <1>1, <1>5, <1>8 DEF Body
<1>9. CASE a.endpoint = "awards"
  BY <1>1, <1>9 DEF Body
<1>10. CASE a.endpoint = "discover"
  BY <1>5, <1>6, <1>10 DEF Body
<1>11. CASE a.endpoint = "restaurants" /\ IsFiltered(a)
  BY <1>2, <1>11 DEF Body
<1>12. CASE a.endpoint = "restaurants" /\ ~IsFiltered(a)
  BY <1>2, <1>4, <1>12 DEF Body
<1> QED
  BY <1>7, <1>8, <1>9, <1>10, <1>11, <1>12, ContentAssumption DEF AskTypes

\* An answer stays made of recent versions, whatever happens to the catalog after it.
LEMMA MadeStands ==
    ASSUME TypeOK, [Next]_vars, NEW a \in Asks, NEW body, NEW t \in Int, t <= now, NEW from,
           Made(a, body, t, from)
    PROVE  Made(a, body, t, from)'
<1>1. content' = content
  BY CatalogSteps
<1>2. PICK ver \in [AwaitedBy(a) -> {v \in 0..MaxVersion : CurrentSince(v, t)}] :
          body = Body([q \in AwaitedBy(a) |-> [of |-> from[q], ver |-> ver[q]]], a)
  BY DEF Made
<1>3. body = Body([q \in AwaitedBy(a) |-> [of |-> from[q], ver |-> ver[q]]], a)'
  BY <1>1, <1>2, BodyStands
<1>4. \A v \in 0..MaxVersion : CurrentSince(v, t) => CurrentSince(v, t)'
  BY VersionsStand DEF CurrentSince
<1>5. ver \in [AwaitedBy(a) -> {v \in 0..MaxVersion : CurrentSince(v, t)'}]
  BY <1>4
<1>6. /\ from \in [AwaitedBy(a) -> Queries]
      /\ \A q \in AwaitedBy(a) : Fits(from[q], q)
  BY DEF Made
<1> QED
  BY <1>3, <1>5, <1>6 DEF Made

-----------------------------------------------------------------------------
\* The handlers await queries of the repository.
LEMMA AwaitedAreQueries ==
    ASSUME NEW a \in Asks
    PROVE  AwaitedBy(a) \subseteq Queries
<1> USE ContentAssumption, CatalogAssumption
<1>1. CountsQuery \in Queries /\ AwardsQuery \in Queries /\ GetQuery \in Queries
  BY DEF Queries, CachedQueries
<1>2. \A n \in Limits : SearchQuery(None, None, n) \in Queries
  BY DEF Queries, CachedQueries
<1>3. \A l \in Labels \union {None}, t \in Terms \union {None}, n \in Limits :
          SearchQuery(l, t, n) \in Queries /\ CountQuery(l, t) \in Queries
  BY DEF Queries, CachedQueries
<1>4. \A k \in Cuisines : RowQuery(k) \in Queries
  BY DEF Queries, CachedQueries, RowQuery
<1>5. CountQuery(None, None) \in Queries
  BY DEF Queries, CachedQueries
<1>6. CASE a.endpoint \in {"cuisines", "home", "awards", "award", "restaurant"}
  BY <1>1, <1>6 DEF AwaitedBy
<1>7. CASE a.endpoint = "discover"
  <2>1. a.limit \in Limits
    BY <1>7 DEF AskTypes
  <2> QED
    BY <1>1, <1>2, <1>7, <2>1 DEF AwaitedBy, FillerQuery
<1>8. CASE a.endpoint = "restaurants" /\ IsFiltered(a)
  <2>1. a.limit \in Limits /\ a.label \in Labels \union {None} /\ a.term \in Terms \union {None}
    BY <1>8 DEF AskTypes
  <2> QED
    BY <1>3, <1>8, <2>1 DEF AwaitedBy
<1>9. CASE a.endpoint = "restaurants" /\ ~IsFiltered(a)
  BY <1>1, <1>4, <1>5, <1>9 DEF AwaitedBy
<1> QED
  BY <1>6, <1>7, <1>8, <1>9 DEF AskTypes

\* A browse has rows of cuisines only.
LEMMA TopAreCuisines ==
    ASSUME NEW g, Seen(g, CountsQuery) \in Catalogs
    PROVE  TopCuisines(g) \subseteq Cuisines
<1> DEFINE c == Seen(g, CountsQuery)
<1>1. \A x \in Counts(c) : x.cuisine \in Counted(c)
  BY DEF Counts
<1>2. Counted(c) \subseteq Cuisines
  BY DEF Counted, InScope, Catalogs, Docs
<1> QED
  BY <1>1, <1>2 DEF TopCuisines, Foremost

\* What a handler waits for is among what it may await (api/routers/couvert.py:48-52,
\* 104-109, 116, 138-141).
LEMMA WaitingAreQueries ==
    ASSUME TypeOK, NEW a \in Asks, NEW g \in [Queries -> Answers \union {None}]
    PROVE  Waiting(g, a) \subseteq AwaitedBy(a)
<1> USE ContentAssumption
<1>1. CASE a.endpoint \in {"cuisines", "home", "awards", "award", "restaurant"}
  BY <1>1 DEF Waiting, AwaitedBy, Unread
<1>2. CASE a.endpoint = "discover"
  BY <1>2 DEF Waiting, AwaitedBy, Unread, Then
<1>3. CASE a.endpoint = "restaurants" /\ IsFiltered(a)
  BY <1>3 DEF Waiting, AwaitedBy, Unread, Then
<1>4. CASE a.endpoint = "restaurants" /\ ~IsFiltered(a)
  <2>1. g[CountsQuery] # None => TopCuisines(g) \subseteq Cuisines
    <3> SUFFICES ASSUME g[CountsQuery] # None PROVE Seen(g, CountsQuery) \in Catalogs
      BY TopAreCuisines
    <3>1. CountsQuery \in Queries
      BY DEF Queries, CachedQueries
    <3> QED
      BY <3>1 DEF Answers, Seen, TypeOK
  <2> QED
    BY <1>4, <2>1 DEF Waiting, AwaitedBy, Unread, Then
<1> QED
  BY <1>1, <1>2, <1>3, <1>4 DEF AskTypes

\* A handler that awaits nothing more has made its answer of what it has read: what
\* it has not read it does not use (api/routers/couvert.py:43-60, 94-116, 131-143).
LEMMA MadeOfReads ==
    ASSUME TypeOK, NEW g \in [Queries -> Answers \union {None}], NEW a \in Asks,
           NEW t \in Int,
           \A k \in Queries : g[k] # None => Fits(g[k].of, k) /\ CurrentSince(g[k].ver, t),
           Waiting(g, a) = {}
    PROVE  Made(a, Body(g, a), t, Origins(g, a))
<1> USE ContentAssumption
<1> DEFINE from == Origins(g, a)
           ver == [k \in AwaitedBy(a) |-> IF g[k] # None THEN g[k].ver ELSE db]
           h == [q \in AwaitedBy(a) |-> [of |-> from[q], ver |-> ver[q]]]
<1>1. AwaitedBy(a) \subseteq Queries
  BY AwaitedAreQueries
<1>2. ver \in [AwaitedBy(a) -> {v \in 0..MaxVersion : CurrentSince(v, t)}]
  <2>1. db \in 0..MaxVersion /\ CurrentSince(db, t)
    BY DEF TypeOK, CurrentSince
  <2> QED
    BY <1>1, <2>1 DEF Answers
<1>3. /\ from \in [AwaitedBy(a) -> Queries]
       /\ \A q \in AwaitedBy(a) : Fits(from[q], q)
  BY <1>1 DEF Origins, Fits, Answers
<1>4. \A k \in AwaitedBy(a) : g[k] # None => h[k] = g[k]
  BY <1>1 DEF Origins, Answers
<1>5. \A k \in AwaitedBy(a) : g[k] # None =>
          /\ Seen(h, k) = Seen(g, k)
          /\ ListFor(h, k) = ListFor(g, k) /\ TotalFor(h, k) = TotalFor(g, k)
  <2> SUFFICES ASSUME NEW k \in AwaitedBy(a), g[k] # None
               PROVE  /\ Seen(h, k) = Seen(g, k)
                      /\ ListFor(h, k) = ListFor(g, k) /\ TotalFor(h, k) = TotalFor(g, k)
    OBVIOUS
  <2>1. h[k] = g[k]
    BY <1>4
  <2> HIDE DEF h
  <2>2. Seen(h, k) = Seen(g, k)
    BY <2>1 DEF Seen
  <2> QED
    BY <2>1, <2>2 DEF ListFor, TotalFor
<1>6. \A k \in Queries : g[k] # None => Seen(g, k) \in Catalogs
  BY DEF Seen, TypeOK, Answers
<1>7. Body(h, a) = Body(g, a) => Made(a, Body(g, a), t, Origins(g, a))
  BY <1>2, <1>3 DEF Made
<1> HIDE DEF h, ver, from
<1>8. \A k \in AwaitedBy(a) : k \notin Unread(g, AwaitedBy(a)) => g[k] # None
  BY DEF Unread
<1>9. \A n : AwardsQuery \in AwaitedBy(a) /\ g[AwardsQuery] # None => Leading(h, n) = Leading(g, n)
  BY <1>5 DEF Leading, Foremost
<1>10. CASE a.endpoint = "cuisines"
  <2>1. Seen(h, CountsQuery) = Seen(g, CountsQuery)
    BY <1>5, <1>10 DEF AwaitedBy, Waiting, Unread
  <2>2. Body(h, a) = Body(g, a)
    BY <1>10, <2>1 DEF Body
  <2> QED
    BY <1>7, <2>2
<1>11. CASE a.endpoint \in {"home", "awards", "award"}
  <2>1. AwardsQuery \in AwaitedBy(a) /\ g[AwardsQuery] # None
    BY <1>11 DEF AwaitedBy, Waiting, Unread
  <2>2. Seen(h, AwardsQuery) = Seen(g, AwardsQuery) /\ Leading(h, HomeSize) = Leading(g, HomeSize)
    BY <1>5, <1>9, <2>1
  <2>3. Body(h, a) = Body(g, a)
    BY <1>11, <2>2 DEF Body
  <2> QED
    BY <1>7, <2>3
<1>12. CASE a.endpoint = "restaurant"
  <2>1. Seen(h, GetQuery) = Seen(g, GetQuery)
    BY <1>5, <1>12 DEF AwaitedBy, Waiting, Unread
  <2>2. Body(h, a) = Body(g, a)
    BY <1>12, <2>1 DEF Body
  <2> QED
    BY <1>7, <2>2
<1>13. CASE a.endpoint = "discover"
  <2>1. AwardsQuery \in AwaitedBy(a) /\ g[AwardsQuery] # None
    BY <1>13 DEF AwaitedBy, Waiting, Unread, Then
  <2>2. Leading(h, a.limit) = Leading(g, a.limit)
    BY <1>9, <2>1
  <2>3. NeedsFiller(h, a) = NeedsFiller(g, a)
    BY <2>2 DEF NeedsFiller
  <2>4. NeedsFiller(g, a) => Filler(h, a) = Filler(g, a)
    <3>1. NeedsFiller(g, a) => FillerQuery(a) \in AwaitedBy(a) /\ g[FillerQuery(a)] # None
      BY <1>13 DEF AwaitedBy, Waiting, Unread, Then
    <3>2. NeedsFiller(g, a) => ListFor(h, FillerQuery(a)) = ListFor(g, FillerQuery(a))
      BY <1>5, <3>1
    <3> QED
      BY <2>2, <3>2 DEF Filler, Foremost, ByName
  <2>5. Body(h, a) = Body(g, a)
    BY <1>13, <2>2, <2>3, <2>4 DEF Body
  <2> QED
    BY <1>7, <2>5
<1>14. CASE a.endpoint = "restaurants" /\ IsFiltered(a)
  <2> DEFINE search == SearchQuery(a.label, a.term, a.limit)
             count == CountQuery(a.label, a.term)
  <2>1. AwaitedBy(a) = {search, count} /\ Waiting(g, a) = Then(g, {search}, Unread(g, {count}))
    BY <1>14 DEF AwaitedBy, Waiting
  <2>2. g[search] # None /\ g[count] # None
    BY <2>1 DEF Then, Unread
  <2>3. ListFor(h, search) = ListFor(g, search) /\ TotalFor(h, count) = TotalFor(g, count)
    BY <1>5, <2>1, <2>2
  <2>4. Body(h, a) = Body(g, a)
    BY <1>14, <2>3 DEF Body
  <2> QED
    BY <1>7, <2>4
<1>15. CASE a.endpoint = "restaurants" /\ ~IsFiltered(a)
  <2> DEFINE count == CountQuery(None, None)
  <2>1. /\ AwaitedBy(a) = {CountsQuery, count} \union {RowQuery(k) : k \in Cuisines}
        /\ Waiting(g, a) = Then(g, {CountsQuery},
                                Then(g, {RowQuery(k) : k \in TopCuisines(g)}, Unread(g, {count})))
    BY <1>15 DEF AwaitedBy, Waiting
  <2>2. /\ g[CountsQuery] # None /\ g[count] # None
        /\ \A k \in TopCuisines(g) : g[RowQuery(k)] # None
    BY <2>1 DEF Then, Unread
  <2>3. TopCuisines(g) \subseteq Cuisines
    BY <1>6, <1>1, <2>1, <2>2, TopAreCuisines
  <2>4. /\ Seen(h, CountsQuery) = Seen(g, CountsQuery) /\ TotalFor(h, count) = TotalFor(g, count)
        /\ \A k \in TopCuisines(g) : ListFor(h, RowQuery(k)) = ListFor(g, RowQuery(k))
    BY <1>5, <2>1, <2>2, <2>3
  <2>5. TopCuisines(h) = TopCuisines(g)
    BY <2>4 DEF TopCuisines
  <2>6. \A k \in TopCuisines(g) : Row(h, k) = Row(g, k)
    BY <2>4 DEF Row
  <2>7. Rows(h) = Rows(g)
    <3>1. {j \in TopCuisines(h) : Row(h, j) # {}} = {j \in TopCuisines(g) : Row(g, j) # {}}
      BY <2>5, <2>6
    <3> QED
      BY <2>6, <3>1 DEF Rows
  <2>8. Body(h, a) = Body(g, a)
    BY <1>15, <2>4, <2>7 DEF Body
  <2> QED
    BY <1>7, <2>8
<1> QED
  BY <1>10, <1>11, <1>12, <1>13, <1>14, <1>15 DEF AskTypes

-----------------------------------------------------------------------------
\* What is made of recent versions is made of less recent ones.
LEMMA MadeEarlier ==
    ASSUME TypeOK, NEW a, NEW body, NEW t \in Int, NEW from, Made(a, body, t, from),
           NEW u \in Int, u <= t
    PROVE  Made(a, body, u, from)
<1> USE ContentAssumption
<1>1. \A v \in 0..MaxVersion : CurrentSince(v, t) => CurrentSince(v, u)
  BY CatalogTyped DEF CurrentSince
<1>2. PICK ver \in [AwaitedBy(a) -> {v \in 0..MaxVersion : CurrentSince(v, t)}] :
          body = Body([q \in AwaitedBy(a) |-> [of |-> from[q], ver |-> ver[q]]], a)
  BY DEF Made
<1>3. ver \in [AwaitedBy(a) -> {v \in 0..MaxVersion : CurrentSince(v, u)}]
  BY <1>1
<1> QED
  BY <1>2, <1>3 DEF Made

\* A query answered now, through the cache or not, saw a version current at most
\* Staleness ago (core/cache.py:42-54).
LEMMA AnswersAreRecent ==
    ASSUME TypeOK, NEW k \in CachedKeys, Reads!Answer(k)
    PROVE  served'[k] \in 0..MaxVersion /\ CurrentSince(served'[k], now - Staleness)
<1> USE ContentAssumption
<1>1. PICK v \in served[k]..db :
          Reads!Behind(v) <= Staleness /\ served' = [served EXCEPT ![k] = v]
  BY DEF Reads!Answer
<1>2. v \in 0..MaxVersion /\ v <= db
  BY <1>1 DEF TypeOK
<1>3. v < db => now - since[v + 1] <= Staleness
  BY <1>1 DEF Reads!Behind
<1>4. served'[k] = v
  BY <1>1 DEF TypeOK
<1>5. CurrentSince(v, now - Staleness)
  BY <1>2, <1>3, CatalogTyped DEF CurrentSince
<1> QED
  BY <1>2, <1>4, <1>5

\* Every step keeps the types.
LEMMA TypeStep ==
    ASSUME TypeOK, [Next]_vars
    PROVE  TypeOK'
<1> USE ContentAssumption
<1>1. content' = content /\ ask' = ask
  BY CatalogSteps
<1>2. /\ now' \in 0..MaxTime /\ db' \in 0..MaxVersion
      /\ since' \in [0..MaxVersion -> 0..MaxTime]
      /\ served' \in [CachedKeys -> 0..MaxVersion]
  <2>1. CASE UNCHANGED catalogVars
    BY <2>1 DEF catalogVars, TypeOK
  <2>2. CASE Reads!Tick
    BY <2>2 DEF Reads!Tick, TypeOK
  <2>3. CASE Reads!Publish
    <3>1. db + 1 \in 0..MaxVersion
      BY <2>3, CatalogTyped DEF Reads!Publish
    <3> QED
      BY <2>3, <3>1 DEF Reads!Publish, TypeOK
  <2>4. CASE \E k \in CachedKeys : Reads!Answer(k)
    BY <2>4, AnswersAreRecent DEF Reads!Answer, TypeOK
  <2> QED
    BY <2>1, <2>2, <2>3, <2>4, CatalogSteps
<1>3. ASSUME NEW s \in Screens, EndRequest(s)
      PROVE  /\ sent' \in [Screens -> 0..MaxTime \union {None}]
             /\ got' \in [Screens -> [Queries -> Answers \union {None}]]
  BY <1>3 DEF EndRequest, Unasked, TypeOK
<1>4. ASSUME NEW s \in Screens, NEW k \in Queries, NEW answer \in Answers,
             Learn(s, k, answer)
      PROVE  got' \in [Screens -> [Queries -> Answers \union {None}]]
  BY <1>4 DEF Learn, TypeOK
<1>5. /\ sent' \in [Screens -> 0..MaxTime \union {None}]
      /\ got' \in [Screens -> [Queries -> Answers \union {None}]]
  <2>1. CASE \E s \in Screens : QueryFails(s) \/ Respond(s)
    BY <1>3, <2>1 DEF QueryFails, Respond
  <2>2. CASE \E s \in Screens : Request(s)
    BY <2>2 DEF Request, TypeOK
  <2>3. CASE \E s \in Screens : ReadCached(s)
    <3> PICK s \in Screens : ReadCached(s)
      BY <2>3
    <3>1. PICK q \in CachedQueries : \E p \in SameKey[q] :
              /\ Reads!Answer(KeyOf(q))
              /\ Learn(s, q, [of |-> p, ver |-> served'[KeyOf(q)]])
      BY DEF ReadCached
    <3> PICK p \in SameKey[q] : /\ Reads!Answer(KeyOf(q))
                                /\ Learn(s, q, [of |-> p, ver |-> served'[KeyOf(q)]])
      BY <3>1
    <3>2. q \in Queries /\ [of |-> p, ver |-> served'[KeyOf(q)]] \in Answers
      BY <3>1, AnswersAreRecent DEF Queries, Answers, SameKey, CachedKeys
    <3> QED
      BY <1>4, <3>1, <3>2 DEF ReadCached, TypeOK
  <2>4. CASE \E s \in Screens : ReadDirectly(s)
    <3> PICK s \in Screens : ReadDirectly(s)
      BY <2>4
    <3>1. ask[s] \in Asks /\ got[s] \in [Queries -> Answers \union {None}]
      BY DEF TypeOK
    <3>2. PICK k \in Waiting(got[s], ask[s]) : Learn(s, k, [of |-> k, ver |-> db])
      BY DEF ReadDirectly
    <3>3. k \in Queries
      BY <3>1, <3>2, WaitingAreQueries, AwaitedAreQueries
    <3>4. [of |-> k, ver |-> db] \in Answers
      BY <3>3 DEF TypeOK, Answers
    <3> QED
      BY <1>4, <3>2, <3>3, <3>4 DEF ReadDirectly, TypeOK
  <2>5. CASE (\E s \in Screens : ShowKept(s)) \/ Publish \/ Tick \/ UNCHANGED vars
    BY <2>5 DEF ShowKept, Publish, Tick, vars, TypeOK
  <2> QED
    BY <2>1, <2>2, <2>3, <2>4, <2>5 DEF Next
\* kept and shown remain functions on the screens.
<1>6. kept' = [s \in Screens |-> kept'[s]] /\ shown' = [s \in Screens |-> shown'[s]]
  <2>1. CASE \E s \in Screens : ShowKept(s)
    BY <2>1 DEF ShowKept, Show, TypeOK
  <2>2. CASE \E s \in Screens : Respond(s)
    BY <2>2 DEF Respond, Show, TypeOK
  <2>3. CASE \/ \E s \in Screens : \/ Request(s) \/ ReadCached(s) \/ ReadDirectly(s)
                                   \/ QueryFails(s)
             \/ Publish \/ Tick \/ UNCHANGED vars
    BY <2>3 DEF Request, ReadCached, ReadDirectly, QueryFails, Publish, Tick, vars, TypeOK
  <2> QED
    BY <2>1, <2>2, <2>3 DEF Next
<1> QED
  BY <1>1, <1>2, <1>5, <1>6 DEF TypeOK

\* What the handlers have read stays recent, and what they read is.
LEMMA RequestStep ==
    ASSUME ContentInv, [Next]_vars
    PROVE  RequestInv'
<1> USE ContentAssumption
<1>1. TypeOK /\ TypeOK' /\ RequestInv
  BY TypeStep DEF ContentInv
<1>2. now \in Int /\ now' \in Int /\ now <= now'
  BY <1>1, CatalogSteps DEF TypeOK, catalogVars, Reads!Tick, Reads!Publish, Reads!Answer
<1>3. \A v \in 0..MaxVersion, t \in Int :
          t <= now /\ CurrentSince(v, t) => v <= db' /\ (v < db' => since'[v + 1] >= t)
  BY <1>1, VersionsStand
\* Screen u is where it was.
<1> DEFINE Sound(u) ==
        /\ sent'[u] # None => sent'[u] <= now'
        /\ \A k \in Queries : got'[u][k] # None =>
               /\ sent'[u] # None
               /\ Fits(got'[u][k].of, k)
               /\ got'[u][k].ver <= db'
               /\ got'[u][k].ver < db' => since'[got'[u][k].ver + 1] >= sent'[u] - Staleness
<1>4. ASSUME NEW u \in Screens, sent'[u] = sent[u], got'[u] = got[u]
      PROVE  Sound(u)
  <2>1. sent[u] # None => sent[u] \in Int /\ sent[u] <= now
    BY <1>1 DEF TypeOK, RequestInv
  <2>2. ASSUME NEW k \in Queries, got[u][k] # None
        PROVE  /\ sent[u] # None
               /\ Fits(got[u][k].of, k)
               /\ got[u][k].ver <= db'
               /\ got[u][k].ver < db' => since'[got[u][k].ver + 1] >= sent[u] - Staleness
    <3>1. /\ sent[u] # None /\ Fits(got[u][k].of, k)
          /\ CurrentSince(got[u][k].ver, sent[u] - Staleness)
      BY <1>1, <2>2 DEF RequestInv
    <3>2. got[u][k].ver \in 0..MaxVersion
      BY <1>1, <2>2 DEF TypeOK, Answers
    <3>3. sent[u] - Staleness \in Int /\ sent[u] - Staleness <= now
      BY <1>2, <2>1, <3>1
    <3> QED
      BY <1>3, <3>1, <3>2, <3>3
  <2> QED
    BY <1>2, <1>4, <2>1, <2>2
<1>5. ASSUME NEW s \in Screens, NEW u \in Screens, u # s,
             EndRequest(s) \/ Request(s) \/ ReadCached(s) \/ ReadDirectly(s)
      PROVE  sent'[u] = sent[u] /\ got'[u] = got[u]
  BY <1>1, <1>5 DEF EndRequest, Request, ReadCached, ReadDirectly, Learn, TypeOK
<1>6. ASSUME NEW s \in Screens, EndRequest(s)
      PROVE  Sound(s)
  BY <1>1, <1>6 DEF EndRequest, Unasked, TypeOK
<1>7. ASSUME NEW s \in Screens, Request(s)
      PROVE  Sound(s)
  <2>1. sent[s] = None /\ sent'[s] = now /\ got' = got /\ now' = now
    BY <1>1, <1>7 DEF Request, catalogVars, TypeOK
  <2>2. \A k \in Queries : got[s][k] = None
    BY <1>1, <2>1 DEF RequestInv
  <2> QED
    BY <1>2, <2>1, <2>2
\* Query k is answered with what a query p of its key found in a version v, current at
\* most Staleness ago.
<1>8. ASSUME NEW s \in Screens, NEW k \in Queries, NEW v \in 0..MaxVersion, NEW p \in Queries,
             Fits(p, k), sent[s] # None, Learn(s, k, [of |-> p, ver |-> v]),
             sent' = sent, now' = now, db' = db, since' = since,
             CurrentSince(v, now - Staleness)
      PROVE  Sound(s)
  <2>1. sent[s] \in Int /\ sent[s] <= now /\ Staleness \in Int
    BY <1>1, <1>8 DEF TypeOK, RequestInv
  <2>2. CurrentSince(v, sent[s] - Staleness)
    BY <1>1, <1>2, <1>8, <2>1, CatalogTyped DEF CurrentSince
  <2> DEFINE answer == [of |-> p, ver |-> v]
  <2>3. /\ got'[s] = [got[s] EXCEPT ![k] = answer]
        /\ got[s] \in [Queries -> Answers \union {None}]
    BY <1>1, <1>8 DEF Learn, TypeOK
  <2>4. \A j \in Queries : got[s][j] # None =>
            Fits(got[s][j].of, j) /\ CurrentSince(got[s][j].ver, sent[s] - Staleness)
    BY <1>1 DEF RequestInv
  <2>5. Fits(answer.of, k) /\ CurrentSince(answer.ver, sent[s] - Staleness)
    BY <1>8, <2>2
  <2> HIDE DEF answer
  <2>6. \A j \in Queries : got'[s][j] = IF j = k THEN answer ELSE got[s][j]
    BY <2>3
  <2>7. \A j \in Queries : got'[s][j] # None =>
            Fits(got'[s][j].of, j) /\ CurrentSince(got'[s][j].ver, sent[s] - Staleness)
    BY <2>4, <2>5, <2>6
  <2> QED
    BY <1>8, <2>1, <2>7 DEF CurrentSince
<1>9. ASSUME NEW s \in Screens, ReadCached(s)
      PROVE  Sound(s)
  <2>1. PICK q \in CachedQueries : \E p \in SameKey[q] :
            /\ Reads!Answer(KeyOf(q))
            /\ Learn(s, q, [of |-> p, ver |-> served'[KeyOf(q)]])
    BY <1>9 DEF ReadCached
  <2> DEFINE key == KeyOf(q)
  <2>2. PICK p \in SameKey[q] : Reads!Answer(key) /\ Learn(s, q, [of |-> p, ver |-> served'[key]])
    BY <2>1
  <2>3. q \in Queries /\ p \in Queries /\ Fits(p, q) /\ key \in CachedKeys
    BY DEF Queries, SameKey, Fits, CachedKeys
  <2> HIDE DEF key
  <2>4. served'[key] \in 0..MaxVersion /\ CurrentSince(served'[key], now - Staleness)
    BY <1>1, <2>2, <2>3, AnswersAreRecent
  <2>5. sent[s] # None /\ sent' = sent /\ now' = now /\ db' = db /\ since' = since
    BY <1>9, <2>2 DEF ReadCached, Reads!Answer
  <2> QED
    BY <1>8, <2>2, <2>3, <2>4, <2>5
<1>10. ASSUME NEW s \in Screens, ReadDirectly(s)
       PROVE  Sound(s)
  <2>1. PICK k \in Waiting(got[s], ask[s]) : Learn(s, k, [of |-> k, ver |-> db])
    BY <1>10 DEF ReadDirectly
  <2>2. k \in Queries /\ Fits(k, k)
    BY <1>1, <2>1, WaitingAreQueries, AwaitedAreQueries DEF TypeOK, Fits
  <2>3. db \in 0..MaxVersion /\ CurrentSince(db, now - Staleness)
    BY <1>1 DEF TypeOK, CurrentSince
  <2>4. sent[s] # None /\ sent' = sent /\ now' = now /\ db' = db /\ since' = since
    BY <1>10 DEF ReadDirectly, catalogVars
  <2> QED
    BY <1>8, <2>1, <2>2, <2>3, <2>4
<1>11. (\E s \in Screens : ShowKept(s)) \/ Publish \/ Tick \/ UNCHANGED vars
          => sent' = sent /\ got' = got
  BY DEF ShowKept, Publish, Tick, vars
<1>12. ASSUME NEW u \in Screens
       PROVE  Sound(u)
  BY <1>4, <1>5, <1>6, <1>7, <1>9, <1>10, <1>11 DEF Next, QueryFails, Respond
<1> QED
  BY <1>12 DEF RequestInv, CurrentSince

\* What a phone keeps or shows is made of versions that stay as recent as they were; a
\* copy it shows is at most MaxAge old (api/cache_headers.py:27-45).
LEMMA ScreensStep ==
    ASSUME ContentInv, [Next]_vars
    PROVE  KeptInv' /\ ShownInv'
<1> USE ContentAssumption
<1>1. TypeOK /\ RequestInv /\ KeptInv /\ ShownInv
  BY DEF ContentInv
<1>2. now \in Nat /\ now' \in Nat /\ now <= now'
  BY <1>1, CatalogSteps DEF TypeOK, catalogVars, Reads!Tick, Reads!Publish, Reads!Answer
<1>3. /\ ask' = ask /\ ask \in [Screens -> Asks]
      /\ kept = [s \in Screens |-> kept[s]] /\ shown = [s \in Screens |-> shown[s]]
  BY <1>1, CatalogSteps DEF TypeOK
<1>4. \A a \in Asks, t \in Int : \A body, from :
          t <= now /\ Made(a, body, t, from) => Made(a, body, t, from)'
  BY <1>1, MadeStands
<1> DEFINE Keeps(u) == kept[u] # None =>
               /\ kept[u].at \in 0..now
               /\ Made(ask[u], kept[u].body, kept[u].at - Staleness, kept[u].from)
           Shows(u) == shown[u] # None =>
               /\ shown[u].at \in 0..now
               /\ Made(ask[u], shown[u].body, shown[u].at - (MaxAge + Staleness), shown[u].from)
<1>5. ASSUME NEW u \in Screens, kept'[u] = kept[u]
      PROVE  Keeps(u)'
  <2> SUFFICES ASSUME kept[u] # None
               PROVE  /\ kept[u].at \in 0..now'
                      /\ Made(ask[u], kept[u].body, kept[u].at - Staleness, kept[u].from)'
    BY <1>3, <1>5
  <2>1. /\ kept[u].at \in 0..now
        /\ Made(ask[u], kept[u].body, kept[u].at - Staleness, kept[u].from)
    BY <1>1 DEF KeptInv
  <2>2. kept[u].at - Staleness \in Int /\ kept[u].at - Staleness <= now
    BY <1>2, <2>1
  <2> QED
    BY <1>2, <1>3, <1>4, <1>5, <2>1, <2>2
<1>6. ASSUME NEW u \in Screens, shown'[u] = shown[u]
      PROVE  Shows(u)'
  <2> SUFFICES ASSUME shown[u] # None
               PROVE  /\ shown[u].at \in 0..now'
                      /\ Made(ask[u], shown[u].body, shown[u].at - (MaxAge + Staleness), shown[u].from)'
    BY <1>3, <1>6
  <2>1. /\ shown[u].at \in 0..now
        /\ Made(ask[u], shown[u].body, shown[u].at - (MaxAge + Staleness), shown[u].from)
    BY <1>1 DEF ShownInv
  <2>2. shown[u].at - (MaxAge + Staleness) \in Int /\ shown[u].at - (MaxAge + Staleness) <= now
    BY <1>2, <2>1
  <2> QED
    BY <1>2, <1>3, <1>4, <1>6, <2>1, <2>2
\* A screen shows an answer that was made of versions current at most Staleness before t.
<1>7. ASSUME NEW s \in Screens, NEW body, NEW t \in 0..now, NEW u \in 0..t, NEW from,
             Made(ask[s], body, u - Staleness, from), t - u <= MaxAge, shown'[s] # None =>
             shown'[s] = [body |-> body, at |-> t, from |-> from]
      PROVE  Shows(s)'
  <2>1. /\ u - Staleness \in Int /\ t - (MaxAge + Staleness) \in Int
        /\ t - (MaxAge + Staleness) <= u - Staleness /\ t - (MaxAge + Staleness) <= now
    BY <1>2, <1>7
  <2>2. Made(ask[s], body, t - (MaxAge + Staleness), from)
    BY <1>1, <1>7, <2>1, MadeEarlier
  <2>3. Made(ask[s], body, t - (MaxAge + Staleness), from)'
    BY <1>3, <1>4, <2>1, <2>2
  <2>4. t \in 0..now'
    BY <1>2
  <2> QED
    BY <1>3, <1>7, <2>3, <2>4
\* A phone keeps an answer under the time its request was sent.
<1>8. ASSUME NEW s \in Screens, NEW body, NEW t \in 0..now, NEW from,
             Made(ask[s], body, t - Staleness, from),
             kept'[s] # None => kept'[s] = [body |-> body, at |-> t, from |-> from]
      PROVE  Keeps(s)'
  <2>1. t - Staleness \in Int /\ t - Staleness <= now /\ t \in 0..now'
    BY <1>2
  <2>2. Made(ask[s], body, t - Staleness, from)'
    BY <1>3, <1>4, <1>8, <2>1
  <2> QED
    BY <1>3, <1>8, <2>1, <2>2
<1>9. ASSUME NEW s \in Screens, NEW u \in Screens, ShowKept(s)
      PROVE  Keeps(u)' /\ Shows(u)'
  <2>1. kept'[u] = kept[u]
    BY <1>9 DEF ShowKept
  <2>2. CASE shown'[u] = shown[u]
    BY <1>5, <1>6, <2>1, <2>2
  <2>3. CASE shown'[u] # shown[u]
    <3>1. u = s /\ shown'[s] = [body |-> kept[s].body, at |-> now, from |-> kept[s].from]
      BY <1>9, <2>3 DEF ShowKept, Show, Stamped
    <3>2. kept[s] # None /\ now - kept[s].at <= MaxAge
      BY <1>9 DEF ShowKept, KeptFresh
    <3>3. /\ kept[s].at \in 0..now
          /\ Made(ask[s], kept[s].body, kept[s].at - Staleness, kept[s].from)
      BY <1>1, <3>2 DEF KeptInv
    <3>4. now \in 0..now
      BY <1>2
    <3> QED
      BY <1>5, <1>7, <2>1, <3>1, <3>2, <3>3, <3>4
  <2> QED
    BY <2>2, <2>3
\* The answer of a handler replaces the copy the phone keeps, as a 200 or a 304.
<1>10. ASSUME NEW s \in Screens, NEW u \in Screens, Respond(s)
      PROVE  Keeps(u)' /\ Shows(u)'
  <2> DEFINE body == Body(got[s], ask[s])
             from == Origins(got[s], ask[s])
  <2>1. /\ sent[s] # None /\ Waiting(got[s], ask[s]) = {}
        /\ \/ kept' = [kept EXCEPT ![s] = None]
           \/ kept' = [kept EXCEPT ![s] = [body |-> body, at |-> sent[s], from |-> from]]
        /\ shown' = [shown EXCEPT ![s] = [body |-> body, at |-> sent[s], from |-> from]]
    BY <1>10 DEF Respond, Show, Revalidated, Stamped
  <2>2. sent[s] \in 0..now /\ sent[s] - Staleness \in Int /\ sent[s] - Staleness <= now
    BY <1>1, <1>2, <2>1 DEF TypeOK, RequestInv
  <2>3. Made(ask[s], body, sent[s] - Staleness, from)
    <3>1. got[s] \in [Queries -> Answers \union {None}]
      BY <1>1 DEF TypeOK
    <3>2. \A k \in Queries : got[s][k] # None =>
              Fits(got[s][k].of, k) /\ CurrentSince(got[s][k].ver, sent[s] - Staleness)
      BY <1>1 DEF RequestInv
    <3> QED
      BY <1>1, <1>3, <2>1, <2>2, <3>1, <3>2, MadeOfReads
  <2> HIDE DEF body, from
  <2>4. Shows(u)'
    <3>1. CASE u # s
      BY <1>3, <1>6, <2>1, <3>1
    <3>2. CASE u = s
      <4>1. sent[s] \in 0..sent[s] /\ sent[s] - sent[s] <= MaxAge
        BY <2>2
      <4>2. shown'[s] = [body |-> body, at |-> sent[s], from |-> from]
        BY <1>3, <2>1
      <4> QED
        BY <1>7, <2>2, <2>3, <3>2, <4>1, <4>2
    <3> QED
      BY <3>1, <3>2
  <2>5. Keeps(u)'
    <3>1. CASE kept'[u] = kept[u]
      BY <1>5, <3>1
    <3>2. CASE kept'[u] # kept[u]
      <4>1. u = s /\ (kept'[s] # None => kept'[s] = [body |-> body, at |-> sent[s], from |-> from])
        BY <1>3, <2>1, <3>2
      <4> QED
        BY <1>8, <2>2, <2>3, <4>1
    <3> QED
      BY <3>1, <3>2
  <2> QED
    BY <2>4, <2>5
<1>11. ASSUME NEW s \in Screens,
              Request(s) \/ ReadCached(s) \/ ReadDirectly(s) \/ QueryFails(s)
       PROVE  kept' = kept /\ shown' = shown
  BY <1>11 DEF Request, ReadCached, ReadDirectly, QueryFails
<1>12. Publish \/ Tick \/ UNCHANGED vars => kept' = kept /\ shown' = shown
  BY DEF Publish, Tick, vars
<1>13. ASSUME NEW u \in Screens
       PROVE  Keeps(u)' /\ Shows(u)'
  <2>1. CASE kept' = kept /\ shown' = shown
    BY <1>5, <1>6, <2>1
  <2> QED
    BY <1>9, <1>10, <1>11, <1>12, <2>1 DEF Next
<1> QED
  BY <1>13 DEF KeptInv, ShownInv

\* Every answer is made of one version for each query its handler awaits, current at
\* most Staleness before the request was sent, and at most MaxAge more before the
\* screen was looked at (api/cache_headers.py:3-7, core/cache.py:42-54); what is made of
\* a version is what that query, or another one of the same key, finds in it
\* (core/db/cached_restaurant_repository.py:36-39, 53-56).
THEOREM ContentInvariant == Spec => []ContentInv
<1>1. Init => ContentInv
  <2> SUFFICES ASSUME Init
               PROVE  TypeOK /\ RequestInv /\ KeptInv /\ ShownInv
    BY DEF ContentInv
  <2>1. TypeOK
    BY ContentAssumption DEF Init, Reads!Init, Unasked, TypeOK
  <2>2. RequestInv /\ KeptInv /\ ShownInv
    BY DEF Init, Unasked, RequestInv, KeptInv, ShownInv
  <2> QED
    BY <2>1, <2>2
<1>2. ContentInv /\ [Next]_vars => ContentInv'
  BY TypeStep, RequestStep, ScreensStep DEF ContentInv
<1> QED
  BY <1>1, <1>2, PTL DEF Spec

-----------------------------------------------------------------------------
\* The parts of an answer, whatever versions its queries saw: the awarded restaurants
\* that lead (couvert.py:38-40), the rows (couvert.py:48-59).
LEMMA LeadingFirst ==
    ASSUME NEW g, Seen(g, AwardsQuery) \in Catalogs, NEW n \in Nat
    PROVE  LET c == Seen(g, AwardsQuery)
           IN  /\ CutTo(Leading(g, n), Awarded(c), n)
               /\ \A r \in Leading(g, n), q \in Awarded(c) \ Leading(g, n) : MoreAwarded(c, r, q)
<1> DEFINE c == Seen(g, AwardsQuery)
<1>1. Leading(g, n) = {r \in Awarded(c) :
                          Cardinality({q \in Awarded(c) : MoreAwarded(c, q, r)}) < n}
  BY DEF Leading, Foremost
<1> HIDE DEF c
<1>2. /\ CutTo(Leading(g, n), Awarded(c), n)
      /\ \A r \in Leading(g, n), q \in Awarded(c) \ Leading(g, n) : MoreAwarded(c, r, q)
  <2>1. c \in Catalogs
    BY DEF c
  <2> QED
    BY <1>1, <2>1, FirstByAwards, Zenon
<1> QED
  BY <1>2 DEF c

\* The cuisines of the rows are the most frequent ones (couvert.py:48-49).
LEMMA TopFirst ==
    ASSUME NEW g, Seen(g, CountsQuery) \in Catalogs
    PROVE  LET c == Seen(g, CountsQuery)
           IN  /\ CutTo(TopCuisines(g), Counted(c), RowCuisines)
               /\ \A j \in TopCuisines(g), k \in Counted(c) \ TopCuisines(g) :
                     CountOf(c, j) >= CountOf(c, k)
<1> DEFINE c == Seen(g, CountsQuery)
           F == {x \in Counts(c) : Cardinality({y \in Counts(c) : Commoner(y, x)}) < RowCuisines}
           T == {x.cuisine : x \in F}
<1>1. TopCuisines(g) = T
  BY DEF TopCuisines, Foremost
<1>2. c \in Catalogs /\ RowCuisines \in Nat
  BY ContentAssumption
<1> HIDE DEF c
<1>3. /\ CutTo(T, Counted(c), RowCuisines)
      /\ \A j \in T, k \in Counted(c) \ T : CountOf(c, j) >= CountOf(c, k)
  BY <1>2, FirstByCount
<1> QED
  BY <1>1, <1>3 DEF c

\* Two queries of one key are the same, but for the label "None" and no label at all
\* (core/db/cached_restaurant_repository.py:37, 54).
LEMMA KeysApart ==
    ASSUME NEW q \in Queries, NEW p \in Queries, Fits(p, q), p # q
    PROVE  /\ SharesKey(q)
           /\ \E l \in Labels \union {None} :
                 \/ \E n \in Limits \union {RowSize}, k \in Labels \union {None} :
                       q = SearchQuery(k, None, n) /\ p = SearchQuery(l, None, n)
                 \/ p = CountQuery(l, None) /\ \E k \in Labels \union {None} : q = CountQuery(k, None)
<1>1. q \in CachedQueries /\ p \in CachedQueries /\ KeyOf(p) = KeyOf(q)
  BY DEF Fits, SameKey
<1>2. ASSUME NEW k \in Labels \union {None}, NEW l \in Labels \union {None}, k # l,
             KeyLabel(k) = KeyLabel(l)
      PROVE  k \in {None, NoneLabel} /\ NoneLabel \in Labels
  BY <1>2 DEF KeyLabel
<1>3. \A k : KeyOf(CountQuery(k, None)) = <<"count", KeyLabel(k)>>
  BY DEF KeyOf, CountQuery
<1>4. \A k, n : KeyOf(SearchQuery(k, None, n)) = <<"search", KeyLabel(k), n>>
  BY DEF KeyOf, SearchQuery
<1>5. KeyOf(CountsQuery) = <<"cuisine_counts">> /\ KeyOf(AwardsQuery) = <<"with_awards">>
  BY DEF KeyOf, CountsQuery, AwardsQuery
<1>6. ASSUME NEW x \in CachedQueries
      PROVE  \/ x = CountsQuery \/ x = AwardsQuery
             \/ \E k \in Labels \union {None} : x = CountQuery(k, None)
             \/ \E k \in Labels \union {None}, n \in Limits \union {RowSize} :
                   x = SearchQuery(k, None, n)
  BY DEF CachedQueries
<1>7. CASE \E k \in Labels \union {None} : q = CountQuery(k, None)
  <2> PICK k \in Labels \union {None} : q = CountQuery(k, None)
    BY <1>7
  <2>1. KeyOf(q)[1] = "count"
    BY <1>3
  <2>2. PICK l \in Labels \union {None} : p = CountQuery(l, None)
    BY <1>1, <1>3, <1>4, <1>5, <1>6, <2>1
  <2>3. KeyLabel(k) = KeyLabel(l) /\ k # l
    BY <1>1, <1>3, <2>2
  <2>4. SharesKey(q)
    BY <1>2, <2>3 DEF SharesKey, CountQuery
  <2> QED
    BY <2>2, <2>4
<1>8. CASE \E k \in Labels \union {None}, n \in Limits \union {RowSize} :
              q = SearchQuery(k, None, n)
  <2> PICK k \in Labels \union {None}, n \in Limits \union {RowSize} :
             q = SearchQuery(k, None, n)
    BY <1>8
  <2>1. KeyOf(q) = <<"search", KeyLabel(k), n>>
    BY <1>4
  <2>2. PICK l \in Labels \union {None}, m \in Limits \union {RowSize} : p = SearchQuery(l, None, m)
    BY <1>1, <1>3, <1>4, <1>5, <1>6, <2>1
  <2>3. KeyLabel(k) = KeyLabel(l) /\ n = m /\ k # l
    BY <1>1, <1>4, <2>1, <2>2
  <2>4. SharesKey(q)
    BY <1>2, <2>3 DEF SharesKey, SearchQuery
  <2> QED
    BY <2>2, <2>3, <2>4
<1>9. CASE q = CountsQuery \/ q = AwardsQuery
  <2>1. KeyOf(q)[1] \in {"cuisine_counts", "with_awards"}
    BY <1>5, <1>9
  <2> QED
    BY <1>1, <1>3, <1>4, <1>5, <1>6, <1>9, <2>1
<1> QED
  BY <1>1, <1>6, <1>7, <1>8, <1>9

\* The query a row was loaded for, which is its own but for a cuisine called "None".
LEMMA OriginOfRow ==
    ASSUME NEW a \in Asks, a.endpoint = "restaurants", ~IsFiltered(a), NEW k \in Cuisines,
           NEW p \in Queries, Fits(p, RowQuery(k))
    PROVE  \E l : p = SearchQuery(l, None, RowSize) /\ (k # NoneLabel => l = k)
<1>1. k # None /\ RowQuery(k) \in Queries
  BY AwaitedAreQueries, CatalogAssumption DEF AwaitedBy
<1>2. CASE p = RowQuery(k)
  BY <1>2 DEF RowQuery
<1>3. CASE p # RowQuery(k)
  <2>1. SharesKey(RowQuery(k))
    BY <1>1, <1>3, KeysApart
  <2>2. k = NoneLabel
    BY <1>1, <2>1 DEF SharesKey, RowQuery, SearchQuery
  <2>3. PICK l, m, n : RowQuery(k) = SearchQuery(m, None, n) /\ p = SearchQuery(l, None, n)
    <3>1. \A l : RowQuery(k) # CountQuery(l, None)
      BY DEF RowQuery, SearchQuery, CountQuery
    <3> QED
      BY <1>1, <1>3, <3>1, KeysApart
  <2>4. n = RowSize
    BY <2>3 DEF RowQuery, SearchQuery
  <2> QED
    BY <2>2, <2>3, <2>4
<1> QED
  BY <1>2, <1>3

\* What answers a search is in scope, whatever query it was loaded for.
LEMMA ListInScope ==
    ASSUME NEW g, NEW q
    PROVE  ListFor(g, q) \subseteq InScope(Seen(g, q))
BY DEF ListFor, Page, Foremost, Found

\* A row is the first restaurants of its cuisine (couvert.py:50-52), or of the cuisine
\* of another query of its key.
LEMMA RowFirst ==
    ASSUME NEW g, NEW k, NEW l, g[RowQuery(k)].of = SearchQuery(l, None, RowSize)
    PROVE  LET all == Found(Seen(g, RowQuery(k)), l, None)
           IN  /\ CutTo(Row(g, k), all, RowSize)
               /\ \A r \in Row(g, k), q \in all \ Row(g, k) : r < q
<1> DEFINE c == Seen(g, RowQuery(k))
<1>1. Row(g, k) = Page(c, l, None, RowSize)
  BY DEF Row, ListFor, SearchQuery
<1> QED
  BY <1>1, PageFirst, ContentAssumption

\* The rest of a deck is the first of the page that do not lead it (couvert.py:139-142).
LEMMA FillerFirst ==
    ASSUME NEW g, Seen(g, AwardsQuery) \in Catalogs, NEW a, a.limit \in Nat
    PROVE  LET lead == Leading(g, a.limit)
               rest == ListFor(g, FillerQuery(a)) \ lead
           IN  CutTo(Filler(g, a), rest, a.limit - Cardinality(lead))
<1> DEFINE lead == Leading(g, a.limit)
           page == ListFor(g, FillerQuery(a))
           rest == page \ lead
           n == a.limit - Cardinality(lead)
<1>1. n \in Nat
  <2>1. CutTo(lead, Awarded(Seen(g, AwardsQuery)), a.limit)
    BY LeadingFirst
  <2>2. Cardinality(Awarded(Seen(g, AwardsQuery))) \in Nat
    BY Selected, FS_CardinalityType
  <2> QED
    BY <2>1, <2>2 DEF CutTo
<1>2. rest \subseteq Restaurants
  <2>1. page \subseteq InScope(Seen(g, FillerQuery(a)))
    BY ListInScope
  <2> QED
    BY <2>1, Selected
<1>3. Filler(g, a) = FirstNamed(rest, n)
  BY DEF Filler, Foremost, ByName, FirstNamed
<1> HIDE DEF rest, n
<1>4. CutTo(Filler(g, a), rest, n)
  BY <1>1, <1>2, <1>3, FirstByName, Zenon
<1> QED
  BY <1>4 DEF rest, n

\* Every query of an answer saw a catalog of V.
LEMMA SeenIn ==
    ASSUME content \in Histories, NEW a \in Asks, NEW V \in SUBSET (0..MaxVersion),
           NEW g \in [AwaitedBy(a) -> [of : Queries, ver : V]]
    PROVE  \A k \in AwaitedBy(a) : \E v \in V : Seen(g, k) = content[v] /\ content[v] \in Catalogs
  BY ContentAssumption DEF Seen

\* A restaurant of an answer is in scope in a catalog that one of its queries saw.
LEMMA BodyServed ==
    ASSUME content \in Histories, NEW a \in Asks, NEW V \in SUBSET (0..MaxVersion),
           NEW g \in [AwaitedBy(a) -> [of : Queries, ver : V]]
    PROVE  \A r \in Body(g, a).restaurants : \E v \in V : r \in InScope(content[v])
<1> USE ContentAssumption
<1>1. \A k \in AwaitedBy(a) : \E v \in V : Seen(g, k) = content[v] /\ content[v] \in Catalogs
  BY SeenIn
<1>2. \A k \in AwaitedBy(a) : \A r \in InScope(Seen(g, k)) :
          \E v \in V : r \in InScope(content[v])
  BY <1>1
<1>3. AwardsQuery \in AwaitedBy(a) =>
          \A n \in Nat : Leading(g, n) \subseteq InScope(Seen(g, AwardsQuery))
  BY <1>1, LeadingFirst, Selected DEF CutTo
<1>4. CASE a.endpoint \in {"cuisines", "awards"}
  BY <1>4 DEF Body
<1>5. CASE a.endpoint = "home"
  BY <1>2, <1>3, <1>5 DEF Body, AwaitedBy
<1>6. CASE a.endpoint = "award"
  <2>1. AwardsQuery \in AwaitedBy(a)
    BY <1>6 DEF AwaitedBy
  <2>2. Body(g, a).restaurants \subseteq InScope(Seen(g, AwardsQuery))
    BY <1>6, Selected DEF Body, HoldersOf
  <2> QED
    BY <1>2, <2>1, <2>2
<1>7. CASE a.endpoint = "restaurant"
  BY <1>2, <1>7 DEF Body, AwaitedBy
<1>8. CASE a.endpoint = "discover"
  <2>1. /\ AwardsQuery \in AwaitedBy(a) /\ FillerQuery(a) \in AwaitedBy(a)
        /\ a.limit \in Nat
    BY <1>8 DEF AwaitedBy, AskTypes
  <2>2. Filler(g, a) \subseteq InScope(Seen(g, FillerQuery(a)))
    <3>1. Filler(g, a) \subseteq ListFor(g, FillerQuery(a))
      BY DEF Filler, Foremost
    <3> QED
      BY <3>1, ListInScope
  <2> QED
    BY <1>2, <1>3, <1>8, <2>1, <2>2 DEF Body
<1>9. CASE a.endpoint = "restaurants" /\ IsFiltered(a)
  <2>1. a.limit \in Nat /\ SearchQuery(a.label, a.term, a.limit) \in AwaitedBy(a)
    BY <1>9 DEF AwaitedBy, AskTypes
  <2>2. Body(g, a).restaurants \subseteq InScope(Seen(g, SearchQuery(a.label, a.term, a.limit)))
    BY <1>9, ListInScope DEF Body
  <2> QED
    BY <1>2, <2>1, <2>2
<1>10. CASE a.endpoint = "restaurants" /\ ~IsFiltered(a)
  <2>1. TopCuisines(g) \subseteq Cuisines /\ \A k \in Cuisines : RowQuery(k) \in AwaitedBy(a)
    BY <1>1, <1>10, TopAreCuisines DEF AwaitedBy
  <2>2. \A k \in Cuisines : Row(g, k) \subseteq InScope(Seen(g, RowQuery(k)))
    BY ListInScope DEF Row
  <2>3. Body(g, a).restaurants = UNION {Rows(g)[k] : k \in DOMAIN Rows(g)}
    BY <1>10 DEF Body
  <2>4. DOMAIN Rows(g) \subseteq TopCuisines(g) /\ \A k \in DOMAIN Rows(g) : Rows(g)[k] = Row(g, k)
    BY DEF Rows
  <2> SUFFICES ASSUME NEW r \in Body(g, a).restaurants
               PROVE  \E v \in V : r \in InScope(content[v])
    OBVIOUS
  <2>5. PICK k \in DOMAIN Rows(g) : r \in Rows(g)[k]
    BY <2>3
  <2>6. RowQuery(k) \in AwaitedBy(a) /\ r \in InScope(Seen(g, RowQuery(k)))
    BY <2>1, <2>2, <2>4, <2>5
  <2> QED
    BY <1>2, <2>6
<1> QED
  BY <1>4, <1>5, <1>6, <1>7, <1>8, <1>9, <1>10 DEF AskTypes

\* The rows of a browse are neither empty nor too long, and of their cuisine, unless it
\* is called as no label is written; a deck is full, or holds all that was in scope when
\* its filler was read, unless that was loaded for another query.
LEMMA BodyWhole ==
    ASSUME content \in Histories, NEW a \in Asks, NEW V \in SUBSET (0..MaxVersion),
           NEW g \in [AwaitedBy(a) -> [of : Queries, ver : V]],
           \A q \in AwaitedBy(a) : Fits(g[q].of, q)
    PROVE  LET body == Body(g, a)
               size == Cardinality(body.restaurants)
           IN  /\ a.endpoint = "restaurants" /\ ~IsFiltered(a) =>
                     \A k \in DOMAIN body.rows :
                         /\ Cardinality(body.rows[k]) \in 1..RowSize
                         /\ k # NoneLabel => \A r \in body.rows[k] :
                                \E v \in V : r \in Found(content[v], k, None)
               /\ a.endpoint = "discover" =>
                     /\ size <= a.limit
                     /\ \/ size = a.limit
                        \/ g[FillerQuery(a)].of # FillerQuery(a)
                        \/ \E v \in V : size >= Cardinality(InScope(content[v]))
<1> USE ContentAssumption
<1>1. \A k \in AwaitedBy(a) : \E v \in V : Seen(g, k) = content[v] /\ content[v] \in Catalogs
  BY SeenIn
<1>2. ASSUME a.endpoint = "restaurants", ~IsFiltered(a), NEW k \in DOMAIN Body(g, a).rows
      PROVE  /\ Cardinality(Body(g, a).rows[k]) \in 1..RowSize
             /\ k # NoneLabel => \A r \in Body(g, a).rows[k] :
                    \E v \in V : r \in Found(content[v], k, None)
  <2>1. TopCuisines(g) \subseteq Cuisines /\ \A j \in Cuisines : RowQuery(j) \in AwaitedBy(a)
    <3>1. CountsQuery \in AwaitedBy(a) /\ \A j \in Cuisines : RowQuery(j) \in AwaitedBy(a)
      BY <1>2 DEF AwaitedBy
    <3> QED
      BY <1>1, <3>1, TopAreCuisines
  <2>2. Body(g, a).rows = Rows(g)
    BY <1>2 DEF Body
  <2>3. k \in TopCuisines(g) /\ Rows(g)[k] = Row(g, k) /\ Row(g, k) # {}
    BY <1>2, <2>2 DEF Rows
  <2>4. PICK v \in V : Seen(g, RowQuery(k)) = content[v]
    BY <1>1, <2>1, <2>3
  <2>5. PICK l : g[RowQuery(k)].of = SearchQuery(l, None, RowSize) /\ (k # NoneLabel => l = k)
    BY <1>2, <2>1, <2>3, OriginOfRow
  <2>6. CutTo(Row(g, k), Found(content[v], l, None), RowSize)
    BY <2>4, <2>5, RowFirst
  <2>7. Cardinality(Row(g, k)) \in 1..RowSize
    <3>1. Cardinality(Row(g, k)) \in Nat \ {0}
      BY <2>3, <2>6, FS_EmptySet, FS_CardinalityType DEF CutTo
    <3>2. Cardinality(Found(content[v], l, None)) \in Nat
      BY Selected, FS_CardinalityType
    <3> QED
      BY <2>6, <3>1, <3>2 DEF CutTo
  <2> QED
    BY <2>2, <2>3, <2>5, <2>6, <2>7 DEF CutTo
<1>3. ASSUME a.endpoint = "discover"
      PROVE  LET size == Cardinality(Body(g, a).restaurants)
             IN  /\ size <= a.limit
                 /\ \/ size = a.limit
                    \/ g[FillerQuery(a)].of # FillerQuery(a)
                    \/ \E v \in V : size >= Cardinality(InScope(content[v]))
  <2> DEFINE lead == Leading(g, a.limit)
             c == Seen(g, AwardsQuery)
             d == Seen(g, FillerQuery(a))
             page == ListFor(g, FillerQuery(a))
             deck == Body(g, a).restaurants
  <2>1. /\ AwardsQuery \in AwaitedBy(a) /\ FillerQuery(a) \in AwaitedBy(a)
        /\ a.limit \in Nat
    BY <1>3 DEF AwaitedBy, AskTypes
  <2>2. PICK v \in V : d = content[v]
    BY <1>1, <2>1
  <2>3. c \in Catalogs
    BY <1>1, <2>1
  <2>4. CutTo(lead, Awarded(c), a.limit) /\ Cardinality(Awarded(c)) \in Nat
    BY <2>1, <2>3, LeadingFirst, Selected, FS_CardinalityType
  <2>5. /\ page \subseteq InScope(d) /\ IsFiniteSet(page)
        /\ Cardinality(page) \in Nat /\ Cardinality(InScope(d)) \in Nat
    BY ListInScope, Selected, FS_Subset, FS_CardinalityType
  <2>6. g[FillerQuery(a)].of = FillerQuery(a) => CutTo(page, InScope(d), a.limit)
    <3> SUFFICES ASSUME g[FillerQuery(a)].of = FillerQuery(a)
                 PROVE  CutTo(page, InScope(d), a.limit)
      OBVIOUS
    <3>1. page = Page(d, None, None, a.limit)
      BY DEF ListFor, FillerQuery, SearchQuery
    <3>2. CutTo(Page(d, None, None, a.limit), InScope(d), a.limit)
      BY <2>1, PageFirst, Selected
    <3> QED
      BY <3>1, <3>2
  <2>7. CutTo(Filler(g, a), page \ lead, a.limit - Cardinality(lead))
    BY <2>1, <2>3, FillerFirst
  <2>8. deck = lead \union (IF NeedsFiller(g, a) THEN Filler(g, a) ELSE {})
    BY <1>3 DEF Body
  <2> HIDE DEF lead, c, d, page, deck
  <2>9. Cardinality(lead) \in Nat /\ Cardinality(lead) <= a.limit /\ IsFiniteSet(lead)
    BY <2>1, <2>4 DEF CutTo
  <2>10. CASE ~NeedsFiller(g, a)
    <3>1. Cardinality(lead) = a.limit
      BY <2>1, <2>9, <2>10 DEF NeedsFiller, lead
    <3> QED
      BY <2>1, <2>8, <2>10, <3>1 DEF deck
  <2>11. CASE NeedsFiller(g, a)
    <3>1. IsFiniteSet(page) /\ IsFiniteSet(page \ lead) /\ Cardinality(page \ lead) \in Nat
      BY <2>5, FS_Difference, FS_CardinalityType
    <3>2. /\ IsFiniteSet(deck)
          /\ Cardinality(deck) = Cardinality(lead) + Cardinality(Filler(g, a))
      <4>1. lead \intersect Filler(g, a) = {} /\ IsFiniteSet(Filler(g, a))
        BY <2>7 DEF CutTo
      <4>2. Cardinality(Filler(g, a)) \in Nat /\ Cardinality({}) = 0
        BY <4>1, FS_CardinalityType, FS_EmptySet
      <4>3. deck = lead \union Filler(g, a)
        BY <2>8, <2>11
      <4>4. /\ IsFiniteSet(lead \union Filler(g, a))
            /\ Cardinality(lead \union Filler(g, a)) =
                   Cardinality(lead) + Cardinality(Filler(g, a))
                     - Cardinality(lead \intersect Filler(g, a))
        BY <2>9, <4>1, FS_Union, Zenon
      <4>5. Cardinality(lead \intersect Filler(g, a)) = 0
        BY <4>1, <4>2, Zenon
      <4>6. /\ IsFiniteSet(deck)
            /\ Cardinality(deck) = Cardinality(lead) + Cardinality(Filler(g, a)) - 0
        BY <4>3, <4>4, <4>5, Zenon
      <4> QED
        BY <2>9, <4>2, <4>6
    <3>3. Cardinality(deck) <= a.limit
      BY <2>1, <2>7, <2>9, <3>1, <3>2 DEF CutTo
    <3>4. CASE a.limit - Cardinality(lead) <= Cardinality(page \ lead)
      BY <2>1, <2>7, <2>9, <3>2, <3>3, <3>4 DEF CutTo, deck
    \* All of the page is in the deck, and the page was shorter than the limit.
    <3>5. CASE Cardinality(page \ lead) < a.limit - Cardinality(lead)
      <4>1. Cardinality(Filler(g, a)) = Cardinality(page \ lead)
        BY <2>1, <2>7, <2>9, <3>1, <3>5 DEF CutTo
      <4>2. Filler(g, a) = page \ lead
        BY <2>7, <3>1, <4>1, FS_Subset DEF CutTo
      <4>3. page \subseteq deck
        BY <2>8, <2>11, <4>2
      <4>4. Cardinality(page) <= Cardinality(deck) /\ Cardinality(deck) < a.limit
        BY <2>1, <2>9, <3>1, <3>2, <3>5, <4>1, <4>3, FS_Subset
      <4>5. g[FillerQuery(a)].of = FillerQuery(a) => Cardinality(page) = Cardinality(InScope(d))
        <5>1. Cardinality(page) \in Nat /\ Cardinality(deck) \in Nat
          BY <3>1, <3>2, FS_CardinalityType
        <5> QED
          BY <2>1, <2>5, <2>6, <4>4, <5>1 DEF CutTo
      <4> QED
        BY <2>2, <3>3, <4>4, <4>5 DEF deck
    <3>6. \/ a.limit - Cardinality(lead) <= Cardinality(page \ lead)
          \/ Cardinality(page \ lead) < a.limit - Cardinality(lead)
      BY <2>1, <2>9, <3>1
    <3> QED
      BY <3>4, <3>5, <3>6
  <2> QED
    BY <2>10, <2>11
<1> QED
  BY <1>2, <1>3

-----------------------------------------------------------------------------
\* What the queries find in a catalog is what the endpoints promise of it: the label
\* asked for stands for its canonical cuisine (restaurant_repository.py:61-74, 87-94).
LEMMA ServedFound ==
    ASSUME NEW c \in Catalogs
    PROVE  /\ Served(c, None, None) = InScope(c)
           /\ \A l \in Labels \union {None}, t \in Terms \union {None} :
                 Served(c, CuisineOf(l), t) = Found(c, l, t)
           /\ \A k \in Cuisines :
                 /\ Served(c, k, None) = Found(c, k, None)
                 /\ Cardinality(Found(c, k, None)) = CountOf(c, k) /\ CountOf(c, k) \in Nat
                 /\ k \in Counted(c) <=> CountOf(c, k) > 0
           /\ Counted(c) \subseteq Cuisines
<1> USE CatalogAssumption
<1>1. Served(c, None, None) = InScope(c)
  BY DEF Served, InScope
<1>2. ASSUME NEW l \in Labels \union {None}, NEW t \in Terms \union {None}
      PROVE  Served(c, CuisineOf(l), t) = Found(c, l, t)
  <2>1. CASE l = None
    BY <2>1 DEF Served, CuisineOf, Found, InScope
  <2>2. CASE l # None
    <3>1. CuisineOf(l) = Canonical[l] /\ CuisineOf(l) # None
      BY <2>2 DEF CuisineOf
    <3> QED
      BY <2>2, <3>1 DEF Served, Found, InScope
  <2> QED
    BY <2>1, <2>2
<1>3. ASSUME NEW k \in Cuisines
      PROVE  /\ Served(c, k, None) = Found(c, k, None)
             /\ Cardinality(Found(c, k, None)) = CountOf(c, k) /\ CountOf(c, k) \in Nat
             /\ k \in Counted(c) <=> CountOf(c, k) > 0
  <2>1. k # None /\ Canonical[k] = k
    OBVIOUS
  <2>2. Served(c, k, None) = Found(c, k, None)
    BY <2>1 DEF Served, Found, InScope
  <2>3. Found(c, k, None) = {r \in InScope(c) : k \in c[r].cuisines}
    BY <2>1 DEF Found
  <2>4. IsFiniteSet(Found(c, k, None)) /\ Cardinality(Found(c, k, None)) \in Nat
    BY Selected, FS_CardinalityType
  <2>5. k \in Counted(c) <=> Found(c, k, None) # {}
    BY <2>3 DEF Counted
  <2>6. Cardinality(Found(c, k, None)) = 0 <=> Found(c, k, None) = {}
    BY <2>4, FS_EmptySet
  <2>7. Cardinality(Found(c, k, None)) = CountOf(c, k)
    BY <2>3 DEF CountOf
  <2> QED
    BY <2>2, <2>4, <2>5, <2>6, <2>7
<1>4. Counted(c) \subseteq Cuisines
  <2>1. \A r \in InScope(c) : c[r].cuisines \subseteq Cuisines
    BY DEF InScope, Catalogs, Docs
  <2> QED
    BY <2>1 DEF Counted
<1> QED
  BY <1>1, <1>2, <1>3, <1>4

\* A set cut to the first n by name is the best n of it.
LEMMA BestByName ==
    ASSUME NEW S, S \subseteq Restaurants, NEW n \in Nat, NEW F, CutTo(F, S, n),
           \A r \in F, q \in S \ F : r < q
    PROVE  BestOf(F, S, n, ByName)
<1>1. \A r \in F, q \in S \ F : ~(q < r)
  BY CatalogAssumption DEF CutTo
<1>2. F \subseteq S /\ Cardinality(F) = Least(n, Cardinality(S))
  BY DEF CutTo, Least
<1> QED
  BY <1>1, <1>2 DEF BestOf, ByName

\* The mentions of a restaurant are counted by a number, and none is awarded without.
LEMMA MentionsOf ==
    ASSUME NEW c \in Catalogs
    PROVE  \A r \in InScope(c) : /\ Cardinality(c[r].awards) \in Nat
                                 /\ r \in Awarded(c) <=> Cardinality(c[r].awards) > 0
<1> SUFFICES ASSUME NEW r \in InScope(c)
             PROVE  /\ Cardinality(c[r].awards) \in Nat
                    /\ r \in Awarded(c) <=> Cardinality(c[r].awards) > 0
  OBVIOUS
<1>1. c[r].awards \subseteq Mentions
  BY DEF InScope, Catalogs, Docs
<1>2. IsFiniteSet(c[r].awards)
  BY <1>1, FS_Subset, CatalogAssumption
<1>3. Cardinality(c[r].awards) \in Nat /\ (Cardinality(c[r].awards) = 0 <=> c[r].awards = {})
  BY <1>2, FS_CardinalityType, FS_EmptySet
<1> QED
  BY <1>3 DEF Awarded

\* The most frequent cuisines, and of each the first restaurants (couvert.py:48-59).
LEMMA RowsRight ==
    ASSUME NEW c \in Catalogs, NEW g, Seen(g, CountsQuery) = c,
           \A k \in Cuisines : Seen(g, RowQuery(k)) = c /\ g[RowQuery(k)].of = RowQuery(k),
           NEW body, body.rows = Rows(g), body.total = Total(c, None, None),
           body.restaurants = UNION {Rows(g)[k] : k \in DOMAIN Rows(g)}
    PROVE  RightRows(body, c)
<1> USE ContentAssumption
<1> DEFINE T == TopCuisines(g)
           size(k) == Cardinality(Served(c, k, None))
<1>1. \A k \in Cuisines : /\ Served(c, k, None) = Found(c, k, None)
                           /\ size(k) = CountOf(c, k) /\ CountOf(c, k) \in Nat
                           /\ k \in Counted(c) <=> CountOf(c, k) > 0
  BY ServedFound
<1>2. Counted(c) = {k \in Cuisines : size(k) > 0}
  BY <1>1, ServedFound
<1>3. /\ CutTo(T, Counted(c), RowCuisines) /\ T \subseteq Counted(c) /\ T \subseteq Cuisines
      /\ \A j \in T, k \in Counted(c) \ T : CountOf(c, j) >= CountOf(c, k)
  BY TopFirst, ServedFound DEF CutTo
<1>4. \A k \in Cuisines : /\ CutTo(Row(g, k), Found(c, k, None), RowSize)
                           /\ \A r \in Row(g, k), q \in Found(c, k, None) \ Row(g, k) : r < q
  BY RowFirst DEF RowQuery
\* No cuisine has lost its restaurants since it was counted.
<1>5. ASSUME NEW k \in T
      PROVE  Row(g, k) # {}
  <2> k \in Cuisines /\ k \in Counted(c)
    BY <1>3
  <2>1. CountOf(c, k) \in Nat \ {0} /\ Cardinality(Found(c, k, None)) = CountOf(c, k)
    BY ServedFound
  <2>2. Cardinality(Row(g, k)) # 0
    BY <1>3, <1>4, <2>1 DEF CutTo
  <2> QED
    BY <2>2, FS_EmptySet
<1>6. DOMAIN Rows(g) = T /\ \A k \in T : Rows(g)[k] = Row(g, k)
  BY <1>5 DEF Rows
<1>7. /\ T \subseteq {k \in Cuisines : size(k) > 0}
      /\ Cardinality(T) = Least(RowCuisines, Cardinality({k \in Cuisines : size(k) > 0}))
      /\ \A j \in T, k \in {i \in Cuisines : size(i) > 0} \ T : ~(size(k) > size(j))
  <2>1. T \subseteq Counted(c) /\ Cardinality(T) = Least(RowCuisines, Cardinality(Counted(c)))
    BY <1>3 DEF CutTo, Least
  <2>2. \A j \in T, k \in Counted(c) \ T : ~(size(k) > size(j))
    BY <1>1, <1>3, ServedFound
  <2> QED
    BY <1>2, <2>1, <2>2
<1>8. \A k \in T : BestOf(Row(g, k), Served(c, k, None), RowSize, ByName)
  <2> SUFFICES ASSUME NEW k \in T PROVE BestOf(Row(g, k), Served(c, k, None), RowSize, ByName)
    OBVIOUS
  <2>1. k \in Cuisines
    BY <1>3
  <2> DEFINE S == Served(c, k, None)
             F == Row(g, k)
  <2>2. S = Found(c, k, None) /\ S \subseteq Restaurants
    BY <2>1, ServedFound, Selected
  <2>3. CutTo(F, S, RowSize) /\ \A r \in F, q \in S \ F : r < q
    BY <1>4, <2>1, <2>2
  <2> HIDE DEF S, F
  <2>4. BestOf(F, S, RowSize, ByName)
    BY <2>2, <2>3, BestByName
  <2> QED
    BY <2>4 DEF S, F
<1>9. \A r \in Restaurants : r \in body.restaurants <=> \E k \in T : r \in Row(g, k)
  BY <1>6
<1>10. body.total = Cardinality(Served(c, None, None))
  BY ServedFound, Selected DEF Total
<1> HIDE DEF T
<1> QED
  BY <1>6, <1>7, <1>8, <1>9, <1>10 DEF RightRows, BestOf, ByName

\* The awarded restaurants lead the deck, by their mentions, and the first of the others
\* fill it up (couvert.py:131-143).
LEMMA DeckRight ==
    ASSUME content \in Histories, NEW a \in Asks, a.endpoint = "discover",
           NEW v \in 0..MaxVersion, NEW g \in [AwaitedBy(a) -> [of : Queries, ver : {v}]],
           \A q \in AwaitedBy(a) : g[q].of = q
    PROVE  RightDeck(Body(g, a), Served(content[v], None, None), a.limit, content[v])
<1> USE ContentAssumption
<1> DEFINE c == content[v]
           all == InScope(c)
           deck == Body(g, a).restaurants
           lead == Leading(g, a.limit)
           mentions(r) == Cardinality(c[r].awards)
<1>1. /\ AwardsQuery \in AwaitedBy(a) /\ FillerQuery(a) \in AwaitedBy(a)
      /\ a.limit \in Nat
  BY DEF AwaitedBy, AskTypes
<1>2. c \in Catalogs /\ Seen(g, AwardsQuery) = c
  BY <1>1 DEF Seen
<1>3. deck = lead \union (IF NeedsFiller(g, a) THEN Filler(g, a) ELSE {})
  BY DEF Body
<1>4. /\ CutTo(lead, Awarded(c), a.limit)
      /\ \A r \in lead, q \in Awarded(c) \ lead : MoreAwarded(c, r, q)
  BY <1>1, <1>2, LeadingFirst
<1>5. \A r \in all : mentions(r) \in Nat /\ (r \in Awarded(c) <=> mentions(r) > 0)
  BY <1>2, MentionsOf
<1>6. {v} \in SUBSET (0..MaxVersion)
  OBVIOUS
<1>7. deck \subseteq all
  <2>1. \A r \in deck : \E u \in {v} : r \in InScope(content[u])
    <3> DEFINE V == {v}
    <3>1. V \in SUBSET (0..MaxVersion) /\ g \in [AwaitedBy(a) -> [of : Queries, ver : V]]
      BY <1>6
    <3> HIDE DEF V
    <3>2. \A r \in Body(g, a).restaurants : \E u \in V : r \in InScope(content[u])
      BY <3>1, BodyServed
    <3> QED
      BY <3>2 DEF V
  <2> QED
    BY <2>1
<1>8. Cardinality(deck) = Least(a.limit, Cardinality(all))
  <2>1. /\ Cardinality(deck) <= a.limit
        /\ Cardinality(deck) = a.limit \/ Cardinality(deck) >= Cardinality(all)
    <3>1. /\ Cardinality(deck) <= a.limit
          /\ \/ Cardinality(deck) = a.limit
             \/ g[FillerQuery(a)].of # FillerQuery(a)
             \/ \E u \in {v} : Cardinality(deck) >= Cardinality(InScope(content[u]))
      BY <1>6, BodyWhole DEF Fits
    <3> QED
      BY <1>1, <3>1
  <2>2. /\ IsFiniteSet(deck) /\ Cardinality(deck) \in Nat
        /\ Cardinality(all) \in Nat /\ Cardinality(deck) <= Cardinality(all)
    BY <1>7, Selected, FS_Subset, FS_CardinalityType
  <2> QED
    BY <1>1, <2>1, <2>2 DEF Least
\* While an awarded restaurant is left out, the deck has none that has no award.
<1>9. ASSUME NEW r \in deck, NEW q \in all \ deck
      PROVE  ~(mentions(q) > mentions(r))
  <2>1. CASE q \notin Awarded(c)
    BY <1>5, <1>7, <2>1
  <2>2. CASE q \in Awarded(c)
    <3>1. q \in Awarded(c) \ lead /\ lead \subseteq Awarded(c)
      BY <1>3, <1>4, <2>2 DEF CutTo
    <3>2. Cardinality(lead) = a.limit
      <4>1. Cardinality(Awarded(c)) \in Nat /\ Cardinality(lead) # Cardinality(Awarded(c))
        BY <3>1, Selected, FS_Subset, FS_CardinalityType
      <4> QED
        BY <1>4, <4>1 DEF CutTo
    <3>3. r \in lead
      BY <1>1, <1>3, <3>2 DEF NeedsFiller
    <3>4. MoreAwarded(c, r, q)
      BY <1>4, <3>1, <3>3
    <3> QED
      BY <1>5, <1>7, <3>4 DEF MoreAwarded
  <2> QED
    BY <2>1, <2>2
<1>10. Served(c, None, None) = all
  BY <1>2, ServedFound
<1> HIDE DEF all, deck
<1> QED
  BY <1>7, <1>8, <1>9, <1>10 DEF RightDeck, BestOf, deck

\* An answer whose queries all saw the same catalog, each for itself, is what its
\* endpoint promises of that catalog (api/routers/couvert.py:63-68, 94-143, 151-172).
LEMMA BodyRight ==
    ASSUME content \in Histories, NEW a \in Asks, NEW v \in 0..MaxVersion,
           NEW g \in [AwaitedBy(a) -> [of : Queries, ver : {v}]],
           \A q \in AwaitedBy(a) : g[q].of = q
    PROVE  Right(a, Body(g, a), content[v])
<1> USE ContentAssumption, CatalogAssumption
<1> DEFINE c == content[v]
<1>1. c \in Catalogs /\ \A k \in AwaitedBy(a) : Seen(g, k) = c
  BY DEF Seen
<1>2. Served(c, None, None) = InScope(c)
  BY <1>1, ServedFound
<1>3. \A b : HoldersIn(c, b) = HoldersOf(c, b)
  BY <1>2 DEF HoldersIn, HoldersOf, Awarded
<1>4. CASE a.endpoint = "restaurants" /\ IsFiltered(a)
  <2> DEFINE all == Found(c, a.label, a.term)
             page == Page(c, a.label, a.term, a.limit)
  <2>1. a.label \in Labels \union {None} /\ a.term \in Terms \union {None} /\ a.limit \in Nat
    BY <1>4 DEF AskTypes
  <2>2. Body(g, a).restaurants = page /\ Body(g, a).total = Cardinality(all)
    <3> DEFINE search == SearchQuery(a.label, a.term, a.limit)
               count == CountQuery(a.label, a.term)
    <3>1. /\ Seen(g, search) = c /\ g[search].of = search
          /\ Seen(g, count) = c /\ g[count].of = count
      BY <1>1, <1>4 DEF AwaitedBy
    <3>2. ListFor(g, search) = page
      BY <3>1 DEF ListFor, SearchQuery
    <3>3. TotalFor(g, count) = Cardinality(all)
      BY <3>1 DEF TotalFor, CountQuery, Total
    <3> QED
      BY <1>4, <3>2, <3>3 DEF Body
  <2>3. CutTo(page, all, a.limit) /\ \A r \in page, q \in all \ page : r < q
    BY <2>1, PageFirst
  <2>4. all \subseteq Restaurants
    BY Selected
  <2>5. Served(c, CuisineOf(a.label), a.term) = all
    <3>1. \A l \in Labels \union {None}, t \in Terms \union {None} :
              Served(c, CuisineOf(l), t) = Found(c, l, t)
      BY <1>1, ServedFound
    <3> QED
      BY <2>1, <3>1
  <2> HIDE DEF all, page
  <2>6. BestOf(page, all, a.limit, ByName)
    BY <2>1, <2>3, <2>4, BestByName
  <2> QED
    BY <1>4, <2>2, <2>5, <2>6 DEF Right, RightList
<1>5. CASE a.endpoint = "restaurants" /\ ~IsFiltered(a)
  <2>1. AwaitedBy(a) = {CountsQuery, CountQuery(None, None)} \union {RowQuery(k) : k \in Cuisines}
    BY <1>5 DEF AwaitedBy
  <2>2. /\ Seen(g, CountsQuery) = c /\ Seen(g, CountQuery(None, None)) = c
        /\ g[CountQuery(None, None)].of = CountQuery(None, None)
        /\ \A k \in Cuisines : Seen(g, RowQuery(k)) = c /\ g[RowQuery(k)].of = RowQuery(k)
    BY <1>1, <2>1
  <2>3. /\ Body(g, a).rows = Rows(g) /\ Body(g, a).total = Total(c, None, None)
        /\ Body(g, a).restaurants = UNION {Rows(g)[k] : k \in DOMAIN Rows(g)}
    <3>1. TotalFor(g, CountQuery(None, None)) = Total(c, None, None)
      BY <2>2 DEF TotalFor, CountQuery
    <3> QED
      BY <1>5, <3>1 DEF Body
  <2>4. RightRows(Body(g, a), c)
    BY <1>1, <2>2, <2>3, RowsRight
  <2> QED
    BY <1>5, <2>4 DEF Right
<1>6. CASE a.endpoint = "discover"
  BY <1>6, DeckRight DEF Right
<1>7. CASE a.endpoint = "home"
  <2> DEFINE lead == Leading(g, HomeSize)
             all == {r \in Served(c, None, None) : c[r].awards # {}}
             mentions(r) == Cardinality(c[r].awards)
  <2>1. all = Awarded(c) /\ \A r \in all : mentions(r) \in Nat
    BY <1>1, <1>2, MentionsOf DEF Awarded
  <2>2. Seen(g, AwardsQuery) = c
    BY <1>1, <1>7 DEF AwaitedBy
  <2>3. CutTo(lead, all, HomeSize) /\ \A r \in lead, q \in all \ lead : MoreAwarded(c, r, q)
    <3>1. /\ CutTo(lead, Awarded(c), HomeSize)
          /\ \A r \in lead, q \in Awarded(c) \ lead : MoreAwarded(c, r, q)
      BY <1>1, <2>2, LeadingFirst
    <3> QED
      BY <2>1, <3>1
  <2>4. Body(g, a).restaurants = lead
    BY <1>7 DEF Body
  <2> HIDE DEF lead, all
  <2>5. lead \subseteq all /\ Cardinality(lead) = Least(HomeSize, Cardinality(all))
    BY <2>3 DEF CutTo, Least
  <2>6. \A r \in lead, q \in all \ lead : ~(mentions(q) > mentions(r))
    BY <2>1, <2>3, <2>5 DEF MoreAwarded
  <2> QED
    BY <1>7, <2>4, <2>5, <2>6 DEF Right, RightDeck, BestOf, all
<1>8. CASE a.endpoint = "award"
  BY <1>1, <1>3, <1>8 DEF Right, Body, AwaitedBy
<1>9. CASE a.endpoint = "awards"
  <2>1. Body(g, a).counts = [b \in DOMAIN AwardIndex(c) |-> Cardinality(AwardIndex(c)[b])]
    BY <1>1, <1>9 DEF Body, AwaitedBy
  <2>2. RightAwards(Body(g, a), c)
    BY <1>3, <2>1 DEF RightAwards, AwardIndex
  <2> QED
    BY <1>9, <2>2 DEF Right
<1>10. CASE a.endpoint = "cuisines"
  <2>1. Body(g, a).counts = [k \in Counted(c) |-> CountOf(c, k)]
    BY <1>1, <1>10 DEF Body, AwaitedBy
  <2>2. ASSUME NEW k \in Cuisines
        PROVE  (IF k \in DOMAIN Body(g, a).counts THEN Body(g, a).counts[k] ELSE 0)
                   = Cardinality(Served(c, k, None))
    <3>1. Cardinality(Served(c, k, None)) = CountOf(c, k) /\ CountOf(c, k) \in Nat
      BY <1>1, ServedFound
    <3>2. k \in Counted(c) <=> CountOf(c, k) > 0
      BY <1>1, ServedFound
    <3> QED
      BY <2>1, <3>1, <3>2
  <2> QED
    BY <1>10, <2>2 DEF Right
<1>11. CASE a.endpoint = "restaurant"
  BY <1>1, <1>2, <1>11 DEF Right, Body, AwaitedBy
<1> QED
  BY <1>4, <1>5, <1>6, <1>7, <1>8, <1>9, <1>10, <1>11 DEF AskTypes

-----------------------------------------------------------------------------
\* An answer on a screen is made of versions that are recent for it.
LEMMA ShownIsRecent ==
    ASSUME ContentInv, NEW s \in Screens, shown[s] # None
    PROVE  \E g \in [AwaitedBy(ask[s]) -> [of : Queries, ver : Recent(s)]] :
               /\ shown[s].body = Body(g, ask[s])
               /\ \A q \in AwaitedBy(ask[s]) : g[q].of = shown[s].from[q] /\ Fits(g[q].of, q)
<1> DEFINE a == ask[s]
           from == shown[s].from
           t == shown[s].at - (MaxAge + Staleness)
<1>1. Made(a, shown[s].body, t, from)
  BY DEF ContentInv, ShownInv
<1>2. Recent(s) = {v \in 0..MaxVersion : CurrentSince(v, t)}
  BY DEF Recent
<1> HIDE DEF t, a, from
<1>3. PICK ver \in [AwaitedBy(a) -> Recent(s)] :
          shown[s].body = Body([q \in AwaitedBy(a) |-> [of |-> from[q], ver |-> ver[q]]], a)
  BY <1>1, <1>2 DEF Made
<1>4. from \in [AwaitedBy(a) -> Queries] /\ \A q \in AwaitedBy(a) : Fits(from[q], q)
  BY <1>1 DEF Made
<1> DEFINE g == [q \in AwaitedBy(a) |-> [of |-> from[q], ver |-> ver[q]]]
<1>5. /\ g \in [AwaitedBy(a) -> [of : Queries, ver : Recent(s)]]
      /\ \A q \in AwaitedBy(a) : g[q].of = from[q]
  BY <1>4
<1>6. shown[s].body = Body(g, a)
  BY <1>3
<1> HIDE DEF g
<1> QED
  BY <1>4, <1>5, <1>6 DEF a, from

\* A query was only answered what another one had asked if the screen is Mistaken.
LEMMA OwnUnlessMistaken ==
    ASSUME NEW s \in Screens, ask[s] \in Asks, ~Mistaken(s), NEW q \in AwaitedBy(ask[s]),
           shown[s].from[q] \in Queries, Fits(shown[s].from[q], q)
    PROVE  shown[s].from[q] = q
BY AwaitedAreQueries, KeysApart DEF Mistaken

\* Nobody sees a restaurant that had left the catalog for longer than the two caches
\* may hide, whatever answers the handlers put together, their own or another query's
\* (api/cache_headers.py:3-7, core/db/cached_restaurant_repository.py:6-14, 37).
THEOREM RecentRestaurants == Spec => []ShowsRecentRestaurants
<1>1. ContentInv => ShowsRecentRestaurants
  <2> SUFFICES ASSUME ContentInv, NEW s \in Screens, shown[s] # None
               PROVE  \A r \in shown[s].body.restaurants :
                          \E v \in Recent(s) : r \in InScope(content[v])
    BY DEF ShowsRecentRestaurants
  <2>1. PICK g \in [AwaitedBy(ask[s]) -> [of : Queries, ver : Recent(s)]] :
            shown[s].body = Body(g, ask[s])
    BY ShownIsRecent
  <2>2. content \in Histories /\ ask[s] \in Asks /\ Recent(s) \in SUBSET (0..MaxVersion)
    BY DEF ContentInv, TypeOK, Recent
  <2> QED
    BY <2>1, <2>2, BodyServed
<1> QED
  BY <1>1, ContentInvariant, PTL

\* Answers put together from queries that saw different catalogs are whole
\* (api/routers/couvert.py:55-59, 138-142), but for a deck filled with the answer to a
\* request for the label "None".
THEOREM AnswersAreWhole == Spec => []WholeAnswers
<1>1. ContentInv => WholeAnswers
  <2> SUFFICES ASSUME ContentInv
               PROVE  WholeAnswers
    OBVIOUS
  <2>1. ASSUME NEW s \in Screens, shown[s] # None
        PROVE  LET body == shown[s].body
                   size == Cardinality(body.restaurants)
               IN  /\ ask[s].endpoint = "restaurants" /\ ~IsFiltered(ask[s]) =>
                         \A k \in DOMAIN body.rows :
                             /\ Cardinality(body.rows[k]) \in 1..RowSize
                             /\ k # NoneLabel => \A r \in body.rows[k] : \E v \in Recent(s) :
                                    r \in Found(content[v], k, None)
                   /\ ask[s].endpoint = "discover" =>
                         /\ size <= ask[s].limit
                         /\ \/ size = ask[s].limit
                            \/ Mistaken(s)
                            \/ \E v \in Recent(s) : size >= Cardinality(InScope(content[v]))
    <3> DEFINE a == ask[s]
               filler == FillerQuery(a)
    <3>1. PICK g \in [AwaitedBy(a) -> [of : Queries, ver : Recent(s)]] :
              /\ shown[s].body = Body(g, a)
              /\ \A q \in AwaitedBy(a) : g[q].of = shown[s].from[q] /\ Fits(g[q].of, q)
      BY <2>1, ShownIsRecent
    <3>2. content \in Histories /\ a \in Asks /\ Recent(s) \in SUBSET (0..MaxVersion)
      BY DEF ContentInv, TypeOK, Recent
    <3>3. a.endpoint = "discover" /\ ~Mistaken(s) => g[filler].of = filler
      <4> SUFFICES ASSUME a.endpoint = "discover", ~Mistaken(s)
                   PROVE  g[filler].of = filler
        OBVIOUS
      <4>1. filler \in AwaitedBy(a)
        BY DEF AwaitedBy
      <4>2. g[filler].of \in Queries
        BY <4>1
      <4> QED
        BY <3>1, <3>2, <4>1, <4>2, OwnUnlessMistaken
    <3>4. \A q \in AwaitedBy(a) : Fits(g[q].of, q)
      BY <3>1
    <3> HIDE DEF a
    <3>5. LET body == Body(g, a)
              size == Cardinality(body.restaurants)
          IN  /\ a.endpoint = "restaurants" /\ ~IsFiltered(a) =>
                    \A k \in DOMAIN body.rows :
                        /\ Cardinality(body.rows[k]) \in 1..RowSize
                        /\ k # NoneLabel => \A r \in body.rows[k] : \E v \in Recent(s) :
                               r \in Found(content[v], k, None)
              /\ a.endpoint = "discover" =>
                    /\ size <= a.limit
                    /\ \/ size = a.limit
                       \/ g[FillerQuery(a)].of # FillerQuery(a)
                       \/ \E v \in Recent(s) : size >= Cardinality(InScope(content[v]))
      BY <3>2, <3>4, BodyWhole
    <3> QED
      BY <3>1, <3>3, <3>5 DEF a
  <2> QED
    BY <2>1 DEF WholeAnswers
<1> QED
  BY <1>1, ContentInvariant, PTL

\* Once the caches have forgotten what was before a seed run, every screen is right about
\* the catalog it published (core/models/couvert.py:67-68, api/routers/couvert.py:136-137),
\* unless a request without a label was answered what one for "None" had asked, or the
\* other way round (core/db/cached_restaurant_repository.py:37, 54).
THEOREM ScreensSettle == Spec => []SettledScreens
<1>1. ContentInv => SettledScreens
  <2> SUFFICES ASSUME ContentInv, NEW s \in Screens, NEW v \in 0..MaxVersion,
                      shown[s] # None, Recent(s) = {v}, ~Mistaken(s)
               PROVE  Right(ask[s], shown[s].body, content[v])
    BY DEF SettledScreens
  <2>1. PICK g \in [AwaitedBy(ask[s]) -> [of : Queries, ver : {v}]] :
            /\ shown[s].body = Body(g, ask[s])
            /\ \A q \in AwaitedBy(ask[s]) : g[q].of = shown[s].from[q] /\ Fits(g[q].of, q)
    BY ShownIsRecent
  <2>2. content \in Histories /\ ask[s] \in Asks
    BY DEF ContentInv, TypeOK
  <2>3. \A q \in AwaitedBy(ask[s]) : g[q].of = q
    BY <2>1, <2>2, OwnUnlessMistaken
  <2>4. Right(ask[s], Body(g, ask[s]), content[v])
    BY <2>2, <2>3, BodyRight
  <2> QED
    BY <2>1, <2>4
<1> QED
  BY <1>1, ContentInvariant, PTL
=============================================================================
