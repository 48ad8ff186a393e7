----------------------------- MODULE ContentApi -----------------------------
(***************************************************************************)
(* The content endpoints (api/routers/couvert.py) from the catalog to the  *)
(* screen of a phone.  A handler awaits one or more queries, one after     *)
(* another or gathered, most of them through CachedRestaurantRepository;   *)
(* a seed job may publish between any two of them, and cached answers are  *)
(* of different ages.  The cache is what CatalogReads promises, which      *)
(* TtlCache implements.  On top of it the phone keeps each answer for      *)
(* max-age and then revalidates it by its ETag (api/cache_headers.py).     *)
(*                                                                         *)
(* What a handler has read is, for each of its queries, the query its      *)
(* answer was loaded for and the catalog version that load saw; the body   *)
(* of its answer is a function of these.  The two queries are one and the  *)
(* same unless they share a key: the keys are f-strings, in which no label *)
(* is written as the label "None" is.                                      *)
(***************************************************************************)
EXTENDS CatalogQueries

CONSTANTS Screens,      \* screens of phones, each always asking for the same
          Asks,         \* what a screen may ask for
          Histories,    \* the successive contents of the catalog, by version
          RowCuisines, RowSize, HomeSize,
          Limits,       \* page and deck sizes asked for
          MaxAge,       \* max-age of an answer on the phone
          Staleness,    \* how old an answer of the server's cache may be
          MaxTime, MaxVersion,
          NoneLabel     \* the label whose text is "None"

\* The requests the router lets through.
AskTypes ==
    [endpoint : {"cuisines", "home", "awards"}]
    \union [endpoint : {"award"}, award : Awards]
    \union [endpoint : {"restaurant"}, place : Restaurants]
    \union [endpoint : {"discover"}, limit : Limits]
    \union [endpoint : {"restaurants"}, label : Labels \union {None},
            term : Terms \union {None}, limit : Limits]

ASSUME ContentAssumption ==
    /\ Asks \subseteq AskTypes
    /\ Histories \subseteq [0..MaxVersion -> Catalogs]
    /\ RowCuisines \in Nat /\ RowSize \in Nat \ {0} /\ HomeSize \in Nat
    /\ Limits \subseteq Nat
    /\ MaxAge \in Nat /\ Staleness \in Nat
    /\ MaxTime \in Nat /\ MaxVersion \in Nat

\* The queries of the repository; those without a term are cached (get is not).
CountsQuery == <<"cuisine_counts">>
AwardsQuery == <<"with_awards">>
SearchQuery(label, term, n) == <<"search", label, term, n>>
CountQuery(label, term) == <<"count", label, term>>
GetQuery == <<"get">>

CachedQueries ==
    {CountsQuery, AwardsQuery}
    \union {SearchQuery(l, None, n) : l \in Labels \union {None}, n \in Limits \union {RowSize}}
    \union {CountQuery(l, None) : l \in Labels \union {None}}

Queries == CachedQueries \union {GetQuery}
    \union {SearchQuery(l, t, n) : l \in Labels \union {None}, t \in Terms, n \in Limits}
    \union {CountQuery(l, t) : l \in Labels \union {None}, t \in Terms}

\* f"{cuisine}" in a key.
KeyLabel(label) == IF label = NoneLabel THEN None ELSE label

\* Fault: the key does not say how many are asked for.
KeyWithoutLimit(q) ==
    IF q[1] \in {"search", "count"} THEN <<q[1], KeyLabel(q[2])>> ELSE q

\* The key of a cached query.
KeyOf(q) == CASE q[1] = "search" -> <<"search", KeyLabel(q[2]), q[4]>>
              [] q[1] = "count" -> <<"count", KeyLabel(q[2])>>
              [] OTHER -> q

CachedKeys == {KeyOf(q) : q \in CachedQueries}

\* The queries whose answers are cached under the key of q.
SameKey == [q \in CachedQueries |-> {p \in CachedQueries : KeyOf(p) = KeyOf(q)}]

\* What a query is answered: what the query "of" finds in version "ver".
Answers == [of : Queries, ver : 0..MaxVersion]

VARIABLES now, db, since, served, lag,  \* see CatalogReads
          content,  \* content[v]: version v of the catalog
          ask,      \* ask[s]: what screen s asks for
          sent,     \* sent[s]: when its request in progress was sent, or None
          got,      \* got[s]: the answer each query of that request got
          kept,     \* kept[s]: the answer the phone keeps, and since when
          shown     \* shown[s]: the answer last shown, and when it was asked for

catalogVars == <<now, db, since, served, lag>>
vars == <<catalogVars, content, ask, sent, got, kept, shown>>

Reads == INSTANCE CatalogReads WITH Keys <- CachedKeys

Unasked == [k \in Queries |-> None]

Init == /\ Reads!Init
        /\ content \in Histories
        /\ ask \in [Screens -> Asks]
        /\ sent = [s \in Screens |-> None]
        /\ got = [s \in Screens |-> Unasked]
        /\ kept = [s \in Screens |-> None]
        /\ shown = [s \in Screens |-> None]

-----------------------------------------------------------------------------
\* The handlers: what one still waits for, and what it answers, given the answers g
\* to its queries.  The answer to query k was read from this catalog:
Seen(g, k) == content[g[k].ver]

\* The restaurants, and the number, with which searches and counts are answered.
ListFor(g, k) == LET q == g[k].of IN Page(Seen(g, k), q[2], q[3], q[4])
TotalFor(g, k) == LET q == g[k].of IN Total(Seen(g, k), q[2], q[3])

Unread(g, ks) == {k \in ks : g[k] = None}

\* await ks, then more.
Then(g, ks, more) == IF Unread(g, ks) # {} THEN Unread(g, ks) ELSE more

IsFiltered(a) == a.label # None \/ a.term # None

\* _build_rows: the most frequent cuisines, a query for each.
TopCuisines(g) == LET c == Seen(g, CountsQuery)
                  IN  {x.cuisine : x \in Foremost(Counts(c), RowCuisines, Commoner)}

RowQuery(k) == SearchQuery(k, None, RowSize)
Row(g, k) == ListFor(g, RowQuery(k))

\* A cuisine that has lost its restaurants since it was counted gets no row.
Rows(g) == [k \in {j \in TopCuisines(g) : Row(g, j) # {}} |-> Row(g, k)]

\* _most_awarded(with_awards())[:n]
Leading(g, n) == LET c == Seen(g, AwardsQuery)
                     Before(q, r) == MoreAwarded(c, q, r)
                 IN  Foremost(Awarded(c), n, Before)

\* As many as the deck holds, for some of them may lead it already.
FillerQuery(a) == SearchQuery(None, None, a.limit)

\* Fault: the filler is cut to size before the restaurants of the deck are dropped.
FillerWithRepeats(g, a) ==
    Foremost(ListFor(g, FillerQuery(a)),
             a.limit - Cardinality(Leading(g, a.limit)), ByName)

\* discover_deck fills up with the first of all restaurants that are not in it.
Filler(g, a) ==
    LET lead == Leading(g, a.limit)
    IN  Foremost(ListFor(g, FillerQuery(a)) \ lead,
                 a.limit - Cardinality(lead), ByName)

NeedsFiller(g, a) == Cardinality(Leading(g, a.limit)) < a.limit

\* Every query the handler of a may await.
AwaitedBy(a) ==
    CASE a.endpoint = "cuisines" -> {CountsQuery}
      [] a.endpoint \in {"home", "awards", "award"} -> {AwardsQuery}
      [] a.endpoint = "restaurant" -> {GetQuery}
      [] a.endpoint = "discover" -> {AwardsQuery, FillerQuery(a)}
      [] a.endpoint = "restaurants" /\ IsFiltered(a) ->
             {SearchQuery(a.label, a.term, a.limit), CountQuery(a.label, a.term)}
      [] a.endpoint = "restaurants" /\ ~IsFiltered(a) ->
             {CountsQuery, CountQuery(None, None)} \union {RowQuery(k) : k \in Cuisines}

\* Those it is waiting for.
Waiting(g, a) ==
    CASE a.endpoint = "cuisines" -> Unread(g, {CountsQuery})
      [] a.endpoint \in {"home", "awards", "award"} -> Unread(g, {AwardsQuery})
      [] a.endpoint = "restaurant" -> Unread(g, {GetQuery})
      [] a.endpoint = "discover" ->
             Then(g, {AwardsQuery},
                  IF NeedsFiller(g, a) THEN Unread(g, {FillerQuery(a)}) ELSE {})
      [] a.endpoint = "restaurants" /\ IsFiltered(a) ->
             Then(g, {SearchQuery(a.label, a.term, a.limit)},
                  Unread(g, {CountQuery(a.label, a.term)}))
      [] a.endpoint = "restaurants" /\ ~IsFiltered(a) ->
             Then(g, {CountsQuery},
                  Then(g, {RowQuery(k) : k \in TopCuisines(g)},
                       Unread(g, {CountQuery(None, None)})))

\* Its answer: the restaurants in it, and what the endpoint adds to them.
Body(g, a) ==
    CASE a.endpoint = "cuisines" ->
             LET c == Seen(g, CountsQuery)
             IN  [restaurants |-> {}, counts |-> [k \in Counted(c) |-> CountOf(c, k)]]
      [] a.endpoint = "home" -> [restaurants |-> Leading(g, HomeSize)]
      [] a.endpoint = "awards" ->
             LET index == AwardIndex(Seen(g, AwardsQuery))
             IN  [restaurants |-> {},
                  counts |-> [b \in DOMAIN index |-> Cardinality(index[b])]]
      [] a.endpoint = "award" ->
             [restaurants |-> HoldersOf(Seen(g, AwardsQuery), a.award)]
      [] a.endpoint = "restaurant" ->
             [restaurants |-> {a.place} \intersect InScope(Seen(g, GetQuery))]
      [] a.endpoint = "discover" ->
             [restaurants |-> Leading(g, a.limit) \union
                              (IF NeedsFiller(g, a) THEN Filler(g, a) ELSE {})]
      [] a.endpoint = "restaurants" /\ IsFiltered(a) ->
             [restaurants |-> ListFor(g, SearchQuery(a.label, a.term, a.limit)),
              total |-> TotalFor(g, CountQuery(a.label, a.term))]
      [] a.endpoint = "restaurants" /\ ~IsFiltered(a) ->
             LET rows == Rows(g)
             IN  [restaurants |-> UNION {rows[k] : k \in DOMAIN rows},
                  rows |-> rows,
                  total |-> TotalFor(g, CountQuery(None, None))]

\* An unknown restaurant or award is a 404.
Missing(a, body) == /\ a.endpoint \in {"restaurant", "award"}
                    /\ body.restaurants = {}

-----------------------------------------------------------------------------
\* For the properties: which query the answer to each query of a was loaded for.
Origins(g, a) == [q \in AwaitedBy(a) |-> IF g[q] = None THEN q ELSE g[q].of]

Stamped(body, t, from) == [body |-> body, at |-> t, from |-> from]

Show(s, body, t, from) == shown' = [shown EXCEPT ![s] = Stamped(body, t, from)]

\* Fault: what the handler has read is kept for the next request.
KeepReads(s) == /\ sent' = [sent EXCEPT ![s] = None]
                /\ UNCHANGED got

EndRequest(s) == /\ sent' = [sent EXCEPT ![s] = None]
                 /\ got' = [got EXCEPT ![s] = Unasked]

KeptFresh(s) == kept[s] # None /\ now - kept[s].at <= MaxAge

\* The phone answers from its own cache.
ShowKept(s) == /\ sent[s] = None
               /\ KeptFresh(s)
               /\ Show(s, kept[s].body, now, kept[s].from)
               /\ UNCHANGED <<catalogVars, content, ask, sent, got, kept>>

Request(s) == /\ sent[s] = None
              /\ ~KeptFresh(s)
              /\ sent' = [sent EXCEPT ![s] = now]
              /\ UNCHANGED <<catalogVars, content, ask, got, kept, shown>>

Learn(s, q, answer) == got' = [got EXCEPT ![s][q] = answer]

\* One of the awaited queries is answered through the cache, with what was loaded
\* for whoever asked first under its key, or by the database.
ReadCached(s) ==
    /\ sent[s] # None
    /\ \E q \in Waiting(got[s], ask[s]) \intersect CachedQueries : \E p \in SameKey[q] :
          /\ Reads!Answer(KeyOf(q))
          /\ Learn(s, q, [of |-> p, ver |-> served'[KeyOf(q)]])
    /\ UNCHANGED <<content, ask, sent, kept, shown>>

ReadDirectly(s) ==
    /\ sent[s] # None
    /\ \E q \in Waiting(got[s], ask[s]) \ CachedQueries : Learn(s, q, [of |-> q, ver |-> db])
    /\ UNCHANGED <<catalogVars, content, ask, sent, kept, shown>>

\* A query raises: the handler answers 500, which no phone keeps or shows.
QueryFails(s) == /\ sent[s] # None
                 /\ Waiting(got[s], ask[s]) # {}
                 /\ EndRequest(s)
                 /\ UNCHANGED <<catalogVars, content, ask, kept, shown>>

\* Fault: the ETag is of the request, so a revalidation always says 304.
EtagOfRequest(s, body) == IF kept[s] = None THEN body ELSE kept[s].body

\* The middleware compares hashes of the bodies: 304 lets the phone go on with its
\* own copy, and 200 brings the new one.
Revalidated(s, body) ==
    IF kept[s] # None /\ kept[s].body = body THEN kept[s].body ELSE body

\* The answer arrives.  Its age counts from the request; a 404 is not kept.
Respond(s) ==
    /\ sent[s] # None
    /\ Waiting(got[s], ask[s]) = {}
    /\ LET body == Body(got[s], ask[s])
           from == Origins(got[s], ask[s])
       IN  IF Missing(ask[s], body)
           THEN /\ kept' = [kept EXCEPT ![s] = None]
                /\ Show(s, body, sent[s], from)
           ELSE /\ kept' = [kept EXCEPT ![s] =
                               Stamped(Revalidated(s, body), sent[s], from)]
                /\ Show(s, Revalidated(s, body), sent[s], from)
    /\ EndRequest(s)
    /\ UNCHANGED <<catalogVars, content, ask>>

\* A seed job publishes, or time passes.  A request may take any time.
Publish == Reads!Publish /\ UNCHANGED <<content, ask, sent, got, kept, shown>>
Tick == Reads!Tick /\ UNCHANGED <<content, ask, sent, got, kept, shown>>

Next == \/ \E s \in Screens : \/ ShowKept(s) \/ Request(s)
                              \/ ReadCached(s) \/ ReadDirectly(s) \/ QueryFails(s)
                              \/ Respond(s)
        \/ Publish \/ Tick

Spec == Init /\ [][Next]_vars

-----------------------------------------------------------------------------
\* Version v was current at time t or later.
CurrentSince(v, t) == v <= db /\ (v < db => since[v + 1] >= t)

\* The versions an answer of screen s may be of: the ages of the server's and of
\* the phone's cache add up.
Recent(s) == {v \in 0..MaxVersion :
                 CurrentSince(v, shown[s].at - (MaxAge + Staleness))}

\* Every restaurant on a screen was served by a catalog current at most MaxAge +
\* Staleness before it was asked for, whichever queries and caches it came through
\* (api/cache_headers.py:3-7, core/db/cached_restaurant_repository.py:6-14).
ShowsRecentRestaurants == \A s \in Screens : shown[s] # None =>
    \A r \in shown[s].body.restaurants :
        \E v \in Recent(s) : r \in InScope(content[v])

\* The queries whose key the label "None" shares with no label at all.
SharesKey(q) == /\ NoneLabel \in Labels
                /\ q[1] \in {"search", "count"}
                /\ q[2] \in {None, NoneLabel}

\* What screen s shows may be made of the answer to another query: to one for the
\* label "None" instead of one without a label, or the other way round.
Mistaken(s) == \E q \in AwaitedBy(ask[s]) : shown[s].from[q] # q /\ SharesKey(q)

\* An answer put together from queries that saw different catalogs is still whole: a
\* row is never empty nor too long and only has restaurants of its own cuisine, and
\* the deck is as full as some recent catalog can fill it (api/routers/couvert.py:
\* 55-59, 138-142).  Two things are at the mercy of the key "None" is written in: the
\* restaurants of a cuisine called so, and how full a deck is that was filled with
\* what another request found.
WholeAnswers == \A s \in Screens : shown[s] # None =>
    LET body == shown[s].body
        size == Cardinality(body.restaurants)
    IN  /\ ask[s].endpoint = "restaurants" /\ ~IsFiltered(ask[s]) =>
              \A k \in DOMAIN body.rows :
                  /\ Cardinality(body.rows[k]) \in 1..RowSize
                  /\ k # NoneLabel => \A r \in body.rows[k] : \E v \in Recent(s) :
                         r \in Found(content[v], k, None)
        /\ ask[s].endpoint = "discover" =>
              /\ size <= ask[s].limit
              /\ \/ size = ask[s].limit
                 \/ Mistaken(s)
                 \/ \E v \in Recent(s) : size >= Cardinality(InScope(content[v]))

\* What each endpoint promises when there is one catalog c to answer from.
Served(c, cuisine, term) ==
    {r \in Restaurants : /\ c[r] # None /\ c[r].scope = "sp"
                         /\ cuisine # None => cuisine \in c[r].cuisines
                         /\ term # None => r \in Named[term]}

Least(m, n) == IF m <= n THEN m ELSE n

\* page is the best n of all, nothing left out being before something in it.
BestOf(page, all, n, Before(_, _)) ==
    /\ page \subseteq all
    /\ Cardinality(page) = Least(n, Cardinality(all))
    /\ \A r \in page, q \in all \ page : ~Before(q, r)

CuisineOf(label) == IF label = None THEN None ELSE Canonical[label]

RightList(a, body, c) ==
    LET all == Served(c, CuisineOf(a.label), a.term)
    IN  /\ BestOf(body.restaurants, all, a.limit, ByName)
        /\ body.total = Cardinality(all)

RightRows(body, c) ==
    LET size(k) == Cardinality(Served(c, k, None))
        Commonest(j, k) == size(j) > size(k)
    IN  /\ BestOf(DOMAIN body.rows, {k \in Cuisines : size(k) > 0}, RowCuisines, Commonest)
        /\ \A k \in DOMAIN body.rows :
               BestOf(body.rows[k], Served(c, k, None), RowSize, ByName)
        /\ \A r \in Restaurants : r \in body.restaurants <=>
               \E k \in DOMAIN body.rows : r \in body.rows[k]
        /\ body.total = Cardinality(Served(c, None, None))

\* A deck has the restaurants with most awards, and those without any come last; the
\* home screen has no others.
RightDeck(body, all, size, c) ==
    LET MoreMentions(q, r) == Cardinality(c[q].awards) > Cardinality(c[r].awards)
    IN  BestOf(body.restaurants, all, size, MoreMentions)

HoldersIn(c, b) == {r \in Served(c, None, None) : b \in {AwardOf[m] : m \in c[r].awards}}

RightAwards(body, c) ==
    \A b \in Awards :
        /\ b \in DOMAIN body.counts <=> HoldersIn(c, b) # {}
        /\ b \in DOMAIN body.counts => body.counts[b] = Cardinality(HoldersIn(c, b))

Right(a, body, c) ==
    CASE a.endpoint = "restaurants" /\ IsFiltered(a) -> RightList(a, body, c)
      [] a.endpoint = "restaurants" /\ ~IsFiltered(a) -> RightRows(body, c)
      [] a.endpoint = "discover" -> RightDeck(body, Served(c, None, None), a.limit, c)
      [] a.endpoint = "home" ->
             RightDeck(body, {r \in Served(c, None, None) : c[r].awards # {}}, HomeSize, c)
      [] a.endpoint = "award" -> body.restaurants = HoldersIn(c, a.award)
      [] a.endpoint = "awards" -> RightAwards(body, c)
      [] a.endpoint = "cuisines" -> \A k \in Cuisines :
             (IF k \in DOMAIN body.counts THEN body.counts[k] ELSE 0)
                 = Cardinality(Served(c, k, None))
      [] a.endpoint = "restaurant" ->
             body.restaurants = Served(c, None, None) \intersect {a.place}

\* Once a seed run is MaxAge + Staleness old, every screen is right about the catalog
\* it published, whatever was cached before: lists are complete up to their limit and
\* in order, totals count everything that matches (core/models/couvert.py:67-68),
\* awarded restaurants lead the deck (api/routers/couvert.py:136-137).  Only what was
\* mistaken for the answer to a request for "None", or to one without a label, may not.
SettledScreens == \A s \in Screens, v \in 0..MaxVersion :
    shown[s] # None /\ Recent(s) = {v} /\ ~Mistaken(s)
        => Right(ask[s], shown[s].body, content[v])

\* "total is every restaurant matching the request" (core/models/couvert.py:67-68):
\* on a quiet catalog it is their number, whatever others have asked for.
TotalIsExact == \A s \in Screens, v \in 0..MaxVersion :
    shown[s] # None /\ Recent(s) = {v} /\ ask[s].endpoint = "restaurants"
        => shown[s].body.total =
               Cardinality(Served(content[v], CuisineOf(ask[s].label), ask[s].term))

\* "total is every restaurant matching the request, which can exceed
\* len(restaurants)" (core/models/couvert.py:67-68): it is never less.
TotalCoversPage == \A s \in Screens :
    shown[s] # None /\ ask[s].endpoint = "restaurants"
        => shown[s].body.total >= Cardinality(shown[s].body.restaurants)

-----------------------------------------------------------------------------
\* Why the screens are right.

\* An answer to query q may be what query p found: then they share a key.
Fits(p, q) == p = q \/ (q \in CachedQueries /\ p \in SameKey[q])

\* body is what the handler of a makes of answers to the queries "from" that versions
\* current at time t or later have given.
Made(a, body, t, from) ==
    /\ from \in [AwaitedBy(a) -> Queries]
    /\ \A q \in AwaitedBy(a) : Fits(from[q], q)
    /\ \E ver \in [AwaitedBy(a) -> {v \in 0..MaxVersion : CurrentSince(v, t)}] :
           body = Body([q \in AwaitedBy(a) |-> [of |-> from[q], ver |-> ver[q]]], a)

TypeOK == /\ now \in 0..MaxTime
          /\ db \in 0..MaxVersion
          /\ since \in [0..MaxVersion -> 0..MaxTime]
          /\ served \in [CachedKeys -> 0..MaxVersion]
          /\ content \in Histories
          /\ ask \in [Screens -> Asks]
          /\ sent \in [Screens -> 0..MaxTime \union {None}]
          /\ got \in [Screens -> [Queries -> Answers \union {None}]]
          /\ kept = [s \in Screens |-> kept[s]]
          /\ shown = [s \in Screens |-> shown[s]]

\* A query of a request in progress got an answer it may get, from a catalog that was
\* current at most Staleness before the request; so did those of the answer kept, and
\* the phone has shown no answer that was older than MaxAge.
RequestInv == \A s \in Screens :
    /\ sent[s] # None => sent[s] <= now
    /\ \A q \in Queries : got[s][q] # None =>
           /\ sent[s] # None
           /\ Fits(got[s][q].of, q)
           /\ CurrentSince(got[s][q].ver, sent[s] - Staleness)

KeptInv == \A s \in Screens : kept[s] # None =>
    /\ kept[s].at \in 0..now
    /\ Made(ask[s], kept[s].body, kept[s].at - Staleness, kept[s].from)

ShownInv == \A s \in Screens : shown[s] # None =>
    /\ shown[s].at \in 0..now
    /\ Made(ask[s], shown[s].body, shown[s].at - (MaxAge + Staleness), shown[s].from)

ContentInv == TypeOK /\ RequestInv /\ KeptInv /\ ShownInv
=============================================================================
