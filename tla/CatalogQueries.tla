--------------------------- MODULE CatalogQueries ---------------------------
(***************************************************************************)
(* The restaurant catalog and the queries of CosmosRestaurantRepository    *)
(* (core/db/restaurant_repository.py) on one snapshot of it.               *)
(*                                                                         *)
(* A restaurant, and a cuisine, is the number of its name in the order     *)
(* ORDER BY and sorted use, so < compares names.  A catalog gives each     *)
(* restaurant its document, or None.  Of a document only what the queries  *)
(* and the handlers look at is kept: the scope, the cuisines, the mentions *)
(* of awards.                                                              *)
(***************************************************************************)
EXTENDS Integers, FiniteSets

CONSTANTS Restaurants,  \* in the order of their names
          Cuisines,     \* canonical labels, in their order
          Labels,       \* every label a client may ask for
          Canonical,    \* Canonical[l]: canonical_cuisine(l)
          Terms,        \* search terms
          Named,        \* Named[t]: the restaurants whose name or id contains t
          Mentions,     \* award mentions
          Awards,       \* award ids
          AwardOf,      \* AwardOf[m]: the id of m's label; None when it is blank
          None          \* no document, no filter, no award

ASSUME CatalogAssumption ==
    /\ Restaurants \subseteq Nat /\ IsFiniteSet(Restaurants)
    /\ Cuisines \subseteq Nat /\ IsFiniteSet(Cuisines)
    /\ Cuisines \subseteq Labels /\ Canonical \in [Labels -> Labels]
    /\ \A k \in Cuisines : Canonical[k] = k
    /\ Named \in [Terms -> SUBSET Restaurants]
    /\ IsFiniteSet(Mentions)
    /\ AwardOf \in [Mentions -> Awards \union {None}]
    /\ None \notin Labels /\ None \notin Terms /\ None \notin Awards

Docs == [scope : {"sp", "other_city", "unknown"}, cuisines : SUBSET Cuisines,
         awards : SUBSET Mentions]

Catalogs == [Restaurants -> Docs \union {None}]

\* scope = 'sp': the filter of every query.
InScope(c) == {r \in Restaurants : c[r] # None /\ c[r].scope = "sp"}

\* _filters: a cuisine under any of its spellings, a fragment of the name.
Found(c, label, term) ==
    {r \in InScope(c) : /\ label # None => Canonical[label] \in c[r].cuisines
                        /\ term # None => r \in Named[term]}

\* The first n in the order Before.
Foremost(S, n, Before(_, _)) == {r \in S : Cardinality({q \in S : Before(q, r)}) < n}

ByName(q, r) == q < r

\* search: ORDER BY name, LIMIT n.
Page(c, label, term, n) == Foremost(Found(c, label, term), n, ByName)

\* count: everything that matches, whatever the page.
Total(c, label, term) == Cardinality(Found(c, label, term))

\* cuisine_counts: the cuisines of the catalog with their restaurants.
CountOf(c, k) == Cardinality({r \in InScope(c) : k \in c[r].cuisines})
Counted(c) == UNION {c[r].cuisines : r \in InScope(c)}
Counts(c) == {[cuisine |-> k, count |-> CountOf(c, k)] : k \in Counted(c)}

\* Most frequent first.
Commoner(x, y) == \/ x.count > y.count
                  \/ x.count = y.count /\ x.cuisine < y.cuisine

\* with_awards
Awarded(c) == {r \in InScope(c) : c[r].awards # {}}

\* _most_awarded: more mentions first, then by name.
MoreAwarded(c, q, r) ==
    LET mentions(x) == Cardinality(c[x].awards)
    IN  \/ mentions(q) > mentions(r)
        \/ mentions(q) = mentions(r) /\ q < r

\* _award_index: the awarded restaurants by award.
HoldersOf(c, a) == {r \in Awarded(c) : \E m \in c[r].awards : AwardOf[m] = a}
AwardIndex(c) == [a \in {b \in Awards : HoldersOf(c, b) # {}} |-> HoldersOf(c, a)]
=============================================================================
