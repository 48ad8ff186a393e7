---------------------------- MODULE MCContentApi ----------------------------
(***************************************************************************)
(* A small instance of ContentApi for TLC: four restaurants in the order   *)
(* of their names, three cuisines, a second spelling (9) of the first and  *)
(* the label "None" (0), which no restaurant has; four catalogs among      *)
(* which the seed job moves.                                               *)
(***************************************************************************)
EXTENDS ContentApi, TLC

CONSTANTS s1, t1, m1, m2, m3, a1, a2

MCCanonical == [l \in Labels |-> IF l = 9 THEN 1 ELSE l]
MCNamed == t1 :> {2, 3, 4}
MCAwardOf == (m1 :> a1) @@ (m2 :> a1) @@ (m3 :> a2)

InSaoPaulo(cuisines, awards) == [scope |-> "sp", cuisines |-> cuisines, awards |-> awards]
Parked(doc) == [doc EXCEPT !.scope = "other_city"]

MCPlain == (1 :> InSaoPaulo({1}, {})) @@ (2 :> InSaoPaulo({1, 2}, {}))
           @@ (3 :> InSaoPaulo({2}, {})) @@ (4 :> InSaoPaulo({3}, {}))
MCAwarded == (1 :> InSaoPaulo({1}, {})) @@ (2 :> InSaoPaulo({1}, {m1}))
             @@ (3 :> InSaoPaulo({2}, {m1, m2})) @@ (4 :> InSaoPaulo({1, 3}, {m3}))
MCParked == (1 :> Parked(InSaoPaulo({1}, {m1}))) @@ (2 :> InSaoPaulo({3}, {m3}))
            @@ (3 :> InSaoPaulo({3}, {})) @@ (4 :> None)
MCEmpty == [r \in 1..4 |-> None]

MCHistories == {h \in [0..MaxVersion -> {MCPlain, MCAwarded, MCParked, MCEmpty}] :
                   \A v \in 1..MaxVersion : h[v] # h[v - 1]}

List(label, term, n) == [endpoint |-> "restaurants", label |-> label, term |-> term, limit |-> n]

MCAsks == {[endpoint |-> e] : e \in {"cuisines", "home", "awards"}}
          \union {[endpoint |-> "award", award |-> a1], [endpoint |-> "restaurant", place |-> 1]}
          \union {[endpoint |-> "discover", limit |-> n] : n \in {2, 3}}
          \union {List(None, None, 2), List(9, None, 2), List(1, None, 2),
                  List(None, t1, 2), List(1, t1, 2)}
          \union {List(l, None, 2) : l \in Labels \intersect {NoneLabel}}
=============================================================================
