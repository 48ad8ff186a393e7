-------------------------- MODULE MCCatalogSeeding --------------------------
(***************************************************************************)
(* A small instance of CatalogSeeding for TLC: "Toto", "Toto 2", whose     *)
(* slug a second Toto would be numbered with, and "Gero Rio", which the    *)
(* search finds in Sao Paulo or in Rio.                                    *)
(***************************************************************************)
EXTENDS CatalogSeeding, TLC

CONSTANTS toto, toto2, geroRio, gero, rio, spot, chef, a, b, it1, it2, it3, var3, p1, p2, p3

MCSlug == (toto :> <<toto>>) @@ (toto2 :> <<toto, 2>>) @@ (geroRio :> <<gero, rio>>)
MCFixtureIds == {<<toto>>, <<spot>>}

MCCanonical == [i \in {it1, it2, it3, var3} |-> IF i = var3 THEN it3 ELSE i]
MCCity == (p1 :> "sp") @@ (p2 :> "other") @@ (p3 :> None)

\* The n-th row of a workbook has an item of its own, the third in another spelling.
Row(n, kind) == [name |-> kind[1], scalars |-> (chef :> kind[2]),
                 items |-> {<<it1, it2, var3>>[n]}]

Workbook(kinds) == [n \in DOMAIN kinds |-> Row(n, kinds[n])]

\* Two conflicts with one row, a cell filled up before a conflict, a number that
\* meets a real slug and one that skips it, three names, a row alone.
MCWorkbooks == {Workbook(<< <<toto, a>>, <<toto, b>>, <<toto, b>> >>),
                Workbook(<< <<toto, None>>, <<toto, a>>, <<toto, b>> >>),
                Workbook(<< <<toto, a>>, <<toto, b>>, <<toto2, None>> >>),
                Workbook(<< <<toto2, None>>, <<toto, a>>, <<toto, b>> >>),
                Workbook(<< <<toto, a>>, <<geroRio, a>>, <<toto2, None>> >>),
                Workbook(<< <<toto, b>> >>)}

Matched(p) == [status |-> "matched", place |-> p]
Untrusted(s) == [status |-> s, place |-> None]

MCResolved == {(toto :> t) @@ (toto2 :> u) @@ (geroRio :> v) :
                  t \in {Untrusted("closed"), Untrusted("low_confidence"), Matched(p1), Matched(p2)},
                  u \in {Untrusted("unresolved"), Matched(p1), Matched(p3)},
                  v \in {Matched(p1), Matched(p2)}}
=============================================================================
