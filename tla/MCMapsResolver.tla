--------------------------- MODULE MCMapsResolver ---------------------------
(***************************************************************************)
(* A small instance of MapsResolver for TLC: two names whose slugs collide *)
(* and one with a cache file of its own, and a place for each.             *)
(***************************************************************************)
EXTENDS MapsResolver, TLC

CONSTANTS arabia, arabiaAccented, toto, f1, f2, p1, p2

MCFile == (arabia :> f1) @@ (arabiaAccented :> f1) @@ (toto :> f2)

\* p1 is right for the first two and p2 for the third, whose score is too low.
MCScore == (arabia :> (p1 :> 3 @@ p2 :> 1))
           @@ (arabiaAccented :> (p1 :> 2 @@ p2 :> 1))
           @@ (toto :> (p1 :> 0 @@ p2 :> 1))
=============================================================================
