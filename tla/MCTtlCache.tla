----------------------------- MODULE MCTtlCache -----------------------------
(***************************************************************************)
(* Small instances of TtlCache for TLC.                                    *)
(***************************************************************************)
EXTENDS TtlCache

CONSTANTS t1, t2, t3, k1, k2

MCCallers == {t1, t2, t3}
MCWarmUp == {t3}

\* Callers that no shutdown cancels are interchangeable, and so are keys.
MCSymmetry == Permutations({t1, t2}) \union Permutations(Keys)
=============================================================================
