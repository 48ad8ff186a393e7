----------------------------- MODULE MCLifespan -----------------------------
(***************************************************************************)
(* A small instance of Lifespan for TLC: the counts, a row, one other load *)
(* of the warm-up, and requests for any of their keys.                     *)
(***************************************************************************)
EXTENDS Lifespan, TLC

CONSTANTS counts, row, awarded, request, kCounts, kRow, kAwarded

MCPreload == (counts :> kCounts) @@ (row :> kRow) @@ (awarded :> kAwarded)

\* The process starts over an empty catalog, and the next one has a row.
MCWanted == [v \in 0..MaxVersion |-> IF v = 0 THEN {} ELSE {row}]
=============================================================================
