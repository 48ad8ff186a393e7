---------------------------- MODULE CatalogReads ----------------------------
(***************************************************************************)
(* What reading the restaurant catalog through the cache promises, with no *)
(* cache in sight.  The catalog is a sequence of versions 0..db: a data    *)
(* job publishes the next one, and a reader of a query (a key) is answered *)
(* with some version of it.  Two promises bound the choice:                *)
(*                                                                         *)
(*   - answers to one query never go back in time;                         *)
(*   - an answer that is not current was current at most Staleness time    *)
(*     units ago.                                                          *)
(*                                                                         *)
(* TtlCache is shown to implement this module.                             *)
(***************************************************************************)
EXTENDS Integers

CONSTANTS Keys,        \* the cached queries
          Staleness,   \* how far behind the catalog an answer may be
          MaxTime,     \* bound of the clock
          MaxVersion   \* bound of the catalog versions

VARIABLES now,     \* the time
          db,      \* the version of the catalog that is current
          since,   \* since[v]: when version v became current
          served,  \* served[k]: the version the last answer to k carried
          lag      \* lag[k]: how long that version had been out of date

vars == <<now, db, since, served, lag>>

Init == /\ now = 0
        /\ db = 0
        /\ since = [v \in 0..MaxVersion |-> 0]
        /\ served = [k \in Keys |-> 0]
        /\ lag = [k \in Keys |-> 0]

Tick == /\ now < MaxTime
        /\ now' = now + 1
        /\ UNCHANGED <<db, since, served, lag>>

Publish == /\ db < MaxVersion
           /\ db' = db + 1
           /\ since' = [since EXCEPT ![db + 1] = now]
           /\ UNCHANGED <<now, served, lag>>

\* How long version v has not been the current one.
Behind(v) == IF v < db THEN now - since[v + 1] ELSE 0

Answer(k) == /\ \E v \in served[k]..db :
                   /\ Behind(v) <= Staleness
                   /\ served' = [served EXCEPT ![k] = v]
                   /\ lag' = [lag EXCEPT ![k] = Behind(v)]
             /\ UNCHANGED <<now, db, since>>

Next == Tick \/ Publish \/ \E k \in Keys : Answer(k)

Spec == Init /\ [][Next]_vars
=============================================================================
