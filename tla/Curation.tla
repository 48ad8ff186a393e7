------------------------------ MODULE Curation ------------------------------
(***************************************************************************)
(* The documents of the catalog and how the data jobs fold rows into them: *)
(* rows of one slug (jobs/ingest_excel.py), what the Maps resolution says  *)
(* of a name, and documents of one Google place (jobs/seed_restaurants.py).*)
(*                                                                         *)
(* Of a row the name, the scalar cells and the items of its list cells are *)
(* kept, lists as sets.  An id is a slug, the sequence of its parts:       *)
(* "toto-2" is <<toto, 2>>, whether it is the slug of the name "Toto 2" or *)
(* that of a second "Toto" numbered by ingestion.                          *)
(***************************************************************************)
EXTENDS Integers, Sequences

CONSTANTS Names,      \* names in the workbook
          Slug,       \* Slug[n]: make_restaurant_id(n)
          Parts,      \* what slugs are made of
          Scalars,    \* the scalar columns: chef, awards mention, comment
          Values,     \* what they may say
          Items,      \* items of the list columns
          Canonical,  \* Canonical[i]: the item, a cuisine under its one label
          Places,     \* Google place ids
          City,       \* City[p]: "sp", "other", or None if no city can be read
          Elsewhere,  \* names with a word that is another city
          None        \* an empty cell, no place, no city, no scope, no run

Ids == Seq(Parts \union Nat)

ASSUME CurationAssumption ==
    /\ Slug \in [Names -> Ids]
    /\ Canonical \in [Items -> Items]
    /\ City \in [Places -> {"sp", "other", None}]
    /\ Elsewhere \subseteq Names
    /\ None \notin Values /\ None \notin Places
    /\ None \notin {"sp", "other", "other_city", "unknown"}

Cells == [Scalars -> Values \union {None}]

Rows == [name : Names, scalars : Cells, items : SUBSET Items]

\* What resolution_from_cache answers; "uncached" is its None.  Only of a matched
\* name is the place looked at.
Resolutions == [status : {"closed", "unresolved", "uncached", "low_confidence"},
                place : {None}]
               \union [status : {"matched"}, place : Places]

\* A document; a fixture has no scope and no source name.
Docs == [id : Ids, name : Names \union {None}, scalars : Cells, items : SUBSET Items,
         place : Places \union {None},
         scope : {"sp", "other_city", "unknown", None},
         merged : SUBSET Ids]

-----------------------------------------------------------------------------
\* row_to_doc: until its name is resolved a document is in scope, as the model of
\* the document has it.
RowDoc(row) == [id |-> Slug[row.name], name |-> row.name, scalars |-> row.scalars,
                items |-> {Canonical[i] : i \in row.items},
                place |-> None, scope |-> "sp", merged |-> {}]

\* No cell of the two disagrees where both say something.
Compatible(a, b) == \A f \in Scalars :
    a.scalars[f] # None /\ b.scalars[f] # None => a.scalars[f] = b.scalars[f]

\* Fault: an empty cell of the first row wins over what the second one says.
KeepFirst(a, b) == [a EXCEPT !.items = @ \union b.items]

\* _merge: the cells of a, filled up with those of b, and the items of both.
Merge(a, b) ==
    [a EXCEPT !.scalars = [f \in Scalars |-> IF @[f] # None THEN @[f] ELSE b.scalars[f]],
              !.items = @ \union b.items]

At(docs, id) == {i \in DOMAIN docs : docs[i].id = id}

\* Fault: a second conflicting row always gets the number 2.
AlwaysTwo(docs, id) == Append(id, 2)

\* The id with the first number from 2 on that no document has.
Numbered(docs, id) ==
    LET free(n) == At(docs, Append(id, n)) = {}
    IN  Append(id, CHOOSE n \in 2..(Len(docs) + 2) :
                       free(n) /\ \A m \in 2..(n - 1) : ~free(m))

\* dedupe, one row of it: the row joins the document of its slug, or is kept apart
\* under a number if they conflict.
Ingest(docs, doc) ==
    IF At(docs, doc.id) = {} THEN Append(docs, doc)
    ELSE LET i == CHOOSE j \in At(docs, doc.id) : TRUE
         IN  IF Compatible(docs[i], doc)
             THEN [docs EXCEPT ![i] = Merge(@, doc)]
             ELSE Append(docs, [doc EXCEPT !.id = Numbered(docs, doc.id)])

-----------------------------------------------------------------------------
\* Fault: a document whose city is unknown is taken to be in Sao Paulo.
ServeUnknown(name, city) == IF name \in Elsewhere \/ city = "other" THEN "other_city"
                                                                     ELSE "sp"

\* Fault: the city is written for the scope.
CityForScope(name, city) == CASE name \in Elsewhere -> "other_city"
                              [] name \notin Elsewhere /\ city = None -> "unknown"
                              [] name \notin Elsewhere /\ city # None -> city

\* scope_for: the curated name outranks the match.
ScopeFor(name, city) == CASE name \in Elsewhere -> "other_city"
                          [] name \notin Elsewhere /\ city = None -> "unknown"
                          [] name \notin Elsewhere /\ city = "sp" -> "sp"
                          [] name \notin Elsewhere /\ city = "other" -> "other_city"

\* Fault: a namesake in Sao Paulo is taken for a restaurant of another city.
KeepNamesake(doc, res) ==
    LET city == IF res.status = "matched" THEN City[res.place] ELSE None
    IN  [doc EXCEPT !.scope = ScopeFor(doc.name, city),
                    !.place = IF res.status = "matched" THEN res.place ELSE None]

\* apply_resolution: a trusted match brings its place, unless the name says another
\* city and the match is in Sao Paulo.
ApplyResolution(doc, res) ==
    LET city == IF res.status = "matched" THEN City[res.place] ELSE None
        scope == ScopeFor(doc.name, city)
        wrongCity == scope = "other_city" /\ city = "sp"
    IN  [doc EXCEPT !.scope = scope,
                    !.place = IF res.status = "matched" /\ ~wrongCity THEN res.place
                                                                       ELSE None]

\* Fault: the absorbed document's id is forgotten.
AbsorbIdLost(keeper, other) == [Merge(keeper, other) EXCEPT !.merged = @ \union other.merged]

\* _absorb: as Merge, but the two may disagree, and the ids are remembered.
Absorb(keeper, other) ==
    [Merge(keeper, other) EXCEPT !.merged = @ \union {other.id} \union other.merged]

\* dedupe_by_place, one document of it: the earliest of a place survives.
Place(catalog, doc) ==
    LET same == {i \in DOMAIN catalog : doc.place # None /\ catalog[i].place = doc.place}
    IN  IF same = {} THEN Append(catalog, doc)
        ELSE [catalog EXCEPT ![CHOOSE i \in same : TRUE] = Absorb(@, doc)]

\* restaurant_docs: a fixture, the same on every run.
FixtureDoc(id) == [id |-> id, name |-> None, scalars |-> [f \in Scalars |-> None],
                   items |-> {}, place |-> None, scope |-> None, merged |-> {}]
=============================================================================
