------------------------ MODULE CatalogSeedingProofs ------------------------
(***************************************************************************)
(* Proofs about CatalogSeeding, for every workbook, resolution and fixture *)
(* and any number of runs.  Lemmas say what each fold of Curation returns  *)
(* and preserves; SeedingInv, inductive, says of a run as far as it has    *)
(* come what the properties say of it and of the container.                *)
(***************************************************************************)
EXTENDS CatalogSeeding, FiniteSetTheorems, WellFoundedInduction, TLAPS

\* A row's document is a document (jobs/ingest_excel.py:86-109).
LEMMA RowDocTyped == ASSUME NEW row \in Rows PROVE RowDoc(row) \in Docs
<1>1. Slug[row.name] \in Ids
  BY CurationAssumption DEF Rows
<1>2. {Canonical[i] : i \in row.items} \in SUBSET Items
  BY CurationAssumption DEF Rows
<1> QED
  BY <1>1, <1>2 DEF RowDoc, Docs, Rows

\* So is a merged one; it keeps its own id, name, place, scope and merged ids.
LEMMA MergeTyped ==
    ASSUME NEW a \in Docs, NEW b \in Docs
    PROVE  /\ Merge(a, b) \in Docs
           /\ Merge(a, b).id = a.id /\ Merge(a, b).name = a.name
           /\ Merge(a, b).place = a.place /\ Merge(a, b).scope = a.scope
           /\ Merge(a, b).merged = a.merged
           /\ Merge(a, b).items = a.items \union b.items
           /\ Merge(a, b).scalars =
                 [f \in Scalars |-> IF a.scalars[f] # None THEN a.scalars[f] ELSE b.scalars[f]]
<1>1. [f \in Scalars |-> IF a.scalars[f] # None THEN a.scalars[f] ELSE b.scalars[f]] \in Cells
  BY DEF Docs, Cells
<1> QED
  BY <1>1 DEF Merge, Docs

\* There is a free number, as fewer documents than numbers are tried; so a numbered
\* id is the first one that no document has (jobs/ingest_excel.py:152-156).
LEMMA NumberedFree ==
    ASSUME NEW docs \in Seq(Docs), NEW id \in Ids
    PROVE  /\ Numbered(docs, id) \in {Append(id, k) : k \in 2..(Len(docs) + 2)}
           /\ Numbered(docs, id) \in Ids
           /\ At(docs, Numbered(docs, id)) = {}
<1> DEFINE free(n) == At(docs, Append(id, n)) = {}
           tried == 2..(Len(docs) + 2)
           first(n) == free(n) /\ \A m \in 2..(n - 1) : ~free(m)
<1>1. \E n \in tried : free(n)
  <2> SUFFICES ASSUME \A n \in tried : ~free(n)
               PROVE  FALSE
    OBVIOUS
  <2> DEFINE g == [n \in tried |-> CHOOSE i \in DOMAIN docs : docs[i].id = Append(id, n)]
  <2>1. \A n \in tried : \E i \in DOMAIN docs : docs[i].id = Append(id, n)
    BY DEF At
  <2>2. g \in [tried -> 1..Len(docs)]
    <3>1. \A n \in tried : g[n] \in DOMAIN docs
      BY <2>1, Zenon
    <3>2. DOMAIN docs = 1..Len(docs)
      OBVIOUS
    <3> QED
      BY <3>1, <3>2, Zenon
  <2>3. ASSUME NEW m \in tried, NEW n \in tried, g[m] = g[n]
        PROVE  m = n
    <3>1. docs[g[m]].id = Append(id, m) /\ docs[g[n]].id = Append(id, n)
      BY <2>1, Zenon
    <3>2. Append(id, m) = Append(id, n)
      BY <3>1, <2>3
    <3>3. Append(id, m)[Len(id) + 1] = m /\ Append(id, n)[Len(id) + 1] = n
      BY DEF Ids
    <3> QED
      BY <3>2, <3>3
  <2>4. IsFiniteSet(tried) /\ Cardinality(tried) = Len(docs) + 1
    BY FS_Interval
  <2>5. IsFiniteSet(1..Len(docs)) /\ Cardinality(1..Len(docs)) = Len(docs)
    BY FS_Interval
  <2> HIDE DEF g
  <2>6. ~(Cardinality(tried) > Cardinality(1..Len(docs)))
    <3> DEFINE places == 1..Len(docs)
    <3>1. g \in [tried -> places] /\ IsFiniteSet(tried) /\ IsFiniteSet(places)
      BY <2>2, <2>4, <2>5
    <3> HIDE DEF places, tried
    <3>2. ~(Cardinality(tried) > Cardinality(places))
      BY <2>3, <3>1, FS_PigeonHole
    <3> QED
      BY <3>2 DEF places, tried
  <2> QED
    BY <2>4, <2>5, <2>6
<1>2. \E n \in tried : first(n)
  <2> DEFINE Free == {n \in tried : free(n)}
             less == {ss \in Nat \X Nat : ss[1] < ss[2]}
  <2>1. IsWellFoundedOn(less, Nat)
    BY NatLessThanWellFounded DEF OpToRel
  <2>2. Free \subseteq Nat /\ Free # {}
    BY <1>1
  <2>3. PICK n \in Free : \A m \in Free : <<m, n>> \notin less
    <3> HIDE DEF Free, less
    <3> QED
      BY <2>1, <2>2, WFMin
  <2>4. \A m \in Free : ~(m < n)
    BY <2>2, <2>3
  <2>5. \A m \in 2..(n - 1) : m \in tried /\ m < n
    OBVIOUS
  <2> QED
    BY <2>3, <2>4, <2>5
<1>3. Numbered(docs, id) = Append(id, CHOOSE n \in tried : first(n))
  BY DEF Numbered
<1> DEFINE k == CHOOSE n \in tried : first(n)
<1>4. k \in tried /\ free(k)
  BY <1>2
<1>5. Append(id, k) \in Ids
  BY <1>4 DEF Ids
<1> QED
  BY <1>3, <1>4, <1>5


-----------------------------------------------------------------------------
\* Ingesting a row appends a document, or merges it into one it is compatible with
\* (jobs/ingest_excel.py:140-160).
LEMMA IngestCases ==
    ASSUME NEW docs \in Seq(Docs), NEW doc \in Docs
    PROVE  \/ /\ At(docs, doc.id) = {}
              /\ Ingest(docs, doc) = Append(docs, doc)
           \/ \E i \in DOMAIN docs :
                 /\ docs[i].id = doc.id /\ Compatible(docs[i], doc)
                 /\ Ingest(docs, doc) = [docs EXCEPT ![i] = Merge(docs[i], doc)]
           \/ \E id \in Ids :
                 /\ id \in {Append(doc.id, k) : k \in 2..(Len(docs) + 2)}
                 /\ At(docs, id) = {}
                 /\ Ingest(docs, doc) = Append(docs, [doc EXCEPT !.id = id])
<1> DEFINE i == CHOOSE j \in At(docs, doc.id) : TRUE
<1>1. CASE At(docs, doc.id) = {}
  BY <1>1 DEF Ingest
<1>2. CASE At(docs, doc.id) # {} /\ Compatible(docs[i], doc)
  <2>1. i \in DOMAIN docs /\ docs[i].id = doc.id
    BY <1>2 DEF At
  <2> QED
    BY <1>2, <2>1 DEF Ingest
<1>3. CASE At(docs, doc.id) # {} /\ ~Compatible(docs[i], doc)
  <2>1. doc.id \in Ids
    BY DEF Docs
  <2>2. Ingest(docs, doc) = Append(docs, [doc EXCEPT !.id = Numbered(docs, doc.id)])
    BY <1>3 DEF Ingest
  <2> QED
    BY <2>1, <2>2, NumberedFree
<1> QED
  BY <1>1, <1>2, <1>3

\* Ingestion makes documents, and gives each an id of its own.
LEMMA IngestTyped ==
    ASSUME NEW docs \in Seq(Docs), NEW doc \in Docs, DistinctIds(docs)
    PROVE  Ingest(docs, doc) \in Seq(Docs) /\ DistinctIds(Ingest(docs, doc))
<1>1. ASSUME NEW d \in Docs, At(docs, d.id) = {}
      PROVE  Append(docs, d) \in Seq(Docs) /\ DistinctIds(Append(docs, d))
  BY <1>1 DEF DistinctIds, At
<1>2. ASSUME NEW i \in DOMAIN docs, NEW d \in Docs, d.id = docs[i].id
      PROVE  [docs EXCEPT ![i] = d] \in Seq(Docs) /\ DistinctIds([docs EXCEPT ![i] = d])
  BY <1>2 DEF DistinctIds
<1>3. \A id \in Ids : [doc EXCEPT !.id = id] \in Docs /\ [doc EXCEPT !.id = id].id = id
  BY DEF Docs
<1>4. \A i \in DOMAIN docs : Merge(docs[i], doc) \in Docs /\ Merge(docs[i], doc).id = docs[i].id
  <2>1. \A i \in DOMAIN docs : docs[i] \in Docs
    OBVIOUS
  <2> QED
    BY <2>1, MergeTyped
<1> DEFINE after == Ingest(docs, doc)
<1>5. \/ At(docs, doc.id) = {} /\ after = Append(docs, doc)
      \/ \E i \in DOMAIN docs : after = [docs EXCEPT ![i] = Merge(docs[i], doc)]
      \/ \E id \in Ids : At(docs, id) = {} /\ after = Append(docs, [doc EXCEPT !.id = id])
  BY IngestCases
<1> HIDE DEF after
<1>6. CASE At(docs, doc.id) = {} /\ after = Append(docs, doc)
  BY <1>1, <1>6 DEF after
<1>7. ASSUME NEW i \in DOMAIN docs, after = [docs EXCEPT ![i] = Merge(docs[i], doc)]
      PROVE  after \in Seq(Docs) /\ DistinctIds(after)
  BY <1>2, <1>4, <1>7
<1>8. ASSUME NEW id \in Ids, At(docs, id) = {}, after = Append(docs, [doc EXCEPT !.id = id])
      PROVE  after \in Seq(Docs) /\ DistinctIds(after)
  BY <1>1, <1>3, <1>8
<1> QED
  BY <1>5, <1>6, <1>7, <1>8 DEF after

\* What a row says is said by its document, whatever id that gets, and by any
\* document it is merged into if the two agree.
LEMMA MergeHolds ==
    ASSUME NEW a \in Docs, NEW b \in Docs, NEW row \in Rows,
           Holds(a, row) \/ (Holds(b, row) /\ Compatible(a, b))
    PROVE  Holds(Merge(a, b), row)
<1>1. /\ Merge(a, b).items = a.items \union b.items
      /\ Merge(a, b).scalars =
            [f \in Scalars |-> IF a.scalars[f] # None THEN a.scalars[f] ELSE b.scalars[f]]
  BY MergeTyped
<1>2. \A f \in Scalars : row.scalars[f] # None => Merge(a, b).scalars[f] = row.scalars[f]
  BY <1>1 DEF Holds, Compatible
<1>3. \A j \in row.items : Canonical[j] \in Merge(a, b).items
  BY <1>1 DEF Holds
<1> QED
  BY <1>2, <1>3 DEF Holds

\* A row's document says what the row says, under any id (jobs/ingest_excel.py:86-109).
LEMMA RowDocHolds ==
    ASSUME NEW row \in Rows, NEW id
    PROVE  Holds(RowDoc(row), row) /\ Holds([RowDoc(row) EXCEPT !.id = id], row)
<1>1. /\ RowDoc(row).scalars = row.scalars
      /\ RowDoc(row).items = {Canonical[i] : i \in row.items}
  BY DEF RowDoc
<1>2. /\ [RowDoc(row) EXCEPT !.id = id].scalars = row.scalars
      /\ [RowDoc(row) EXCEPT !.id = id].items = {Canonical[i] : i \in row.items}
  BY DEF RowDoc
<1> QED
  BY <1>1, <1>2 DEF Holds

\* A document that a row is kept in: it holds the row, and has the row's slug by its
\* name or by its id.
Kept(d, row) == /\ Holds(d, row)
                /\ Slug[d.name] = Slug[row.name] \/ d.id = Slug[row.name]

\* Merging keeps the rows of the one, and those of the other if its slug is that id
\* (jobs/ingest_excel.py:147-149).
LEMMA MergeKept ==
    ASSUME NEW a \in Docs, NEW b \in Docs, NEW row \in Rows,
           Kept(a, row) \/ (Holds(b, row) /\ Compatible(a, b) /\ a.id = Slug[row.name])
    PROVE  Kept(Merge(a, b), row)
<1>1. Merge(a, b).id = a.id /\ Merge(a, b).name = a.name
  BY MergeTyped
<1>2. Holds(Merge(a, b), row)
  BY MergeHolds DEF Kept
<1> QED
  BY <1>1, <1>2 DEF Kept

\* A row's document keeps the row, under any id (jobs/ingest_excel.py:86-109).
LEMMA RowDocKept ==
    ASSUME NEW row \in Rows, NEW id \in Ids
    PROVE  Kept(RowDoc(row), row) /\ Kept([RowDoc(row) EXCEPT !.id = id], row)
<1>1. RowDoc(row).name = row.name /\ [RowDoc(row) EXCEPT !.id = id].name = row.name
  BY DEF RowDoc
<1> QED
  BY <1>1, RowDocHolds DEF Kept

\* No row is lost by ingesting another (jobs/ingest_excel.py:10-12).
LEMMA IngestKept ==
    ASSUME NEW docs \in Seq(Docs), NEW new \in Rows
    PROVE  /\ \E i \in DOMAIN Ingest(docs, RowDoc(new)) : Kept(Ingest(docs, RowDoc(new))[i], new)
           /\ \A row \in Rows : (\E i \in DOMAIN docs : Kept(docs[i], row)) =>
                 \E i \in DOMAIN Ingest(docs, RowDoc(new)) :
                    Kept(Ingest(docs, RowDoc(new))[i], row)
<1> DEFINE doc == RowDoc(new)
           after == Ingest(docs, doc)
<1>1. doc \in Docs
  BY RowDocTyped
<1>2. ASSUME NEW d, Kept(d, new), after = Append(docs, d)
      PROVE  /\ \E i \in DOMAIN after : Kept(after[i], new)
             /\ \A row \in Rows : (\E i \in DOMAIN docs : Kept(docs[i], row)) =>
                   \E i \in DOMAIN after : Kept(after[i], row)
  <2>1. after[Len(docs) + 1] = d /\ Len(docs) + 1 \in DOMAIN after
    BY <1>2
  <2>2. \A i \in DOMAIN docs : i \in DOMAIN after /\ after[i] = docs[i]
    BY <1>2
  <2> HIDE DEF after
  <2> QED
    BY <1>2, <2>1, <2>2
<1>3. ASSUME NEW i \in DOMAIN docs, docs[i].id = doc.id, Compatible(docs[i], doc),
             after = [docs EXCEPT ![i] = Merge(docs[i], doc)]
      PROVE  /\ \E j \in DOMAIN after : Kept(after[j], new)
             /\ \A row \in Rows : (\E j \in DOMAIN docs : Kept(docs[j], row)) =>
                   \E j \in DOMAIN after : Kept(after[j], row)
  <2>1. DOMAIN after = DOMAIN docs /\ after[i] = Merge(docs[i], doc)
    BY <1>3
  <2>2. \A j \in DOMAIN docs : j # i => after[j] = docs[j]
    BY <1>3
  <2>3. \A row \in Rows : Kept(docs[i], row) => Kept(after[i], row)
    BY <1>1, <2>1, MergeKept
  <2>4. Kept(after[i], new)
    <3>1. Holds(doc, new) /\ doc.id = Slug[new.name]
      BY <1>1, RowDocHolds DEF RowDoc, Docs
    <3> HIDE DEF doc
    <3> QED
      BY <1>1, <1>3, <2>1, <3>1, MergeKept
  <2> HIDE DEF after
  <2> QED
    BY <2>1, <2>2, <2>3, <2>4
<1> HIDE DEF after
<1>4. \/ after = Append(docs, doc)
      \/ \E i \in DOMAIN docs : /\ docs[i].id = doc.id /\ Compatible(docs[i], doc)
                                /\ after = [docs EXCEPT ![i] = Merge(docs[i], doc)]
      \/ \E id \in Ids : after = Append(docs, [doc EXCEPT !.id = id])
  BY <1>1, IngestCases DEF after
<1>5. Kept(doc, new) /\ \A id \in Ids : Kept([doc EXCEPT !.id = id], new)
  BY <1>1, RowDocKept DEF Docs
<1> HIDE DEF doc
<1>6. /\ \E i \in DOMAIN after : Kept(after[i], new)
      /\ \A row \in Rows : (\E i \in DOMAIN docs : Kept(docs[i], row)) =>
            \E i \in DOMAIN after : Kept(after[i], row)
  BY <1>2, <1>3, <1>4, <1>5
<1> QED
  BY <1>6 DEF after, doc

-----------------------------------------------------------------------------
\* A document that is in scope has a place in Sao Paulo, and no name of elsewhere.
Earned(d) == d.scope = "sp" => /\ d.place # None /\ City[d.place] = "sp"
                               /\ d.name \notin Elsewhere

\* A document placed in Sao Paulo does not have the name of a place elsewhere.
AtHome(d) == d.place # None /\ City[d.place] = "sp" => d.name \notin Elsewhere

\* A resolution decides on the place and the scope of a document and touches nothing
\* else; whatever it says, the scope is earned (jobs/seed_restaurants.py:73-96).
LEMMA ApplyTyped ==
    ASSUME NEW doc \in Docs, NEW res \in Resolutions
    PROVE  LET d == ApplyResolution(doc, res)
           IN  /\ d \in Docs
               /\ d.id = doc.id /\ d.name = doc.name /\ d.merged = doc.merged
               /\ d.items = doc.items /\ d.scalars = doc.scalars
               /\ Earned(d) /\ AtHome(d)
<1> DEFINE d == ApplyResolution(doc, res)
           city == IF res.status = "matched" THEN City[res.place] ELSE None
           scope == ScopeFor(doc.name, city)
           wrong == scope = "other_city" /\ city = "sp"
           place == IF res.status = "matched" /\ ~wrong THEN res.place ELSE None
<1>1. d = [doc EXCEPT !.scope = scope, !.place = place]
  BY DEF ApplyResolution
<1>2. res.status = "matched" => res.place \in Places /\ City[res.place] \in {"sp", "other", None}
  BY CurationAssumption DEF Resolutions
<1>3. city \in {"sp", "other", None} /\ None \notin {"sp", "other", "other_city", "unknown"}
  BY <1>2, CurationAssumption
<1>4. place \in Places \union {None} /\ (place # None => City[place] = city)
  BY <1>2
<1> HIDE DEF city, place
<1>5. scope \in {"sp", "other_city", "unknown"}
  BY <1>3 DEF ScopeFor
<1>6. scope = "sp" => city = "sp" /\ doc.name \notin Elsewhere
  BY <1>3 DEF ScopeFor
<1>7. city = "sp" /\ doc.name \in Elsewhere => wrong
  BY <1>3 DEF ScopeFor
<1>8. scope = "sp" => place # None
  <2>1. scope = "sp" => ~wrong /\ res.status = "matched"
    BY <1>3, <1>6 DEF city
  <2> QED
    BY <1>2, <2>1, CurationAssumption DEF place
<1>9. city = "sp" /\ doc.name \in Elsewhere => place = None
  BY <1>7 DEF place
<1> HIDE DEF scope
<1>10. /\ d \in Docs
       /\ d.id = doc.id /\ d.name = doc.name /\ d.merged = doc.merged
       /\ d.items = doc.items /\ d.scalars = doc.scalars
       /\ d.scope = scope /\ d.place = place
  BY <1>1, <1>4, <1>5 DEF Docs
<1> HIDE DEF d
<1>11. Earned(d) /\ AtHome(d)
  BY <1>4, <1>6, <1>8, <1>9, <1>10 DEF Earned, AtHome
<1> QED
  BY <1>10, <1>11 DEF d

\* The survivor of a place keeps what it is, and gains ids, items and cells
\* (jobs/seed_restaurants.py:102-120).
LEMMA AbsorbTyped ==
    ASSUME NEW a \in Docs, NEW b \in Docs
    PROVE  /\ Absorb(a, b) \in Docs
           /\ Absorb(a, b).id = a.id /\ Absorb(a, b).name = a.name
           /\ Absorb(a, b).place = a.place /\ Absorb(a, b).scope = a.scope
           /\ Absorb(a, b).merged = a.merged \union {b.id} \union b.merged
           /\ Absorb(a, b).items = a.items \union b.items
           /\ \A f \in Scalars : a.scalars[f] # None \/ b.scalars[f] # None
                    => Absorb(a, b).scalars[f] # None
<1>1. a.merged \union {b.id} \union b.merged \in SUBSET Ids
  BY DEF Docs
<1> DEFINE m == Merge(a, b)
<1>2. /\ m \in Docs
      /\ m.id = a.id /\ m.name = a.name /\ m.place = a.place /\ m.scope = a.scope
      /\ m.merged = a.merged
      /\ m.items = a.items \union b.items
      /\ m.scalars = [f \in Scalars |-> IF a.scalars[f] # None THEN a.scalars[f] ELSE b.scalars[f]]
  BY MergeTyped
<1>3. Absorb(a, b) = [m EXCEPT !.merged = m.merged \union {b.id} \union b.merged]
  BY DEF Absorb
<1> HIDE DEF m
<1>4. \A f \in Scalars : a.scalars[f] # None \/ b.scalars[f] # None => m.scalars[f] # None
  BY <1>2
<1>5. /\ Absorb(a, b) \in Docs
      /\ Absorb(a, b).id = m.id /\ Absorb(a, b).name = m.name
      /\ Absorb(a, b).place = m.place /\ Absorb(a, b).scope = m.scope
      /\ Absorb(a, b).items = m.items /\ Absorb(a, b).scalars = m.scalars
      /\ Absorb(a, b).merged = m.merged \union {b.id} \union b.merged
  BY <1>1, <1>2, <1>3 DEF Docs
<1> QED
  BY <1>2, <1>4, <1>5

\* A document finds its place taken, and is absorbed, or joins the catalog
\* (jobs/seed_restaurants.py:123-144).
LEMMA PlaceCases ==
    ASSUME NEW catalog \in Seq(Docs), NEW doc \in Docs
    PROVE  \/ /\ \A i \in DOMAIN catalog : catalog[i].place = doc.place => doc.place = None
              /\ Place(catalog, doc) = Append(catalog, doc)
           \/ \E i \in DOMAIN catalog :
                 /\ doc.place # None /\ catalog[i].place = doc.place
                 /\ Place(catalog, doc) = [catalog EXCEPT ![i] = Absorb(catalog[i], doc)]
<1> DEFINE same == {i \in DOMAIN catalog : doc.place # None /\ catalog[i].place = doc.place}
<1>1. CASE same = {}
  BY <1>1 DEF Place
<1>2. CASE same # {}
  <2> DEFINE i == CHOOSE j \in same : TRUE
  <2>1. i \in same
    BY <1>2
  <2>2. Place(catalog, doc) = [catalog EXCEPT ![i] = Absorb(catalog[i], doc)]
    BY <1>2, <2>1 DEF Place
  <2> QED
    BY <2>1, <2>2
<1> QED
  BY <1>1, <1>2

-----------------------------------------------------------------------------
\* A catalog made of the first n documents: what is said of each entry,
EntriesInv(catalog, docs, n) == \A i \in DOMAIN catalog :
    /\ Earned(catalog[i]) /\ AtHome(catalog[i])
    /\ \E k \in 1..n : catalog[i].id = docs[k].id
    /\ catalog[i].merged # {} => catalog[i].place # None
    /\ \A k \in DOMAIN docs :
           /\ docs[k].id \in catalog[i].merged
           /\ catalog[i].place # None /\ City[catalog[i].place] = "sp"
           => docs[k].name \notin Elsewhere

\* of any two,
PlacesInv(catalog) == \A i, j \in DOMAIN catalog :
    catalog[i].place # None /\ catalog[j].place = catalog[i].place => i = j

\* and of the documents it lists.
ListedInv(catalog, docs, n, closed) == \A k \in 1..n :
    \/ docs[k].id \in closed
    \/ \E i \in DOMAIN catalog : StandsFor(catalog[i], docs[k])

CatalogInv(catalog, docs, n, closed) ==
    /\ EntriesInv(catalog, docs, n)
    /\ DistinctIds(catalog)
    /\ PlacesInv(catalog)
    /\ ListedInv(catalog, docs, n, closed)

\* The next document, resolved, takes its place without disturbing that.
LEMMA PlaceKeepsInv ==
    ASSUME NEW docs \in Seq(Docs), NEW catalog \in Seq(Docs), NEW n \in Nat, NEW closed,
           n + 1 \in DOMAIN docs, DistinctIds(docs), CatalogInv(catalog, docs, n, closed),
           NEW d \in Docs, d.id = docs[n + 1].id, d.name = docs[n + 1].name,
           d.merged = {}, d.items = docs[n + 1].items, d.scalars = docs[n + 1].scalars,
           Earned(d), AtHome(d)
    PROVE  /\ Place(catalog, d) \in Seq(Docs)
           /\ CatalogInv(Place(catalog, d), docs, n + 1, closed)
<1> DEFINE after == Place(catalog, d)
<1>1. \/ /\ \A i \in DOMAIN catalog : catalog[i].place = d.place => d.place = None
         /\ after = Append(catalog, d)
      \/ \E i \in DOMAIN catalog :
            /\ d.place # None /\ catalog[i].place = d.place
            /\ after = [catalog EXCEPT ![i] = Absorb(catalog[i], d)]
  BY PlaceCases
<1> HIDE DEF after
<1>2. \A k \in 1..(n + 1) : k \in 1..n \/ k = n + 1
  OBVIOUS
<1>3. \A k \in 1..n : k \in DOMAIN docs /\ k # n + 1
  OBVIOUS
<1>4. \A i \in DOMAIN catalog : catalog[i].id # d.id
  BY <1>3 DEF CatalogInv, EntriesInv, DistinctIds
<1>5. \A k \in DOMAIN docs : docs[k].id = d.id => docs[k].name = d.name
  BY DEF DistinctIds
<1>6. \A i \in DOMAIN catalog : catalog[i] \in Docs
  OBVIOUS
<1>7. CASE /\ \A i \in DOMAIN catalog : catalog[i].place = d.place => d.place = None
           /\ after = Append(catalog, d)
  <2> DEFINE new == Len(catalog) + 1
  <2>1. after \in Seq(Docs) /\ DOMAIN after = DOMAIN catalog \union {new}
    BY <1>7
  <2>2. after[new] = d /\ new \notin DOMAIN catalog
    BY <1>7
  <2>3. \A i \in DOMAIN catalog : after[i] = catalog[i]
    BY <1>7
  <2> HIDE DEF new
  <2>4. EntriesInv(after, docs, n + 1)
    <3>1. \E k \in 1..(n + 1) : d.id = docs[k].id
      OBVIOUS
    <3>2. \A k \in 1..n : k \in 1..(n + 1)
      OBVIOUS
    <3> DEFINE sound(c) == /\ Earned(c) /\ AtHome(c)
                           /\ \E k \in 1..(n + 1) : c.id = docs[k].id
                           /\ c.merged # {} => c.place # None
                           /\ \A k \in DOMAIN docs :
                                  docs[k].id \in c.merged /\ c.place # None /\ City[c.place] = "sp"
                                  => docs[k].name \notin Elsewhere
    <3>3. sound(d)
      BY <3>1
    <3>4. \A i \in DOMAIN catalog : sound(catalog[i])
      BY <3>2 DEF CatalogInv, EntriesInv
    <3>5. \A i \in DOMAIN after : sound(after[i])
      <4> HIDE DEF sound
      <4> QED
        BY <2>1, <2>2, <2>3, <3>3, <3>4
    <3> QED
      BY <3>5 DEF EntriesInv
  <2>5. DistinctIds(after)
    BY <1>4, <2>1, <2>2, <2>3 DEF CatalogInv, DistinctIds
  <2>6. PlacesInv(after)
    BY <1>7, <2>1, <2>2, <2>3 DEF CatalogInv, PlacesInv
  <2>7. ListedInv(after, docs, n + 1, closed)
    <3>1. StandsFor(after[new], docs[n + 1])
      BY <2>2 DEF StandsFor
    <3> QED
      BY <1>2, <2>1, <2>3, <3>1 DEF CatalogInv, ListedInv
  <2> QED
    BY <2>1, <2>4, <2>5, <2>6, <2>7 DEF CatalogInv, after
<1>8. ASSUME NEW i \in DOMAIN catalog, d.place # None, catalog[i].place = d.place,
             after = [catalog EXCEPT ![i] = Absorb(catalog[i], d)]
      PROVE  after \in Seq(Docs) /\ CatalogInv(after, docs, n + 1, closed)
  <2> DEFINE c == catalog[i]
             e == Absorb(catalog[i], d)
  <2>1. /\ e \in Docs /\ e.id = c.id /\ e.name = c.name
        /\ e.place = c.place /\ e.scope = c.scope
        /\ e.merged = c.merged \union {d.id} /\ e.items = c.items \union d.items
        /\ \A f \in Scalars : c.scalars[f] # None \/ d.scalars[f] # None
                 => e.scalars[f] # None
    BY <1>6, AbsorbTyped
  <2>2. after \in Seq(Docs) /\ DOMAIN after = DOMAIN catalog /\ after[i] = e
    BY <1>8, <2>1
  <2>3. \A j \in DOMAIN catalog : j # i => after[j] = catalog[j]
    BY <1>8
  <2> HIDE DEF e
  <2>4. EntriesInv(after, docs, n + 1)
    <3>1. \A k \in 1..n : k \in 1..(n + 1)
      OBVIOUS
    <3>2. Earned(e) /\ AtHome(e)
      BY <2>1 DEF CatalogInv, EntriesInv, Earned, AtHome
    <3>3. ASSUME NEW k \in DOMAIN docs, docs[k].id \in e.merged,
                 e.place # None, City[e.place] = "sp"
          PROVE  docs[k].name \notin Elsewhere
      <4>1. CASE docs[k].id \in c.merged
        BY <2>1, <3>3, <4>1 DEF CatalogInv, EntriesInv
      <4>2. CASE docs[k].id = d.id
        BY <1>5, <1>8, <2>1, <3>3, <4>2 DEF AtHome
      <4> QED
        BY <2>1, <3>3, <4>1, <4>2
    <3> DEFINE sound(x) == /\ Earned(x) /\ AtHome(x)
                           /\ \E k \in 1..(n + 1) : x.id = docs[k].id
                           /\ x.merged # {} => x.place # None
                           /\ \A k \in DOMAIN docs :
                                  docs[k].id \in x.merged /\ x.place # None /\ City[x.place] = "sp"
                                  => docs[k].name \notin Elsewhere
    <3>4. sound(e)
      <4>1. \E k \in 1..(n + 1) : e.id = docs[k].id
        BY <2>1, <3>1 DEF CatalogInv, EntriesInv
      <4>2. e.place # None
        BY <1>8, <2>1
      <4> QED
        BY <3>2, <3>3, <4>1, <4>2
    <3>5. \A j \in DOMAIN catalog : sound(catalog[j])
      BY <3>1 DEF CatalogInv, EntriesInv
    <3>6. \A j \in DOMAIN after : sound(after[j])
      <4> HIDE DEF sound
      <4> QED
        BY <2>2, <2>3, <3>4, <3>5
    <3> QED
      BY <3>6 DEF EntriesInv
  <2>5. DistinctIds(after)
    BY <2>1, <2>2, <2>3 DEF CatalogInv, DistinctIds
  <2>6. PlacesInv(after)
    BY <2>1, <2>2, <2>3 DEF CatalogInv, PlacesInv
  <2>7. ListedInv(after, docs, n + 1, closed)
    <3>1. StandsFor(e, docs[n + 1])
      BY <2>1 DEF StandsFor
    <3>2. \A k \in 1..n : StandsFor(c, docs[k]) => StandsFor(e, docs[k])
      BY <2>1 DEF StandsFor
    <3>3. ASSUME NEW k \in 1..n, NEW j \in DOMAIN catalog, StandsFor(catalog[j], docs[k])
          PROVE  \E m \in DOMAIN after : StandsFor(after[m], docs[k])
      BY <2>2, <2>3, <3>2, <3>3
    <3> QED
      BY <1>2, <2>2, <3>1, <3>3 DEF CatalogInv, ListedInv
  <2> QED
    BY <2>2, <2>4, <2>5, <2>6, <2>7 DEF CatalogInv
<1> QED
  BY <1>1, <1>7, <1>8 DEF after

-----------------------------------------------------------------------------
\* A document as ingestion leaves it: named, and nothing absorbed.
Plain(d) == d.name \in Names /\ d.merged = {}

\* Ingestion absorbs nothing and unnames nothing (jobs/ingest_excel.py:140-160).
LEMMA IngestPlain ==
    ASSUME NEW docs \in Seq(Docs), NEW doc \in Docs, Plain(doc),
           \A i \in DOMAIN docs : Plain(docs[i])
    PROVE  \A i \in DOMAIN Ingest(docs, doc) : Plain(Ingest(docs, doc)[i])
<1> DEFINE after == Ingest(docs, doc)
<1>1. \/ after = Append(docs, doc)
      \/ \E i \in DOMAIN docs : after = [docs EXCEPT ![i] = Merge(docs[i], doc)]
      \/ \E id \in Ids : after = Append(docs, [doc EXCEPT !.id = id])
  BY IngestCases
<1>2. \A i \in DOMAIN docs : Plain(Merge(docs[i], doc))
  <2>1. \A i \in DOMAIN docs : docs[i] \in Docs
    OBVIOUS
  <2>2. \A i \in DOMAIN docs : /\ Merge(docs[i], doc).name = docs[i].name
                              /\ Merge(docs[i], doc).merged = docs[i].merged
    BY <2>1, MergeTyped
  <2> QED
    BY <2>2 DEF Plain
<1>3. \A id \in Ids : Plain([doc EXCEPT !.id = id])
  BY DEF Plain, Docs
<1> HIDE DEF after
<1>4. ASSUME NEW d, Plain(d), after = Append(docs, d)
      PROVE  \A i \in DOMAIN after : Plain(after[i])
  BY <1>4
<1>5. ASSUME NEW i \in DOMAIN docs, after = [docs EXCEPT ![i] = Merge(docs[i], doc)]
      PROVE  \A j \in DOMAIN after : Plain(after[j])
  BY <1>2, <1>5
<1>6. \A i \in DOMAIN after : Plain(after[i])
  BY <1>1, <1>3, <1>4, <1>5
<1> QED
  BY <1>6 DEF after

\* The ids of ingested documents: the slug of the name, or one that is numbered.
IdsInv(docs) == \A i \in DOMAIN docs :
    docs[i].id = Slug[docs[i].name] \/ docs[i].id \in NumberedAs(docs[i].name, docs)

\* Ingestion gives no other ids (jobs/ingest_excel.py:140-160).
LEMMA IngestIds ==
    ASSUME NEW docs \in Seq(Docs), IdsInv(docs), NEW row \in Rows
    PROVE  IdsInv(Ingest(docs, RowDoc(row)))
<1> DEFINE doc == RowDoc(row)
           after == Ingest(docs, doc)
<1>1. doc \in Docs /\ doc.id = Slug[doc.name]
  BY RowDocTyped DEF RowDoc
<1> HIDE DEF doc
<1>2. \/ after = Append(docs, doc)
      \/ \E i \in DOMAIN docs : after = [docs EXCEPT ![i] = Merge(docs[i], doc)]
      \/ \E id \in {Append(doc.id, k) : k \in 2..(Len(docs) + 2)} :
            after = Append(docs, [doc EXCEPT !.id = id])
  BY <1>1, IngestCases
<1> HIDE DEF after
<1>3. ASSUME NEW name, NEW longer, Len(longer) \in Nat, Len(docs) <= Len(longer)
      PROVE  NumberedAs(name, docs) \subseteq NumberedAs(name, longer)
  BY <1>3 DEF NumberedAs
<1>4. ASSUME NEW d, after = Append(docs, d),
             \/ d.id = Slug[d.name]
             \/ d.id \in {Append(Slug[d.name], k) : k \in 2..(Len(docs) + 2)}
      PROVE  IdsInv(after)
  <2>1. Len(after) = Len(docs) + 1 /\ after[Len(docs) + 1] = d
    BY <1>4
  <2>2. \A i \in DOMAIN after : i = Len(docs) + 1 \/ (i \in DOMAIN docs /\ after[i] = docs[i])
    BY <1>4
  <2>3. d.id = Slug[d.name] \/ d.id \in NumberedAs(d.name, after)
    BY <1>4, <2>1 DEF NumberedAs
  <2>4. \A name : NumberedAs(name, docs) \subseteq NumberedAs(name, after)
    BY <1>3, <2>1
  <2> QED
    BY <2>1, <2>2, <2>3, <2>4 DEF IdsInv
<1>5. ASSUME NEW i \in DOMAIN docs, after = [docs EXCEPT ![i] = Merge(docs[i], doc)]
      PROVE  IdsInv(after)
  <2>1. Merge(docs[i], doc).id = docs[i].id /\ Merge(docs[i], doc).name = docs[i].name
    <3>1. docs[i] \in Docs
      OBVIOUS
    <3> QED
      BY <1>1, <3>1, MergeTyped
  <2>2. \A j \in DOMAIN docs : after[j].id = docs[j].id /\ after[j].name = docs[j].name
    BY <1>5, <2>1
  <2>3. DOMAIN after = DOMAIN docs /\ Len(after) = Len(docs)
    BY <1>5
  <2>4. \A name : NumberedAs(name, docs) \subseteq NumberedAs(name, after)
    BY <1>3, <2>3
  <2> QED
    BY <2>2, <2>3, <2>4 DEF IdsInv
<1>6. ASSUME NEW id, id \in {Append(doc.id, k) : k \in 2..(Len(docs) + 2)},
             after = Append(docs, [doc EXCEPT !.id = id])
      PROVE  IdsInv(after)
  <2> DEFINE d == [doc EXCEPT !.id = id]
  <2>1. d.id = id /\ d.name = doc.name
    BY <1>1 DEF Docs
  <2> HIDE DEF d
  <2>2. d.id \in {Append(Slug[d.name], k) : k \in 2..(Len(docs) + 2)}
    BY <1>1, <1>6, <2>1
  <2> QED
    BY <1>4, <1>6, <2>2 DEF d
<1>7. IdsInv(after)
  BY <1>1, <1>2, <1>4, <1>5, <1>6
<1> QED
  BY <1>7 DEF after, doc

\* What a run is, as far as it has come: its documents are those of the rows read and
\* its catalog is made of the ones resolved, which none is until all rows are read.
RunInv(r) ==
    /\ r.read \in 0..Len(r.book) /\ r.resolved \in 0..Len(r.docs)
    /\ r.resolved > 0 => r.read = Len(r.book)
    /\ DistinctIds(r.docs)
    /\ \A i \in DOMAIN r.docs : Plain(r.docs[i])
    /\ IdsInv(r.docs)
    /\ \A n \in 1..r.read : \E i \in DOMAIN r.docs : Kept(r.docs[i], r.book[n])
    /\ CatalogInv(r.catalog, r.docs, r.resolved, r.closed)

\* Of the run under way, what it has upserted stands already; no run that finished is
\* remembered beside it.
PutInv == run # None =>
    /\ last = None
    /\ run.put \in 0..Len(run.catalog)
    /\ run.put > 0 => AllResolved
    /\ \A i \in 1..run.put : run.catalog[i].id \notin fixed => run.catalog[i] \in container

SeedingInv == /\ TypeOK
              /\ run # None => RunInv(run)
              /\ last # None => RunInv(last)
              /\ PutInv
              /\ CatalogStands
              /\ ScopeIsEarned

\* A run that has done nothing is as RunInv says (jobs/seed_restaurants.py:219-230).
LEMMA NewRunInv ==
    ASSUME NEW book \in Seq(Rows)
    PROVE  NewRun(book) \in Runs /\ RunInv(NewRun(book)) /\ NewRun(book).put = 0
<1> DEFINE r == NewRun(book)
<1>1. /\ r.book = book /\ r.read = 0 /\ r.docs = << >> /\ r.resolved = 0
      /\ r.closed = {} /\ r.catalog = << >> /\ r.put = 0
  BY DEF NewRun
<1>2. r \in Runs
  BY DEF NewRun, Runs
<1> HIDE DEF r
<1>3. CatalogInv(r.catalog, r.docs, r.resolved, r.closed)
  BY <1>1 DEF CatalogInv, EntriesInv, DistinctIds, PlacesInv, ListedInv
<1>4. RunInv(r)
  BY <1>1, <1>3 DEF RunInv, DistinctIds, IdsInv
<1> QED
  BY <1>1, <1>2, <1>4 DEF r

\* Reading a row: nothing is resolved or upserted yet (jobs/ingest_excel.py:163-168).
LEMMA ReadRowKeepsInv ==
    ASSUME SeedingInv, ReadRow
    PROVE  run' \in Runs /\ RunInv(run') /\ PutInv'
<1> DEFINE n == run.read + 1
           row == run.book[n]
           doc == RowDoc(row)
           after == Ingest(run.docs, doc)
<1>1. run \in Runs /\ RunInv(run) /\ run.read < Len(run.book)
  BY DEF SeedingInv, TypeOK, ReadRow
<1>2. run.docs \in Seq(Docs) /\ run.book \in Seq(Rows) /\ run.read \in Nat
  BY <1>1 DEF Runs
<1>3. n \in DOMAIN run.book /\ row \in Rows
  BY <1>1, <1>2
<1>4. doc \in Docs /\ Plain(doc)
  <2>1. doc.name = row.name /\ doc.merged = {}
    BY DEF RowDoc
  <2> QED
    BY <1>3, <2>1, RowDocTyped DEF Plain, Rows
<1>5. /\ after \in Seq(Docs) /\ DistinctIds(after)
      /\ \A i \in DOMAIN after : Plain(after[i])
      /\ IdsInv(after)
  BY <1>1, <1>2, <1>3, <1>4, IngestTyped, IngestPlain, IngestIds DEF RunInv
<1>6. \A m \in 1..n : \E i \in DOMAIN after : Kept(after[i], run.book[m])
  <2>1. \A m \in 1..n : run.book[m] \in Rows /\ (m \in 1..run.read \/ m = n)
    BY <1>1, <1>2
  <2> QED
    BY <1>1, <1>2, <1>3, <2>1, IngestKept DEF RunInv
<1>7. run' = [run EXCEPT !.read = n, !.docs = after]
  BY DEF ReadRow
<1>8. n \in Nat
  BY <1>2
<1> HIDE DEF n, row, doc, after
<1>9. /\ run' \in Runs
      /\ run'.book = run.book /\ run'.read = n /\ run'.docs = after
      /\ run'.resolved = run.resolved /\ run'.closed = run.closed
      /\ run'.catalog = run.catalog /\ run'.put = run.put
  BY <1>1, <1>5, <1>7, <1>8 DEF Runs
<1>10. run.resolved = 0 /\ DOMAIN run.catalog = {} /\ run.put = 0
  <2>1. run.resolved = 0
    BY <1>1 DEF RunInv, Runs
  <2>2. DOMAIN run.catalog = {}
    BY <1>1, <2>1 DEF RunInv, CatalogInv, EntriesInv
  <2>3. run.put = 0
    BY <1>1, <2>2 DEF ReadRow, SeedingInv, PutInv, AllResolved, AllRead, Runs
  <2> QED
    BY <2>1, <2>2, <2>3
<1>11. CatalogInv(run.catalog, after, 0, run.closed)
  BY <1>10 DEF CatalogInv, EntriesInv, DistinctIds, PlacesInv, ListedInv
<1>12. CatalogInv(run'.catalog, run'.docs, run'.resolved, run'.closed)
  BY <1>9, <1>10, <1>11
<1>13. n \in 0..Len(run.book) /\ 0 \in 0..Len(after)
  BY <1>1, <1>2, <1>5 DEF n
<1>14. RunInv(run')
  BY <1>5, <1>6, <1>9, <1>10, <1>12, <1>13 DEF RunInv
<1>15. PutInv'
  <2>1. last' = None
    BY DEF SeedingInv, PutInv, ReadRow, OnlyRun
  <2>2. run'.put = 0 /\ 0 \in 0..Len(run'.catalog)
    BY <1>2, <1>9, <1>10 DEF Runs
  <2> QED
    BY <2>1, <2>2 DEF PutInv
<1> QED
  BY <1>9, <1>14, <1>15

\* Resolving a document, the reviewer's closed names left out: nothing is upserted yet
\* (jobs/seed_restaurants.py:147-160).
LEMMA ResolveDocKeepsInv ==
    ASSUME SeedingInv, ResolveDoc
    PROVE  run' \in Runs /\ RunInv(run') /\ PutInv'
<1> DEFINE n == run.resolved
           doc == run.docs[n + 1]
           res == resolution[doc.name]
<1>1. run \in Runs /\ RunInv(run) /\ run.read = Len(run.book) /\ n < Len(run.docs)
  BY DEF SeedingInv, TypeOK, ResolveDoc, AllRead
<1>2. /\ run.docs \in Seq(Docs) /\ run.catalog \in Seq(Docs) /\ n \in Nat
      /\ run.closed \in SUBSET Ids
  BY <1>1 DEF Runs
<1>3. n + 1 \in DOMAIN run.docs /\ n + 1 \in 0..Len(run.docs)
  BY <1>1, <1>2
<1>4. doc \in Docs /\ Plain(doc)
  BY <1>1, <1>2, <1>3 DEF RunInv
<1>5. doc.id \in Ids
  BY <1>4 DEF Docs
<1>6. res \in Resolutions
  BY <1>4 DEF SeedingInv, TypeOK, Plain
<1>7. run.put = 0
  BY <1>1, <1>2 DEF ResolveDoc, SeedingInv, PutInv, AllResolved, Runs
<1>8. CatalogInv(run.catalog, run.docs, n, run.closed) /\ DistinctIds(run.docs)
  BY <1>1 DEF RunInv
\* Either way the run has one more document resolved, and a catalog that says so.
<1>9. ASSUME NEW catalog \in Seq(Docs), NEW closed \in SUBSET Ids,
             run' = [run EXCEPT !.resolved = n + 1, !.closed = closed, !.catalog = catalog],
             CatalogInv(catalog, run.docs, n + 1, closed)
      PROVE  run' \in Runs /\ RunInv(run') /\ PutInv'
  <2> DEFINE m == n + 1
  <2>1. m \in Nat /\ m \in 0..Len(run.docs) /\ run.read = Len(run.book)
    BY <1>1, <1>2, <1>3
  <2>2. run' = [run EXCEPT !.resolved = m, !.closed = closed, !.catalog = catalog]
    BY <1>9
  <2> HIDE DEF m
  <2>3. /\ run' \in Runs
        /\ run'.book = run.book /\ run'.read = run.read /\ run'.docs = run.docs
        /\ run'.resolved = m /\ run'.closed = closed
        /\ run'.catalog = catalog /\ run'.put = run.put
    BY <1>1, <2>1, <2>2 DEF Runs
  <2>4. CatalogInv(run'.catalog, run'.docs, run'.resolved, run'.closed)
    BY <1>9, <2>3 DEF m
  <2>5. RunInv(run')
    <3>1. run.read \in 0..Len(run.book)
      BY <1>1 DEF RunInv
    <3>2. /\ DistinctIds(run'.docs)
          /\ \A i \in DOMAIN run'.docs : Plain(run'.docs[i])
          /\ IdsInv(run'.docs)
          /\ \A k \in 1..run'.read : \E i \in DOMAIN run'.docs : Kept(run'.docs[i], run'.book[k])
      BY <1>1, <2>3 DEF RunInv
    <3>3. /\ run'.read \in 0..Len(run'.book) /\ run'.resolved \in 0..Len(run'.docs)
          /\ run'.resolved > 0 => run'.read = Len(run'.book)
      BY <2>1, <2>3, <3>1
    <3> QED
      BY <2>4, <3>2, <3>3 DEF RunInv
  <2>6. PutInv'
    <3>1. last' = None
      BY DEF SeedingInv, PutInv, ResolveDoc, OnlyRun
    <3>2. run'.put = 0 /\ 0 \in 0..Len(run'.catalog)
      BY <1>7, <2>3
    <3> QED
      BY <3>1, <3>2 DEF PutInv
  <2> QED
    BY <2>3, <2>5, <2>6
<1>10. CASE res.status = "closed"
  <2> DEFINE closed == run.closed \union {doc.id}
  <2>1. run' = [run EXCEPT !.resolved = n + 1, !.closed = closed, !.catalog = run.catalog]
    <3>1. run' = [run EXCEPT !.resolved = n + 1, !.closed = closed]
      BY <1>10 DEF ResolveDoc
    <3> QED
      BY <1>1, <3>1 DEF Runs
  <2>2. closed \in SUBSET Ids
    BY <1>2, <1>5
  <2>3. EntriesInv(run.catalog, run.docs, n + 1)
    <3>1. \A k \in 1..n : k \in 1..(n + 1)
      BY <1>2
    <3> QED
      BY <1>8, <3>1 DEF CatalogInv, EntriesInv
  <2>4. ListedInv(run.catalog, run.docs, n + 1, closed)
    <3>1. \A k \in 1..(n + 1) : k \in 1..n \/ k = n + 1
      BY <1>2
    <3> QED
      BY <1>8, <3>1 DEF CatalogInv, ListedInv
  <2>5. CatalogInv(run.catalog, run.docs, n + 1, closed)
    BY <1>8, <2>3, <2>4 DEF CatalogInv
  <2> HIDE DEF closed
  <2> QED
    BY <1>2, <1>9, <2>1, <2>2, <2>5
<1>11. CASE res.status # "closed"
  <2> DEFINE d == ApplyResolution(doc, res)
             catalog == Place(run.catalog, d)
  <2>1. /\ d \in Docs
        /\ d.id = doc.id /\ d.name = doc.name /\ d.merged = doc.merged
        /\ d.items = doc.items /\ d.scalars = doc.scalars
        /\ Earned(d) /\ AtHome(d)
    BY <1>4, <1>6, ApplyTyped
  <2>2. run' = [run EXCEPT !.resolved = n + 1, !.closed = run.closed, !.catalog = catalog]
    <3>1. run' = [run EXCEPT !.resolved = n + 1, !.catalog = catalog]
      BY <1>11 DEF ResolveDoc
    <3> QED
      BY <1>1, <3>1 DEF Runs
  <2>3. d.merged = {}
    BY <1>4, <2>1 DEF Plain
  <2> HIDE DEF d
  <2>4. catalog \in Seq(Docs) /\ CatalogInv(catalog, run.docs, n + 1, run.closed)
    BY <1>2, <1>3, <1>8, <2>1, <2>3, PlaceKeepsInv
  <2> HIDE DEF catalog
  <2> QED
    BY <1>2, <1>9, <2>2, <2>4
<1> QED
  BY <1>10, <1>11

\* An upsert puts a document in scope only if it has earned it.
LEMMA UpsertedEarned ==
    ASSUME SeedingInv, NEW d \in Docs, Earned(d)
    PROVE  Upserted(d) \subseteq Docs /\ \A e \in Upserted(d) : Earned(e)
  BY DEF Upserted, SeedingInv, TypeOK, ScopeIsEarned, Earned

\* An upsert undoes none of its run's, whose ids are distinct (jobs/seed_restaurants.py:242).
LEMMA UpsertKeepsInv ==
    ASSUME SeedingInv, Upsert
    PROVE  SeedingInv'
<1> DEFINE n == run.put + 1
           doc == run.catalog[n]
<1>1. /\ run \in Runs /\ RunInv(run) /\ AllResolved /\ run.put < Len(run.catalog)
      /\ last = None
  BY DEF SeedingInv, TypeOK, PutInv, Upsert
<1>2. run.catalog \in Seq(Docs) /\ run.put \in Nat
  BY <1>1 DEF Runs
<1>3. n \in Nat /\ n \in DOMAIN run.catalog /\ doc \in Docs /\ n \in 0..Len(run.catalog)
  BY <1>1, <1>2
<1>4. Earned(doc)
  BY <1>1, <1>3 DEF RunInv, CatalogInv, EntriesInv
<1>5. /\ container' = Upserted(doc)
      /\ run' = [run EXCEPT !.put = n]
      /\ UNCHANGED <<workbook, resolution, fixing, last, fixed, runs, fixtureRuns, changes>>
  BY DEF Upsert, bounds
<1>6. container' \subseteq Docs /\ \A e \in container' : Earned(e)
  BY <1>3, <1>4, <1>5, UpsertedEarned
<1>7. ASSUME NEW i \in 1..n, run.catalog[i].id \notin fixed
      PROVE  run.catalog[i] \in container'
  <2>1. CASE i = n
    BY <1>5, <2>1 DEF Upserted
  <2>2. CASE i # n
    <3>1. i \in 1..run.put /\ i \in DOMAIN run.catalog
      BY <1>1, <1>2, <2>2
    <3>2. run.catalog[i] \in container
      BY <1>1, <1>7, <3>1 DEF SeedingInv, PutInv, Upsert
    <3>3. run.catalog[i].id # doc.id
      BY <1>1, <1>3, <2>2, <3>1 DEF RunInv, CatalogInv, DistinctIds
    <3> QED
      BY <1>5, <3>2, <3>3 DEF Upserted
  <2> QED
    BY <2>1, <2>2
<1> HIDE DEF doc, n
<1>8. /\ run' \in Runs
      /\ run'.book = run.book /\ run'.read = run.read /\ run'.docs = run.docs
      /\ run'.resolved = run.resolved /\ run'.closed = run.closed
      /\ run'.catalog = run.catalog /\ run'.put = n
  BY <1>1, <1>3, <1>5 DEF Runs
<1>9. RunInv(run')
  BY <1>1, <1>8 DEF RunInv
<1>10. PutInv'
  BY <1>1, <1>3, <1>5, <1>7, <1>8 DEF PutInv, AllResolved, AllRead
<1>11. TypeOK'
  BY <1>5, <1>6, <1>8 DEF SeedingInv, TypeOK
<1>12. ScopeIsEarned' /\ CatalogStands' /\ (last' = None)
  BY <1>1, <1>5, <1>6 DEF ScopeIsEarned, CatalogStands, Earned
<1> QED
  BY <1>9, <1>10, <1>11, <1>12 DEF SeedingInv

\* A fixture has no scope, and what it overwrites is known (jobs/seed_fixtures.py:60-64).
LEMMA UpsertFixtureKeepsInv ==
    ASSUME SeedingInv, NEW id \in FixtureIds, UpsertFixture(id)
    PROVE  SeedingInv'
<1> DEFINE doc == FixtureDoc(id)
<1>1. doc \in Docs /\ doc.id = id /\ Earned(doc)
  BY SeedingAssumption, CurationAssumption DEF FixtureDoc, Docs, Cells, Earned
<1>2. /\ container' = Upserted(doc)
      /\ fixing' = fixing \ {id} /\ fixed' = fixed \union {id}
      /\ UNCHANGED <<workbook, resolution, run, last, runs, fixtureRuns, changes>>
  BY DEF UpsertFixture, bounds
<1> HIDE DEF doc
<1>3. container' \subseteq Docs /\ \A e \in container' : Earned(e)
  BY <1>1, <1>2, UpsertedEarned
<1>4. \A d \in container : d.id \notin fixed' => d \in container'
  BY <1>1, <1>2 DEF Upserted
<1>5. TypeOK'
  BY <1>2, <1>3 DEF SeedingInv, TypeOK
<1>6. PutInv'
  BY <1>2, <1>4 DEF SeedingInv, PutInv, AllResolved, AllRead
<1>7. CatalogStands' /\ ScopeIsEarned'
  BY <1>2, <1>3, <1>4 DEF SeedingInv, CatalogStands, ScopeIsEarned, Earned
<1>8. (run' # None => RunInv(run')) /\ (last' # None => RunInv(last'))
  BY <1>2 DEF SeedingInv
<1> QED
  BY <1>5, <1>6, <1>7, <1>8 DEF SeedingInv

-----------------------------------------------------------------------------
\* At the start no job has run.
LEMMA InitInv == Init => SeedingInv
  BY SeedingAssumption
     DEF Init, SeedingInv, TypeOK, PutInv, CatalogStands, ScopeIsEarned

\* Every step of a job, its death, the resolver's and the curator's changes keep it.
LEMMA NextKeepsInv == SeedingInv /\ [Next]_vars => SeedingInv'
<1> SUFFICES ASSUME SeedingInv, [Next]_vars
             PROVE  SeedingInv'
  OBVIOUS
<1> USE DEF bounds
\* A step of the run that writes nothing leaves what the others say.
<1>1. ASSUME OnlyRun, run # None, run' \in Runs \union {None},
             run' # None => RunInv(run'), PutInv'
      PROVE  SeedingInv'
  BY <1>1 DEF SeedingInv, OnlyRun, TypeOK, CatalogStands, ScopeIsEarned
<1>2. CASE StartSeed
  <2>1. workbook \in Seq(Rows)
    BY DEF SeedingInv, TypeOK
  <2>2. run' \in Runs /\ RunInv(run') /\ run'.put = 0
    BY <1>2, <2>1, NewRunInv DEF StartSeed
  <2>3. TypeOK'
    BY <1>2, <2>2 DEF SeedingInv, TypeOK, StartSeed
  <2>4. PutInv'
    <3>1. run'.catalog \in Seq(Docs)
      BY <2>2 DEF Runs
    <3> QED
      BY <1>2, <2>2, <3>1 DEF PutInv, StartSeed
  <2> QED
    BY <1>2, <2>2, <2>3, <2>4 DEF SeedingInv, StartSeed, CatalogStands, ScopeIsEarned
<1>3. CASE ReadRow
  BY <1>1, <1>3, ReadRowKeepsInv DEF ReadRow
<1>4. CASE ResolveDoc
  BY <1>1, <1>4, ResolveDocKeepsInv DEF ResolveDoc
<1>5. CASE Upsert
  BY <1>5, UpsertKeepsInv
<1>6. CASE Finish
  <2>1. /\ run \in Runs /\ RunInv(run)
        /\ \A i \in 1..run.put : run.catalog[i].id \notin fixed => run.catalog[i] \in container
    BY <1>6 DEF SeedingInv, TypeOK, PutInv, Finish
  <2>2. DOMAIN run.catalog = 1..run.put
    BY <1>6, <2>1 DEF Finish, Runs
  <2>3. CatalogStands'
    BY <1>6, <2>1, <2>2 DEF CatalogStands, Finish
  <2>4. TypeOK'
    BY <1>6, <2>1 DEF SeedingInv, TypeOK, Finish
  <2> QED
    BY <1>6, <2>1, <2>3, <2>4 DEF SeedingInv, PutInv, ScopeIsEarned, Finish
<1>7. CASE Kill
  BY <1>1, <1>7 DEF Kill, PutInv
\* Nor does a step that leaves the container and the run as they are.
<1>8. ASSUME UNCHANGED <<container, run, last, fixed>>, TypeOK'
      PROVE  SeedingInv'
  BY <1>8 DEF SeedingInv, PutInv, AllResolved, AllRead, CatalogStands, ScopeIsEarned
<1>9. CASE StartFixtures
  BY <1>8, <1>9 DEF SeedingInv, TypeOK, StartFixtures
<1>10. CASE \E id \in FixtureIds : UpsertFixture(id)
  BY <1>10, UpsertFixtureKeepsInv
<1>11. CASE KillFixtures
  BY <1>8, <1>11 DEF SeedingInv, TypeOK, KillFixtures
<1>12. CASE Decide
  BY <1>8, <1>12, SeedingAssumption DEF SeedingInv, TypeOK, Decide
<1>13. CASE Revise
  BY <1>8, <1>13, SeedingAssumption DEF SeedingInv, TypeOK, Revise
<1>14. CASE UNCHANGED vars
  BY <1>8, <1>14 DEF SeedingInv, TypeOK, vars
<1> QED
  BY <1>2, <1>3, <1>4, <1>5, <1>6, <1>7, <1>9, <1>10, <1>11, <1>12, <1>13, <1>14 DEF Next

\* What the runs of the seed jobs have come to, at every moment and for every
\* workbook, resolution and set of fixtures.
THEOREM SeedingInvariant == Spec => []SeedingInv
  BY InitInv, NextKeepsInv, PTL DEF Spec

\* The state has its type.
THEOREM TypeCorrect == Spec => []TypeOK
<1>1. SeedingInv => TypeOK
  BY DEF SeedingInv
<1> QED
  BY <1>1, SeedingInvariant, PTL

\* No two documents of a run have one id (jobs/ingest_excel.py:152-156).
THEOREM IdsDistinct == Spec => []OneIdEach
<1>1. SeedingInv => OneIdEach
  BY DEF SeedingInv, OneIdEach, SeedRuns, RunInv, CatalogInv
<1> QED
  BY <1>1, SeedingInvariant, PTL

\* Every row read is whole in one document, which has its slug by its name, or else
\* by a number and then another name (jobs/ingest_excel.py:10-12, 148-149).
THEOREM NoRowLost == Spec => []RowsKept
<1>1. ASSUME NEW r, RunInv(r)
      PROVE  \A n \in 1..r.read : \E i \in DOMAIN r.docs :
                LET doc == r.docs[i]
                    row == r.book[n]
                IN  /\ Holds(doc, row)
                    /\ \/ Slug[doc.name] = Slug[row.name]
                       \/ doc.id = Slug[row.name] /\ doc.id \in NumberedAs(doc.name, r.docs)
  BY <1>1 DEF RunInv, IdsInv, Kept
<1>2. SeedingInv => \A r \in SeedRuns : RunInv(r)
  BY DEF SeedingInv, SeedRuns
<1>3. SeedingInv => RowsKept
  BY <1>1, <1>2 DEF RowsKept
<1> QED
  BY <1>3, SeedingInvariant, PTL

\* Every document resolved is in the catalog or closed (jobs/seed_restaurants.py:103, 150).
THEOREM NothingUnlisted == Spec => []LiveDocsListed
<1>1. SeedingInv => LiveDocsListed
  BY DEF SeedingInv, LiveDocsListed, SeedRuns, RunInv, CatalogInv, ListedInv
<1> QED
  BY <1>1, SeedingInvariant, PTL

\* One Google place is one restaurant, and no name of elsewhere is merged into one of
\* Sao Paulo (jobs/seed_restaurants.py:124-127).
THEOREM OnePlaceOne == Spec => []OnePlaceOneRestaurant
<1>1. ASSUME NEW r, CatalogInv(r.catalog, r.docs, r.resolved, r.closed)
      PROVE  \A i, j \in DOMAIN r.catalog :
                LET c == r.catalog[i]
                    mergedNames == {r.docs[k].name :
                                      k \in {n \in DOMAIN r.docs : r.docs[n].id \in c.merged}}
                IN  /\ c.place # None /\ r.catalog[j].place = c.place => i = j
                    /\ c.merged # {} => c.place # None
                    /\ c.place # None /\ City[c.place] = "sp"
                           => ({c.name} \union mergedNames) \intersect Elsewhere = {}
  BY <1>1 DEF CatalogInv, EntriesInv, PlacesInv, AtHome
<1>2. SeedingInv => \A r \in SeedRuns : CatalogInv(r.catalog, r.docs, r.resolved, r.closed)
  BY DEF SeedingInv, SeedRuns, RunInv
<1>3. SeedingInv => OnePlaceOneRestaurant
  BY <1>1, <1>2 DEF OnePlaceOneRestaurant
<1> QED
  BY <1>3, SeedingInvariant, PTL

\* No document is in scope that has not earned it (jobs/seed_restaurants.py:198).
THEOREM ScopeEarned == Spec => []ScopeIsEarned
<1>1. SeedingInv => ScopeIsEarned
  BY DEF SeedingInv
<1> QED
  BY <1>1, SeedingInvariant, PTL

\* The catalog of a run that finished stands in the container, but for fixtures
\* (jobs/seed_restaurants.py:241-242).
THEOREM FinishedRunStands == Spec => []CatalogStands
<1>1. SeedingInv => CatalogStands
  BY DEF SeedingInv
<1> QED
  BY <1>1, SeedingInvariant, PTL
=============================================================================
