--------------------------- MODULE CatalogSeeding ---------------------------
(***************************************************************************)
(* From the workbook to the restaurants container: seed_restaurants reads  *)
(* the rows, asks for the resolution of every name, and upserts what comes *)
(* out, one document at a time; seed_fixtures upserts the app's fixtures   *)
(* into the same container.  Nothing is ever deleted.  Either can be       *)
(* killed, or fail, at any step; meanwhile the resolver and its reviewer   *)
(* change what the names resolve to, and the curator the workbook.         *)
(*                                                                         *)
(* A run is one record: how far it has read the rows, resolved the         *)
(* documents they make, and upserted the catalog.  Resolving a document    *)
(* and folding it into the catalog is one step, for the order is the same. *)
(***************************************************************************)
EXTENDS Curation

CONSTANTS Workbooks,    \* the states of the workbook
          Resolved,     \* what the names may resolve to
          FixtureIds,   \* the ids of the fixtures
          MaxRuns,      \* bound of the seed runs
          MaxFixtures,  \* bound of the fixture runs
          MaxChanges    \* bound of the changes of workbook and resolutions

\* A run over a workbook: rows read, the documents they made, those of them
\* resolved, the ids found closed, the catalog, and the documents of it upserted.
NewRun(book) == [book |-> book, read |-> 0, docs |-> << >>, resolved |-> 0,
                 closed |-> {}, catalog |-> << >>, put |-> 0]

Runs == [book : Seq(Rows), read : Nat, docs : Seq(Docs), resolved : Nat,
         closed : SUBSET Ids, catalog : Seq(Docs), put : Nat]

ASSUME SeedingAssumption ==
    /\ Workbooks \subseteq Seq(Rows)
    /\ Resolved \subseteq [Names -> Resolutions]
    /\ FixtureIds \subseteq Ids
    /\ None \notin Runs
    /\ MaxRuns \in Nat /\ MaxFixtures \in Nat /\ MaxChanges \in Nat

VARIABLES workbook,    \* the curation workbook
          resolution,  \* what each name resolves to
          container,   \* the restaurants container
          run,         \* the seed run under way
          fixing,      \* the fixtures a fixture run has still to upsert
          last,        \* the seed run that finished last, until another starts
          fixed,       \* the fixtures upserted since that run started
          runs, fixtureRuns, changes

bounds == <<runs, fixtureRuns, changes>>
vars == <<workbook, resolution, container, run, fixing, last, fixed, bounds>>

TypeOK == /\ workbook \in Seq(Rows)
          /\ resolution \in [Names -> Resolutions]
          /\ container \subseteq Docs
          /\ run \in Runs \union {None}
          /\ fixing \subseteq FixtureIds
          /\ last \in Runs \union {None}
          /\ fixed \subseteq FixtureIds
          /\ runs \in Nat /\ fixtureRuns \in Nat /\ changes \in Nat

Init == /\ workbook \in Workbooks
        /\ resolution \in Resolved
        /\ container = {}
        /\ run = None
        /\ fixing = {}
        /\ last = None
        /\ fixed = {}
        /\ runs = 0 /\ fixtureRuns = 0 /\ changes = 0

-----------------------------------------------------------------------------
\* seed: the workbook is loaded.
StartSeed == /\ run = None
             /\ runs < MaxRuns
             /\ run' = NewRun(workbook)
             /\ last' = None
             /\ fixed' = {}
             /\ runs' = runs + 1
             /\ UNCHANGED <<workbook, resolution, container, fixing, fixtureRuns, changes>>

\* A step of the run that writes nothing.
OnlyRun == UNCHANGED <<workbook, resolution, container, fixing, last, fixed, bounds>>

\* parse_workbook: the next row.
ReadRow == /\ run # None
           /\ run.read < Len(run.book)
           /\ run' = [run EXCEPT !.read = @ + 1,
                                 !.docs = Ingest(@, RowDoc(run.book[run.read + 1]))]
           /\ OnlyRun

AllRead == run.read = Len(run.book)

\* build_catalog: the next document is resolved by its name as it stands, dropped
\* if it is closed, and else joins the catalog.
ResolveDoc ==
    /\ run # None
    /\ AllRead
    /\ run.resolved < Len(run.docs)
    /\ LET doc == run.docs[run.resolved + 1]
           res == resolution[doc.name]
       IN  run' = IF res.status = "closed"
                  THEN [run EXCEPT !.resolved = @ + 1, !.closed = @ \union {doc.id}]
                  ELSE [run EXCEPT !.resolved = @ + 1,
                                   !.catalog = Place(@, ApplyResolution(doc, res))]
    /\ OnlyRun

AllResolved == AllRead /\ run.resolved = Len(run.docs)

\* upsert_item: the document takes the place of the one with its id.
Upserted(doc) == {d \in container : d.id # doc.id} \union {doc}

\* Fault: a document that is there is left as it is.
CreateIfMissing == /\ run # None
                   /\ AllResolved
                   /\ run.put < Len(run.catalog)
                   /\ LET doc == run.catalog[run.put + 1]
                      IN  container' = IF \E d \in container : d.id = doc.id
                                       THEN container ELSE Upserted(doc)
                   /\ run' = [run EXCEPT !.put = @ + 1]
                   /\ UNCHANGED <<workbook, resolution, fixing, last, fixed, bounds>>

Upsert == /\ run # None
          /\ AllResolved
          /\ run.put < Len(run.catalog)
          /\ container' = Upserted(run.catalog[run.put + 1])
          /\ run' = [run EXCEPT !.put = @ + 1]
          /\ UNCHANGED <<workbook, resolution, fixing, last, fixed, bounds>>

Finish == /\ run # None
          /\ AllResolved
          /\ run.put = Len(run.catalog)
          /\ run' = None
          /\ last' = run
          /\ UNCHANGED <<workbook, resolution, container, fixing, fixed, bounds>>

\* The run is killed, or an upsert raises; the upserts before it stay.
Kill == /\ run # None
        /\ run' = None
        /\ OnlyRun

-----------------------------------------------------------------------------
\* seed_fixtures seed, one upsert at a time, in an order left open.
StartFixtures == /\ fixing = {}
                 /\ fixtureRuns < MaxFixtures
                 /\ fixing' = FixtureIds
                 /\ fixtureRuns' = fixtureRuns + 1
                 /\ UNCHANGED <<workbook, resolution, container, run, last, fixed, runs, changes>>

UpsertFixture(id) == /\ id \in fixing
                     /\ container' = Upserted(FixtureDoc(id))
                     /\ fixing' = fixing \ {id}
                     /\ fixed' = fixed \union {id}
                     /\ UNCHANGED <<workbook, resolution, run, last, bounds>>

KillFixtures == /\ fixing # {}
                /\ fixing' = {}
                /\ UNCHANGED <<workbook, resolution, container, run, last, fixed, bounds>>

\* The resolver or its reviewer gives names another resolution.
Decide == /\ changes < MaxChanges
          /\ resolution' \in Resolved
          /\ changes' = changes + 1
          /\ UNCHANGED <<workbook, container, run, fixing, last, fixed, runs, fixtureRuns>>

\* The curator saves another workbook.
Revise == /\ changes < MaxChanges
          /\ workbook' \in Workbooks
          /\ changes' = changes + 1
          /\ UNCHANGED <<resolution, container, run, fixing, last, fixed, runs, fixtureRuns>>

Next == \/ StartSeed \/ ReadRow \/ ResolveDoc \/ Upsert \/ Finish \/ Kill
        \/ StartFixtures \/ (\E id \in FixtureIds : UpsertFixture(id)) \/ KillFixtures
        \/ Decide \/ Revise

Spec == Init /\ [][Next]_vars

-----------------------------------------------------------------------------
\* The run under way and the one that finished last.
SeedRuns == {run, last} \ {None}

DistinctIds(docs) == \A i, j \in DOMAIN docs : docs[i].id = docs[j].id => i = j

\* No two documents of a run have one id, however slugs and numbers meet, or the
\* later upsert would hide the earlier restaurant (ingest_excel.py:152-156).
OneIdEach == \A r \in SeedRuns : DistinctIds(r.docs) /\ DistinctIds(r.catalog)

\* Document d has every cell that the row fills, and every item of it.
Holds(d, row) == /\ \A f \in Scalars : row.scalars[f] # None =>
                        d.scalars[f] = row.scalars[f]
                 /\ \A i \in row.items : Canonical[i] \in d.items

\* The ids that a conflicting row of the name can be numbered with among docs.
NumberedAs(name, docs) == {Append(Slug[name], k) : k \in 2..(Len(docs) + 1)}

\* Ingestion mixes no two restaurants that disagree or have different names: every
\* row read is whole, its name up to its slug included, in one document
\* (ingest_excel.py:10-12).  All but its name: a row whose slug is the number of a
\* conflicting namesake is in that document.  "Toto 2" is merged into the second
\* "Toto", and goes on under the name "Toto" (ingest_excel.py:148-149).
RowsKept == \A r \in SeedRuns : \A n \in 1..r.read : \E i \in DOMAIN r.docs :
    LET doc == r.docs[i]
        row == r.book[n]
    IN  /\ Holds(doc, row)
        /\ \/ Slug[doc.name] = Slug[row.name]
           \/ doc.id = Slug[row.name] /\ doc.id \in NumberedAs(doc.name, r.docs)

\* Document c of the catalog stands for document d: it knows its id and has all its
\* items; a cell that d fills is filled, though perhaps with what c said.
StandsFor(c, d) == /\ c.id = d.id \/ d.id \in c.merged
                   /\ d.items \subseteq c.items
                   /\ \A f \in Scalars : d.scalars[f] # None => c.scalars[f] # None

\* Every document resolved is in the catalog, itself or absorbed by another, unless
\* its name was closed (seed_restaurants.py:103, 150).
LiveDocsListed == \A r \in SeedRuns : \A n \in 1..r.resolved :
    \/ r.docs[n].id \in r.closed
    \/ \E i \in DOMAIN r.catalog : StandsFor(r.catalog[i], r.docs[n])

\* One Google place is one restaurant; a document without a trusted place is merged
\* with nothing; and "Gero Rio" is not merged into the Gero of Sao Paulo
\* (seed_restaurants.py:124-127, tests/test_seed_restaurants.py:71).
OnePlaceOneRestaurant == \A r \in SeedRuns : \A i, j \in DOMAIN r.catalog :
    LET c == r.catalog[i]
        mergedNames == {r.docs[k].name : k \in {n \in DOMAIN r.docs : r.docs[n].id \in c.merged}}
    IN  /\ c.place # None /\ r.catalog[j].place = c.place => i = j
        /\ c.merged # {} => c.place # None
        /\ c.place # None /\ City[c.place] = "sp"
               => ({c.name} \union mergedNames) \intersect Elsewhere = {}

\* "A doc only earns scope 'sp' by matching a Sao Paulo place"
\* (seed_restaurants.py:198), at every moment, whatever was killed or overwritten.
ScopeIsEarned == \A d \in container : d.scope = "sp" =>
    d.place # None /\ City[d.place] = "sp" /\ d.name \notin Elsewhere

\* After a run that finished, the container holds its whole catalog, whatever runs
\* before it were killed half way, but for what a fixture run has overwritten.
CatalogStands == last # None => \A i \in DOMAIN last.catalog :
    last.catalog[i].id \notin fixed => last.catalog[i] \in container
=============================================================================
