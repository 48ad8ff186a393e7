# Couvert backend: verification

TLA+ models of the Couvert API and of the offline jobs that feed it, the TLC configurations
that check them on small instances, and TLAPS proofs of what matters most for every instance.
Paths below are relative to the repository root.

- [1. The system](#1-the-system)
- [2. The modules](#2-the-modules)
- [3. What TLC checks](#3-what-tlc-checks)
- [4. Assumptions, bounds and fairness](#4-assumptions-bounds-and-fairness)
- [5. What is proved](#5-what-is-proved)
- [6. Where code and documentation disagree](#6-where-code-and-documentation-disagree)
- [7. What is not modelled](#7-what-is-not-modelled)
- [8. Plan](#8-plan)

Running it: `tlc -config X.cfg M` for a row of section 3, `tlapm M.tla` for a row of section 5.

## 1. The system

A FastAPI process serves a phone app. It reads a catalog of restaurants from a Cosmos
container through an in-process cache, and keeps one document per user in another container.
The catalog is made offline: a workbook is parsed, every name is resolved to a Google place by
a job that pays per search and lets a reviewer overrule it, and a last job upserts the result.

| component | state it keeps | operations | must be true of it |
|---|---|---|---|
| TTL cache, `core/cache.py` | entries with time stamps, a lock per key | `get_or_load`, `clear` | one loader per key; no load while an answer is fresh; answers never go back in time and are boundedly stale; every caller gets out |
| Cached restaurant repository, `core/db/cached_restaurant_repository.py` | one cache | `search`, `count`, `cuisine_counts`, `with_awards`, `get`, `clear` | which calls share an answer; point reads and term searches are never cached |
| Restaurant repository, `core/db/restaurant_repository.py` | none (Cosmos) | the same queries on the database | only documents of São Paulo; a label in any spelling finds its cuisine; `total` ignores the limit |
| Content endpoints, `api/routers/couvert.py` | none | home, cuisines, restaurants, restaurant, discover, awards, award; `warm_catalog` | an answer made of several queries is whole although they saw different catalogs, and right once the catalog is quiet |
| HTTP cache headers, `api/cache_headers.py` | none (the phone's cache) | `dispatch`: `max-age`, `ETag`, 304 | a phone is behind by a bounded time, and no copy is renewed for ever |
| Account endpoints, `api/routers/user.py` | none (Cosmos) | `login`, `update`, `delete`; `me`, `profile`, `validate_username` read only | a payload is merged over the stored document; names are unique and well formed; a deleted account stays deleted |
| User document, `core/models/user.py` | none | `new`, `merged`, `to_response` | a field that was not sent is not touched |
| User repository, `core/db/user_repository.py` | the users container | `get`, `upsert`, `delete`, `username_taken` | each is one Cosmos operation, atomic alone |
| Authentication, `api/auth.py` | the registered Firebase app, a lock | `get_current_user`, `get_optional_user` | the app is registered once; a user only for a valid token |
| Lifespan, `api/main.py` | the client, the warm-up task | start, warm-up, shutdown | the warm-up ends and leaves a browse in memory; shutdown ends, and nothing uses the client once it is closed |
| Maps resolver, `jobs/resolve_google_maps.py` | `data/maps_cache/*.json`, `data/maps_overrides.json` | `resolve`, `requery`, `mark_closed`, `mark_no_match`, `mark_query`, `confirm`; `plan`, `report` print | a name is paid for once; the budget holds; the reviewer is never contradicted |
| Excel ingestion, `jobs/ingest_excel.py` | none | `parse_workbook`, `dedupe`; `stats`, `notes` print | compatible rows of one name are merged, conflicting ones kept apart under ids of their own, and no row is lost |
| Seed jobs, `jobs/seed_restaurants.py`, `jobs/seed_fixtures.py`, `jobs/fixtures.py` | the restaurants container | `seed` of either job; `preview`, `merges`, `flagged` print | one place, one restaurant; no document is lost; scope "sp" is earned; a finished run stands whatever was killed before it |
| Domain helpers, `core/cuisines.py`, `core/slug.py` | tables | `canonical_cuisine`, `make_restaurant_id` | one label per cuisine, one slug per name |
| Wire models, `core/models/couvert.py`, `core/models/restaurant.py` | none | conversions | what their comments say of `total` and `rows` |
| Wiring, `api/deps.py`, `core/db/cosmos.py`, `core/config.py` | settings | look-ups | 503 without Cosmos |
| Deployment, CI and scratch data | files | — | — |

How they interact:

```
phone cache <-> cache headers <-> content endpoints --> cached repository --> TTL cache
                                                                                | loader
     seed job --- upserts ---> restaurants container <--- restaurant repository +
        ^ reads
 workbook --> ingestion;  Google Places --> Maps resolver <-- reviewer

phone --> authentication --> account endpoints --> user repository --> users container
```

What makes it hard:

- **Interleaving.** Handlers are coroutines: everything may happen at an `await`. The account
  handlers read, await and write without an etag. Authentication runs in a thread pool.
- **Staleness.** Two caches in a row (server, phone), keys of different ages in one answer,
  and a catalog replaced while they hold it.
- **Failure.** A loader may raise or be cancelled with others queued behind it; an upsert may be
  applied and its response lost; a job may be killed between the billed search and its cache
  file, or in the middle of rewriting the file with every human verdict.
- **Sequences.** Legal commands in an unexpected order: `confirm` after `mark_closed`, `requery`
  after `confirm`, a name sent with `login` instead of `update`; rows that share a slug, a place,
  or the number that ingestion gave another row.
- **Shutdown.** The warm-up may be waiting for a lock, running a query, or over with loads still
  running when the client is to be closed.

Each such place is listed, at its line, in `PROJECT.json` under "hazards".

## 2. The modules

| module | models | role |
|---|---|---|
| `CatalogReads` | — | abstract: answers to a query never go back in time and are behind by at most `Staleness` |
| `TtlCache` | `core/cache.py` under asyncio, its loaders, seed runs, the cancelled warm-up | implements `CatalogReads` |
| `CatalogQueries` | queries of the restaurant repository on one snapshot | operators only |
| `ContentApi` | content endpoints, the cached repository's keys, cache headers, the phone's cache | **composed with** `CatalogReads` |
| `UserDoc` | the user document and the handlers' pure parts | operators only |
| `AccountStore` | — | abstract: every login, update and delete is atomic |
| `UserAccounts` | `api/routers/user.py` over the users container | implements `AccountStore` if one user's requests do not overlap |
| `FirebaseAuth` | `api/auth.py` under threads | |
| `MapsResolver` | `jobs/resolve_google_maps.py`, its files, Google's bill, the reviewer | |
| `Curation` | rows, resolutions and documents, and how the data jobs fold them | operators only |
| `CatalogSeeding` | `jobs/ingest_excel.py`, `jobs/seed_restaurants.py`, `jobs/seed_fixtures.py` over the restaurants container | extends `Curation` |
| `Lifespan` | `api/main.py` and `warm_catalog`: start, warm-up, requests, shutdown | **composed with** `TtlCache` |
| `MC*` | — | the small instances for TLC |
| `*Proofs` | — | theorems and proofs |

Operators marked `\* Fault:` are not part of any behaviour. Each is the definition that follows
it with a bug in it; the runs of section 3 find the property named in `PROJECT.json` ("mutants")
violated when it takes the place of the sound one.

### TtlCache and CatalogReads

A task is one call of `get_or_load`; a step is what the event loop runs between two suspension
points, so a check, `setdefault` and taking a free lock are one step. `Hit`, `MissAndLoad` and
`MissAndWait` are the three ways into the call. `asyncio.Lock` is a FIFO: `Woken` is the head of
a free lock's queue, which continues with `WakeToHit` or `WakeToLoad`, the second look under the
lock; `LockFree` is false while anybody queues, as `asyncio.Lock` has it. A loader is two steps:
`Read` takes the snapshot of the catalog, `Store` puts it into the cache, stamps it and releases
the lock. `Fail` is a loader that raises or is cancelled; `Abandon` a waiter cancelled by
shutdown. The catalog is a version number and a seed run is `Publish`. `served` and `lag` record
the answer given, for the refinement only. `CatalogReads` has no cache: `Answer(k)` returns any version that is neither older
than the last answer nor out of date for longer than `Staleness`.

### CatalogQueries and ContentApi

A restaurant is the number of its name in the order of names; a catalog maps it to its document
or to nothing; of a document the scope, the cuisines and the award mentions are kept.
A handler is a function of what it has read: `Waiting` says which queries it awaits, in the
order of the code (the rows of `/restaurants` together, because of `gather`), and `Body` what it answers
once nothing is awaited. What a query returned is represented by the query its answer was loaded for and the catalog
version that load saw (`Answers`). The two queries differ only if they share a key: keys are f-strings (`KeyOf`), in
which no label is written as the label "None" is (`NoneLabel`, `KeyLabel`), so `?cuisine=None` shares `search:None:20` and
`count:None` with requests without a cuisine (`SameKey`), and whoever asks first decides what is stored. `Mistaken` says
that this has reached a screen. `ReadCached` is a step of `CatalogReads`, so that `ContentApi` rests on what `TtlCache` is
shown to implement and not on how. `ShowKept`, `Request` and `Respond` are the phone: it shows its copy for `MaxAge`, then
asks again; `Revalidated` is the comparison of ETags. `QueryFails` is a 500.

Pages are sets with an order given by name, not sequences; the years and the label of an award,
and the restaurant's other fields, are left out.

### UserDoc, AccountStore and UserAccounts

A step is one Cosmos operation with the local code around it. `LoginGet` and `UpdateGet` read,
`RefuseMalformed`, `CheckFree` and `RefuseTaken` are `_validate`, `Upsert` and `Delete` write;
the last two may be applied and still answered 500, and `CosmosFails` is any operation that
raises without effect. `profile` stands for all the fields nothing distinguishes. `created_at`
is the request that made the document. `gone` and `overlap` are history. In `AccountStore` each
request is a single step on the container.

### FirebaseAuth

A step is what a thread does between two points where another may see `_apps` or the lock.
`Peek` is the look without the lock, `Acquire`, `Recheck`, `Register` and `RegisterFails` are
the `with` block, `Verify` is `verify_id_token`, whose every exception is a 401. `usable` says
whether the settings hold credentials that `initialize_app` accepts.

### MapsResolver

A `resolve` or `requery` run is long and interleaves with the reviewer's commands, which load
and save the overrides in one step. `Search` bills a name and holds the answer, `CacheAnswer`
writes its file; `SearchLost` is a timeout after Google has answered, `SearchRefused` a status
other than 200, `Kill`, `KillWithAnswer` and `KillSaving` the process dying, the last two also
in the middle of a write (`Torn`). `Resolution` and `Interpreted` are `resolution_from_cache`.
Names that fold to one slug share a `File`. `paid`, `lost` and `word` are history: what was billed,
what was lost, what the reviewer said last.

### Curation and CatalogSeeding

Of a row its name, scalar cells and list items are kept, of a document also its place, scope and
the ids it absorbed. A slug is the sequence of its parts, so that "toto-2" is one id whether it is
the slug of "Toto 2" or the second "Toto". `Ingest` is `dedupe` for one row, with `Compatible`, `Merge` and
`Numbered`, and `Holds` and `NumberedAs` say what is left of a row; `ApplyResolution`, `Absorb` and `Place` are the functions of `seed_restaurants.py`. A seed run
is one record: `StartSeed` loads the workbook, `ReadRow` ingests a row, `ResolveDoc` resolves a
document and folds it into the catalog, `Upsert` writes one document of it, and `Kill` ends the run
anywhere. `build_catalog` resolves all documents before it folds the first; as the order is the same
and folding reads nothing outside, one step does both. `UpsertFixture` is `seed_fixtures`, free to run at the same time; `Decide`
and `Revise` are the resolver with its reviewer and the curator, at any moment. `last` and `fixed`
are history.

### Lifespan

`Lifespan` puts the process around `TtlCache`: the tasks that may be cancelled are the loads of
the warm-up, the others requests. `Due` is the structure of its two gathers: the counts and the flat loads at
once, the rows once the counts are there. `Ask`, `Advance` and `Withdraw` are steps of the cache taken
for the warm-up; `Request` and `Respond` those taken for requests. `WarmUpDone` is `warmup.done()`: all answered, or one
failed, in which case the others go on as nobody's tasks. `Shutdown` comes when uvicorn has
answered the requests it took; it cancels a warm-up that is not done, and `Close` waits for it.
The few passes of the event loop in which the end of a load travels up through the gathers are
part of the step that ends it.

## 3. What TLC checks

| run | question | states |
|---|---|---|
| `MCTtlCache_safety` | With callers, a cancellable warm-up, failing loads, `clear` and seed runs in any order: has a key one loader (`OneLoadPerKey`), is a fresh answer never reloaded (`NoRedundantLoad`), and is the cache a `CatalogReads` (`ServesRecentCatalog`)? | 525,549 |
| `MCTtlCache_liveness` | Does every call return (`EveryCallReturns`), whatever fails and whoever is cancelled? | 4,025 |
| `MCContentApi` | Is what a phone shows behind by at most both caches together (`ShowsRecentRestaurants`), whole although a seed run fell between its queries (`WholeAnswers`), and exactly right once the run is old enough (`SettledScreens`)? The last two except what was mistaken for the answer to `?cuisine=None`, or to a request without a cuisine. | 424,732 |
| `MCContentApi_total` | Does a list's `total` cover the restaurants in it? **No.** | — |
| `MCContentApi_none_label` | Is a list's `total` exact on a quiet catalog, whatever others have asked for? **No.** | — |
| `MCUserAccounts_per_user` | If a client waits for its answers: is every write a merge over the stored document (`AtomicWrites`), does a deleted account stay deleted (`NoResurrection`), and are names unique until requests overlap (`UniqueUnlessOverlapping`)? | 119,384 |
| `MCUserAccounts_lost_update` | And if one user's requests overlap? **No.** | — |
| `MCUserAccounts_name_race` | Are names unique when different users' requests overlap? **No.** | — |
| `FirebaseAuth` | Cold container, three requests at once: one registration (`RegistersOnce`), fitting answers (`AnswersFit`), everybody answered (`EveryRequestAnswered`)? | 11,808 |
| `MCMapsResolver` | With kills and lost answers: is a name paid for once plus its lost answers, also when another shares its cache file (`PaidOnce`), and is the reviewer never contradicted (`NeverContradicted`)? | 449,540 |
| `MCCatalogSeeding` | Whatever shares a slug or a place, is killed or changes its verdict: has every document an id of its own (`OneIdEach`), is everything a row says in one document, under its name or under the number that was taken for it (`RowsKept`), is every document listed unless it is closed (`LiveDocsListed`), is one place one restaurant (`OnePlaceOneRestaurant`), is scope "sp" earned at every moment (`ScopeIsEarned`), and does a finished run stand (`CatalogStands`)? | 1,074,910 |
| `MCLifespan` | Is a browse in memory once the warm-up has succeeded (`BrowseIsWarm`), is no query under way when the client is closed, unless a load had failed (`NoQueryAfterClose`), and do the warm-up (`WarmUpEnds`), the shutdown (`ShutdownCloses`) and every call (`EveryCallReturns`) end? | 222,709 |

The passing runs also check the inductive invariants of section 5 (`CacheInv`, `AccountsInv`, `AuthInv`,
`ResolverInv`, `ContentInv`, `LifeInv`), each with the module's type invariant.

`SettledScreens` is the reference definition of the content endpoints: `Right` says what each
of them promises on a single catalog (complete up to the limit, nothing better left out, totals
that count everything) in words of its own, not with the operators of `CatalogQueries`.

Configurations with `CHECK_DEADLOCK FALSE` are those of systems that end: each request is issued
once (`UserAccounts`, `FirebaseAuth`), and the resolver stops at the bounds of searches and
commands or when its overrides are torn, seeding at its bounds, and a closed process once its clock
has run out. The cache and the content runs have deadlock checked.

## 4. Assumptions, bounds and fairness

**Bounds.**

- *Cache*: two keys, three tasks of which one can be cancelled, `TTL` = 1, `MaxDelay` = 1, `MaxTime`
  = 4, `MaxVersion` = 2. One task loads while a second waits and a third arrives; an entry is
  stored, used and expires within the clock, twice; two seed runs fit around one load. The
  liveness run takes one key without symmetry and a `TTL` of 0, where a woken waiter may find
  the entry expired or not.
- *Content*: one screen, because screens meet only in the server's cache, and `CatalogReads`
  already lets that hold whatever others have read; thirteen things to ask for, among them the label "None" (0), which is no
cuisine, and a second spelling (9) of one; decks of two and of three; four catalogs (without
  awards, with them, with documents parked in another city, empty), any two different ones in a row;
  `MaxVersion` = 1, one seed run at any moment; `RowCuisines`, `RowSize` and `HomeSize` of 2 against three cuisines and four
  restaurants, so that each is exceeded; `MaxAge` = `Staleness` = 1 and `MaxTime` = 3, so an
  answer is cached on the server, kept by the phone, outlives both and is revalidated. The run for `total` is without the
  label "None", so that it shows what ages alone do.
- *Accounts*: three requests of two users (of one in `lost_update`). Two that race and one
  before or after is what each property needs to fail.
- *Authentication*: three threads, every mix of headers, good and bad credentials.
- *Resolver*: three names of which two share a file, two places, a budget of one search per run,
  two searches and two commands over all runs. One search to lose and one to repeat, one verdict
  to give and one to change it.

- *Seeding*: three names ("Toto", "Toto 2", and "Gero Rio", which is in Rio), one scalar column, six workbooks of up to three
  rows (two conflicts with one row, a cell filled up before a conflict, a number that meets a real slug
  and one that skips it, three different names, a row alone), twenty-four resolutions of the names over a place in São Paulo, one elsewhere and
  one without a city; two seed runs of which either may be killed, a fixture run over a seeded id and an id of its
  own, one change of the workbook or the resolutions at any moment.
- *Lifespan*: the counts, one row, one flat load, one request at a time for any of their keys; the process
  starts over an empty catalog and one seed run brings the row; `TTL` = 1 and `MaxTime` = 2, so entries expire.

**Constants.** What the `ASSUME`s ask is what the code fixes: `Asks` is any set of requests of the
shape the router declares (`AskTypes`), with any limits; a row has at least one place (`ROW_SIZE` is 12);
ages and bounds are natural numbers. Restaurants, cuisines and award mentions are any finite sets,
catalogs any set of documents over them.

**Environment.**

- A query sees one catalog version, and a seed run is one `Publish`. The job really upserts one
  document at a time; a query in between sees a version of its own, which may be read as a
  further `Publish`.
- `MaxDelay` bounds the time from a query's snapshot to its `Store`. Without such a bound a
  stuck response could bring back any old catalog; the code sets no timeout of its own.
- Cosmos reads are monotone, point reads and upserts atomic; a failed upsert was applied or never will be.
- `asyncio.Lock` is fair and wakes one waiter at a time (CPython's).
- The phone counts the age of an answer from the moment it asked for it, as HTTP caches do,
  keeps its copy when a request fails, and drops it when it is told 404.
- `OnePerUser` says that a client waits for its answer before it sends the same user's next
  request. The code does not enforce it; the runs without it show what happens.
- Stamps of `created_at` are distinct.
- One seed run and one fixture run at a time; an upsert is atomic, and one that raises ends its run.
- uvicorn stops a process by answering the requests it has taken and then ending the lifespan; a
  process that is killed has nothing to lose, as it stores nothing.
- One `resolve` or `requery` runs at a time, and there is one reviewer. Scores are a constant,
  ties are resolved in one way. Files are not repaired by hand. The order of the workbook is left open,
  and `requery` gets no name twice.

**Fairness.** `TtlCache`: weak fairness of `Resume` (the event loop runs what is woken), of
`Read` or `Fail`, and of `Finish` (a call of the Cosmos SDK answers or raises). Nobody is obliged
to call, and nothing obliges a load to succeed. `FirebaseAuth`: weak fairness of each thread's
steps. It is enough for the lock because a request asks for it at most once, so nobody can be
overtaken for ever. `Lifespan`: weak fairness of each load and each request that can go on, of asking for
what is due, and of `Close`; nothing obliges anyone to shut down or to call, nor a load to succeed.
No other property is a liveness property.

## 5. What is proved

Every theorem holds for all values of the constants that satisfy the module's `ASSUME`s.

| module | theorem | states |
|---|---|---|
| `TtlCacheProofs` | `CacheInvariant` | `[]CacheInv` |
| | `TypeCorrect`, `SingleLoader` | `[]TypeOK`, `[]OneLoadPerKey` |
| | `LoadsOnlyWhenStale` | `NoRedundantLoad` |
| | `CacheServesRecentCatalog` | `TtlCache` implements `CatalogReads` with `Staleness` = `TTL + MaxDelay` |
| `UserAccountsProofs` | `TypeCorrect` | `[](TypeOK /\ RequestInv)` |
| | `WritesAreAtomic` | with `OnePerUser`, `UserAccounts` implements `AccountStore` |
| | `DeletedStaysDeleted` | with `OnePerUser`, `[]NoResurrection` |
| | `SerialUsernamesUnique` | if `login` carries no name, `[]UniqueUnlessOverlapping` |
| | `AccountsInvariant` | with both, `[]AccountsInv` |
| | `RetriedUpdate` | an update repeated with a name in normal form is not refused its own name, and stores the same document |
| `FirebaseAuthProofs` | `AuthInvariant`, `RegistrationSafe` | `[]AuthInv`, `[](RegistersOnce /\ AnswersFit)` |
| `MapsResolverProofs` | `ResolverInvariant`, `TypeCorrect` | `[]ResolverInv`, `[]TypeOK` |
| | `SearchedAtMostOnce` | `[]PaidOnce` |
| | `ReviewerNeverContradicted` | `[]NeverContradicted` |
| `CatalogSeedingProofs` | `SeedingInvariant`, `TypeCorrect` | `[]SeedingInv`, `[]TypeOK` |
| | `IdsDistinct`, `NoRowLost` | `[]OneIdEach`, `[]RowsKept` |
| | `NothingUnlisted`, `OnePlaceOne` | `[]LiveDocsListed`, `[]OnePlaceOneRestaurant` |
| | `ScopeEarned`, `FinishedRunStands` | `[]ScopeIsEarned`, `[]CatalogStands` |
| `LifespanProofs` | `UsesTheCache` | `LifeSpec => Spec`: the process implements the specification of its cache |
| | `ProcessKeepsCache` | so `[]OneLoadPerKey`, `NoRedundantLoad` and `ServesRecentCatalog` hold in it |
| | `LifeInvariant` | `[]LifeInv` |
| | `WarmBrowse`, `ClosedClean` | `[]BrowseIsWarm`, `[]NoQueryAfterClose` |
| `CatalogQueriesProofs` | lemmas only | what `ORDER BY` and `LIMIT` of a query, and the award index, contain |
| `ContentApiProofs` | `ReadsTheCatalog` | the endpoints use the catalog as `CatalogReads` lets them |
| | `ContentInvariant` | `[]ContentInv` |
| | `RecentRestaurants` | `[]ShowsRecentRestaurants` |
| | `AnswersAreWhole`, `ScreensSettle` | `[]WholeAnswers`, `[]SettledScreens` |

The arguments:

- **Cache.** `OneLoadPerKey` is not inductive: nothing in it says why a second task cannot pass
  the lock. `LockInv` does: who loads holds the lock of its key. For the refinement an answer
  must be young for two reasons at once, the age of the entry and the age of its snapshot:
  `ResultInv` bounds a result under way, `EntryInv` says that an entry is the last answer given
  to its key and was at most `MaxDelay` out of date when it was stored; `TTL` more passes until
  `Fresh` refuses it. That answers never go back needs `served <= got.ver`, which holds because
  only the holder of the lock stores.
- **Accounts.** `SnapshotInv` says that what a handler has read is what the container still
  holds, which is where `OnePerUser` is used, and that a name about to be written was
  normalised and validated. `StampInv` gives `NoResurrection`: the document of a deleted
  account was made by a finished request, and no handler still holds it. `SerialInv` carries the uniqueness
  from the check to the write while there is one request at a time.
- **Authentication.** The lock is held exactly by the thread between its second look and the end
  of the block, and `_apps` changes under it only.
- **Resolver.** `RunInv`: a resolve run has nothing to show for the names it has still to do (`NothingToShow`), although its list
  is as old as the run: every search paid for that name was lost, even if the answer for another name has filled their common
  file meanwhile. `PaidInv`: a name without a file, too, has nothing to show but the answer in hand (`InHand`), so a later
  run that lists it has not paid before. `WordInv`: the overrides say what the reviewer said.
- **Seeding.** No recursion over the rows is needed: ingestion, resolution and merging go one row or
  document at a time, and lemmas say what each fold returns and preserves (`IngestTyped`,
  `IngestKept`, `ApplyTyped`, `PlaceKeepsInv`). `NumberedFree` is where ids stay distinct: fewer
  documents than numbers are tried, so by the pigeonhole principle one is free. `IdsInv` says whose id a document of the ingested
list has, the slug of its own name or a number given for it; it is why a row of another name can only have
been merged into a document numbered with the row's own slug. `RunInv` says of a
  run, as far as it has come, what the properties say of it; `OnePlaceOneRestaurant` needs `AtHome`, which
  `apply_resolution` establishes, and `PutInv` that what a run has upserted stands until it
  finishes, where `DistinctIds` of its catalog is used: otherwise it would overwrite its own.

- **Lifespan.** `LifeSpec` adds variables to the cache and restricts who calls it, so every step of
  the process is a step of the cache or leaves it alone (`CacheSteps`), and what is proved of the
  cache holds in it. On top of that `LoadInv` ties what the warm-up knows of a load to what its task
  does in the cache: a load is pending exactly while its task is not idle. `WarmInv` says what an answered load
  left: its key has an entry, and within the first `TTL` an entry is fresh and hence stands (`EntriesStand`),
  whoever else asks. `BrowseIsWarm` is this for the counts and for every row they name.
  `NoQueryAfterClose` needs `ShutdownInv`: requests were drained before the shutdown began, and
  a cancelled warm-up has no load under way when the client is closed; what can remain are siblings of a load
  that failed, which `Failed` excludes. Every step of a load, whether it asks, goes on or is withdrawn, is shown to
  be one `WarmStep`, and the invariant is proved of that.
- **Content.** The versions an answer was made from are gone once it is kept or shown, so the
  invariant must say that they existed: `Made` is "there is one recent version for each query the
  handler awaits, and a query of the same key, of which this is the body". `RequestInv` bounds the age of every version read while the request
  runs, `MadeOfReads` shows that a handler which waits for nothing more has used nothing it has not
  read, and `KeptInv` and `ShownInv` carry `Made` through the phone's copy, its revalidation and
  `MaxAge`. After that time plays no part: `BodyServed`, `BodyWhole` and `BodyRight` say what the body of *any*
  versions is, in general for the first two and when all versions are one for the third. A key stands for one query unless it is one of
  those that "None" is written in (`SharesKey`), so only `Mistaken` screens are excepted: `WholeAnswers` still bounds the size of their rows and decks. They rest
  on `CatalogQueriesProofs`: the order of a query is total on a finite set, ranks are a bijection, and so `LIMIT n`
  gives n documents, or all there are, with nothing better left out.
- **Types.** Each `TypeOK` follows from its module's inductive invariant; in `CatalogSeeding` this is where the
  folds of ingestion and merging are shown to return documents.

Only model-checked: `WarmUpEnds`, `ShutdownCloses`, `EveryCallReturns` and `EveryRequestAnswered`. They are
liveness under fairness, which is out of the prover's reach. The properties of the runs that expect
a violation are false. Everything else the runs check is proved.

## 6. Where code and documentation disagree

- **Lost update** (`MCUserAccounts_lost_update`). `core/models/user.py:42-43` promises a merge
  over the stored document; `api/routers/user.py:83` writes a merge over the one read before its
  awaits. Two overlapping requests of one user undo each other, and a delete is undone by an
  update that had read before it.
- **Name race** (`MCUserAccounts_name_race`). Two users find one name free and both store it.
- **Total below the list** (`MCContentApi_total`). `core/models/couvert.py:67-68` says the total
  can exceed the list; after a seed run it can be less, because the two come from different keys.
- **Key of "None"** (`MCContentApi_none_label`). `core/models/couvert.py:67` says the total is every restaurant that matches. The
  keys of `core/db/cached_restaurant_repository.py:37,54` are f-strings: after `?cuisine=None`, which finds nothing, the
  unfiltered total is 0 and `/discover` of the same limit has no filler, until the entries expire.

Known from reading the code for the models, without a run:

- `login` merges a `username` without validating it (`api/routers/user.py:46`), so a name that `update` would refuse
  as taken is stored all the same. `SerialUsernamesUnique` assumes that clients do not send one.
- The overrides are rewritten in place (`jobs/resolve_google_maps.py:88`): a kill in the middle loses every verdict given so
  far, and every command fails until somebody repairs the file (`Torn`).
- A resolve run lists its names once (`jobs/resolve_google_maps.py:287`): one that is closed while it runs is paid for
  all the same.
- Two names of one slug that are pending together are both paid for, the second although its file is there by
  then (`jobs/resolve_google_maps.py:100`, `:287-301`), against "never twice" for what that file answers (`:4-6`). `PaidOnce`
  counts by name: neither is paid for twice.
- The user of "ana" who sends "Ana" is stored as "Ana" (`api/routers/user.py:78`), against the rule in line 20.
- `confirm --place-id` of a name marked closed or without a match prints "confirmed"; the name stays
  as it was (`jobs/resolve_google_maps.py:346` and `:162-166`).
- A name rejected with `mark_no_match` before it was searched is still listed as pending, and paid for
  (`jobs/resolve_google_maps.py:224-231`).
- `_absorb` loses "no curated detail" (`jobs/seed_restaurants.py:103`) of list cells only: rows that ingestion
  kept apart because they conflict share a name, hence a place, and are merged again, the later
  one's conflicting cells dropped. `LiveDocsListed` says what does survive.
- A third row of a name is compared with the first one only, not with those already numbered
  (`jobs/ingest_excel.py:148`), and a "Toto 2" that meets a "Toto" numbered toto-2 is compared with that one, and merged
  into it if they do not conflict, though the names differ: the row's name is lost and its cells are resolved as "Toto", against
  "Same-name rows are merged" (`jobs/ingest_excel.py:10`). `RowsKept` allows this case and no other loss of a name.
- "Places the curation marked as closed are left out" (`jobs/seed_restaurants.py:9-10`) of the run's catalog; a document
  seeded before the place closed, or before it was merged into another, is not deleted and stays served.
- `seed_fixtures seed` ("Idempotent — safe to re-run", `jobs/seed_fixtures.py:1`) replaces a seeded document that has
  a fixture's id by one without a scope, which no query of the API serves.
- After a warm-up with a failed load the others run on, and shutdown closes the client under them
  (`api/main.py:63-68`); their failure is never looked at.

What holds, and was worth asking: a delete followed by a `login` really starts a new account;
a lost response of an upsert never corrupts a document, and repeating an update does no harm
when its name is in normal form; the double-checked registration is sound;
no name is paid for twice unless an answer was lost; the reviewer is never
contradicted by the scorer, not even after a `requery` that lost the confirmed place; a phone is
at most `2 * TTL + MaxDelay` behind, twice what `CONTENT_CACHE_SECONDS` suggests.

## 7. What is not modelled

- *Printing commands* (`plan`, `report`, `stats`, `notes`, `preview`, `merges`, `flagged`) and `init_db`, which
  creates what the other jobs presuppose.
- *Parsing of cells, addresses and award mentions*: string work; its results are members of small
  sets (`Items`, `City`, `Mentions`).
- *A process without Cosmos settings*: answers 503 for its whole life.
- *The resolver and the seed job in one model*: `CatalogSeeding` lets the resolutions be anything
  `MapsResolver` can produce, and change at any moment, so it needs none of its steps.
- *Other replicas*: the cache is per process; a phone that meets two
  replicas may see answers go back in time, though none is older than the bound. `DEPLOY.md:25,122` allows two
  (`--min-replicas 1 --max-replicas 2`), so this does happen under load.
- *Slugs and label tables*: constants (`File`, `Named`, `Canonical`, `Slug`) with the properties the rest
  relies on.
- *Wiring, deployment, CI, scratch data*: no behaviour over time.
- *Growth of the cache's key space* (`core/cache.py:46`): real, as `cuisine` and `limit` come from the
  request, but a matter of memory and not of states.

## 8. Plan

Done, in this order: the cache and its abstract reads, with proofs; the accounts and their atomic
store, with proofs; authentication, with proofs; the resolver, with proofs; the content endpoints,
with proofs; ingestion, the resolutions and seeding, with proofs; the lifespan around the cache, with proofs.

Next:

1. A theorem that composes `CacheServesRecentCatalog` with `RecentRestaurants`: handlers that read through the
   cache's tasks implement `ContentApi` with `Staleness` = `TTL + MaxDelay`, hence the bound
   `2 * TTL + MaxDelay`. It needs a `ContentApi` whose versions move when others read, too.
2. The handlers of `ContentApi` inside `Lifespan`, so that a browse is warm down to its body.
