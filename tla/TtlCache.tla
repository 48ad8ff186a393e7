------------------------------ MODULE TtlCache ------------------------------
(***************************************************************************)
(* The in-process TTL cache of the API (core/cache.py) under the asyncio   *)
(* event loop.  A task is one coroutine inside get_or_load; a step is what *)
(* the event loop runs between two suspension points, so check, setdefault *)
(* and taking a free lock are one step, and so are a loader's return, the  *)
(* store and the release.  The loader is a query against Cosmos: it takes  *)
(* its snapshot of the catalog in one step (Read) and its result arrives   *)
(* in a later one (Store), with a seed job free to publish in between.     *)
(*                                                                         *)
(* The catalog itself is only a version number: an answer carries the      *)
(* version it was computed from.                                           *)
(***************************************************************************)
EXTENDS Integers, Sequences, SequencesExt

CONSTANTS Keys,         \* the cached queries
          Tasks,        \* coroutines calling get_or_load
          Cancellable,  \* those of them the lifespan may cancel (the warm-up)
          TTL,          \* content_cache_seconds
          MaxDelay,     \* longest time from a query's snapshot to its store
          MaxTime,      \* bound of the clock
          MaxVersion,   \* bound of the catalog versions
          None          \* neither a task, a key nor an entry

ASSUME CacheAssumption ==
    /\ TTL \in Nat /\ MaxDelay \in Nat
    /\ MaxTime \in Nat /\ MaxVersion \in Nat
    /\ Cancellable \subseteq Tasks
    /\ None \notin Tasks /\ None \notin Keys
    /\ None \notin [ver : 0..MaxVersion, at : 0..MaxTime]

VARIABLES now,      \* time.monotonic()
          db,       \* the catalog version Cosmos holds
          since,    \* since[v]: when version v became current
          entries,  \* entries[k]: the stored answer and its time stamp
          holder,   \* holder[k]: the task inside the lock of k
          queue,    \* queue[k]: the tasks waiting for the lock of k, in order
          pc,       \* pc[t]: where in get_or_load task t is suspended
          key,      \* key[t]: the key task t asked for
          got,      \* got[t]: the query result task t is about to store
          served,   \* served[k]: the version in the last answer to k
          lag       \* lag[k]: how long that version had been out of date by then

cacheVars == <<entries, holder, queue>>
taskVars  == <<pc, key, got>>
vars      == <<now, db, since, entries, holder, queue, pc, key, got, served, lag>>

\* An answer: the catalog version it was computed from, and a time stamp (of
\* the snapshot while it is in flight, of the store once it is an entry).
Answers == [ver : 0..MaxVersion, at : 0..MaxTime]

TypeOK == /\ now \in 0..MaxTime
          /\ db \in 0..MaxVersion
          /\ since \in [0..MaxVersion -> 0..MaxTime]
          /\ entries \in [Keys -> Answers \union {None}]
          /\ holder \in [Keys -> Tasks \union {None}]
          /\ queue \in [Keys -> Seq(Tasks)]
          /\ pc \in [Tasks -> {"idle", "waiting", "loading", "loaded"}]
          /\ key \in [Tasks -> Keys \union {None}]
          /\ got \in [Tasks -> Answers \union {None}]
          /\ served \in [Keys -> 0..MaxVersion]
          /\ lag \in [Keys -> Int]

Init == /\ now = 0
        /\ db = 0
        /\ since = [v \in 0..MaxVersion |-> 0]
        /\ entries = [k \in Keys |-> None]
        /\ holder = [k \in Keys |-> None]
        /\ queue = [k \in Keys |-> << >>]
        /\ pc = [t \in Tasks |-> "idle"]
        /\ key = [t \in Tasks |-> None]
        /\ got = [t \in Tasks |-> None]
        /\ served = [k \in Keys |-> 0]
        /\ lag = [k \in Keys |-> 0]

-----------------------------------------------------------------------------
\* Fault: the entry is looked up without its age.
FreshForever(k) == entries[k] # None

\* _fresh: there is an entry, and it is not older than the TTL.
Fresh(k) == /\ entries[k] # None
            /\ now - entries[k].at <= TTL

\* Fault: the lock is not waited for.
LockNotTested(k) == TRUE

\* The lock of k can be taken without waiting: asyncio.Lock is not locked and
\* nobody queues for it (a task woken but not yet resumed still queues).
LockFree(k) == holder[k] = None /\ queue[k] = << >>

\* Task t is the one the release of k's lock has woken.
Woken(t) == /\ pc[t] = "waiting"
            /\ holder[key[t]] = None
            /\ queue[key[t]] # << >>
            /\ Head(queue[key[t]]) = t

\* An answer with version v to k goes out.
Serve(k, v) == /\ served' = [served EXCEPT ![k] = v]
               /\ lag' = [lag EXCEPT ![k] = IF v < db THEN now - since[v + 1] ELSE 0]

Leave(t) == /\ pc' = [pc EXCEPT ![t] = "idle"]
            /\ key' = [key EXCEPT ![t] = None]
            /\ got' = [got EXCEPT ![t] = None]

-----------------------------------------------------------------------------
\* Fault: a hit prolongs the life of the entry.
HitProlongs(t, k) == /\ pc[t] = "idle"
                     /\ Fresh(k)
                     /\ entries' = [entries EXCEPT ![k].at = now]
                     /\ Serve(k, entries[k].ver)
                     /\ UNCHANGED <<now, db, since, holder, queue, taskVars>>

\* get_or_load answered from memory: no suspension, no lock.
Hit(t, k) == /\ pc[t] = "idle"
             /\ Fresh(k)
             /\ Serve(k, entries[k].ver)
             /\ UNCHANGED <<now, db, since, cacheVars, taskVars>>

\* A miss with the lock free: the second check sees what the first one saw, so
\* the loader starts in the same step.
MissAndLoad(t, k) == /\ pc[t] = "idle"
                     /\ ~Fresh(k)
                     /\ LockFree(k)
                     /\ holder' = [holder EXCEPT ![k] = t]
                     /\ pc' = [pc EXCEPT ![t] = "loading"]
                     /\ key' = [key EXCEPT ![t] = k]
                     /\ UNCHANGED <<now, db, since, entries, queue, got, served, lag>>

\* A miss behind another caller: wait for the lock.
MissAndWait(t, k) == /\ pc[t] = "idle"
                     /\ ~Fresh(k)
                     /\ ~LockFree(k)
                     /\ queue' = [queue EXCEPT ![k] = Append(@, t)]
                     /\ pc' = [pc EXCEPT ![t] = "waiting"]
                     /\ key' = [key EXCEPT ![t] = k]
                     /\ UNCHANGED <<now, db, since, entries, holder, got, served, lag>>

\* The woken waiter finds a fresh entry: another waiter's load answers it.  It
\* takes and releases the lock without suspending.
WakeToHit(t) == /\ Woken(t)
                /\ Fresh(key[t])
                /\ queue' = [queue EXCEPT ![key[t]] = Tail(@)]
                /\ Serve(key[t], entries[key[t]].ver)
                /\ Leave(t)
                /\ UNCHANGED <<now, db, since, entries, holder>>

\* Fault: no second check under the lock.
WakeWithoutRecheck(t) == /\ Woken(t)
                         /\ queue' = [queue EXCEPT ![key[t]] = Tail(@)]
                         /\ holder' = [holder EXCEPT ![key[t]] = t]
                         /\ pc' = [pc EXCEPT ![t] = "loading"]
                         /\ UNCHANGED <<now, db, since, entries, key, got, served, lag>>

\* The woken waiter still finds nothing fresh: it loads in its turn.
WakeToLoad(t) == /\ Woken(t)
                 /\ ~Fresh(key[t])
                 /\ queue' = [queue EXCEPT ![key[t]] = Tail(@)]
                 /\ holder' = [holder EXCEPT ![key[t]] = t]
                 /\ pc' = [pc EXCEPT ![t] = "loading"]
                 /\ UNCHANGED <<now, db, since, entries, key, got, served, lag>>

\* The loader's query takes its snapshot of the catalog.
Read(t) == /\ pc[t] = "loading"
           /\ got' = [got EXCEPT ![t] = [ver |-> db, at |-> now]]
           /\ pc' = [pc EXCEPT ![t] = "loaded"]
           /\ UNCHANGED <<now, db, since, cacheVars, key, served, lag>>

\* Fault: the value is stored without its time stamp.
StoreUnstamped(t) == /\ pc[t] = "loaded"
                     /\ entries' = [entries EXCEPT ![key[t]] = [ver |-> got[t].ver]]
                     /\ Serve(key[t], got[t].ver)
                     /\ holder' = [holder EXCEPT ![key[t]] = None]
                     /\ Leave(t)
                     /\ UNCHANGED <<now, db, since, queue>>

\* The loader returns: the entry is stored under the time of the store, not of
\* the snapshot; the caller is answered and the lock released.
Store(t) == /\ pc[t] = "loaded"
            /\ entries' = [entries EXCEPT ![key[t]] = [ver |-> got[t].ver, at |-> now]]
            /\ Serve(key[t], got[t].ver)
            /\ holder' = [holder EXCEPT ![key[t]] = None]
            /\ Leave(t)
            /\ UNCHANGED <<now, db, since, queue>>

\* Fault: acquire and release without try/finally.
FailKeepsLock(t) == /\ pc[t] \in {"loading", "loaded"}
                    /\ Leave(t)
                    /\ UNCHANGED <<now, db, since, cacheVars, served, lag>>

\* The loader raises, or its task is cancelled inside it: async with releases
\* the lock, and neither an entry nor an answer comes out.
Fail(t) == /\ pc[t] \in {"loading", "loaded"}
           /\ holder' = [holder EXCEPT ![key[t]] = None]
           /\ Leave(t)
           /\ UNCHANGED <<now, db, since, entries, queue, served, lag>>

\* A waiter is cancelled (shutdown cancels the warm-up): asyncio.Lock takes it
\* out of the queue and, if the lock is free, wakes the next one.
Abandon(t) == /\ t \in Cancellable
              /\ pc[t] = "waiting"
              /\ \E i \in DOMAIN queue[key[t]] :
                    /\ queue[key[t]][i] = t
                    /\ queue' = [queue EXCEPT ![key[t]] = RemoveAt(@, i)]
              /\ Leave(t)
              /\ UNCHANGED <<now, db, since, entries, holder, served, lag>>

\* clear(): drops every entry; locks, waiters and running loads are untouched.
Clear == /\ entries' = [k \in Keys |-> None]
         /\ UNCHANGED <<now, db, since, holder, queue, taskVars, served, lag>>

-----------------------------------------------------------------------------
\* A data job publishes the next version of the catalog.
Publish == /\ db < MaxVersion
           /\ db' = db + 1
           /\ since' = [since EXCEPT ![db + 1] = now]
           /\ UNCHANGED <<now, cacheVars, taskVars, served, lag>>

\* Time passes.  The guard is the assumption that a result is stored at most
\* MaxDelay after its snapshot.
Tick == /\ now < MaxTime
        /\ \A t \in Tasks : pc[t] = "loaded" => now - got[t].at < MaxDelay
        /\ now' = now + 1
        /\ UNCHANGED <<db, since, cacheVars, taskVars, served, lag>>

Call(t) == \E k \in Keys : Hit(t, k) \/ MissAndLoad(t, k) \/ MissAndWait(t, k)
Resume(t) == WakeToHit(t) \/ WakeToLoad(t)
Finish(t) == Store(t) \/ Fail(t)

Next == \/ \E t \in Tasks : Call(t) \/ Resume(t) \/ Read(t) \/ Finish(t) \/ Abandon(t)
        \/ Clear \/ Publish \/ Tick

Spec == Init /\ [][Next]_vars

\* A woken task is eventually run by the event loop, and a query against Cosmos
\* eventually answers or raises.  Nothing obliges anyone to call.
Fairness == \A t \in Tasks : /\ WF_vars(Resume(t))
                             /\ WF_vars(Read(t) \/ Fail(t))
                             /\ WF_vars(Finish(t))

FairSpec == Spec /\ Fairness

-----------------------------------------------------------------------------
\* Two callers never load the same key at the same time (cache.py:21-26, "a
\* single loader per key").
OneLoadPerKey == \A t, u \in Tasks :
    /\ pc[t] \in {"loading", "loaded"}
    /\ pc[u] \in {"loading", "loaded"}
    /\ key[t] = key[u]
    => t = u

\* What the waiting costs: a load never starts while the key has an answer that
\* is still fresh, so a caller that queued behind a successful load does not
\* hit the database again within the TTL.
NoRedundantLoad ==
    [][\A t \in Tasks : pc[t] # "loading" /\ pc'[t] = "loading"
                           => ~Fresh(key'[t])]_vars

\* Why those hold, as an invariant that every step preserves.  A task inside a
\* loader holds the lock of its key; a result under way is no older than the last
\* answer to its key, was current when it was read and was read at most MaxDelay
\* ago; an entry is the last answer to its key, and was stored at most MaxDelay
\* after it stopped being current.
LockInv == /\ \A t \in Tasks : pc[t] # "idle" => key[t] \in Keys
           /\ \A t \in Tasks : pc[t] \in {"loading", "loaded"} => holder[key[t]] = t

ResultInv == \A t \in Tasks : pc[t] = "loaded" =>
    /\ got[t] # None
    /\ served[key[t]] <= got[t].ver /\ got[t].ver <= db
    /\ got[t].at <= now /\ now - got[t].at <= MaxDelay
    /\ got[t].ver < db => got[t].at <= since[got[t].ver + 1]

EntryInv == \A k \in Keys : entries[k] # None =>
    /\ entries[k].ver = served[k]
    /\ entries[k].at <= now
    /\ entries[k].ver < db => entries[k].at - since[entries[k].ver + 1] <= MaxDelay

AnswerInv == /\ \A k \in Keys : served[k] <= db
             /\ ResultInv
             /\ EntryInv

CacheInv == TypeOK /\ LockInv /\ AnswerInv

\* The cache keeps what CatalogReads promises: answers to a key never go back
\* in time, and are behind the catalog by at most TTL + MaxDelay.
Catalog == INSTANCE CatalogReads WITH Staleness <- TTL + MaxDelay
ServesRecentCatalog == Catalog!Spec

\* Every call returns: no caller waits forever behind a lock, whatever loads
\* fail and whichever waiters are cancelled.
EveryCallReturns == \A t \in Tasks : pc[t] # "idle" ~> pc[t] = "idle"
=============================================================================
