--------------------------- MODULE TtlCacheProofs ---------------------------
(***************************************************************************)
(* Proofs about TtlCache, for every number of keys and tasks and every TTL *)
(* and delay.  CacheInv is inductive; mutual exclusion of the loaders      *)
(* follows from its lock part, and the staleness bound from its answer     *)
(* part, which also maps every step onto one of CatalogReads.              *)
(***************************************************************************)
EXTENDS TtlCache, TLAPS

\* A version that was current when a result was read, at most MaxDelay ago,
\* stopped being current at most MaxDelay ago.
LEMMA StaleSinceSnapshot ==
    ASSUME NEW s \in [0..MaxVersion -> 0..MaxTime],
           NEW v \in 0..MaxVersion, NEW d \in 0..MaxVersion,
           NEW a \in 0..MaxTime, NEW n \in 0..MaxTime,
           n - a <= MaxDelay, v < d => a <= s[v + 1]
    PROVE  v < d => n - s[v + 1] <= MaxDelay
<1> SUFFICES ASSUME v < d
             PROVE  n - s[v + 1] <= MaxDelay
  OBVIOUS
<1>1. v + 1 \in 0..MaxVersion
  BY CacheAssumption
<1>2. s[v + 1] \in 0..MaxTime
  BY <1>1
<1> QED
  BY <1>2, CacheAssumption

\* An answer goes out with a lag that is a number.
LEMMA LagTyped ==
    ASSUME TypeOK, NEW k \in Keys, NEW v \in 0..MaxVersion, Serve(k, v)
    PROVE  lag' \in [Keys -> Int]
<1>1. v < db => v + 1 \in 0..MaxVersion /\ since[v + 1] \in Int
  BY CacheAssumption DEF TypeOK
<1>2. (IF v < db THEN now - since[v + 1] ELSE 0) \in Int
  BY <1>1 DEF TypeOK
<1> QED
  BY <1>2 DEF TypeOK, Serve

\* The two ways into a call keep the cache's invariant: an answer from memory
\* and a miss (core/cache.py:42-46).
LEMMA CallKeepsInv ==
    ASSUME CacheInv, NEW t \in Tasks, NEW k \in Keys,
           Hit(t, k) \/ MissAndLoad(t, k) \/ MissAndWait(t, k)
    PROVE  CacheInv'
<1> USE CacheAssumption
<1>1. CASE Hit(t, k)
  <2>1. served' = served
    BY <1>1 DEF CacheInv, TypeOK, AnswerInv, EntryInv, Fresh, Hit, Serve
  <2>2. entries[k].ver \in 0..MaxVersion
    BY <1>1 DEF CacheInv, TypeOK, Answers, Fresh, Hit
  <2>3. lag' \in [Keys -> Int]
    BY <1>1, <2>2, LagTyped DEF CacheInv, Hit
  <2> QED
    BY <1>1, <2>1, <2>3 DEF CacheInv, TypeOK, LockInv, AnswerInv, ResultInv, EntryInv, Hit,
                      cacheVars, taskVars
<1>2. CASE MissAndLoad(t, k)
  <2>1. TypeOK'
    BY <1>2 DEF CacheInv, TypeOK, MissAndLoad
  <2>2. LockInv'
    BY <1>2 DEF CacheInv, TypeOK, LockInv, MissAndLoad, LockFree
  <2>3. AnswerInv'
    BY <1>2 DEF CacheInv, TypeOK, AnswerInv, ResultInv, EntryInv, MissAndLoad
  <2> QED
    BY <2>1, <2>2, <2>3 DEF CacheInv
<1>3. CASE MissAndWait(t, k)
  <2>1. TypeOK'
    <3>1. queue' \in [Keys -> Seq(Tasks)]
      BY <1>3 DEF CacheInv, TypeOK, MissAndWait
    <3>2. /\ pc' \in [Tasks -> {"idle", "waiting", "loading", "loaded"}]
          /\ key' \in [Tasks -> Keys \union {None}]
      BY <1>3 DEF CacheInv, TypeOK, MissAndWait
    <3> QED
      BY <1>3, <3>1, <3>2 DEF CacheInv, TypeOK, MissAndWait
  <2>2. LockInv'
    BY <1>3 DEF CacheInv, TypeOK, LockInv, MissAndWait
  <2>3. AnswerInv'
    BY <1>3 DEF CacheInv, TypeOK, AnswerInv, ResultInv, EntryInv, MissAndWait
  <2> QED
    BY <2>1, <2>2, <2>3 DEF CacheInv
<1> QED
  BY <1>1, <1>2, <1>3

\* So do the two ways a woken waiter goes on (core/cache.py:47-52).
LEMMA ResumeKeepsInv ==
    ASSUME CacheInv, NEW t \in Tasks, Resume(t)
    PROVE  CacheInv'
<1> USE CacheAssumption
<1> DEFINE k == key[t]
<1>1. k \in Keys /\ queue[k] # << >> /\ queue[k] \in Seq(Tasks)
  BY DEF Resume, WakeToHit, WakeToLoad, Woken, CacheInv, TypeOK, LockInv
<1>2. Tail(queue[k]) \in Seq(Tasks)
  BY <1>1
<1> HIDE DEF k
<1>3. CASE WakeToHit(t)
  <2>1. served' = served
    BY <1>1, <1>3 DEF CacheInv, TypeOK, AnswerInv, EntryInv, Fresh, WakeToHit, Serve, k
  <2>2. entries[k].ver \in 0..MaxVersion
    BY <1>1, <1>3 DEF CacheInv, TypeOK, Answers, Fresh, WakeToHit, k
  <2>3. lag' \in [Keys -> Int]
    BY <1>1, <1>3, <2>2, LagTyped DEF CacheInv, WakeToHit, k
  <2>4. TypeOK'
    BY <1>1, <1>2, <1>3, <2>1, <2>3 DEF CacheInv, TypeOK, WakeToHit, Leave, k
  <2>5. LockInv'
    BY <1>3 DEF CacheInv, TypeOK, LockInv, WakeToHit, Leave
  <2>6. AnswerInv'
    BY <1>3, <2>1 DEF CacheInv, TypeOK, AnswerInv, ResultInv, EntryInv, WakeToHit, Leave
  <2> QED
    BY <2>4, <2>5, <2>6 DEF CacheInv
<1>4. CASE WakeToLoad(t)
  <2>1. TypeOK'
    BY <1>1, <1>2, <1>4 DEF CacheInv, TypeOK, WakeToLoad, k
  <2>2. LockInv'
    BY <1>1, <1>4 DEF CacheInv, TypeOK, LockInv, WakeToLoad, Woken, k
  <2>3. AnswerInv'
    BY <1>4 DEF CacheInv, TypeOK, AnswerInv, ResultInv, EntryInv, WakeToLoad
  <2> QED
    BY <2>1, <2>2, <2>3 DEF CacheInv
<1> QED
  BY <1>3, <1>4 DEF Resume

\* A query's snapshot and its result (core/cache.py:52-54): the store is where a
\* stamp later than the snapshot enters, and MaxDelay bounds the difference.
LEMMA LoadKeepsInv ==
    ASSUME CacheInv, NEW t \in Tasks, Read(t) \/ Store(t)
    PROVE  CacheInv'
<1> USE CacheAssumption
<1>1. CASE Read(t)
  <2>1. TypeOK'
    BY <1>1 DEF CacheInv, TypeOK, Answers, Read, cacheVars
  <2>2. LockInv'
    BY <1>1 DEF CacheInv, TypeOK, LockInv, Read, cacheVars
  <2>3. ResultInv'
    <3> SUFFICES ASSUME NEW u \in Tasks, pc'[u] = "loaded"
                 PROVE  ResultInv!(u)!2'
      BY DEF ResultInv
    <3>1. CASE u = t
      BY <1>1, <3>1 DEF CacheInv, TypeOK, LockInv, AnswerInv, Answers, Read
    <3>2. CASE u # t
      BY <1>1, <3>2 DEF CacheInv, TypeOK, AnswerInv, ResultInv, Read
    <3> QED
      BY <3>1, <3>2
  <2>4. AnswerInv'
    BY <1>1, <2>3 DEF CacheInv, TypeOK, AnswerInv, EntryInv, Read, cacheVars
  <2> QED
    BY <2>1, <2>2, <2>4 DEF CacheInv
<1>2. CASE Store(t)
  <2>1. /\ key[t] \in Keys /\ holder[key[t]] = t
        /\ got[t] \in Answers
    BY <1>2 DEF CacheInv, TypeOK, LockInv, AnswerInv, ResultInv, Store
  <2>2. lag' \in [Keys -> Int]
    <3>1. got[t].ver \in 0..MaxVersion
      BY <2>1 DEF Answers
    <3> QED
      BY <1>2, <2>1, <3>1, LagTyped DEF CacheInv, Store
  <2>3. TypeOK'
    BY <1>2, <2>1, <2>2 DEF CacheInv, TypeOK, Answers, Store, Serve, Leave
  <2>4. \A u \in Tasks : u # t /\ pc[u] \in {"loading", "loaded"} => key[u] # key[t]
    BY <2>1 DEF CacheInv, LockInv
  <2>5. LockInv'
    BY <1>2, <2>1, <2>4 DEF CacheInv, TypeOK, LockInv, Store, Leave
  <2>6. ResultInv'
    BY <1>2, <2>1, <2>4 DEF CacheInv, TypeOK, LockInv, AnswerInv, ResultInv, Store, Serve, Leave
  <2>7. EntryInv'
    <3> SUFFICES ASSUME NEW j \in Keys, entries'[j] # None
                 PROVE  EntryInv!(j)!2'
      BY DEF EntryInv
    <3>1. CASE j = key[t]
      <4>1. entries'[j] = [ver |-> got[t].ver, at |-> now] /\ served'[j] = got[t].ver
        BY <1>2, <2>1, <3>1 DEF CacheInv, TypeOK, Store, Serve
      <4> DEFINE v == got[t].ver
      <4>2. /\ now - got[t].at <= MaxDelay
            /\ v < db => got[t].at <= since[v + 1]
        BY <1>2 DEF CacheInv, AnswerInv, ResultInv, Store
      <4>3. /\ v \in 0..MaxVersion /\ got[t].at \in 0..MaxTime /\ now \in 0..MaxTime
            /\ db \in 0..MaxVersion /\ since \in [0..MaxVersion -> 0..MaxTime]
        BY <2>1 DEF CacheInv, TypeOK, Answers
      <4> HIDE DEF v
      <4>4. v < db => now - since[v + 1] <= MaxDelay
        BY <4>2, <4>3, StaleSinceSnapshot
      <4>5. now' = now /\ db' = db /\ since' = since
        BY <1>2 DEF Store
      <4>6. entries'[j].ver = v /\ entries'[j].at = now /\ served'[j] = v
        BY <4>1 DEF v
      <4> QED
        BY <4>3, <4>4, <4>5, <4>6
    <3>2. CASE j # key[t]
      BY <1>2, <3>2 DEF CacheInv, TypeOK, AnswerInv, EntryInv, Store, Serve
    <3> QED
      BY <3>1, <3>2
  <2>8. AnswerInv'
    BY <1>2, <2>1, <2>6, <2>7 DEF CacheInv, TypeOK, AnswerInv, ResultInv, Store, Serve
  <2> QED
    BY <2>3, <2>5, <2>8 DEF CacheInv
<1> QED
  BY <1>1, <1>2

\* Failing, being cancelled and clear() only ever remove: a holder, a waiter or
\* the entries.
LEMMA RemovalKeepsInv ==
    ASSUME CacheInv, Clear \/ \E t \in Tasks : Fail(t) \/ Abandon(t)
    PROVE  CacheInv'
<1> USE CacheAssumption
<1>1. CASE Clear
  BY <1>1 DEF CacheInv, TypeOK, LockInv, AnswerInv, ResultInv, EntryInv, Clear, taskVars
<1>2. ASSUME NEW t \in Tasks, Fail(t)
      PROVE  CacheInv'
  <2>1. key[t] \in Keys /\ holder[key[t]] = t
    BY <1>2 DEF CacheInv, LockInv, Fail
  <2>2. TypeOK'
    BY <1>2, <2>1 DEF CacheInv, TypeOK, Fail, Leave
  <2>3. LockInv'
    BY <1>2, <2>1 DEF CacheInv, TypeOK, LockInv, Fail, Leave
  <2>4. AnswerInv'
    BY <1>2 DEF CacheInv, TypeOK, AnswerInv, ResultInv, EntryInv, Fail, Leave
  <2> QED
    BY <2>2, <2>3, <2>4 DEF CacheInv
<1>3. ASSUME NEW t \in Tasks, Abandon(t)
      PROVE  CacheInv'
  <2>1. PICK i \in DOMAIN queue[key[t]] :
            queue' = [queue EXCEPT ![key[t]] = RemoveAt(@, i)]
    BY <1>3 DEF Abandon
  <2>2. key[t] \in Keys /\ queue[key[t]] \in Seq(Tasks)
    BY <1>3 DEF CacheInv, TypeOK, LockInv, Abandon
  <2>3. RemoveAt(queue[key[t]], i) \in Seq(Tasks)
    <3> DEFINE q == queue[key[t]]
    <3>1. q \in Seq(Tasks) /\ i \in 1..Len(q)
      BY <2>1, <2>2
    <3> HIDE DEF q
    <3>2. SubSeq(q, 1, i - 1) \in Seq(Tasks) /\ SubSeq(q, i + 1, Len(q)) \in Seq(Tasks)
      BY <3>1
    <3>3. SubSeq(q, 1, i - 1) \o SubSeq(q, i + 1, Len(q)) \in Seq(Tasks)
      BY <3>2
    <3> QED
      BY <3>3 DEF RemoveAt, q
  <2>4. TypeOK'
    BY <1>3, <2>1, <2>2, <2>3 DEF CacheInv, TypeOK, Abandon, Leave
  <2>5. LockInv'
    BY <1>3 DEF CacheInv, TypeOK, LockInv, Abandon, Leave
  <2>6. AnswerInv'
    BY <1>3 DEF CacheInv, TypeOK, AnswerInv, ResultInv, EntryInv, Abandon, Leave
  <2> QED
    BY <2>4, <2>5, <2>6 DEF CacheInv
<1> QED
  BY <1>1, <1>2, <1>3

\* The world moves under the cache: a seed job publishes, and time passes.
LEMMA WorldKeepsInv ==
    ASSUME CacheInv, Publish \/ Tick
    PROVE  CacheInv'
<1> USE CacheAssumption
<1>1. CASE Publish
  <2>1. TypeOK'
    BY <1>1 DEF CacheInv, TypeOK, Publish, cacheVars, taskVars
  <2>2. LockInv'
    BY <1>1 DEF CacheInv, LockInv, Publish, cacheVars, taskVars
  <2>3. \A v \in 0..db : v < db' => /\ v + 1 \in 0..MaxVersion
                                    /\ since'[v + 1] = IF v < db THEN since[v + 1] ELSE now
    BY <1>1 DEF CacheInv, TypeOK, Publish
  <2>4. ResultInv'
    <3> SUFFICES ASSUME NEW u \in Tasks, pc'[u] = "loaded"
                 PROVE  ResultInv!(u)!2'
      BY DEF ResultInv
    <3> DEFINE g == got[u]
    <3>1. /\ got'[u] = g /\ g \in Answers /\ g # None /\ key'[u] = key[u]
          /\ served' = served /\ now' = now /\ db' = db + 1
          /\ served[key[u]] <= g.ver /\ g.ver <= db
          /\ g.at <= now /\ now - g.at <= MaxDelay
          /\ g.ver < db => g.at <= since[g.ver + 1]
      BY <1>1 DEF CacheInv, TypeOK, AnswerInv, ResultInv, Publish, taskVars
    <3>2. g.ver \in 0..db /\ db \in Nat
      BY <3>1 DEF CacheInv, TypeOK, Answers
    <3>3. served[key[u]] \in Nat
      BY <1>1 DEF CacheInv, TypeOK, LockInv, Publish, taskVars
    <3>4. g.ver < db' => g.at <= since'[g.ver + 1]
      BY <2>3, <3>1, <3>2
    <3>5. served'[key'[u]] <= g.ver /\ g.ver <= db'
      BY <3>1, <3>2, <3>3
    <3> QED
      BY <3>1, <3>4, <3>5
  <2>5. EntryInv'
    <3> SUFFICES ASSUME NEW j \in Keys, entries'[j] # None
                 PROVE  EntryInv!(j)!2'
      BY DEF EntryInv
    <3>1. /\ entries' = entries /\ served' = served /\ now' = now /\ db' = db + 1
          /\ entries[j] \in Answers
      BY <1>1 DEF CacheInv, TypeOK, Publish, cacheVars
    <3>2. /\ entries[j].ver = served[j] /\ entries[j].at <= now
          /\ entries[j].ver < db => entries[j].at - since[entries[j].ver + 1] <= MaxDelay
          /\ entries[j].ver \in 0..db
      BY <3>1 DEF CacheInv, TypeOK, AnswerInv, EntryInv, Answers
    <3>3. entries[j].ver < db' => entries[j].at - since'[entries[j].ver + 1] <= MaxDelay
      <4> DEFINE v == entries[j].ver
      <4>1. v \in 0..db /\ entries[j].at \in Int /\ now \in Int /\ db \in Int
            /\ MaxDelay \in Nat
        BY <3>1, <3>2 DEF CacheInv, TypeOK, Answers
      <4>2. v < db' => since'[v + 1] = IF v < db THEN since[v + 1] ELSE now
        BY <2>3, <4>1
      <4>3. /\ v < db => entries[j].at - since[v + 1] <= MaxDelay
            /\ entries[j].at - now <= MaxDelay
        BY <3>2, <4>1
      <4> QED
        BY <4>2, <4>3
    <3> QED
      BY <3>1, <3>2, <3>3
  <2> QED
    BY <1>1, <2>1, <2>2, <2>4, <2>5 DEF CacheInv, TypeOK, AnswerInv, Publish
<1>2. CASE Tick
  <2>1. TypeOK'
    BY <1>2 DEF CacheInv, TypeOK, Tick, cacheVars, taskVars
  <2>2. LockInv'
    BY <1>2 DEF CacheInv, LockInv, Tick, cacheVars, taskVars
  <2>3. ResultInv'
    BY <1>2 DEF CacheInv, TypeOK, AnswerInv, ResultInv, Answers, Tick, cacheVars, taskVars
  <2>4. EntryInv'
    BY <1>2 DEF CacheInv, TypeOK, AnswerInv, EntryInv, Answers, Tick, cacheVars, taskVars
  <2> QED
    BY <1>2, <2>1, <2>2, <2>3, <2>4 DEF CacheInv, AnswerInv, Tick
<1> QED
  BY <1>1, <1>2

-----------------------------------------------------------------------------
\* The invariant of the cache: TypeOK, who holds which lock, and how recent the
\* entries and the results under way are.
THEOREM CacheInvariant == Spec => []CacheInv
<1>1. Init => CacheInv
  BY CacheAssumption
     DEF Init, CacheInv, TypeOK, LockInv, AnswerInv, ResultInv, EntryInv
<1>2. CacheInv /\ [Next]_vars => CacheInv'
  <2> SUFFICES ASSUME CacheInv, [Next]_vars
               PROVE  CacheInv'
    OBVIOUS
  <2>1. CASE UNCHANGED vars
    BY <2>1 DEF CacheInv, TypeOK, LockInv, AnswerInv, ResultInv, EntryInv, vars
  <2>2. ASSUME NEW t \in Tasks, Call(t)
        PROVE  CacheInv'
    BY <2>2, CallKeepsInv DEF Call
  <2>3. ASSUME NEW t \in Tasks, Resume(t)
        PROVE  CacheInv'
    BY <2>3, ResumeKeepsInv
  <2>4. ASSUME NEW t \in Tasks, Read(t) \/ Store(t)
        PROVE  CacheInv'
    BY <2>4, LoadKeepsInv
  <2>5. CASE Clear \/ \E t \in Tasks : Fail(t) \/ Abandon(t)
    BY <2>5, RemovalKeepsInv
  <2>6. CASE Publish \/ Tick
    BY <2>6, WorldKeepsInv
  <2> QED
    BY <2>1, <2>2, <2>3, <2>4, <2>5, <2>6 DEF Next, Finish
<1> QED
  BY <1>1, <1>2, PTL DEF Spec

\* Entries, locks, waiters and answers are what the cache takes them for
\* (core/cache.py:28-40).
THEOREM TypeCorrect == Spec => []TypeOK
<1>1. CacheInv => TypeOK
  BY DEF CacheInv
<1> QED
  BY <1>1, CacheInvariant, PTL

\* A single loader per key (core/cache.py:21-26): two tasks inside loaders of the
\* same key would both hold its lock.
THEOREM SingleLoader == Spec => []OneLoadPerKey
<1>1. CacheInv => OneLoadPerKey
  BY DEF CacheInv, LockInv, OneLoadPerKey
<1> QED
  BY <1>1, CacheInvariant, PTL

\* No load starts while the key has a fresh answer (core/cache.py:48-51).
THEOREM LoadsOnlyWhenStale == Spec => NoRedundantLoad
<1>1. CacheInv /\ [Next]_vars =>
          \A t \in Tasks : pc[t] # "loading" /\ pc'[t] = "loading" => ~Fresh(key'[t])
  <2> SUFFICES ASSUME CacheInv, Next, NEW t \in Tasks,
                      pc[t] # "loading", pc'[t] = "loading"
               PROVE  ~Fresh(key'[t])
    BY DEF vars
  <2> USE DEF CacheInv, TypeOK
  <2>1. ASSUME NEW u \in Tasks, NEW k \in Keys, MissAndLoad(u, k)
        PROVE  ~Fresh(key'[t])
    BY <2>1 DEF MissAndLoad
  <2>2. ASSUME NEW u \in Tasks, WakeToLoad(u)
        PROVE  ~Fresh(key'[t])
    BY <2>2 DEF WakeToLoad
  <2>3. ASSUME NEW u \in Tasks, NEW k \in Keys, Hit(u, k) \/ MissAndWait(u, k)
        PROVE  FALSE
    BY <2>3 DEF Hit, MissAndWait, taskVars
  <2>4. ASSUME NEW u \in Tasks, WakeToHit(u) \/ Read(u) \/ Finish(u) \/ Abandon(u)
        PROVE  FALSE
    BY <2>4 DEF WakeToHit, Read, Finish, Store, Fail, Abandon, Leave
  <2>5. CASE Clear \/ Publish \/ Tick
    BY <2>5 DEF Clear, Publish, Tick, taskVars
  <2> QED
    BY <2>1, <2>2, <2>3, <2>4, <2>5 DEF Next, Call, Resume
<1> QED
  BY <1>1, CacheInvariant, PTL DEF Spec, NoRedundantLoad

\* An answer to k with a version that is not too far behind is an Answer step
\* of CatalogReads.
LEMMA AnswerStep ==
    ASSUME CacheInv, NEW k \in Keys, NEW v \in 0..MaxVersion,
           served[k] <= v, v <= db, Catalog!Behind(v) <= TTL + MaxDelay,
           Serve(k, v), UNCHANGED <<now, db, since>>
    PROVE  Catalog!Next
<1>1. v \in served[k]..db
  BY DEF CacheInv, TypeOK
<1>2. Catalog!Answer(k)
  BY <1>1 DEF Catalog!Answer, Catalog!Behind, Serve
<1> QED
  BY <1>2 DEF Catalog!Next

\* An entry that is still fresh is recent enough to be an answer.
LEMMA FreshIsRecent ==
    ASSUME CacheInv, NEW k \in Keys, Fresh(k)
    PROVE  /\ entries[k].ver \in 0..MaxVersion
           /\ entries[k].ver = served[k] /\ entries[k].ver <= db
           /\ Catalog!Behind(entries[k].ver) <= TTL + MaxDelay
<1> DEFINE v == entries[k].ver
           a == entries[k].at
<1>1. /\ entries[k] \in Answers
      /\ v = served[k] /\ served[k] <= db
      /\ now - a <= TTL
      /\ v < db => a - since[v + 1] <= MaxDelay
  BY DEF CacheInv, TypeOK, AnswerInv, EntryInv, Fresh
<1>2. /\ v \in 0..MaxVersion /\ a \in 0..MaxTime /\ now \in 0..MaxTime
      /\ db \in 0..MaxVersion /\ since \in [0..MaxVersion -> 0..MaxTime]
  BY <1>1 DEF CacheInv, TypeOK, Answers
<1> HIDE DEF v, a
<1>3. ASSUME v < db
      PROVE  now - since[v + 1] <= TTL + MaxDelay
  <2>1. since[v + 1] \in 0..MaxTime
    BY <1>2, <1>3, CacheAssumption
  <2> DEFINE c == since[v + 1]
  <2>2. now - a <= TTL /\ a - c <= MaxDelay
    BY <1>1, <1>3
  <2>3. c \in Int /\ a \in Int /\ now \in Int /\ TTL \in Int /\ MaxDelay \in Int
    BY <1>2, <2>1, CacheAssumption
  <2> HIDE DEF c
  <2>4. now - c <= TTL + MaxDelay
    BY <2>2, <2>3
  <2> QED
    BY <2>4 DEF c
<1> QED
  <2>1. Catalog!Behind(v) <= TTL + MaxDelay
    BY <1>2, <1>3, CacheAssumption DEF Catalog!Behind
  <2> QED
    BY <1>1, <1>2, <2>1 DEF v

\* Answers through the cache are bounded-stale reads of the catalog that never go
\* back in time (core/cache.py:3-6): the cache implements CatalogReads.
THEOREM CacheServesRecentCatalog == Spec => ServesRecentCatalog
<1>1. Init => Catalog!Init
  BY DEF Init, Catalog!Init
<1>2. CacheInv /\ [Next]_vars => [Catalog!Next]_(Catalog!vars)
  <2> SUFFICES ASSUME CacheInv, [Next]_vars
               PROVE  Catalog!Next \/ UNCHANGED Catalog!vars
    OBVIOUS
  <2>1. CASE UNCHANGED vars
    BY <2>1 DEF vars, Catalog!vars
  <2>2. ASSUME NEW t \in Tasks, NEW k \in Keys, Hit(t, k)
        PROVE  Catalog!Next
    <3>1. Fresh(k) /\ Serve(k, entries[k].ver)
          /\ UNCHANGED <<now, db, since>>
      BY <2>2 DEF Hit
    <3>2. served[k] <= entries[k].ver
      BY <3>1, FreshIsRecent DEF CacheInv, TypeOK
    <3> QED
      BY <3>1, <3>2, FreshIsRecent, AnswerStep
  <2>3. ASSUME NEW t \in Tasks, WakeToHit(t)
        PROVE  Catalog!Next
    <3>1. /\ Fresh(key[t]) /\ Serve(key[t], entries[key[t]].ver)
          /\ UNCHANGED <<now, db, since>>
      BY <2>3 DEF WakeToHit
    <3>2. key[t] \in Keys
      BY <2>3 DEF WakeToHit, Woken, CacheInv, LockInv
    <3>3. served[key[t]] <= entries[key[t]].ver
      BY <3>1, <3>2, FreshIsRecent DEF CacheInv, TypeOK
    <3> QED
      BY <3>1, <3>2, <3>3, FreshIsRecent, AnswerStep
  <2>4. ASSUME NEW t \in Tasks, Store(t)
        PROVE  Catalog!Next
    <3> DEFINE v == got[t].ver
               k == key[t]
    <3>1. /\ Serve(k, v)
          /\ UNCHANGED <<now, db, since>>
          /\ pc[t] = "loaded"
      BY <2>4 DEF Store
    <3>2. /\ k \in Keys /\ got[t] \in Answers
          /\ served[k] <= v /\ v <= db
          /\ now - got[t].at <= MaxDelay
          /\ v < db => got[t].at <= since[v + 1]
      BY <3>1 DEF CacheInv, TypeOK, LockInv, AnswerInv, ResultInv
    <3>3. /\ v \in 0..MaxVersion /\ got[t].at \in 0..MaxTime /\ now \in 0..MaxTime
          /\ db \in 0..MaxVersion /\ since \in [0..MaxVersion -> 0..MaxTime]
      BY <3>2 DEF CacheInv, TypeOK, Answers
    <3> HIDE DEF v, k
    <3>4. v < db => now - since[v + 1] <= MaxDelay
      BY <3>2, <3>3, StaleSinceSnapshot
    <3>5. v < db => since[v + 1] \in 0..MaxTime
      BY <3>3, CacheAssumption
    <3>6. Catalog!Behind(v) <= TTL + MaxDelay
      BY <3>3, <3>4, <3>5, CacheAssumption DEF Catalog!Behind
    <3> QED
      BY <3>1, <3>2, <3>3, <3>6, AnswerStep
  <2>5. CASE Publish
    BY <2>5 DEF Publish, Catalog!Publish, Catalog!Next
  <2>6. CASE Tick
    BY <2>6 DEF Tick, Catalog!Tick, Catalog!Next
  <2>7. ASSUME NEW t \in Tasks, NEW k \in Keys, MissAndLoad(t, k) \/ MissAndWait(t, k)
        PROVE  UNCHANGED Catalog!vars
    BY <2>7 DEF MissAndLoad, MissAndWait, Catalog!vars
  <2>8. ASSUME NEW t \in Tasks, WakeToLoad(t) \/ Read(t) \/ Fail(t) \/ Abandon(t)
        PROVE  UNCHANGED Catalog!vars
    BY <2>8 DEF WakeToLoad, Read, Fail, Abandon, Catalog!vars
  <2>9. CASE Clear
    BY <2>9 DEF Clear, Catalog!vars
  <2> QED
    BY <2>1, <2>2, <2>3, <2>4, <2>5, <2>6, <2>7, <2>8, <2>9
       DEF Next, Call, Resume, Finish
<1> QED
  BY <1>1, <1>2, CacheInvariant, PTL DEF Spec, ServesRecentCatalog, Catalog!Spec
=============================================================================
