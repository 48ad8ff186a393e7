--------------------------- MODULE LifespanProofs ---------------------------
(***************************************************************************)
(* Proofs about Lifespan, for every warm-up, any number of requests and    *)
(* any TTL.  The process only ever uses the cache as TtlCache lets it, so  *)
(* what is proved of the cache holds here; on top of that LifeInv, which   *)
(* is inductive, says why a browse is warm and when the client may go.     *)
(***************************************************************************)
EXTENDS Lifespan, TtlCacheProofs

\* Whatever happens to the process is a step of the cache, and never clear()
\* (api/main.py, api/routers/couvert.py:62-83).
LEMMA CacheSteps ==
    ASSUME [LifeNext]_lifeVars
    PROVE  \/ UNCHANGED vars
           \/ Publish \/ Tick
           \/ \E t \in Tasks : Call(t) \/ Resume(t) \/ Read(t) \/ Finish(t) \/ Abandon(t)
<1> USE LifespanAssumption, CacheAssumption
<1>1. ASSUME NEW t \in Cancellable, Ask(t)
      PROVE  t \in Tasks /\ Call(t)
  BY <1>1 DEF Ask, Call
<1>2. ASSUME NEW t \in Cancellable, Advance(t) \/ Withdraw(t)
      PROVE  t \in Tasks /\ (Resume(t) \/ Read(t) \/ Finish(t) \/ Abandon(t))
  BY <1>2 DEF Advance, Withdraw, Resume, Finish
<1>3. ASSUME NEW t \in Requests, Request(t) \/ Respond(t)
      PROVE  t \in Tasks /\ (Call(t) \/ Resume(t) \/ Read(t) \/ Finish(t))
  BY <1>3 DEF Request, Respond, Requests
<1>4. Shutdown \/ Close \/ UNCHANGED lifeVars => UNCHANGED vars
  BY DEF Shutdown, Close, lifeVars
<1>5. Outside => Publish \/ Tick
  BY DEF Outside
<1> QED
  BY <1>1, <1>2, <1>3, <1>4, <1>5 DEF LifeNext

\* The process implements the specification of its cache.
THEOREM UsesTheCache == LifeSpec => Spec
<1>1. LifeInit => Init
  BY DEF LifeInit
<1>2. [LifeNext]_lifeVars => [Next]_vars
  <2> SUFFICES ASSUME [LifeNext]_lifeVars
               PROVE  Next \/ UNCHANGED vars
    OBVIOUS
  <2> QED
    BY CacheSteps DEF Next
<1> QED
  BY <1>1, <1>2, PTL DEF LifeSpec, Spec

\* So the guarantees of the cache hold in the process, whatever its warm-up, its
\* requests and its shutdown do (api/main.py:23-68, core/cache.py:20-54).
THEOREM ProcessKeepsCache ==
    LifeSpec => []OneLoadPerKey /\ NoRedundantLoad /\ ServesRecentCatalog
BY UsesTheCache, SingleLoader, LoadsOnlyWhenStale, CacheServesRecentCatalog, PTL

-----------------------------------------------------------------------------
\* No task but t moves.
Moves(t) == \A u \in Tasks \ {t} : pc'[u] = pc[u] /\ key'[u] = key[u]

\* The steps of a task inside the cache concern no other task.
LEMMA OneTaskMoves ==
    ASSUME CacheInv, NEW t \in Tasks,
           Call(t) \/ Resume(t) \/ Read(t) \/ Finish(t) \/ Abandon(t)
    PROVE  Moves(t)
<1>1. pc \in [Tasks -> {"idle", "waiting", "loading", "loaded"}]
      /\ key \in [Tasks -> Keys \union {None}]
  BY DEF CacheInv, TypeOK
<1>2. ASSUME Call(t) PROVE Moves(t)
  BY <1>1, <1>2 DEF Moves, Call, Hit, MissAndLoad, MissAndWait, taskVars
<1>3. ASSUME Resume(t) \/ Read(t) PROVE Moves(t)
  BY <1>1, <1>3 DEF Moves, Resume, WakeToHit, WakeToLoad, Read, Leave
<1>4. ASSUME Finish(t) \/ Abandon(t) PROVE Moves(t)
  BY <1>1, <1>4 DEF Moves, Finish, Store, Fail, Abandon, Leave
<1> QED
  BY <1>2, <1>3, <1>4

\* Who has an answer to k is out of the cache, and the answer is in memory.
LEMMA AnswerInMemory ==
    ASSUME CacheInv, NEW t \in Tasks, NEW k \in Keys,
           Hit(t, k) \/ (key[t] = k /\ (WakeToHit(t) \/ Store(t)))
    PROVE  pc'[t] = "idle" /\ entries'[k] # None
<1> USE DEF CacheInv, TypeOK
<1>1. CASE Hit(t, k)
  BY <1>1 DEF Hit, Fresh, cacheVars, taskVars
<1>2. CASE key[t] = k /\ WakeToHit(t)
  BY <1>2 DEF WakeToHit, Fresh, Leave
<1>3. CASE key[t] = k /\ Store(t)
  <2>1. pc'[t] = "idle" /\ entries'[k] = [ver |-> got[t].ver, at |-> now]
    BY <1>3 DEF Store, Leave
  <2>2. [ver |-> got[t].ver, at |-> now] \in Answers
    BY <1>3 DEF Store, AnswerInv, ResultInv, Answers
  <2> QED
    BY <2>1, <2>2, CacheAssumption DEF Answers
<1> QED
  BY <1>1, <1>2, <1>3

\* Until the first TTL is over an entry is fresh, so it stands, and no load is under
\* way for a key that has one (core/cache.py:42-54).
LEMMA EntriesStand ==
    ASSUME LifeInv, [LifeNext]_lifeVars, now' <= TTL
    PROVE  /\ now <= TTL
           /\ \A k \in Keys : entries[k] # None => entries'[k] = entries[k]
           /\ \A t \in Tasks : pc'[t] \in {"loading", "loaded"} => entries'[key'[t]] = None
<1> USE CacheAssumption
<1>1. CacheInv /\ TypeOK /\ LockInv
  BY DEF LifeInv, CacheInv
<1>2. now <= TTL
  <2>1. now' = now \/ now' = now + 1
    BY CacheSteps DEF vars, Publish, Tick, Call, Hit, MissAndLoad, MissAndWait, Resume, WakeToHit,
          WakeToLoad, Read, Finish, Store, Fail, Abandon
  <2> QED
    BY <1>1, <2>1 DEF TypeOK
<1>3. \A t \in Tasks : pc[t] \in {"loading", "loaded"} => entries[key[t]] = None
  BY <1>2 DEF LifeInv, WarmInv
<1>4. \A k \in Keys : ~Fresh(k) => entries[k] = None
  BY <1>1, <1>2 DEF Fresh, TypeOK, Answers
<1>5. CASE entries' = entries /\ pc' = pc /\ key' = key
  BY <1>2, <1>3, <1>5
<1>6. ASSUME NEW t \in Tasks, NEW k \in Keys, MissAndLoad(t, k)
      PROVE  /\ entries' = entries
             /\ \A u \in Tasks : pc'[u] \in {"loading", "loaded"} => entries'[key'[u]] = None
  BY <1>1, <1>3, <1>4, <1>6 DEF MissAndLoad, TypeOK
<1>7. ASSUME NEW t \in Tasks, WakeToLoad(t)
      PROVE  /\ entries' = entries
             /\ \A u \in Tasks : pc'[u] \in {"loading", "loaded"} => entries'[key'[u]] = None
  BY <1>1, <1>3, <1>4, <1>7 DEF WakeToLoad, Woken, TypeOK, LockInv
<1>8. ASSUME NEW t \in Tasks, Read(t)
      PROVE  /\ entries' = entries
             /\ \A u \in Tasks : pc'[u] \in {"loading", "loaded"} => entries'[key'[u]] = None
  BY <1>1, <1>3, <1>8 DEF Read, TypeOK, cacheVars
\* A task that waits, is answered from memory, fails or is cancelled loads nothing.
<1>9. ASSUME NEW t \in Tasks, entries' = entries, Moves(t), pc'[t] \notin {"loading", "loaded"}
      PROVE  \A u \in Tasks : pc'[u] \in {"loading", "loaded"} => entries'[key'[u]] = None
  BY <1>3, <1>9 DEF Moves
<1>10. ASSUME NEW t \in Tasks, WakeToHit(t) \/ Fail(t) \/ Abandon(t)
       PROVE  entries' = entries /\ Moves(t) /\ pc'[t] \notin {"loading", "loaded"}
  <2>1. Moves(t)
    BY <1>1, <1>10, OneTaskMoves DEF Resume, Finish
  <2> QED
    BY <1>1, <1>10, <2>1 DEF WakeToHit, Fail, Abandon, Leave, TypeOK
<1>11. ASSUME NEW t \in Tasks, NEW k \in Keys, MissAndWait(t, k)
       PROVE  entries' = entries /\ Moves(t) /\ pc'[t] \notin {"loading", "loaded"}
  <2>1. Moves(t)
    BY <1>1, <1>11, OneTaskMoves DEF Call
  <2> QED
    BY <1>1, <1>11, <2>1 DEF MissAndWait, TypeOK
\* A load that is stored is the only one of its key, which had no entry.
<1>12. ASSUME NEW t \in Tasks, Store(t)
       PROVE  /\ \A k \in Keys : entries[k] # None => entries'[k] = entries[k]
              /\ \A u \in Tasks : pc'[u] \in {"loading", "loaded"} => entries'[key'[u]] = None
  <2>1. key[t] \in Keys /\ entries[key[t]] = None /\ holder[key[t]] = t
    BY <1>1, <1>3, <1>12 DEF Store, LockInv
  <2>2. \A k \in Keys : k # key[t] => entries'[k] = entries[k]
    BY <1>1, <1>12 DEF Store, TypeOK
  <2>3. Moves(t) /\ pc'[t] = "idle"
    BY <1>1, <1>12, OneTaskMoves DEF Finish, Store, Leave, TypeOK
  <2>4. ASSUME NEW u \in Tasks, pc'[u] \in {"loading", "loaded"}
        PROVE  entries'[key'[u]] = None
    <3>1. u # t /\ pc[u] \in {"loading", "loaded"} /\ key'[u] = key[u]
      BY <2>3, <2>4 DEF Moves
    <3>2. key[u] \in Keys /\ key[u] # key[t]
      BY <1>1, <2>1, <3>1 DEF LockInv
    <3> QED
      BY <1>3, <2>2, <3>1, <3>2
  <2> QED
    BY <2>1, <2>2, <2>4
<1>13. ASSUME NEW t \in Tasks, NEW k \in Keys, Hit(t, k)
       PROVE  entries' = entries /\ pc' = pc /\ key' = key
  BY <1>13 DEF Hit, cacheVars, taskVars
<1>14. UNCHANGED vars \/ Publish \/ Tick => entries' = entries /\ pc' = pc /\ key' = key
  BY DEF vars, Publish, Tick, cacheVars, taskVars
<1>15. \/ entries' = entries /\ pc' = pc /\ key' = key
       \/ \E t \in Tasks : Store(t) \/ Read(t) \/ WakeToLoad(t)
       \/ \E t \in Tasks : WakeToHit(t) \/ Fail(t) \/ Abandon(t)
       \/ \E t \in Tasks, k \in Keys : MissAndLoad(t, k) \/ MissAndWait(t, k)
  BY <1>13, <1>14, CacheSteps DEF Call, Resume, Finish
<1> QED
  BY <1>2, <1>5, <1>6, <1>7, <1>8, <1>9, <1>10, <1>11, <1>12, <1>15

-----------------------------------------------------------------------------
\* What a step of warm-up task t may do to it: it starts or goes on with its own key,
\* is answered, or ends without an answer, and is out of the cache when it has ended.
Goes(t) == \/ /\ load'[t] = "pending" /\ counted' = counted
              /\ pc'[t] # "idle" /\ key'[t] = Preload[t]
           \/ /\ load'[t] = "answered" /\ pc'[t] = "idle"
              /\ entries'[Preload[t]] # None
              /\ counted' = IF t = CountsTask THEN served'[Preload[t]] ELSE counted
           \/ /\ load'[t] \in {"failed", "cancelled"} /\ counted' = counted
              /\ pc'[t] = "idle"

WarmStep(t) == /\ load[t] = "pending" \/ Due(t)
               /\ \A u \in Cancellable \ {t} : load'[u] = load[u]
               /\ load' \in [Cancellable -> {"unasked", "pending", "answered", "failed", "cancelled"}]
               /\ Moves(t)
               /\ Goes(t)
               /\ UNCHANGED <<phase, cancelled>>

\* A load that begins, at once from memory or behind a loader, is such a step
\* (couvert.py:62-83, core/cache.py:42-54).
LEMMA AskIsWarmStep ==
    ASSUME LifeInv, NEW t \in Cancellable, Ask(t)
    PROVE  WarmStep(t)
<1> USE LifespanAssumption, CacheAssumption
<1> DEFINE k == Preload[t]
<1>1. /\ t \in Tasks /\ k \in Keys /\ CacheInv /\ TypeOK
      /\ load \in [Cancellable -> {"unasked", "pending", "answered", "failed", "cancelled"}]
  BY DEF LifeInv, LifeTypeOK
<1>2. pc[t] = "idle" /\ Due(t) /\ UNCHANGED <<phase, cancelled>>
  BY DEF Ask, Due, LifeInv, LoadInv
<1>3. Moves(t)
  <2>1. Call(t)
    BY <1>1 DEF Ask, Call
  <2> QED
    BY <1>1, <2>1, OneTaskMoves
<1> HIDE DEF k
<1>4. CASE Hit(t, k) /\ Answered(t)
  <2>1. pc'[t] = "idle" /\ entries'[k] # None
    BY <1>1, <1>4, AnswerInMemory
  <2>2. Goes(t)
    BY <1>1, <1>4, <2>1 DEF Goes, Answered, k
  <2> QED
    BY <1>1, <1>2, <1>3, <1>4, <2>2 DEF WarmStep, Answered
<1>5. CASE /\ MissAndLoad(t, k) \/ MissAndWait(t, k)
           /\ load' = [load EXCEPT ![t] = "pending"]
           /\ UNCHANGED counted
  <2>1. pc'[t] # "idle" /\ key'[t] = k
    BY <1>1, <1>5 DEF MissAndLoad, MissAndWait, TypeOK
  <2>2. Goes(t)
    BY <1>1, <1>5, <2>1 DEF Goes, k
  <2> QED
    BY <1>1, <1>2, <1>3, <1>5, <2>2 DEF WarmStep
<1> QED
  BY <1>4, <1>5 DEF Ask, k

\* So is a load that goes on, is answered, fails or is cancelled (main.py:23-29).
LEMMA AdvanceIsWarmStep ==
    ASSUME LifeInv, NEW t \in Cancellable, Advance(t) \/ Withdraw(t)
    PROVE  WarmStep(t)
<1> USE LifespanAssumption, CacheAssumption
<1>1. /\ t \in Tasks /\ Preload[t] \in Keys /\ CacheInv /\ TypeOK
      /\ load \in [Cancellable -> {"unasked", "pending", "answered", "failed", "cancelled"}]
  BY DEF LifeInv, LifeTypeOK
<1>2. /\ load[t] = "pending" /\ key[t] = Preload[t] /\ pc[t] # "idle"
      /\ UNCHANGED <<phase, cancelled>>
  BY DEF Advance, Withdraw, LifeInv, LoadInv
<1>3. Moves(t)
  <2>1. Resume(t) \/ Read(t) \/ Finish(t) \/ Abandon(t)
    BY DEF Advance, Withdraw, Resume, Finish
  <2> QED
    BY <1>1, <2>1, OneTaskMoves
<1>4. CASE (WakeToHit(t) \/ Store(t)) /\ Answered(t)
  <2>1. pc'[t] = "idle" /\ entries'[Preload[t]] # None
    BY <1>1, <1>2, <1>4, AnswerInMemory
  <2>2. Goes(t)
    BY <1>1, <1>4, <2>1 DEF Goes, Answered
  <2> QED
    BY <1>1, <1>2, <1>3, <1>4, <2>2 DEF WarmStep, Answered
<1>5. CASE (WakeToLoad(t) \/ Read(t)) /\ UNCHANGED warmVars
  <2>1. pc'[t] # "idle" /\ key'[t] = key[t]
    BY <1>1, <1>5 DEF WakeToLoad, Read, TypeOK
  <2>2. Goes(t)
    BY <1>1, <1>2, <1>5, <2>1 DEF Goes, warmVars
  <2> QED
    BY <1>1, <1>2, <1>3, <1>5, <2>2 DEF WarmStep, warmVars
<1>6. ASSUME NEW end \in {"failed", "cancelled"}, Fail(t) \/ Abandon(t),
             load' = [load EXCEPT ![t] = end], UNCHANGED counted
      PROVE  WarmStep(t)
  <2>1. pc'[t] = "idle"
    BY <1>1, <1>6 DEF Fail, Abandon, Leave, TypeOK
  <2>2. Goes(t)
    BY <1>1, <1>6, <2>1 DEF Goes
  <2> QED
    BY <1>1, <1>2, <1>3, <1>6, <2>2 DEF WarmStep
<1> QED
  BY <1>4, <1>5, <1>6 DEF Advance, Withdraw

\* What has been preloaded stays so: nothing is left that a warm-up could do.
LEMMA PreloadedIsOver ==
    ASSUME LifeInv, Preloaded
    PROVE  /\ counted # None
           /\ \A t \in Cancellable : load[t] \in {"unasked", "answered"} /\ ~Due(t)
<1> USE LifespanAssumption
<1>1. load[CountsTask] = "answered" /\ counted # None
  BY DEF Preloaded, LifeInv, LoadInv
<1>2. \A t \in Wanted[counted] : load[t] = "answered"
  BY DEF Preloaded
<1>3. \A t \in Cancellable \ RowTasks : load[t] = "answered"
  BY DEF Preloaded
<1>4. ASSUME NEW t \in RowTasks
      PROVE  load[t] \in {"unasked", "answered"} /\ ~Due(t)
  BY <1>1, <1>2, <1>4 DEF Due, LifeInv, LoadInv
<1> QED
  BY <1>1, <1>3, <1>4 DEF Due

\* A step of the warm-up keeps the invariant: the counts are named once, no row is
\* asked for before them, and what is answered is in memory.
LEMMA WarmStepKeepsInv ==
    ASSUME LifeInv, CacheInv', NEW t \in Cancellable, WarmStep(t), [LifeNext]_lifeVars
    PROVE  LifeInv'
<1> USE LifespanAssumption, CacheAssumption
<1>1. LifeTypeOK /\ LoadInv /\ ShutdownInv /\ TypeOK'
  BY DEF LifeInv, CacheInv
<1>2. Preload[t] \in Keys /\ served'[Preload[t]] \in 0..MaxVersion
  BY <1>1 DEF TypeOK
<1>3. LifeTypeOK'
  BY <1>1, <1>2 DEF LifeTypeOK, WarmStep, Goes
\* The counts are named when their task is answered, and before no row is asked for.
<1>4. t = CountsTask => counted = None /\ \A u \in RowTasks : load[u] = "unasked"
  BY <1>1 DEF LoadInv, WarmStep, Due
<1>5. t \in RowTasks => counted # None /\ t \in Wanted[counted] /\ counted' = counted
  BY <1>1 DEF LoadInv, WarmStep, Due, Goes
<1>6. LoadInv'
  <2>1. counted' # None <=> load'[CountsTask] = "answered"
    BY <1>1, <1>2, <1>4 DEF LoadInv, WarmStep, Goes
  <2>2. \A u \in Cancellable : /\ pc'[u] # "idle" <=> load'[u] = "pending"
                               /\ load'[u] = "pending" => key'[u] = Preload[u]
    BY <1>1 DEF LoadInv, WarmStep, Goes, Moves
  <2>3. \A u \in RowTasks : load'[u] # "unasked" => counted' # None /\ u \in Wanted[counted']
    <3>1. CASE t = CountsTask
      BY <1>4, <3>1 DEF WarmStep
    <3>2. CASE t # CountsTask
      <4>1. counted' = counted
        BY <3>2 DEF WarmStep, Goes
      <4> QED
        BY <1>1, <1>5, <4>1 DEF LoadInv, WarmStep
    <3> QED
      BY <3>1, <3>2
  <2> QED
    BY <2>1, <2>2, <2>3 DEF LoadInv
<1>7. ~Preloaded
  BY PreloadedIsOver DEF WarmStep
<1>8. Failed => Failed'
  BY DEF Failed, WarmStep, Due
<1>9. Drained => Drained'
  BY DEF Drained, Requests, WarmStep, Moves
<1>10. ShutdownInv'
  <2>1. phase' = phase /\ cancelled' = cancelled
    BY DEF WarmStep
  <2>2. phase = "closed" /\ cancelled => load[t] # "pending" /\ ~Due(t)
    BY <1>1 DEF ShutdownInv, Due
  <2> QED
    BY <1>1, <1>7, <1>8, <1>9, <2>1, <2>2 DEF ShutdownInv, WarmUpDone, WarmStep
<1>11. WarmInv'
  <2> SUFFICES ASSUME now' <= TTL
               PROVE  WarmInv!2'
    BY DEF WarmInv
  <2>1. /\ now <= TTL
        /\ \A k \in Keys : entries[k] # None => entries'[k] = entries[k]
        /\ \A u \in Tasks : pc'[u] \in {"loading", "loaded"} => entries'[key'[u]] = None
    BY EntriesStand
  <2>2. /\ \A u \in Cancellable : load[u] = "answered" => entries[Preload[u]] # None
        /\ counted # None => entries[Preload[CountsTask]].ver = counted
    BY <2>1 DEF LifeInv, WarmInv
  <2>3. \A u \in Cancellable : load'[u] = "answered" => entries'[Preload[u]] # None
    BY <2>1, <2>2 DEF WarmStep, Goes
  <2>4. ASSUME counted' # None
        PROVE  entries'[Preload[CountsTask]].ver = counted'
    <3>1. CASE counted' = counted
      <4>1. entries[Preload[CountsTask]] # None
        BY <1>1, <2>2, <2>4, <3>1 DEF LoadInv
      <4> QED
        BY <2>1, <2>2, <2>4, <3>1, <4>1
    <3>2. CASE counted' # counted
      <4>1. /\ t = CountsTask /\ counted' = served'[Preload[t]]
            /\ entries'[Preload[t]] # None
        BY <3>2 DEF WarmStep, Goes
      <4>2. entries'[Preload[t]].ver = served'[Preload[t]]
        BY <1>2, <4>1 DEF CacheInv, AnswerInv, EntryInv
      <4> QED
        BY <4>1, <4>2
    <3> QED
      BY <3>1, <3>2
  <2> QED
    BY <2>1, <2>3, <2>4
<1> QED
  BY <1>3, <1>6, <1>10, <1>11 DEF LifeInv

\* A step that leaves the warm-up alone leaves it warm.
LEMMA WarmStands ==
    ASSUME LifeInv, [LifeNext]_lifeVars, UNCHANGED warmVars
    PROVE  WarmInv'
<1> USE LifespanAssumption
<1> SUFFICES ASSUME now' <= TTL
             PROVE  WarmInv!2'
  BY DEF WarmInv
<1>1. /\ now <= TTL
      /\ \A k \in Keys : entries[k] # None => entries'[k] = entries[k]
      /\ \A u \in Tasks : pc'[u] \in {"loading", "loaded"} => entries'[key'[u]] = None
  BY EntriesStand
<1>2. /\ \A u \in Cancellable : load[u] = "answered" => entries[Preload[u]] # None
      /\ counted # None => entries[Preload[CountsTask]].ver = counted
      /\ counted # None => load[CountsTask] = "answered"
  BY <1>1 DEF LifeInv, WarmInv, LoadInv
<1>3. load' = load /\ counted' = counted
  BY DEF warmVars
<1>4. \A u \in Cancellable : load'[u] = "answered" => entries'[Preload[u]] # None
  BY <1>1, <1>2, <1>3
<1>5. counted' # None => entries'[Preload[CountsTask]].ver = counted'
  BY <1>1, <1>2, <1>3
<1> QED
  BY <1>1, <1>4, <1>5

\* A request concerns the warm-up only through the cache, and comes before the
\* shutdown: once that has begun no request is under way to take a step.
LEMMA RequestKeepsInv ==
    ASSUME LifeInv, CacheInv', NEW t \in Requests, Request(t) \/ Respond(t),
           [LifeNext]_lifeVars
    PROVE  LifeInv'
<1> USE LifespanAssumption, CacheAssumption
<1>1. /\ LifeTypeOK /\ LoadInv /\ ShutdownInv /\ CacheInv /\ TypeOK'
      /\ t \in Tasks /\ t \notin Cancellable
  BY DEF LifeInv, CacheInv, Requests
<1>2. phase' = phase /\ load' = load /\ counted' = counted /\ cancelled' = cancelled
  BY DEF Request, Respond, warmVars
<1>3. LifeTypeOK'
  BY <1>1, <1>2 DEF LifeTypeOK
<1>4. Moves(t)
  BY <1>1, OneTaskMoves DEF Request, Respond
<1>5. LoadInv'
  BY <1>1, <1>2, <1>4 DEF LoadInv, Moves
<1>6. phase = "serving"
  <2>1. Respond(t) => pc[t] # "idle"
    BY DEF Respond, Resume, WakeToHit, WakeToLoad, Woken, Read, Finish, Store, Fail
  <2> QED
    BY <1>1, <2>1 DEF Request, ShutdownInv, Drained
<1>7. ShutdownInv'
  BY <1>1, <1>2, <1>6 DEF ShutdownInv
<1> QED
  BY <1>2, <1>3, <1>5, <1>7, WarmStands DEF LifeInv, warmVars

\* Shutting down and what happens outside touch neither the cache's tasks nor the
\* warm-up's loads.
LEMMA RestKeepsInv ==
    ASSUME LifeInv, CacheInv', Shutdown \/ Close \/ Outside \/ UNCHANGED lifeVars,
           [LifeNext]_lifeVars
    PROVE  LifeInv'
<1>1. LifeTypeOK /\ LoadInv /\ ShutdownInv /\ TypeOK'
  BY DEF LifeInv, CacheInv
<1>2. pc' = pc /\ key' = key /\ load' = load /\ counted' = counted
  BY DEF Shutdown, Close, Outside, Publish, Tick, lifeVars, vars, warmVars, taskVars
<1>3. LifeTypeOK'
  BY <1>1, <1>2 DEF LifeTypeOK, Shutdown, Close, Outside, lifeVars
<1>4. LoadInv'
  BY <1>1, <1>2 DEF LoadInv
<1>5. ShutdownInv'
  <2>1. (Drained' <=> Drained) /\ (WarmUpDone' <=> WarmUpDone)
    BY <1>2 DEF Drained, WarmUpDone, Failed, Preloaded
  <2>2. CASE Shutdown
    BY <1>1, <2>1, <2>2 DEF Shutdown, ShutdownInv
  <2>3. CASE Close
    BY <1>1, <1>2, <2>1, <2>3 DEF Close, ShutdownInv
  <2>4. CASE Outside \/ UNCHANGED lifeVars
    BY <1>1, <1>2, <2>1, <2>4 DEF Outside, lifeVars, ShutdownInv
  <2> QED
    BY <2>2, <2>3, <2>4
<1> QED
  BY <1>2, <1>3, <1>4, <1>5, WarmStands DEF LifeInv, warmVars

\* The invariant of the process: what its loads are at, what shutdown has seen to,
\* and what a warm-up that was answered left in memory (api/main.py:23-68,
\* api/routers/couvert.py:62-83).
THEOREM LifeInvariant == LifeSpec => []LifeInv
<1>1. LifeInit /\ CacheInv => LifeInv
  <2> USE LifespanAssumption
  <2> SUFFICES ASSUME LifeInit, CacheInv
               PROVE  LifeTypeOK /\ LoadInv /\ ShutdownInv /\ WarmInv
    BY DEF LifeInv
  <2>1. LifeTypeOK
    BY DEF CacheInv, LifeInit, LifeTypeOK
  <2>2. LoadInv /\ WarmInv
    BY CacheAssumption DEF LifeInit, Init, LoadInv, WarmInv
  <2>3. ShutdownInv
    BY DEF LifeInit, ShutdownInv
  <2> QED
    BY <2>1, <2>2, <2>3
<1>2. LifeInv /\ CacheInv' /\ [LifeNext]_lifeVars => LifeInv'
  <2> SUFFICES ASSUME LifeInv, CacheInv', [LifeNext]_lifeVars
               PROVE  LifeInv'
    OBVIOUS
  <2>1. ASSUME NEW t \in Cancellable, Ask(t) \/ Advance(t) \/ Withdraw(t)
        PROVE  LifeInv'
    <3>1. WarmStep(t)
      BY <2>1, AskIsWarmStep, AdvanceIsWarmStep
    <3> QED
      BY <3>1, WarmStepKeepsInv
  <2>2. ASSUME NEW t \in Requests, Request(t) \/ Respond(t)
        PROVE  LifeInv'
    BY <2>2, RequestKeepsInv
  <2>3. CASE Shutdown \/ Close \/ Outside \/ UNCHANGED lifeVars
    BY <2>3, RestKeepsInv
  <2> QED
    BY <2>1, <2>2, <2>3 DEF LifeNext
<1>3. Spec => []CacheInv
  BY CacheInvariant
<1> QED
  BY <1>1, <1>2, <1>3, UsesTheCache, PTL DEF LifeSpec

\* "Preload everything an unfiltered browse and the home feed need"
\* (api/routers/couvert.py:63): for at least TTL after the start a browse that
\* follows the warm-up is answered from memory, whoever loads, fails or publishes
\* meanwhile.
THEOREM WarmBrowse == LifeSpec => []BrowseIsWarm
<1>1. LifeInv => BrowseIsWarm
  <2> USE LifespanAssumption, CacheAssumption
  <2> SUFFICES ASSUME LifeInv, Preloaded, now <= TTL
               PROVE  BrowseIsWarm!2
    BY DEF BrowseIsWarm
  <2> DEFINE kept == entries[Preload[CountsTask]]
  <2>1. counted # None /\ load[CountsTask] = "answered"
    BY PreloadedIsOver DEF Preloaded
  <2>2. \A t \in Cancellable : load[t] = "answered" => entries[Preload[t]] # None
    BY DEF LifeInv, WarmInv
  <2>3. kept # None /\ kept.ver = counted
    BY <2>1, <2>2 DEF LifeInv, WarmInv
  <2>4. \A t \in (Cancellable \ RowTasks) \union Wanted[counted] :
            t \in Cancellable /\ load[t] = "answered"
    <3>1. Wanted[counted] \subseteq RowTasks
      BY <2>1 DEF LifeInv, LifeTypeOK
    <3> QED
      BY <3>1 DEF Preloaded
  <2>5. \A k \in Keys : entries[k] # None => Fresh(k)
    BY DEF Fresh, LifeInv, CacheInv, TypeOK, Answers
  <2> QED
    BY <2>2, <2>3, <2>4, <2>5
<1> QED
  BY <1>1, LifeInvariant, PTL

\* No query is under way when the Cosmos client is closed, unless a load of the
\* warm-up had failed and left its siblings running (api/main.py:63-68).
THEOREM ClosedClean == LifeSpec => []NoQueryAfterClose
<1>1. LifeInv => NoQueryAfterClose
  <2> SUFFICES ASSUME LifeInv, phase = "closed", ~Failed, NEW t \in Tasks
               PROVE  pc[t] = "idle"
    BY DEF NoQueryAfterClose
  <2>1. ShutdownInv /\ LoadInv
    BY DEF LifeInv
  <2>2. CASE t \in Requests
    BY <2>1, <2>2 DEF ShutdownInv, Drained
  <2>3. CASE t \in Cancellable
    <3>1. load[t] # "pending"
      <4>1. CASE cancelled
        BY <2>1, <2>3, <4>1 DEF ShutdownInv
      <4>2. CASE Preloaded
        BY <2>3, <4>2, PreloadedIsOver
      <4> QED
        BY <2>1, <4>1, <4>2 DEF ShutdownInv, WarmUpDone
    <3> QED
      BY <2>1, <2>3, <3>1 DEF LoadInv
  <2> QED
    BY <2>2, <2>3 DEF Requests
<1> QED
  BY <1>1, LifeInvariant, PTL
=============================================================================
