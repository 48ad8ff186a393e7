------------------------------ MODULE Lifespan ------------------------------
(***************************************************************************)
(* The life of the API process around its cache (api/main.py): startup     *)
(* sends a warm-up through the cache in the background, requests are       *)
(* served meanwhile, and shutdown cancels the warm-up and closes the       *)
(* Cosmos client.                                                          *)
(*                                                                         *)
(* The warm-up (warm_catalog in routers/couvert.py) is a gather of three:  *)
(* the awarded restaurants, the count, and the browse rows, which load the *)
(* cuisine counts first and then, in a gather of their own, the rows of    *)
(* the cuisines those counts name.  A gather without return_exceptions     *)
(* ends at the first exception and leaves the others running, so a failed  *)
(* warm-up is over while its loads go on, which no shutdown then cancels.  *)
(* Each load is a task of TtlCache, whose Cancellable are the warm-up's.   *)
(***************************************************************************)
EXTENDS TtlCache

CONSTANTS Preload,    \* Preload[t]: the key that warm-up task t loads
          CountsTask, \* the task of the cuisine counts
          RowTasks,   \* the tasks of browse rows
          Wanted      \* Wanted[v]: the rows that catalog version v browses by

ASSUME LifespanAssumption ==
    /\ Preload \in [Cancellable -> Keys]
    /\ CountsTask \in Cancellable
    /\ RowTasks \subseteq Cancellable \ {CountsTask}
    /\ Wanted \in [0..MaxVersion -> SUBSET RowTasks]
    /\ None \notin 0..MaxVersion

VARIABLES phase,     \* of the lifespan: serving, stopping (warm-up awaited), closed
          load,      \* load[t]: how far warm-up task t has come
          counted,   \* the catalog version the warm-up's counts are of
          cancelled  \* shutdown has cancelled the warm-up

warmVars == <<load, counted>>
lifeVars == <<vars, phase, warmVars, cancelled>>

LifeTypeOK == /\ TypeOK
              /\ phase \in {"serving", "stopping", "closed"}
              /\ load \in [Cancellable -> {"unasked", "pending", "answered", "failed", "cancelled"}]
              /\ counted \in 0..MaxVersion \union {None}
              /\ cancelled \in BOOLEAN

LifeInit == /\ Init
            /\ phase = "serving"
            /\ load = [t \in Cancellable |-> "unasked"]
            /\ counted = None
            /\ cancelled = FALSE

-----------------------------------------------------------------------------
Failed == \E t \in Cancellable : load[t] = "failed"

\* Fault: the rows are not waited for.
PreloadedButRows == \A t \in Cancellable \ RowTasks : load[t] = "answered"

\* All the warm-up wants has been answered.
Preloaded == /\ \A t \in Cancellable \ RowTasks : load[t] = "answered"
             /\ \A t \in Wanted[counted] : load[t] = "answered"

\* warmup.done(): every load answered, or one of them failed.
WarmUpDone == Failed \/ Preloaded

\* The warm-up may call for what t loads: for a row once the counts name it.
Due(t) == /\ load[t] = "unasked"
          /\ ~cancelled
          /\ t \in RowTasks => counted # None /\ t \in Wanted[counted]

\* Warm-up task t has its answer, of the version now served.
Answered(t) == /\ load' = [load EXCEPT ![t] = "answered"]
               /\ counted' = IF t = CountsTask THEN served'[Preload[t]] ELSE counted

\* A load of the warm-up begins, and may be answered at once.
Ask(t) == /\ Due(t)
          /\ \/ Hit(t, Preload[t]) /\ Answered(t)
             \/ /\ MissAndLoad(t, Preload[t]) \/ MissAndWait(t, Preload[t])
                /\ load' = [load EXCEPT ![t] = "pending"]
                /\ UNCHANGED counted
          /\ UNCHANGED <<phase, cancelled>>

\* Fault: a load that fails ends nothing.
AdvanceQuietly(t) == /\ load[t] = "pending"
                     /\ ~cancelled
                     /\ \/ (WakeToHit(t) \/ Store(t)) /\ Answered(t)
                        \/ (WakeToLoad(t) \/ Read(t) \/ Fail(t)) /\ UNCHANGED warmVars
                     /\ UNCHANGED <<phase, cancelled>>

\* It goes on, unless it has been cancelled; also when another one has failed.
Advance(t) == /\ load[t] = "pending"
              /\ ~cancelled
              /\ \/ (WakeToHit(t) \/ Store(t)) /\ Answered(t)
                 \/ (WakeToLoad(t) \/ Read(t)) /\ UNCHANGED warmVars
                 \/ Fail(t) /\ load' = [load EXCEPT ![t] = "failed"] /\ UNCHANGED counted
              /\ UNCHANGED <<phase, cancelled>>

\* Fault: a waiter for a lock does not take notice of the cancellation.
WithdrawLoaders(t) == /\ load[t] = "pending"
                      /\ cancelled
                      /\ Fail(t)
                      /\ load' = [load EXCEPT ![t] = "cancelled"]
                      /\ UNCHANGED <<phase, counted, cancelled>>

\* The cancellation reaches it, inside its loader or waiting for the lock.
Withdraw(t) == /\ load[t] = "pending"
               /\ cancelled
               /\ Fail(t) \/ Abandon(t)
               /\ load' = [load EXCEPT ![t] = "cancelled"]
               /\ UNCHANGED <<phase, counted, cancelled>>

\* A request calls for anything, as long as the server takes requests.
Request(t) == /\ phase = "serving"
              /\ Call(t)
              /\ UNCHANGED <<phase, warmVars, cancelled>>

Respond(t) == /\ Resume(t) \/ Read(t) \/ Finish(t)
              /\ UNCHANGED <<phase, warmVars, cancelled>>

-----------------------------------------------------------------------------
Requests == Tasks \ Cancellable

\* uvicorn, once the requests it has taken are answered, ends the lifespan.
Drained == \A t \in Requests : pc[t] = "idle"

\* Fault: the warm-up is left alone.
ShutdownWithoutCancel == /\ phase = "serving"
                         /\ Drained
                         /\ phase' = "stopping"
                         /\ UNCHANGED <<vars, warmVars, cancelled>>

\* lifespan after its yield: a warm-up that is not done is cancelled.
Shutdown == /\ phase = "serving"
            /\ Drained
            /\ phase' = "stopping"
            /\ cancelled' = ~WarmUpDone
            /\ UNCHANGED <<vars, warmVars>>

\* The cancelled warm-up has ended (the event loop gives all its loads the error
\* before it returns to lifespan), and the client is closed.
Close == /\ phase = "stopping"
         /\ cancelled => \A t \in Cancellable : load[t] # "pending"
         /\ phase' = "closed"
         /\ UNCHANGED <<vars, warmVars, cancelled>>

\* Time and the data jobs go on.
Outside == /\ Publish \/ Tick
           /\ UNCHANGED <<phase, warmVars, cancelled>>

LifeNext == \/ \E t \in Cancellable : Ask(t) \/ Advance(t) \/ Withdraw(t)
            \/ \E t \in Requests : Request(t) \/ Respond(t)
            \/ Shutdown \/ Close \/ Outside

LifeSpec == LifeInit /\ [][LifeNext]_lifeVars

\* The event loop runs what can go on, a query answers or raises, and the lifespan
\* goes on once what it waits for is over.  Nothing obliges anyone to shut down.
LifeFairness == /\ \A t \in Cancellable : /\ WF_lifeVars(Ask(t))
                                          /\ WF_lifeVars(Advance(t) \/ Withdraw(t))
                /\ \A t \in Requests : WF_lifeVars(Respond(t))
                /\ WF_lifeVars(Close)

FairLifeSpec == LifeSpec /\ LifeFairness

-----------------------------------------------------------------------------
\* "Preload everything an unfiltered browse and the home feed need"
\* (couvert.py:63): when the warm-up is over without a failure, a browse finds the
\* counts, the rows these very counts name, the awarded restaurants and the number
\* of restaurants in memory, for at least TTL after the start, though requests load
\* the same keys and jobs publish other versions meanwhile.
BrowseIsWarm == Preloaded /\ now <= TTL =>
    LET kept == entries[Preload[CountsTask]]
    IN  \A t \in (Cancellable \ RowTasks) \union (IF kept = None THEN {} ELSE Wanted[kept.ver]) :
            Fresh(Preload[t])

\* No query is under way when the client is closed, unless a load of the warm-up
\* had failed and left its siblings running (main.py:63-68).
NoQueryAfterClose == phase = "closed" /\ ~Failed => \A t \in Tasks : pc[t] = "idle"

\* Shutdown ends, whatever the warm-up is doing (main.py:63-68).
ShutdownCloses == phase = "stopping" ~> phase = "closed"

\* A warm-up that no shutdown cancels ends, well or not, whatever loads fail and
\* whichever request it shares them with (main.py:23-29).
WarmUpEnds == <>[](WarmUpDone \/ cancelled)

-----------------------------------------------------------------------------
\* Why the safety holds.  A load of the warm-up that is under way asks for its own
\* key, and a row is not asked for before the counts have named it.
LoadInv ==
    /\ counted # None <=> load[CountsTask] = "answered"
    /\ \A t \in Cancellable : /\ pc[t] # "idle" <=> load[t] = "pending"
                              /\ load[t] = "pending" => key[t] = Preload[t]
    /\ \A t \in RowTasks : load[t] # "unasked" => counted # None /\ t \in Wanted[counted]

\* Once the server takes no requests none is under way, and the warm-up is cancelled
\* if it was not done.
ShutdownInv ==
    /\ cancelled => phase # "serving"
    /\ phase # "serving" => Drained /\ (cancelled \/ WarmUpDone)
    /\ phase = "closed" /\ cancelled => \A t \in Cancellable : load[t] # "pending"

\* Until the first TTL is over no entry expires, so none is loaded again: what the
\* warm-up was answered is in memory, and the counts are those it went by.
WarmInv == now <= TTL =>
    /\ \A t \in Tasks : pc[t] \in {"loading", "loaded"} => entries[key[t]] = None
    /\ \A t \in Cancellable : load[t] = "answered" => entries[Preload[t]] # None
    /\ counted # None => entries[Preload[CountsTask]].ver = counted

LifeInv == LifeTypeOK /\ CacheInv /\ LoadInv /\ ShutdownInv /\ WarmInv
=============================================================================
