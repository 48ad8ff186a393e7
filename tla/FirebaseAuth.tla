---------------------------- MODULE FirebaseAuth ----------------------------
(***************************************************************************)
(* Who is asking: the dependencies get_current_user and get_optional_user  *)
(* (api/auth.py).  They are plain functions, so FastAPI runs them in a     *)
(* thread pool: several requests of a cold container look at               *)
(* firebase_admin._apps at once, and _ensure_firebase has to register the  *)
(* default app once, because initialize_app raises when it exists already. *)
(* A step is what a thread does between two points where another thread    *)
(* may see or change _apps or the lock.                                    *)
(***************************************************************************)
CONSTANTS Threads,  \* requests that are authenticated, one thread each
          None      \* no thread, no answer

\* What a request carries: no header, another scheme or an empty token, a token
\* that is forged or expired, a valid one.
Headers == {"absent", "malformed", "invalid", "valid"}

\* What the dependency returns or raises: None, the user, 401, or an exception the
\* framework answers with 500.
Answers == {"anonymous", "user", "unauthorized", "error"}

ASSUME NoneAssumption == None \notin Threads /\ None \notin Answers

VARIABLES usable,    \* whether initialize_app accepts the credentials in the settings
          apps,      \* the threads whose initialize_app registered an app
          lock,      \* the thread inside _init_lock, or None
          pc,        \* pc[t]: where thread t is
          header,    \* header[t]: what its request carries
          answer     \* answer[t]: what the dependency returned or raised

vars == <<usable, apps, lock, pc, header, answer>>

TypeOK == /\ usable \in BOOLEAN
          /\ apps \subseteq Threads
          /\ lock \in Threads \union {None}
          /\ pc \in [Threads -> {"new", "peek", "acquire", "recheck", "register",
                                 "verify", "done"}]
          /\ header \in [Threads -> Headers]
          /\ answer \in [Threads -> Answers \union {None}]

Init == /\ usable \in BOOLEAN
        /\ apps = {}
        /\ lock = None
        /\ pc = [t \in Threads |-> "new"]
        /\ header \in [Threads -> Headers]
        /\ answer = [t \in Threads |-> None]

Goto(t, label) == pc' = [pc EXCEPT ![t] = label]

Finish(t, a) == /\ Goto(t, "done")
                /\ answer' = [answer EXCEPT ![t] = a]

-----------------------------------------------------------------------------
\* The header is read.  Only the optional variant lets a request without one pass.
ReadHeader(t) ==
    /\ pc[t] = "new"
    /\ \/ /\ header[t] = "absent"
          /\ Finish(t, "anonymous")
       \/ /\ header[t] \in {"absent", "malformed"}
          /\ Finish(t, "unauthorized")
       \/ /\ header[t] \in {"invalid", "valid"}
          /\ Goto(t, "peek")
          /\ UNCHANGED answer
    /\ UNCHANGED <<usable, apps, lock, header>>

\* The first look at _apps, without the lock.
Peek(t) == /\ pc[t] = "peek"
           /\ Goto(t, IF apps # {} THEN "verify" ELSE "acquire")
           /\ UNCHANGED <<usable, apps, lock, header, answer>>

Acquire(t) == /\ pc[t] = "acquire"
              /\ lock = None
              /\ lock' = t
              /\ Goto(t, "recheck")
              /\ UNCHANGED <<usable, apps, header, answer>>

\* Fault: no second look under the lock.
RecheckNothing(t) == /\ pc[t] = "recheck"
                     /\ Goto(t, "register")
                     /\ UNCHANGED <<usable, apps, lock, header, answer>>

\* The second look, under the lock: somebody else may have been first.
Recheck(t) == /\ pc[t] = "recheck"
              /\ IF apps # {}
                 THEN lock' = None /\ Goto(t, "verify")
                 ELSE Goto(t, "register") /\ UNCHANGED lock
              /\ UNCHANGED <<usable, apps, header, answer>>

\* initialize_app with usable credentials; it raises when an app is registered.
Register(t) == /\ pc[t] = "register"
               /\ usable
               /\ lock' = None
               /\ IF apps = {}
                  THEN apps' = {t} /\ Goto(t, "verify") /\ UNCHANGED answer
                  ELSE Finish(t, "error") /\ UNCHANGED apps
               /\ UNCHANGED <<usable, header>>

\* Fault: the lock is taken without with.
RegisterKeepsLock(t) == /\ pc[t] = "register"
                        /\ ~usable
                        /\ Finish(t, "error")
                        /\ UNCHANGED <<usable, apps, lock, header>>

\* The secret is no JSON, or the file is missing: the exception leaves the with
\* block, so the lock is free for the next request, which fails in its turn.
RegisterFails(t) == /\ pc[t] = "register"
                    /\ ~usable
                    /\ lock' = None
                    /\ Finish(t, "error")
                    /\ UNCHANGED <<usable, apps, header>>

\* verify_id_token.  Whatever it raises is answered 401, be it for the token or
\* because the signing keys could not be fetched.
Verify(t) == /\ pc[t] = "verify"
             /\ \/ header[t] = "valid" /\ Finish(t, "user")
                \/ Finish(t, "unauthorized")
             /\ UNCHANGED <<usable, apps, lock, header>>

Step(t) == \/ ReadHeader(t) \/ Peek(t) \/ Acquire(t) \/ Recheck(t)
           \/ Register(t) \/ RegisterFails(t) \/ Verify(t)

Next == \E t \in Threads : Step(t)

Spec == Init /\ [][Next]_vars

\* A runnable thread runs, and a thread waiting for a lock that is freed again and
\* again gets it: every request asks for it at most once.
FairSpec == Spec /\ \A t \in Threads : WF_vars(Step(t))

-----------------------------------------------------------------------------
\* initialize_app is never called when an app is registered, so it never raises
\* for that, whichever threads pass the unlocked look together.
RegistersOnce == \A t \in Threads : pc[t] = "register" => apps = {}

\* An answer fits its request: a user only for a valid token checked against a
\* registered app, no user only for a request without a header, and a server error
\* only when the settings are to blame.
AnswersFit == \A t \in Threads :
    /\ pc[t] = "verify" => apps # {}
    /\ answer[t] = "user" => header[t] = "valid" /\ apps # {}
    /\ answer[t] = "anonymous" => header[t] = "absent"
    /\ answer[t] = "error" => ~usable

\* Every request is answered: broken credentials or a lost race leave no thread
\* waiting for _init_lock.
EveryRequestAnswered == \A t \in Threads : <>(pc[t] = "done")

\* Why the safety holds: the lock is held exactly by the thread that is between its
\* second look and the end of the with block, and apps only changes under it.
LockInv == \A t \in Threads : pc[t] \in {"recheck", "register"} <=> lock = t

AuthInv == TypeOK /\ LockInv /\ RegistersOnce /\ AnswersFit
=============================================================================
