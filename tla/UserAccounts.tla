---------------------------- MODULE UserAccounts ----------------------------
(***************************************************************************)
(* The state-changing endpoints under /user (api/routers/user.py) over the *)
(* users container (core/db/user_repository.py).  Requests are handled     *)
(* concurrently, by coroutines of one container or by several containers:  *)
(* a step is one Cosmos operation with the local code around it, and any   *)
(* other request may run between two of them.  upsert carries no etag, so  *)
(* the document a handler writes is computed from what its get returned.   *)
(*                                                                         *)
(* The read-only endpoints (me, profile, validate_username) change nothing *)
(* and are not requests here.                                              *)
(***************************************************************************)
EXTENDS UserDoc

CONSTANTS Requests,        \* requests, each issued once; also their times
          Uids,            \* the users
          LoginPayloads,   \* what clients send with POST /user/login
          UpdatePayloads,  \* what clients send with PUT /user/update
          TokenClaims,     \* the claims an identity token may carry
          OnePerUser       \* TRUE: a client waits for its answer before it
                           \* sends the next request of the same user

ASSUME RequestsAssumption ==
    /\ LoginPayloads \subseteq Payloads
    /\ UpdatePayloads \subseteq Payloads
    /\ TokenClaims \subseteq Claims
    /\ OnePerUser \in BOOLEAN
    /\ None \notin DocsOf(Requests)

VARIABLES docs,     \* docs[u]: the document the container holds for u, or None
          pc,       \* pc[r]: the Cosmos operation r does next
          op,       \* op[r]: the endpoint
          uid,      \* uid[r]: whose token r carries
          claims,   \* claims[r]: the other claims of the token
          payload,  \* payload[r]: the body, normalised once it is validated
          doc,      \* doc[r]: the handler's document before the merge
          status,   \* status[r]: the HTTP status answered, or None
          gone,     \* the documents ever deleted, by creation time
          overlap   \* whether two requests were ever handled at once

local == <<op, uid, claims, payload, doc>>
vars  == <<docs, pc, op, uid, claims, payload, doc, status, gone, overlap>>

Docs == DocsOf(Requests)
Ops  == {"login", "update", "delete"}
Active == {r \in Requests : pc[r] \notin {"new", "done"}}

TypeOK == /\ docs \in [Uids -> Docs \union {None}]
          /\ pc \in [Requests -> {"new", "read", "check", "write", "delete", "done"}]
          /\ op \in [Requests -> Ops \union {None}]
          /\ uid \in [Requests -> Uids \union {None}]
          /\ claims \in [Requests -> Claims \union {None}]
          /\ payload \in [Requests -> Payloads \union {None}]
          /\ doc \in [Requests -> Docs \union {None}]
          /\ status \in [Requests -> {200, 422, 500, None}]
          /\ gone \subseteq Requests
          /\ overlap \in BOOLEAN

Init == /\ docs = [u \in Uids |-> None]
        /\ pc = [r \in Requests |-> "new"]
        /\ op = [r \in Requests |-> None]
        /\ uid = [r \in Requests |-> None]
        /\ claims = [r \in Requests |-> None]
        /\ payload = [r \in Requests |-> None]
        /\ doc = [r \in Requests |-> None]
        /\ status = [r \in Requests |-> None]
        /\ gone = {}
        /\ overlap = FALSE

-----------------------------------------------------------------------------
\* get: a point read of the document.
Stored(u) == docs[u]

\* username_taken: some document of another user holds exactly this name.
Taken(name, own) == \E u \in Uids \ {own} :
                        docs[u] # None /\ docs[u].username = name

\* The answer ends the request; the handler's locals are forgotten.
Answer(r, code) == /\ pc' = [pc EXCEPT ![r] = "done"]
                   /\ status' = [status EXCEPT ![r] = code]
                   /\ claims' = [claims EXCEPT ![r] = None]
                   /\ payload' = [payload EXCEPT ![r] = None]
                   /\ doc' = [doc EXCEPT ![r] = None]
                   /\ UNCHANGED <<op, uid, overlap>>

\* A request passes authentication and reaches its handler.
Arrive(r, o, u, c, p, first) ==
    /\ pc[r] = "new"
    /\ OnePerUser => \A q \in Active : uid[q] # u
    /\ pc' = [pc EXCEPT ![r] = first]
    /\ op' = [op EXCEPT ![r] = o]
    /\ uid' = [uid EXCEPT ![r] = u]
    /\ claims' = [claims EXCEPT ![r] = c]
    /\ payload' = [payload EXCEPT ![r] = p]
    /\ overlap' = (overlap \/ Active # {})
    /\ UNCHANGED <<docs, doc, status, gone>>

LoginCall(r) == \E u \in Uids, c \in TokenClaims, p \in LoginPayloads :
                    Arrive(r, "login", u, c, p, "read")

UpdateCall(r) == \E u \in Uids, c \in TokenClaims, p \in UpdatePayloads :
                     Arrive(r, "update", u, c, p, "read")

DeleteCall(r) == \E u \in Uids, c \in TokenClaims :
                     Arrive(r, "delete", u, c, None, "delete")

\* Fault: login upserts without having read the stored document.
LoginForgets(r) ==
    /\ pc[r] = "read" /\ op[r] = "login"
    /\ doc' = [doc EXCEPT ![r] = NewDoc(claims[r], r)]
    /\ pc' = [pc EXCEPT ![r] = "write"]
    /\ UNCHANGED <<docs, op, uid, claims, payload, status, gone, overlap>>

\* login: get, then a new document or refreshed claims.
LoginGet(r) ==
    /\ pc[r] = "read" /\ op[r] = "login"
    /\ doc' = [doc EXCEPT ![r] = LoginBase(Stored(uid[r]), claims[r], r)]
    /\ pc' = [pc EXCEPT ![r] = "write"]
    /\ UNCHANGED <<docs, op, uid, claims, payload, status, gone, overlap>>

\* update: get, then whatever of the name can be decided without Cosmos.
UpdateGet(r) ==
    LET base == UpdateBase(Stored(uid[r]), claims[r], r)
    IN  /\ pc[r] = "read" /\ op[r] = "update"
        /\ ChangesName(base, payload[r]) => NewUsername(payload[r]) \in WellFormed
        /\ doc' = [doc EXCEPT ![r] = base]
        /\ pc' = [pc EXCEPT ![r] = IF ChangesName(base, payload[r])
                                   THEN "check" ELSE "write"]
        /\ UNCHANGED <<docs, op, uid, claims, payload, status, gone, overlap>>

\* update: a malformed name is refused before the query.
RefuseMalformed(r) ==
    /\ pc[r] = "read" /\ op[r] = "update"
    /\ ChangesName(UpdateBase(Stored(uid[r]), claims[r], r), payload[r])
    /\ NewUsername(payload[r]) \notin WellFormed
    /\ Answer(r, 422)
    /\ UNCHANGED <<docs, gone>>

\* Fault: the query asks for the name as it was sent.
CheckRawName(r) ==
    /\ pc[r] = "check"
    /\ ~Taken(payload[r].username, uid[r])
    /\ payload' = [payload EXCEPT ![r] = Normalised(doc[r], @)]
    /\ pc' = [pc EXCEPT ![r] = "write"]
    /\ UNCHANGED <<docs, op, uid, claims, doc, status, gone, overlap>>

\* update: the name is free now; the body goes on with the normalised name.
CheckFree(r) ==
    /\ pc[r] = "check"
    /\ ~Taken(NewUsername(payload[r]), uid[r])
    /\ payload' = [payload EXCEPT ![r] = Normalised(doc[r], @)]
    /\ pc' = [pc EXCEPT ![r] = "write"]
    /\ UNCHANGED <<docs, op, uid, claims, doc, status, gone, overlap>>

RefuseTaken(r) ==
    /\ pc[r] = "check"
    /\ Taken(NewUsername(payload[r]), uid[r])
    /\ Answer(r, 422)
    /\ UNCHANGED <<docs, gone>>

\* Fault: PUT semantics, the body replaces the document.
UpsertBody(r) == /\ pc[r] = "write"
                 /\ docs' = [docs EXCEPT ![uid[r]] = payload[r]]
                 /\ \E code \in {200, 500} : Answer(r, code)
                 /\ UNCHANGED gone

\* login, update: the upsert replaces whatever the container holds.  Its
\* response may be lost: then it is applied and answered 500.
Upsert(r) ==
    /\ pc[r] = "write"
    /\ docs' = [docs EXCEPT ![uid[r]] = Merged(doc[r], payload[r])]
    /\ \E code \in {200, 500} : Answer(r, code)
    /\ UNCHANGED gone

\* Fault: every exception is suppressed, not only "not found".
DeleteSwallowsErrors(r) ==
    /\ pc[r] = "delete"
    /\ docs' \in {docs, [docs EXCEPT ![uid[r]] = None]}
    /\ gone' = gone \union {s \in Requests :
                   docs[uid[r]] # None /\ docs[uid[r]].created_at = s}
    /\ Answer(r, 200)

\* delete: idempotent, and like the upsert its response may be lost.
Delete(r) ==
    /\ pc[r] = "delete"
    /\ docs' = [docs EXCEPT ![uid[r]] = None]
    /\ gone' = gone \union {s \in Requests :
                   docs[uid[r]] # None /\ docs[uid[r]].created_at = s}
    /\ \E code \in {200, 500} : Answer(r, code)

\* A Cosmos operation raises without having had an effect.
CosmosFails(r) == /\ r \in Active
                  /\ Answer(r, 500)
                  /\ UNCHANGED <<docs, gone>>

Call(r) == LoginCall(r) \/ UpdateCall(r) \/ DeleteCall(r)

Handle(r) == \/ LoginGet(r)
             \/ UpdateGet(r) \/ RefuseMalformed(r) \/ CheckFree(r) \/ RefuseTaken(r)
             \/ Upsert(r) \/ Delete(r)
             \/ CosmosFails(r)

Next == \E r \in Requests : Call(r) \/ Handle(r)

Spec == Init /\ [][Next]_vars

-----------------------------------------------------------------------------
\* Every write is the request merged over the document stored at that moment, or
\* its removal (core/models/user.py:42-43): no login, update or delete undoes what
\* another one, finished in between, has done.
Accounts == INSTANCE AccountStore WITH Stamps <- Requests
AtomicWrites == Accounts!Spec

\* A deleted account stays deleted (api/routers/user.py:87-93, tests/
\* test_user_api.py:127-135): a document that comes after it is a new one.
NoResurrection == \A u \in Uids : docs[u] # None => docs[u].created_at \notin gone

\* No two users hold the same valid name ("Este nome de usuario ja esta em uso",
\* api/routers/user.py:132-133).
UniqueUsernames == \A u, v \in Uids :
    /\ docs[u] # None /\ docs[v] # None
    /\ docs[u].username = docs[v].username
    /\ docs[u].username \in WellFormed
    => u = v

\* The same, promised only while no two requests have been handled at once.
UniqueUnlessOverlapping == overlap \/ UniqueUsernames

-----------------------------------------------------------------------------
\* Why those hold.  What a request in progress knows about itself:
RequestInv == \A r \in Active :
    /\ uid[r] \in Uids /\ claims[r] \in TokenClaims
    /\ op[r] = "login" =>
           pc[r] \in {"read", "write"} /\ payload[r] \in LoginPayloads
    /\ op[r] = "update" =>
           /\ pc[r] \in {"read", "check", "write"}
           /\ pc[r] = "read" => payload[r] \in UpdatePayloads
    /\ op[r] = "delete" => pc[r] = "delete"
    /\ op[r] \in Ops
    /\ pc[r] \in {"check", "write"} => doc[r] \in Docs /\ payload[r] \in Payloads

\* When a user's requests do not overlap, what a handler read is what the
\* container still holds when it writes.
ValidatedBody(r) == \E p \in UpdatePayloads :
    /\ payload[r] = Normalised(doc[r], p)
    /\ ChangesName(doc[r], p) => NewUsername(p) \in WellFormed

SnapshotOf(r) ==
    /\ op[r] = "login" /\ pc[r] = "write" =>
           doc[r] = LoginBase(docs[uid[r]], claims[r], r)
    /\ op[r] = "update" /\ pc[r] \in {"check", "write"} =>
           doc[r] = UpdateBase(docs[uid[r]], claims[r], r)
    /\ pc[r] = "check" =>
           /\ payload[r] \in UpdatePayloads
           /\ ChangesName(doc[r], payload[r])
           /\ NewUsername(payload[r]) \in WellFormed
    /\ op[r] = "update" /\ pc[r] = "write" => ValidatedBody(r)

SnapshotInv == /\ \A q, r \in Active : uid[q] = uid[r] => q = r
               /\ \A r \in Active : SnapshotOf(r)

\* Whose creation time a document carries: a finished request of its user.
StampInv ==
    /\ \A u \in Uids : docs[u] # None =>
           /\ pc[docs[u].created_at] = "done"
           /\ uid[docs[u].created_at] = u
           /\ docs[u].created_at \notin gone
    /\ \A s \in gone : pc[s] = "done"

\* While requests come one at a time: the name about to be written is free.
NameOf(r) == Merged(doc[r], payload[r]).username

SerialInv == overlap \/
    /\ \A q, r \in Active : q = r
    /\ UniqueUsernames
    /\ \A r \in Active : pc[r] = "write" /\ NameOf(r) \in WellFormed
                             => ~Taken(NameOf(r), uid[r])
    /\ \A r \in Active : pc[r] = "check" => ChangesName(doc[r], payload[r])

AccountsInv == RequestInv /\ SnapshotInv /\ StampInv /\ SerialInv
=============================================================================
