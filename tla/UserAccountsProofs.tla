------------------------- MODULE UserAccountsProofs -------------------------
(***************************************************************************)
(* Proofs about UserAccounts, for all users, requests, names and bodies.   *)
(* RequestInv needs no assumption; SnapshotInv and StampInv need that the  *)
(* requests of one user do not overlap, and give AtomicWrites and          *)
(* NoResurrection; SerialInv needs that clients send no name with login,   *)
(* and gives UniqueUnlessOverlapping.                                      *)
(***************************************************************************)
EXTENDS UserAccounts, TLAPS

\* UserDoc.merged keeps the document's shape and creation time.
LEMMA MergedDoc ==
    ASSUME NEW d \in Docs, NEW p \in Payloads
    PROVE  /\ Merged(d, p) \in Docs
           /\ Merged(d, p).created_at = d.created_at
           /\ Merged(d, p).username = Sent(p.username, d.username)
BY NoneAssumption DEF Docs, DocsOf, Payloads, Merged, Sent

\* What login and update go on with: the stored document's name and creation time,
\* or an empty name and the request's time.
LEMMA BaseDoc ==
    ASSUME NEW d \in Docs \union {None}, NEW c \in Claims, NEW r \in Requests
    PROVE  /\ LoginBase(d, c, r) \in Docs /\ UpdateBase(d, c, r) \in Docs
           /\ LoginBase(d, c, r).created_at = IF d = None THEN r ELSE d.created_at
           /\ UpdateBase(d, c, r).created_at = IF d = None THEN r ELSE d.created_at
           /\ LoginBase(d, c, r).username = IF d = None THEN NoName ELSE d.username
           /\ UpdateBase(d, c, r).username = IF d = None THEN NoName ELSE d.username
<1>1. CASE d = None
  BY <1>1, NamesAssumption DEF LoginBase, UpdateBase, NewDoc, Docs, DocsOf, Claims
<1>2. CASE d # None
  BY <1>2 DEF LoginBase, UpdateBase, Refreshed, Docs, DocsOf, Claims
<1> QED
  BY <1>1, <1>2

\* The body after validation is still a body, and names what was validated.
LEMMA NormalisedBody ==
    ASSUME NEW d \in Docs, NEW p \in Payloads
    PROVE  /\ NewUsername(p) \in Usernames
           /\ Normalised(d, p) \in Payloads
           /\ ChangesName(d, p) => Normalised(d, p).username = NewUsername(p)
           /\ ~ChangesName(d, p) => Normalised(d, p) = p
<1>1. NewUsername(p) \in Usernames
  BY NamesAssumption DEF NewUsername, Sent, Payloads
<1> QED
  BY <1>1 DEF Normalised, Payloads

\* A client that got no answer to an update may send it again: the retry is not checked
\* against the name it has just stored, and stores the same document.  It has to send
\* the name in its normal form, as the app does: else the retry stores it as it was
\* sent (api/routers/user.py:77-83).
THEOREM RetriedUpdate ==
    ASSUME NEW d \in Docs, NEW p \in Payloads,
           p.username # None => Canon[p.username] = p.username
    PROVE  LET stored == Merged(d, Normalised(d, p))
           IN  /\ ~ChangesName(stored, p)
               /\ Merged(stored, Normalised(stored, p)) = stored
<1> DEFINE q == Normalised(d, p)
           stored == Merged(d, q)
<1>1. /\ NewUsername(p) = IF p.username = None THEN NoName ELSE p.username
      /\ p.username \in Usernames \union {None}
  BY NamesAssumption DEF NewUsername, Sent, Payloads
<1>2. q = p
  BY <1>1 DEF Normalised, ChangesName, Payloads
<1>3. stored \in Docs /\ stored.username = Sent(p.username, d.username)
  BY <1>2, MergedDoc
<1>4. ~ChangesName(stored, p)
  BY <1>1, <1>3 DEF ChangesName, Sent
<1>5. Merged(stored, p) = stored
  BY <1>2 DEF Merged, Sent, Docs, DocsOf
<1> QED
  BY <1>4, <1>5 DEF Normalised

-----------------------------------------------------------------------------
\* The state has its type, and what a request in progress knows about itself.
THEOREM TypeCorrect == Spec => [](TypeOK /\ RequestInv)
<1> USE RequestsAssumption
<1>1. Init => TypeOK /\ RequestInv
  <2>1. Init => TypeOK
    BY DEF Init, TypeOK
  <2>2. Init => RequestInv
    BY DEF Init, RequestInv, Active
  <2> QED
    BY <2>1, <2>2
<1>2. TypeOK /\ RequestInv /\ [Next]_vars => TypeOK' /\ RequestInv'
  <2> SUFFICES ASSUME TypeOK, RequestInv, [Next]_vars
               PROVE  TypeOK' /\ RequestInv'
    OBVIOUS
  <2>1. CASE UNCHANGED vars
    BY <2>1 DEF TypeOK, RequestInv, Active, vars
  <2>2. ASSUME NEW r \in Requests, Call(r)
        PROVE  TypeOK' /\ RequestInv'
    <3>1. PICK o \in Ops, u \in Uids, c \in TokenClaims,
               p \in Payloads \union {None}, first \in {"read", "delete"} :
            /\ Arrive(r, o, u, c, p, first)
            /\ o = "login" => first = "read" /\ p \in LoginPayloads
            /\ o = "update" => first = "read" /\ p \in UpdatePayloads
            /\ o = "delete" => first = "delete"
      BY <2>2 DEF Call, LoginCall, UpdateCall, DeleteCall, Ops
    <3>2. TypeOK'
      BY <3>1 DEF TypeOK, Arrive, Ops
    <3>3. RequestInv'
      <4> SUFFICES ASSUME NEW q \in Active'
                   PROVE  RequestInv!(q)'
        BY DEF RequestInv
      <4>1. CASE q = r
        BY <3>1, <4>1 DEF TypeOK, Arrive, Ops
      <4>2. CASE q # r
        <5>1. q \in Active
          BY <3>1, <4>2 DEF TypeOK, Active, Arrive
        <5> QED
          BY <3>1, <4>2, <5>1 DEF TypeOK, RequestInv, Arrive, Active
      <4> QED
        BY <4>1, <4>2
    <3> QED
      BY <3>2, <3>3
  <2>3. ASSUME NEW r \in Requests, LoginGet(r)
        PROVE  TypeOK' /\ RequestInv'
    <3>1. r \in Active /\ uid[r] \in Uids /\ claims[r] \in Claims
          /\ payload[r] \in LoginPayloads
      BY <2>3 DEF LoginGet, RequestInv, Active
    <3>2. LoginBase(Stored(uid[r]), claims[r], r) \in Docs
      BY <3>1, BaseDoc DEF TypeOK, Stored
    <3> QED
      BY <2>3, <3>1, <3>2 DEF TypeOK, RequestInv, Active, LoginGet
  <2>4. ASSUME NEW r \in Requests, UpdateGet(r)
        PROVE  TypeOK' /\ RequestInv'
    <3> DEFINE base == UpdateBase(Stored(uid[r]), claims[r], r)
               next == IF ChangesName(base, payload[r]) THEN "check" ELSE "write"
    <3>1. r \in Active /\ uid[r] \in Uids /\ claims[r] \in Claims
          /\ payload[r] \in UpdatePayloads /\ op[r] = "update"
      BY <2>4 DEF UpdateGet, RequestInv, Active
    <3>2. base \in Docs
      BY <3>1, BaseDoc DEF TypeOK, Stored
    <3>3. /\ doc' = [doc EXCEPT ![r] = base]
          /\ pc' = [pc EXCEPT ![r] = next] /\ next \in {"check", "write"}
          /\ UNCHANGED <<docs, op, uid, claims, payload, status, gone, overlap>>
      BY <2>4 DEF UpdateGet
    <3> HIDE DEF base, next
    <3> QED
      BY <3>1, <3>2, <3>3 DEF TypeOK, RequestInv, Active
  <2>5. ASSUME NEW r \in Requests, CheckFree(r)
        PROVE  TypeOK' /\ RequestInv'
    <3>1. r \in Active /\ doc[r] \in Docs /\ payload[r] \in Payloads /\ op[r] = "update"
      BY <2>5 DEF CheckFree, RequestInv, Active, TypeOK, Ops
    <3>2. Normalised(doc[r], payload[r]) \in Payloads
      BY <3>1, NormalisedBody
    <3> QED
      BY <2>5, <3>1, <3>2 DEF TypeOK, RequestInv, Active, CheckFree
  <2>6. ASSUME NEW r \in Requests, NEW code \in {200, 422, 500}, Answer(r, code),
               docs' \in [Uids -> Docs \union {None}], gone' \subseteq Requests
        PROVE  TypeOK' /\ RequestInv'
    BY <2>6 DEF TypeOK, RequestInv, Active, Answer
  <2>7. ASSUME NEW r \in Requests,
               RefuseMalformed(r) \/ RefuseTaken(r) \/ CosmosFails(r)
        PROVE  TypeOK' /\ RequestInv'
    <3>1. docs' = docs /\ gone' = gone /\ \E code \in {200, 422, 500} : Answer(r, code)
      BY <2>7 DEF RefuseMalformed, RefuseTaken, CosmosFails
    <3> QED
      BY <2>6, <3>1 DEF TypeOK
  <2>8. ASSUME NEW r \in Requests, Upsert(r)
        PROVE  TypeOK' /\ RequestInv'
    <3>1. r \in Active /\ doc[r] \in Docs /\ payload[r] \in Payloads
      BY <2>8 DEF Upsert, RequestInv, Active
    <3>2. Merged(doc[r], payload[r]) \in Docs
      BY <3>1, MergedDoc
    <3>3. docs' \in [Uids -> Docs \union {None}] /\ gone' \subseteq Requests
      BY <2>8, <3>2 DEF Upsert, TypeOK
    <3> QED
      BY <2>6, <2>8, <3>3 DEF Upsert
  <2>9. ASSUME NEW r \in Requests, Delete(r)
        PROVE  TypeOK' /\ RequestInv'
    <3>1. docs' \in [Uids -> Docs \union {None}] /\ gone' \subseteq Requests
      BY <2>9 DEF Delete, TypeOK
    <3> QED
      BY <2>6, <2>9, <3>1 DEF Delete
  <2> QED
    BY <2>1, <2>2, <2>3, <2>4, <2>5, <2>7, <2>8, <2>9 DEF Next, Handle
<1> QED
  BY <1>1, <1>2, PTL DEF Spec

-----------------------------------------------------------------------------
\* A step of one request leaves what the others know about themselves and their
\* documents, when no two requests are of the same user.
LEMMA OthersKeepSnapshot ==
    ASSUME NEW q \in Requests, SnapshotOf(q),
           docs'[uid[q]] = docs[uid[q]],
           pc'[q] = pc[q], op'[q] = op[q], uid'[q] = uid[q],
           claims'[q] = claims[q], payload'[q] = payload[q], doc'[q] = doc[q]
    PROVE  SnapshotOf(q)'
BY DEF SnapshotOf, ValidatedBody

\* When requests of one user do not overlap, nothing changes between a handler's
\* get and its upsert: what it writes is based on what is stored.
LEMMA SnapshotKept ==
    ASSUME OnePerUser, TypeOK, RequestInv, TypeOK', RequestInv', SnapshotInv, [Next]_vars
    PROVE  SnapshotInv'
<1> DEFINE Same(q) == /\ pc'[q] = pc[q] /\ op'[q] = op[q] /\ uid'[q] = uid[q]
                      /\ claims'[q] = claims[q] /\ payload'[q] = payload[q]
                      /\ doc'[q] = doc[q]
\* A step of request r alone, which touches no document but that of its user.
<1>1. ASSUME NEW r \in Requests,
             \A q \in Requests : q # r => Same(q),
             \A u \in Uids : u # uid'[r] => docs'[u] = docs[u],
             r \in Active' => SnapshotOf(r)',
             r \in Active' => \A q \in Active : q # r => uid[q] # uid'[r],
             r \in Active => uid'[r] = uid[r],
             r \notin Active => docs' = docs
      PROVE  SnapshotInv'
  <2>1. ASSUME NEW q \in Active', q # r
        PROVE  q \in Active /\ uid[q] \in Uids /\ SnapshotOf(q) /\ Same(q)
    BY <1>1, <2>1 DEF SnapshotInv, RequestInv, Active
  <2>2. ASSUME NEW q \in Active', q # r
        PROVE  SnapshotOf(q)'
    <3>1. docs'[uid[q]] = docs[uid[q]]
      <4>1. CASE r \in Active
        BY <1>1, <2>1, <2>2, <4>1 DEF SnapshotInv
      <4>2. CASE r \notin Active
        BY <1>1, <4>2
      <4> QED
        BY <4>1, <4>2
    <3> QED
      BY <2>1, <2>2, <3>1, OthersKeepSnapshot DEF Active
  <2>3. \A q, s \in Active' : uid'[q] = uid'[s] => q = s
    <3> SUFFICES ASSUME NEW q \in Active', NEW s \in Active', q # s
                 PROVE  uid'[q] # uid'[s]
      OBVIOUS
    <3>1. CASE q # r /\ s # r
      BY <2>1, <3>1 DEF SnapshotInv
    <3>2. CASE q = r
      BY <1>1, <2>1, <3>2
    <3>3. CASE s = r
      BY <1>1, <2>1, <3>3
    <3> QED
      BY <3>1, <3>2, <3>3
  <2> QED
    BY <1>1, <2>2, <2>3 DEF SnapshotInv
<1>2. CASE UNCHANGED vars
  BY <1>2 DEF SnapshotInv, SnapshotOf, ValidatedBody, Active, vars
<1>3. ASSUME NEW r \in Requests, Call(r)
      PROVE  SnapshotInv'
  <2>1. PICK o \in Ops, u \in Uids, c \in TokenClaims,
             p \in Payloads \union {None}, first \in {"read", "delete"} :
          Arrive(r, o, u, c, p, first)
    BY <1>3, RequestsAssumption DEF Call, LoginCall, UpdateCall, DeleteCall, Ops
  <2>2. /\ \A q \in Requests : q # r => Same(q)
        /\ docs' = docs /\ r \notin Active
        /\ uid'[r] = u /\ pc'[r] = first
        /\ \A q \in Active : uid[q] # u
    BY <2>1 DEF Arrive, TypeOK, Active
  <2>3. SnapshotOf(r)'
    BY <2>2 DEF SnapshotOf
  <2> QED
    BY <1>1, <2>2, <2>3
<1>4. ASSUME NEW r \in Requests, LoginGet(r)
      PROVE  SnapshotInv'
  <2>1. /\ \A q \in Requests : q # r => Same(q)
        /\ docs' = docs /\ r \in Active /\ op[r] = "login" /\ op' = op
        /\ uid' = uid /\ claims' = claims /\ pc'[r] = "write"
        /\ doc'[r] = LoginBase(docs[uid[r]], claims[r], r)
    BY <1>4 DEF LoginGet, TypeOK, Active, Stored
  <2>2. SnapshotOf(r)'
    BY <2>1 DEF SnapshotOf
  <2> QED
    BY <1>1, <2>1, <2>2 DEF SnapshotInv
<1>5. ASSUME NEW r \in Requests, UpdateGet(r)
      PROVE  SnapshotInv'
  <2> DEFINE base == UpdateBase(docs[uid[r]], claims[r], r)
  <2>1. /\ \A q \in Requests : q # r => Same(q)
        /\ docs' = docs /\ r \in Active /\ op[r] = "update" /\ op' = op
        /\ uid' = uid /\ claims' = claims /\ payload' = payload
        /\ doc'[r] = base /\ payload[r] \in UpdatePayloads
        /\ pc'[r] = IF ChangesName(base, payload[r]) THEN "check" ELSE "write"
        /\ ChangesName(base, payload[r]) => NewUsername(payload[r]) \in WellFormed
    BY <1>5 DEF UpdateGet, TypeOK, RequestInv, Active, Stored
  <2> HIDE DEF base
  <2>2. pc'[r] = "write" => ValidatedBody(r)'
    BY <2>1 DEF ValidatedBody, Normalised
  <2>3. SnapshotOf(r)'
    BY <2>1, <2>2 DEF SnapshotOf, base
  <2> QED
    BY <1>1, <2>1, <2>3 DEF SnapshotInv
<1>6. ASSUME NEW r \in Requests, CheckFree(r)
      PROVE  SnapshotInv'
  <2>1. /\ \A q \in Requests : q # r => Same(q)
        /\ docs' = docs /\ r \in Active /\ op' = op /\ op[r] = "update"
        /\ uid' = uid /\ claims' = claims /\ doc' = doc
        /\ payload'[r] = Normalised(doc[r], payload[r])
        /\ pc'[r] = "write" /\ pc[r] = "check"
    BY <1>6 DEF CheckFree, TypeOK, RequestInv, Active, Ops
  <2>2. /\ doc[r] = UpdateBase(docs[uid[r]], claims[r], r)
        /\ payload[r] \in UpdatePayloads
        /\ NewUsername(payload[r]) \in WellFormed
    BY <2>1 DEF SnapshotInv, SnapshotOf
  <2>3. ValidatedBody(r)'
    BY <2>1, <2>2 DEF ValidatedBody
  <2>4. SnapshotOf(r)'
    BY <2>1, <2>2, <2>3 DEF SnapshotOf
  <2> QED
    BY <1>1, <2>1, <2>4 DEF SnapshotInv
<1>7. ASSUME NEW r \in Requests,
             \/ RefuseMalformed(r) \/ RefuseTaken(r) \/ CosmosFails(r)
             \/ Upsert(r) \/ Delete(r)
      PROVE  SnapshotInv'
  <2>1. /\ \A q \in Requests : q # r => Same(q)
        /\ uid' = uid /\ pc'[r] = "done" /\ r \in Active
    BY <1>7 DEF RefuseMalformed, RefuseTaken, CosmosFails, Upsert, Delete, Answer,
                TypeOK, Active
  <2>2. \A u \in Uids : u # uid[r] => docs'[u] = docs[u]
    BY <1>7 DEF RefuseMalformed, RefuseTaken, CosmosFails, Upsert, Delete, TypeOK
  <2> QED
    BY <1>1, <2>1, <2>2 DEF Active
<1> QED
  BY <1>2, <1>3, <1>4, <1>5, <1>6, <1>7 DEF Next, Handle

\* The abstract store computes documents with the same operators.
LEMMA SameDoc ==
    /\ Accounts!Claims = Claims
    /\ \A d, p : Accounts!Merged(d, p) = Merged(d, p)
    /\ \A d, c, r : Accounts!LoginBase(d, c, r) = LoginBase(d, c, r)
    /\ \A d, c, r : Accounts!UpdateBase(d, c, r) = UpdateBase(d, c, r)
    /\ \A d, p : Accounts!Normalised(d, p) = Normalised(d, p)
    /\ \A d, p : Accounts!ChangesName(d, p) = ChangesName(d, p)
    /\ \A p : Accounts!NewUsername(p) = NewUsername(p)
<1>1. /\ \A p : Accounts!NewUsername(p) = NewUsername(p)
      /\ \A d, p : Accounts!ChangesName(d, p) = ChangesName(d, p)
  BY DEF Accounts!NewUsername, NewUsername, Accounts!Sent, Sent,
         Accounts!ChangesName, ChangesName
<1> QED
  BY <1>1 DEF Accounts!Claims, Claims, Accounts!Merged, Merged, Accounts!Sent, Sent,
              Accounts!LoginBase, LoginBase, Accounts!UpdateBase, UpdateBase,
              Accounts!NewDoc, NewDoc, Accounts!Refreshed, Refreshed,
              Accounts!Normalised, Normalised

\* The invariant behind the two theorems about one user's document.
LEMMA SnapshotInvariant ==
    ASSUME OnePerUser
    PROVE  Spec => [](TypeOK /\ RequestInv /\ SnapshotInv)
<1>1. Init => SnapshotInv
  BY DEF Init, SnapshotInv, Active
<1>2. TypeOK /\ RequestInv /\ TypeOK' /\ RequestInv' /\ SnapshotInv /\ [Next]_vars
          => SnapshotInv'
  <2> SUFFICES ASSUME TypeOK, RequestInv, TypeOK', RequestInv', SnapshotInv, [Next]_vars
               PROVE  SnapshotInv'
    OBVIOUS
  <2> QED
    BY SnapshotKept
<1> QED
  BY <1>1, <1>2, TypeCorrect, PTL DEF Spec

\* A login or an update is merged over the document stored at the moment of its
\* upsert, and a delete removes it: one user's requests that do not overlap never
\* undo one another (core/models/user.py:42-43).
THEOREM WritesAreAtomic ==
    ASSUME OnePerUser
    PROVE  Spec => AtomicWrites
<1> USE RequestsAssumption
<1>1. Init => Accounts!Init
  BY DEF Init, Accounts!Init
<1>2. TypeOK /\ RequestInv /\ SnapshotInv /\ [Next]_vars => [Accounts!Next]_docs
  <2> SUFFICES ASSUME TypeOK, RequestInv, SnapshotInv, Next, docs' # docs
               PROVE  Accounts!Next
    BY DEF vars
  <2>1. PICK r \in Requests : Upsert(r) \/ Delete(r)
    BY DEF Next, Call, Handle, LoginCall, UpdateCall, DeleteCall, Arrive, LoginGet, UpdateGet,
           RefuseMalformed, CheckFree, RefuseTaken, CosmosFails
  <2> DEFINE u == uid[r]
  <2>2. r \in Active /\ u \in Uids /\ SnapshotOf(r)
    BY <2>1 DEF Upsert, Delete, Active, RequestInv, SnapshotInv
  <2>3. CASE Delete(r)
    <3>1. Accounts!Remove(u)
      BY <2>3 DEF Delete, Accounts!Remove
    <3> QED
      BY <2>2, <3>1 DEF Accounts!Next
  <2>4. CASE Upsert(r) /\ op[r] = "login"
    <3>1. /\ doc[r] = LoginBase(docs[u], claims[r], r)
          /\ claims[r] \in Claims /\ payload[r] \in LoginPayloads
          /\ docs' = [docs EXCEPT ![u] = Merged(doc[r], payload[r])]
      BY <2>2, <2>4 DEF Upsert, SnapshotOf, RequestInv
    <3>2. Accounts!Login(u)
      BY <3>1, SameDoc DEF Accounts!Login
    <3> QED
      BY <2>2, <3>2 DEF Accounts!Next
  <2>5. CASE Upsert(r) /\ op[r] = "update"
    <3>1. /\ doc[r] = UpdateBase(docs[u], claims[r], r)
          /\ claims[r] \in Claims /\ ValidatedBody(r)
          /\ docs' = [docs EXCEPT ![u] = Merged(doc[r], payload[r])]
      BY <2>2, <2>5 DEF Upsert, SnapshotOf, RequestInv
    <3>2. PICK p \in UpdatePayloads :
              /\ payload[r] = Normalised(doc[r], p)
              /\ ChangesName(doc[r], p) => NewUsername(p) \in WellFormed
      BY <3>1 DEF ValidatedBody
    <3>3. /\ doc[r] = Accounts!UpdateBase(docs[u], claims[r], r)
          /\ Accounts!ChangesName(doc[r], p) => Accounts!NewUsername(p) \in WellFormed
          /\ docs' = [docs EXCEPT
                 ![u] = Accounts!Merged(doc[r], Accounts!Normalised(doc[r], p))]
          /\ claims[r] \in Accounts!Claims
      BY <3>1, <3>2, SameDoc
    <3>4. Accounts!Update(u)
      BY <3>3 DEF Accounts!Update
    <3> QED
      BY <2>2, <3>4 DEF Accounts!Next
  <2> QED
    BY <2>1, <2>2, <2>3, <2>4, <2>5 DEF RequestInv, Upsert, Ops
<1> QED
  BY <1>1, <1>2, SnapshotInvariant, PTL DEF Spec, AtomicWrites, Accounts!Spec

-----------------------------------------------------------------------------
\* Creation times: an upsert keeps the stored one or brings its own, and a delete
\* only retires the one its user's document has.
LEMMA StampKept ==
    ASSUME TypeOK, RequestInv, SnapshotInv, StampInv, [Next]_vars
    PROVE  StampInv'
<1> USE RequestsAssumption
<1>1. CASE UNCHANGED vars
  BY <1>1 DEF StampInv, vars
\* Steps that write no document: a request that is done keeps its user.
<1>2. ASSUME NEW r \in Requests, docs' = docs, gone' = gone, pc[r] # "done",
             \A q \in Requests : q # r => pc'[q] = pc[q] /\ uid'[q] = uid[q]
      PROVE  StampInv'
  BY <1>2 DEF StampInv, TypeOK, Docs, DocsOf
<1>3. ASSUME NEW r \in Requests,
             \/ Call(r) \/ LoginGet(r) \/ UpdateGet(r) \/ RefuseMalformed(r)
             \/ CheckFree(r) \/ RefuseTaken(r) \/ CosmosFails(r)
      PROVE  StampInv'
  <2>1. docs' = docs /\ gone' = gone /\ pc[r] # "done"
    BY <1>3 DEF Call, LoginCall, UpdateCall, DeleteCall, Arrive, LoginGet, UpdateGet,
                RefuseMalformed, CheckFree, RefuseTaken, CosmosFails, Active
  <2>2. \A q \in Requests : q # r => pc'[q] = pc[q] /\ uid'[q] = uid[q]
    BY <1>3 DEF Call, LoginCall, UpdateCall, DeleteCall, Arrive, LoginGet, UpdateGet,
                RefuseMalformed, CheckFree, RefuseTaken, CosmosFails, Answer, TypeOK
  <2> QED
    BY <1>2, <2>1, <2>2
<1>4. ASSUME NEW r \in Requests, Upsert(r)
      PROVE  StampInv'
  <2> DEFINE u == uid[r]
             d == Merged(doc[r], payload[r])
  <2>1. /\ r \in Active /\ u \in Uids /\ claims[r] \in Claims
        /\ doc[r] \in Docs /\ payload[r] \in Payloads
        /\ pc[r] = "write" /\ op[r] \in {"login", "update"}
    BY <1>4 DEF Upsert, Active, RequestInv, Ops
  <2>2. doc[r].created_at = IF docs[u] = None THEN r ELSE docs[u].created_at
    <3>1. docs[u] \in Docs \union {None}
      BY <2>1 DEF TypeOK
    <3>2. \/ doc[r] = LoginBase(docs[u], claims[r], r)
          \/ doc[r] = UpdateBase(docs[u], claims[r], r)
      BY <2>1 DEF SnapshotInv, SnapshotOf
    <3>3. /\ LoginBase(docs[u], claims[r], r).created_at
               = IF docs[u] = None THEN r ELSE docs[u].created_at
          /\ UpdateBase(docs[u], claims[r], r).created_at
               = IF docs[u] = None THEN r ELSE docs[u].created_at
      BY <2>1, <3>1, BaseDoc
    <3> QED
      BY <3>2, <3>3
  <2>3. d.created_at = IF docs[u] = None THEN r ELSE docs[u].created_at
    BY <2>1, <2>2, MergedDoc
  <2>4. /\ docs' = [docs EXCEPT ![u] = d] /\ gone' = gone
        /\ pc' = [pc EXCEPT ![r] = "done"] /\ uid' = uid
    BY <1>4 DEF Upsert, Answer
  <2>5. r \notin gone
    BY <2>1 DEF StampInv
  <2> HIDE DEF d
  <2> QED
    BY <2>1, <2>3, <2>4, <2>5 DEF StampInv, TypeOK, Docs, DocsOf
<1>5. ASSUME NEW r \in Requests, Delete(r)
      PROVE  StampInv'
  <2> DEFINE u == uid[r]
  <2>1. r \in Active /\ u \in Uids /\ pc[r] = "delete"
    BY <1>5 DEF Delete, Active, RequestInv
  <2>2. /\ docs' = [docs EXCEPT ![u] = None]
        /\ pc' = [pc EXCEPT ![r] = "done"] /\ uid' = uid
        /\ \A s \in gone' : s \in gone \/ (docs[u] # None /\ docs[u].created_at = s)
        /\ gone' \subseteq Requests
    BY <1>5 DEF Delete, Answer, TypeOK
  <2>3. ASSUME NEW s \in gone'
        PROVE  pc'[s] = "done"
    BY <2>1, <2>2, <2>3 DEF StampInv, TypeOK
  <2>4. ASSUME NEW v \in Uids, docs'[v] # None
        PROVE  /\ pc'[docs'[v].created_at] = "done"
               /\ uid'[docs'[v].created_at] = v
               /\ docs'[v].created_at \notin gone'
    <3>1. v # u /\ docs'[v] = docs[v] /\ docs[v].created_at \in Requests
      BY <2>1, <2>2, <2>4 DEF TypeOK, Docs, DocsOf
    <3>2. docs[u] # None => docs[u].created_at # docs[v].created_at
      BY <2>1, <2>4, <3>1 DEF StampInv
    <3> QED
      BY <2>1, <2>2, <2>4, <3>1, <3>2 DEF StampInv, TypeOK
  <2> QED
    BY <2>3, <2>4 DEF StampInv
<1> QED
  BY <1>1, <1>3, <1>4, <1>5 DEF Next, Handle

\* The invariant behind it: whose creation time a document carries.
LEMMA StampInvariant ==
    ASSUME OnePerUser
    PROVE  Spec => []StampInv
<1>1. Init => StampInv
  BY DEF Init, StampInv
<1>2. TypeOK /\ RequestInv /\ SnapshotInv /\ StampInv /\ [Next]_vars => StampInv'
  BY StampKept
<1> QED
  BY <1>1, <1>2, SnapshotInvariant, PTL DEF Spec

\* A deleted account stays deleted (api/routers/user.py:87-93).
THEOREM DeletedStaysDeleted ==
    ASSUME OnePerUser
    PROVE  Spec => []NoResurrection
<1>1. StampInv => NoResurrection
  BY DEF StampInv, NoResurrection
<1> QED
  BY <1>1, StampInvariant, PTL

-----------------------------------------------------------------------------
NoLoginNames == \A p \in LoginPayloads : p.username = None

\* What an update that skips the validation leaves in the name: the stored name, or
\* a string that is no valid name.
LEMMA UnvalidatedName ==
    ASSUME NEW d \in Docs, NEW p \in Payloads, ~ChangesName(d, p),
           Merged(d, p).username \in WellFormed
    PROVE  Merged(d, p).username = d.username
<1>1. Merged(d, p).username = Sent(p.username, d.username)
  BY MergedDoc
<1>2. CASE p.username = None
  BY <1>1, <1>2 DEF Sent
<1>3. CASE p.username # None
  <2>1. p.username \in WellFormed
    BY <1>1, <1>3 DEF Sent
  <2>2. NewUsername(p) = p.username /\ p.username # NoName
    BY <1>3, <2>1, NamesAssumption DEF NewUsername, Sent
  <2> QED
    BY <1>1, <1>3, <2>2 DEF Sent, ChangesName
<1> QED
  BY <1>2, <1>3

\* While names are unique, nobody else has the name of a stored document.
LEMMA OwnNameNotTaken ==
    ASSUME TypeOK, UniqueUsernames, NEW u \in Uids, NEW name \in WellFormed,
           name = IF docs[u] = None THEN NoName ELSE docs[u].username
    PROVE  ~Taken(name, u)
BY NamesAssumption DEF UniqueUsernames, Taken

\* One request at a time: a name found free is free when it is written.
LEMMA SerialKept ==
    ASSUME NoLoginNames, TypeOK, RequestInv, TypeOK', RequestInv', SerialInv, [Next]_vars
    PROVE  SerialInv'
<1> USE RequestsAssumption
<1> SUFFICES ASSUME ~overlap', Next
             PROVE  SerialInv'
  BY DEF SerialInv, UniqueUsernames, NameOf, Taken, Active, vars
\* A step that starts or continues a request and writes no document.
<1>1. ASSUME NEW r \in Requests, docs' = docs, UniqueUsernames,
             Active' \subseteq {r},
             pc'[r] = "write" /\ NameOf(r)' \in WellFormed
                 => ~Taken(NameOf(r)', uid'[r]),
             pc'[r] = "check" => ChangesName(doc[r], payload[r])'
      PROVE  SerialInv'
  <2>1. UniqueUsernames'
    BY <1>1 DEF UniqueUsernames
  <2>2. ASSUME NEW q \in Active', pc'[q] = "write", NameOf(q)' \in WellFormed
        PROVE  ~Taken(NameOf(q), uid[q])'
    BY <1>1, <2>2 DEF Taken
  <2> QED
    BY <1>1, <2>1, <2>2 DEF SerialInv
\* A step that ends the only request.
<1>2. ASSUME Active' = {}, UniqueUsernames'
      PROVE  SerialInv'
  BY <1>2 DEF SerialInv
<1>3. ASSUME NEW r \in Requests, Call(r)
      PROVE  SerialInv'
  <2>1. PICK o \in Ops, u \in Uids, c \in TokenClaims,
             p \in Payloads \union {None}, first \in {"read", "delete"} :
          Arrive(r, o, u, c, p, first)
    BY <1>3 DEF Call, LoginCall, UpdateCall, DeleteCall, Ops
  <2>2. Active = {} /\ ~overlap /\ docs' = docs /\ pc' = [pc EXCEPT ![r] = first]
    BY <2>1 DEF Arrive
  <2>3. Active' \subseteq {r} /\ pc'[r] \in {"read", "delete"}
    BY <2>2 DEF Active, TypeOK
  <2> QED
    BY <1>1, <2>2, <2>3 DEF SerialInv
\* From here on some request is in progress, and it is the only one.
<1>4. ASSUME NEW r \in Active, overlap' = overlap
      PROVE  Active = {r} /\ UniqueUsernames
  BY <1>4 DEF SerialInv
<1>5. ASSUME NEW r \in Requests, LoginGet(r)
      PROVE  SerialInv'
  <2>1. /\ r \in Active /\ uid[r] \in Uids /\ claims[r] \in Claims
        /\ docs' = docs /\ overlap' = overlap /\ uid' = uid
        /\ payload' = payload /\ payload[r] \in LoginPayloads
        /\ pc' = [pc EXCEPT ![r] = "write"]
        /\ doc'[r] = LoginBase(docs[uid[r]], claims[r], r)
    BY <1>5 DEF LoginGet, Active, RequestInv, TypeOK, Stored
  <2>2. Active = {r} /\ UniqueUsernames
    BY <1>4, <2>1
  <2>3. docs[uid[r]] \in Docs \union {None}
    BY <2>1 DEF TypeOK
  <2>4. /\ doc'[r] \in Docs
        /\ doc'[r].username = IF docs[uid[r]] = None THEN NoName ELSE docs[uid[r]].username
    BY <2>1, <2>3, BaseDoc
  <2>5. NameOf(r)' = doc'[r].username
    BY <2>1, <2>4, MergedDoc DEF NameOf, Sent, NoLoginNames
  <2>6. NameOf(r)' \in WellFormed => ~Taken(NameOf(r)', uid[r])
    BY <2>1, <2>2, <2>4, <2>5, OwnNameNotTaken
  <2>7. Active' \subseteq {r} /\ pc'[r] = "write"
    BY <2>1, <2>2 DEF Active, TypeOK
  <2> QED
    BY <1>1, <2>1, <2>2, <2>6, <2>7
<1>6. ASSUME NEW r \in Requests, UpdateGet(r)
      PROVE  SerialInv'
  <2> DEFINE base == UpdateBase(docs[uid[r]], claims[r], r)
             next == IF ChangesName(base, payload[r]) THEN "check" ELSE "write"
  <2>1. /\ r \in Active /\ uid[r] \in Uids /\ claims[r] \in Claims
        /\ docs' = docs /\ overlap' = overlap /\ uid' = uid
        /\ payload' = payload /\ payload[r] \in Payloads
        /\ pc' = [pc EXCEPT ![r] = next]
        /\ doc'[r] = base
    BY <1>6 DEF UpdateGet, Active, RequestInv, TypeOK, Stored
  <2>2. Active = {r} /\ UniqueUsernames
    BY <1>4, <2>1
  <2>3. docs[uid[r]] \in Docs \union {None}
    BY <2>1 DEF TypeOK
  <2>4. /\ base \in Docs
        /\ base.username = IF docs[uid[r]] = None THEN NoName ELSE docs[uid[r]].username
    BY <2>1, <2>3, BaseDoc
  <2>5. next \in {"check", "write"} /\ (next = "check" <=> ChangesName(base, payload[r]))
    OBVIOUS
  <2> HIDE DEF base, next
  <2>6. Active' \subseteq {r} /\ pc'[r] = next
    BY <2>1, <2>2 DEF Active, TypeOK
  <2>7. NameOf(r)' = Merged(base, payload[r]).username
    BY <2>1 DEF NameOf
  <2>8. ASSUME next = "write", NameOf(r)' \in WellFormed
        PROVE  ~Taken(NameOf(r)', uid[r])
    <3>1. NameOf(r)' = base.username
      BY <2>1, <2>4, <2>5, <2>7, <2>8, UnvalidatedName
    <3> QED
      BY <2>1, <2>2, <2>4, <2>8, <3>1, OwnNameNotTaken
  <2> QED
    BY <1>1, <2>1, <2>2, <2>5, <2>6, <2>8
<1>7. ASSUME NEW r \in Requests, CheckFree(r)
      PROVE  SerialInv'
  <2>1. /\ r \in Active /\ pc[r] = "check" /\ doc[r] \in Docs /\ payload[r] \in Payloads
        /\ docs' = docs /\ overlap' = overlap /\ uid' = uid /\ doc' = doc
        /\ payload'[r] = Normalised(doc[r], payload[r])
        /\ pc' = [pc EXCEPT ![r] = "write"]
        /\ ~Taken(NewUsername(payload[r]), uid[r])
    BY <1>7 DEF CheckFree, Active, RequestInv, TypeOK
  <2>2. Active = {r} /\ UniqueUsernames
    BY <1>4, <2>1
  <2>3. ChangesName(doc[r], payload[r])
    BY <2>1, <2>2 DEF SerialInv
  <2>4. payload'[r] \in Payloads /\ payload'[r].username = NewUsername(payload[r])
        /\ NewUsername(payload[r]) \in Usernames
    BY <2>1, <2>3, NormalisedBody
  <2>5. NameOf(r)' = NewUsername(payload[r])
    BY <2>1, <2>4, MergedDoc, NoneAssumption DEF NameOf, Sent
  <2>6. Active' \subseteq {r} /\ pc'[r] = "write"
    BY <2>1, <2>2 DEF Active, TypeOK
  <2> QED
    BY <1>1, <2>1, <2>2, <2>5, <2>6
<1>8. ASSUME NEW r \in Requests, Upsert(r)
      PROVE  SerialInv'
  <2>1. /\ r \in Active /\ pc[r] = "write" /\ uid[r] \in Uids /\ overlap' = overlap
        /\ docs' = [docs EXCEPT ![uid[r]] = Merged(doc[r], payload[r])]
        /\ pc' = [pc EXCEPT ![r] = "done"]
    BY <1>8 DEF Upsert, Answer, Active, RequestInv
  <2>2. Active = {r} /\ UniqueUsernames
    BY <1>4, <2>1
  <2>3. Active' = {}
    BY <2>1, <2>2 DEF Active, TypeOK
  <2>4. NameOf(r) \in WellFormed => ~Taken(NameOf(r), uid[r])
    BY <2>1, <2>2 DEF SerialInv
  <2>5. \A v \in Uids : docs'[v] # None => docs'[v].username =
            IF v = uid[r] THEN NameOf(r) ELSE docs[v].username
    BY <2>1 DEF NameOf, TypeOK
  <2>6. \A v \in Uids : v # uid[r] => docs'[v] = docs[v]
    BY <2>1 DEF TypeOK
  <2>7. UniqueUsernames'
    BY <2>1, <2>2, <2>4, <2>5, <2>6 DEF UniqueUsernames, Taken
  <2> QED
    BY <1>2, <2>3, <2>7
<1>9. ASSUME NEW r \in Requests,
             Delete(r) \/ RefuseMalformed(r) \/ RefuseTaken(r) \/ CosmosFails(r)
      PROVE  SerialInv'
  <2>1. /\ r \in Active /\ overlap' = overlap /\ pc' = [pc EXCEPT ![r] = "done"]
        /\ \A v \in Uids : docs'[v] = docs[v] \/ docs'[v] = None
    BY <1>9 DEF Delete, RefuseMalformed, RefuseTaken, CosmosFails, Answer, Active, TypeOK
  <2>2. Active = {r} /\ UniqueUsernames
    BY <1>4, <2>1
  <2>3. Active' = {}
    BY <2>1, <2>2 DEF Active, TypeOK
  <2>4. UniqueUsernames'
    BY <2>1, <2>2 DEF UniqueUsernames
  <2> QED
    BY <1>2, <2>3, <2>4
<1> QED
  BY <1>3, <1>5, <1>6, <1>7, <1>8, <1>9 DEF Next, Handle

\* The invariant behind it: a name about to be written is free.
LEMMA SerialInvariant ==
    ASSUME NoLoginNames
    PROVE  Spec => []SerialInv
<1>1. Init => SerialInv
  BY DEF Init, SerialInv, UniqueUsernames, Active
<1>2. TypeOK /\ RequestInv /\ TypeOK' /\ RequestInv' /\ SerialInv /\ [Next]_vars
          => SerialInv'
  <2> SUFFICES ASSUME TypeOK, RequestInv, TypeOK', RequestInv', SerialInv, [Next]_vars
               PROVE  SerialInv'
    OBVIOUS
  <2> QED
    BY SerialKept
<1> QED
  BY <1>1, <1>2, TypeCorrect, PTL DEF Spec

\* Usernames stay unique while requests are handled one at a time and no client
\* sends a name with login (api/routers/user.py:77-83, 132-133).
THEOREM SerialUsernamesUnique ==
    ASSUME NoLoginNames
    PROVE  Spec => []UniqueUnlessOverlapping
<1>1. SerialInv => UniqueUnlessOverlapping
  BY DEF SerialInv, UniqueUnlessOverlapping
<1> QED
  BY <1>1, SerialInvariant, PTL

-----------------------------------------------------------------------------
\* What a handler read of its user is what the container still holds when it writes,
\* and the name it writes is free: the reasons for all of the above, together
\* (api/routers/user.py:39-93).
THEOREM AccountsInvariant ==
    ASSUME OnePerUser, NoLoginNames
    PROVE  Spec => []AccountsInv
<1>1. RequestInv /\ SnapshotInv /\ StampInv /\ SerialInv => AccountsInv
  BY DEF AccountsInv
<1> QED
  BY <1>1, SnapshotInvariant, StampInvariant, SerialInvariant, PTL
=============================================================================
