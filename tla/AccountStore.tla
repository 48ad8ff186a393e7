---------------------------- MODULE AccountStore ----------------------------
(***************************************************************************)
(* What the account endpoints promise about the users container, request   *)
(* by request and without interleaving: a login or an update is merged     *)
(* over the document that is stored at that moment (core/models/user.py,   *)
(* UserUpdate), and a delete removes it.  UserAccounts implements this     *)
(* when no two requests of one user overlap, and not otherwise.            *)
(***************************************************************************)
EXTENDS UserDoc

CONSTANTS Uids,            \* the users
          Stamps,          \* times of creation
          LoginPayloads,   \* what clients send with POST /user/login
          UpdatePayloads   \* what clients send with PUT /user/update

VARIABLE docs              \* docs[u]: the stored document of u, or None

Init == docs = [u \in Uids |-> None]

Login(u) == \E claims \in Claims, payload \in LoginPayloads, stamp \in Stamps :
    docs' = [docs EXCEPT ![u] = Merged(LoginBase(@, claims, stamp), payload)]

Update(u) == \E claims \in Claims, payload \in UpdatePayloads, stamp \in Stamps :
    LET base == UpdateBase(docs[u], claims, stamp)
    IN  /\ ChangesName(base, payload) => NewUsername(payload) \in WellFormed
        /\ docs' = [docs EXCEPT ![u] = Merged(base, Normalised(base, payload))]

Remove(u) == docs' = [docs EXCEPT ![u] = None]

Next == \E u \in Uids : Login(u) \/ Update(u) \/ Remove(u)

Spec == Init /\ [][Next]_docs
=============================================================================
