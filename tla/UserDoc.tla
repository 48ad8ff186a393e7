------------------------------ MODULE UserDoc ------------------------------
(***************************************************************************)
(* The user document and what the handlers compute from it, without any    *)
(* storage (core/models/user.py and the pure parts of api/routers/user.py).*)
(*                                                                         *)
(* username is kept apart because it is normalised, validated and meant to *)
(* be unique; email and verified because login refreshes them from the     *)
(* identity token; profile stands for all the other fields, which are only *)
(* ever created, merged and returned.  created_at is the stamp of the      *)
(* request that made the document.                                         *)
(***************************************************************************)
CONSTANTS Usernames,   \* every string a client may send as a username
          NoName,      \* "", the username of a new document
          Canon,       \* Canon[n]: n.strip().lower()
          WellFormed,  \* the names USERNAME_RE and USERNAME_MAX_LENGTH accept
          Emails,
          NoEmail,     \* "", when the token has no email claim
          Profiles,
          None         \* a field the client left out, or no document

ASSUME NamesAssumption ==
    /\ NoName \in Usernames /\ WellFormed \subseteq Usernames
    /\ Canon \in [Usernames -> Usernames]
    /\ NoName \notin WellFormed
    /\ \A n \in WellFormed : Canon[n] = n
    /\ Canon[NoName] = NoName

ASSUME NoneAssumption ==
    /\ None \notin Usernames /\ None \notin Emails
    /\ None \notin Profiles /\ None \notin BOOLEAN
    /\ NoEmail \in Emails

Claims == [email : Emails, verified : BOOLEAN, profile : Profiles]

\* UserUpdate: every field optional.
Payloads == [username : Usernames \union {None}, profile : Profiles \union {None},
             email : Emails \union {None}, verified : BOOLEAN \union {None}]

\* UserDoc, with Stamps for the times of creation.
DocsOf(Stamps) == [username : Usernames, profile : Profiles, email : Emails,
                   verified : BOOLEAN, created_at : Stamps]

\* UserDoc.new: the claims, no username, created now.
NewDoc(claims, stamp) ==
    [username |-> NoName, profile |-> claims.profile, email |-> claims.email,
     verified |-> claims.verified, created_at |-> stamp]

\* login on a known user: an empty email claim does not erase the stored one.
Refreshed(doc, claims) ==
    [doc EXCEPT !.email = IF claims.email = NoEmail THEN @ ELSE claims.email,
                !.verified = claims.verified]

\* UserDoc.merged: a field that was sent, even the empty string, replaces the
\* stored one; created_at cannot be sent.
Sent(new, old) == IF new = None THEN old ELSE new

Merged(doc, payload) ==
    [doc EXCEPT !.username = Sent(payload.username, @),
                !.profile  = Sent(payload.profile, @),
                !.email    = Sent(payload.email, @),
                !.verified = Sent(payload.verified, @)]

\* update: (payload.username or "").strip().lower()
NewUsername(payload) == Canon[Sent(payload.username, NoName)]

\* update validates and normalises only a name that is not already the user's.
ChangesName(doc, payload) == /\ NewUsername(payload) # NoName
                             /\ NewUsername(payload) # doc.username

Normalised(doc, payload) ==
    IF ChangesName(doc, payload)
    THEN [payload EXCEPT !.username = NewUsername(payload)]
    ELSE payload

\* The document a handler goes on with after repo.get returned stored.
LoginBase(stored, claims, stamp) ==
    IF stored = None THEN NewDoc(claims, stamp) ELSE Refreshed(stored, claims)

UpdateBase(stored, claims, stamp) ==
    IF stored = None THEN NewDoc(claims, stamp) ELSE stored
=============================================================================
