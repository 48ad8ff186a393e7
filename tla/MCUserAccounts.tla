--------------------------- MODULE MCUserAccounts ---------------------------
(***************************************************************************)
(* Small instances of UserAccounts for TLC.  "ana" is a valid name, "Ana"  *)
(* is "ana" before strip().lower(), "a b" is no valid name.                *)
(***************************************************************************)
EXTENDS UserAccounts, TLC

CONSTANTS u1, u2, r1, r2, r3

MCUsernames == {"", "ana", "Ana", "a b"}
MCCanon == [n \in MCUsernames |-> IF n = "Ana" THEN "ana" ELSE n]
MCWellFormed == {"ana"}

Body(name, profile) ==
    [username |-> name, profile |-> profile, email |-> None, verified |-> None]

\* The app sends a display name on login, and a name and a profile on update.
MCLoginPayloads == {Body(None, None), Body(None, "edited")}
MCUpdatePayloads == {Body("ana", None), Body("Ana", "edited"), Body("a b", None),
                     Body(None, "edited"), Body("", None)}
MCClaims == {[email |-> "a@x", verified |-> FALSE, profile |-> "token"],
             [email |-> "", verified |-> TRUE, profile |-> "token"]}

MCSymmetry == Permutations(Requests) \union Permutations(Uids)
=============================================================================
