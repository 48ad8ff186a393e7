\* Requests of different users overlap, those of one user do not.
CONSTANTS
    u1 = u1
    u2 = u2
    r1 = r1
    r2 = r2
    r3 = r3
    None = None
    NoName = ""
    NoEmail = ""
    Usernames <- MCUsernames
    Canon <- MCCanon
    WellFormed <- MCWellFormed
    Emails = {"a@x", ""}
    Profiles = {"token", "edited"}
    Requests = {r1, r2, r3}
    Uids = {u1, u2}
    LoginPayloads <- MCLoginPayloads
    UpdatePayloads <- MCUpdatePayloads
    TokenClaims <- MCClaims
    OnePerUser = TRUE
SPECIFICATION Spec
SYMMETRY MCSymmetry
CHECK_DEADLOCK FALSE
INVARIANTS
    UniqueUsernames
