\* Requests of one user may overlap (two devices, or a client that retries
\* before it has its answer).
CONSTANTS
    u1 = u1
    u2 = u2
    r1 = r1
    r2 = r2
    r3 = r3
    None = None
    NoName = ""
    NoEmail = ""
    Usernames <- MCUsernames
    Canon <- MCCanon
    WellFormed <- MCWellFormed
    Emails = {"a@x", ""}
    Profiles = {"token", "edited"}
    Requests = {r1, r2, r3}
    Uids = {u1}
    LoginPayloads <- MCLoginPayloads
    UpdatePayloads <- MCUpdatePayloads
    TokenClaims <- MCClaims
    OnePerUser = FALSE
SPECIFICATION Spec
CHECK_DEADLOCK FALSE
PROPERTIES
    AtomicWrites
