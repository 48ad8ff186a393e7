\* Three requests, with every mix of headers, reach a cold container at once.
CONSTANTS
    None = None
    Threads = {t1, t2, t3}
SPECIFICATION FairSpec
CHECK_DEADLOCK FALSE
INVARIANTS
    AuthInv
    RegistersOnce
    AnswersFit
PROPERTIES
    EveryRequestAnswered
