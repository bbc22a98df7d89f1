CONSTANTS
    Waiters = {t1, t2}
    Completers = {c1}
    Nobody = Nobody
    Modulus = 16
    MaxCalls = 2
    MaxWaits = 3
SPECIFICATION FairSpec
INVARIANTS NoStrandedEvent FreedIsUnused
PROPERTY AllAreReleased
CHECK_DEADLOCK FALSE
