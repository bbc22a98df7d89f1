CONSTANTS
    Updaters = {u1, u2, u3}
    Readers = {r1, r2, r3}
SPECIFICATION FairSpec
INVARIANTS NoBug FastPathsEnded
PROPERTIES GracePeriodAfterExit FastPathsReturn
CHECK_DEADLOCK FALSE
