CONSTANTS
    Tasks = {t1, t2}
    NoTask = NoTask
    LockStates = {"uninterruptible", "interruptible"}
    MaxBelow = 3
SPECIFICATION FairSpec
INVARIANTS MutualExclusion NoLostWakeUp
 
