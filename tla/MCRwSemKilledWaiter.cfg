CONSTANTS
    Tasks = {t1, t2, t3}
    NoTask = NoTask
    ActiveMask = 15
    WriteStates = {"uninterruptible", "killable"}
    MaxKilled = 1
SPECIFICATION Spec
SYMMETRY Symmetry
INVARIANTS NoLostWakeUp
