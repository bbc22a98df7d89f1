CONSTANTS
    Readers = {r1, r2}
    NCPUS = 2
    Syncers = {s1}
    Callbacks = {h1}
    Work = Work
    Modulus = 3
    CallbackBatch = 1
    NoCPU = NoCPU
SPECIFICATION Spec
SYMMETRY Symmetry
INVARIANTS GracePeriod OneOwner StealerFindsOwnHead BarrierCovers FewLateReaders
