CONSTANTS
    Updaters = {w1}
    Readers = {r1, r2}
    CPUs = {c1, c2}
    Modulus = 5
    NoCPU = NoCPU
    NoWriter = NoWriter
SPECIFICATION PFairSpec
INVARIANTS WriterAlone SumIsReaders WriterWillBeWoken
PROPERTY WriterGetsIn
