CONSTANTS
    Tasks = {t1, t2, t3}
    InitCount = 1
    MaxExtraUps = 1
SPECIFICATION FairSpec
INVARIANTS UnitsConserved NoWaitWhileFree
PROPERTY DownReturns
