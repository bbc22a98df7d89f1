CONSTANTS
    CPUs = {c1, c2, c3}
    Locks = {l1, l2}
    None = None
SPECIFICATION FairSpec
INVARIANT UnlinkTargetsStable
PROPERTIES Refines CallsReturn
