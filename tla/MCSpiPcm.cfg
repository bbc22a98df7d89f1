CONSTANTS
    FrameBuf = 2
    BufferSizes = {3, 6}
    SizeModulus = 64
    MaxFlushed = 1
SPECIFICATION FairSpec
INVARIANTS WritesInsideLiveBuffer 
PROPERTIES ChunksFollow FlushReturns
