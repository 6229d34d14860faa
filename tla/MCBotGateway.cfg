SPECIFICATION FairSpec
CONSTANTS
    Conns = {c1, c2}
    None = None
    Cap = 2
    TTL = 0
    Grace = 0
    MaxSeq = 4
    MaxStreams = 2
INVARIANT LastAttachedServes
PROPERTIES
    
    AbandonedDetached
