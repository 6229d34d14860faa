CONSTANTS
    Conns = {c1, c2}
    Accounts = {alice}
    Chans = {room}
    Watched = {}
    PERSIST_MAX_SESSIONS = 2
    persist_default_on = TRUE
    Inputs = {"identify", "kick", "expire", "save", "restart", "crash"}
    None = None
SPECIFICATION FairSpec
INVARIANTS
    NickHashUnique
    
    
    
PROPERTIES
    
    GhostSurvivesRestart
    GhostsExpire
