CONSTANTS
    Conns = {c1, c2}
    Accounts = {alice}
    Chans = {room}
    Watched = {room}
    PERSIST_MAX_SESSIONS = 1
    persist_default_on = TRUE
    Inputs = {"off", "expire"}
    None = None
SPECIFICATION Spec
SYMMETRY Symmetry
PROPERTIES
    CleanupSparesSessions
