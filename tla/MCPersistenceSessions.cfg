CONSTANTS
    Conns = {c1, c2}
    Accounts = {alice}
    Chans = {room}
    Watched = {room}
    PERSIST_MAX_SESSIONS = 1
    persist_default_on = TRUE
    Inputs = {"parallel", "squat", "logout", "default", "on", "off", "nick", "kick", "remotekick", "expire", "erase"}
    None = None
SPECIFICATION Spec
SYMMETRY Symmetry
INVARIANTS
    SessionsListLive
    ShadowsAreSessions
    NoFreedClients
