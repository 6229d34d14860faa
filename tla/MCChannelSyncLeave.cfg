SPECIFICATION Spec
CONSTANTS
    sa = sa
    sb = sb
    sc = sc
    u1 = u1
    u2 = u2
    u3 = u3
    Servers = {sa, sb, sc}
    Users = {u1, u3}
    Home <- HomeEnds
    Hop <- HopLine
    Dials <- Line
    StartLinked = TRUE
    Times = {1, 2}
    Modes = {}
    Limits = {}
    OnJoin = {}
    Inputs = {"part", "quit", "split", "kick", "mode"}
    MaxJoins = 2
    MaxChanges = 1
    MaxSplits = 1
    None = None
SYMMETRY Ends
INVARIANTS NoEmptyChannel MembersKnown MembersAgree
PROPERTY TSNeverNewer
CHECK_DEADLOCK FALSE
