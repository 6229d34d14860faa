SPECIFICATION Spec
CONSTANTS
    sa = sa
    sb = sb
    sc = sc
    u1 = u1
    u2 = u2
    u3 = u3
    Servers = {sa, sb, sc}
    Users = {u1, u2, u3}
    Home <- HomeEach
    Hop <- HopLine
    Dials <- Line
    StartLinked = FALSE
    Times = {1, 2}
    Modes = {"n"}
    Limits = {}
    OnJoin = {"n"}
    Inputs = {}
    MaxJoins = 2
    MaxChanges = 0
    MaxSplits = 0
    None = None
SYMMETRY Ends
INVARIANTS StatusEarned StatusAgrees ModesAgree
CHECK_DEADLOCK FALSE
