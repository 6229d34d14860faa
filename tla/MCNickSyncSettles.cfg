SPECIFICATION FairSpec
CONSTANTS
    sa = sa
    sb = sb
    sc = sc
    u1 = u1
    u2 = u2
    u3 = u3
    n1 = n1
    n2 = n2
    Servers = {sa, sb, sc}
    Users = {u1, u3}
    Nicks = {n1, n2}
    Times = {1, 2}
    Home <- HomeEnds
    UserHost <- AllDiffer
    Dials <- Line
    Linked <- Line
    Inputs = {"quit", "kill"}
    MaxRenames = 0
    None = None
INVARIANTS AtHome
PROPERTIES Settles
CHECK_DEADLOCK FALSE
