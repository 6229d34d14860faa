SPECIFICATION Spec
CONSTANTS
    sa = sa
    sb = sb
    sc = sc
    u1 = u1
    u2 = u2
    u3 = u3
    n1 = n1
    n2 = n2
    Servers = {sa, sb, sc}
    Users = {u1, u2, u3}
    Nicks = {n1, n2}
    Times = {1, 2}
    Home <- HomeEach
    UserHost <- SamePerson
    Dials <- Line
    Linked <- FirstLink
    Inputs = {"rename"}
    MaxRenames = 1
    None = None
INVARIANTS NickUnique QuietAgreement GhostKillIsEcho
PROPERTIES OnlyLosersKilled
CHECK_DEADLOCK FALSE
