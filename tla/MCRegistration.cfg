SPECIFICATION Spec
CONSTANTS
    c1 = c1
    r1 = r1
    n1 = n1
    n2 = n2
    None = None
    Local = {c1}
    Remote = {r1}
    IPv6 = {c1, r1}
    ULines = {}
    Tiers = {"cidr48", "cidr32"}
    Nets = {n1, n2}
    NetOf <- Networks
    Limit <- WideLimit
    Sasl = {c1}
    Checked = {c1}
    Excusable = {c1}
    Settings <- TwoSettings
    MaxClients = 1
    MaxAsked = 1
    MaxChanges = 2
INVARIANTS BucketsExact ClassCountExact
PROPERTIES HandshakeDecided ImplementsConnThrottle
