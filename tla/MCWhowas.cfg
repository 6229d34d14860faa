CONSTANTS
    c1 = c1
    c2 = c2
    n1 = n1
    n2 = n2
    n3 = n3
    b1 = b1
    b2 = b2
    Clients = {c1, c2}
    Remote = {c2}
    Nicks = {n1, n2, n3}
    Buckets = {b1, b2}
    HashOf <- MCHashOf
    NICKNAMEHISTORYLENGTH = 3
    KILLCHASETIMELIMIT = 1
    MaxTime = 2
    NoClient = NoClient
    NoNick = NoNick
SPECIFICATION Spec
INVARIANTS ListsMatchPointers NoStalePointers ChaseFindsLastHolder
