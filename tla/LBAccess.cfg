CONSTANTS
    Services = {s1, s2}
    Nodes = {n1, n2}
    Rules = {p1, p2}
    UserFIPs = {f1, f2}
    PoolFIPs = {f3}
    Taken = {f2}
    LBOf <- MCLBOf
    NodeChoices <- MCNodeChoices
    SpecChoices <- MCSpecChoices
    ManageChoices = {TRUE, FALSE}
    FloatingNetwork = TRUE
    None = None
    s1 = s1 s2 = s2 n1 = n1 n2 = n2 p1 = p1 p2 = p2 f1 = f1 f2 = f2 f3 = f3
    MaxEvents = 2
SPECIFICATION MCSpec
INVARIANTS FloatingIPsRight GroupsRight
CHECK_DEADLOCK FALSE
