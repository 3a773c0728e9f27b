SPECIFICATION InOrderFairSpec
CONSTANTS
    r1 = 1  r2 = 2  r3 = 3  r4 = 4  u1 = u1  u2 = u2
    Users = {u1}
    Requests = {1, 2, 3, 4}
    Never = Never
    AtIssue = AtIssue
    NoUser = NoUser
CHECK_DEADLOCK FALSE
PROPERTIES
    EveryOperationEnds
