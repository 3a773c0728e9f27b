SPECIFICATION InOrderSpec
CONSTANTS
    r1 = r1  r2 = r2  r3 = r3  r4 = r4
    c1 = c1  c2 = c2
    all = all  read = read  write = write
    Clients = {c1, c2}
    Scopes = {read, write}
    Satisfies <- WildcardSatisfies
    Registrations <- ChangingGrants
    Requests = {1, 2, 3}
CHECK_DEADLOCK FALSE
INVARIANTS
    FamilyNeverGains
    OnlyOwnerRotates
PROPERTIES
    HistoryIsKept
    ImplementsFamilies
