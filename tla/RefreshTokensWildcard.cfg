SPECIFICATION Spec
CONSTANTS
    r1 = r1  r2 = r2  r3 = r3  r4 = r4
    c1 = c1  c2 = c2
    all = all  read = read  write = write
    Clients = {c1}
    Scopes = {all, read}
    Satisfies <- WildcardSatisfies
    Registrations <- WildcardRegistration
    Requests = {r1, r2}
SYMMETRY RequestSymmetry
CHECK_DEADLOCK FALSE
INVARIANTS
    CutOffOnlyWithoutGrants
