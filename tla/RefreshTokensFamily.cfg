SPECIFICATION Spec
CONSTANTS
    r1 = r1  r2 = r2  r3 = r3  r4 = r4
    c1 = c1  c2 = c2
    all = all  read = read  write = write
    Clients = {c1}
    Scopes = {read}
    Satisfies <- WildcardSatisfies
    Registrations <- OptOutOrDisable
    Requests = {r1, r2, r3, r4}
SYMMETRY RequestSymmetry
CHECK_DEADLOCK FALSE
INVARIANTS
    TypeOK
    OneActivePerFamily
    RotatedAtMostOnce
    SelectedRowsRevoked
    RacersCutEachOtherOff
    DeadlocksAreOfRevocations
