CONSTANTS
    r1 = r1  r2 = r2  r3 = r3
    t1 = t1  t2 = t2
    lens = lens  market = market  admin = admin  all = all
    Requests = {r1, r2, r3}
    Subjects = {"user"}
    Tenants = {t1, t2}
    Versions = {1, 2}
    Scopes = {market, admin}
    Satisfies <- MCSatisfies
    Delegable = {market}
    Delegate = lens
    Modes = {"database", "hybrid", "environment"}
    EnvironmentScopes = {lens, market}
    Registrations <- Rows
    MaxChanges = 2
    NoTenant = NoTenant
SPECIFICATION Spec
SYMMETRY GateSymmetry
INVARIANTS TypeOK BlockedIsRejected DisabledIsRejected DelegatedReadsOnly
CHECK_DEADLOCK FALSE
