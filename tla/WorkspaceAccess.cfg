SPECIFICATION Spec
CONSTANTS
    r1 = r1
    r2 = r2
    k0 = k0
    k1 = k1
    k2 = k2
    owner = owner
    member = member
    kidA = kidA
    kidB = kidB
    site1 = site1
    site2 = site2
    Verifiers = {r1, r2}
    Kids = {kidA, kidB}
    Sites = {site1, site2}
    FirstSite = site1
    CacheSeconds = 1
    MaxStall = 1
    MaxClock = 3
    Requests = {r1, r2}
    Keys = {k0, k1, k2}
    FirstKey = k0
    Sessions = {"s1"}
    Ttl = 1
    OwnerEmail = owner
    Emails = {owner, member}
    InitialRoles <- MCRoles
    GroupNames = {"security-approvers", "finance-approvers"}
    InitialGroups <- MCGroups
    AssignableRoles = {"admin", "developer"}
    GroupConfigs = {}
    Loads <- MCLoads
SYMMETRY Symmetry
INVARIANTS
    TypeOK
    CredentialCurrent
    WorkspaceReachable
    WithdrawnKeyExpires
    NewKeyHonoured
CHECK_DEADLOCK FALSE
