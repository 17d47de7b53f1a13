SPECIFICATION Spec
CONSTANTS
    owner = owner
    ana = ana
    bo = bo
    c1 = c1
    c2 = c2
    r1 = r1
    b1 = b1
    b2 = b2
    NoBundle = NoBundle
    Emails = {owner, ana, bo}
    Calls = {c1, c2}
    Requests = {r1}
    Bundles = {b1, b2}
    GroupNames = {"security-approvers", "unconfigured"}
    InitialRoles <- MCInitialRoles
    InitialGroups <- MCInitialGroups
    AssignableRoles = {"viewer"}
    GroupConfigs <- MCGroupConfigs
    MaxChanges = 1
    MaxVotes = 4
    Deployments <- MCDeployments
SYMMETRY Symmetry
INVARIANTS
    TypeOK
    QuorumNotStranded
    ActivatedWasBound
    ServedPolicyGoverned
PROPERTIES
    RejectionBarsNewVotes
    ImplementsGovernedActivation
CHECK_DEADLOCK FALSE
