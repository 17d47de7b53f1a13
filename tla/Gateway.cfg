SPECIFICATION GatewaySpec
CONSTANTS
    owner = owner
    ana = ana
    bo = bo
    c1 = c1
    c2 = c2
    r1 = r1
    r2 = r2
    Emails = {owner, ana, bo}
    InitialRoles <- MCInitialRoles
    GroupNames = {"security-approvers", "unconfigured"}
    InitialGroups <- MCInitialGroups
    AssignableRoles = {"viewer"}
    GroupConfigs <- MCGroupConfigs
    Calls = {c1, c2}
    Requests = {r1, r2}
    Contents = {"content"}
    Withdrawn = "withdrawn"
    NoContent = "none"
    Loads <- MCLoads
    PlansUnder <- MCPlansUnder
    Switches = {"enforce_tool_allowlist", "enforce_operation_allowlist",
                "block_manifest_hash_mismatch", "require_registered_server",
                "require_verified_provenance", "require_scope_subset",
                "block_secret_to_untrusted", "approval_for_untrusted_influence",
                "block_untrusted_write", "repair_to_read_only"}
SYMMETRY Symmetry
INVARIANTS
    GatewayTypeOK
    StatusMatchesRegistry
    ReplyNamesServer
    FlowsContained
    RepairConverges
    InfluenceEscalates
PROPERTIES
    ImplementsGovernedActivation
CHECK_DEADLOCK FALSE
