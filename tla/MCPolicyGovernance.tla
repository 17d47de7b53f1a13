------------------------- MODULE MCPolicyGovernance -------------------------
(* One workspace for TLC: a requester and two approvers, the group a new     *)
(* workspace gets with its threshold raised to two, and a group name nobody  *)
(* has configured.                                                           *)
EXTENDS PolicyGovernance, TLC

CONSTANTS owner, ana, bo, c1, c2, r1, b1, b2

MCInitialRoles == owner :> "owner" @@ ana :> "approver" @@ bo :> "approver"

SecurityApprovers(n) ==
    [roles |-> {"owner", "admin", "security_analyst", "approver"},
     members |-> {owner}, min |-> n]

MCInitialGroups ==
    "security-approvers" :> SecurityApprovers(2) @@ "unconfigured" :> NoGroup

MCGroupConfigs == {SecurityApprovers(1)}

\* A governed deployment with four eyes, and a development one without either.
MCDeployments == {[requireApproval |-> TRUE, fourEyes |-> TRUE],
                  [requireApproval |-> FALSE, fourEyes |-> FALSE]}

\* The two approvers differ in nothing, and neither do the calls and the bundles.
Symmetry == Permutations({c1, c2})
                \cup Permutations({b1, b2}) \cup Permutations({ana, bo})
=============================================================================
