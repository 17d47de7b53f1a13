-------------------------- MODULE MCWorkspaceAccess --------------------------
EXTENDS WorkspaceAccess, TLC

CONSTANTS r1, r2, k0, k1, k2, owner, member, kidA, kidB, site1, site2

MCRoles == [e \in Emails |-> NoRole]
MCGroups == [g \in GroupNames |-> NoGroup]

MCLoad(legacy, requests, ticks, changes, auths, operations, actors, uses) ==
    [legacy |-> legacy, requests |-> requests, ticks |-> ticks, changes |-> changes,
     auths |-> auths, operations |-> operations, actors |-> actors, uses |-> uses]

\* Keys rotated and revoked; members and sessions; tokens of a provider that
\* changes once or twice.
MCLoads ==
    {MCLoad(FALSE, 4, 0, 0, {"header"}, {"rotate", "revoke"}, {owner, member}, {}),
     MCLoad(TRUE, 3, 0, 0, {"header"}, {"rotate", "revoke"}, {owner}, {}),
     MCLoad(FALSE, 4, 1, 1, {"header", "session"}, {"issue", "member", "use"},
            {owner, member}, {"agents.manage"}),
     MCLoad(FALSE, 3, 3, 1, {"oidc"}, {"use"}, {owner}, {"read"}),
     MCLoad(FALSE, 2, 1, 2, {"oidc"}, {"use"}, {owner}, {"read"})}

Symmetry == Permutations({r1, r2}) \cup Permutations({k1, k2}) \cup Permutations({kidA, kidB})
==============================================================================
