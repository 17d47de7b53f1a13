-------------------------------- MODULE Rbac --------------------------------
(***************************************************************************)
(* The members of one workspace, their roles, and its approval groups:     *)
(* services/members.py and services/approval_groups.py over the tables     *)
(* workspace_members and approval_groups.  Every store call is one locked  *)
(* transaction, so a read or an upsert is one step; the services that use  *)
(* these operators take several steps per operation.                       *)
(*                                                                         *)
(* E-mail addresses are compared in lower case everywhere in the code, so  *)
(* a member of Emails stands for a whole class of spellings.               *)
(***************************************************************************)
EXTENDS Integers, FiniteSets

CONSTANTS
    Emails,             \* the addresses a caller may act under
    InitialRoles,       \* who is a member when the model starts, and as what
    GroupNames,         \* the approval-group names a request may carry
    InitialGroups,      \* the groups configured when the model starts
    AssignableRoles,    \* the roles an administrator hands out in the model
    GroupConfigs        \* the configurations an operator gives a group

VARIABLES
    roles,              \* workspace_members.role, NoRole for a non-member
    groups              \* approval_groups rows, NoGroup where there is none

rbacVars == <<roles, groups>>

NoRole == "no member"

VALID_ROLES ==
    {"owner", "admin", "security_analyst", "approver", "developer", "viewer"}

Capabilities ==
    {"workspace.manage", "members.manage", "policies.manage",
     "approvals.resolve", "incidents.manage", "mcp.manage", "agents.manage",
     "read"}

ROLE_CAPABILITIES ==
    [role \in VALID_ROLES |->
        CASE role = "owner"            -> Capabilities
          [] role = "admin"            -> Capabilities \ {"workspace.manage"}
          [] role = "security_analyst" ->
                {"policies.manage", "approvals.resolve", "incidents.manage",
                 "mcp.manage", "read"}
          [] role = "approver"         -> {"approvals.resolve", "read"}
          [] role = "developer"        -> {"agents.manage", "read"}
          [] role = "viewer"           -> {"read"}]

\* A row of approval_groups: the roles and the named members it admits, and
\* how many approvals it asks for.
Group == [roles : SUBSET VALID_ROLES, members : SUBSET Emails, min : Nat \ {0}]

NoGroup == [roles |-> {}, members |-> {}, min |-> 0]

ASSUME RbacAssumption ==
    /\ NoRole \notin VALID_ROLES
    /\ InitialRoles \in [Emails -> VALID_ROLES \cup {NoRole}]
    /\ InitialGroups \in [GroupNames -> Group \cup {NoGroup}]
    /\ AssignableRoles \subseteq VALID_ROLES
    /\ GroupConfigs \subseteq Group

RbacTypeOK ==
    /\ roles \in [Emails -> VALID_ROLES \cup {NoRole}]
    /\ groups \in [GroupNames -> Group \cup {NoGroup}]

RbacInit ==
    /\ roles = InitialRoles
    /\ groups = InitialGroups

-----------------------------------------------------------------------------
(* What the services read.                                                 *)

\* MemberService.can: a non-member can do nothing.
Can(email, capability) ==
    /\ roles[email] # NoRole
    /\ capability \in ROLE_CAPABILITIES[roles[email]]

\* ApprovalGroupService.permits: a group that does not exist leaves the
\* decision to the capability; a named member is admitted whatever its role.
Permits(g, email) ==
    IF groups[g] = NoGroup
    THEN Can(email, "approvals.resolve")
    ELSE \/ email \in groups[g].members
         \/ /\ roles[email] \in groups[g].roles
            /\ Can(email, "approvals.resolve")

\* The threshold a request under g has now: min_approvals, or 1 without a group.
RequiredApprovals(g) == IF groups[g] = NoGroup THEN 1 ELSE groups[g].min

-----------------------------------------------------------------------------
(* What changes them.                                                      *)

\* POST /members by a principal with members.manage; the upsert both admits
\* a new member and changes the role of one.  No operation removes a member.
SetRole(by, email, role) ==
    /\ Can(by, "members.manage")
    /\ roles' = [roles EXCEPT ![email] = role]
    /\ UNCHANGED groups

\* ApprovalGroupService.upsert.  No HTTP route calls it after the workspace
\* was created: it is an operator's call.
UpsertGroup(g, config) ==
    /\ groups' = [groups EXCEPT ![g] = config]
    /\ UNCHANGED roles

=============================================================================
