--------------------------- MODULE WorkspaceAccess ---------------------------
(***************************************************************************)
(* Who may do what in one workspace: workspaces.py (creation, API keys),   *)
(* sessions.py, members.py, and the guards _workspace_match and _principal *)
(* of main.py before every protected operation. A bearer token of another  *)
(* issuer goes to FederatedIdentity.                                       *)
(*                                                                         *)
(* at[r].pc says where the request r is: arrived, keyed (its API key was   *)
(* authenticated), federated (its token is being verified), verified (its  *)
(* actor is known), authorized (the actor has the capability), chosen (a   *)
(* revocation that found another key active, or needs none).               *)
(* A request that is refused ends and changes nothing. The entry that the  *)
(* issue of a session appends to the ledger is AuditLedger's.              *)
(***************************************************************************)
EXTENDS Rbac, FederatedIdentity

CONSTANTS
    Requests,           \* handlers; each verifies its own token
    Keys,               \* API keys, a row of workspace_keys each
    FirstKey,           \* the key the workspace is created with
    Sessions,           \* member sessions, a row of member_sessions each
    Ttl,                \* the lifetime of a session
    OwnerEmail,         \* the owner named at the creation
    Loads               \* bound: what happens in a behaviour

AuthKinds == {"header", "session", "oidc"}
OperationKinds == {"rotate", "revoke", "member", "issue", "use"}

\* legacy: the workspace is older than workspace_keys.
Load == [legacy : BOOLEAN, requests : Nat, ticks : Nat, changes : Nat,
         auths : SUBSET AuthKinds, operations : SUBSET OperationKinds,
         actors : SUBSET Emails, uses : SUBSET Capabilities]

ASSUME AccessAssumption ==
    /\ Verifiers = Requests
    /\ FirstKey \in Keys
    /\ Ttl \in Nat \ {0}
    /\ OwnerEmail \in Emails
    /\ InitialRoles = [e \in Emails |-> NoRole]
    /\ InitialGroups = [g \in GroupNames |-> NoGroup]
    /\ Loads \subseteq Load

VARIABLES
    load,               \* what is still to come
    created,            \* how many writes of the creation are done
    keys,               \* the status of each key
    held,               \* the keys whose secret reached somebody
    sessions,           \* the rows of member_sessions
    at,                 \* the requests in progress
    overlapped          \* history: two revocations were in progress at once

accessVars == <<load, created, keys, held, sessions, at, overlapped>>
vars == <<fedVars, rbacVars, accessVars>>

\* A legacy key is a column of workspaces and has no row in workspace_keys.
KeyStatuses == {"none", "legacy", "active", "revoked"}
Usable(k) == keys[k] \in {"legacy", "active"}

Session == [email : Emails, role : VALID_ROLES, expires : Nat, revoked : BOOLEAN]
NoSession == [expires |-> 0]

Idle == [pc |-> "idle"]
Steps == {"arrived", "keyed", "federated", "verified", "authorized", "chosen"}

\* What a request names its actor with, and what it asks for.
Authorization ==
    [kind : {"header"}, email : Emails]
        \cup [kind : {"session"}, session : Sessions]
        \cup [kind : {"oidc"}, email : Emails, kid : Kids]

Operation ==
    [kind : {"rotate", "issue"}]
        \cup [kind : {"revoke"}, key : Keys]
        \cup [kind : {"member"}, email : Emails, role : AssignableRoles]
        \cup [kind : {"use"}, capability : Capabilities]

Capability(op) ==
    CASE op.kind \in {"rotate", "revoke"} -> "workspace.manage"
      [] op.kind = "member"               -> "members.manage"
      [] op.kind = "use"                  -> op.capability

Complete == 5

\* Every variable has its type, and a request comes with a key somebody holds
\* of a workspace that is completely written.
TypeOK ==
    /\ RbacTypeOK
    /\ FederatedTypeOK
    /\ load \in Load
    /\ created \in 0 .. Complete
    /\ keys \in [Keys -> KeyStatuses]
    /\ held \subseteq {k \in Keys : keys[k] # "none"}
    /\ sessions \in [Sessions -> Session \cup {NoSession}]
    /\ DOMAIN at = Requests
    /\ \A r \in Requests : at[r] # Idle =>
        /\ at[r].pc \in Steps
        /\ at[r].key \in held
        /\ at[r].op \in Operation
        /\ at[r].auth \in Authorization
        /\ created = Complete
    /\ overlapped \in BOOLEAN

Init ==
    /\ RbacInit
    /\ FederatedInit
    /\ load \in Loads
    /\ "oidc" \in load.auths \/ mode = "static"
    /\ created = 0
    /\ keys = [k \in Keys |-> "none"]
    /\ held = {}
    /\ sessions = [s \in Sessions |-> NoSession]
    /\ at = [r \in Requests |-> Idle]
    /\ overlapped = FALSE

-----------------------------------------------------------------------------
(* WorkspaceService.create: five writes, and the reply with the key.       *)

WriteWorkspace ==
    /\ created = 0
    /\ keys' = IF load.legacy THEN [keys EXCEPT ![FirstKey] = "legacy"] ELSE keys
    /\ created' = 1
    /\ UNCHANGED <<fedVars, rbacVars, load, held, sessions, at, overlapped>>

WriteKey ==
    /\ created = 1
    /\ keys' = IF load.legacy THEN keys ELSE [keys EXCEPT ![FirstKey] = "active"]
    /\ created' = 2
    /\ UNCHANGED <<fedVars, rbacVars, load, held, sessions, at, overlapped>>

AdmitOwner ==
    /\ created = 2
    /\ roles' = [roles EXCEPT ![OwnerEmail] = "owner"]
    /\ created' = 3
    /\ UNCHANGED <<fedVars, groups, load, keys, held, sessions, at, overlapped>>

WriteGroup(g, groupRoles) ==
    /\ groups' = [groups EXCEPT ![g] = [roles |-> groupRoles, members |-> {OwnerEmail}, min |-> 1]]
    /\ created' = created + 1
    /\ UNCHANGED <<fedVars, roles, load, keys, sessions, at, overlapped>>

\* Mutant: the key is handed out before the last write.
WriteSecurityGroupAndReply ==
    /\ created = 3
    /\ WriteGroup("security-approvers", {"owner", "admin", "security_analyst", "approver"})
    /\ held' = {FirstKey}

WriteSecurityGroup ==
    /\ created = 3
    /\ WriteGroup("security-approvers", {"owner", "admin", "security_analyst", "approver"})
    /\ UNCHANGED held

\* The last write; the reply may be lost.
WriteFinanceGroup ==
    /\ created = 4
    /\ WriteGroup("finance-approvers", {"owner", "admin", "approver"})
    /\ held' \in {{}, {FirstKey}}

Create ==
    \/ WriteWorkspace
    \/ WriteKey
    \/ AdmitOwner
    \/ WriteSecurityGroup
    \/ WriteFinanceGroup

-----------------------------------------------------------------------------
(* The guards of a request.                                                *)

Actor(auth) ==
    IF auth.kind = "session" THEN sessions[auth.session].email ELSE auth.email

Issued(s) == sessions[s] # NoSession
Expired(s) == sessions[s].expires <= clock
Valid(s) == ~Expired(s) /\ ~sessions[s].revoked

Allowed(auth, op) == op.kind = "issue" \/ Can(Actor(auth), Capability(op))

\* barred and could are history: the key or the session was revoked, or the
\* session expired, when the request arrived; the actor has had the capability
\* at some time since.
Arrive(r, k, auth, op) ==
    /\ at[r] = Idle
    /\ k \in held
    /\ load.requests > 0
    /\ auth.kind \in load.auths
    /\ op.kind \in load.operations
    /\ op.kind = "use" => op.capability \in load.uses
    /\ IF auth.kind = "session" THEN Issued(auth.session) ELSE auth.email \in load.actors
    /\ auth.kind = "oidc" => auth.kid \in published[site] \/ until[auth.kid] # Never
    /\ load' = [load EXCEPT !.requests = @ - 1]
    /\ at' = [at EXCEPT ![r] =
        [pc |-> "arrived", key |-> k, auth |-> auth, op |-> op,
         barred |-> ~Usable(k) \/ (auth.kind = "session" /\ ~Valid(auth.session)),
         could |-> Allowed(auth, op)]]
    /\ UNCHANGED <<fedVars, rbacVars, created, keys, held, sessions, overlapped>>

At(r, pc) == at[r].pc = pc
Advance(r, pc) == at' = [at EXCEPT ![r].pc = pc]
End(r) == at' = [at EXCEPT ![r] = Idle]

\* Mutant: a revoked key is looked up among the legacy keys.
AuthenticateFallingBack(r) ==
    /\ At(r, "arrived")
    /\ IF Usable(at[r].key) \/ at[r].key = FirstKey THEN Advance(r, "keyed") ELSE End(r)
    /\ UNCHANGED <<fedVars, rbacVars, load, created, keys, held, sessions, overlapped>>

\* A key with a row in workspace_keys is not looked up among the legacy keys.
Authenticate(r) ==
    /\ At(r, "arrived")
    /\ IF Usable(at[r].key) THEN Advance(r, "keyed") ELSE End(r)
    /\ UNCHANGED <<fedVars, rbacVars, load, created, keys, held, sessions, overlapped>>

TakeHeader(r) ==
    /\ At(r, "keyed")
    /\ at[r].op.kind # "issue"
    /\ at[r].auth.kind = "header"
    /\ Advance(r, "verified")
    /\ UNCHANGED <<fedVars, rbacVars, load, created, keys, held, sessions, overlapped>>

VerifySession(r) ==
    /\ At(r, "keyed")
    /\ at[r].op.kind # "issue"
    /\ at[r].auth.kind = "session"
    /\ IF Valid(at[r].auth.session) THEN Advance(r, "verified") ELSE End(r)
    /\ UNCHANGED <<fedVars, rbacVars, load, created, keys, held, sessions, overlapped>>

Federate(r) ==
    /\ At(r, "keyed")
    /\ at[r].op.kind # "issue"
    /\ at[r].auth.kind = "oidc"
    /\ BeginVerify(r, at[r].auth.kid)
    /\ Advance(r, "federated")
    /\ UNCHANGED <<clock, mode, provider, caches, rbacVars, load, created, keys,
                   held, sessions, overlapped>>

Verifying(r) ==
    /\ VerifyStep(r)
    /\ UNCHANGED <<rbacVars, accessVars>>

Federated(r) ==
    /\ At(r, "federated")
    /\ verify[r].pc \in {"found", "unknown", "failed"}
    /\ IF verify[r].pc = "found" THEN Advance(r, "verified") ELSE End(r)
    /\ EndVerify(r)
    /\ UNCHANGED <<clock, mode, provider, caches, rbacVars, load, created, keys,
                   held, sessions, overlapped>>

\* The member's row is read last, whoever named the actor.
Authorize(r) ==
    /\ At(r, "verified")
    /\ IF Allowed(at[r].auth, at[r].op) THEN Advance(r, "authorized") ELSE End(r)
    /\ UNCHANGED <<fedVars, rbacVars, load, created, keys, held, sessions, overlapped>>

-----------------------------------------------------------------------------
(* The operations.                                                         *)

Operating(r, kind, pc) == At(r, pc) /\ at[r].op.kind = kind

\* A protected operation of another component.
Use(r) ==
    /\ Operating(r, "use", "authorized")
    /\ End(r)
    /\ UNCHANGED <<fedVars, rbacVars, load, created, keys, held, sessions, overlapped>>

\* The reply, which has the only copy of the key, may be lost.
RotateKey(r, k) ==
    /\ Operating(r, "rotate", "authorized")
    /\ keys[k] = "none"
    /\ keys' = [keys EXCEPT ![k] = "active"]
    /\ held' \in {held, held \cup {k}}
    /\ End(r)
    /\ UNCHANGED <<fedVars, rbacVars, load, created, sessions, overlapped>>

\* Mutant: the key that is to be revoked counts as an alternative.
AlternativesAndOwn(r) == {k \in Keys : keys[k] = "active"}

Alternatives(r) == {k \in Keys \ {at[r].key} : keys[k] = "active"}

\* The handler lists the other keys only before it revokes its own; a legacy
\* key has no id to be revoked by.
ChooseKey(r) ==
    /\ Operating(r, "revoke", "authorized")
    /\ IF at[r].op.key = at[r].key /\ keys[at[r].key] # "legacy" /\ Alternatives(r) = {}
       THEN End(r) ELSE Advance(r, "chosen")
    /\ UNCHANGED <<fedVars, rbacVars, load, created, keys, held, sessions, overlapped>>

Revoking(r) == at[r] # Idle /\ at[r].op.kind = "revoke" /\ ~At(r, "arrived")

RevokeKey(r) ==
    LET k == at[r].op.key
    IN  /\ Operating(r, "revoke", "chosen")
        /\ keys' = IF keys[k] = "active" THEN [keys EXCEPT ![k] = "revoked"] ELSE keys
        /\ overlapped' = (overlapped \/ \E q \in Requests \ {r} : Revoking(q))
        /\ End(r)
        /\ UNCHANGED <<fedVars, rbacVars, load, created, held, sessions>>

\* members.upsert. What the requests in progress could do is looked at again.
SetMember(r) ==
    LET op == at[r].op
    IN  /\ Operating(r, "member", "authorized")
        /\ roles' = [roles EXCEPT ![op.email] = op.role]
        /\ at' = [q \in Requests |->
                    IF q = r \/ at[q] = Idle THEN Idle
                    ELSE [at[q] EXCEPT !.could =
                            \/ @
                            \/ /\ Actor(at[q].auth) = op.email
                               /\ Capability(at[q].op) \in ROLE_CAPABILITIES[op.role]]]
        /\ UNCHANGED <<fedVars, groups, load, created, keys, held, sessions, overlapped>>

\* sessions.issue: whoever has the key may have a session of any member.
IssueSession(r, s, email) ==
    /\ Operating(r, "issue", "keyed")
    /\ ~Issued(s)
    /\ roles[email] # NoRole
    /\ sessions' = [sessions EXCEPT ![s] =
        [email |-> email, role |-> roles[email], expires |-> clock + Ttl, revoked |-> FALSE]]
    /\ End(r)
    /\ UNCHANGED <<fedVars, rbacVars, load, created, keys, held, overlapped>>

\* sessions.revoke, which no route calls: it is an operator's.
RevokeSession(s) ==
    /\ Issued(s)
    /\ ~sessions[s].revoked
    /\ load.changes > 0
    /\ load' = [load EXCEPT !.changes = @ - 1]
    /\ sessions' = [sessions EXCEPT ![s].revoked = TRUE]
    /\ UNCHANGED <<fedVars, rbacVars, created, keys, held, at, overlapped>>

ProviderChange ==
    /\ "oidc" \in load.auths
    /\ load.changes > 0
    /\ load' = [load EXCEPT !.changes = @ - 1]
    /\ ProviderStep
    /\ UNCHANGED <<rbacVars, created, keys, held, sessions, at, overlapped>>

Tick ==
    /\ created = Complete
    /\ load.ticks > 0
    /\ clock < MaxClock
    /\ \A v \in Verifiers : verify[v] # Verified => clock < verify[v].begun + MaxStall
    /\ clock' = clock + 1
    /\ load' = [load EXCEPT !.ticks = @ - 1]
    /\ UNCHANGED <<mode, provider, caches, verify, rbacVars, created, keys, held,
                   sessions, at, overlapped>>

Next ==
    \/ Create
    \/ \E r \in Requests :
        \/ \E k \in Keys, auth \in Authorization, op \in Operation : Arrive(r, k, auth, op)
        \/ Authenticate(r)
        \/ TakeHeader(r)
        \/ VerifySession(r)
        \/ Federate(r)
        \/ Verifying(r)
        \/ Federated(r)
        \/ Authorize(r)
        \/ Use(r)
        \/ \E k \in Keys : RotateKey(r, k)
        \/ ChooseKey(r)
        \/ RevokeKey(r)
        \/ SetMember(r)
        \/ \E s \in Sessions, email \in Emails : IssueSession(r, s, email)
    \/ \E s \in Sessions : RevokeSession(s)
    \/ ProviderChange
    \/ Tick

Spec == Init /\ [][Next]_vars

-----------------------------------------------------------------------------
(* Properties.                                                             *)

\* A request is let through only if its key and its session were good when it
\* arrived and its actor has had the capability since: a revocation, an expiry
\* and a demotion bind every request that comes after them, and nothing else
\* than the requests already there outlives them.
CredentialCurrent ==
    \A r \in Requests : at[r] # Idle =>
        /\ ~At(r, "arrived") /\ at[r].barred => at[r].auth.kind = "session" /\ At(r, "keyed")
        /\ At(r, "authorized") \/ At(r, "chosen") => at[r].could

\* Somebody holds a usable key, unless two revocations ran at once, or the
\* reply with a key that is still active was lost: such a key is counted as a
\* replacement for the one revoked.
WorkspaceReachable ==
    created = Complete =>
        \/ \E k \in held : Usable(k)
        \/ overlapped
        \/ \E k \in Keys \ held : keys[k] \in {"legacy", "active"}
=============================================================================
