---------------------------- MODULE MCPGovernance ----------------------------
(***************************************************************************)
(* The registry of trusted MCP servers of one workspace and its change     *)
(* requests: services/mcp_governance.py, services/mcp_registry.py, and the *)
(* routes of main.py and v13_api.py that call them. The registry has one   *)
(* row for each canonical URI and nothing relates two rows, so one URI     *)
(* stands for each of them.                                                *)
(*                                                                         *)
(* A member of Calls is a vote, or a registration by POST /api/mcp/servers,*)
(* which needs no request. call[c].pc says what it has done:               *)
(*   permitted  it read a PENDING request and passed every check;          *)
(*   recorded   its approval is written;                                   *)
(*   tallied    it read the votes again, and holds the approvals they made;*)
(*   quorate    it read the group, and its approvals were enough;          *)
(*   looked     register has read the row, and has its id or a new one;    *)
(*   registered the row is written, and the reply has that id.             *)
(***************************************************************************)
EXTENDS Rbac

CONSTANTS
    Calls,
    Requests,           \* change requests that may be opened
    Contents,           \* name, issuer, manifest, scopes of an ACTIVE entry
    Withdrawn,          \* an entry with another status
    NoContent,          \* nothing is registered or asked for
    Loads               \* bound: what happens in a behaviour

\* direct: whether POST /api/mcp/servers is called.
Load == [direct : BOOLEAN, registrations : Nat, proposals : Nat, votes : Nat, changes : Nat]

ASSUME RegistryAssumption ==
    /\ NoContent \notin Contents \cup {Withdrawn}
    /\ "direct" \notin Requests
    /\ Loads \subseteq Load

VARIABLES
    load,               \* what is still to come
    key,                \* which TRUSTKERNEL_MCP_GOVERNANCE_KEY is deployed
    server,             \* the row of mcp_servers
    minted,             \* how many ids register has made
    requests,           \* mcp_registry_change_requests
    votes,              \* mcp_registry_change_votes
    call,               \* what is in progress
    certified,          \* history: requests some vote has counted a quorum for
    registered,         \* history: requests some vote has registered
    unsettled           \* history: requests resolved while another vote was in
                        \* progress, or registered by a vote that died

history == <<certified, registered, unsettled>>
vars == <<rbacVars, load, key, server, minted, requests, votes, call, history>>

Statuses == {"PENDING", "REJECTED", "APPLIED"}
Decisions == {"APPROVE", "REJECT"}
NoVote == "no vote"
NoRequest == [status |-> "none"]
NoServer == [id |-> 0, content |-> NoContent]
Idle == [pc |-> "idle"]
Direct == "direct"

Entry == Contents \cup {Withdrawn}

Request == [status : Statuses, content : Entry, requestedBy : Emails,
            group : GroupNames, signedWith : Nat]

Call == [pc : {"permitted"}, request : Requests, actor : Emails, decision : Decisions]
            \cup [pc : {"recorded", "quorate"}, request : Requests]
            \cup [pc : {"tallied"}, request : Requests, approvers : SUBSET Emails]
            \cup [pc : {"looked", "registered"}, request : Requests \cup {Direct},
                  content : Entry, id : Nat, alone : BOOLEAN]

\* Every variable has its type, and only opened requests are being voted on.
TypeOK ==
    /\ RbacTypeOK
    /\ load \in Load
    /\ key \in Nat
    /\ server \in [id : Nat, content : Entry \cup {NoContent}]
    /\ server.id <= minted
    /\ minted \in Nat
    /\ requests \in [Requests -> Request \cup {NoRequest}]
    /\ votes \in [Requests -> [Emails -> Decisions \cup {NoVote}]]
    /\ call \in [Calls -> Call \cup {Idle}]
    /\ \A c \in Calls : call[c] # Idle /\ call[c].request # Direct
                            => requests[call[c].request] # NoRequest
    /\ certified \subseteq Requests
    /\ registered \subseteq Requests
    /\ unsettled \subseteq Requests

Init ==
    /\ RbacInit
    /\ load \in Loads
    /\ key = 1
    /\ server = NoServer
    /\ minted = 0
    /\ requests = [r \in Requests |-> NoRequest]
    /\ votes = [r \in Requests |-> [e \in Emails |-> NoVote]]
    /\ call = [c \in Calls |-> Idle]
    /\ certified = {}
    /\ registered = {}
    /\ unsettled = {}

Opened(r) == requests[r] # NoRequest
At(c, pc) == call[c].pc = pc
Of(c, r) == call[c] # Idle /\ call[c].request = r
Finish(c) == call' = [call EXCEPT ![c] = Idle]

-----------------------------------------------------------------------------
(* The deployment.                                                         *)

Spend == load' = [load EXCEPT !.changes = @ - 1]

ChangeRole(by, email, role) ==
    /\ load.changes > 0
    /\ Spend
    /\ SetRole(by, email, role)
    /\ UNCHANGED <<key, server, minted, requests, votes, call, history>>

ChangeGroup(g, config) ==
    /\ load.changes > 0
    /\ Spend
    /\ UpsertGroup(g, config)
    /\ UNCHANGED <<key, server, minted, requests, votes, call, history>>

\* A handler dies with what it has written.
Dies(lost) ==
    /\ call' = [c \in Calls |-> IF c \in lost THEN Idle ELSE call[c]]
    /\ unsettled' = unsettled \cup
                        {r \in Requests : \E c \in lost : Of(c, r) /\ At(c, "registered")}

Crash(c) ==
    /\ call[c] # Idle
    /\ Dies({c})
    /\ UNCHANGED <<rbacVars, load, key, server, minted, requests, votes, certified, registered>>

\* The service restarts with another key: requests signed before fail integrity
\* validation.
Redeploy ==
    /\ load.changes > 0
    /\ Spend
    /\ key' = key + 1
    /\ Dies(Calls)
    /\ UNCHANGED <<rbacVars, server, minted, requests, votes, certified, registered>>

-----------------------------------------------------------------------------
(* Requests and votes.                                                     *)

Propose(r, by, content, g) ==
    /\ ~Opened(r)
    /\ load.proposals > 0
    /\ load' = [load EXCEPT !.proposals = @ - 1]
    /\ Can(by, "mcp.manage")
    /\ requests' = [requests EXCEPT ![r] =
                       [status |-> "PENDING", content |-> content, requestedBy |-> by,
                        group |-> g, signedWith |-> key]]
    /\ UNCHANGED <<rbacVars, key, server, minted, votes, call, history>>

Approvers(r) ==
    {e \in Emails : votes[r][e] = "APPROVE" /\ e # requests[r].requestedBy}

\* Mutant: one approval is enough, whatever the group asks for.
AnyApproval(r, approvers) == approvers # {}

\* The approvals that were read against the threshold of the group now.
Quorum(r, approvers) == Cardinality(approvers) >= RequiredApprovals(requests[r].group)

MayVote(r, actor, decision) ==
    /\ requests[r].signedWith = key
    /\ Can(actor, "approvals.resolve")
    /\ Permits(requests[r].group, actor)
    /\ decision = "APPROVE" => actor # requests[r].requestedBy

\* Mutant: a vote on a request already resolved is taken.
BeginVoteOnAny(c, r, actor, decision) ==
    /\ call[c] = Idle
    /\ load.votes > 0
    /\ Opened(r)
    /\ MayVote(r, actor, decision)
    /\ load' = [load EXCEPT !.votes = @ - 1]
    /\ call' = [call EXCEPT ![c] = [pc |-> "permitted", request |-> r, actor |-> actor,
                                    decision |-> decision]]
    /\ UNCHANGED <<rbacVars, key, server, minted, requests, votes, history>>

BeginVote(c, r, actor, decision) ==
    /\ call[c] = Idle
    /\ load.votes > 0
    /\ Opened(r)
    /\ requests[r].status = "PENDING"
    /\ MayVote(r, actor, decision)
    /\ load' = [load EXCEPT !.votes = @ - 1]
    /\ call' = [call EXCEPT ![c] = [pc |-> "permitted", request |-> r, actor |-> actor,
                                    decision |-> decision]]
    /\ UNCHANGED <<rbacVars, key, server, minted, requests, votes, history>>

\* Requests that are resolved while another vote on them is in progress.
Overtakes(c, r) ==
    IF \E d \in Calls \ {c} : Of(d, r) THEN unsettled \cup {r} ELSE unsettled

Vote(c) ==
    /\ At(c, "permitted")
    /\ votes' = [votes EXCEPT ![call[c].request][call[c].actor] = call[c].decision]

RecordApproval(c) ==
    /\ Vote(c)
    /\ call[c].decision = "APPROVE"
    /\ call' = [call EXCEPT ![c] = [pc |-> "recorded", request |-> call[c].request]]
    /\ UNCHANGED <<rbacVars, load, key, server, minted, requests, history>>

\* Mutant: the vote's word is stored as the status.
RecordRejectionAsVoted(c) ==
    /\ Vote(c)
    /\ call[c].decision = "REJECT"
    /\ requests' = [requests EXCEPT ![call[c].request].status = "REJECT"]
    /\ Finish(c)
    /\ UNCHANGED <<rbacVars, load, key, server, minted, history>>

\* The vote and the status are one transaction, whatever the status is by now.
RecordRejection(c) ==
    LET r == call[c].request
    IN  /\ Vote(c)
        /\ call[c].decision = "REJECT"
        /\ requests' = [requests EXCEPT ![r].status = "REJECTED"]
        /\ unsettled' = Overtakes(c, r)
        /\ Finish(c)
        /\ UNCHANGED <<rbacVars, load, key, server, minted, certified, registered>>

\* The request is read again, whose status and signature are not looked at, and
\* then its votes.
ReadVotes(c) ==
    LET r == call[c].request
    IN  /\ At(c, "recorded")
        /\ call' = [call EXCEPT ![c] = [pc |-> "tallied", request |-> r,
                                        approvers |-> Approvers(r)]]
        /\ UNCHANGED <<rbacVars, load, key, server, minted, requests, votes, history>>

\* The group is read after the votes.
CountApprovals(c) ==
    LET r == call[c].request
    IN  /\ At(c, "tallied")
        /\ IF Quorum(r, call[c].approvers)
           THEN /\ call' = [call EXCEPT ![c] = [pc |-> "quorate", request |-> r]]
                /\ certified' = certified \cup {r}
           ELSE /\ Finish(c)
                /\ UNCHANGED certified
        /\ UNCHANGED <<rbacVars, load, key, server, minted, requests, votes, registered, unsettled>>

-----------------------------------------------------------------------------
(* MCPRegistry.register, for a vote or for POST /api/mcp/servers.          *)

\* alone is history: no other registration is between its read and its write.
Looks(c, request, content, id) ==
    LET others == {d \in Calls \ {c} : At(d, "looked")}
    IN  /\ call' = [d \in Calls |->
                      IF d = c THEN [pc |-> "looked", request |-> request, content |-> content,
                                     id |-> id, alone |-> others = {}]
                      ELSE IF d \in others THEN [call[d] EXCEPT !.alone = FALSE]
                      ELSE call[d]]
        /\ minted' = IF id = server.id THEN minted ELSE minted + 1
        /\ UNCHANGED <<rbacVars, key, server, requests, votes, history>>

\* Mutant: every registration makes an id.
NewId == minted + 1

RowId == IF server = NoServer THEN minted + 1 ELSE server.id

LookForVote(c) ==
    /\ At(c, "quorate")
    /\ Looks(c, call[c].request, requests[call[c].request].content, RowId)
    /\ UNCHANGED load

LookDirectly(c, by, content) ==
    /\ call[c] = Idle
    /\ load.direct
    /\ load.registrations > 0
    /\ load' = [load EXCEPT !.registrations = @ - 1]
    /\ Can(by, "mcp.manage")
    /\ Looks(c, Direct, content, RowId)

\* The row is looked for again, and keeps the id it has.
UpsertServer(c) ==
    /\ At(c, "looked")
    /\ server' = [id |-> IF server = NoServer THEN call[c].id ELSE server.id,
                  content |-> call[c].content]
    /\ registered' = registered \cup ({call[c].request} \ {Direct})
    /\ call' = [call EXCEPT ![c].pc = "registered"]
    /\ UNCHANGED <<rbacVars, load, key, minted, requests, votes, certified, unsettled>>

ReplyDirectly(c) ==
    /\ At(c, "registered")
    /\ call[c].request = Direct
    /\ Finish(c)
    /\ UNCHANGED <<rbacVars, load, key, server, minted, requests, votes, history>>

MarkApplied(c) ==
    LET r == call[c].request
    IN  /\ At(c, "registered")
        /\ r # Direct
        /\ requests' = [requests EXCEPT ![r].status = "APPLIED"]
        /\ unsettled' = Overtakes(c, r)
        /\ Finish(c)
        /\ UNCHANGED <<rbacVars, load, key, server, minted, votes, certified, registered>>

-----------------------------------------------------------------------------
(* MCPRegistry.enrich: an action that names the id of a server is looked up*)
(* by it, one that names only the resource by its URI; the provenance is   *)
(* verified under the row of an active server and of nothing else.         *)

ByUri == 0

Verified(id) ==
    /\ server # NoServer
    /\ id \in {ByUri, server.id}
    /\ server.content \in Contents

Next ==
    \/ \E by, e \in Emails, role \in AssignableRoles : ChangeRole(by, e, role)
    \/ \E g \in GroupNames, config \in GroupConfigs : ChangeGroup(g, config)
    \/ Redeploy
    \/ \E r \in Requests, by \in Emails, content \in Entry, g \in GroupNames :
          Propose(r, by, content, g)
    \/ \E c \in Calls :
        \/ \E r \in Requests, e \in Emails, d \in Decisions : BeginVote(c, r, e, d)
        \/ RecordApproval(c)
        \/ RecordRejection(c)
        \/ ReadVotes(c)
        \/ CountApprovals(c)
        \/ LookForVote(c)
        \/ \E by \in Emails, content \in Entry : LookDirectly(c, by, content)
        \/ UpsertServer(c)
        \/ ReplyDirectly(c)
        \/ MarkApplied(c)
        \/ Crash(c)

Spec == Init /\ [][Next]_vars

-----------------------------------------------------------------------------
(* Properties.                                                             *)

\* Wherever a vote is cut short, a request reads APPLIED only if it was
\* registered; one that reads REJECTED, or is open still, was registered only
\* if another vote was in progress when it was resolved or a vote died on it.
StatusMatchesRegistry ==
    \A r \in Requests : Opened(r) =>
        /\ requests[r].status = "APPLIED" => r \in registered
        /\ r \in registered =>
            \/ requests[r].status = "APPLIED"
            \/ r \in unsettled
            \/ \E c \in Calls : Of(c, r)

\* A registration that ran alone replies with the id under which the actions
\* that name the server are found, as long as an active content is there.
ReplyNamesServer ==
    \A c \in Calls : At(c, "registered") /\ call[c].alone =>
        Verified(call[c].id) = Verified(ByUri)

\* The approvals that votes on r have read and not yet compared.
Tallies(r) ==
    {call[c].approvers : c \in {d \in Calls : At(d, "tallied") /\ call[d].request = r}}

\* Where POST /api/mcp/servers is not called, the steps of a vote implement
\* GovernedActivation: an entry is only ever replaced by that of a request whose
\* approvals at one instant, from people other than who asked for it, were as
\* many as its group asked for then or later.
Abstract == INSTANCE GovernedActivation WITH
    Bundles <- Entry,
    NoBundle <- NoContent,
    approvalRequired <- ~load.direct,
    target <- [r \in Requests |-> IF Opened(r) THEN requests[r].content ELSE NoContent],
    approvals <- [r \in Requests |-> IF Opened(r) THEN Approvers(r) ELSE {}],
    threshold <- [r \in Requests |-> IF Opened(r) THEN RequiredApprovals(requests[r].group) ELSE 1],
    tallies <- [r \in Requests |-> Tallies(r)],
    quorate <- certified,
    active <- server.content

ImplementsGovernedActivation == Abstract!Spec
=============================================================================
