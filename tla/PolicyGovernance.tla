-------------------------- MODULE PolicyGovernance --------------------------
(***************************************************************************)
(* Policy bundles of one workspace and profile, and the change requests    *)
(* through which they become active: services/policies.py,                 *)
(* services/policy_changes.py and their handlers in main.py.               *)
(*                                                                         *)
(* The handlers are plain `def` functions, so the server runs them in a    *)
(* thread pool (and a deployment may run replicas over one database): the  *)
(* store makes each call atomic, but PolicyChangeService.vote is a         *)
(* sequence of them.  A member of Calls is one vote being handled, and     *)
(* call[c].pc says what it has done:                                       *)
(*   permitted  it read the request, whose status was PENDING, and passed  *)
(*              the RBAC, group and four-eyes checks;                      *)
(*   recorded   its vote is in policy_change_votes;                        *)
(*   tallied    it re-read the votes, and holds the approvals they made;    *)
(*   quorate    it read the group, and its approvals were enough;          *)
(*   bound      activate_policy_bundle has bound the bundle.               *)
(* The reads before the vote is written are one step.  A bundle's content  *)
(* is its identity here: Bundles are the documents (version and sha256)    *)
(* that pass validate_policy_document.                                     *)
(***************************************************************************)
EXTENDS Rbac

CONSTANTS
    Calls,              \* votes that may be in progress at once
    Requests,           \* change requests that may be opened
    Bundles,            \* policy documents that may be published
    NoBundle,           \* "no row": unpublished, unopened or unbound
    Deployments,        \* settings the service may be deployed with
    MaxChanges,         \* bound: role, group and signing-key changes
    MaxVotes            \* bound: votes begun in one behaviour

ASSUME GovernanceAssumption ==
    /\ NoBundle \notin Bundles
    /\ MaxChanges \in Nat
    /\ MaxVotes \in Nat
    /\ Deployments \subseteq [requireApproval : BOOLEAN, fourEyes : BOOLEAN]

VARIABLES
    requireApproval,    \* TRUSTKERNEL_REQUIRE_POLICY_APPROVAL=1 or production
    fourEyes,           \* TRUSTKERNEL_POLICY_FOUR_EYES, on by default
    signingKey,         \* which TRUSTKERNEL_POLICY_SIGNING_KEY is deployed
    signedWith,         \* the key each published bundle was signed with, or 0
    binding,            \* workspace_policy_bindings.bundle_id
    requests,           \* policy_change_requests
    votes,              \* policy_change_votes
    call,               \* the votes in progress
    changes,            \* counts role, group and key changes, for the bound
    votesBegun,         \* counts votes begun, for the bound
    \* History, read by properties only:
    certified,          \* requests some vote has counted a quorum for
    everBound,          \* requests whose bundle some vote has bound
    interrupted,        \* requests with a vote cut short or a group changed
    overtaken           \* requests rejected while another vote was in progress

settings == <<requireApproval, fourEyes>>
bounds == <<changes, votesBegun>>
history == <<certified, everBound, interrupted, overtaken>>
vars == <<rbacVars, settings, signingKey, signedWith, binding, requests,
          votes, call, bounds, history>>

-----------------------------------------------------------------------------
(* Rows and calls.                                                         *)

Statuses == {"PENDING", "REJECTED", "ACTIVATED"}

NoRequest == [status |-> "NONE"]

Request == [status : Statuses, bundle : Bundles, requestedBy : Emails,
            group : GroupNames]

Decisions == {"APPROVE", "REJECT"}

NoVote == "NO VOTE"

Idle == [pc |-> "idle"]

Steps == {"permitted", "recorded", "tallied", "quorate", "bound"}

\* approvers is empty but while a vote that read the votes has yet to compare.
VoteCall == [pc : Steps, request : Requests, actor : Emails,
             decision : Decisions, approvers : SUBSET Emails]

TypeOK ==
    /\ RbacTypeOK
    /\ requireApproval \in BOOLEAN
    /\ fourEyes \in BOOLEAN
    /\ signingKey \in 1 .. MaxChanges + 1
    /\ signedWith \in [Bundles -> 0 .. MaxChanges + 1]
    /\ binding \in Bundles \cup {NoBundle}
    /\ requests \in [Requests -> Request \cup {NoRequest}]
    /\ votes \in [Requests -> [Emails -> Decisions \cup {NoVote}]]
    /\ call \in [Calls -> VoteCall \cup {Idle}]
    /\ changes \in 0 .. MaxChanges
    /\ votesBegun \in 0 .. MaxVotes
    /\ certified \subseteq Requests
    /\ everBound \subseteq Requests
    /\ interrupted \subseteq Requests
    /\ overtaken \subseteq Requests

Opened(r) == requests[r] # NoRequest

\* verify_policy_bundle: the document still has its hash and the deployed key
\* produces its signature.
Verifies(b) == signedWith[b] = signingKey

\* Mutation of LoadedPolicy: the signature is not looked at.
BoundPolicy == binding

\* load_policy: the bound bundle while its signature verifies, otherwise the
\* policy file shipped with the service (NoBundle).
LoadedPolicy ==
    IF binding # NoBundle /\ Verifies(binding) THEN binding ELSE NoBundle

\* The addresses PolicyChangeService.get counts as approving r: never the
\* requester under four-eyes.
Approvers(r) ==
    {e \in Emails : /\ votes[r][e] = "APPROVE"
                    /\ fourEyes => e # requests[r].requestedBy}

\* Mutation of ApprovalsSuffice: one approval too many.
ApprovalsExceed(r, approvers) ==
    Cardinality(approvers) > RequiredApprovals(requests[r].group)

\* The approvals that were read against the threshold of the group now.
ApprovalsSuffice(r, approvers) ==
    Cardinality(approvers) >= RequiredApprovals(requests[r].group)

At(c, step) == call[c].pc = step

Advance(c, step) == call' = [call EXCEPT ![c].pc = step]

Finish(c) == call' = [call EXCEPT ![c] = Idle]

\* A vote in progress that has written its vote but not yet settled r.
Unsettled(c, r) ==
    /\ call[c].pc \in {"recorded", "tallied", "quorate", "bound"}
    /\ call[c].request = r

Init ==
    /\ RbacInit
    /\ \E d \in Deployments : /\ requireApproval = d.requireApproval
                               /\ fourEyes = d.fourEyes
    /\ signingKey = 1
    /\ signedWith = [b \in Bundles |-> 0]
    /\ binding = NoBundle
    /\ requests = [r \in Requests |-> NoRequest]
    /\ votes = [r \in Requests |-> [e \in Emails |-> NoVote]]
    /\ call = [c \in Calls |-> Idle]
    /\ changes = 0
    /\ votesBegun = 0
    /\ certified = {}
    /\ everBound = {}
    /\ interrupted = {}
    /\ overtaken = {}

-----------------------------------------------------------------------------
(* Configuration and bundles.                                              *)

\* POST /members.
ChangeRole(by, email, role) ==
    /\ changes < MaxChanges
    /\ SetRole(by, email, role)
    /\ changes' = changes + 1
    /\ UNCHANGED <<settings, signingKey, signedWith, binding, requests, votes,
                   call, votesBegun, history>>

\* An operator reconfigures an approval group; get() reads min_approvals anew,
\* so the threshold of requests already open moves with it.
ChangeGroup(g, config) ==
    /\ changes < MaxChanges
    /\ UpsertGroup(g, config)
    /\ changes' = changes + 1
    /\ interrupted' = interrupted \cup
                        {r \in Requests : Opened(r) /\ requests[r].group = g}
    /\ UNCHANGED <<settings, signingKey, signedWith, binding, requests, votes,
                   call, votesBegun, certified, everBound, overtaken>>

\* The service is redeployed with another signing key: votes in progress end
\* where they are, and bundles signed before no longer verify.
RotateSigningKey ==
    /\ changes < MaxChanges
    /\ changes' = changes + 1
    /\ signingKey' = signingKey + 1
    /\ call' = [c \in Calls |-> Idle]
    /\ interrupted' = interrupted \cup
                        {r \in Requests : \E c \in Calls : Unsettled(c, r)}
    /\ UNCHANGED <<rbacVars, settings, signedWith, binding, requests, votes,
                   votesBegun, certified, everBound, overtaken>>

\* publish_policy_document: a document already published is returned as it is
\* and keeps the signature it has, even one that no longer verifies.  A request
\* with a key needs a principal with policies.manage; one without needs nobody,
\* unless the deployment requires keys: who publishes makes no difference here.
Publish(b) ==
    /\ signedWith[b] = 0
    /\ signedWith' = [signedWith EXCEPT ![b] = signingKey]
    /\ UNCHANGED <<rbacVars, settings, signingKey, binding, requests, votes,
                   call, bounds, history>>

\* Mutation of ActivateDirectly: the 409 of a governed deployment is missing.
ActivateAnyway(by, b) ==
    /\ Can(by, "policies.manage")
    /\ signedWith[b] # 0
    /\ Verifies(b)
    /\ binding' = b
    /\ UNCHANGED <<rbacVars, settings, signingKey, signedWith, requests, votes,
                   call, bounds, history>>

\* POST .../activate/{bundle_id}, refused where approval is required.
ActivateDirectly(by, b) ==
    /\ ~requireApproval
    /\ Can(by, "policies.manage")
    /\ signedWith[b] # 0
    /\ Verifies(b)
    /\ binding' = b
    /\ UNCHANGED <<rbacVars, settings, signingKey, signedWith, requests, votes,
                   call, bounds, history>>

-----------------------------------------------------------------------------
(* Change requests and votes.                                              *)

\* propose: the bundle must exist; the group is whatever name the caller gives.
Propose(r, by, b, g) ==
    /\ ~Opened(r)
    /\ Can(by, "policies.manage")
    /\ signedWith[b] # 0
    /\ requests' = [requests EXCEPT ![r] =
                       [status |-> "PENDING", bundle |-> b,
                        requestedBy |-> by, group |-> g]]
    /\ UNCHANGED <<rbacVars, settings, signingKey, signedWith, binding, votes,
                   call, bounds, history>>

\* members.can, approval_groups.permits and the ban on self-approval.
MayVote(r, actor, decision) ==
    /\ Can(actor, "approvals.resolve")
    /\ Permits(requests[r].group, actor)
    /\ (decision = "APPROVE" /\ fourEyes) => actor # requests[r].requestedBy

\* Mutation of BeginVote: a resolved request can still be voted on.
BeginVoteOnAny(c, r, actor, decision) ==
    /\ votesBegun < MaxVotes
    /\ At(c, "idle")
    /\ Opened(r)
    /\ MayVote(r, actor, decision)
    /\ call' = [call EXCEPT ![c] = [pc |-> "permitted", request |-> r,
                                    actor |-> actor, decision |-> decision,
                                    approvers |-> {}]]
    /\ votesBegun' = votesBegun + 1
    /\ UNCHANGED <<rbacVars, settings, signingKey, signedWith, binding,
                   requests, votes, changes, history>>

\* The handler and vote() up to its first write: any other caller, and a vote
\* on a request whose status is not PENDING, is refused and changes nothing.
BeginVote(c, r, actor, decision) ==
    /\ votesBegun < MaxVotes
    /\ At(c, "idle")
    /\ Opened(r)
    /\ requests[r].status = "PENDING"
    /\ MayVote(r, actor, decision)
    /\ call' = [call EXCEPT ![c] = [pc |-> "permitted", request |-> r,
                                    actor |-> actor, decision |-> decision,
                                    approvers |-> {}]]
    /\ votesBegun' = votesBegun + 1
    /\ UNCHANGED <<rbacVars, settings, signingKey, signedWith, binding,
                   requests, votes, changes, history>>

\* upsert_policy_change_vote: a second vote of one address replaces the first.
RecordVote(c) ==
    /\ At(c, "permitted")
    /\ votes' = [votes EXCEPT ![call[c].request][call[c].actor] =
                    call[c].decision]
    /\ Advance(c, "recorded")
    /\ UNCHANGED <<rbacVars, settings, signingKey, signedWith, binding,
                   requests, bounds, history>>

OthersInProgress(c, r) ==
    \E d \in Calls \ {c} : call[d] # Idle /\ call[d].request = r

\* A rejecting vote sets the status, whatever it has become since it was read.
SettleRejected(c, status) ==
    LET r == call[c].request
    IN  /\ At(c, "recorded")
        /\ call[c].decision = "REJECT"
        /\ requests' = [requests EXCEPT ![r].status = status]
        /\ overtaken' = IF OthersInProgress(c, r)
                        THEN overtaken \cup {r} ELSE overtaken
        /\ Finish(c)
        /\ UNCHANGED <<rbacVars, settings, signingKey, signedWith, binding,
                       votes, bounds, certified, everBound, interrupted>>

\* Mutation of RejectRequest: the vote's word is stored as the status.
RejectRequestAsVoted(c) == SettleRejected(c, call[c].decision)

RejectRequest(c) == SettleRejected(c, "REJECTED")

\* An approving vote reads the request again, whose status is not looked at,
\* and then its votes.
ReadVotes(c) ==
    /\ At(c, "recorded")
    /\ call[c].decision = "APPROVE"
    /\ call' = [call EXCEPT ![c].pc = "tallied",
                             ![c].approvers = Approvers(call[c].request)]
    /\ UNCHANGED <<rbacVars, settings, signingKey, signedWith, binding,
                   requests, votes, bounds, history>>

\* It reads the group after the votes, and compares the two.
CountApprovals(c) ==
    LET r == call[c].request
    IN  /\ At(c, "tallied")
        /\ IF ApprovalsSuffice(r, call[c].approvers)
           THEN /\ call' = [call EXCEPT ![c].pc = "quorate", ![c].approvers = {}]
                /\ certified' = certified \cup {r}
           ELSE /\ Finish(c)
                /\ UNCHANGED certified
        /\ UNCHANGED <<rbacVars, settings, signingKey, signedWith, binding,
                       requests, votes, bounds, everBound, interrupted,
                       overtaken>>

\* activate_policy_bundle: a bundle that no longer verifies raises, and the
\* vote ends with the request as it was.
ActivateBundle(c) ==
    LET r == call[c].request
        b == requests[r].bundle
    IN  /\ At(c, "quorate")
        /\ IF Verifies(b)
           THEN /\ binding' = b
                /\ everBound' = everBound \cup {r}
                /\ Advance(c, "bound")
                /\ UNCHANGED interrupted
           ELSE /\ Finish(c)
                /\ interrupted' = interrupted \cup {r}
                /\ UNCHANGED <<binding, everBound>>
        /\ UNCHANGED <<rbacVars, settings, signingKey, signedWith, requests,
                       votes, bounds, certified, overtaken>>

SettleActivated(c, step) ==
    /\ At(c, step)
    /\ requests' = [requests EXCEPT ![call[c].request].status = "ACTIVATED"]
    /\ Finish(c)
    /\ UNCHANGED <<rbacVars, settings, signingKey, signedWith, binding, votes,
                   bounds, history>>

\* Mutation of MarkActivated: the status is written before the binding.
MarkActivatedFirst(c) == SettleActivated(c, "quorate")

MarkActivated(c) == SettleActivated(c, "bound")

\* The thread or the replica handling a vote dies between two store calls.
Crash(c) ==
    /\ call[c] # Idle
    /\ Finish(c)
    /\ interrupted' = interrupted \cup {r \in Requests : Unsettled(c, r)}
    /\ UNCHANGED <<rbacVars, settings, signingKey, signedWith, binding,
                   requests, votes, bounds, certified, everBound,
                   overtaken>>

Administration ==
    \/ \E by, e \in Emails, role \in AssignableRoles : ChangeRole(by, e, role)
    \/ \E g \in GroupNames, config \in GroupConfigs : ChangeGroup(g, config)
    \/ RotateSigningKey
    \/ \E b \in Bundles : Publish(b)
    \/ \E by \in Emails, b \in Bundles : ActivateDirectly(by, b)

Voting(c) ==
    \/ \E r \in Requests, e \in Emails, d \in Decisions : BeginVote(c, r, e, d)
    \/ RecordVote(c)
    \/ RejectRequest(c)
    \/ ReadVotes(c)
    \/ CountApprovals(c)
    \/ ActivateBundle(c)
    \/ MarkActivated(c)
    \/ Crash(c)

Next ==
    \/ Administration
    \/ \E r \in Requests, by \in Emails, b \in Bundles, g \in GroupNames :
          Propose(r, by, b, g)
    \/ \E c \in Calls : Voting(c)

Spec == Init /\ [][Next]_vars

-----------------------------------------------------------------------------
(* Properties.                                                             *)

\* A pending request that has its quorum is being settled by some vote, or a
\* vote on it was cut short, or its group was changed: concurrent approvals
\* never each miss the other's vote and leave the request stranded.
QuorumNotStranded ==
    \A r \in Requests :
        (/\ Opened(r)
         /\ requests[r].status = "PENDING"
         /\ \A c \in Calls : ~Unsettled(c, r)
         /\ r \notin interrupted)
        => ~(Cardinality(Approvers(r)) >= RequiredApprovals(requests[r].group))

\* A request reads ACTIVATED only if its bundle was really bound: wherever a
\* vote is cut short, the record never claims an activation that did not happen.
ActivatedWasBound ==
    \A r \in Requests : requests[r].status = "ACTIVATED" => r \in everBound

\* In a governed deployment the policy that load_policy hands to evaluation is
\* the shipped file or a bundle signed with the deployed key whose change
\* request some vote counted a quorum for, across votes, crashes and key
\* rotations.
ServedPolicyGoverned ==
    (requireApproval /\ LoadedPolicy # NoBundle)
    => /\ signedWith[LoadedPolicy] = signingKey
       /\ \E r \in certified : requests[r].bundle = LoadedPolicy

\* A rejected request is bound afterwards only by a vote that was already in
\* progress when it was rejected: no vote that starts later can revive it.
RejectionBarsNewVotes ==
    [][\A r \in everBound' \ everBound :
          requests[r].status = "REJECTED" => r \in overtaken]_vars

\* "A rejected request never activates the bundle"
\* (docs/MASTER_UPGRADE_V1_2.md:27): the code refutes it, see the README.
RejectedNeverActivates ==
    [][\A r \in everBound' \ everBound : requests[r].status # "REJECTED"]_vars

\* The approvals that votes on r have read and not yet compared.
Tallies(r) ==
    {call[c].approvers : c \in {d \in Calls : At(d, "tallied") /\ call[d].request = r}}

\* The steps of a vote implement GovernedActivation: the bundle in force is
\* only ever replaced by that of a request whose approvals, as they stood at
\* one instant, were as many as its group asked for at that instant or later.
Abstract == INSTANCE GovernedActivation WITH
    approvalRequired <- requireApproval,
    target <- [r \in Requests |->
                  IF Opened(r) THEN requests[r].bundle ELSE NoBundle],
    approvals <- [r \in Requests |-> IF Opened(r) THEN Approvers(r) ELSE {}],
    threshold <- [r \in Requests |->
                     IF Opened(r) THEN RequiredApprovals(requests[r].group)
                     ELSE 1],
    tallies <- [r \in Requests |-> Tallies(r)],
    quorate <- certified,
    active <- binding

ImplementsGovernedActivation == Abstract!Spec

=============================================================================
