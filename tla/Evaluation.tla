----------------------------- MODULE Evaluation -----------------------------
(***************************************************************************)
(* The evaluation of an action plan and the evidence it leaves:            *)
(* evaluate_plan of engines/kernel.py with services/policies.py,           *)
(* services/approvals.py and services/incidents.py, and the resolution of  *)
(* an approval by POST /api/approvals, all for one workspace and profile.  *)
(*                                                                         *)
(* The handlers run in a thread pool.  A member of Writers is a thread and *)
(* call[w].pc says what its handler has done:                              *)
(*   loaded     load_policy answered: the plan is decided under policy;    *)
(*   hashed     policy_metadata has loaded the policy again, for its hash; *)
(*   described  and read the binding, for its bundle id;                   *)
(*   decided    the plan is decided, and ledger.append has read the head;  *)
(*   audited    the audit row is in; approval and incident are to come;    *)
(*   escalated  the approval, if one is required, is in;                   *)
(*   resolved   (resolution) the approval row has its resolution;          *)
(*   signing    (resolution) ledger.append has read the head.              *)
(* How a plan is decided is the matter of the Decision engines: here a     *)
(* verdict is any member of Verdicts, and what counts is where it is kept. *)
(***************************************************************************)
EXTENDS AuditLedger

CONSTANTS
    Bundles,            \* the signed policies that may be published
    FilePolicy,         \* the policy file shipped with the service
    NoBundle,           \* no binding
    Verdicts,           \* the decisions and risk bands a plan may meet
    MaxEvaluations,     \* bound: evaluations begun or in the ledger
    MaxChanges,         \* bound: activations and redeployments
    MaxEvents           \* bound: evaluations, activations and redeployments together

Decisions == {"ALLOW", "ALLOW_WITH_LOG", "REWRITE", "REQUIRE_APPROVAL", "BLOCK"}

Resolutions == {"APPROVE", "REJECT"}

ASSUME EvaluationAssumption ==
    /\ FilePolicy \notin Bundles
    /\ NoBundle \notin Bundles
    /\ Verdicts \subseteq [decision : Decisions, risky : BOOLEAN]
    /\ MaxEvaluations \in Nat
    /\ MaxChanges \in Nat
    /\ MaxEvents \in Nat

VARIABLES
    signature,          \* policy_bundles: is each published, does it verify
    binding,            \* workspace_policy_bindings.bundle_id
    changes,            \* counts the changes to the two, for the bound
    call,               \* the handlers in progress
    approvals,          \* approvals.resolution by audit id, or none
    incidents,          \* the audit ids that have an incident
    answered,           \* history: audit ids returned to a caller
    lost                \* history: approvals whose resolver died half way

policyVars == <<signature, binding, changes>>
vars == <<ledgerVars, policyVars, call, approvals, incidents, answered, lost>>

Policies == Bundles \cup {FilePolicy}

Signatures == {"unpublished", "verifies", "stale"}

Ids == 1 .. MaxEntries

\* The payload of an evaluation's row.  Of the policy section it keeps the
\* sha256, the bundle id and signature_valid; under is the policy its
\* action_results come from; torn is history: the policy changed between the
\* reads of it.
EvaluationRow ==
    [event : {"EVALUATION"}, sha : Policies, bundle : Bundles \cup {NoBundle},
     verified : BOOLEAN, under : Policies, decision : Decisions,
     risky : BOOLEAN, torn : BOOLEAN]

ApprovalRow == [event : {"HUMAN_APPROVAL"}, audit : Ids, resolution : Resolutions]

Payloads == EvaluationRow \cup ApprovalRow

Idle == [pc |-> "idle"]

\* An evaluation before and after its audit row is in, and a resolution.
EvaluationCall ==
    [pc : {"loaded", "hashed", "described", "decided"}, row : EvaluationRow]

RecordingCall == [pc : {"audited", "escalated"}, audit : Ids]

ResolutionCall == [pc : {"resolved", "signing"}, audit : Ids,
                   resolution : Resolutions]

NoApproval == "NONE"

TypeOK ==
    /\ LedgerTypeOK(Payloads)
    /\ signature \in [Bundles -> Signatures]
    /\ binding \in Bundles \cup {NoBundle}
    /\ changes \in 0 .. MaxChanges
    /\ call \in [Writers -> EvaluationCall \cup RecordingCall
                               \cup ResolutionCall \cup {Idle}]
    /\ approvals \in [Ids -> Resolutions \cup {"PENDING", NoApproval}]
    /\ incidents \subseteq Ids
    /\ answered \subseteq Ids
    /\ lost \subseteq Ids

Verifies(b) == signature[b] = "verifies"

\* Mutation of LoadPolicy: the signature of the bound bundle is not checked.
BoundPolicy == IF binding # NoBundle THEN binding ELSE FilePolicy

\* load_policy: the bound bundle if it verifies, otherwise the file.
LoadPolicy ==
    IF binding # NoBundle /\ Verifies(binding) THEN binding ELSE FilePolicy

At(w, step) == call[w].pc = step

Goto(w, step) == call' = [call EXCEPT ![w].pc = step]

Finish(w) == call' = [call EXCEPT ![w] = Idle]

\* A policy change falls between the reads of the handlers at these steps.
Tear == call' = [w \in Writers |->
                    IF call[w].pc \in {"loaded", "hashed"}
                    THEN [call[w] EXCEPT !.row.torn = TRUE] ELSE call[w]]

Init ==
    /\ LedgerInit
    /\ signature = [b \in Bundles |-> "unpublished"]
    /\ binding = NoBundle
    /\ changes = 0
    /\ call = [w \in Writers |-> Idle]
    /\ approvals = [a \in Ids |-> NoApproval]
    /\ incidents = {}
    /\ answered = {}
    /\ lost = {}

IsEvaluation(a) ==
    a \in DOMAIN entries /\ entries[a].payload.event = "EVALUATION"

\* Evaluations whose row is in the ledger, or still to come.
Evaluations ==
    Cardinality({a \in Ids : IsEvaluation(a)})
    + Cardinality({w \in Writers :
                     call[w].pc \in {"loaded", "hashed", "described", "decided"}})

-----------------------------------------------------------------------------
(* The policy in force, as PolicyGovernance changes it.                    *)

Publish(b) ==
    /\ signature[b] = "unpublished"
    /\ signature' = [signature EXCEPT ![b] = "verifies"]
    /\ UNCHANGED <<ledgerVars, binding, changes, call, approvals, incidents, answered, lost>>

\* activate_policy_bundle.
Activate(b) ==
    /\ changes < MaxChanges /\ Evaluations + changes < MaxEvents
    /\ Verifies(b)
    /\ b # binding
    /\ binding' = b
    /\ changes' = changes + 1
    /\ Tear
    /\ UNCHANGED <<ledgerVars, signature, approvals, incidents, answered, lost>>

\* The approvals whose resolver is between its two writes.
HalfResolved(W) == {call[w].audit : w \in {v \in W : At(v, "resolved") \/ At(v, "signing")}}

\* The service is redeployed with a new signing key: every handler ends where
\* it is, and no bundle published before verifies any more.
Redeploy ==
    /\ changes < MaxChanges /\ Evaluations + changes < MaxEvents
    /\ changes' = changes + 1
    /\ signature' = [b \in Bundles |->
                        IF Verifies(b) THEN "stale" ELSE signature[b]]
    /\ call' = [w \in Writers |-> Idle]
    /\ head' = [w \in Writers |-> NoHead]
    /\ lost' = lost \cup HalfResolved(Writers)
    /\ UNCHANGED <<entries, overlapped, binding, approvals, incidents, answered>>

-----------------------------------------------------------------------------
(* evaluate_plan.                                                          *)

BeginEvaluation(w) ==
    /\ Evaluations < MaxEvaluations /\ Evaluations + changes < MaxEvents
    /\ At(w, "idle")
    /\ call' = [call EXCEPT ![w] =
          [pc |-> "loaded",
           row |-> [event |-> "EVALUATION", sha |-> LoadPolicy,
                    bundle |-> NoBundle, verified |-> FALSE,
                    under |-> LoadPolicy, decision |-> "ALLOW",
                    risky |-> FALSE, torn |-> FALSE]]]
    /\ UNCHANGED <<ledgerVars, policyVars, approvals, incidents, answered, lost>>

\* policy_metadata: the name, version and sha256 come from a second load_policy.
HashPolicy(w) ==
    /\ At(w, "loaded")
    /\ call' = [call EXCEPT ![w].pc = "hashed", ![w].row.sha = LoadPolicy]
    /\ UNCHANGED <<ledgerVars, policyVars, approvals, incidents, answered, lost>>

\* policy_metadata: the bundle id and signature_valid come from the binding,
\* whether or not its bundle verifies.
DescribeBinding(w) ==
    /\ At(w, "hashed")
    /\ call' = [call EXCEPT ![w].pc = "described",
                            ![w].row.bundle = binding,
                            ![w].row.verified = binding # NoBundle /\ Verifies(binding)]
    /\ UNCHANGED <<ledgerVars, policyVars, approvals, incidents, answered, lost>>

\* The engines decide, and ledger.append reads the rows.
Decide(w, verdict) ==
    /\ At(w, "described")
    /\ call' = [call EXCEPT ![w].pc = "decided",
                            ![w].row.decision = verdict.decision,
                            ![w].row.risky = verdict.risky]
    /\ ReadHead(w)
    /\ UNCHANGED <<policyVars, approvals, incidents, answered, lost>>

\* Mutation of RecordDecision: the id is a count read with the head, so that
\* two evaluations can share it.
RecordCounted(w) ==
    /\ At(w, "decided")
    /\ InsertRow(w, call[w].row)
    /\ call' = [call EXCEPT ![w] = [pc |-> "audited", audit |-> head[w] + 1]]
    /\ UNCHANGED <<policyVars, approvals, incidents, answered, lost>>

RecordDecision(w) ==
    /\ At(w, "decided")
    /\ InsertRow(w, call[w].row)
    /\ call' = [call EXCEPT ![w] = [pc |-> "audited", audit |-> Len(entries) + 1]]
    /\ UNCHANGED <<policyVars, approvals, incidents, answered, lost>>

\* The evaluation row a call, an approval or an incident is about.
Evaluated(a) == entries[a].payload

\* approvals.create, where the decision asks for one.
CreateApproval(w) ==
    LET a == call[w].audit
    IN  /\ At(w, "audited")
        /\ approvals' = IF Evaluated(a).decision = "REQUIRE_APPROVAL"
                        THEN [approvals EXCEPT ![a] = "PENDING"] ELSE approvals
        /\ Goto(w, "escalated")
        /\ UNCHANGED <<ledgerVars, policyVars, incidents, answered, lost>>

\* Mutation of Reportable: only blocked plans are reported.
BlockedOnly(a) == Evaluated(a).decision = "BLOCK"

\* create_from_evaluation: which evaluations become incidents.
Reportable(a) ==
    \/ Evaluated(a).decision \in {"BLOCK", "REQUIRE_APPROVAL"}
    \/ Evaluated(a).risky

\* The incident is the last row; telemetry is emitted and the result returned.
CreateIncident(w) ==
    LET a == call[w].audit
    IN  /\ At(w, "escalated")
        /\ incidents' = IF Reportable(a) THEN incidents \cup {a} ELSE incidents
        /\ answered' = answered \cup {a}
        /\ Finish(w)
        /\ UNCHANGED <<ledgerVars, policyVars, approvals, lost>>

-----------------------------------------------------------------------------
(* approval_resolve, for an actor the approval group permits.              *)

\* Mutation of Resolve: the resolution is stored as the path spells it.
ResolveAsSpelled(w, a, resolution) ==
    /\ At(w, "idle")
    /\ approvals[a] # NoApproval
    /\ approvals' = [approvals EXCEPT ![a] = "approve"]
    /\ call' = [call EXCEPT ![w] = [pc |-> "resolved", audit |-> a,
                                    resolution |-> resolution]]
    /\ UNCHANGED <<ledgerVars, policyVars, incidents, answered, lost>>

\* Mutation of Resolve: resolving again leaves no audit row.
ResolveOnce(w, a, resolution) ==
    /\ At(w, "idle")
    /\ approvals[a] # NoApproval
    /\ approvals' = [approvals EXCEPT ![a] = resolution]
    /\ call' = IF approvals[a] = "PENDING"
               THEN [call EXCEPT ![w] = [pc |-> "resolved", audit |-> a,
                                         resolution |-> resolution]]
               ELSE call
    /\ UNCHANGED <<ledgerVars, policyVars, incidents, answered, lost>>

\* The row is read by its audit id and written back whole.  Its status is not
\* looked at and nothing else writes it but another resolver, whose word this
\* one replaces: when the read was made does not matter.
Resolve(w, a, resolution) ==
    /\ At(w, "idle")
    /\ approvals[a] # NoApproval
    /\ approvals' = [approvals EXCEPT ![a] = resolution]
    /\ call' = [call EXCEPT ![w] = [pc |-> "resolved", audit |-> a,
                                    resolution |-> resolution]]
    /\ UNCHANGED <<ledgerVars, policyVars, incidents, answered, lost>>

BeginResolutionRow(w) ==
    /\ At(w, "resolved")
    /\ ReadHead(w)
    /\ Goto(w, "signing")
    /\ UNCHANGED <<policyVars, approvals, incidents, answered, lost>>

RecordResolution(w) ==
    /\ At(w, "signing")
    /\ InsertRow(w, [event |-> "HUMAN_APPROVAL", audit |-> call[w].audit,
                     resolution |-> call[w].resolution])
    /\ Finish(w)
    /\ UNCHANGED <<policyVars, approvals, incidents, answered, lost>>

\* The thread, or the replica it runs in, dies.
Crash(w) ==
    /\ call[w] # Idle
    /\ Finish(w)
    /\ head' = [head EXCEPT ![w] = NoHead]
    /\ lost' = lost \cup HalfResolved({w})
    /\ UNCHANGED <<entries, overlapped, policyVars, approvals, incidents, answered>>

Next ==
    \/ \E b \in Bundles : Publish(b) \/ Activate(b)
    \/ Redeploy
    \/ \E w \in Writers :
          \/ BeginEvaluation(w)
          \/ HashPolicy(w)
          \/ DescribeBinding(w)
          \/ \E verdict \in Verdicts : Decide(w, verdict)
          \/ RecordDecision(w)
          \/ CreateApproval(w)
          \/ CreateIncident(w)
          \/ \E a \in Ids, resolution \in Resolutions : Resolve(w, a, resolution)
          \/ BeginResolutionRow(w)
          \/ RecordResolution(w)
          \/ Crash(w)

Spec == Init /\ [][Next]_vars

-----------------------------------------------------------------------------
(* Properties.                                                             *)

\* An approval or an incident never exists without the evaluation row it names,
\* and that row's verdict is one that calls for it: evidence is written before
\* what points at it, whatever dies in between.
EvidenceGrounded ==
    /\ \A a \in Ids : approvals[a] # NoApproval =>
          IsEvaluation(a) /\ Evaluated(a).decision = "REQUIRE_APPROVAL"
    /\ \A a \in incidents :
          /\ IsEvaluation(a)
          /\ Evaluated(a).decision \in {"BLOCK", "REQUIRE_APPROVAL"}
             \/ Evaluated(a).risky

\* A caller that got its answer left a complete trail: the audit row, the
\* approval a REQUIRE_APPROVAL waits for, and the incident of a plan that was
\* blocked, held or risky.
EvidenceComplete ==
    \A a \in answered :
        /\ IsEvaluation(a)
        /\ Evaluated(a).decision = "REQUIRE_APPROVAL" => approvals[a] # NoApproval
        /\ (Evaluated(a).decision \in {"BLOCK", "REQUIRE_APPROVAL"}
            \/ Evaluated(a).risky) => a \in incidents

\* The resolution an approval shows is in the ledger, unless its resolver is
\* between its two writes or died there: however two resolvers interleave, the
\* one whose word stands has a row.
ResolutionRecorded ==
    \A a \in Ids :
        (approvals[a] \in Resolutions /\ a \notin lost \cup HalfResolved(Writers))
        => \E i \in DOMAIN entries :
              entries[i].payload = [event |-> "HUMAN_APPROVAL", audit |-> a,
                                    resolution |-> approvals[a]]

\* A resolved approval never becomes pending again, whoever evaluates or
\* resolves at the same time (create_approval is INSERT OR REPLACE).
ResolvedStaysResolved ==
    [][\A a \in Ids : approvals[a] \in Resolutions => approvals'[a] \in Resolutions]_vars

\* What the trail keeps of a payload: nothing of the policy.
Gist(payload) ==
    IF payload.event = "EVALUATION"
    THEN [event |-> payload.event, decision |-> payload.decision, risky |-> payload.risky]
    ELSE payload

Trail == [i \in DOMAIN entries |-> Gist(entries[i].payload)]

\* The resolution that a handler between its two writes has yet to record.

Word(w) ==
    IF At(w, "resolved") \/ At(w, "signing")
    THEN {[event |-> "HUMAN_APPROVAL", audit |-> call[w].audit,
           resolution |-> call[w].resolution]}
    ELSE {}

\* The store calls of handlers that interleave and die anywhere implement
\* EvidenceTrail: evidence is written after the row it points at and before the
\* answer, an evaluation is answered once, a resolved approval never waits again,
\* and the ledger claims no resolution that nobody gave, and none twice.
Abstract == INSTANCE EvidenceTrail WITH
    Workers <- Writers,
    rows <- Trail,
    word <- [w \in Writers |-> Word(w)]

ImplementsEvidenceTrail == Abstract!Spec

\* An audit row whose policy reads no activation or redeployment fell between
\* names the policy that decided: its sha256 is that policy's, signature_valid
\* vouches for it, and without signature_valid the shipped file decided.
QuietRowNamesPolicy ==
    \A a \in DOMAIN entries :
        (IsEvaluation(a) /\ ~Evaluated(a).torn)
        => /\ Evaluated(a).sha = Evaluated(a).under
           /\ IF Evaluated(a).verified
              THEN Evaluated(a).under = Evaluated(a).bundle
              ELSE Evaluated(a).under = FilePolicy

\* "Every decision records policy identity/version/hash" (docs/ARCHITECTURE.md:38):
\* the code refutes it for an evaluation that a policy change overtakes.
EveryRowNamesPolicy ==
    \A a \in DOMAIN entries :
        IsEvaluation(a) => Evaluated(a).sha = Evaluated(a).under

\* The "Hash-chained audit ledger" of docs/THREAT_MODEL.md:47: the code refutes
\* it, for two appends that read the same head.
LedgerChained == Valid

\* The ledger only ever fails verification after two appends overlapped.
BrokenOnlyByOverlap == ~Valid => overlapped

\* A ledger that fails verification fails it for good, and /ready with it: no
\* later append can hide a broken link.
BrokenStaysBroken == [][~Valid => ~Valid']_vars

=============================================================================
