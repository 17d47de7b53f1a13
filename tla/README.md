# TLA+ verification of TrustKernel

TrustKernel is a gateway that evaluates the action plans of AI agents before they run: a plan is
decided under a policy, the decision is recorded in a hash-chained ledger, and people approve what
the policy does not allow outright. This directory holds TLA+ models of the service under
`src/backend/app`, the TLC configurations that check them on small instances, and proofs that the
TLA+ proof system checks for every value of the constants.

Everything is translated from the code. Paths below are relative to `src/backend/app/` unless they
start with `src/`.

## 1. The system

### 1.1 How it runs

`main.py`, `v13_api.py` and `v14_api.py` declare the HTTP handlers as plain `def` functions, so the
server runs each request on a thread of a pool, and a production deployment runs several replicas
over one database. All durable state is behind `services/storage.py` (SQLite) or
`services/postgres_storage.py`. **Each method of the store is one locked transaction; almost every
operation of a service is several of them.** Nothing is held between two calls. That is where this
code is hard to test, and it decides the grain of the models: *one store call, one step*. Reads that
stand next to each other with no write of the same handler between them are joined only where stated,
with the reason why what comes between them cannot matter.

### 1.2 Components

| component | state it keeps | operations | talks to | what makes it correct |
|---|---|---|---|---|
| policy bundles, change governance (`policies`, `policy_changes`, `members`, `approval_groups`) | bundles and signatures, the binding, change requests, votes, members, groups | publish, activate, propose, vote, member and group upserts | store; read by evaluation | the policy served was signed and, where governed, counted a quorum; statuses never run ahead of the binding; no request is stranded with its quorum |
| audit ledger (`audit`) | rows, each with the hash of the one before | append, verify, list | every decision and resolution | the chain verifies; a broken chain is never hidden |
| evaluation and evidence (`engines/kernel`, `approvals`, `incidents`) | approvals, incidents | evaluate a plan, resolve an approval | policies, ledger, engines | row, approval and incident agree; an answered caller left a full trail; the row names the policy that decided |
| decision engines (`engines/policy`, `taint`, `graph`, `repair`, `risk`, `simulator`) | none | pure functions of a plan | called by the kernel | priorities of decisions, taint through dependencies, no sensitive data on an external sink |
| signed messages, workload keys (`messaging`, `workload_identity`, `workload_attestation`, `replay`) | nonces, public keys, the replay guard | verify, register, rotate, revoke | called before a decision | a message or an envelope is accepted at most once; an agent keeps an active key |
| quotas (`quotas`) | sliding windows in memory or in Redis | check-and-count, configure | gateway middleware | no interleaving admits more than the limits |
| workspaces, keys, sessions (`workspaces`, `sessions`) | workspaces, API keys, sessions | create, authenticate, rotate, revoke | every handler | a workspace keeps a key somebody has; revoked credentials are refused from then on |
| MCP registry and its governance (`mcp_registry`, `mcp_governance`) | servers, their trust, proposals, votes | register, propose, vote | plan enrichment | a server is replaced only by a change that was counted a quorum; statuses agree with the registry |
| federated identity (`oidc`) | metadata and key caches | verify a token | external provider | withdrawn keys stop being accepted, new ones are found |
| storage and migrations (`storage`, `postgres_storage`, `persistence`, `bootstrap`) | all tables, applied migrations | one transaction per method; migrations at startup | everything | tables and recorded versions agree; no replica waits for ever |
| agents, evidence export, telemetry, key custody, HTTP hardening, deployment checks, scenarios, SDK, scripts | rows or configuration only | upserts, exports, checks | - | - |

### 1.3 What is hard here

Interleavings of handlers between store calls (votes, resolutions, ledger appends, key rotations);
a handler or the whole process dying between two writes (there is no transaction around an
operation); values read and used later (the policy, the threshold of a group, the status of a
request, the head of the ledger); keys replaced while what they signed is still in use; windows of
time that must fit each other (nonces, envelopes, quotas); a time taken before the lock it is used
under; caches that several threads share without a lock; replicas that migrate one database at once;
labels that pass from action to action through a plan of any length. `PROJECT.json` lists each hazard
at its line with the properties that cover it, or a note why none does.

## 2. The modules

| module | stands for | kind |
|---|---|---|
| `Rbac` | members, roles, capabilities and approval groups | component, shared |
| `GovernedActivation` | what governed promotion promises | abstract specification |
| `PolicyGovernance` | bundles, binding, requests, votes step by step; extends `Rbac` | component |
| `PolicyGovernanceProofs` | theorems about it | proofs |
| `AuditLedger` | `append` as its two store calls, `verify` | component, shared |
| `Evaluation` | `evaluate_plan` and the resolution of approvals over the ledger and a changing policy; extends `AuditLedger` | composition |
| `EvidenceTrail` | what evaluations promise whoever reads their evidence | abstract specification |
| `EvaluationProofs` | theorems about it | proofs |
| `WorkloadKeys` | registration and rotation of one agent's public keys, by store call | component |
| `ReplayGuard` | the clock, the nonce table and the replay guard of envelopes | component |
| `SignedMessages` | verification of signed messages and envelopes; extends the two before | composition |
| `SignedMessagesProofs` | theorems about the three | proofs |
| `QuotaWindow` | both quota backends, the time taken before their lock, replacements and restarts | component |
| `QuotaWindowProofs` | theorems about it | proofs |
| `FederatedIdentity` | the verification of a provider's tokens with its two caches | component, shared |
| `WorkspaceAccess` | creation, API keys, sessions, and the guards of every request; extends `Rbac` and `FederatedIdentity` | composition |
| `WorkspaceAccessProofs` | theorems about the two | proofs |
| `MCPGovernance` | the MCP registry, its change requests and votes step by step; extends `Rbac` | component |
| `Decision` | rules, taint, repair and graph patterns as functions of a plan | operators |
| `DecisionProofs` | theorems about them, for plans of any length | proofs |
| `Gateway` | the loop of `evaluate_plan` while the registry changes; extends `MCPGovernance` and `Decision` | composition |
| `GatewayProofs` | theorems about the registry, its votes and the loop; extends `DecisionProofs` | proofs |
| `AtomicMigration` | what the migrations promise whoever deploys | abstract specification |
| `Startup` | replicas that choose a store, migrate it and import the services | component |
| `StartupProofs` | theorems about it | proofs |
| `MCPolicyGovernance`, `MCEvaluation`, `MCSignedMessages`, `MCQuotaWindow`, `MCWorkspaceAccess`, `MCGateway`, `MCStartup` | instances for TLC | model checking |

`Rbac`, `AuditLedger`, `WorkloadKeys`, `ReplayGuard` and `FederatedIdentity` state their part of the
state (`rbacVars`, `ledgerVars`, `keyVars`, `guardVars`, `fedVars`), their part of Init and their
operations; the modules that extend them conjoin those with their own. Operators whose comment begins
"Mutation of X" or "Mutant:" are changed forms of the definition they stand before, which no behaviour
uses: substituting one for it shows that the property it belongs to depends on the code (`mutants` in
`PROJECT.json`).

### 2.1 PolicyGovernance

One workspace and one profile, so the binding is one variable.

| variable | code |
|---|---|
| `roles`, `groups` | tables `workspace_members`, `approval_groups` |
| `requireApproval`, `fourEyes` | `TRUSTKERNEL_REQUIRE_POLICY_APPROVAL` or production; `TRUSTKERNEL_POLICY_FOUR_EYES` |
| `signingKey`, `signedWith` | the deployed signing key; the key a bundle's stored signature was made with, 0 for unpublished |
| `binding` | `workspace_policy_bindings.bundle_id` |
| `requests`, `votes` | tables `policy_change_requests`, `policy_change_votes` |
| `call` | the votes in progress: a thread inside `PolicyChangeService.vote` and its handler |
| `certified`, `everBound`, `interrupted`, `overtaken` | history; only properties read it |

`vote` is: checks (`BeginVote`), `upsert_policy_change_vote` (`RecordVote`), then either the
rejecting update (`RejectRequest`) or the second `get`, which reads the votes (`ReadVotes`) and then the
group, and the comparison (`CountApprovals`), `bind_policy_bundle` (`ActivateBundle`) and the final
status (`MarkActivated`). `Crash` ends a vote anywhere; `RotateSigningKey` redeploys the service, which ends
all of them. `Propose`, `Publish` and `ActivateDirectly` are one step each: they write once.

Abstractions. A document is its identity; those considered pass `validate_policy_document`, which
keeps no state. Emails stand for their lower-case class, which is how the code compares them. The
reads of `vote` up to its first write are one step: what a role or group change between them adds is a
vote by somebody who was permitted piecewise, whose approval then counts like any other's, and no
property is about who may vote; a rejection after the status was read finds the vote in progress in
either case. What the second `get` reads of the request (its bundle, who asked) never changes; its
votes and its group are two steps. Groups change by an operator's call: no route changes a group after
the workspace was created. The diff and the impact report of a request are not modelled: nothing
reads them to decide.

### 2.2 GovernedActivation and the refinement

The abstract specification knows neither handlers nor store calls. It has the bundle each request
asks for, who approves it *now*, how many it needs *now*, the tallies taken of it, which requests were
counted, and the bundle in force. `Tally` takes the approvals as they stand at one instant, `Certify`
finds such a tally enough for the threshold of a later one, and an activation must be of a certified
request, unless approval is not required. `PolicyGovernance` implements it under the mapping at its
end (`target`, `approvals`, `threshold` read from the rows, `tallies` from the calls that have read
their votes, `quorate <- certified`, `active <- binding`).

What is *not* promised, because the code does not keep it, is that a quorum ever stood at one instant.
`get` reads the votes and then the group (`policy_changes.py:54-55`, `mcp_governance.py:123-124`): a
vote may read one approval while two are asked for, the approver votes REJECT instead, the group is
lowered to one, the first vote reads the group and binds the bundle. Nor is it promised that the quorum still stands when
the bundle is bound: steps of others come between. No document says otherwise, so this is a limit of
the specification and not a finding; `ImplementsGovernedActivation` is what does hold.

### 2.3 AuditLedger and Evaluation

`append` reads all rows, takes the hash of the last (`ReadHead`) and inserts (`InsertRow`).
The hash of a row stands for its position: a hash covers the row's unique id, so no two rows share
one. `Valid` is `verify`.

`evaluate_plan` is: `load_policy` (`BeginEvaluation`), the second `load_policy` inside
`policy_metadata` (`HashPolicy`), the binding read there (`DescribeBinding`), the decision
and the ledger's read (`Decide`), the insert (`RecordDecision`), the approval (`CreateApproval`) and
the incident (`CreateIncident`), after which the caller has its answer. A resolution is the
read-change-write of the approval row (`Resolve`) and the two calls of its ledger row
(`BeginResolutionRow`, `RecordResolution`). `Publish`, `Activate` and `Redeploy` change the policy
underneath; a redeployment ends every handler.

| variable | code |
|---|---|
| `entries`, `head` | table `audit_entries` in order of `seq`; the hash an append in progress has read |
| `signature`, `binding` | whether a bundle's signature verifies under the deployed key; the binding |
| `call` | the handlers in progress |
| `approvals`, `incidents` | `approvals.resolution` by audit id; audit ids with an incident |
| `overlapped`, `answered`, `lost`, and `under`, `torn` of a row | history; only properties read it |

`EvidenceTrail` has neither policies nor hashes nor threads at a step: rows that only say what was decided,
approvals, incidents, the evaluations that were answered, and for each worker the resolution it gave and
has yet to record. A row may be held for approval, or answered, only once it is there, and answered only
once and with its approval; a resolution gives at most one row, and no row comes from elsewhere. What it
leaves open is what the code leaves open: an evaluation that is never answered, and a word that is lost
between its two writes.

Abstractions. The decision is any verdict of `Verdicts` (the engines are pure). Enrichment of the
plan, identity checks before the decision and telemetry are left out: they write none of this state.
`Resolve` joins the read of an approval and its write: the fields it preserves are never changed by
anyone, so its outcome does not depend on what comes between. Other writers of the ledger
(`main.py:241`, `360`, `418`) have the same two steps as a resolution's row and are not modelled apart.

### 2.4 WorkloadKeys, ReplayGuard and SignedMessages

| variable | code |
|---|---|
| `keyStatus` | `workload_identity_keys.status` of one agent's keys, by fingerprint |
| `keeping` | threads in `register_public_key` or `rotate_public_key` |
| `clock` | seconds; every clock the code reads |
| `nonces` | `message_nonces.expires_at` |
| `guard` | the expiry of each nonce in `InMemoryReplayGuard._seen`, or of its Redis key |
| `at` | threads in a `verify_and_mark` or in `verify_attested_signature_envelope` |
| `load` | what is sent in this behaviour, and how many registrations may still begin |
| `crossed`, `revived`, `restarted`, `barred` of a delivery, `accepted`, `twice`, `overlapped`, `stalled`, `early`, `late` | history; only properties read it |

Both `verify_and_mark` take the time and check the timestamp (`Receive`), call `nonce_seen`, which
purges what had expired at the time taken (`LookUpNonce`), read the key and check the signature
(`CheckSignature`; the HMAC key of the workspace is `SharedKey`, which nothing revokes), and call
`record_nonce` (`RecordNonce`), whose INSERT OR IGNORE does not say whether the nonce was there.
The envelope verifier checks everything that has no effect at the time it took (`CheckEnvelope`) and
then calls the guard's `consume`, one atomic step at its own time (`ConsumeNonce`). A rotation
looks for the key's fingerprint (`FindKey`), inserts it (`CreateKey`), reads the agent's keys again
(`ListOthers`) and revokes the others one call at a time (`RevokeOld`). Threads die at any step
(`Drop`, `AbandonKey`); `Restart` ends all of them and empties a guard in memory.

Abstractions. One clock serves everybody and is read in whole seconds, as both verifiers truncate
it; `stalled` is how a verifier whose time has passed shows. `genuine` says that the signature is the
key's over exactly this message and that the key is its sender's; canonical forms, digests and
attestation fields decide nothing else. An agent is one set of keys. The loop of a rotation
goes through its rows newest first, here in any order. No route revokes a key except a rotation. The
envelope verifier is a library entry point: no route of the service calls it, and it is modelled as
its tests call it, with the guard's `consume` as its validator. `GuardInMemory` FALSE is the guard in
Redis; a second replica with a guard of its own behaves as one that was lost.

### 2.5 QuotaWindow

Buckets are kept per workspace, so one workspace stands for each of them.

| variable | code |
|---|---|
| `load` | the two limits as configured, any integers; what is still to come in the behaviour |
| `current`, `created` | `QuotaService._backend`; the in-memory backends of this and earlier configurations |
| `bucket` | the deque of `InMemoryQuotaBackend._events`, or the sorted set in Redis |
| `expires` | the expiry of the key in Redis |
| `call` | the requests between `time.time()`, the read of the backend and its call |
| `log`, `swaps` | history: every entry ever added; when a backend was replaced |

`consume` takes the time (`TakeTime`), reads the backend (`ReadBackend`) and calls it (`Consume`):
trim, count and append are one step, under the backend's lock or in the script of Redis. `Trimmed` is
the loop of `_trim`, which looks at the head alone; `Pruned` is the script's ZREMRANGEBYSCORE, and a
key that expired. Redis goes by its own time, a deque by the time the request brought. `LoseReply`
is the socket's timeout, before or after the script. `Inspect` is `status`, which trims as well.
`Reconfigure`, `Restart` and `Reset` are the ways a count is lost.

Abstractions. One clock in seconds (the code's floats only order the entries more finely), which
`MaxStall` keeps within a delay of a request's own time. Key names, connection options and the digest
of the script are left out.

### 2.6 FederatedIdentity and WorkspaceAccess

| variable | code |
|---|---|
| `mode` | a static key set, a configured URL, or discovery |
| `site`, `published` | external: the provider's `jwks_uri`, the kids it serves at each URL |
| `cachedKeys`, `cachedAt`, `cachedSite`, `cachedSiteAt` | the four fields of the verifier's caches |
| `verify` | the threads in `verify` |
| `created` | how many writes of `WorkspaceService.create` are done |
| `keys`, `held` | `workspace_keys.status` by key; external: the keys whose reply reached somebody |
| `sessions` | table `member_sessions` |
| `roles`, `groups` | of `Rbac` |
| `at` | the requests between their guards |
| `until`, `moved`, `known` of a verification, `barred` and `could` of a request, `overlapped` | history; only properties read it |

`verify` asks `_jwks` for the key set (`AskKeys`): from the cache, or from the URL of the cached
metadata, or by discovery (`Discover`, `StoreMetadata`, `DateMetadata`), then fetches it (`GetKeys`)
and stores it (`StoreKeys`, `StampKeys`). An unknown kid asks again, once, past the key cache but not
past the metadata's. A cache is two fields set one after the other, so each is a step of its own.

A request authenticates its key (`Authenticate`), learns its actor from a header, a session or a token
(`TakeHeader`, `VerifySession`, `Federate` to `Federated`), reads the member's row (`Authorize`) and
operates: `RotateKey`, the alternative's search and the revocation (`ChooseKey`, `RevokeKey`),
`SetMember`, `IssueSession`, and `Use` for the operation of any other component. The first write
of `create` is the workspace, then its key, the owner and two groups, then the reply.

Abstractions. Signature, issuer, audience, expiry and role map decide on the token alone: a token
here passes them. A session's token is the row it names. `_oidc_actor` then reads the member as every
other path does. The order of `workspace_keys` and the names of keys decide nothing.

### 2.7 MCPGovernance, Decision and Gateway

Nothing relates two rows of the registry, so one canonical URI stands for each of them.

| variable | code |
|---|---|
| `key` | the deployed `TRUSTKERNEL_MCP_GOVERNANCE_KEY` |
| `server`, `minted` | the row of `mcp_servers`; how many ids `register` has made |
| `requests`, `votes` | tables `mcp_registry_change_requests`, `mcp_registry_change_votes` |
| `call` | votes, and registrations by `POST /api/mcp/servers`, in progress |
| `evaluation` | one plan in the loop of `evaluate_plan`, its actions as prepared so far |
| `certified`, `registered`, `unsettled`, `alone` of a call | history; only properties read it |

A vote is: checks (`BeginVote`), its row (`RecordApproval`, or `RecordRejection`, where the status is
in the same transaction), the second read of the votes (`ReadVotes`), that of the group with the
count (`CountApprovals`), then `register` as its lookup
(`LookForVote`) and its upsert (`UpsertServer`), then `MarkApplied`. A direct registration has the
same two steps. `Redeploy` changes the key; `Crash` ends a call anywhere.

`MCPGovernance` implements `GovernedActivation`, the abstract specification `PolicyGovernance`
implements: content of the row for the bundle in force, wherever the direct route is not used. The two
governance services promise the same, and leave the same open (2.2).

`Decision` has no state. `Rule` names the rules of `evaluate_action` in order; `Deciding` is the first
that matches. `ByAction` is the fold of `TaintState.observe` (`Observed`) over the plan, `Repaired` is
`repair_action`, `Effective` the plan with its rewritten actions, `Egress` the graph pattern that
blocks a plan as a whole, `FinalDecision` the maximum by `PRIORITY`. `Gateway` prepares the actions
one by one (`Prepare`, with `enrich` against the registry of that instant) and then decides
(`Conclude`). `WellOrdered` in its properties is what the code needs and does not check: ids are
unique and dependencies come earlier. The runs include plans that are not. `Reached` is what taint is
meant to be, stated without the order in which it is found: the least set of actions that holds the
sources of a label and whatever depends on a member.

Abstractions. What regular expressions, hashes and scopes find in an action is a set of `flaws`.
Amounts and fan-outs are ranks by the limits they exceed. Risk scores, simulated outcomes and reasons are
texts and numbers no decision reads. A policy is the set of its switches.

### 2.8 Startup

| variable | code |
|---|---|
| `replica`, `starts` | the processes, and the open transaction of one that migrates |
| `holder` | the advisory lock of `_init_schema` |
| `tables`, `history` | committed: the tables of each version; `schema_migrations` |

A release is the sequence of the checksums of its `MIGRATIONS`. A replica chooses its store
(`Start`), waits (`AcquireLock`, or `LockTimeout` by `statement_timeout`), and goes through
the versions: recorded and equal (`SkipVersion`), recorded and different, or failed
(`RefuseVersion`), or new (`RunStatement` for each statement, `RecordVersion`). `Commit` publishes the
work of the transaction. `ImportServices` is the import of the services on the chosen store; it is
where `mcp_governance.py` makes its tables. `Die` rolls back, at any step.

`AtomicMigration` is what a deployment may count on: a release migrates by one step, which records all
of its missing versions and makes their tables, and only where every recorded checksum is its own;
otherwise nothing changes. `Startup` implements it with `recorded <- history`, the versions whose
tables are all committed for `made`, and `past` the replicas that passed their migrations; the lock,
the open transaction and what becomes of it are not seen.

Abstractions. DDL is transactional in PostgreSQL (external). SQLite creates what is missing of its own
file and takes no part in the race; the translation of SQL is left out.

## 3. What is checked

| run | shows |
|---|---|
| `policy_governance` | with two overlapping votes, direct activation, role, group and key changes and crashes: no request is stranded with its quorum, ACTIVATED was bound, the served policy was governed, a rejection bars later votes, and the handlers implement `GovernedActivation` |
| `policy_rejection` | *violated:* a rejected request can still be activated by a vote already in progress |
| `evaluation` | with two handlers, policy changes and crashes: the handlers implement `EvidenceTrail`, evidence is complete when a caller was answered, the resolution that stands is recorded, a quiet row names its policy, the ledger breaks only by overlapping appends and then for good |
| `audit_chain` | *violated:* the ledger does not stay chained |
| `recorded_policy` | *violated:* an evaluation can record a policy that did not decide it |
| `signed_messages` | with repeated, overlapping and stalled deliveries, forgeries, rotations, restarts and time: a message is accepted twice only by a named race, an envelope only by a lost guard or when accepted early or late, forgeries burn no nonce, revoked keys stay barred, an agent keeps a key and a rotation leaves one, unless registrations overlap or one is of a revoked key |
| `nonce_replay` | *violated:* a message can be accepted twice inside the replay window |
| `one_active_key` | *violated:* two rotations of one agent's key leave it with no active key |
| `quota_window` | with delayed requests, replaced backends, restarts, resets and lost replies: no backend exceeds its limits within a window, two backends count one minute only around a replacement, and a refusal is owed to what was admitted |
| `workspace_access` | with two requests between their guards, key, role and session changes and a provider that withdraws, publishes and moves: only what was good on arrival is let through, the workspace keeps a key somebody has, withdrawn signing keys expire and new ones are found |
| `gateway` | with votes, direct registrations, a group change, redeployments and crashes: statuses agree with the registry, a reply names the server, votes implement `GovernedActivation`; with plans of three actions beside it: what runs takes no sensitive data outside, repairs converge, untrusted influence needs an approval |
| `startup` | with three replicas of different releases that race, die and start again: tables and recorded versions agree, migrations implement `AtomicMigration`, and no replica waits for the lock for ever |

### 3.1 Disagreements between documents and code

1. `docs/MASTER_UPGRADE_V1_2.md:27`: "A rejected request never activates the bundle." Two votes pass
   the PENDING check; one rejects; the other counts its quorum and binds the bundle, and the status
   ends ACTIVATED. `RejectionBarsNewVotes` is what does hold: only a vote that was in progress at the
   rejection can do this.
2. `docs/THREAT_MODEL.md:47`: "Hash-chained audit ledger and persistent incidents." Two appends read
   the same head; from then on `verify` answers "previous hash mismatch" and `/ready` stays degraded.
   `BrokenOnlyByOverlap` and `BrokenStaysBroken` are what holds.
3. `docs/ARCHITECTURE.md:38`: "Every decision records policy identity/version/hash". The policy is
   loaded once to decide and again to be recorded; a change in between is recorded.
   `QuietRowNamesPolicy` is what holds.
4. `docs/MASTER_UPGRADE_V1_2.md:43`: "A message nonce is accepted only once inside the replay window."
   Two deliveries of one message look its nonce up before either records it, and both verify.
   `TwiceOnlyByRace` is what holds.
5. `services/workload_identity.py:44`: "This gives production deployments a deterministic
   one-active-key posture". A rotation registers, lists and revokes in calls of its own: of two that
   overlap, each may revoke the other's replacement, and the agent has no active key (`crossed`). A
   rotation back to a key that was revoked gets its REVOKED row as the replacement and revokes every
   other key, with the same end (`revived`). The run's trace is the first case. `KeyKept` and
   `RotationLeavesOne` are what holds otherwise.

One more comes from reading and needs no run. `services/persistence.py:10` says "PostgreSQL is opt-in
with TRUSTKERNEL_DB_BACKEND=postgres", but the import of `mcp_governance.py` calls `executescript`
(`mcp_governance.py:35`), which the connection of the PostgreSQL store does not have
(`postgres_storage.py:269`): after its migrations were committed, the start fails, at every attempt.
`ImportServices` does as the code does, and `SchemaMatchesHistory` holds all the same: what such a
start leaves behind is whole.

Some things the runs show that no document speaks of. The guard remembers a nonce for 300 s from its
acceptance and an envelope lives up to 300 s from its issue, which may be 60 s ahead: one accepted
before its issue may be accepted again (`early` in `EnvelopeTwiceOnlyIf`). A deque admits the day's limit over a day
less the longest delay only: who took its time earlier finds entries trimmed by who came later
(`Reach` in `DayWindowHolds`). A lost reply of a key rotation leaves an active key nobody has, which
counts as the alternative for a revocation (`WorkspaceReachable`). The time of one verification may be
stamped on the key set of another, which adds a verification's length to every bound
(`WithdrawnKeyExpires`, `NewKeyHonoured`). A request may be activated that held a quorum at no
instant (2.2). Two resolvers may write their approval rows in one order and their ledger rows in the
other, and two registrations of one new URI may answer different ids: `ResolutionRecorded` and
`ReplyNamesServer` are silent on the first and about registrations that ran alone, and `hazards` in
`PROJECT.json` says of each such case that nothing covers it.

### 3.2 Bounds, and why they are enough

- `policy_governance`: the owner, who proposes and may be the named member of the group, and two
  approvers: with a threshold of two there are quorums with and without the requester. Two calls:
  every race here is between two votes; a third adds none, since what a vote reads and
  writes is the request and its votes. One request and two bundles: the binding may hold another
  bundle, bound directly in the development deployment. `MaxVotes` 4: both approvers vote, and vote
  again. `MaxChanges` 1: one role, group or key change at any point, the two reads of a count included,
  so that a withdrawn approval is counted under a lowered threshold.
- `evaluation`: two handlers and three rows: two evaluations and a resolution, or an evaluation and
  two resolutions. `MaxChanges` 2: an activation and a redeployment, so that a bound bundle goes stale.
  `MaxEvents` 3: two evaluations around one change, or one around two; a row tells of its own
  evaluation alone, so that the policy reads of two do not need two changes each. One verdict per kind of
  evidence: none, approval with incident, incident for its risk alone.
- `signed_messages`: two verifiers and two key holders: every race is between two of a kind, or
  between a verifier and a rotation. A message, a forgery with its nonce, and an HMAC message sent
  later; two envelopes, one issued ahead of the clock. `Skew` 1 and `MaxClock` 3 hold a whole window
  (twice the skew) and the second after it; `MaxLife` = `GuardTtl` = 2 as both are 300 s in the code, and
  `FutureSkew` 1. Three keys: one in use, its replacement, and the replacement of that. `Loads` splits
  the runs by what is sent and how many registrations there are, so that messages, a message during
  rotations, envelopes, and rotations by themselves each get their longest behaviours.
- `quota_window`: two requests: a race is between who trims and who counts. Two backends in memory and
  Redis, so that each kind of replacement happens. A minute of 1 and a day of 3 are the smallest in
  which an entry leaves the minute and stays in the day; five seconds hold a whole day, the delay and
  the second after it. `MCLoads` splits the behaviours: three requests alone under both orders of limits,
  replacements, a reset with limits that are raised to their minimum.
- `workspace_access`: two requests and three keys: the one in use, its replacement and one whose reply
  is lost; an owner and a member. Five loads: keys rotated and revoked, a legacy workspace, members and
  sessions, a provider that changes once over three seconds, and one that changes twice. With a
  cache period and a verification of one second each, `MaxClock` 3 is the bound of a provider that stays;
  that of one that moved (5) lies beyond it and rests on its theorem.
- `gateway`: three people, two requests and two calls: as for `policy_governance`. Four votes on one
  request with a change, two requests with a vote each, one beside two direct registrations. Plans have
  a source, a step between and a sink, with every shape of dependency among them, also on a later
  action, and a shared id: taint, sanitizing, repair and egress all need at most a path of two edges.
  Voting and plans meet in the load with one registration, which is the only thing `Prepare` can see.
- `startup`: three replicas: one with the lock, one that waits, one of another release. Releases: one,
  its successor, and one whose first migration was edited; two statements, so that a transaction can be
  cut in its middle; two starts, so that a failed replica comes back.
- The proofs cover any number of people, votes, requests, bundles, handlers, rows, messages,
  envelopes, keys, backends, replicas and releases, and any skew, lifetime, window, limit, delay and
  clock.

`CHECK_DEADLOCK FALSE` everywhere: the bounds on counters end every behaviour, and the service may
be idle.

### 3.3 Fairness

A vote, an evaluation, a verification, a rotation or a registration may die at any step and nothing in
the code resumes it, so nothing in those components is bound to happen, and their specifications state
no fairness. Startup is different: replicas wait for each other.

- `LockFairness` is weak fairness of `AcquireLock(r) \/ LockTimeout(r)` for each replica. It is what
  PostgreSQL gives a session that waits: the advisory lock is handed on when it is released, and
  `statement_timeout`, which `_acquire_migration_lock` sets around the wait and clears after it, ends the
  wait when it is not. Nothing is assumed of the replica that has the lock: its timeout is cleared, it may
  hang for ever, and `WaitIsBounded` holds all the same.

## 4. What is proved

`PolicyGovernanceProofs`, `EvaluationProofs`, `SignedMessagesProofs`, `QuotaWindowProofs`,
`WorkspaceAccessProofs`, `DecisionProofs`, `GatewayProofs` and `StartupProofs`, for every value of the constants that
satisfies the named assumptions (`RbacAssumption`, `GovernanceAssumption`, `LedgerAssumption`,
`EvaluationAssumption`, `GuardAssumption`, `MessageAssumption`, `QuotaAssumption`,
`FederatedAssumption`, `AccessAssumption`, `RegistryAssumption`, `GatewayAssumption`,
`ReleasesAssumption`: sets of rows are what the tables hold, bounds are naturals, "no row" is not a
row, and the guard remembers a nonce at least as long as an envelope may live, as both defaults do; a
guard built with a shorter `ttl_seconds` is outside it. A minute and the longest delay fit into a day,
and Redis keeps its key for at least one).

**PolicyGovernance.** `TypeInv` strengthens `TypeOK` by two facts the types need: a call in
progress is about an opened request, and key numbers never pass the count of changes.
`VoteInv` adds what each step of a vote has established (`StepsDone`: at `quorate` the request is
certified, at `bound` it was bound), that a request rejected with a vote still in progress on it is
in `overtaken`, that the bound bundle of a governed deployment belongs to a certified request
(`BindingCertified`), and `ActivatedWasBound`, which is not inductive without `StepsDone`.
From these follow `ServedPolicy`, `RejectionHolds` and the refinement `VotesGovernActivation`: a read
of the votes is `Tally`, a count that finds them enough `Certify`; a vote that ends with a tally in hand
is `Discard`, and every other step maps to one abstract step or to a stutter. `QuorumIsSettled` rests on
`AllAttended`, which is over `TypeInv` inductive where `QuorumNotStranded` is not: of two votes that
complete a quorum the first may have read too few approvals, so it is not enough that some vote is still
unsettled. One must be that either has yet to read the votes or has read enough of them; a step that
could complete a quorum leaves such a vote, or the request `interrupted`.

**Evaluation.** `TypeInv` is `TypeOK` with `HeadsHeld` (a head is held exactly by the calls at a step
between the read and the insert) and `RoomLeft` (rows plus appends underway stay within
`MaxEntries`). `ChainInv` bounds the held heads by the ledger and makes every row chain to its
predecessor unless appends overlapped. `TrailInv` ties each call to its evaluation row, and approvals
and incidents to theirs. `ResolutionInv` follows a resolution from the approval row to the ledger.
`PolicyInv` follows the three policy reads of a call that no change has torn. `OnceInv`, that a handler which
still records has not answered, is what the refinement `HandlersLeaveATrail` needs beyond these: the insert
of a row is `Evaluate`, the approval `Hold`, the incident `Answer`, a resolution `Resolve` and then
`Record`; deaths are `Forget`, all else stutters.

**SignedMessages.** `KeyInv` says that two registrations in progress have crossed, and what an
undisturbed rotation has established (`RotationStands`): its own key is active, and once it has listed
the others, no key outside its list and its own is active. `KeyKept` alone is not inductive: the
revocations that remain must be known to spare the rotation's key. `MessageInv` follows a delivery
(its time is past and near the timestamp; unseen without a race means not accepted) and an
accepted message (`HeldOrPast`: its nonce is held to the end of its window, or the window is over),
which is where twice the skew is needed. `EnvelopeInv` has the same for the guard (`HeldOrExpired`).

**QuotaWindow.** `QuotaInv` is `TypeInv` (with finite logs, so that counting means something), that the
time of a call is past and at most a delay old (`TimeInv`), that an entry a bucket has lost is too old
for any call still to come, by a day and, in a deque, the longest delay less (`KeptInv`), that the order
of a log differs from that of its times by no more than a delay (`OrderInv`), and that what a replaced
backend holds, or will be given, is not later than a replacement (`Retired`). From these, whatever a
window holds is still counted by the request that would exceed it, so that the properties themselves,
conjuncts of `QuotaInv`, are preserved. `MinuteHolds` needs that a minute and a delay fit into a day.

**WorkspaceAccess.** `AccessInv` has four parts. `FedInv` follows the four cache fields, each of which
may be set by a different verification: an old URL is dated no later than a verification after the
move (`SiteInv`); a key set that holds a withdrawn key was fetched at a time bounded by its
withdrawal, later by a cache period and a verification if the provider moved (`FetchedInv`, `Slack`),
stored with a time at most a verification later (`CachedInv`), found before that expires (`FoundInv`);
a key that was published before is missed only under an old URL (`KnownInv`). `CredInv` says that what
bars a request lasts and stops it at its guard. `ReachInv` says that a handler in the middle of a
revocation has a usable key of its own unless revocations overlapped, so that revoking another key
leaves one, and revoking its own needs the alternative it found. `AccessTypeInv` ties keys and `held`
to the writes of the creation.

**Gateway.** `RegistryInv` is `TypeInv`; `RequestInv`: a vote in progress on a request that is no longer
PENDING was overtaken, and what was registered is accounted for by its status, by a vote about to set
it, or as overtaken; `RowInv`: a registration that looked alone writes the row it read; and `Backed`: a
vote past its count, and the content it is about to write, are of a certified request, which is what
the refinement needs of the step that writes. Its reads and counts map as those of `PolicyGovernance`. `GatewayKeepsRegistry` shows that the loop changes nothing
of the registry, so that all of it holds of `GatewaySpec`. `PlanInv` follows the loop: what is
prepared is a prefix of the plan's length, and whole once it is decided. `PreparedInv` adds that
enrichment changes no id and no dependency, so that a well-ordered plan stays one, and that what was
decided is the decision of the prepared plan; with it the lemmas of `DecisionProofs`, which are about any plan,
become `FlowsContained`, `RepairConverges` and `InfluenceEscalates` of every reachable state.

**Decision.** A plan has any length, and every theorem here is over it. The induction theorems of the
library take a predicate as a parameter, which no prover here can instantiate; `Induction` is about a
*set* of positions instead, whose complement would have a least member (`LeastNumber`, from the
well-foundedness of < on the naturals). With it the fold `ByAction` is shown to satisfy the equation it
is defined by (`FoldExists`, `ByActionFold`), and the labels it finds are those of `Reached`
(`TaintsExact`): soundly, since what the fold labels is in every closed set, and completely, since the
labelled actions are a closed set. This is where `WellOrdered` is needed: the code looks up only what
came before. A repair takes secrets
nowhere they did not go (`RepairAddsNoSecret`, for plans of any shape) and changes an action so that the rule
it was repaired for, and all before it, no longer match (`RepairMovesOn`); two rewrites are enough
(`RepairSettles`). `RewrittenStaysAllowed` settles a doubt about the order of rules: repair changes an
operation, and its rules come before the one that looks at the agent's operations, yet no rewritten
action leaves the allowlist. `GravestDecides` ties what each action gets to the decision of the plan, from
which `SensitiveFlowsBlocked`, `UntrustedInputWaits` and `StrangersBlocked` follow.

**Startup.** `SchemaInv` says that the open transaction of the replica with the lock has exactly the
tables of the versions it has recorded in it and a prefix of the next one's, that these are not in the
committed history, and that each version it has passed is recorded, in one of the two, with its checksum.
It is also what the refinement `MigrationsAreAtomic` needs: at `Commit` every version of the release was
passed, so the step is a `Migrate` of the whole release; ends of a replica that was past its migrations are
`Leave`; every other step is a stutter.

The theorems of `DecisionProofs` are about operators and belong to no run. TLC checked
`RewrittenStaysAllowed` and `RepairSettles` on the plans of `gateway` before they were proved.
`EvidenceGrounded` and `ResolvedStaysResolved` are proved, but no run has them: `ImplementsEvidenceTrail`
implies them.

Only model-checked: `WaitIsBounded`, which is liveness. The five violated properties are false.

## 5. Not modelled

- Risk scores and simulated outcomes (`engines/risk.py`, `engines/simulator.py`): numbers and texts
  shown to people; no decision reads them, and an incident opened for its risk alone is a verdict of
  `Evaluation`.
- Telemetry and OTLP export, governance evidence export: they read rows, and nothing reads back what
  they emit.
- Key custody (`kms_signing.py`): calls to an external service, without state between them.
- The fields and digests of workload attestations: an envelope that fails one is a forgery in
  `SignedMessages`.
- Agent registry: one upsert per call; what a decision reads of an agent is in `Decision`.
- HTTP hardening, security configuration, deployment readiness: checks evaluated once per start or per
  request, without state.
- The translation of SQL for PostgreSQL: wording. Connections and pools of the store: each call is one
  transaction of its own connection.
- Scenarios, benchmarks, the SDK and the operator scripts: input, measurement and clients of the service.

## 6. Plan

In this order; each as constants with assumptions, one action per operation, invariants as
conjunctions of named parts, no RECURSIVE operator where something is to be proved. All of it is done.

1. `Rbac`, `GovernedActivation`, `PolicyGovernance`, proofs.
2. `AuditLedger`, `Evaluation` over it, proofs.
3. `WorkloadKeys`, `ReplayGuard`, `SignedMessages`, proofs.
4. `QuotaWindow`, proofs.
5. `FederatedIdentity`, `WorkspaceAccess` over it and `Rbac`, proofs.
6. `MCPGovernance` over `Rbac` against `GovernedActivation`; `Decision`; `Gateway` over both; proofs of
   the registry.
7. `Startup`, with liveness under the database's fairness; proofs of its safety.
8. `DecisionProofs` over plans of any length, and with it the proofs of the loop; `AtomicMigration`
   and `EvidenceTrail`, with their refinements proved.

What remains open: a proof of `WaitIsBounded`, which is liveness; an order among quorate requests, which
the code does not promise; the evaluation of more than one plan at a time, which adds nothing while
plans share no state but the registry.
