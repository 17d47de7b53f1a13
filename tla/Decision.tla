------------------------------ MODULE Decision ------------------------------
(***************************************************************************)
(* How a plan is decided: engines/policy.py, taint.py, graph.py, repair.py *)
(* and the loop of evaluate_plan in kernel.py, as functions of the actions,*)
(* the agent and the intent.                                               *)
(*                                                                         *)
(* A policy is the set of its switches that are on. What the metadata of   *)
(* an action holds against it is the set of its flaws: what registries and *)
(* message checks found, and what the caller says of it.                   *)
(***************************************************************************)
EXTENDS Integers, Sequences

CONSTANTS
    Switches            \* the policy: the switches of its sections that are on

\* server: the id by which an action names an MCP server, if it does.
ActionFields == {"id", "tool", "op", "kind", "server", "destination", "labels", "untrusted",
                 "sensitivity", "secretName", "deps", "sanitizes", "redactable", "protected",
                 "amount", "flaws"}

Labels == {"SECRET_DATA", "CONFIDENTIAL_DATA", "INTERNAL_DATA", "UNTRUSTED_INPUT"}
EXTERNAL_SINKS == {"send", "post", "upload", "publish", "push"}
Destructive == {"drop", "truncate", "delete", "alter"}
Consequential == {"exec", "install", "send", "post", "upload", "call", "write"}

\* An agent that is found in the workspace also has tools, operations, domains
\* and maxPayment.
NoAgent == [status |-> "none"]
Foreign == [status |-> "foreign"]
Known(agent) == agent.status = "known"

OperationsOf(agent, tool) ==
    IF tool \in DOMAIN agent.operations THEN agent.operations[tool] ELSE {}

On(switch) == switch \in Switches

-----------------------------------------------------------------------------
(* TaintState.observe.                                                     *)

\* sensitivity: the label of a CONFIDENTIAL or INTERNAL action; a SECRET one
\* has the label of a resource named after a secret.
OwnLabels(a) ==
    a.labels
        \cup (IF a.untrusted THEN {"UNTRUSTED_INPUT"} ELSE {})
        \cup (IF a.sensitivity \in Labels THEN {a.sensitivity} ELSE {})
        \cup (IF a.secretName THEN {"SECRET_DATA"} ELSE {})

\* Mutant: labels do not pass from a dependency to what depends on it.
ObserveAlone(a, byAction) == OwnLabels(a) \ a.sanitizes

\* byAction holds the labels of the actions observed so far: a dependency on
\* one that comes later, or does not exist, brings nothing.
Observe(a, byAction) ==
    (OwnLabels(a) \cup UNION {byAction[d] : d \in a.deps \cap DOMAIN byAction})
        \ a.sanitizes

\* observe keeps what it finds under the action's id.
Observed(a, byAction) ==
    [i \in DOMAIN byAction \cup {a.id} |->
        IF i = a.id THEN Observe(a, byAction) ELSE byAction[i]]

\* The labels by action id after the first n actions: an id used twice has the
\* labels of its last action.
ByAction(actions) ==
    LET f[n \in 0 .. Len(actions)] ==
            IF n = 0 THEN << >> ELSE Observed(actions[n], f[n - 1])
    IN  f

TaintsOf(actions, n) == ByAction(actions)[n][actions[n].id]

-----------------------------------------------------------------------------
(* What taint is meant to be, whatever the order in which it is found.      *)

\* The plan names each action once and only depends on what it has named.
WellOrdered(actions) ==
    \A n \in DOMAIN actions :
        /\ \A m \in DOMAIN actions : actions[m].id = actions[n].id => m = n
        /\ \A d \in actions[n].deps : \E m \in 1 .. n - 1 : actions[m].id = d

\* By reference: n is in every set of actions that holds the sources of a label
\* and whatever depends on one of its members, unless it removes the label.
Reached(actions, label, n) ==
    \A S \in SUBSET DOMAIN actions :
        (\A m \in DOMAIN actions :
            /\ label \notin actions[m].sanitizes
            /\ \/ label \in OwnLabels(actions[m])
               \/ \E k \in S : actions[k].id \in actions[m].deps
            => m \in S)
        => n \in S

-----------------------------------------------------------------------------
(* evaluate_action: the first rule that matches decides.                   *)

IsMcp(a) == a.tool = "mcp_tool" \/ a.kind = "mcp"
Sends(a) == a.tool = "agent_message" /\ a.op = "send"
Triggers(a) == a.tool = "workflow" /\ a.op = "trigger"
Untrusted(a, agent) ==
    a.destination # "none" /\ a.destination # "trusted"
        /\ ~(Known(agent) /\ a.destination \in agent.domains)

\* Amounts and fan-outs by the limits they exceed.
OverLimit(a, agent) ==
    \/ a.amount > 1
    \/ Known(agent) /\ a.amount > agent.maxPayment

\* The rules in their order, each with what it looks at.
Rule == <<"WORKSPACE-SCOPE", "IDENTITY", "IAM-TOOL", "INTENT-SCOPE", "PROVENANCE-HASH",
          "MCP-REGISTRY", "MCP-PROVENANCE", "MCP-SCOPE", "MCP-TOKEN-PASSTHROUGH", "MCP-AUDIENCE",
          "TOOL-PROVENANCE", "DB-DESTRUCTIVE", "IAM-OP", "DLP-SECRET",
          "MEMORY-POISON", "MEMORY-PROVENANCE",
          "A2A-SPOOF", "A2A-REPLAY", "A2A-STALE", "A2A-SIGNATURE", "A2A-RECIPIENT",
          "CASCADE-BLOCK", "CASCADE-APPROVAL", "PAYMENT-APPROVAL", "GIT-PROTECTED",
          "UNTRUSTED-SIDE-EFFECT", "DEFAULT-AUDIT">>

\* Who may act, and with what.
MatchesIdentity(rule, a, agent, intent) ==
    CASE rule = "WORKSPACE-SCOPE" -> agent.status = "foreign"
      [] rule = "IDENTITY"        -> /\ agent.status = "none"
                                     /\ On("require_registered_agent")
                                     /\ "unregistered demo" \notin a.flaws
      [] rule = "IAM-TOOL"        -> /\ Known(agent)
                                     /\ On("enforce_tool_allowlist")
                                     /\ a.tool \notin agent.tools
      [] rule = "INTENT-SCOPE"    -> intent.tools # {} /\ a.tool \notin intent.tools
      [] rule = "IAM-OP"          -> /\ Known(agent)
                                     /\ On("enforce_operation_allowlist")
                                     /\ OperationsOf(agent, a.tool) # {}
                                     /\ a.op \notin OperationsOf(agent, a.tool)
      [] OTHER                    -> FALSE

\* Where a tool or a message comes from.
MatchesProvenance(rule, a, agent) ==
    CASE rule = "PROVENANCE-HASH" -> On("block_manifest_hash_mismatch") /\ "hash" \in a.flaws
      [] rule = "MCP-REGISTRY"    -> IsMcp(a) /\ On("require_registered_server") /\ "unregistered" \in a.flaws
      [] rule = "MCP-PROVENANCE"  -> IsMcp(a) /\ On("require_verified_provenance") /\ "unverified" \in a.flaws
      [] rule = "MCP-SCOPE"       -> IsMcp(a) /\ On("require_scope_subset") /\ "scope" \in a.flaws
      [] rule = "MCP-TOKEN-PASSTHROUGH" ->
                                     IsMcp(a) /\ On("block_token_passthrough") /\ "passthrough" \in a.flaws
      [] rule = "MCP-AUDIENCE"    -> IsMcp(a) /\ On("require_audience_bound_token") /\ "audience" \in a.flaws
      [] rule = "TOOL-PROVENANCE" -> /\ a.kind = "external_tool"
                                     /\ On("require_verified_external_tools")
                                     /\ "unverified" \in a.flaws
                                     /\ a.op \in Consequential
      [] rule = "A2A-SPOOF"       -> Sends(a) /\ On("block_spoofed_sender") /\ Known(agent) /\ "spoofed" \in a.flaws
      [] rule = "A2A-REPLAY"      -> Sends(a) /\ On("require_fresh_nonce") /\ "replayed" \in a.flaws
      [] rule = "A2A-STALE"       -> Sends(a) /\ On("require_fresh_nonce") /\ "stale" \in a.flaws
      [] rule = "A2A-SIGNATURE"   -> Sends(a) /\ On("require_valid_signature") /\ "forged" \in a.flaws
      [] rule = "A2A-RECIPIENT"   -> Sends(a) /\ On("require_registered_recipient") /\ "stranger" \in a.flaws
      [] OTHER                    -> FALSE

\* What the action would do.
MatchesEffect(rule, a, agent, intent, taints) ==
    CASE rule = "DB-DESTRUCTIVE"  -> a.tool = "database" /\ a.op \in Destructive /\ ~intent.destructive
      [] rule = "DLP-SECRET"      -> /\ On("block_secret_to_untrusted")
                                     /\ "SECRET_DATA" \in taints
                                     /\ a.op \in EXTERNAL_SINKS
                                     /\ Untrusted(a, agent)
      [] rule = "MEMORY-POISON"   -> /\ a.tool = "memory" /\ a.op = "write"
                                     /\ On("block_untrusted_write")
                                     /\ "UNTRUSTED_INPUT" \in taints
      [] rule = "MEMORY-PROVENANCE" ->
                                     /\ a.tool = "memory" /\ a.op = "write"
                                     /\ On("require_provenance_for_external_memory")
                                     /\ {"external", "unverified"} \subseteq a.flaws
      [] rule = "CASCADE-BLOCK"   -> Triggers(a) /\ a.amount > 1
      [] rule = "CASCADE-APPROVAL" -> Triggers(a) /\ a.amount > 0
      [] rule = "PAYMENT-APPROVAL" -> a.tool = "payment" /\ OverLimit(a, agent)
      [] rule = "GIT-PROTECTED"   -> a.tool = "github" /\ a.op = "push" /\ a.protected
      [] rule = "UNTRUSTED-SIDE-EFFECT" ->
                                     /\ On("approval_for_untrusted_influence")
                                     /\ "UNTRUSTED_INPUT" \in taints
                                     /\ a.op \in EXTERNAL_SINKS
      [] rule = "DEFAULT-AUDIT"   -> TRUE
      [] OTHER                    -> FALSE

Matches(rule, a, agent, intent, taints) ==
    \/ MatchesIdentity(rule, a, agent, intent)
    \/ MatchesProvenance(rule, a, agent)
    \/ MatchesEffect(rule, a, agent, intent, taints)

\* The position of the rule that decides.
Deciding(a, agent, intent, taints) ==
    CHOOSE i \in DOMAIN Rule :
        /\ Matches(Rule[i], a, agent, intent, taints)
        /\ \A j \in 1 .. i - 1 : ~Matches(Rule[j], a, agent, intent, taints)

-----------------------------------------------------------------------------
(* repair_action, and when its repair is taken.                            *)

\* Mutant: a redacted summary keeps the labels of what it summarizes.
RepairedUnlabelled(a, rule) ==
    CASE rule = "DB-DESTRUCTIVE" -> [a EXCEPT !.op = "select"]
      [] rule = "DLP-SECRET"     -> [a EXCEPT !.secretName = FALSE]
      [] rule = "GIT-PROTECTED"  -> [a EXCEPT !.protected = FALSE]

Repaired(a, rule) ==
    CASE rule = "DB-DESTRUCTIVE" -> [a EXCEPT !.op = "select"]
      [] rule = "DLP-SECRET"     -> [a EXCEPT !.secretName = FALSE,
                                              !.sensitivity = "PUBLIC",
                                              !.labels = @ \ {"SECRET_DATA", "CONFIDENTIAL_DATA"},
                                              !.sanitizes = {"SECRET_DATA", "CONFIDENTIAL_DATA"}]
      [] rule = "GIT-PROTECTED"  -> [a EXCEPT !.protected = FALSE]

Repairs(a, agent, rule) ==
    CASE rule = "DB-DESTRUCTIVE" -> /\ On("repair_to_read_only")
                                    /\ Known(agent) => "select" \in OperationsOf(agent, "database")
      [] rule = "DLP-SECRET"     -> a.redactable /\ a.op # "push"
      [] rule = "GIT-PROTECTED"  -> TRUE
      [] OTHER                   -> FALSE

Outcome(a, agent, rule) ==
    CASE Repairs(a, agent, rule)  -> "REWRITE"
      [] rule = "DEFAULT-AUDIT"   -> "ALLOW_WITH_LOG"
      [] rule \in {"CASCADE-APPROVAL", "PAYMENT-APPROVAL", "UNTRUSTED-SIDE-EFFECT"}
                                  -> "REQUIRE_APPROVAL"
      [] OTHER                    -> "BLOCK"

-----------------------------------------------------------------------------
(* evaluate_plan.                                                          *)

RuleFor(actions, agent, intent, n) ==
    Rule[Deciding(actions[n], agent, intent, TaintsOf(actions, n))]

\* The rewritten actions take the place of those they repair.
Effective(actions, agent, intent) ==
    [n \in DOMAIN actions |->
        LET rule == RuleFor(actions, agent, intent, n)
        IN  IF Repairs(actions[n], agent, rule) THEN Repaired(actions[n], rule) ELSE actions[n]]

\* graph_patterns: sensitive data reach an external sink, wherever it is.
Egress(actions) ==
    \E n \in DOMAIN actions :
        /\ actions[n].op \in EXTERNAL_SINKS
        /\ actions[n].destination # "none"
        /\ ByAction(actions)[Len(actions)][actions[n].id]
                \cap {"SECRET_DATA", "CONFIDENTIAL_DATA"} # {}

\* Mutant: an approval outranked by a rewrite.
PriorityOfRewrite == <<"ALLOW", "ALLOW_WITH_LOG", "REQUIRE_APPROVAL", "REWRITE", "BLOCK">>

PRIORITY == <<"ALLOW", "ALLOW_WITH_LOG", "REWRITE", "REQUIRE_APPROVAL", "BLOCK">>

FinalDecision(actions, agent, intent) ==
    LET decisions == {Outcome(actions[n], agent, RuleFor(actions, agent, intent, n)) :
                        n \in DOMAIN actions}
                     \cup {"ALLOW"}
                     \cup (IF Egress(Effective(actions, agent, intent)) THEN {"BLOCK"} ELSE {})
        highest == CHOOSE i \in DOMAIN PRIORITY :
                        /\ PRIORITY[i] \in decisions
                        /\ \A j \in i + 1 .. Len(PRIORITY) : PRIORITY[j] \notin decisions
    IN  PRIORITY[highest]
=============================================================================
