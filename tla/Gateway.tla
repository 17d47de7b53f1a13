------------------------------- MODULE Gateway -------------------------------
(***************************************************************************)
(* A plan is evaluated while the registry of trusted MCP servers changes:  *)
(* the loop of evaluate_plan in engines/kernel.py, which looks each action *)
(* up in the registry before it decides it (MCPRegistry.enrich) and        *)
(* weighs the plan as a whole at the end.                                  *)
(*                                                                         *)
(* What the message checks of _prepare_action find is the module           *)
(* SignedMessages's: here it is among the flaws an action comes with.      *)
(***************************************************************************)
EXTENDS MCPGovernance, Decision

CONSTANTS
    PlansUnder          \* bound: by the members of Loads, the plans evaluated

PlanFields == {"pc", "actions", "prepared", "agent", "intent", "final"}

ASSUME GatewayAssumption ==
    \A l \in Loads : \A p \in PlansUnder[l] :
        /\ p.actions \in Seq({p.actions[n] : n \in DOMAIN p.actions})
        /\ \A n \in DOMAIN p.actions : DOMAIN p.actions[n] = ActionFields

VARIABLES
    evaluation          \* the plan, and its actions as prepared so far

gatewayVars == <<vars, evaluation>>

NoPlan == [pc |-> "none"]

\* Every variable has its type.
GatewayTypeOK ==
    /\ TypeOK
    /\ evaluation # NoPlan =>
        /\ DOMAIN evaluation = PlanFields
        /\ \A n \in DOMAIN evaluation.actions : DOMAIN evaluation.actions[n] = ActionFields
        /\ evaluation.pc \in {"preparing", "decided"}
        /\ DOMAIN evaluation.prepared \subseteq DOMAIN evaluation.actions
        /\ evaluation.pc = "decided" =>
            /\ DOMAIN evaluation.prepared = DOMAIN evaluation.actions
            /\ \E i \in DOMAIN PRIORITY : PRIORITY[i] = evaluation.final

GatewayInit ==
    /\ Init
    /\ evaluation \in
        {NoPlan} \cup {[pc |-> "preparing", actions |-> p.actions, prepared |-> << >>,
                        agent |-> p.agent, intent |-> p.intent, final |-> "ALLOW"] :
                            p \in PlansUnder[load]}

\* enrich: what the registry says takes the place of what the caller says. The
\* other flaws of an MCP action are how what it supplies compares with the row.
Enriched(a) ==
    IF ~IsMcp(a) THEN a
    ELSE IF Verified(a.server)
    THEN [a EXCEPT !.flaws = @ \ {"unregistered", "unverified"}]
    ELSE [a EXCEPT !.flaws = @ \cup {"hash", "unregistered", "unverified"}]

Prepare ==
    /\ evaluation.pc = "preparing"
    /\ Len(evaluation.prepared) < Len(evaluation.actions)
    /\ evaluation' = [evaluation EXCEPT
                        !.prepared = Append(@, Enriched(evaluation.actions[Len(@) + 1]))]
    /\ UNCHANGED vars

Conclude ==
    /\ evaluation.pc = "preparing"
    /\ Len(evaluation.prepared) = Len(evaluation.actions)
    /\ evaluation' = [evaluation EXCEPT
                        !.pc = "decided",
                        !.final = FinalDecision(evaluation.prepared, evaluation.agent,
                                                evaluation.intent)]
    /\ UNCHANGED vars

GatewayNext ==
    \/ Next /\ UNCHANGED evaluation
    \/ Prepare
    \/ Conclude

GatewaySpec == GatewayInit /\ [][GatewayNext]_gatewayVars

-----------------------------------------------------------------------------
(* Properties.                                                             *)

Decided == evaluation.pc = "decided"

Decides(n) ==
    Deciding(evaluation.prepared[n], evaluation.agent, evaluation.intent,
             TaintsOf(evaluation.prepared, n))

Rewritten(n) == Repairs(evaluation.prepared[n], evaluation.agent, Rule[Decides(n)])

Outgoing == Effective(evaluation.prepared, evaluation.agent, evaluation.intent)

\* A plan that may run, as it is or as it is rewritten, takes no secret and no
\* confidential data to an external destination, however many actions the data
\* pass through on the way.
FlowsContained ==
    Decided /\ WellOrdered(evaluation.actions) /\ evaluation.final # "BLOCK" =>
        \A n \in DOMAIN Outgoing, label \in {"SECRET_DATA", "CONFIDENTIAL_DATA"} :
            Outgoing[n].op \in EXTERNAL_SINKS /\ Outgoing[n].destination # "none"
                => ~Reached(Outgoing, label, n)

\* What a repair offers is no longer held back by the rule it repairs, nor by
\* one before it, when the rewritten plan is evaluated in its turn.
RepairConverges ==
    Decided => \A n \in DOMAIN Outgoing : Rewritten(n) =>
        Deciding(Outgoing[n], evaluation.agent, evaluation.intent, TaintsOf(Outgoing, n))
            > Decides(n)

\* In a plan that runs without anyone's approval, untrusted input reaches no
\* external sink but one that was rewritten.
InfluenceEscalates ==
    /\ Decided
    /\ WellOrdered(evaluation.actions)
    /\ On("approval_for_untrusted_influence")
    /\ evaluation.final \notin {"REQUIRE_APPROVAL", "BLOCK"}
    => \A n \in DOMAIN evaluation.prepared :
            /\ evaluation.prepared[n].op \in EXTERNAL_SINKS
            /\ Reached(evaluation.prepared, "UNTRUSTED_INPUT", n)
            => Rewritten(n)
=============================================================================
