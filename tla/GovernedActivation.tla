------------------------- MODULE GovernedActivation -------------------------
(***************************************************************************)
(* What governed promotion of a policy promises, without the steps by which*)
(* a vote is handled: the bundle a workspace runs under changes only to the*)
(* bundle of a change request that was counted.  To count is to take the   *)
(* people whose approval stands at one instant, a tally, and to find them  *)
(* as many as the group asks for, at that instant or at a later one: the   *)
(* votes and the group are two reads.  It is not promised that a quorum    *)
(* stood at any single instant: one who has withdrawn since the tally is   *)
(* counted under a threshold lowered since.  Where the deployment does not *)
(* require approval an operator may also bind a bundle directly.           *)
(***************************************************************************)
EXTENDS Integers, FiniteSets

CONSTANTS Requests, Emails, Bundles, NoBundle

VARIABLES
    approvalRequired,   \* whether direct activation is switched off
    target,             \* the bundle each request asks for, NoBundle if unopened
    approvals,          \* the people whose approval counts for each request now
    threshold,          \* how many of them each request needs now
    tallies,            \* for each request, approvals taken to be counted
    quorate,            \* the requests some tally of which was enough
    active              \* the bundle the workspace runs under

absVars == <<approvalRequired, target, approvals, threshold, tallies, quorate, active>>

Init ==
    /\ approvalRequired \in BOOLEAN
    /\ target = [r \in Requests |-> NoBundle]
    /\ approvals = [r \in Requests |-> {}]
    /\ threshold \in [Requests -> Nat \ {0}]
    /\ tallies = [r \in Requests |-> {}]
    /\ quorate = {}
    /\ active = NoBundle

\* A request is opened once, for one bundle and against one threshold, before
\* anyone has approved it.
Open(r) ==
    /\ target[r] = NoBundle
    /\ \E b \in Bundles : target' = [target EXCEPT ![r] = b]
    /\ threshold'[r] \in Nat \ {0}
    /\ threshold' = [threshold EXCEPT ![r] = threshold'[r]]
    /\ UNCHANGED <<approvalRequired, approvals, tallies, quorate, active>>

\* One person gives or withdraws an approval of an open request.
Approve(r, e) ==
    /\ target[r] # NoBundle
    /\ \/ approvals' = [approvals EXCEPT ![r] = @ \cup {e}]
       \/ approvals' = [approvals EXCEPT ![r] = @ \ {e}]
    /\ UNCHANGED <<approvalRequired, target, threshold, tallies, quorate, active>>

Reconfigure ==
    /\ threshold' \in [Requests -> Nat \ {0}]
    /\ UNCHANGED <<approvalRequired, target, approvals, tallies, quorate, active>>

Tally(r) ==
    /\ target[r] # NoBundle
    /\ tallies' = [tallies EXCEPT ![r] = @ \cup {approvals[r]}]
    /\ UNCHANGED <<approvalRequired, target, approvals, threshold, quorate, active>>

\* Tallies that are not enough, or whose counting breaks off, are forgotten.
Forgets ==
    /\ DOMAIN tallies' = Requests
    /\ \A r \in Requests : tallies'[r] \subseteq tallies[r]

Discard ==
    /\ Forgets
    /\ UNCHANGED <<approvalRequired, target, approvals, threshold, quorate, active>>

Certify(r) ==
    /\ \E people \in tallies[r] : Cardinality(people) >= threshold[r]
    /\ quorate' = quorate \cup {r}
    /\ Forgets
    /\ UNCHANGED <<approvalRequired, target, approvals, threshold, active>>

Activate(r) ==
    /\ r \in quorate
    /\ active' = target[r]
    /\ UNCHANGED <<approvalRequired, target, approvals, threshold, tallies, quorate>>

ActivateDirectly(b) ==
    /\ ~approvalRequired
    /\ active' = b
    /\ UNCHANGED <<approvalRequired, target, approvals, threshold, tallies, quorate>>

Next ==
    \/ Discard
    \/ Reconfigure
    \/ \E r \in Requests : Open(r) \/ Tally(r) \/ Certify(r) \/ Activate(r)
    \/ \E r \in Requests, e \in Emails : Approve(r, e)
    \/ \E b \in Bundles : ActivateDirectly(b)

Spec == Init /\ [][Next]_absVars

=============================================================================
