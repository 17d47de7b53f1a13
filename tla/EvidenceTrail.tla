---------------------------- MODULE EvidenceTrail ----------------------------
(***************************************************************************)
(* What an evaluation promises whoever reads its evidence: the trail only  *)
(* grows; an approval is asked for once, of a plan whose row calls for one,*)
(* and what is resolved never waits again; whoever was answered has the    *)
(* approval and the incident of the row; and a row says that a person      *)
(* resolved an approval only if one did, once for each time. Policies,     *)
(* hashes, threads and what they have read are not seen.                   *)
(***************************************************************************)
EXTENDS Naturals, Sequences

CONSTANTS
    Ids,                \* positions of rows
    Workers,            \* who resolves approvals
    Decisions,          \* what a plan may meet
    Resolutions,        \* what a person may say
    NoApproval

VARIABLES
    rows,               \* the trail
    approvals,          \* the state of the approval of each row, if it has one
    incidents,          \* the rows that are reported
    answered,           \* the rows whose caller has its answer
    word                \* the resolution, if any, that a worker has yet to record

trailVars == <<rows, approvals, incidents, answered, word>>

Init ==
    /\ rows = << >>
    /\ approvals = [a \in Ids |-> NoApproval]
    /\ incidents = {}
    /\ answered = {}
    /\ word = [w \in Workers |-> {}]

\* The row an evaluation leaves.
EvaluationRow(decision, risky) ==
    [event |-> "EVALUATION", decision |-> decision, risky |-> risky]

AsksForPerson(a) == rows[a].decision = "REQUIRE_APPROVAL"
Grave(a) == rows[a].decision \in {"BLOCK", "REQUIRE_APPROVAL"} \/ rows[a].risky

IsEvaluated(a) == a \in DOMAIN rows /\ rows[a].event = "EVALUATION"

Evaluate(decision, risky) ==
    /\ UNCHANGED <<approvals, incidents, answered, word>>
    /\ rows' = Append(rows, EvaluationRow(decision, risky))

Hold(a) ==
    /\ approvals[a] = NoApproval
    /\ approvals' = [approvals EXCEPT ![a] = "PENDING"]
    /\ IsEvaluated(a) /\ AsksForPerson(a)
    /\ UNCHANGED <<rows, incidents, answered, word>>

Answer(a) ==
    /\ a \notin answered
    /\ answered' = answered \cup {a}
    /\ IsEvaluated(a)
    /\ AsksForPerson(a) => approvals[a] # NoApproval
    /\ incidents' = IF Grave(a) THEN incidents \cup {a} ELSE incidents
    /\ UNCHANGED <<rows, approvals, word>>

Resolve(w, a, resolution) ==
    /\ approvals[a] # NoApproval
    /\ approvals' = [approvals EXCEPT ![a] = resolution]
    /\ word[w] = {}
    /\ word' = [word EXCEPT ![w] =
                  {[event |-> "HUMAN_APPROVAL", audit |-> a, resolution |-> resolution]}]
    /\ UNCHANGED <<rows, incidents, answered>>

Record(w) ==
    /\ \E row \in word[w] : rows' = Append(rows, row)
    /\ word' = [word EXCEPT ![w] = {}]
    /\ UNCHANGED <<approvals, incidents, answered>>

\* Any number of workers die with what they have yet to record.
Forget ==
    /\ UNCHANGED <<approvals, incidents, answered, rows>>
    /\ word' = [w \in Workers |-> IF word'[w] = {} THEN {} ELSE word[w]]

Next ==
    \/ Forget
    \/ \E a \in Ids : Hold(a) \/ Answer(a)
    \/ \E w \in Workers :
        \/ Record(w)
        \/ \E a \in Ids, resolution \in Resolutions : Resolve(w, a, resolution)
    \/ \E decision \in Decisions, risky \in BOOLEAN : Evaluate(decision, risky)

Spec == Init /\ [][Next]_trailVars
=============================================================================
