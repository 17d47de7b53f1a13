--------------------------- MODULE MCEvaluation ---------------------------
(* Two handlers over a ledger of three rows, and one bundle.                 *)
EXTENDS Evaluation, TLC

CONSTANTS w1, w2, b1

\* One verdict of each kind of evidence: none, an incident and an
\* approval, and an incident for its risk alone.
MCVerdicts ==
    {[decision |-> "ALLOW", risky |-> FALSE],
     [decision |-> "REQUIRE_APPROVAL", risky |-> FALSE],
     [decision |-> "REWRITE", risky |-> TRUE]}

Symmetry == Permutations({w1, w2})
===========================================================================
