---------------------------- MODULE MCQuotaWindow ----------------------------
(* Two requests at a time; two in-memory backends and Redis, so that every   *)
(* kind of replacement happens; a day of three minutes and two refusals.     *)
EXTENDS QuotaWindow, TLC

CONSTANTS c1, c2, m1, m2

MCLoad(requests, replacements, resets, perMinute, perDay) ==
    [requests |-> requests, replacements |-> replacements, resets |-> resets,
     perMinute |-> perMinute, perDay |-> perDay]

\* Requests alone, with a minute's limit below the day's and equal to it; with
\* replacements; with a reset and a replacement, under limits that are raised.
MCLoads == {MCLoad(3, 0, 0, 1, 2), MCLoad(3, 0, 0, 2, 2),
            MCLoad(2, 2, 0, 1, 2), MCLoad(2, 1, 1, -1, 0)}

Symmetry == Permutations({c1, c2}) \cup Permutations({m1, m2})
==============================================================================
