------------------------- MODULE MCSignedMessages -------------------------
(* Two verifiers and two key holders; a workload message, a forgery that     *)
(* carries its nonce, an HMAC message sent later, and two envelopes, one of  *)
(* them issued ahead of the clock.                                           *)
EXTENDS SignedMessages, TLC

CONSTANTS d1, d2, t1, t2, k1, k2, k3, n1, n2

MCMessages ==
    {[id |-> 1, nonce |-> n1, timestamp |-> 1, key |-> k1, genuine |-> TRUE],
     [id |-> 2, nonce |-> n1, timestamp |-> 1, key |-> k1, genuine |-> FALSE],
     [id |-> 3, nonce |-> n2, timestamp |-> 3, key |-> SharedKey, genuine |-> TRUE]}

MCEnvelopes ==
    {[nonce |-> n1, issued |-> 0, expires |-> 2, genuine |-> TRUE],
     [nonce |-> n2, issued |-> 1, expires |-> 3, genuine |-> TRUE]}

\* Messages of every kind under one key; a message while its key is rotated;
\* envelopes; and keys alone.
MCLoads ==
    {[sent |-> MCMessages, registrations |-> 1],
     [sent |-> {m \in MCMessages : m.id = 1}, registrations |-> 3],
     [sent |-> MCEnvelopes, registrations |-> 0],
     [sent |-> {}, registrations |-> 4]}

Symmetry == Permutations({d1, d2}) \cup Permutations({t1, t2}) \cup Permutations({k2, k3})
===========================================================================
