--------------------------- MODULE SignedMessages ---------------------------
(***************************************************************************)
(* The verification of signed agent-to-agent messages and of attested      *)
(* signature envelopes, against deliveries that repeat, overlap and stall, *)
(* key rotation, restarts and time: verify_and_mark of messaging.py and    *)
(* workload_identity.py, verify_attested_signature_envelope of             *)
(* workload_attestation.py, and how kernel.py calls the former.            *)
(*                                                                         *)
(* A member of Deliveries is a thread that verifies; at[d].pc says what it *)
(* has done:                                                               *)
(*   fresh     it took the time and the message's timestamp is near it;    *)
(*   unseen    nonce_seen did not find the nonce;                          *)
(*   verified  the key was active and the signature its key's;             *)
(*   checked   (envelope) every check but the nonce's passed.              *)
(* A refusal changes nothing and ends the delivery: where that is all an   *)
(* action would do, its guard says so and the action is not taken.         *)
(***************************************************************************)
EXTENDS WorkloadKeys, ReplayGuard

CONSTANTS
    Deliveries,         \* threads that verify
    Messages,           \* signed messages, genuine and forged
    Envelopes,          \* signature envelopes, genuine and forged
    SharedKey,          \* the workspace's HMAC key, never revoked
    Skew,               \* accepted distance of a timestamp from now
    FutureSkew,         \* how far ahead an envelope may be issued
    MaxLife,            \* the longest lifetime of an envelope
    GuardInMemory,      \* whether the guard is lost at a restart
    Loads               \* bound: what is sent, and registrations, in a behaviour

\* genuine: the signature is that of key over exactly this message, and key
\* is registered for its sender.
Message == [id : Nat, nonce : Nonces, timestamp : Nat,
            key : Keys \cup {SharedKey}, genuine : BOOLEAN]

Envelope == [nonce : Nonces, issued : Nat, expires : Nat, genuine : BOOLEAN]

ASSUME MessageAssumption ==
    /\ SharedKey \notin Keys
    /\ Messages \subseteq Message
    /\ Envelopes \subseteq Envelope
    /\ Skew \in Nat
    /\ FutureSkew \in Nat
    /\ MaxLife \in Nat
    /\ MaxLife <= GuardTtl
    /\ GuardInMemory \in BOOLEAN
    /\ Loads \subseteq [sent : SUBSET (Messages \cup Envelopes), registrations : Nat]

VARIABLES
    load,               \* what is sent, and registrations still to come
    at,                 \* the deliveries in progress
    accepted,           \* history: what has been accepted
    twice,              \* history: what has been accepted more than once
    overlapped,         \* history: nonces with two deliveries in progress
    stalled,            \* history: nonces whose verifier acted on an old time
    early,              \* history: envelopes accepted before their issue
    late                \* history: envelopes accepted after they expired

history == <<accepted, twice, overlapped, stalled, early, late>>
vars == <<keyVars, guardVars, load, at, history>>

Idle == [pc |-> "idle"]

\* now is the time the verifier took; barred is history: its key was revoked
\* when it was received.
MessageDelivery == [pc : {"fresh", "unseen", "verified"}, item : Messages,
                    now : 0 .. MaxClock, barred : BOOLEAN]

EnvelopeDelivery == [pc : {"checked"}, item : Envelopes]

TypeOK ==
    /\ KeyTypeOK
    /\ GuardTypeOK
    /\ load \in [sent : SUBSET (Messages \cup Envelopes), registrations : Nat]
    /\ at \in [Deliveries -> MessageDelivery \cup EnvelopeDelivery \cup {Idle}]
    /\ accepted \subseteq Messages \cup Envelopes
    /\ twice \subseteq accepted
    /\ overlapped \subseteq Nonces
    /\ stalled \subseteq Nonces
    /\ early \subseteq Envelopes
    /\ late \subseteq Envelopes

Init ==
    /\ KeyInit
    /\ GuardInit
    /\ load \in Loads
    /\ at = [d \in Deliveries |-> Idle]
    /\ accepted = {}
    /\ twice = {}
    /\ overlapped = {}
    /\ stalled = {}
    /\ early = {}
    /\ late = {}

End(d) == at' = [at EXCEPT ![d] = Idle]

Accept(item) ==
    /\ accepted' = accepted \cup {item}
    /\ twice' = IF item \in accepted THEN twice \cup {item} ELSE twice

-----------------------------------------------------------------------------
(* Signed messages.                                                        *)

Revoked(key) == key \in Keys /\ keyStatus[key] = "REVOKED"

Active(key) == key \in Keys => keyStatus[key] = "ACTIVE"

\* abs(current - timestamp) > max_skew refuses.
WithinSkew(m) == clock - m.timestamp <= Skew /\ m.timestamp - clock <= Skew

\* Deliveries of messages that carry a nonce.
CarriedBy(n) ==
    {d \in Deliveries : at[d].pc \in {"fresh", "unseen", "verified"}
                           /\ at[d].item.nonce = n}

Receive(d, m) ==
    /\ at[d] = Idle
    /\ m \in load.sent
    /\ WithinSkew(m)
    /\ at' = [at EXCEPT ![d] = [pc |-> "fresh", item |-> m, now |-> clock,
                                barred |-> Revoked(m.key)]]
    /\ overlapped' = IF CarriedBy(m.nonce) = {} THEN overlapped
                     ELSE overlapped \cup {m.nonce}
    /\ UNCHANGED <<keyVars, guardVars, load, accepted, twice, stalled, early,
                   late>>

\* nonce_seen is given the time taken before, which may have passed.
LookUpNonce(d) ==
    LET n == at[d].item.nonce
    IN  /\ at[d].pc = "fresh"
        /\ PurgeNonces(at[d].now)
        /\ IF Seen(n, at[d].now) THEN End(d)
           ELSE at' = [at EXCEPT ![d].pc = "unseen"]
        /\ stalled' = IF at[d].now < clock THEN stalled \cup {n} ELSE stalled
        /\ UNCHANGED <<keyVars, load, accepted, twice, overlapped, early, late>>

\* Mutation of CheckSignature: the nonce is recorded for any signature.
CheckKeyOnly(d) ==
    /\ at[d].pc = "unseen"
    /\ IF Active(at[d].item.key)
       THEN at' = [at EXCEPT ![d].pc = "verified"] ELSE End(d)
    /\ UNCHANGED <<keyVars, guardVars, load, history>>

\* The key is read and the signature checked before anything is written.
CheckSignature(d) ==
    LET m == at[d].item
    IN  /\ at[d].pc = "unseen"
        /\ IF Active(m.key) /\ m.genuine
           THEN at' = [at EXCEPT ![d].pc = "verified"] ELSE End(d)
        /\ UNCHANGED <<keyVars, guardVars, load, history>>

Record(d, lifetime) ==
    LET m == at[d].item
    IN  /\ at[d].pc = "verified"
        /\ Remember(m.nonce, at[d].now + lifetime)
        /\ Accept(m)
        /\ End(d)
        /\ UNCHANGED <<keyVars, load, overlapped, stalled, early, late>>

\* Mutation of RecordNonce: a nonce is kept for the skew, not for twice it.
RecordBriefly(d) == Record(d, Skew)

\* record_nonce, and the message is verified.
RecordNonce(d) == Record(d, 2 * Skew)

-----------------------------------------------------------------------------
(* Attested signature envelopes.                                           *)

\* verify_attested_signature_envelope: issue, expiry and lifetime.
InForce(e) ==
    /\ e.issued <= clock + FutureSkew
    /\ clock < e.expires
    /\ e.issued < e.expires
    /\ e.expires - e.issued <= MaxLife

\* Structure, digests, attestation and signature, all of them without effect.
CheckEnvelope(d, e) ==
    /\ at[d] = Idle
    /\ e \in load.sent
    /\ InForce(e)
    /\ e.genuine
    /\ at' = [at EXCEPT ![d] = [pc |-> "checked", item |-> e]]
    /\ UNCHANGED <<keyVars, guardVars, load, history>>

\* The nonce validator: the guard's consume, at the time it is called.
ConsumeNonce(d) ==
    LET e == at[d].item
    IN  /\ at[d].pc = "checked"
        /\ IF Fresh(e.nonce)
           THEN /\ Consume(e.nonce)
                /\ Accept(e)
                /\ early' = IF clock < e.issued THEN early \cup {e} ELSE early
                /\ late' = IF clock >= e.expires THEN late \cup {e} ELSE late
           ELSE UNCHANGED <<guardVars, accepted, twice, early, late>>
        /\ End(d)
        /\ UNCHANGED <<keyVars, load, overlapped, stalled>>

-----------------------------------------------------------------------------

BeginKey(t, k, rotates) ==
    /\ load.registrations > 0
    /\ load' = [load EXCEPT !.registrations = @ - 1]
    /\ FindKey(t, k, rotates)
    /\ UNCHANGED <<guardVars, at, history>>

ContinueKey(t) ==
    /\ KeyStep(t)
    /\ UNCHANGED <<guardVars, load, at, history>>

\* A thread dies between two of its steps.
Drop(d) ==
    /\ at[d] # Idle
    /\ End(d)
    /\ UNCHANGED <<keyVars, guardVars, load, history>>

Tick ==
    /\ Advance
    /\ UNCHANGED <<keyVars, load, at, history>>

\* The service restarts: its threads are gone, and with them a guard in memory.
Restart ==
    /\ GuardInMemory
    /\ LoseGuard
    /\ at' = [d \in Deliveries |-> Idle]
    /\ keeping' = [t \in Keepers |-> Resting]
    /\ UNCHANGED <<keyStatus, crossed, revived, load, history>>

Next ==
    \/ Tick
    \/ Restart
    \/ \E t \in Keepers :
          \/ \E k \in Keys, rotates \in BOOLEAN : BeginKey(t, k, rotates)
          \/ ContinueKey(t)
    \/ \E d \in Deliveries :
          \/ \E m \in Messages : Receive(d, m)
          \/ LookUpNonce(d)
          \/ CheckSignature(d)
          \/ RecordNonce(d)
          \/ \E e \in Envelopes : CheckEnvelope(d, e)
          \/ ConsumeNonce(d)
          \/ Drop(d)

Spec == Init /\ [][Next]_vars

-----------------------------------------------------------------------------
(* Properties.                                                             *)

\* A message is accepted twice only if two deliveries of its nonce overlapped,
\* or a verifier looked its nonce up with a time that had passed: the purge
\* never forgets a nonce while its message can still be received.
TwiceOnlyByRace ==
    \A m \in twice \cap Messages : m.nonce \in overlapped \cup stalled

\* "A message nonce is accepted only once inside the replay window"
\* (docs/MASTER_UPGRADE_V1_2.md:43): the code refutes it, see the README.
NonceAcceptedOnce == twice \cap Messages = {}

\* An envelope is accepted twice only if the guard was lost, its issuer's clock
\* was ahead when it was first accepted, or it expired while it was verified:
\* the guard's memory covers the lifetime, but not the tolerated future.
EnvelopeTwiceOnlyIf ==
    \A e \in twice \cap Envelopes :
        restarted \/ e \in early \cup late

\* A nonce is only remembered for a genuine message that was accepted: a forged
\* one never burns the nonce of another.
ForgeryBurnsNoNonce ==
    \A n \in Nonces : nonces[n] # Forgotten =>
        \E m \in accepted \cap Messages : m.nonce = n /\ m.genuine

\* A message received after its key was revoked is never verified, whatever is
\* registered or rotated while it is on its way.
RevokedKeyBarred ==
    \A d \in Deliveries : at[d].pc = "verified" => ~at[d].barred

\* An agent that has registered a key has an active one, wherever a rotation
\* dies, unless registrations overlapped or one asked for a revoked key.
KeyKept ==
    (Registered # {} /\ ~crossed /\ ~revived) => ActiveKeys # {}

\* A rotation that has revoked all it listed leaves its own key and no other,
\* but for the two cases that refute OneActiveKey.
RotationLeavesOne ==
    \A t \in Keepers :
        (keeping[t].pc = "listed" /\ keeping[t].old = {} /\ ~crossed /\ ~revived)
        => ActiveKeys = {keeping[t].key}

\* "This gives production deployments a deterministic one-active-key posture"
\* (workload_identity.py:44): a rotation that has revoked all it listed leaves
\* the agent an active key. The code refutes it, see the README.
OneActiveKey ==
    \A t \in Keepers :
        (keeping[t].pc = "listed" /\ keeping[t].old = {}) => ActiveKeys # {}

=============================================================================
