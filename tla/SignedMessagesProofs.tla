------------------------ MODULE SignedMessagesProofs ------------------------
(***************************************************************************)
(* Theorems about SignedMessages.  Types are inductive by themselves; the  *)
(* key properties follow from KeyInv, the properties of messages from      *)
(* MessageInv, and those of envelopes from EnvelopeInv.                    *)
(***************************************************************************)
EXTENDS SignedMessages, TLAPS

-----------------------------------------------------------------------------
(* Types.                                                                  *)

\* What a delivery or a key holder at a step carries.
LEMMA DeliveryShape ==
    ASSUME TypeOK, NEW d \in Deliveries
    PROVE  /\ at[d].pc \in {"fresh", "unseen", "verified"}
              => /\ at[d] \in MessageDelivery
                 /\ at[d].item \in Messages
                 /\ at[d].now \in 0 .. MaxClock
                 /\ at[d].barred \in BOOLEAN
           /\ at[d].pc = "checked"
              => at[d] \in EnvelopeDelivery /\ at[d].item \in Envelopes
           /\ at[d] # Idle => at[d].pc \in {"fresh", "unseen", "verified", "checked"}
BY DEF TypeOK, MessageDelivery, EnvelopeDelivery, Idle

LEMMA KeeperShape ==
    ASSUME TypeOK, NEW t \in Keepers
    PROVE  /\ keeping[t].pc \in {"absent", "registered", "listed"}
              => /\ keeping[t] \in Keeping
                 /\ keeping[t].key \in Keys
                 /\ keeping[t].rotates \in BOOLEAN
                 /\ keeping[t].old \in SUBSET Keys
           /\ keeping[t] # Resting
              => keeping[t].pc \in {"absent", "registered", "listed"}
BY DEF TypeOK, KeyTypeOK, Keeping, Resting

LEMMA ItemFacts ==
    /\ \A m \in Messages : /\ m.nonce \in Nonces /\ m.timestamp \in Nat
                           /\ m.genuine \in BOOLEAN /\ m.key \in Keys \cup {SharedKey}
    /\ \A e \in Envelopes : /\ e.nonce \in Nonces /\ e.issued \in Nat
                            /\ e.expires \in Nat
BY MessageAssumption DEF Message, Envelope

LEMMA ItemsDiffer == Messages \cap Envelopes = {}
<1> SUFFICES ASSUME NEW x \in Messages, x \in Envelopes
             PROVE  FALSE
    OBVIOUS
<1>1. x \in Message /\ x \in Envelope
    BY MessageAssumption
<1>2. DOMAIN x = {"id", "nonce", "timestamp", "key", "genuine"}
    BY <1>1 DEF Message
<1>3. DOMAIN x = {"nonce", "issued", "expires", "genuine"}
    BY <1>1 DEF Envelope
<1>4. "id" \notin {"nonce", "issued", "expires", "genuine"}
    OBVIOUS
<1> QED
    BY <1>2, <1>3, <1>4

LEMMA TypeInit == Init => TypeOK
<1> SUFFICES ASSUME Init
             PROVE  TypeOK
    OBVIOUS
<1>1. KeyTypeOK
    BY DEF Init, KeyInit, KeyTypeOK, KeyStatuses
<1>2. GuardTypeOK
  <2>1. GuardInit
    BY DEF Init
  <2>2. clock \in 0 .. MaxClock
    BY <2>1, GuardAssumption DEF GuardInit
  <2>3. /\ nonces \in [Nonces -> Nat \cup {Forgotten}]
        /\ guard \in [Nonces -> Nat \cup {Forgotten}]
    BY <2>1 DEF GuardInit
  <2> QED
    BY <2>1, <2>2, <2>3 DEF GuardInit, GuardTypeOK
<1>3. load \in [sent : SUBSET (Messages \cup Envelopes), registrations : Nat]
    BY MessageAssumption DEF Init
<1> QED
    BY <1>1, <1>2, <1>3 DEF Init, TypeOK

Typed == [Deliveries -> MessageDelivery \cup EnvelopeDelivery \cup {Idle}]

\* One delivery moves on or ends.
LEMMA DeliveryMoves ==
    ASSUME TypeOK, NEW d \in Deliveries,
           NEW to \in MessageDelivery \cup EnvelopeDelivery \cup {Idle},
           at' = [at EXCEPT ![d] = to]
    PROVE  at' \in Typed
BY DEF TypeOK, Typed

LEMMA KeysMove ==
    ASSUME TypeOK, NEW t \in Keepers, KeyStep(t)
    PROVE  KeyTypeOK'
<1> USE DEF TypeOK
<1>1. CASE CreateKey(t)
  <2>1. keeping[t] \in Keeping /\ keeping[t].key \in Keys
    BY <1>1, KeeperShape DEF CreateKey
  <2>2. [keeping[t] EXCEPT !.pc = "registered"] \in Keeping
    BY <2>1 DEF Keeping
  <2>3. keeping' \in [Keepers -> Keeping \cup {Resting}]
    BY <1>1, <2>2 DEF CreateKey, Rest, KeyTypeOK
  <2> QED
    BY <1>1, <2>1, <2>3 DEF CreateKey, KeyTypeOK, KeyStatuses
<1>2. CASE ListOthers(t)
  <2>1. keeping[t] \in Keeping
    BY <1>2, KeeperShape DEF ListOthers
  <2>2. [keeping[t] EXCEPT !.pc = "listed", !.old = ActiveKeys \ {keeping[t].key}]
        \in Keeping
    BY <2>1 DEF Keeping, ActiveKeys
  <2> QED
    BY <1>2, <2>2 DEF ListOthers, KeyTypeOK
<1>3. CASE RevokeOld(t)
  <2>1. keeping[t] \in Keeping
    BY <1>3, KeeperShape DEF RevokeOld
  <2>2. PICK k \in keeping[t].old :
           /\ keyStatus' = [keyStatus EXCEPT ![k] = "REVOKED"]
           /\ keeping' = [keeping EXCEPT ![t].old = @ \ {k}]
    BY <1>3 DEF RevokeOld
  <2>3. [keeping[t] EXCEPT !.old = @ \ {k}] \in Keeping
    BY <2>1 DEF Keeping
  <2> QED
    BY <1>3, <2>1, <2>2, <2>3 DEF RevokeOld, KeyTypeOK, KeyStatuses, Keeping
<1>4. CASE FinishRotation(t)
    BY <1>4 DEF FinishRotation, Rest, KeyTypeOK
<1>5. CASE AbandonKey(t)
    BY <1>5 DEF AbandonKey, Rest, KeyTypeOK
<1> QED
    BY <1>1, <1>2, <1>3, <1>4, <1>5 DEF KeyStep

LEMMA TypeStep == TypeOK /\ [Next]_vars => TypeOK'
<1> SUFFICES ASSUME TypeOK, [Next]_vars
             PROVE  TypeOK'
    OBVIOUS
<1> USE MessageAssumption, GuardAssumption
<1> DEFINE Rows == /\ load \in [sent : SUBSET (Messages \cup Envelopes),
                                registrations : Nat]
                   /\ accepted \subseteq Messages \cup Envelopes
                   /\ twice \subseteq accepted
                   /\ overlapped \subseteq Nonces
                   /\ stalled \subseteq Nonces
                   /\ early \subseteq Envelopes
                   /\ late \subseteq Envelopes
<1>t. KeyTypeOK /\ GuardTypeOK /\ Rows /\ at \in Typed
    BY DEF TypeOK, Typed
<1>u. ASSUME KeyTypeOK', GuardTypeOK', Rows', at' \in Typed
      PROVE  TypeOK'
    BY <1>u DEF TypeOK, Typed
<1>k. ASSUME UNCHANGED keyVars
      PROVE  KeyTypeOK'
    BY <1>k, <1>t DEF keyVars, KeyTypeOK
<1>g. ASSUME UNCHANGED guardVars
      PROVE  GuardTypeOK'
    BY <1>g, <1>t DEF guardVars, GuardTypeOK
<1>h. ASSUME UNCHANGED <<load, history>>
      PROVE  Rows'
    BY <1>h, <1>t DEF history
<1>1. CASE Tick
  <2>1. GuardTypeOK'
    BY <1>1, <1>t DEF Tick, Advance, GuardTypeOK
  <2> QED
    BY <1>1, <1>t, <1>u, <1>k, <1>h, <2>1 DEF Tick
<1>2. CASE Restart
  <2>1. GuardTypeOK'
    BY <1>2, <1>t DEF Restart, LoseGuard, GuardTypeOK
  <2>2. KeyTypeOK'
    BY <1>2, <1>t DEF Restart, KeyTypeOK
  <2>3. at' \in Typed
    BY <1>2 DEF Restart, Typed
  <2> QED
    BY <1>2, <1>u, <1>h, <2>1, <2>2, <2>3 DEF Restart
<1>3. ASSUME NEW t \in Keepers, NEW k \in Keys, NEW rotates \in BOOLEAN,
             BeginKey(t, k, rotates)
      PROVE  TypeOK'
  <2>1. load' \in [sent : SUBSET (Messages \cup Envelopes), registrations : Nat]
    BY <1>3, <1>t DEF BeginKey
  <2>2. Rows'
    BY <1>3, <1>t, <2>1 DEF BeginKey, history
  <2>3. KeyTypeOK'
    BY <1>3, <1>t DEF BeginKey, FindKey, KeyTypeOK, Keeping
  <2> QED
    BY <1>3, <1>t, <1>u, <1>g, <2>2, <2>3 DEF BeginKey
<1>4. ASSUME NEW t \in Keepers, ContinueKey(t)
      PROVE  TypeOK'
    BY <1>4, <1>t, <1>u, <1>g, <1>h, KeysMove DEF ContinueKey
<1>5. ASSUME NEW d \in Deliveries, NEW m \in Messages, Receive(d, m)
      PROVE  TypeOK'
  <2>1. [pc |-> "fresh", item |-> m, now |-> clock, barred |-> Revoked(m.key)]
        \in MessageDelivery
    BY <1>t DEF MessageDelivery, GuardTypeOK, Revoked
  <2>2. at' \in Typed
    BY <1>5, <2>1, DeliveryMoves DEF Receive
  <2>3. Rows'
    BY <1>5, <1>t, ItemFacts DEF Receive
  <2> QED
    BY <1>5, <1>u, <1>k, <1>g, <2>2, <2>3 DEF Receive
<1>6. ASSUME NEW d \in Deliveries, LookUpNonce(d)
      PROVE  TypeOK'
  <2>1. at[d] \in MessageDelivery /\ at[d].item \in Messages
        /\ at[d].item.nonce \in Nonces
    BY <1>6, DeliveryShape, ItemFacts DEF LookUpNonce
  <2>2. [at[d] EXCEPT !.pc = "unseen"] \in MessageDelivery
    BY <2>1 DEF MessageDelivery
  <2>3. at' \in Typed
    BY <1>6, <1>t, <2>2 DEF LookUpNonce, End, Typed
  <2>4. Rows'
    BY <1>6, <1>t, <2>1 DEF LookUpNonce
  <2>5. GuardTypeOK'
    BY <1>6, <1>t DEF LookUpNonce, PurgeNonces, Purged, GuardTypeOK
  <2> QED
    BY <1>6, <1>u, <1>k, <2>3, <2>4, <2>5 DEF LookUpNonce
<1>7. ASSUME NEW d \in Deliveries, CheckSignature(d)
      PROVE  TypeOK'
  <2>1. at[d] \in MessageDelivery
    BY <1>7, DeliveryShape DEF CheckSignature
  <2>2. [at[d] EXCEPT !.pc = "verified"] \in MessageDelivery
    BY <2>1 DEF MessageDelivery
  <2>3. at' \in Typed
    BY <1>7, <1>t, <2>2 DEF CheckSignature, End, Typed
  <2> QED
    BY <1>7, <1>u, <1>k, <1>g, <1>h, <2>3 DEF CheckSignature
<1>8. ASSUME NEW d \in Deliveries, RecordNonce(d)
      PROVE  TypeOK'
  <2>1. /\ at[d].item \in Messages /\ at[d].now \in 0 .. MaxClock
        /\ at[d].item.nonce \in Nonces
    BY <1>8, DeliveryShape, ItemFacts DEF RecordNonce, Record
  <2>2. at[d].now + 2 * Skew \in Nat
    BY <2>1
  <2>3. GuardTypeOK'
    BY <1>8, <1>t, <2>1, <2>2 DEF RecordNonce, Record, Remember, GuardTypeOK
  <2>4. Rows'
    BY <1>8, <1>t, <2>1 DEF RecordNonce, Record, Accept
  <2>5. at' \in Typed
    BY <1>8, DeliveryMoves DEF RecordNonce, Record, End
  <2> QED
    BY <1>8, <1>u, <1>k, <2>3, <2>4, <2>5 DEF RecordNonce, Record
<1>9. ASSUME NEW d \in Deliveries, NEW e \in Envelopes, CheckEnvelope(d, e)
      PROVE  TypeOK'
  <2>1. at' \in Typed
    BY <1>9, DeliveryMoves DEF CheckEnvelope, EnvelopeDelivery
  <2> QED
    BY <1>9, <1>u, <1>k, <1>g, <1>h, <2>1 DEF CheckEnvelope
<1>10. ASSUME NEW d \in Deliveries, ConsumeNonce(d)
       PROVE  TypeOK'
  <2>1. at[d].item \in Envelopes /\ at[d].item.nonce \in Nonces
    BY <1>10, DeliveryShape, ItemFacts DEF ConsumeNonce
  <2>2. GuardTypeOK'
    BY <1>10, <1>t, <2>1 DEF ConsumeNonce, Consume, GuardTypeOK, guardVars
  <2>3. Rows'
    BY <1>10, <1>t, <2>1 DEF ConsumeNonce, Accept
  <2>4. at' \in Typed
    BY <1>10, DeliveryMoves DEF ConsumeNonce, End
  <2> QED
    BY <1>10, <1>u, <1>k, <2>2, <2>3, <2>4 DEF ConsumeNonce
<1>11. ASSUME NEW d \in Deliveries, Drop(d)
       PROVE  TypeOK'
  <2>1. at' \in Typed
    BY <1>11, DeliveryMoves DEF Drop, End
  <2> QED
    BY <1>11, <1>u, <1>k, <1>g, <1>h, <2>1 DEF Drop
<1>12. CASE UNCHANGED vars
    BY <1>12, <1>t, <1>u, <1>k, <1>g, <1>h DEF vars
<1> QED
    BY <1>1, <1>2, <1>3, <1>4, <1>5, <1>6, <1>7, <1>8, <1>9, <1>10, <1>11,
       <1>12 DEF Next

\* Every reachable state of verification and key keeping is well typed.
THEOREM WellTyped == Spec => []TypeOK
<1> QED
    BY TypeInit, TypeStep, PTL DEF Spec

-----------------------------------------------------------------------------
(* Keys.                                                                   *)

\* Two registrations in progress have crossed.
KeepersAlone ==
    \A t, u \in Keepers :
        (t # u /\ keeping[t] # Resting /\ keeping[u] # Resting) => crossed

\* What a rotation that is undisturbed has established: its key is active, and
\* once it has listed the others no other key is.
RotationStands(t) ==
    /\ keeping[t].pc \in {"registered", "listed"}
          => keyStatus[keeping[t].key] = "ACTIVE"
    /\ keeping[t].pc = "listed"
          => /\ keeping[t].key \notin keeping[t].old
             /\ ActiveKeys \subseteq keeping[t].old \cup {keeping[t].key}

KeyInv ==
    /\ KeepersAlone
    /\ (~crossed /\ ~revived) => \A t \in Keepers : RotationStands(t)
    /\ KeyKept

LEMMA KeyInvInit == Init => KeyInv
BY DEF Init, KeyInit, KeyInv, KeepersAlone, RotationStands, KeyKept, Registered,
   Resting

\* A step that changes no key and only ends registrations.
LEMMA KeysAside ==
    ASSUME KeyInv, UNCHANGED <<keyStatus, crossed, revived>>,
           \A t \in Keepers : keeping'[t] \in {keeping[t], Resting}
    PROVE  KeyInv'
<1>1. KeepersAlone'
    BY DEF KeyInv, KeepersAlone
<1>2. ASSUME ~crossed, ~revived, NEW t \in Keepers
      PROVE  RotationStands(t)'
  <2>1. RotationStands(t)
    BY <1>2 DEF KeyInv
  <2>2. CASE keeping'[t] = keeping[t]
    BY <2>1, <2>2 DEF RotationStands, ActiveKeys
  <2>3. CASE keeping'[t] = Resting
    BY <2>3 DEF RotationStands, Resting
  <2> QED
    BY <2>2, <2>3
<1>3. KeyKept'
    BY DEF KeyInv, KeyKept, Registered, ActiveKeys
<1> QED
    BY <1>1, <1>2, <1>3 DEF KeyInv

LEMMA KeyInvStep == TypeOK /\ TypeOK' /\ KeyInv /\ [Next]_vars => KeyInv'
<1> SUFFICES ASSUME TypeOK, TypeOK', KeyInv, [Next]_vars
             PROVE  KeyInv'
    OBVIOUS
<1>t. /\ keyStatus \in [Keys -> KeyStatuses]
      /\ keeping \in [Keepers -> Keeping \cup {Resting}]
      /\ crossed \in BOOLEAN /\ revived \in BOOLEAN
    BY DEF TypeOK, KeyTypeOK
\* Under one keeper at a time, its own standing is all there is to show.
<1>o. ASSUME NEW t \in Keepers, keeping[t] # Resting, UNCHANGED <<crossed, revived>>,
             \A u \in Keepers \ {t} : keeping'[u] = keeping[u],
             (~crossed /\ ~revived) => RotationStands(t)' /\ KeyKept'
      PROVE  KeyInv'
  <2>1. KeepersAlone'
    BY <1>o DEF KeyInv, KeepersAlone
  <2>2. ASSUME ~crossed, ~revived, NEW u \in Keepers, u # t
        PROVE  RotationStands(u)'
    <3>1. keeping'[u] = Resting
      BY <1>o, <2>2 DEF KeyInv, KeepersAlone
    <3> QED
      BY <3>1 DEF RotationStands, Resting
  <2>3. KeyKept'
    BY <1>o DEF KeyKept
  <2> QED
    BY <1>o, <2>1, <2>2, <2>3 DEF KeyInv
<1>1. CASE Restart
    BY <1>1, <1>t, KeysAside DEF Restart
<1>2. ASSUME NEW t \in Keepers, NEW k \in Keys, NEW rotates \in BOOLEAN,
             BeginKey(t, k, rotates)
      PROVE  KeyInv'
  <2>1. /\ keeping[t] = Resting /\ keyStatus' = keyStatus
        /\ crossed' = (crossed \/ \E u \in Keepers : keeping[u] # Resting)
        /\ revived' = (revived \/ keyStatus[k] = "REVOKED")
        /\ \A u \in Keepers \ {t} : keeping'[u] = keeping[u]
        /\ keeping'[t].key = k
        /\ keeping'[t].pc = IF k \in Registered THEN "registered" ELSE "absent"
    BY <1>2, <1>t DEF BeginKey, FindKey
  <2>2. KeepersAlone'
    BY <2>1 DEF KeyInv, KeepersAlone
  <2>3. ASSUME ~crossed', ~revived', NEW u \in Keepers
        PROVE  RotationStands(u)'
    <3>1. CASE u = t
      <4>1. k \in Registered => keyStatus[k] = "ACTIVE"
        BY <1>t, <2>1, <2>3 DEF Registered, KeyStatuses
      <4> QED
        BY <2>1, <3>1, <4>1 DEF RotationStands
    <3>2. CASE u # t
      BY <2>1, <2>3, <3>2 DEF KeyInv, RotationStands, ActiveKeys
    <3> QED
      BY <3>1, <3>2
  <2>4. KeyKept'
    BY <2>1 DEF KeyInv, KeyKept, Registered, ActiveKeys
  <2> QED
    BY <2>2, <2>3, <2>4 DEF KeyInv
<1>3. ASSUME NEW t \in Keepers, CreateKey(t)
      PROVE  KeyInv'
  <2> DEFINE k == keeping[t].key
  <2>1. k \in Keys /\ keeping[t] # Resting /\ keeping[t] \in Keeping
    BY <1>3, KeeperShape DEF CreateKey, Resting
  <2>2. /\ UNCHANGED <<crossed, revived>>
        /\ \A u \in Keepers \ {t} : keeping'[u] = keeping[u]
    BY <1>3, <1>t DEF CreateKey, Rest
  <2>3. CASE k \in Registered
    BY <1>3, <1>t, <2>3, KeysAside DEF CreateKey, Rest
  <2>4. CASE k \notin Registered
    <3>1. /\ keyStatus' = [keyStatus EXCEPT ![k] = "ACTIVE"]
          /\ keeping'[t] \in {Resting, [keeping[t] EXCEPT !.pc = "registered"]}
      BY <1>3, <1>t, <2>4 DEF CreateKey, Rest
    <3>2. RotationStands(t)'
      BY <1>t, <2>1, <3>1 DEF RotationStands, Resting, Keeping
    <3>3. k \in ActiveKeys'
      BY <1>t, <2>1, <3>1 DEF ActiveKeys
    <3> QED
      BY <1>o, <2>1, <2>2, <3>2, <3>3 DEF KeyKept
  <2> QED
    BY <2>3, <2>4
<1>4. ASSUME NEW t \in Keepers, ListOthers(t)
      PROVE  KeyInv'
  <2>1. keeping[t] # Resting /\ keeping[t] \in Keeping
    BY <1>4, KeeperShape DEF ListOthers, Resting
  <2>2. /\ UNCHANGED <<crossed, revived, keyStatus>>
        /\ \A u \in Keepers \ {t} : keeping'[u] = keeping[u]
        /\ keeping'[t] = [keeping[t] EXCEPT !.pc = "listed",
                              !.old = ActiveKeys \ {keeping[t].key}]
    BY <1>4, <1>t DEF ListOthers
  <2>3. /\ keeping'[t].pc = "listed" /\ keeping'[t].key = keeping[t].key
        /\ keeping'[t].old = ActiveKeys \ {keeping[t].key}
    BY <2>1, <2>2 DEF Keeping
  <2>4. (~crossed /\ ~revived) => RotationStands(t)'
    BY <1>4, <2>2, <2>3 DEF ListOthers, KeyInv, RotationStands, ActiveKeys
  <2>5. KeyKept'
    BY <2>2 DEF KeyInv, KeyKept, Registered, ActiveKeys
  <2> QED
    BY <1>o, <2>1, <2>2, <2>4, <2>5
<1>5. ASSUME NEW t \in Keepers, RevokeOld(t)
      PROVE  KeyInv'
  <2>1. keeping[t] # Resting /\ keeping[t] \in Keeping
    BY <1>5, KeeperShape DEF RevokeOld, Resting
  <2>2. PICK k \in keeping[t].old :
           /\ keyStatus' = [keyStatus EXCEPT ![k] = "REVOKED"]
           /\ keeping' = [keeping EXCEPT ![t].old = @ \ {k}]
    BY <1>5 DEF RevokeOld
  <2>3. k \in Keys /\ keeping[t].key \in Keys
    BY <2>1 DEF Keeping
  <2>4. /\ UNCHANGED <<crossed, revived>>
        /\ \A u \in Keepers \ {t} : keeping'[u] = keeping[u]
        /\ keeping'[t].pc = keeping[t].pc /\ keeping'[t].key = keeping[t].key
        /\ keeping'[t].old = keeping[t].old \ {k}
    BY <1>5, <1>t, <2>1, <2>2 DEF RevokeOld, Keeping
  <2>5. ASSUME ~crossed, ~revived
        PROVE  RotationStands(t)' /\ KeyKept'
    <3>1. keeping[t].pc = "listed" /\ RotationStands(t)
      BY <1>5, <2>5 DEF RevokeOld, KeyInv
    <3>2. keyStatus'[keeping[t].key] = "ACTIVE"
      BY <1>t, <2>2, <2>3, <3>1 DEF RotationStands
    <3>3. ActiveKeys' \subseteq ActiveKeys \ {k}
      BY <1>t, <2>2, <2>3 DEF ActiveKeys
    <3> QED
      BY <2>3, <2>4, <3>1, <3>2, <3>3 DEF RotationStands, KeyKept, ActiveKeys
  <2> QED
    BY <1>o, <2>1, <2>4, <2>5
<1>6. ASSUME NEW t \in Keepers, FinishRotation(t) \/ AbandonKey(t)
      PROVE  KeyInv'
    BY <1>6, <1>t, KeysAside DEF FinishRotation, AbandonKey, Rest
<1>7. ASSUME UNCHANGED keyVars
      PROVE  KeyInv'
    BY <1>7, <1>t, KeysAside DEF keyVars
<1> QED
    BY <1>1, <1>2, <1>3, <1>4, <1>5, <1>6, <1>7
    DEF Next, Tick, ContinueKey, KeyStep, Receive, LookUpNonce, CheckSignature,
        RecordNonce, Record, CheckEnvelope, ConsumeNonce, Drop, vars

\* An agent that has registered a key keeps an active one, for any number of
\* keys and threads, unless registrations overlap or one is of a revoked key.
THEOREM AgentsKeepAKey == Spec => []KeyKept
<1>1. Init => TypeOK /\ KeyInv
    BY TypeInit, KeyInvInit
<1>2. TypeOK /\ KeyInv /\ [Next]_vars => TypeOK' /\ KeyInv'
    BY TypeStep, KeyInvStep
<1>3. KeyInv => KeyKept
    BY DEF KeyInv
<1> QED
    BY <1>1, <1>2, <1>3, PTL DEF Spec

\* An undisturbed rotation that has revoked what it listed leaves one key.
THEOREM RotationsLeaveOneKey == Spec => []RotationLeavesOne
<1>1. Init => TypeOK /\ KeyInv
    BY TypeInit, KeyInvInit
<1>2. TypeOK /\ KeyInv /\ [Next]_vars => TypeOK' /\ KeyInv'
    BY TypeStep, KeyInvStep
<1>3. TypeOK /\ KeyInv => RotationLeavesOne
  <2> SUFFICES ASSUME TypeOK, KeyInv, ~crossed, ~revived, NEW t \in Keepers,
                      keeping[t].pc = "listed", keeping[t].old = {}
               PROVE  ActiveKeys = {keeping[t].key}
    BY DEF RotationLeavesOne
  <2>1. RotationStands(t) /\ keeping[t].key \in Keys
    BY KeeperShape DEF KeyInv
  <2> QED
    BY <2>1 DEF RotationStands, ActiveKeys
<1> QED
    BY <1>1, <1>2, <1>3, PTL DEF Spec

-----------------------------------------------------------------------------
(* Signed messages.                                                        *)

Carries(d) == at[d].pc \in {"fresh", "unseen", "verified"}

\* No race has touched the nonce of m.
Calm(m) == m.nonce \notin overlapped \cup stalled

\* What a delivery knows: the time it took is past or present and near the
\* timestamp; a verified message is genuine, and a barred one has its key
\* revoked and is not verified.
DeliverySound(d) ==
    /\ Carries(d) =>
          /\ at[d].now <= clock
          /\ at[d].now - at[d].item.timestamp <= Skew
          /\ at[d].item.timestamp - at[d].now <= Skew
          /\ at[d].barred => Revoked(at[d].item.key)
    /\ at[d].pc = "verified" => at[d].item.genuine /\ ~at[d].barred

\* Two deliveries of one nonce have overlapped.
DeliveriesAlone ==
    \A d, e \in Deliveries :
        (d # e /\ Carries(d) /\ Carries(e) /\ at[d].item.nonce = at[e].item.nonce)
        => at[d].item.nonce \in overlapped

\* A message that was looked up in vain, without a race, is new.
UnseenIsNew(d) ==
    (at[d].pc \in {"unseen", "verified"} /\ Calm(at[d].item))
    => nonces[at[d].item.nonce] = Forgotten /\ at[d].item \notin accepted

\* The nonce of an accepted message is held while the message may be received.
HeldOrPast(m) ==
    Calm(m) => \/ nonces[m.nonce] >= m.timestamp + Skew
               \/ clock > m.timestamp + Skew

MessageInv ==
    /\ \A d \in Deliveries : DeliverySound(d) /\ UnseenIsNew(d)
    /\ DeliveriesAlone
    /\ \A m \in accepted \cap Messages : HeldOrPast(m)
    /\ ForgeryBurnsNoNonce
    /\ TwiceOnlyByRace

LEMMA MessageInvInit == Init => MessageInv
BY DEF Init, GuardInit, MessageInv, Carries, DeliverySound, DeliveriesAlone,
   UnseenIsNew, HeldOrPast, ForgeryBurnsNoNonce, TwiceOnlyByRace, Idle

\* A step that accepts no message, remembers nothing and starts no delivery.
LEMMA MessagesAside ==
    ASSUME TypeOK, MessageInv, clock' \in Nat, clock' >= clock,
           UNCHANGED <<nonces, overlapped, stalled>>,
           \A k \in Keys : keyStatus[k] = "REVOKED" => keyStatus'[k] = "REVOKED",
           accepted' \cap Messages = accepted \cap Messages,
           twice' \cap Messages = twice \cap Messages,
           \A d \in Deliveries : at'[d] = at[d] \/ at'[d].pc \in {"idle", "checked"}
    PROVE  MessageInv'
<1>t. clock \in Nat /\ Skew \in Nat
    BY MessageAssumption, GuardAssumption DEF TypeOK, GuardTypeOK
<1>1. ASSUME NEW d \in Deliveries
      PROVE  DeliverySound(d)' /\ UnseenIsNew(d)'
  <2>1. CASE at'[d] = at[d]
    <3>1. DeliverySound(d) /\ UnseenIsNew(d)
      BY DEF MessageInv
    <3>2. Carries(d) => /\ at[d].item \in Messages /\ at[d].now \in Nat
                        /\ at[d].item.timestamp \in Nat
      BY DeliveryShape, ItemFacts, GuardAssumption DEF Carries
    <3>3. DeliverySound(d)'
      BY <1>t, <2>1, <3>1, <3>2 DEF DeliverySound, Carries, Revoked
    <3>4. UnseenIsNew(d)'
      BY <2>1, <3>1, <3>2 DEF UnseenIsNew, Carries, Calm
    <3> QED
      BY <3>3, <3>4
  <2>2. CASE at'[d].pc \in {"idle", "checked"}
    BY <2>2 DEF DeliverySound, UnseenIsNew, Carries
  <2> QED
    BY <2>1, <2>2
<1>2. DeliveriesAlone'
    BY DEF MessageInv, DeliveriesAlone, Carries
<1>3. ASSUME NEW m \in Messages, m \in accepted
      PROVE  HeldOrPast(m)'
  <2>1. HeldOrPast(m) /\ m.timestamp \in Nat
    BY <1>3, ItemFacts DEF MessageInv
  <2> QED
    BY <1>t, <2>1 DEF HeldOrPast, Calm
<1>4. ForgeryBurnsNoNonce' /\ TwiceOnlyByRace'
    BY DEF MessageInv, ForgeryBurnsNoNonce, TwiceOnlyByRace
<1> QED
    BY <1>1, <1>2, <1>3, <1>4 DEF MessageInv

\* No step brings a revoked key back.
LEMMA RevokedStays ==
    ASSUME TypeOK, [Next]_vars, NEW k \in Keys, keyStatus[k] = "REVOKED"
    PROVE  keyStatus'[k] = "REVOKED"
BY DEF Next, Tick, Restart, BeginKey, FindKey, ContinueKey, KeyStep, CreateKey,
   ListOthers, RevokeOld, FinishRotation, AbandonKey, Receive, LookUpNonce,
   CheckSignature, RecordNonce, Record, CheckEnvelope, ConsumeNonce, Drop, vars,
   keyVars, Registered, TypeOK, KeyTypeOK, Keeping

LEMMA MessageInvStep ==
    TypeOK /\ TypeOK' /\ MessageInv /\ [Next]_vars => MessageInv'
<1> SUFFICES ASSUME TypeOK, TypeOK', MessageInv, [Next]_vars
             PROVE  MessageInv'
    OBVIOUS
<1>t. /\ clock \in Nat /\ clock' \in Nat /\ Skew \in Nat
      /\ nonces \in [Nonces -> Nat \cup {Forgotten}]
      /\ at \in [Deliveries -> MessageDelivery \cup EnvelopeDelivery \cup {Idle}]
    BY MessageAssumption, GuardAssumption DEF TypeOK, GuardTypeOK
<1>r. \A k \in Keys : keyStatus[k] = "REVOKED" => keyStatus'[k] = "REVOKED"
    BY RevokedStays
<1>m. \A m \in Messages : m.nonce \in Nonces /\ m.timestamp \in Nat
    BY ItemFacts
<1>c. \A d \in Deliveries :
         Carries(d) => /\ at[d].item \in Messages /\ at[d].now \in Nat
                       /\ at[d] \in MessageDelivery
    BY DeliveryShape, GuardAssumption DEF Carries
<1>1. CASE Tick
    BY <1>1, <1>t, <1>r, MessagesAside DEF Tick, Advance, history
<1>2. CASE Restart
    BY <1>2, <1>t, <1>r, MessagesAside DEF Restart, LoseGuard, history, Idle
<1>3. ASSUME NEW t \in Keepers, NEW k \in Keys, NEW rotates \in BOOLEAN,
             BeginKey(t, k, rotates)
      PROVE  MessageInv'
    BY <1>3, <1>t, <1>r, MessagesAside DEF BeginKey, guardVars, history
<1>4. ASSUME NEW t \in Keepers, ContinueKey(t)
      PROVE  MessageInv'
    BY <1>4, <1>t, <1>r, MessagesAside DEF ContinueKey, guardVars, history
<1>5. ASSUME NEW d \in Deliveries, NEW m \in Messages, Receive(d, m)
      PROVE  MessageInv'
  <2>1. /\ at'[d] = [pc |-> "fresh", item |-> m, now |-> clock,
                     barred |-> Revoked(m.key)]
        /\ \A e \in Deliveries \ {d} : at'[e] = at[e]
        /\ UNCHANGED <<keyVars, guardVars, accepted, twice, stalled>>
        /\ overlapped \subseteq overlapped'
        /\ CarriedBy(m.nonce) # {} => m.nonce \in overlapped'
    BY <1>5, <1>t DEF Receive
  <2>2. ASSUME NEW e \in Deliveries
        PROVE  DeliverySound(e)' /\ UnseenIsNew(e)'
    <3>1. CASE e = d
      <4>1. /\ at'[e].pc = "fresh" /\ at'[e].item = m /\ at'[e].now = clock
            /\ at'[e].barred = Revoked(m.key)
        BY <2>1, <3>1
      <4>2. clock' = clock /\ Revoked(m.key)' = Revoked(m.key)
        BY <2>1 DEF guardVars, keyVars, Revoked
      <4>3. clock - m.timestamp <= Skew /\ m.timestamp - clock <= Skew
        BY <1>5 DEF Receive, WithinSkew
      <4>4. DeliverySound(e)'
        BY <1>t, <4>1, <4>2, <4>3 DEF DeliverySound, Carries
      <4> QED
        BY <4>1, <4>4 DEF UnseenIsNew
    <3>2. CASE e # d
      <4>1. DeliverySound(e) /\ UnseenIsNew(e)
        BY DEF MessageInv
      <4> QED
        BY <2>1, <3>2, <4>1
        DEF DeliverySound, UnseenIsNew, Carries, Calm, guardVars, keyVars, Revoked
    <3> QED
      BY <3>1, <3>2
  <2>3. DeliveriesAlone'
    <3> SUFFICES ASSUME NEW e \in Deliveries, NEW f \in Deliveries, e # f,
                        Carries(e)', Carries(f)', at'[e].item.nonce = at'[f].item.nonce
                 PROVE  at'[e].item.nonce \in overlapped'
      BY DEF DeliveriesAlone
    <3>1. CASE e # d /\ f # d
      BY <2>1, <3>1 DEF MessageInv, DeliveriesAlone, Carries
    <3>2. CASE e = d
      <4>1. f \in CarriedBy(m.nonce)
        BY <2>1, <3>2 DEF CarriedBy, Carries
      <4> QED
        BY <2>1, <3>2, <4>1
    <3>3. CASE f = d
      <4>1. e \in CarriedBy(m.nonce)
        BY <2>1, <3>3 DEF CarriedBy, Carries
      <4> QED
        BY <2>1, <3>3, <4>1
    <3> QED
      BY <3>1, <3>2, <3>3
  <2>4. \A q \in accepted' \cap Messages : HeldOrPast(q)'
    BY <2>1 DEF MessageInv, HeldOrPast, Calm, guardVars
  <2>5. ForgeryBurnsNoNonce' /\ TwiceOnlyByRace'
    BY <2>1 DEF MessageInv, ForgeryBurnsNoNonce, TwiceOnlyByRace, guardVars
  <2> QED
    BY <2>2, <2>3, <2>4, <2>5 DEF MessageInv
<1>6. ASSUME NEW d \in Deliveries, LookUpNonce(d)
      PROVE  MessageInv'
  <2> DEFINE m == at[d].item
             n == m.nonce
  <2>0. Carries(d) /\ DeliverySound(d)
    BY <1>6 DEF LookUpNonce, Carries, MessageInv
  <2>1. /\ at[d] \in MessageDelivery /\ m \in Messages /\ at[d].now \in Nat
        /\ n \in Nonces /\ m.timestamp \in Nat
        /\ at[d].now <= clock /\ at[d].now - m.timestamp <= Skew
    BY <1>c, <1>m, <2>0 DEF DeliverySound
  <2>2. \A q \in Nonces :
           nonces'[q] = IF nonces[q] < at[d].now THEN Forgotten ELSE nonces[q]
    BY <1>6, <1>t DEF LookUpNonce, PurgeNonces, Purged
  <2>3. /\ \A e \in Deliveries \ {d} : at'[e] = at[e]
        /\ UNCHANGED <<keyVars, clock, accepted, twice, overlapped>>
        /\ stalled \subseteq stalled'
        /\ at[d].now < clock => n \in stalled'
    BY <1>6, <1>t DEF LookUpNonce, PurgeNonces, End
  <2>4. \/ at'[d] = Idle
        \/ /\ at'[d] = [at[d] EXCEPT !.pc = "unseen"]
           /\ nonces'[n] = Forgotten
    BY <1>6, <1>t DEF LookUpNonce, PurgeNonces, Seen, End
  <2>5. \/ at'[d] = Idle
        \/ /\ at'[d].pc = "unseen" /\ at'[d].item = m /\ at'[d].now = at[d].now
           /\ at'[d].barred = at[d].barred
           /\ nonces'[n] = Forgotten
    BY <2>1, <2>4 DEF MessageDelivery
  <2>6. ASSUME NEW e \in Deliveries
        PROVE  DeliverySound(e)' /\ UnseenIsNew(e)'
    <3>1. CASE e = d
      <4>1. DeliverySound(d)'
        BY <2>0, <2>3, <2>5 DEF DeliverySound, Carries, Idle, Revoked, keyVars
      <4>2. ASSUME at'[d].pc = "unseen", n \notin overlapped, n \notin stalled'
            PROVE  m \notin accepted
        <5>1. nonces'[n] = Forgotten
          BY <2>5, <4>2 DEF Idle
        <5>2. at[d].now = clock
          BY <1>t, <2>1, <2>3, <4>2
        <5>3. m \in accepted => HeldOrPast(m) /\ Calm(m)
          BY <2>1, <2>3, <4>2 DEF MessageInv, Calm
        <5> QED
          BY <1>t, <2>1, <2>2, <5>1, <5>2, <5>3 DEF HeldOrPast, Forgotten
      <4>3. UnseenIsNew(d)'
        BY <2>3, <2>5, <4>2 DEF UnseenIsNew, Idle, Calm
      <4> QED
        BY <3>1, <4>1, <4>3
    <3>2. CASE e # d
      <4>1. DeliverySound(e) /\ UnseenIsNew(e)
        BY DEF MessageInv
      <4>2. Carries(e) => at[e].item.nonce \in Nonces
        BY <1>c, <1>m
      <4>3. DeliverySound(e)'
        BY <2>3, <3>2, <4>1 DEF DeliverySound, Carries, Revoked, keyVars
      <4>4. UnseenIsNew(e)'
        BY <2>2, <2>3, <3>2, <4>1, <4>2 DEF UnseenIsNew, Carries, Calm
      <4> QED
        BY <4>3, <4>4
    <3> QED
      BY <3>1, <3>2
  <2>7. DeliveriesAlone'
    BY <2>0, <2>3, <2>5 DEF MessageInv, DeliveriesAlone, Carries, Idle
  <2>8. ASSUME NEW q \in Messages, q \in accepted
        PROVE  HeldOrPast(q)'
    <3>1. HeldOrPast(q) /\ q.nonce \in Nonces /\ q.timestamp \in Nat
      BY <1>m, <2>8 DEF MessageInv
    <3> QED
      BY <1>t, <2>1, <2>2, <2>3, <3>1 DEF HeldOrPast, Calm
  <2>9. ForgeryBurnsNoNonce' /\ TwiceOnlyByRace'
    BY <2>2, <2>3 DEF MessageInv, ForgeryBurnsNoNonce, TwiceOnlyByRace
  <2> QED
    BY <2>3, <2>6, <2>7, <2>8, <2>9 DEF MessageInv
<1>7. ASSUME NEW d \in Deliveries, CheckSignature(d)
      PROVE  MessageInv'
  <2> DEFINE m == at[d].item
  <2>0. Carries(d) /\ DeliverySound(d) /\ UnseenIsNew(d) /\ at[d].pc = "unseen"
    BY <1>7 DEF CheckSignature, Carries, MessageInv
  <2>1. at[d] \in MessageDelivery /\ m \in Messages
    BY <1>c, <2>0
  <2>2. /\ \A e \in Deliveries \ {d} : at'[e] = at[e]
        /\ UNCHANGED <<keyVars, guardVars, accepted, twice, overlapped, stalled>>
    BY <1>7, <1>t DEF CheckSignature, End, history
  <2>3. \/ at'[d] = Idle
        \/ /\ at'[d] = [at[d] EXCEPT !.pc = "verified"]
           /\ Active(m.key) /\ m.genuine
    BY <1>7, <1>t DEF CheckSignature, End
  <2>4. \/ at'[d] = Idle
        \/ /\ at'[d].pc = "verified" /\ at'[d].item = m /\ at'[d].now = at[d].now
           /\ at'[d].barred = at[d].barred
           /\ Active(m.key) /\ m.genuine
    BY <2>1, <2>3 DEF MessageDelivery
  <2>5. Active(m.key) => ~Revoked(m.key)
    BY DEF Active, Revoked
  <2>6. ASSUME NEW e \in Deliveries
        PROVE  DeliverySound(e)' /\ UnseenIsNew(e)'
    <3>1. CASE e = d
      <4>1. DeliverySound(d)'
        BY <2>0, <2>2, <2>4, <2>5
        DEF DeliverySound, Carries, Idle, Revoked, keyVars, guardVars
      <4>2. UnseenIsNew(d)'
        BY <2>0, <2>2, <2>4 DEF UnseenIsNew, Idle, Calm, guardVars
      <4> QED
        BY <3>1, <4>1, <4>2
    <3>2. CASE e # d
      <4>1. DeliverySound(e) /\ UnseenIsNew(e)
        BY DEF MessageInv
      <4> QED
        BY <2>2, <3>2, <4>1
        DEF DeliverySound, UnseenIsNew, Carries, Calm, guardVars, keyVars, Revoked
    <3> QED
      BY <3>1, <3>2
  <2>7. DeliveriesAlone'
    BY <2>0, <2>2, <2>4 DEF MessageInv, DeliveriesAlone, Carries, Idle
  <2>8. \A q \in accepted' \cap Messages : HeldOrPast(q)'
    BY <2>2 DEF MessageInv, HeldOrPast, Calm, guardVars
  <2>9. ForgeryBurnsNoNonce' /\ TwiceOnlyByRace'
    BY <2>2 DEF MessageInv, ForgeryBurnsNoNonce, TwiceOnlyByRace, guardVars
  <2> QED
    BY <2>6, <2>7, <2>8, <2>9 DEF MessageInv
<1>8. ASSUME NEW d \in Deliveries, RecordNonce(d)
      PROVE  MessageInv'
  <2> DEFINE m == at[d].item
             n == m.nonce
  <2>0. Carries(d) /\ DeliverySound(d) /\ UnseenIsNew(d) /\ at[d].pc = "verified"
    BY <1>8 DEF RecordNonce, Record, Carries, MessageInv
  <2>1. /\ m \in Messages /\ at[d].now \in Nat /\ n \in Nonces
        /\ m.timestamp \in Nat /\ m.genuine
        /\ m.timestamp - at[d].now <= Skew
    BY <1>c, <1>m, <2>0 DEF DeliverySound
  <2>2. /\ \A e \in Deliveries \ {d} : at'[e] = at[e]
        /\ at'[d] = Idle
        /\ UNCHANGED <<keyVars, clock, overlapped, stalled>>
        /\ accepted' = accepted \cup {m}
        /\ twice' = IF m \in accepted THEN twice \cup {m} ELSE twice
    BY <1>8, <1>t DEF RecordNonce, Record, Remember, Accept, End
  <2>3. /\ \A q \in Nonces \ {n} : nonces'[q] = nonces[q]
        /\ nonces'[n] = IF nonces[n] = Forgotten THEN at[d].now + 2 * Skew
                        ELSE nonces[n]
    BY <1>8, <1>t, <2>1 DEF RecordNonce, Record, Remember
  <2>4. ASSUME NEW e \in Deliveries
        PROVE  DeliverySound(e)' /\ UnseenIsNew(e)'
    <3>1. CASE e = d
      BY <2>2, <3>1 DEF DeliverySound, UnseenIsNew, Carries, Idle
    <3>2. CASE e # d
      <4>1. DeliverySound(e) /\ UnseenIsNew(e)
        BY DEF MessageInv
      <4>2. DeliverySound(e)'
        BY <2>2, <3>2, <4>1 DEF DeliverySound, Carries, Revoked, keyVars
      <4>3. ASSUME Carries(e), Calm(at[e].item)
            PROVE  at[e].item.nonce # n /\ at[e].item.nonce \in Nonces
        BY <1>c, <1>m, <2>0, <3>2, <4>3 DEF MessageInv, DeliveriesAlone, Calm
      <4>4. UnseenIsNew(e)'
        BY <2>2, <2>3, <3>2, <4>1, <4>3 DEF UnseenIsNew, Carries, Calm
      <4> QED
        BY <4>2, <4>4
    <3> QED
      BY <3>1, <3>2
  <2>5. DeliveriesAlone'
    BY <2>2 DEF MessageInv, DeliveriesAlone, Carries, Idle
  <2>6. ASSUME NEW q \in Messages, q \in accepted'
        PROVE  HeldOrPast(q)'
    <3>1. CASE q = m
      <4>1. Calm(m) => nonces[n] = Forgotten
        BY <2>0 DEF UnseenIsNew
      <4> QED
        BY <1>t, <2>1, <2>2, <2>3, <3>1, <4>1 DEF HeldOrPast, Calm
    <3>2. CASE q # m
      <4>1. HeldOrPast(q) /\ q.nonce \in Nonces /\ q.timestamp \in Nat
        BY <1>m, <2>2, <2>6, <3>2 DEF MessageInv
      <4> QED
        BY <1>t, <2>2, <2>3, <4>1 DEF HeldOrPast, Calm, Forgotten
    <3> QED
      BY <3>1, <3>2
  <2>7. ForgeryBurnsNoNonce'
    BY <2>1, <2>2, <2>3 DEF MessageInv, ForgeryBurnsNoNonce
  <2>8. TwiceOnlyByRace'
    <3>1. m \in accepted => n \in overlapped \cup stalled
      BY <2>0 DEF UnseenIsNew, Calm
    <3> QED
      BY <2>2, <3>1 DEF MessageInv, TwiceOnlyByRace
  <2> QED
    BY <2>4, <2>5, <2>6, <2>7, <2>8 DEF MessageInv
<1>9. ASSUME NEW d \in Deliveries, NEW e \in Envelopes, CheckEnvelope(d, e)
      PROVE  MessageInv'
    BY <1>9, <1>t, <1>r, MessagesAside DEF CheckEnvelope, guardVars, history
<1>10. ASSUME NEW d \in Deliveries, ConsumeNonce(d)
       PROVE  MessageInv'
  <2>1. at[d].item \in Envelopes /\ at[d].item \notin Messages
    BY <1>10, DeliveryShape, ItemsDiffer DEF ConsumeNonce
  <2>2. /\ accepted' \cap Messages = accepted \cap Messages
        /\ twice' \cap Messages = twice \cap Messages
    BY <1>10, <2>1 DEF ConsumeNonce, Accept
  <2>3. UNCHANGED <<nonces, clock, overlapped, stalled>>
    BY <1>10 DEF ConsumeNonce, Consume, guardVars
  <2>4. \A e \in Deliveries : at'[e] = at[e] \/ at'[e].pc \in {"idle", "checked"}
    BY <1>10, <1>t DEF ConsumeNonce, End, Idle
  <2> QED
    BY <1>t, <1>r, <2>2, <2>3, <2>4, MessagesAside
<1>11. ASSUME NEW d \in Deliveries, Drop(d)
       PROVE  MessageInv'
    BY <1>11, <1>t, <1>r, MessagesAside DEF Drop, End, Idle, guardVars, history
<1>12. CASE UNCHANGED vars
    BY <1>12, <1>t, <1>r, MessagesAside DEF vars, guardVars, history
<1> QED
    BY <1>1, <1>2, <1>3, <1>4, <1>5, <1>6, <1>7, <1>8, <1>9, <1>10, <1>11,
       <1>12 DEF Next

LEMMA MessagesSound == Spec => [](TypeOK /\ MessageInv)
<1>1. Init => TypeOK /\ MessageInv
    BY TypeInit, MessageInvInit
<1>2. TypeOK /\ MessageInv /\ [Next]_vars => TypeOK' /\ MessageInv'
    BY TypeStep, MessageInvStep
<1> QED
    BY <1>1, <1>2, PTL DEF Spec

\* Without a race on its nonce no message is accepted twice, for any skew, any
\* number of messages and verifiers and any clock readings.
THEOREM RepeatsNeedARace == Spec => []TwiceOnlyByRace
<1>1. MessageInv => TwiceOnlyByRace
    BY DEF MessageInv
<1> QED
    BY <1>1, MessagesSound, PTL

\* Only genuine messages make the service remember a nonce.
THEOREM ForgeriesAreForgotten == Spec => []ForgeryBurnsNoNonce
<1>1. MessageInv => ForgeryBurnsNoNonce
    BY DEF MessageInv
<1> QED
    BY <1>1, MessagesSound, PTL

\* A message received under a revoked key is never verified.
THEOREM RevocationBars == Spec => []RevokedKeyBarred
<1>1. MessageInv => RevokedKeyBarred
    BY DEF MessageInv, DeliverySound, RevokedKeyBarred
<1> QED
    BY <1>1, MessagesSound, PTL

-----------------------------------------------------------------------------
(* Signature envelopes.                                                    *)

\* An accepted envelope is held by the guard until it expires.
HeldOrExpired(e) ==
    \/ restarted
    \/ e \in early \cup late
    \/ guard[e.nonce] >= e.expires
    \/ clock >= e.expires

EnvelopeInv ==
    /\ \A d \in Deliveries :
          at[d].pc = "checked" => at[d].item.expires <= at[d].item.issued + MaxLife
    /\ \A e \in accepted \cap Envelopes : HeldOrExpired(e)
    /\ EnvelopeTwiceOnlyIf

LEMMA EnvelopeInvInit == Init => EnvelopeInv
BY DEF Init, EnvelopeInv, EnvelopeTwiceOnlyIf, Idle

\* A step that accepts no envelope and consumes nothing from the guard.
LEMMA EnvelopesAside ==
    ASSUME TypeOK, EnvelopeInv, clock' \in Nat, clock' >= clock,
           restarted' = restarted, guard' = guard,
           UNCHANGED <<early, late>>,
           accepted' \cap Envelopes = accepted \cap Envelopes,
           twice' \cap Envelopes = twice \cap Envelopes,
           \A d \in Deliveries : at'[d] = at[d] \/ at'[d].pc # "checked"
    PROVE  EnvelopeInv'
<1>1. \A d \in Deliveries : at'[d].pc = "checked" =>
         at'[d].item.expires <= at'[d].item.issued + MaxLife
    BY DEF EnvelopeInv
<1>2. ASSUME NEW e \in Envelopes, e \in accepted
      PROVE  HeldOrExpired(e)'
  <2>1. HeldOrExpired(e) /\ e.expires \in Nat /\ clock \in Nat
    BY <1>2, ItemFacts, GuardAssumption DEF EnvelopeInv, TypeOK, GuardTypeOK
  <2> QED
    BY <2>1 DEF HeldOrExpired
<1>3. EnvelopeTwiceOnlyIf'
    BY DEF EnvelopeInv, EnvelopeTwiceOnlyIf
<1> QED
    BY <1>1, <1>2, <1>3 DEF EnvelopeInv

LEMMA EnvelopeInvStep ==
    TypeOK /\ TypeOK' /\ EnvelopeInv /\ [Next]_vars => EnvelopeInv'
<1> SUFFICES ASSUME TypeOK, TypeOK', EnvelopeInv, [Next]_vars
             PROVE  EnvelopeInv'
    OBVIOUS
<1>t. /\ clock \in Nat /\ clock' \in Nat
      /\ GuardTtl \in Nat /\ MaxLife \in Nat /\ MaxLife <= GuardTtl
      /\ guard \in [Nonces -> Nat \cup {Forgotten}]
      /\ at \in [Deliveries -> MessageDelivery \cup EnvelopeDelivery \cup {Idle}]
    BY MessageAssumption, GuardAssumption DEF TypeOK, GuardTypeOK
<1>1. CASE Tick
    BY <1>1, <1>t, EnvelopesAside DEF Tick, Advance, history
<1>2. CASE Restart
  <2>1. restarted' /\ at' = [d \in Deliveries |-> Idle]
    BY <1>2 DEF Restart, LoseGuard
  <2> QED
    BY <2>1 DEF EnvelopeInv, HeldOrExpired, EnvelopeTwiceOnlyIf, Idle
<1>3. ASSUME NEW t \in Keepers, NEW k \in Keys, NEW rotates \in BOOLEAN,
             BeginKey(t, k, rotates)
      PROVE  EnvelopeInv'
    BY <1>3, <1>t, EnvelopesAside DEF BeginKey, guardVars, history
<1>4. ASSUME NEW t \in Keepers, ContinueKey(t)
      PROVE  EnvelopeInv'
    BY <1>4, <1>t, EnvelopesAside DEF ContinueKey, guardVars, history
<1>5. ASSUME NEW d \in Deliveries, NEW m \in Messages, Receive(d, m)
      PROVE  EnvelopeInv'
  <2>1. \A e \in Deliveries : at'[e] = at[e] \/ at'[e].pc # "checked"
    BY <1>5, <1>t DEF Receive
  <2> QED
    BY <1>5, <1>t, <2>1, EnvelopesAside DEF Receive, guardVars
<1>6. ASSUME NEW d \in Deliveries, LookUpNonce(d)
      PROVE  EnvelopeInv'
  <2>1. at[d] \in MessageDelivery
    BY <1>6, DeliveryShape DEF LookUpNonce
  <2>2. \A e \in Deliveries : at'[e] = at[e] \/ at'[e].pc # "checked"
    BY <1>6, <1>t, <2>1 DEF LookUpNonce, End, Idle, MessageDelivery
  <2> QED
    BY <1>6, <1>t, <2>2, EnvelopesAside DEF LookUpNonce, PurgeNonces
<1>7. ASSUME NEW d \in Deliveries, CheckSignature(d)
      PROVE  EnvelopeInv'
  <2>1. at[d] \in MessageDelivery
    BY <1>7, DeliveryShape DEF CheckSignature
  <2>2. \A e \in Deliveries : at'[e] = at[e] \/ at'[e].pc # "checked"
    BY <1>7, <1>t, <2>1 DEF CheckSignature, End, Idle, MessageDelivery
  <2> QED
    BY <1>7, <1>t, <2>2, EnvelopesAside DEF CheckSignature, guardVars, history
<1>8. ASSUME NEW d \in Deliveries, RecordNonce(d)
      PROVE  EnvelopeInv'
  <2>1. at[d].item \in Messages /\ at[d].item \notin Envelopes
    BY <1>8, DeliveryShape, ItemsDiffer DEF RecordNonce, Record
  <2>2. /\ accepted' \cap Envelopes = accepted \cap Envelopes
        /\ twice' \cap Envelopes = twice \cap Envelopes
    BY <1>8, <2>1 DEF RecordNonce, Record, Accept
  <2>3. \A e \in Deliveries : at'[e] = at[e] \/ at'[e].pc # "checked"
    BY <1>8, <1>t DEF RecordNonce, Record, End, Idle
  <2> QED
    BY <1>8, <1>t, <2>2, <2>3, EnvelopesAside DEF RecordNonce, Record, Remember
<1>9. ASSUME NEW d \in Deliveries, NEW e \in Envelopes, CheckEnvelope(d, e)
      PROVE  EnvelopeInv'
  <2>1. /\ at'[d] = [pc |-> "checked", item |-> e]
        /\ \A f \in Deliveries \ {d} : at'[f] = at[f]
        /\ UNCHANGED <<clock, guard, restarted, accepted, twice, early, late>>
    BY <1>9, <1>t DEF CheckEnvelope, guardVars, history
  <2>2. e.expires <= e.issued + MaxLife
    BY <1>9, <1>t, ItemFacts DEF CheckEnvelope, InForce
  <2>3. \A f \in Deliveries : at'[f].pc = "checked" =>
           at'[f].item.expires <= at'[f].item.issued + MaxLife
    BY <2>1, <2>2 DEF EnvelopeInv
  <2> QED
    BY <2>1, <2>3 DEF EnvelopeInv, HeldOrExpired, EnvelopeTwiceOnlyIf
<1>10. ASSUME NEW d \in Deliveries, ConsumeNonce(d)
       PROVE  EnvelopeInv'
  <2>0. PICK e \in Envelopes : e = at[d].item
    BY <1>10, DeliveryShape DEF ConsumeNonce
  <2> DEFINE n == e.nonce
  <2>1. /\ n \in Nonces /\ e.issued \in Nat /\ e.expires \in Nat
        /\ e.expires <= e.issued + MaxLife
    BY <1>10, <2>0, ItemFacts DEF ConsumeNonce, EnvelopeInv
  <2>2. /\ at'[d] = Idle
        /\ \A f \in Deliveries \ {d} : at'[f] = at[f]
    BY <1>10, <1>t DEF ConsumeNonce, End
  <2>3. \A f \in Deliveries : at'[f].pc = "checked" =>
           at'[f].item.expires <= at'[f].item.issued + MaxLife
    BY <2>2 DEF EnvelopeInv, Idle
  <2>4. CASE ~Fresh(n)
    <3>1. UNCHANGED <<clock, guard, restarted, accepted, twice, early, late>>
      BY <1>10, <2>0, <2>4 DEF ConsumeNonce, guardVars
    <3> QED
      BY <2>3, <3>1 DEF EnvelopeInv, HeldOrExpired, EnvelopeTwiceOnlyIf
  <2>5. CASE Fresh(n)
    <3>1. /\ UNCHANGED <<clock, restarted>>
          /\ accepted' = accepted \cup {e}
          /\ twice' = IF e \in accepted THEN twice \cup {e} ELSE twice
          /\ early \subseteq early' /\ late \subseteq late'
          /\ clock < e.issued => e \in early'
          /\ clock >= e.expires => e \in late'
      BY <1>10, <2>0, <2>5 DEF ConsumeNonce, Consume, Accept
    <3>2. /\ guard[n] <= clock /\ guard[n] \in Nat \cup {Forgotten}
          /\ guard'[n] = clock + GuardTtl
          /\ \A q \in Nonces \ {n} : guard'[q] = guard[q]
      BY <1>10, <1>t, <2>0, <2>1, <2>5 DEF ConsumeNonce, Consume, Fresh
    <3>3. HeldOrExpired(e)'
      BY <1>t, <2>1, <3>1, <3>2 DEF HeldOrExpired
    <3>4. ASSUME NEW q \in Envelopes, q \in accepted
          PROVE  HeldOrExpired(q)'
      <4>1. HeldOrExpired(q) /\ q.nonce \in Nonces /\ q.expires \in Nat
        BY <3>4, ItemFacts DEF EnvelopeInv
      <4>2. guard[q.nonce] >= q.expires => guard'[q.nonce] >= q.expires
        BY <1>t, <3>2, <4>1 DEF Forgotten
      <4> QED
        BY <3>1, <4>1, <4>2 DEF HeldOrExpired
    <3>5. e \in accepted => restarted \/ e \in early' \cup late'
      <4>1. e \in accepted => HeldOrExpired(e)
        BY <2>1 DEF EnvelopeInv
      <4> QED
        BY <1>t, <2>1, <3>1, <3>2, <4>1 DEF HeldOrExpired, Forgotten
    <3>6. EnvelopeTwiceOnlyIf'
      BY <3>1, <3>5 DEF EnvelopeInv, EnvelopeTwiceOnlyIf
    <3>7. \A q \in accepted' \cap Envelopes : HeldOrExpired(q)'
      BY <3>1, <3>3, <3>4
    <3> QED
      BY <2>3, <3>6, <3>7 DEF EnvelopeInv
  <2> QED
    BY <2>4, <2>5
<1>11. ASSUME NEW d \in Deliveries, Drop(d)
       PROVE  EnvelopeInv'
    BY <1>11, <1>t, EnvelopesAside DEF Drop, End, Idle, guardVars, history
<1>12. CASE UNCHANGED vars
    BY <1>12, <1>t, EnvelopesAside DEF vars, guardVars, history
<1> QED
    BY <1>1, <1>2, <1>3, <1>4, <1>5, <1>6, <1>7, <1>8, <1>9, <1>10, <1>11,
       <1>12 DEF Next

\* For every lifetime the guard's memory covers, no envelope is accepted twice
\* unless the guard was lost, or its first acceptance was early or a later one
\* late.
THEOREM EnvelopesOnce == Spec => []EnvelopeTwiceOnlyIf
<1>1. Init => TypeOK /\ EnvelopeInv
    BY TypeInit, EnvelopeInvInit
<1>2. TypeOK /\ EnvelopeInv /\ [Next]_vars => TypeOK' /\ EnvelopeInv'
    BY TypeStep, EnvelopeInvStep
<1>3. EnvelopeInv => EnvelopeTwiceOnlyIf
    BY DEF EnvelopeInv
<1> QED
    BY <1>1, <1>2, <1>3, PTL DEF Spec

=============================================================================
