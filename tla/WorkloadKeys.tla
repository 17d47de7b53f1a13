---------------------------- MODULE WorkloadKeys ----------------------------
(***************************************************************************)
(* The public keys of one agent: services/workload_identity.py over the    *)
(* table workload_identity_keys.  Registration reads the agent's rows and  *)
(* then inserts; rotation registers, reads the rows again and revokes the  *)
(* others one store call at a time.  Nothing is held in between.           *)
(*                                                                         *)
(* A member of Keepers is a thread in register_public_key or               *)
(* rotate_public_key, and keeping[t].pc says what it has done:             *)
(*   absent      it found no row with the fingerprint of its key;          *)
(*   registered  (rotation) there is a row for its key;                    *)
(*   listed      (rotation) it knows which keys to revoke.                 *)
(***************************************************************************)
EXTENDS Integers, FiniteSets

CONSTANTS
    Keys,               \* the keys, each its fingerprint
    Keepers             \* threads that register or rotate

VARIABLES
    keyStatus,          \* workload_identity_keys.status
    keeping,            \* the registrations and rotations in progress
    crossed,            \* history: one began while another was in progress
    revived             \* history: one was asked for a key already revoked

keyVars == <<keyStatus, keeping, crossed, revived>>

KeyStatuses == {"UNREGISTERED", "ACTIVE", "REVOKED"}

Resting == [pc |-> "resting"]

Keeping == [pc : {"absent", "registered", "listed"}, key : Keys,
            rotates : BOOLEAN, old : SUBSET Keys]

KeyTypeOK ==
    /\ keyStatus \in [Keys -> KeyStatuses]
    /\ keeping \in [Keepers -> Keeping \cup {Resting}]
    /\ crossed \in BOOLEAN
    /\ revived \in BOOLEAN

KeyInit ==
    /\ keyStatus = [k \in Keys |-> "UNREGISTERED"]
    /\ keeping = [t \in Keepers |-> Resting]
    /\ crossed = FALSE
    /\ revived = FALSE

Registered == {k \in Keys : keyStatus[k] # "UNREGISTERED"}

ActiveKeys == {k \in Keys : keyStatus[k] = "ACTIVE"}

Rest(t) == keeping' = [keeping EXCEPT ![t] = Resting]

\* Mutation of FindKey: a revoked key that is registered again is reactivated.
FindOrReactivate(t, k, rotates) ==
    /\ keeping[t] = Resting
    /\ keyStatus' = IF keyStatus[k] = "REVOKED"
                    THEN [keyStatus EXCEPT ![k] = "ACTIVE"] ELSE keyStatus
    /\ keeping' = [keeping EXCEPT ![t] =
                      [pc |-> IF k \in Registered THEN "registered" ELSE "absent",
                       key |-> k, rotates |-> rotates, old |-> {}]]
    /\ crossed' = (crossed \/ \E u \in Keepers : keeping[u] # Resting)
    /\ UNCHANGED revived

\* register_public_key, up to the search for a row with the key's fingerprint:
\* a row that is there is the answer, whatever its status.
FindKey(t, k, rotates) ==
    /\ keeping[t] = Resting
    /\ rotates \/ k \notin Registered
    /\ keeping' = [keeping EXCEPT ![t] =
                      [pc |-> IF k \in Registered THEN "registered" ELSE "absent",
                       key |-> k, rotates |-> rotates, old |-> {}]]
    /\ crossed' = (crossed \/ \E u \in Keepers : keeping[u] # Resting)
    /\ revived' = (revived \/ keyStatus[k] = "REVOKED")
    /\ UNCHANGED keyStatus

\* create_workload_key: UNIQUE(workspace_id, fingerprint) makes the insert
\* raise if another thread has registered the key meanwhile.
CreateKey(t) ==
    LET k == keeping[t].key
    IN  /\ keeping[t].pc = "absent"
        /\ keyStatus' = IF k \in Registered THEN keyStatus
                        ELSE [keyStatus EXCEPT ![k] = "ACTIVE"]
        /\ IF keeping[t].rotates /\ k \notin Registered
           THEN keeping' = [keeping EXCEPT ![t].pc = "registered"]
           ELSE Rest(t)
        /\ UNCHANGED <<crossed, revived>>

\* Mutation of ListOthers: the replacement is revoked with the others.
ListAll(t) ==
    /\ keeping[t].pc = "registered"
    /\ keeping' = [keeping EXCEPT ![t].pc = "listed", ![t].old = ActiveKeys]
    /\ UNCHANGED <<keyStatus, crossed, revived>>

\* rotate_public_key reads the agent's rows: every active key but its own.
ListOthers(t) ==
    /\ keeping[t].pc = "registered"
    /\ keeping' = [keeping EXCEPT ![t].pc = "listed",
                                  ![t].old = ActiveKeys \ {keeping[t].key}]
    /\ UNCHANGED <<keyStatus, crossed, revived>>

\* Mutation of RevokeOld: the loop returns after its first revocation.
RevokeFirst(t) ==
    /\ keeping[t].pc = "listed"
    /\ \E k \in keeping[t].old :
          /\ keyStatus' = [keyStatus EXCEPT ![k] = "REVOKED"]
          /\ keeping' = [keeping EXCEPT ![t].old = {}]
    /\ UNCHANGED <<crossed, revived>>

\* Mutation of RevokeOld: a replaced key is given a status of its own.
RetireOld(t) ==
    /\ keeping[t].pc = "listed"
    /\ \E k \in keeping[t].old :
          /\ keyStatus' = [keyStatus EXCEPT ![k] = "ROTATED"]
          /\ keeping' = [keeping EXCEPT ![t].old = @ \ {k}]
    /\ UNCHANGED <<crossed, revived>>

\* One revocation of the loop.  The rows come newest first; here in any order.
RevokeOld(t) ==
    /\ keeping[t].pc = "listed"
    /\ \E k \in keeping[t].old :
          /\ keyStatus' = [keyStatus EXCEPT ![k] = "REVOKED"]
          /\ keeping' = [keeping EXCEPT ![t].old = @ \ {k}]
    /\ UNCHANGED <<crossed, revived>>

FinishRotation(t) ==
    /\ keeping[t].pc = "listed"
    /\ keeping[t].old = {}
    /\ Rest(t)
    /\ UNCHANGED <<keyStatus, crossed, revived>>

\* The thread dies between two store calls.
AbandonKey(t) ==
    /\ keeping[t] # Resting
    /\ Rest(t)
    /\ UNCHANGED <<keyStatus, crossed, revived>>

KeyStep(t) ==
    \/ CreateKey(t)
    \/ ListOthers(t)
    \/ RevokeOld(t)
    \/ FinishRotation(t)
    \/ AbandonKey(t)

=============================================================================
