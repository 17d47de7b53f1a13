----------------------------- MODULE ReplayGuard -----------------------------
(***************************************************************************)
(* The clock, and the two memories of what has been accepted already: the  *)
(* table message_nonces of services/storage.py for signed messages, and    *)
(* the replay guard of services/replay.py for signature envelopes.  Both   *)
(* forget.  A nonce read and a nonce insert are two store calls; the       *)
(* guard's consume is one atomic step, under a lock or as Redis SET NX EX. *)
(*                                                                         *)
(* Time is whole seconds, as both verifiers truncate it, and one clock     *)
(* serves everybody: monotonic, database and wall clock agree.             *)
(***************************************************************************)
EXTENDS Integers

CONSTANTS
    Nonces,             \* the nonces senders choose
    GuardTtl,           \* how long the guard remembers a nonce
    MaxClock            \* bound: where time stops

ASSUME GuardAssumption ==
    /\ GuardTtl \in Nat \ {0}
    /\ MaxClock \in Nat

VARIABLES
    clock,              \* seconds
    nonces,             \* message_nonces.expires_at, or Forgotten
    guard,              \* when the guard forgets each nonce, or Forgotten
    restarted           \* history: a memory guard has been lost

guardVars == <<clock, nonces, guard, restarted>>

Forgotten == -1

GuardTypeOK ==
    /\ clock \in 0 .. MaxClock
    /\ nonces \in [Nonces -> Nat \cup {Forgotten}]
    /\ guard \in [Nonces -> Nat \cup {Forgotten}]
    /\ restarted \in BOOLEAN

GuardInit ==
    /\ clock = 0
    /\ nonces = [n \in Nonces |-> Forgotten]
    /\ guard = [n \in Nonces |-> Forgotten]
    /\ restarted = FALSE

Advance ==
    /\ clock < MaxClock
    /\ clock' = clock + 1
    /\ UNCHANGED <<nonces, guard, restarted>>

\* nonce_seen drops the rows with expires_at < now, in the caller's time.
Purged(now) ==
    [n \in Nonces |-> IF nonces[n] < now THEN Forgotten ELSE nonces[n]]

\* nonce_seen: the purge and the answer are one transaction.
PurgeNonces(now) ==
    /\ nonces' = Purged(now)
    /\ UNCHANGED <<clock, guard, restarted>>

Seen(n, now) == Purged(now)[n] # Forgotten

\* record_nonce: INSERT OR IGNORE keeps a row that is there, and its expiry.
Remember(n, expiry) ==
    /\ nonces' = IF nonces[n] = Forgotten
                 THEN [nonces EXCEPT ![n] = expiry] ELSE nonces
    /\ UNCHANGED <<clock, guard, restarted>>

\* Mutation of Fresh: a nonce is let go a second too soon.
FreshTooSoon(n) == guard[n] <= clock + 1

\* consume refuses a nonce the guard still holds.
Fresh(n) == guard[n] <= clock

\* consume accepts: the nonce is held from now on.
Consume(n) ==
    /\ guard' = [guard EXCEPT ![n] = clock + GuardTtl]
    /\ UNCHANGED <<clock, nonces, restarted>>

\* The process restarts: a guard in memory is empty again.
LoseGuard ==
    /\ guard' = [n \in Nonces |-> Forgotten]
    /\ restarted' = TRUE
    /\ UNCHANGED <<clock, nonces>>

=============================================================================
