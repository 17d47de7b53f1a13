---------------------------- MODULE AuditLedger ----------------------------
(***************************************************************************)
(* The audit ledger of services/audit.py: one table for all workspaces,    *)
(* read in order of insertion, whose rows each carry the hash of the row   *)
(* before them.  AuditLedger.append is two store calls, a read of the rows *)
(* and an insert, with nothing held between them, so the row it chains to  *)
(* may no longer be the last one when it inserts.                          *)
(*                                                                         *)
(* Rows are never updated or deleted by the service, and a hash covers the *)
(* row's unique id: the hash of a row is modelled by its position, and     *)
(* GENESIS by 0.                                                           *)
(***************************************************************************)
EXTENDS Integers, Sequences, FiniteSets

CONSTANTS
    Writers,            \* the threads and replicas that append
    MaxEntries          \* bound: rows the ledger may hold

ASSUME LedgerAssumption ==
    /\ IsFiniteSet(Writers)
    /\ MaxEntries \in Nat

VARIABLES
    entries,            \* audit_entries, in order of seq
    head,               \* the last hash each append in progress has read
    overlapped          \* history: an append began while another was underway

ledgerVars == <<entries, head, overlapped>>

Genesis == 0

\* No append is underway.
NoHead == -1

Appending == {w \in Writers : head[w] # NoHead}

\* Every row points at GENESIS or at a row before it.
LedgerTypeOK(Payload) ==
    /\ entries \in Seq([prev : 0 .. MaxEntries, payload : Payload])
    /\ head \in [Writers -> 0 .. MaxEntries \cup {NoHead}]
    /\ overlapped \in BOOLEAN

LedgerInit ==
    /\ entries = <<>>
    /\ head = [w \in Writers |-> NoHead]
    /\ overlapped = FALSE

\* Mutation of ReadHead: the rows are read newest first.
ReadFirst(w) ==
    /\ Len(entries) + Cardinality(Appending) < MaxEntries
    /\ head' = [head EXCEPT ![w] = IF entries = <<>> THEN Genesis ELSE 1]
    /\ overlapped' = (overlapped \/ Appending # {})
    /\ UNCHANGED entries

\* append, up to the hash it chains to: entries[-1]["hash"], or GENESIS.
ReadHead(w) ==
    /\ Len(entries) + Cardinality(Appending) < MaxEntries
    /\ head' = [head EXCEPT ![w] = Len(entries)]
    /\ overlapped' = (overlapped \/ Appending # {})
    /\ UNCHANGED entries

\* append_audit: the row goes last, whatever was inserted in the meantime.
InsertRow(w, payload) ==
    /\ entries' = Append(entries, [prev |-> head[w], payload |-> payload])
    /\ head' = [head EXCEPT ![w] = NoHead]
    /\ UNCHANGED overlapped

\* Mutation of Valid: only the newest link is compared.
LastLinkValid == entries # <<>> => entries[Len(entries)].prev = Len(entries) - 1

\* verify: each row must carry the hash of the row in front of it.
Valid == \A i \in DOMAIN entries : entries[i].prev = i - 1

=============================================================================
