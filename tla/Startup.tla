------------------------------- MODULE Startup -------------------------------
(***************************************************************************)
(* Replicas of the service start on one database: bootstrap.py,            *)
(* services/persistence.py and services/postgres_storage.py, and what the  *)
(* import of services/mcp_governance.py does to the store they choose.     *)
(*                                                                         *)
(* A release is the sequence of the checksums of its MIGRATIONS; a version *)
(* is a position in it. replica[r].pc says how far r has come:             *)
(*   waiting    its transaction is open and asks for the migration lock;   *)
(*   migrating  it has the lock and is at version replica[r].at, of which  *)
(*              replica[r].done statements are executed;                   *)
(*   importing  its transaction is committed, services are imported;       *)
(*   serving    the application is up;                                     *)
(*   failed     the import of the application raised;                      *)
(*   down       it is not started, or was killed.                          *)
(***************************************************************************)
EXTENDS Integers, Sequences

CONSTANTS
    Replicas,
    NoReplica,
    Releases,           \* sequences of checksums that are deployed
    Statements,         \* bound: how many statements a migration has
    MaxStarts           \* bound: how often a replica is started

ASSUME ReleasesAssumption ==
    /\ NoReplica \notin Replicas
    /\ \A release \in Releases : release \in Seq({release[v] : v \in DOMAIN release})
    /\ Statements \in Nat \ {0}
    /\ MaxStarts \in Nat

VARIABLES
    starts,             \* how often replicas were started
    replica,            \* what each is doing
    holder,             \* who has the advisory lock
    tables,             \* committed: the tables of each version, as <<version, statement>>
    history             \* committed: schema_migrations, a checksum for each version

vars == <<starts, replica, holder, tables, history>>

Backends == {"sqlite", "postgres"}
Checksums == UNION {{release[v] : v \in DOMAIN release} : release \in Releases}
Versions == UNION {DOMAIN release : release \in Releases}
TablesOf(v) == {<<v, s>> : s \in 1 .. Statements}

\* What a transaction has done and not committed.
NoWork == [tables |-> {}, history |-> << >>]
Down == [pc |-> "down"]
Failed == [pc |-> "failed"]

Replica ==
    [pc : {"importing", "serving"}, backend : {"sqlite"}]
        \cup [pc : {"importing", "serving"}, backend : {"postgres"}, release : Releases]
        \cup [pc : {"waiting"}, release : Releases]
        \cup [pc : {"migrating"}, release : Releases, at : Nat \ {0}, done : 0 .. Statements,
              work : [tables : SUBSET (Versions \X (1 .. Statements)),
                      history : UNION {[V -> Checksums] : V \in SUBSET Versions}]]
        \cup {Down, Failed}

\* Every variable has its type, and who migrates holds the lock.
TypeOK ==
    /\ starts \in [Replicas -> 0 .. MaxStarts]
    /\ replica \in [Replicas -> Replica]
    /\ holder \in Replicas \cup {NoReplica}
    /\ \A r \in Replicas : (replica[r].pc = "migrating") = (holder = r)
    /\ tables \subseteq Versions \X (1 .. Statements)
    /\ history \in UNION {[V -> Checksums] : V \in SUBSET Versions}

Init ==
    /\ starts = [r \in Replicas |-> 0]
    /\ replica = [r \in Replicas |-> Down]
    /\ holder = NoReplica
    /\ tables = {}
    /\ history = << >>

At(r, pc) == replica[r].pc = pc
Becomes(r, record) == replica' = [replica EXCEPT ![r] = record]
Merged(f, g) == [v \in DOMAIN f \cup DOMAIN g |-> IF v \in DOMAIN f THEN f[v] ELSE g[v]]

-----------------------------------------------------------------------------
(* bootstrap.py: the store is chosen first. SQLite makes what is missing of *)
(* its own file as storage.py is imported.                                  *)

Start(r, backend, release) ==
    /\ At(r, "down") \/ At(r, "failed")
    /\ starts[r] < MaxStarts
    /\ starts' = [starts EXCEPT ![r] = @ + 1]
    /\ IF backend = "sqlite"
       THEN Becomes(r, [pc |-> "importing", backend |-> backend])
       ELSE Becomes(r, [pc |-> "waiting", release |-> release])
    /\ UNCHANGED <<holder, tables, history>>

-----------------------------------------------------------------------------
(* PostgresStore._init_schema: one transaction, under its advisory lock.    *)

AcquireLock(r) ==
    /\ At(r, "waiting")
    /\ holder = NoReplica
    /\ holder' = r
    /\ Becomes(r, [pc |-> "migrating", release |-> replica[r].release, at |-> 1, done |-> 0,
                   work |-> NoWork])
    /\ UNCHANGED <<starts, tables, history>>

\* Mutant: the wait is not bounded.
LockTimeoutNever(r) == FALSE

\* statement_timeout ends the wait while another replica has the lock.
LockTimeout(r) ==
    /\ At(r, "waiting")
    /\ holder # NoReplica
    /\ Becomes(r, Failed)
    /\ UNCHANGED <<starts, holder, tables, history>>

Left(r) == At(r, "migrating") /\ replica[r].at <= Len(replica[r].release)
Recorded(r) == replica[r].at \in DOMAIN history
Expected(r) == replica[r].release[replica[r].at]

\* The transaction is rolled back and its connection closed.
Abort(r, to) ==
    /\ Becomes(r, to)
    /\ holder' = IF holder = r THEN NoReplica ELSE holder
    /\ UNCHANGED <<starts, tables, history>>

\* Mutant: a recorded version is skipped whatever its checksum.
SkipUnchecked(r) ==
    /\ Left(r)
    /\ Recorded(r)
    /\ replica[r].done = 0
    /\ Becomes(r, [replica[r] EXCEPT !.at = @ + 1])
    /\ UNCHANGED <<starts, holder, tables, history>>

SkipVersion(r) ==
    /\ Left(r)
    /\ Recorded(r)
    /\ replica[r].done = 0
    /\ history[replica[r].at] = Expected(r)
    /\ Becomes(r, [replica[r] EXCEPT !.at = @ + 1])
    /\ UNCHANGED <<starts, holder, tables, history>>

\* Also what happens when a statement fails.
RefuseVersion(r) ==
    /\ Left(r)
    /\ \/ /\ Recorded(r)
          /\ history[replica[r].at] # Expected(r)
       \/ ~Recorded(r)
    /\ Abort(r, Failed)

\* Mutant: the connection commits each statement.
RunStatementCommitted(r) ==
    /\ Left(r)
    /\ ~Recorded(r)
    /\ replica[r].done < Statements
    /\ tables' = tables \cup {<<replica[r].at, replica[r].done + 1>>}
    /\ Becomes(r, [replica[r] EXCEPT !.done = @ + 1])
    /\ UNCHANGED <<starts, holder, history>>

RunStatement(r) ==
    /\ Left(r)
    /\ ~Recorded(r)
    /\ replica[r].done < Statements
    /\ Becomes(r, [replica[r] EXCEPT !.done = @ + 1,
                                     !.work.tables = @ \cup {<<replica[r].at, replica[r].done + 1>>}])
    /\ UNCHANGED <<starts, holder, tables, history>>

RecordVersion(r) ==
    /\ Left(r)
    /\ ~Recorded(r)
    /\ replica[r].done = Statements
    /\ Becomes(r, [replica[r] EXCEPT !.at = @ + 1,
                                     !.done = 0,
                                     !.work.history = Merged(@, [v \in {replica[r].at} |-> Expected(r)])])
    /\ UNCHANGED <<starts, holder, tables, history>>

Commit(r) ==
    /\ At(r, "migrating")
    /\ replica[r].at > Len(replica[r].release)
    /\ tables' = tables \cup replica[r].work.tables
    /\ history' = Merged(replica[r].work.history, history)
    /\ holder' = NoReplica
    /\ Becomes(r, [pc |-> "importing", backend |-> "postgres", release |-> replica[r].release])
    /\ UNCHANGED starts

-----------------------------------------------------------------------------
(* Services are imported. MCPRegistryGovernance makes its tables with       *)
(* db.executescript, which a SQLite connection has and ConnectionAdapter    *)
(* has not.                                                                 *)

ImportServices(r) ==
    /\ At(r, "importing")
    /\ IF replica[r].backend = "sqlite"
       THEN Becomes(r, [replica[r] EXCEPT !.pc = "serving"])
       ELSE Becomes(r, Failed)
    /\ UNCHANGED <<starts, holder, tables, history>>

\* The database rolls back the transaction of a connection that is gone.
Die(r) ==
    /\ ~At(r, "down")
    /\ Abort(r, Down)

Proceed(r) ==
    \/ SkipVersion(r)
    \/ RefuseVersion(r)
    \/ RunStatement(r)
    \/ RecordVersion(r)
    \/ Commit(r)
    \/ ImportServices(r)

Next ==
    \E r \in Replicas :
        \/ \E backend \in Backends, release \in Releases : Start(r, backend, release)
        \/ AcquireLock(r)
        \/ LockTimeout(r)
        \/ Proceed(r)
        \/ Die(r)

\* The database answers whoever waits for the lock, in the end by the timeout.
\* Nothing is assumed of the replica that has it: it may migrate for ever.
LockFairness == \A r \in Replicas : WF_vars(AcquireLock(r) \/ LockTimeout(r))

Spec == Init /\ [][Next]_vars /\ LockFairness

-----------------------------------------------------------------------------
(* Properties.                                                             *)

\* A replica on PostgreSQL that is past its migrations.
Past(m) == m.pc \in {"importing", "serving"} /\ m.backend = "postgres"

\* However replicas of different releases race, die or time out, the database
\* has the tables of exactly the versions its history records, whole, and every
\* replica past its migrations finds each version of its release recorded with
\* the checksum it has of it.
SchemaMatchesHistory ==
    /\ tables = UNION {TablesOf(v) : v \in DOMAIN history}
    /\ \A r \in Replicas :
        Past(replica[r]) =>
            \A v \in DOMAIN replica[r].release :
                v \in DOMAIN history /\ history[v] = replica[r].release[v]

\* The steps of _init_schema implement AtomicMigration: however replicas of
\* different releases interleave and wherever they die, a release is migrated
\* whole and at once, against a history that it agrees with.
Abstract == INSTANCE AtomicMigration WITH
    recorded <- history,
    made <- {v \in Versions : TablesOf(v) \subseteq tables},
    past <- [r \in Replicas |-> IF Past(replica[r]) THEN {replica[r].release} ELSE {}]

ImplementsAtomicMigration == Abstract!Spec

\* A replica does not wait for the lock for ever, even if the one that has it
\* never lets it go.
WaitIsBounded ==
    \A r \in Replicas : At(r, "waiting") ~> ~At(r, "waiting")

=============================================================================
