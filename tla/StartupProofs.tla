---------------------------- MODULE StartupProofs ----------------------------
(***************************************************************************)
(* Theorems about Startup, for any number of replicas, releases, versions, *)
(* statements and starts.                                                  *)
(***************************************************************************)
EXTENDS Startup, TLAPS

Histories == UNION {[V -> Checksums] : V \in SUBSET Versions}
Work == [tables : SUBSET (Versions \X (1 .. Statements)), history : Histories]
Migrating == [pc : {"migrating"}, release : Releases, at : Nat \ {0}, done : 0 .. Statements,
              work : Work]

LEMMA HistoryShape ==
    ASSUME NEW h
    PROVE  h \in Histories <=> /\ DOMAIN h \subseteq Versions
                               /\ h = [v \in DOMAIN h |-> h[v]]
                               /\ \A v \in DOMAIN h : h[v] \in Checksums
<1>1. ASSUME h \in Histories
      PROVE  /\ DOMAIN h \subseteq Versions
             /\ h = [v \in DOMAIN h |-> h[v]]
             /\ \A v \in DOMAIN h : h[v] \in Checksums
  <2>1. PICK V \in SUBSET Versions : h \in [V -> Checksums]
    BY <1>1 DEF Histories
  <2> QED
    BY <2>1
<1>2. ASSUME /\ DOMAIN h \subseteq Versions
             /\ h = [v \in DOMAIN h |-> h[v]]
             /\ \A v \in DOMAIN h : h[v] \in Checksums
      PROVE  h \in Histories
  <2>1. h \in [DOMAIN h -> Checksums]
    BY <1>2
  <2> QED
    BY <1>2, <2>1 DEF Histories
<1> QED
    BY <1>1, <1>2

LEMMA EmptyHistory == << >> \in Histories /\ DOMAIN << >> = {}
<1>1. DOMAIN << >> = {} /\ << >> = [v \in {} |-> v]
    OBVIOUS
<1> QED
    BY <1>1, HistoryShape

LEMMA MergedShape ==
    ASSUME NEW f \in Histories, NEW g \in Histories
    PROVE  /\ Merged(f, g) \in Histories
           /\ DOMAIN Merged(f, g) = DOMAIN f \cup DOMAIN g
           /\ \A v \in DOMAIN f : Merged(f, g)[v] = f[v]
           /\ \A v \in DOMAIN g \ DOMAIN f : Merged(f, g)[v] = g[v]
<1>1. /\ DOMAIN Merged(f, g) = DOMAIN f \cup DOMAIN g
      /\ \A v \in DOMAIN f : Merged(f, g)[v] = f[v]
      /\ \A v \in DOMAIN g \ DOMAIN f : Merged(f, g)[v] = g[v]
    BY DEF Merged
<1>2. Merged(f, g) = [v \in DOMAIN Merged(f, g) |-> Merged(f, g)[v]]
    BY DEF Merged
<1>3. \A v \in DOMAIN Merged(f, g) : Merged(f, g)[v] \in Checksums
    BY <1>1, HistoryShape
<1>4. DOMAIN Merged(f, g) \subseteq Versions
    BY <1>1, HistoryShape
<1>5. Merged(f, g) \in Histories
    BY <1>2, <1>3, <1>4, HistoryShape
<1> QED
    BY <1>1, <1>5

\* The records of a replica and their fields, without the union of Replica.
LEMMA ReplicaShape ==
    ASSUME NEW m \in Replica
    PROVE  /\ m.pc \in {"down", "failed", "waiting", "migrating", "importing", "serving"}
           /\ m.pc = "migrating" => m \in Migrating
           /\ m.pc = "waiting" => m.release \in Releases
           /\ m.pc \in {"importing", "serving"} => m.backend \in Backends
           /\ m.pc \in {"importing", "serving"} /\ m.backend = "postgres" =>
                m \in [pc : {"importing", "serving"}, backend : {"postgres"}, release : Releases]
           /\ m.pc \in {"importing", "serving"} /\ m.backend = "sqlite" =>
                m \in [pc : {"importing", "serving"}, backend : {"sqlite"}]
<1>1. CASE m \in [pc : {"importing", "serving"}, backend : {"sqlite"}]
    BY <1>1 DEF Backends
<1>2. CASE m \in [pc : {"importing", "serving"}, backend : {"postgres"}, release : Releases]
    BY <1>2 DEF Backends
<1>3. CASE m \in [pc : {"waiting"}, release : Releases]
    BY <1>3
<1>4. CASE m \in Migrating
    BY <1>4 DEF Migrating
<1>5. CASE m \in {Down, Failed}
    BY <1>5 DEF Down, Failed
<1> QED
    BY <1>1, <1>2, <1>3, <1>4, <1>5 DEF Replica, Migrating, Work, Histories

LEMMA ReplicaMembers ==
    /\ Migrating \subseteq Replica
    /\ [pc : {"importing", "serving"}, backend : {"sqlite"}] \subseteq Replica
    /\ [pc : {"importing", "serving"}, backend : {"postgres"}, release : Releases] \subseteq Replica
    /\ [pc : {"waiting"}, release : Releases] \subseteq Replica
    /\ Down \in Replica
    /\ Failed \in Replica
BY DEF Replica, Migrating, Work, Histories

\* The type invariant, with the sets named above.
Typed ==
    /\ starts \in [Replicas -> 0 .. MaxStarts]
    /\ replica \in [Replicas -> Replica]
    /\ holder \in Replicas \cup {NoReplica}
    /\ \A r \in Replicas : (replica[r].pc = "migrating") = (holder = r)
    /\ tables \subseteq Versions \X (1 .. Statements)
    /\ history \in Histories

LEMMA TypedIsTypeOK == Typed <=> TypeOK
BY DEF Typed, TypeOK, Histories


LEMMA ReleaseShape ==
    ASSUME NEW release \in Releases
    PROVE  /\ Len(release) \in Nat
           /\ DOMAIN release = 1 .. Len(release)
           /\ \A v \in 1 .. Len(release) : v \in Versions /\ release[v] \in Checksums
<1>1. release \in Seq({release[v] : v \in DOMAIN release})
    BY ReleasesAssumption
<1>2. Len(release) \in Nat /\ DOMAIN release = 1 .. Len(release)
    BY <1>1
<1>3. \A v \in DOMAIN release : v \in Versions /\ release[v] \in Checksums
    BY DEF Versions, Checksums
<1> QED
    BY <1>2, <1>3
\* What the two steps that change the open transaction leave of it.
LEMMA RunShape ==
    ASSUME Typed, NEW r \in Replicas, RunStatement(r), replica[r] \in Migrating
    PROVE  replica'[r] = [pc |-> "migrating", release |-> replica[r].release,
                          at |-> replica[r].at, done |-> replica[r].done + 1,
                          work |-> [tables |-> replica[r].work.tables
                                        \cup {<<replica[r].at, replica[r].done + 1>>},
                                    history |-> replica[r].work.history]]
<1> DEFINE m == replica[r]
           step == <<m.at, m.done + 1>>
<1>1. replica'[r] = [m EXCEPT !.done = @ + 1, !.work.tables = @ \cup {step}]
    BY DEF RunStatement, Becomes, Typed
<1>2. /\ m = [pc |-> m.pc, release |-> m.release, at |-> m.at, done |-> m.done, work |-> m.work]
      /\ m.pc = "migrating"
      /\ m.work = [tables |-> m.work.tables, history |-> m.work.history]
    BY DEF Migrating, Work
<1> QED
    BY <1>1, <1>2

LEMMA RecordShape ==
    ASSUME Typed, NEW r \in Replicas, RecordVersion(r), replica[r] \in Migrating
    PROVE  replica'[r] = [pc |-> "migrating", release |-> replica[r].release,
                          at |-> replica[r].at + 1, done |-> 0,
                          work |-> [tables |-> replica[r].work.tables,
                                    history |-> Merged(replica[r].work.history,
                                                       [v \in {replica[r].at} |-> Expected(r)])]]
<1> DEFINE m == replica[r]
           recorded == [v \in {m.at} |-> Expected(r)]
<1>1. replica'[r] = [m EXCEPT !.at = @ + 1, !.done = 0, !.work.history = Merged(@, recorded)]
    BY DEF RecordVersion, Becomes, Typed
<1>2. /\ m = [pc |-> m.pc, release |-> m.release, at |-> m.at, done |-> m.done, work |-> m.work]
      /\ m.pc = "migrating"
      /\ m.work = [tables |-> m.work.tables, history |-> m.work.history]
    BY DEF Migrating, Work
<1> QED
    BY <1>1, <1>2

LEMMA TypedInit == Init => Typed
BY ReleasesAssumption, ReplicaMembers, EmptyHistory, HistoryShape
   DEF Init, Typed, Down

\* Its proof has a case for each action; Work is what it knows of a migration.
LEMMA TypedStep == Typed /\ [Next]_vars => Typed'
<1> SUFFICES ASSUME Typed, [Next]_vars PROVE Typed'
    OBVIOUS
<1> USE ReleasesAssumption DEF Typed, At, Becomes
<1>1. ASSUME NEW r \in Replicas, NEW backend \in Backends, NEW release \in Releases,
             Start(r, backend, release)
      PROVE  Typed'
  <2> DEFINE m == replica'[r]
  <2>1. m \in Replica /\ m.pc # "migrating"
    BY <1>1, ReplicaMembers DEF Start, Backends
  <2>2. replica[r].pc # "migrating"
    BY <1>1 DEF Start
  <2>3. starts' \in [Replicas -> 0 .. MaxStarts]
    BY <1>1 DEF Start
  <2>4. replica' \in [Replicas -> Replica]
    BY <1>1, <2>1 DEF Start
  <2>5. \A q \in Replicas : (replica'[q].pc = "migrating") = (replica[q].pc = "migrating")
    BY <1>1, <2>1, <2>2 DEF Start
  <2> QED
    BY <1>1, <2>3, <2>4, <2>5 DEF Start
<1>2. ASSUME NEW r \in Replicas, AcquireLock(r)
      PROVE  Typed'
  <2> DEFINE m == replica'[r]
  <2>1. replica[r].release \in Releases
    BY <1>2, ReplicaShape DEF AcquireLock
  <2>2. m \in Migrating
    BY <1>2, <2>1, EmptyHistory DEF AcquireLock, Migrating, Work, NoWork
  <2>3. m \in Replica /\ m.pc = "migrating"
    BY <2>2, ReplicaMembers DEF Migrating
  <2> QED
    BY <1>2, <2>3 DEF AcquireLock
<1>3. ASSUME NEW r \in Replicas, NEW to \in {Failed, Down}, Abort(r, to)
      PROVE  Typed'
  <2>1. to \in Replica /\ to.pc # "migrating"
    BY ReplicaMembers DEF Failed, Down
  <2> QED
    BY <1>3, <2>1 DEF Abort
<1>4. ASSUME NEW r \in Replicas, LockTimeout(r)
      PROVE  Typed'
  <2>1. Failed \in Replica /\ Failed.pc # "migrating"
    BY ReplicaMembers DEF Failed
  <2> QED
    BY <1>4, <2>1 DEF LockTimeout
<1>5. ASSUME NEW r \in Replicas, SkipVersion(r)
      PROVE  Typed'
  <2>1. replica[r] \in Migrating
    BY <1>5, ReplicaShape DEF SkipVersion, Left
  <2>2. replica'[r] \in Migrating
    BY <1>5, <2>1 DEF SkipVersion, Migrating
  <2>3. replica'[r] \in Replica /\ replica'[r].pc = "migrating" /\ replica[r].pc = "migrating"
    BY <2>1, <2>2, ReplicaMembers DEF Migrating
  <2> QED
    BY <1>5, <2>3 DEF SkipVersion
<1>6. ASSUME NEW r \in Replicas, RunStatement(r)
      PROVE  Typed'
  <2>1. replica[r] \in Migrating
    BY <1>6, ReplicaShape DEF RunStatement, Left
  <2>2. replica[r].at \in Versions /\ replica[r].done + 1 \in 1 .. Statements
    BY <1>6, <2>1, ReleaseShape DEF RunStatement, Left, Migrating
  <2> DEFINE m == replica[r]
             grown == m.work.tables \cup {<<m.at, m.done + 1>>}
  <2>3. replica'[r] \in Migrating
    <3>1. replica'[r] = [pc |-> "migrating", release |-> m.release, at |-> m.at,
                         done |-> m.done + 1,
                         work |-> [tables |-> grown, history |-> m.work.history]]
      BY ONLY Typed, <1>6, <2>1, RunShape
    <3>2. grown \in SUBSET (Versions \X (1 .. Statements)) /\ m.work.history \in Histories
      BY <2>1, <2>2 DEF Migrating, Work
    <3>3. m.release \in Releases /\ m.at \in Nat \ {0} /\ m.done + 1 \in 0 .. Statements
      BY <2>1, <2>2 DEF Migrating
    <3> HIDE DEF m, grown
    <3> QED
      BY ONLY <3>1, <3>2, <3>3 DEF Migrating, Work
  <2>4. replica'[r] \in Replica /\ replica'[r].pc = "migrating" /\ replica[r].pc = "migrating"
    BY <2>1, <2>3, ReplicaMembers DEF Migrating
  <2> QED
    BY <1>6, <2>4 DEF RunStatement
<1>7. ASSUME NEW r \in Replicas, RecordVersion(r)
      PROVE  Typed'
  <2> DEFINE m == replica[r]
             recorded == [v \in {m.at} |-> Expected(r)]
  <2>1. m \in Migrating
    BY <1>7, ReplicaShape DEF RecordVersion, Left
  <2>2. m.at \in Versions /\ Expected(r) \in Checksums
    BY <1>7, <2>1, ReleaseShape DEF RecordVersion, Left, Migrating, Expected
  <2>3. recorded \in Histories
    BY <2>2, HistoryShape
  <2>4. Merged(m.work.history, recorded) \in Histories
    BY <2>1, <2>3, MergedShape DEF Migrating, Work
  <2>5. replica'[r] \in Migrating
    <3> DEFINE merged == Merged(m.work.history, recorded)
    <3>1. replica'[r] = [pc |-> "migrating", release |-> m.release, at |-> m.at + 1, done |-> 0,
                         work |-> [tables |-> m.work.tables, history |-> merged]]
      BY ONLY Typed, <1>7, <2>1, RecordShape
    <3>2. merged \in Histories /\ m.work.tables \in SUBSET (Versions \X (1 .. Statements))
      BY <2>1, <2>4 DEF Migrating, Work
    <3>3. m.release \in Releases /\ m.at + 1 \in Nat \ {0} /\ 0 \in 0 .. Statements
      BY <2>1 DEF Migrating
    <3> HIDE DEF m, merged
    <3> QED
      BY ONLY <3>1, <3>2, <3>3 DEF Migrating, Work
  <2>6. replica'[r] \in Replica /\ replica'[r].pc = "migrating" /\ m.pc = "migrating"
    BY <2>1, <2>5, ReplicaMembers DEF Migrating
  <2> QED
    BY <1>7, <2>6 DEF RecordVersion
<1>8. ASSUME NEW r \in Replicas, Commit(r)
      PROVE  Typed'
  <2>1. replica[r] \in Migrating
    BY <1>8, ReplicaShape DEF Commit
  <2>2. history' \in Histories /\ tables' \subseteq Versions \X (1 .. Statements)
    BY <1>8, <2>1, MergedShape DEF Commit, Migrating, Work
  <2>3. replica'[r] \in Replica /\ replica'[r].pc # "migrating"
    BY <1>8, <2>1, ReplicaMembers DEF Commit, Migrating
  <2> QED
    BY <1>8, <2>2, <2>3 DEF Commit
<1>9. ASSUME NEW r \in Replicas, ImportServices(r)
      PROVE  Typed'
  <2>1. replica[r].backend \in Backends
    BY <1>9, ReplicaShape DEF ImportServices
  <2>2. CASE replica[r].backend = "sqlite"
    <3>1. replica[r] \in [pc : {"importing", "serving"}, backend : {"sqlite"}]
      BY <1>9, <2>2, ReplicaShape DEF ImportServices
    <3>2. replica'[r] \in [pc : {"importing", "serving"}, backend : {"sqlite"}]
      BY <1>9, <2>2, <3>1 DEF ImportServices
    <3>3. replica'[r] \in Replica /\ replica'[r].pc # "migrating"
      BY <3>2, ReplicaMembers
    <3> QED
      BY <1>9, <3>3 DEF ImportServices
  <2>3. CASE replica[r].backend # "sqlite"
    <3>1. replica'[r] \in Replica /\ replica'[r].pc # "migrating"
      BY <1>9, <2>3, ReplicaMembers DEF ImportServices, Failed
    <3> QED
      BY <1>9, <3>1 DEF ImportServices
  <2> QED
    BY <2>2, <2>3
<1>10. CASE UNCHANGED vars
    BY <1>10 DEF vars
<1> QED
    BY <1>1, <1>2, <1>3, <1>4, <1>5, <1>6, <1>7, <1>8, <1>9, <1>10
       DEF Next, Proceed, Die, RefuseVersion

\* What the record m of a migration has read and done in its transaction, where
\* h is the history: each version before m.at is recorded in h with its checksum
\* or applied by the transaction itself.
WorkSound(m, h) ==
    /\ m.at <= Len(m.release) + 1
    /\ m.done > 0 => m.at <= Len(m.release) /\ m.at \notin DOMAIN h
    /\ DOMAIN m.work.history \subseteq 1 .. m.at - 1
    /\ DOMAIN m.work.history \cap DOMAIN h = {}
    /\ \A v \in 1 .. m.at - 1 :
        \/ v \in DOMAIN h /\ h[v] = m.release[v]
        \/ v \in DOMAIN m.work.history /\ m.work.history[v] = m.release[v]
    /\ \A v, s : <<v, s>> \in m.work.tables <=>
        \/ v \in DOMAIN m.work.history /\ s \in 1 .. Statements
        \/ v = m.at /\ s \in 1 .. m.done

\* Every version of the release of m is recorded with its checksum.
Caught(m, h) == \A v \in DOMAIN m.release : v \in DOMAIN h /\ h[v] = m.release[v]

TablesRecorded ==
    \A v, s : <<v, s>> \in tables <=> v \in DOMAIN history /\ s \in 1 .. Statements

SchemaInv ==
    /\ TablesRecorded
    /\ \A r \in Replicas : replica[r].pc = "migrating" => WorkSound(replica[r], history)
    /\ \A r \in Replicas : Past(replica[r]) => Caught(replica[r], history)

LEMMA SchemaInit == Init => SchemaInv
BY EmptyHistory DEF Init, SchemaInv, TablesRecorded, Past, Down

\* One replica moves and nothing is committed.
LEMMA SchemaAside ==
    ASSUME SchemaInv, Typed, NEW r \in Replicas, NEW m,
           replica' = [replica EXCEPT ![r] = m],
           UNCHANGED <<tables, history>>,
           m.pc = "migrating" => WorkSound(m, history),
           Past(m) => Caught(m, history)
    PROVE  SchemaInv'
<1>1. replica'[r] = m /\ \A q \in Replicas \ {r} : replica'[q] = replica[q]
    BY DEF Typed
<1>2. TablesRecorded'
    BY DEF SchemaInv, TablesRecorded
<1>3. ASSUME NEW q \in Replicas, replica'[q].pc = "migrating"
      PROVE  WorkSound(replica'[q], history')
    BY <1>1, <1>3 DEF SchemaInv
<1>4. ASSUME NEW q \in Replicas, Past(replica'[q])
      PROVE  Caught(replica'[q], history')
    BY <1>1, <1>4 DEF SchemaInv
<1> QED
    BY <1>2, <1>3, <1>4 DEF SchemaInv

LEMMA SkipSound ==
    ASSUME Typed, SchemaInv, NEW r \in Replicas, SkipVersion(r)
    PROVE  SchemaInv'
<1> DEFINE m == replica[r]
<1>1. m \in Migrating /\ WorkSound(m, history) /\ m.pc = "migrating"
    BY ReplicaShape DEF Typed, SchemaInv, SkipVersion, Left, At
<1>2. /\ m.at <= Len(m.release) /\ m.done = 0
      /\ m.at \in DOMAIN history /\ history[m.at] = m.release[m.at]
    BY DEF SkipVersion, Left, Recorded, Expected
<1>3. PICK n : n = [m EXCEPT !.at = @ + 1]
    OBVIOUS
<1>4. /\ n.pc = "migrating" /\ n.release = m.release /\ n.at = m.at + 1
      /\ n.done = 0 /\ n.work = m.work
    BY <1>1, <1>2, <1>3 DEF Migrating
<1>5. m.at \in Nat \ {0} /\ Len(m.release) \in Nat
    BY <1>1, ReleaseShape DEF Migrating
<1>6. \A v \in 1 .. n.at - 1 : v \in 1 .. m.at - 1 \/ v = m.at
    BY <1>4, <1>5
<1>7. \A v, s : <<v, s>> \in n.work.tables <=> v \in DOMAIN n.work.history /\ s \in 1 .. Statements
  <2>1. 1 .. m.done = {}
    BY <1>2
  <2> QED
    BY <1>1, <1>4, <2>1 DEF WorkSound
<1>8. WorkSound(n, history)
    BY <1>1, <1>2, <1>4, <1>5, <1>6, <1>7 DEF WorkSound
<1>9. replica' = [replica EXCEPT ![r] = n] /\ UNCHANGED <<tables, history>>
    BY <1>3 DEF SkipVersion, Becomes
<1> QED
    BY <1>4, <1>8, <1>9, SchemaAside DEF Past

LEMMA RunSound ==
    ASSUME Typed, SchemaInv, NEW r \in Replicas, RunStatement(r)
    PROVE  SchemaInv'
<1> DEFINE m == replica[r]
<1>1. m \in Migrating /\ WorkSound(m, history)
    BY ReplicaShape DEF Typed, SchemaInv, RunStatement, Left, At
<1>2. m.at <= Len(m.release) /\ m.at \notin DOMAIN history
    BY DEF RunStatement, Left, Recorded
<1>3. PICK n : n = replica'[r]
    OBVIOUS
<1>4. n = [pc |-> "migrating", release |-> m.release, at |-> m.at, done |-> m.done + 1,
           work |-> [tables |-> m.work.tables \cup {<<m.at, m.done + 1>>},
                     history |-> m.work.history]]
    BY <1>1, <1>3, RunShape
<1>5. m.at \in Nat \ {0} /\ m.done \in Nat /\ Len(m.release) \in Nat
    BY <1>1, ReleaseShape, ReleasesAssumption DEF Migrating
<1>6. \A v, s : <<v, s>> \in n.work.tables <=>
        \/ v \in DOMAIN n.work.history /\ s \in 1 .. Statements
        \/ v = n.at /\ s \in 1 .. n.done
  <2>1. \A s : s \in 1 .. m.done + 1 <=> s \in 1 .. m.done \/ s = m.done + 1
    BY <1>5
  <2>2. \A v, s : <<v, s>> \in n.work.tables <=>
            <<v, s>> \in m.work.tables \/ (v = m.at /\ s = m.done + 1)
    BY <1>4
  <2>3. n.work.history = m.work.history /\ n.at = m.at /\ n.done = m.done + 1
    BY <1>4
  <2> QED
    BY <1>1, <2>1, <2>2, <2>3 DEF WorkSound
<1>7. /\ n.pc = "migrating" /\ n.release = m.release /\ n.at = m.at
      /\ n.done = m.done + 1 /\ n.work.history = m.work.history
    BY <1>4
<1>8. WorkSound(n, history)
    BY <1>1, <1>2, <1>5, <1>6, <1>7 DEF WorkSound
<1>9. replica' = [replica EXCEPT ![r] = n] /\ UNCHANGED <<tables, history>>
    BY <1>3 DEF RunStatement, Becomes, Typed
<1> QED
    BY <1>7, <1>8, <1>9, SchemaAside DEF Past

LEMMA RecordSound ==
    ASSUME Typed, SchemaInv, NEW r \in Replicas, RecordVersion(r)
    PROVE  SchemaInv'
<1> DEFINE m == replica[r]
           recorded == [v \in {m.at} |-> Expected(r)]
<1>1. m \in Migrating /\ WorkSound(m, history)
    BY ReplicaShape DEF Typed, SchemaInv, RecordVersion, Left, At
<1>2. m.at <= Len(m.release) /\ m.at \notin DOMAIN history /\ m.done = Statements
    BY DEF RecordVersion, Left, Recorded
<1>3. PICK n : n = replica'[r]
    OBVIOUS
<1>4. n = [pc |-> "migrating", release |-> m.release, at |-> m.at + 1, done |-> 0,
           work |-> [tables |-> m.work.tables,
                     history |-> Merged(m.work.history, recorded)]]
    BY <1>1, <1>3, RecordShape
<1>5. m.at \in Nat \ {0} /\ m.release \in Releases /\ m.work.history \in Histories
    BY <1>1 DEF Migrating, Work
<1>6. Len(m.release) \in Nat /\ m.at \in Versions /\ m.release[m.at] \in Checksums
    BY <1>2, <1>5, ReleaseShape
<1>7. recorded \in Histories
    BY <1>6, HistoryShape DEF Expected
<1>8. /\ DOMAIN n.work.history = DOMAIN m.work.history \cup {m.at}
      /\ \A v \in DOMAIN m.work.history : n.work.history[v] = m.work.history[v]
      /\ m.at \notin DOMAIN m.work.history => n.work.history[m.at] = m.release[m.at]
  <2>1. n.work.history = Merged(m.work.history, recorded)
    BY <1>4
  <2>2. /\ DOMAIN n.work.history = DOMAIN m.work.history \cup DOMAIN recorded
        /\ \A v \in DOMAIN m.work.history : n.work.history[v] = m.work.history[v]
        /\ \A v \in DOMAIN recorded \ DOMAIN m.work.history : n.work.history[v] = recorded[v]
    <3>1. PICK f, g : f = m.work.history /\ g = recorded
      OBVIOUS
    <3>2. f \in Histories /\ g \in Histories /\ n.work.history = Merged(f, g)
      BY ONLY <1>5, <1>7, <2>1, <3>1
    <3>3. /\ DOMAIN Merged(f, g) = DOMAIN f \cup DOMAIN g
          /\ \A v \in DOMAIN f : Merged(f, g)[v] = f[v]
          /\ \A v \in DOMAIN g \ DOMAIN f : Merged(f, g)[v] = g[v]
      BY ONLY <3>2, MergedShape
    <3> HIDE DEF m, recorded
    <3> QED
      BY ONLY <3>1, <3>2, <3>3
  <2>3. DOMAIN recorded = {m.at} /\ recorded[m.at] = m.release[m.at]
    BY DEF Expected
  <2> QED
    BY <2>2, <2>3
<1>9. m.at \notin DOMAIN m.work.history
    BY <1>1, <1>5 DEF WorkSound
<1>10. /\ n.pc = "migrating" /\ n.release = m.release /\ n.at = m.at + 1
       /\ n.done = 0 /\ n.work.tables = m.work.tables
    BY <1>4
<1>11. \A v \in 1 .. n.at - 1 : v \in 1 .. m.at - 1 \/ v = m.at
    BY <1>5, <1>10
<1>12. \A v, s : <<v, s>> \in n.work.tables <=>
            v \in DOMAIN n.work.history /\ s \in 1 .. Statements
    BY <1>1, <1>2, <1>8, <1>10 DEF WorkSound
<1>13. 1 .. n.done = {}
    BY <1>10
<1>14. DOMAIN n.work.history \subseteq 1 .. n.at - 1
  <2>1. 1 .. n.at - 1 = (1 .. m.at - 1) \cup {m.at}
    BY <1>5, <1>10
  <2> QED
    BY <1>1, <1>8, <2>1 DEF WorkSound
<1>15. n.at <= Len(n.release) + 1
    BY <1>2, <1>5, <1>6, <1>10
<1>16. WorkSound(n, history)
    BY <1>1, <1>2, <1>8, <1>9, <1>10, <1>11, <1>12, <1>13, <1>14, <1>15 DEF WorkSound
<1>17. replica' = [replica EXCEPT ![r] = n] /\ UNCHANGED <<tables, history>>
    BY <1>3 DEF RecordVersion, Becomes, Typed
<1> QED
    BY <1>10, <1>16, <1>17, SchemaAside DEF Past

\* What is committed was whole, and nobody else is migrating.
LEMMA CommitSound ==
    ASSUME Typed, SchemaInv, NEW r \in Replicas, Commit(r)
    PROVE  SchemaInv'
<1> DEFINE m == replica[r]
<1>1. m \in Migrating /\ WorkSound(m, history)
    BY ReplicaShape DEF Typed, SchemaInv, Commit, At
<1>2. /\ m.release \in Releases /\ m.at \in Nat \ {0} /\ m.at > Len(m.release)
      /\ m.work.history \in Histories /\ history \in Histories
    BY <1>1 DEF Migrating, Work, Commit, Typed
<1>3. Len(m.release) \in Nat /\ m.at - 1 = Len(m.release) /\ DOMAIN m.release = 1 .. m.at - 1
    BY <1>1, <1>2, ReleaseShape DEF WorkSound
<1>4. 1 .. m.done = {}
  <2>1. ~(m.done > 0) /\ m.done \in 0 .. Statements
    BY <1>1, <1>2, <1>3 DEF WorkSound, Migrating
  <2> QED
    BY <2>1, ReleasesAssumption
<1>5. /\ DOMAIN history' = DOMAIN m.work.history \cup DOMAIN history
      /\ \A v \in DOMAIN m.work.history : history'[v] = m.work.history[v]
      /\ \A v \in DOMAIN history : history'[v] = history[v]
  <2>1. history' = Merged(m.work.history, history)
    BY DEF Commit
  <2>2. /\ DOMAIN history' = DOMAIN m.work.history \cup DOMAIN history
        /\ \A v \in DOMAIN m.work.history : history'[v] = m.work.history[v]
        /\ \A v \in DOMAIN history \ DOMAIN m.work.history : history'[v] = history[v]
    <3> HIDE DEF m
    <3> QED
      BY ONLY <1>2, <2>1, MergedShape
  <2> QED
    BY <1>1, <2>2 DEF WorkSound
<1>6. \A v, s : <<v, s>> \in m.work.tables <=>
            v \in DOMAIN m.work.history /\ s \in 1 .. Statements
    BY <1>1, <1>4 DEF WorkSound
<1>7. TablesRecorded'
    BY <1>5, <1>6 DEF Commit, SchemaInv, TablesRecorded
<1>8. \A q \in Replicas \ {r} : replica'[q] = replica[q] /\ replica[q].pc # "migrating"
    BY DEF Typed, Commit, At, Becomes
<1>9. replica'[r].release = m.release /\ replica'[r].pc = "importing"
    BY DEF Typed, Commit, Becomes
<1>10. \A v \in DOMAIN m.release : v \in DOMAIN history' /\ history'[v] = m.release[v]
    BY <1>1, <1>3, <1>5 DEF WorkSound
<1>11. Caught(replica'[r], history')
    BY <1>9, <1>10 DEF Caught
<1>12. ASSUME NEW q \in Replicas \ {r}, Past(replica[q])
       PROVE  Caught(replica[q], history')
    BY <1>5, <1>12 DEF SchemaInv, Caught
<1> QED
    BY <1>7, <1>8, <1>9, <1>11, <1>12 DEF SchemaInv

LEMMA SchemaStep == Typed /\ SchemaInv /\ [Next]_vars => SchemaInv'
<1> SUFFICES ASSUME Typed, SchemaInv, [Next]_vars PROVE SchemaInv'
    OBVIOUS
<1>1. ASSUME NEW r \in Replicas, NEW backend \in Backends, NEW release \in Releases,
             Start(r, backend, release)
      PROVE  SchemaInv'
  <2>1. PICK m : /\ m \in {[pc |-> "importing", backend |-> "sqlite"],
                           [pc |-> "waiting", release |-> release]}
                 /\ replica' = [replica EXCEPT ![r] = m]
    BY <1>1 DEF Start, Becomes, Backends
  <2> QED
    BY <1>1, <2>1, SchemaAside DEF Start, Past
<1>2. ASSUME NEW r \in Replicas, AcquireLock(r)
      PROVE  SchemaInv'
  <2>1. PICK m : m = [pc |-> "migrating", release |-> replica[r].release, at |-> 1,
                      done |-> 0, work |-> NoWork]
    OBVIOUS
  <2>2. /\ m.pc = "migrating" /\ m.release = replica[r].release /\ m.at = 1 /\ m.done = 0
        /\ m.work.tables = {} /\ m.work.history = << >>
    BY <2>1 DEF NoWork
  <2>3. Len(m.release) \in Nat
    BY <1>2, <2>2, ReplicaShape, ReleaseShape DEF AcquireLock, At, Typed
  <2>4. WorkSound(m, history)
    BY <2>2, <2>3, EmptyHistory DEF WorkSound
  <2> QED
    BY <1>2, <2>1, <2>2, <2>4, SchemaAside DEF AcquireLock, Becomes, Past
<1>3. ASSUME NEW r \in Replicas, NEW to \in {Failed, Down}, Abort(r, to)
      PROVE  SchemaInv'
    BY <1>3, SchemaAside DEF Abort, Becomes, Failed, Down, Past
<1>4. ASSUME NEW r \in Replicas, LockTimeout(r)
      PROVE  SchemaInv'
    BY <1>4, SchemaAside DEF LockTimeout, Becomes, Failed, Past
<1>5. ASSUME NEW r \in Replicas, ImportServices(r)
      PROVE  SchemaInv'
  <2>1. replica[r] \in Replica /\ replica[r].pc = "importing"
    BY <1>5 DEF Typed, ImportServices, At
  <2>2. CASE replica[r].backend = "sqlite"
    <3>1. PICK m : m = [replica[r] EXCEPT !.pc = "serving"]
      OBVIOUS
    <3>2. m.pc = "serving" /\ m.backend = "sqlite"
      BY <2>1, <2>2, <3>1, ReplicaShape
    <3> QED
      BY <1>5, <2>2, <3>1, <3>2, SchemaAside DEF ImportServices, Becomes, Past
  <2>3. CASE replica[r].backend # "sqlite"
    BY <1>5, <2>3, SchemaAside DEF ImportServices, Becomes, Failed, Past
  <2> QED
    BY <2>2, <2>3
<1>6. CASE UNCHANGED vars
    BY <1>6 DEF vars, SchemaInv, TablesRecorded
<1> QED
    BY <1>1, <1>2, <1>3, <1>4, <1>5, <1>6, SkipSound, RunSound, RecordSound, CommitSound
       DEF Next, Proceed, Die, RefuseVersion

LEMMA SchemaInvImplies == Typed /\ SchemaInv => SchemaMatchesHistory
<1> SUFFICES ASSUME Typed, SchemaInv PROVE SchemaMatchesHistory
    OBVIOUS
<1>1. \A t : t \in tables => t = <<t[1], t[2]>>
    BY DEF Typed
<1>2. tables = UNION {TablesOf(v) : v \in DOMAIN history}
    BY <1>1 DEF SchemaInv, TablesRecorded, TablesOf
<1> QED
    BY <1>2 DEF SchemaInv, SchemaMatchesHistory, Past, Caught

-----------------------------------------------------------------------------
(* Migrations are atomic.                                                   *)

Made == {v \in Versions : TablesOf(v) \subseteq tables}
PastOf == [r \in Replicas |-> IF Past(replica[r]) THEN {replica[r].release} ELSE {}]

LEMMA MadeIsRecorded == Typed /\ TablesRecorded => Made = DOMAIN history
<1> SUFFICES ASSUME Typed, TablesRecorded PROVE Made = DOMAIN history
    OBVIOUS
<1>1. 1 \in 1 .. Statements
    BY ReleasesAssumption
<1>2. DOMAIN history \subseteq Versions
    BY HistoryShape DEF Typed
<1>3. ASSUME NEW v \in Versions
      PROVE  TablesOf(v) \subseteq tables <=> v \in DOMAIN history
  <2>1. ASSUME TablesOf(v) \subseteq tables PROVE v \in DOMAIN history
    <3>1. <<v, 1>> \in tables
        BY <1>1, <2>1 DEF TablesOf
    <3> QED
        BY <3>1 DEF TablesRecorded
  <2>2. ASSUME v \in DOMAIN history PROVE TablesOf(v) \subseteq tables
    BY <2>2 DEF TablesOf, TablesRecorded
  <2> QED
    BY <2>1, <2>2
<1> QED
    BY <1>2, <1>3 DEF Made

LEMMA MigrationInit == Init => Abstract!Init
<1> SUFFICES ASSUME Init PROVE Abstract!Init
    OBVIOUS
<1>1. Typed /\ TablesRecorded
    BY TypedInit, SchemaInit DEF SchemaInv
<1>2. Made = {}
    BY <1>1, MadeIsRecorded, EmptyHistory DEF Init
<1>3. PastOf = [r \in Replicas |-> {}]
    BY DEF Init, Past, PastOf, Down
<1> QED
    BY <1>2, <1>3 DEF Init, Abstract!Init, Made, PastOf

\* A replica that commits nothing stays where it was or leaves.
LEMMA MigrationAside ==
    ASSUME Typed, NEW r \in Replicas, NEW m,
           replica' = [replica EXCEPT ![r] = m],
           UNCHANGED <<tables, history>>,
           Past(m) => Past(replica[r]) /\ m.release = replica[r].release
    PROVE  [Abstract!Next]_(Abstract!absVars)
<1>1. replica'[r] = m /\ \A q \in Replicas \ {r} : replica'[q] = replica[q]
    BY DEF Typed
<1>2. Made' = Made
    BY DEF Made
<1>3. CASE Past(m)
  <2>1. PastOf' = PastOf
    BY <1>1, <1>3 DEF PastOf
  <2> QED
    BY <1>2, <2>1 DEF Abstract!absVars, Made, PastOf
<1>4. CASE ~Past(m)
  <2>1. PastOf' = [PastOf EXCEPT ![r] = {}]
    BY <1>1, <1>4 DEF PastOf
  <2>2. Abstract!Leave(r)
    BY <1>2, <2>1 DEF Abstract!Leave, Made, PastOf
  <2> QED
    BY <2>2 DEF Abstract!Next
<1> QED
    BY <1>3, <1>4

LEMMA MigrationCommits ==
    ASSUME Typed, SchemaInv, Typed', SchemaInv', NEW r \in Replicas, Commit(r),
           NEW release, release = replica[r].release
    PROVE  Abstract!Migrate(r, release) /\ release \in Releases
<1> DEFINE m == replica[r]
           whole == [v \in DOMAIN history \cup DOMAIN release |->
                        IF v \in DOMAIN history THEN history[v] ELSE release[v]]
<1>1. m \in Migrating /\ WorkSound(m, history)
    BY ReplicaShape DEF Typed, SchemaInv, Commit, At
<1>2. /\ release \in Releases /\ m.at \in Nat \ {0} /\ m.at > Len(release)
      /\ m.work.history \in Histories /\ history \in Histories
    BY <1>1 DEF Migrating, Work, Commit, Typed
<1>3. Len(release) \in Nat /\ m.at - 1 = Len(release) /\ DOMAIN release = 1 .. m.at - 1
    BY <1>1, <1>2, ReleaseShape DEF WorkSound
<1>4. \A v \in DOMAIN release :
        \/ v \in DOMAIN history /\ history[v] = release[v]
        \/ v \in DOMAIN m.work.history /\ m.work.history[v] = release[v]
    BY <1>1, <1>3 DEF WorkSound
<1>5. /\ DOMAIN m.work.history \cap DOMAIN history = {}
      /\ DOMAIN m.work.history \subseteq DOMAIN release
    BY <1>1, <1>3 DEF WorkSound
<1>6. history' = Merged(m.work.history, history)
    BY DEF Commit
<1>7. replica'[r].release = release /\ Past(replica'[r])
      /\ \A q \in Replicas \ {r} : replica'[q] = replica[q]
    BY DEF Typed, Commit, Becomes, Past
<1> HIDE DEF m
<1>8. history' = whole
  <2>1. DOMAIN m.work.history \cup DOMAIN history = DOMAIN history \cup DOMAIN release
    BY <1>4, <1>5
  <2>2. \A v \in DOMAIN history \cup DOMAIN release :
            (IF v \in DOMAIN m.work.history THEN m.work.history[v] ELSE history[v])
                = (IF v \in DOMAIN history THEN history[v] ELSE release[v])
    BY <1>4, <1>5
  <2> QED
    BY <1>6, <2>1, <2>2 DEF Merged
<1>9. \A v \in DOMAIN release \cap DOMAIN history : history[v] = release[v]
    BY <1>4, <1>5
<1>10. Made' = Made \cup DOMAIN release
  <2>1. Made = DOMAIN history
    BY MadeIsRecorded DEF SchemaInv
  <2>2. (Typed /\ TablesRecorded => Made = DOMAIN history)'
    BY MadeIsRecorded, PTL
  <2>3. Made' = DOMAIN history'
    BY <2>2 DEF SchemaInv
  <2>4. DOMAIN history' = DOMAIN history \cup DOMAIN release
    BY <1>8
  <2> QED
    BY <2>1, <2>3, <2>4
<1>11. PastOf' = [PastOf EXCEPT ![r] = {release}]
    BY <1>7 DEF PastOf
<1>12. Abstract!Migrate(r, release)
    BY <1>8, <1>9, <1>10, <1>11 DEF Abstract!Migrate, Abstract!Agrees, Made, PastOf
<1> QED
    BY <1>2, <1>12

LEMMA MigrationStep ==
    Typed /\ SchemaInv /\ Typed' /\ SchemaInv' /\ [Next]_vars
        => [Abstract!Next]_(Abstract!absVars)
<1> SUFFICES ASSUME Typed, SchemaInv, Typed', SchemaInv', [Next]_vars
             PROVE  [Abstract!Next]_(Abstract!absVars)
    OBVIOUS
<1>1. ASSUME NEW r \in Replicas, NEW backend \in Backends, NEW release \in Releases,
             Start(r, backend, release)
      PROVE  [Abstract!Next]_(Abstract!absVars)
  <2>1. PICK m : /\ m \in {[pc |-> "importing", backend |-> "sqlite"],
                           [pc |-> "waiting", release |-> release]}
                 /\ replica' = [replica EXCEPT ![r] = m]
    BY <1>1 DEF Start, Becomes, Backends
  <2>2. ~Past(m)
    BY <2>1 DEF Past
  <2> QED
    BY <1>1, <2>1, <2>2, MigrationAside DEF Start
<1>2. ASSUME NEW r \in Replicas, NEW m, m.pc = "migrating", replica' = [replica EXCEPT ![r] = m],
             UNCHANGED <<tables, history>>
      PROVE  [Abstract!Next]_(Abstract!absVars)
    BY <1>2, MigrationAside DEF Past
<1>3. ASSUME NEW r \in Replicas, AcquireLock(r)
      PROVE  [Abstract!Next]_(Abstract!absVars)
  <2>1. PICK m : m = [pc |-> "migrating", release |-> replica[r].release, at |-> 1,
                      done |-> 0, work |-> NoWork]
    OBVIOUS
  <2> QED
    BY <1>2, <1>3, <2>1 DEF AcquireLock, Becomes
<1>4. ASSUME NEW r \in Replicas, NEW to \in {Failed, Down}, Abort(r, to) \/ LockTimeout(r)
      PROVE  [Abstract!Next]_(Abstract!absVars)
  <2>1. ~Past(Failed) /\ ~Past(Down)
    BY DEF Past, Failed, Down
  <2> QED
    BY <1>4, <2>1, MigrationAside DEF Abort, LockTimeout, Becomes
<1>5. ASSUME NEW r \in Replicas, SkipVersion(r) \/ RunStatement(r) \/ RecordVersion(r)
      PROVE  [Abstract!Next]_(Abstract!absVars)
  <2>1. PICK m : m = replica'[r]
    OBVIOUS
  <2>2. replica[r] \in Migrating
    BY <1>5, ReplicaShape DEF Typed, SkipVersion, RunStatement, RecordVersion, Left, At
  <2>3. m.pc = "migrating" /\ replica' = [replica EXCEPT ![r] = m]
    BY <1>5, <2>1, <2>2 DEF SkipVersion, RunStatement, RecordVersion, Becomes, Typed, Migrating
  <2> QED
    BY <1>2, <1>5, <2>3 DEF SkipVersion, RunStatement, RecordVersion
<1>6. ASSUME NEW r \in Replicas, ImportServices(r)
      PROVE  [Abstract!Next]_(Abstract!absVars)
  <2>1. replica[r] \in Replica /\ replica[r].pc = "importing"
    BY <1>6 DEF Typed, ImportServices, At
  <2>2. CASE replica[r].backend = "sqlite"
    <3>1. PICK m : m = [replica[r] EXCEPT !.pc = "serving"]
      OBVIOUS
    <3>2. m.pc = "serving" /\ m.backend = "sqlite"
      BY <2>1, <2>2, <3>1, ReplicaShape
    <3> QED
      BY <1>6, <2>2, <3>1, <3>2, MigrationAside DEF ImportServices, Becomes, Past
  <2>3. CASE replica[r].backend # "sqlite"
    <3>1. ~Past(Failed)
      BY DEF Past, Failed
    <3> QED
      BY <1>6, <2>3, <3>1, MigrationAside DEF ImportServices, Becomes
  <2> QED
    BY <2>2, <2>3
<1>7. ASSUME NEW r \in Replicas, Commit(r)
      PROVE  [Abstract!Next]_(Abstract!absVars)
  <2> PICK release : release = replica[r].release
    OBVIOUS
  <2>1. Abstract!Migrate(r, release) /\ release \in Releases
    BY <1>7, MigrationCommits
  <2>2. Abstract!Next
    BY <2>1 DEF Abstract!Next
  <2> QED
    BY <2>2
<1>8. CASE UNCHANGED vars
    BY <1>8 DEF vars, Abstract!absVars
<1> QED
    BY <1>1, <1>3, <1>4, <1>5, <1>6, <1>7, <1>8 DEF Next, Proceed, Die, RefuseVersion

LEMMA SchemaInvariant == Spec => [](Typed /\ SchemaInv)
<1>1. Typed /\ SchemaInv /\ [Next]_vars => (Typed /\ SchemaInv)'
    BY TypedStep, SchemaStep
<1>2. Init => Typed /\ SchemaInv
    BY TypedInit, SchemaInit
<1> QED
    BY <1>1, <1>2, PTL DEF Spec

\* Every reachable state of startup is well typed, and who migrates has the
\* advisory lock (postgres_storage.py, _acquire_migration_lock).
THEOREM WellTyped == Spec => []TypeOK
<1>1. Spec => []Typed
    BY TypedInit, TypedStep, PTL DEF Spec
<1> QED
    BY <1>1, TypedIsTypeOK, PTL

\* However replicas race, die or time out, the tables are those of the recorded
\* versions and a replica past its migrations knows its versions
\* (postgres_storage.py, _init_schema): for any releases and any number of replicas.
THEOREM SchemaIsRecorded == Spec => []SchemaMatchesHistory
BY SchemaInvariant, SchemaInvImplies, PTL

\* A release is migrated whole and at once, against a history it agrees with,
\* whichever replicas race and wherever they die; what is recorded stays recorded
\* (postgres_storage.py, _init_schema).
THEOREM MigrationsAreAtomic == Spec => ImplementsAtomicMigration
BY SchemaInvariant, MigrationInit, MigrationStep, PTL
   DEF Spec, ImplementsAtomicMigration, Abstract!Spec

=============================================================================
