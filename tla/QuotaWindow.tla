----------------------------- MODULE QuotaWindow -----------------------------
(***************************************************************************)
(* The request quota of one workspace: quotas.py with its in-memory and    *)
(* its Redis backend, and the gateway and usage handlers of main.py that   *)
(* call it. Buckets are kept per workspace, so one workspace stands for    *)
(* each of them.                                                           *)
(*                                                                         *)
(* A member of Calls is a request. call[c].pc says what it has done:       *)
(*   timed     it took the time, QuotaService has not read its backend;    *)
(*   ready     it holds a backend and has not called it;                   *)
(*   admitted  the request was counted and its plan is being evaluated;    *)
(*   minute, day  the limit it was refused for.                            *)
(* An entry of a bucket is a request counted: its time and its rank, the   *)
(* order of the deque in memory, the sequence number of the Redis member.  *)
(***************************************************************************)
EXTENDS Integers, FiniteSets

CONSTANTS
    Calls,              \* requests in progress
    Memories,           \* InMemoryQuotaBackend objects a process may create
    Redis,              \* the Redis server, one for all processes
    Minute,             \* 60 seconds
    Day,                \* 86400 seconds
    Ttl,                \* 86520 seconds
    MaxStall,           \* bound: how old the time of a call in progress is
    MaxClock,           \* bound: the latest time
    Loads               \* the limits configured; bound: what happens in a behaviour

\* perMinute is TRUSTKERNEL_RATE_LIMIT_PER_MINUTE, perDay is
\* TRUSTKERNEL_DAILY_ACTION_QUOTA: any integers.
Load == [requests : Nat, replacements : Nat, resets : Nat, perMinute : Int, perDay : Int]

ASSUME QuotaAssumption ==
    /\ Redis \notin Memories
    /\ Minute \in Nat
    /\ Day \in Nat
    /\ Ttl \in Nat
    /\ MaxStall \in Nat
    /\ MaxClock \in Nat
    /\ Minute < Day
    /\ Minute + MaxStall <= Day
    /\ Day <= Ttl
    /\ Loads \subseteq Load

VARIABLES
    load,               \* the limits, and what is still to come
    clock,
    current,            \* the backend QuotaService holds
    created,            \* the in-memory backends created so far
    bucket,             \* the entries each backend keeps
    expires,            \* when Redis drops its bucket
    call,               \* the requests in progress
    log,                \* history: the entries each backend ever added
    swaps               \* history: when the backend was replaced

vars == <<load, clock, current, created, bucket, expires, call, log, swaps>>

Backends == Memories \cup {Redis}

\* The limits never fall below one a minute, nor the day's below the minute's.
PerMinute == IF load.perMinute > 1 THEN load.perMinute ELSE 1
PerDay == IF load.perDay > PerMinute THEN load.perDay ELSE PerMinute

Entry == [rank : Nat \ {0}, time : Nat]

Idle == [pc |-> "idle"]
Held == [pc : {"timed"}, kind : {"consume", "status"}, now : Nat]
            \cup [pc : {"ready"}, kind : {"consume", "status"}, now : Nat, backend : Backends]

\* Every variable has its type and a bucket holds only entries that were added.
TypeOK ==
    /\ load \in Load
    /\ clock \in Nat
    /\ current \in Backends
    /\ created \subseteq Memories
    /\ expires \in Nat
    /\ call \in [Calls -> Held \cup [pc : {"idle", "admitted", "minute", "day"}]]
    /\ log \in [Backends -> SUBSET Entry]
    /\ bucket \in [Backends -> SUBSET Entry]
    /\ \A b \in Backends : bucket[b] \subseteq log[b]
    /\ swaps \subseteq Nat

Init ==
    /\ load \in Loads
    /\ clock = 0
    /\ current \in Backends
    /\ created = {current} \ {Redis}
    /\ bucket = [b \in Backends |-> {}]
    /\ expires = 0
    /\ call = [c \in Calls |-> Idle]
    /\ log = [b \in Backends |-> {}]
    /\ swaps = {}

-----------------------------------------------------------------------------
(* The service.                                                            *)

\* A request reads the time before it reads the backend. The status of an
\* admitted request is read when its evaluation is over.
TakeTime(c, kind) ==
    /\ \/ /\ call[c].pc = "idle"
          /\ load.requests > 0
          /\ load' = [load EXCEPT !.requests = @ - 1]
       \/ /\ call[c].pc = "admitted"
          /\ kind = "status"
          /\ UNCHANGED load
    /\ call' = [call EXCEPT ![c] = [pc |-> "timed", kind |-> kind, now |-> clock]]
    /\ UNCHANGED <<clock, current, created, bucket, expires, log, swaps>>

\* Mutant: a thread goes on with the backend it has used.
ReadBackendKept(c) ==
    /\ call[c].pc = "timed"
    /\ \E b \in created \cup {current} :
        call' = [call EXCEPT ![c] = [pc |-> "ready", kind |-> call[c].kind,
                                     now |-> call[c].now, backend |-> b]]
    /\ UNCHANGED <<load, clock, current, created, bucket, expires, log, swaps>>

ReadBackend(c) ==
    /\ call[c].pc = "timed"
    /\ call' = [call EXCEPT ![c] = [pc |-> "ready", kind |-> call[c].kind,
                                    now |-> call[c].now, backend |-> current]]
    /\ UNCHANGED <<load, clock, current, created, bucket, expires, log, swaps>>

\* The reply of a refused request, of an evaluation that failed.
Answer(c) ==
    /\ call[c].pc \in {"admitted", "minute", "day"}
    /\ call' = [call EXCEPT ![c] = Idle]
    /\ UNCHANGED <<load, clock, current, created, bucket, expires, log, swaps>>

\* configure_quota_backend: a new in-memory backend, or Redis.
Install(b) ==
    /\ b \in Backends \ created
    /\ load.replacements > 0
    /\ load' = [load EXCEPT !.replacements = @ - 1]
    /\ current' = b
    /\ created' = created \cup ({b} \ {Redis})
    /\ swaps' = swaps \cup {clock}

Reconfigure(b) ==
    /\ Install(b)
    /\ UNCHANGED <<clock, bucket, expires, call, log>>

\* The process dies with its requests and its in-memory bucket.
Restart(b) ==
    /\ Install(b)
    /\ call' = [c \in Calls |-> Idle]
    /\ UNCHANGED <<clock, bucket, expires, log>>

Reset ==
    /\ load.resets > 0
    /\ load' = [load EXCEPT !.resets = @ - 1]
    /\ bucket' = [bucket EXCEPT ![current] = {}]
    /\ log' = [log EXCEPT ![current] = {}]
    /\ UNCHANGED <<clock, current, created, expires, call, swaps>>

-----------------------------------------------------------------------------
(* The backends.                                                           *)

\* Redis answers with its own time, and its key has expired by then or not.
TimeOf(c) == IF call[c].backend = Redis THEN clock ELSE call[c].now

\* Mutant: the trim keeps entries up to a minute only.
TrimmedToMinute(entries, now) ==
    {e \in entries : \E f \in entries : f.rank <= e.rank /\ f.time >= now - Minute}

\* Mutant: the deque is never trimmed.
Untrimmed(entries, now) == entries

\* The deque is trimmed from its head only: an old entry behind a younger one
\* stays. The sorted set loses every entry a day old.
Trimmed(entries, now) ==
    {e \in entries : \E f \in entries : f.rank <= e.rank /\ f.time >= now - Day}

Pruned(entries, now) ==
    IF clock >= expires THEN {} ELSE {e \in entries : e.time > now - Day}

Kept(c) ==
    LET b == call[c].backend
    IN  IF b = Redis THEN Pruned(bucket[b], TimeOf(c)) ELSE Trimmed(bucket[b], TimeOf(c))

\* Mutant: an entry exactly a minute old is no longer counted.
MinuteUsedOpen(c) == {e \in Kept(c) : e.time > TimeOf(c) - Minute}

MinuteUsed(c) == {e \in Kept(c) : e.time >= TimeOf(c) - Minute}

MinuteSpent(c) == Cardinality(MinuteUsed(c)) >= PerMinute
DaySpent(c) == Cardinality(Kept(c)) >= PerDay

KeepAlive(c) ==
    expires' = IF call[c].backend = Redis THEN clock + Ttl ELSE expires

Ready(c, kind) == call[c].pc = "ready" /\ call[c].kind = kind

Admit(c, reply) ==
    /\ Ready(c, "consume")
    /\ ~MinuteSpent(c)
    /\ ~DaySpent(c)
    /\ LET b == call[c].backend
           e == [rank |-> Cardinality(log[b]) + 1, time |-> TimeOf(c)]
       IN  /\ bucket' = [bucket EXCEPT ![b] = Kept(c) \cup {e}]
           /\ log' = [log EXCEPT ![b] = @ \cup {e}]
    /\ KeepAlive(c)
    /\ call' = [call EXCEPT ![c] = reply]
    /\ UNCHANGED <<load, clock, current, created, swaps>>

\* Mutant: a refused request is counted.
RefuseCounted(c, reply) ==
    /\ Ready(c, "consume")
    /\ MinuteSpent(c) \/ DaySpent(c)
    /\ LET b == call[c].backend
           e == [rank |-> Cardinality(log[b]) + 1, time |-> TimeOf(c)]
       IN  bucket' = [bucket EXCEPT ![b] = Kept(c) \cup {e}]
    /\ call' = [call EXCEPT ![c] = reply]
    /\ UNCHANGED <<load, clock, current, created, expires, log, swaps>>

Refuse(c, reply) ==
    /\ Ready(c, "consume")
    /\ MinuteSpent(c) \/ DaySpent(c)
    /\ bucket' = [bucket EXCEPT ![call[c].backend] = Kept(c)]
    /\ call' = [call EXCEPT ![c] = reply]
    /\ UNCHANGED <<load, clock, current, created, expires, log, swaps>>

Consume(c) ==
    \/ Admit(c, [pc |-> "admitted"])
    \/ Refuse(c, [pc |-> IF MinuteSpent(c) THEN "minute" ELSE "day"])

\* The socket times out: the script ran and its reply was lost, or it did not.
LoseReply(c) ==
    /\ call[c].pc = "ready"
    /\ call[c].backend = Redis
    /\ \/ Admit(c, Idle)
       \/ Refuse(c, Idle)
       \/ /\ call' = [call EXCEPT ![c] = Idle]
          /\ UNCHANGED <<load, clock, current, created, bucket, expires, log, swaps>>

Inspect(c) ==
    /\ Ready(c, "status")
    /\ bucket' = [bucket EXCEPT ![call[c].backend] = Kept(c)]
    /\ IF Kept(c) # {} THEN KeepAlive(c) ELSE UNCHANGED expires
    /\ call' = [call EXCEPT ![c] = Idle]
    /\ UNCHANGED <<load, clock, current, created, log, swaps>>

Tick ==
    /\ clock < MaxClock
    /\ \A c \in Calls : call[c].pc \in {"timed", "ready"} => clock < call[c].now + MaxStall
    /\ clock' = clock + 1
    /\ UNCHANGED <<load, current, created, bucket, expires, call, log, swaps>>

Next ==
    \/ \E c \in Calls : \/ \E kind \in {"consume", "status"} : TakeTime(c, kind)
                        \/ ReadBackend(c)
                        \/ Answer(c)
                        \/ Consume(c)
                        \/ LoseReply(c)
                        \/ Inspect(c)
    \/ \E b \in Backends : Reconfigure(b) \/ Restart(b)
    \/ Reset
    \/ Tick

Spec == Init /\ [][Next]_vars

-----------------------------------------------------------------------------
(* Properties.                                                             *)

Within(entries, first, last) == {e \in entries : first <= e.time /\ e.time <= last}

\* However the requests interleave and however late a backend is called with
\* the time it was given, no backend admits more than the minute's limit in
\* any minute, both its ends included.
MinuteWindowHolds ==
    \A b \in Backends : \A first \in 0 .. MaxClock :
        Cardinality(Within(log[b], first, first + Minute)) <= PerMinute

\* Redis admits no more than the day's limit in a day. The in-memory backend
\* is trimmed by whoever comes, so a request that took its time before the
\* one that trimmed sees entries missing: it keeps the limit over a day less
\* the longest delay.
Reach(b) == IF b = Redis THEN Day - 1 ELSE Day - MaxStall

DayWindowHolds ==
    \A b \in Backends : \A first \in 0 .. MaxClock :
        Cardinality(Within(log[b], first, first + Reach(b))) <= PerDay

\* A request is refused for the day only when the day's limit was admitted
\* within a day and the longest delay, and for the minute only when the
\* minute's limit was admitted in the minute before it, or after it: entries
\* that trimming leaves behind a younger one never refuse a request for longer.
RefusalEarned ==
    [][\A c \in Calls :
        LET b == call[c].backend
            now == TimeOf(c)
        IN  /\ call'[c].pc = "minute" /\ call[c].pc = "ready"
                => Cardinality(Within(log[b], now - Minute, clock)) >= PerMinute
            /\ call'[c].pc = "day" /\ call[c].pc = "ready"
                => Cardinality(Within(log[b], now - Day - MaxStall, clock)) >= PerDay]_vars

\* Requests of one minute are counted by two backends only if the backend was
\* replaced between them or while one of them was delayed: in one process, the
\* limit is exceeded only around a replaced backend or a restart.
OverrunNeedsSwap ==
    \A b1, b2 \in Backends : b1 # b2 =>
        LET before == IF Redis \in {b1, b2} THEN MaxStall ELSE 0
        IN  \A e1 \in log[b1], e2 \in log[b2] :
                e1.time <= e2.time /\ e2.time <= e1.time + Minute
                    => \E s \in swaps : e1.time - before <= s /\ s <= e2.time + MaxStall
=============================================================================
