-------------------------- MODULE QuotaWindowProofs --------------------------
(***************************************************************************)
(* Theorems about QuotaWindow, for any number of requests and in-memory    *)
(* backends, any limits, windows, delays and times.                        *)
(***************************************************************************)
EXTENDS QuotaWindow, FiniteSetTheorems, TLAPS

FiniteLogs == \A b \in Backends : IsFiniteSet(log[b])

TypeInv == TypeOK /\ FiniteLogs

ReadyCall == [pc : {"ready"}, kind : {"consume", "status"}, now : Nat, backend : Backends]
TimedCall == [pc : {"timed"}, kind : {"consume", "status"}, now : Nat]
Replies == {[pc |-> "idle"], [pc |-> "admitted"], [pc |-> "minute"], [pc |-> "day"]}

LEMMA CallShape ==
    ASSUME TypeOK, NEW c \in Calls
    PROVE  /\ call[c].pc = "ready" => call[c] \in ReadyCall
           /\ call[c].pc = "timed" => call[c] \in TimedCall
           /\ call[c].pc \notin {"ready", "timed"} => call[c] \in Replies
BY DEF TypeOK, Held, ReadyCall, TimedCall, Replies

LEMMA ReplyShape ==
    ASSUME NEW reply \in Replies
    PROVE  /\ reply \in Held \cup [pc : {"idle", "admitted", "minute", "day"}]
           /\ reply.pc \notin {"ready", "timed"}
BY DEF Replies

\* What a call that holds a backend finds: Kept is part of its bucket, which is
\* finite, and the time it goes by is the clock's or its own.
LEMMA KeptShape ==
    ASSUME TypeInv, NEW c \in Calls, call[c].pc = "ready"
    PROVE  /\ call[c].backend \in Backends
           /\ call[c].now \in Nat
           /\ TimeOf(c) \in Nat
           /\ Kept(c) \subseteq bucket[call[c].backend]
           /\ Kept(c) \subseteq log[call[c].backend]
           /\ Kept(c) \subseteq Entry
           /\ IsFiniteSet(Kept(c))
           /\ IsFiniteSet(log[call[c].backend])
           /\ Cardinality(log[call[c].backend]) \in Nat
<1> DEFINE b == call[c].backend
<1>1. b \in Backends /\ call[c].now \in Nat
    BY CallShape DEF TypeInv, ReadyCall
<1>2. TimeOf(c) \in Nat
    BY <1>1 DEF TimeOf, TypeInv, TypeOK
<1>3. Kept(c) \subseteq bucket[b]
    BY DEF Kept, Pruned, Trimmed
<1>4. bucket[b] \subseteq log[b] /\ log[b] \subseteq Entry /\ IsFiniteSet(log[b])
    BY <1>1 DEF TypeInv, TypeOK, FiniteLogs
<1>5. IsFiniteSet(Kept(c))
    BY <1>3, <1>4, FS_Subset
<1>6. Cardinality(log[b]) \in Nat
    BY <1>4, FS_CardinalityType
<1> QED
    BY <1>1, <1>2, <1>3, <1>4, <1>5, <1>6

LEMMA Limits ==
    ASSUME TypeOK
    PROVE  /\ load.perMinute \in Int /\ load.perDay \in Int
           /\ PerMinute \in Nat /\ PerDay \in Nat
BY DEF TypeOK, Load, PerMinute, PerDay

LEMMA TypeInit == Init => TypeInv
<1> SUFFICES ASSUME Init PROVE TypeInv
    OBVIOUS
<1>1. TypeOK
    BY QuotaAssumption DEF Init, TypeOK, Idle, Backends
<1>2. FiniteLogs
    BY FS_EmptySet DEF Init, FiniteLogs
<1> QED
    BY <1>1, <1>2 DEF TypeInv

\* The entry an admitted request adds.
Added(c) == [rank |-> Cardinality(log[call[c].backend]) + 1, time |-> TimeOf(c)]

LEMMA AdmitShape ==
    ASSUME TypeInv, NEW c \in Calls, NEW reply \in Replies, Admit(c, reply)
    PROVE  LET b == call[c].backend
           IN  /\ call[c].pc = "ready"
               /\ b \in Backends
               /\ Added(c) \in Entry
               /\ bucket'[b] = Kept(c) \cup {Added(c)}
               /\ log'[b] = log[b] \cup {Added(c)}
               /\ \A d \in Backends \ {b} : bucket'[d] = bucket[d] /\ log'[d] = log[d]
               /\ call' = [call EXCEPT ![c] = reply]
<1> DEFINE b == call[c].backend
<1>1. call[c].pc = "ready"
    BY DEF Admit, Ready
<1>2. b \in Backends /\ Added(c) \in Entry
    BY <1>1, KeptShape DEF Added, Entry
<1>3. /\ bucket' = [bucket EXCEPT ![b] = Kept(c) \cup {Added(c)}]
      /\ log' = [log EXCEPT ![b] = log[b] \cup {Added(c)}]
      /\ call' = [call EXCEPT ![c] = reply]
    BY DEF Admit, Added
<1> QED
    BY <1>1, <1>2, <1>3 DEF TypeInv, TypeOK

LEMMA AdmitTyped ==
    ASSUME TypeInv, NEW c \in Calls, NEW reply \in Replies, Admit(c, reply)
    PROVE  TypeInv'
<1> DEFINE b == call[c].backend
<1>1. call[c].pc = "ready" /\ b \in Backends
    BY AdmitShape
<1>2. bucket' \in [Backends -> SUBSET Entry] /\ log' \in [Backends -> SUBSET Entry]
  <2>1. Added(c) \in Entry /\ Kept(c) \subseteq Entry /\ log[b] \subseteq Entry
    BY <1>1, AdmitShape, KeptShape DEF TypeInv, TypeOK
  <2>2. \A d \in Backends : bucket'[d] \subseteq Entry /\ log'[d] \subseteq Entry
    BY <2>1, AdmitShape DEF TypeInv, TypeOK
  <2>3. DOMAIN bucket' = Backends /\ DOMAIN log' = Backends
        /\ bucket' = [d \in Backends |-> bucket'[d]] /\ log' = [d \in Backends |-> log'[d]]
    BY DEF Admit, TypeInv, TypeOK
  <2> QED
    BY <2>2, <2>3
<1>3. \A d \in Backends : bucket'[d] \subseteq log'[d]
  <2>1. Kept(c) \subseteq log[b]
    BY <1>1, KeptShape
  <2>2. bucket'[b] \subseteq log'[b]
    BY <2>1, AdmitShape
  <2>3. ASSUME NEW d \in Backends \ {b}
        PROVE  bucket'[d] \subseteq log'[d]
    BY <2>3, AdmitShape DEF TypeInv, TypeOK
  <2> QED
    BY <2>2, <2>3
<1>4. \A d \in Backends : IsFiniteSet(log'[d])
  <2>1. IsFiniteSet(log[b] \cup {Added(c)})
    BY <1>1, KeptShape, FS_AddElement
  <2> QED
    BY <2>1, AdmitShape DEF TypeInv, FiniteLogs
<1>5. call' \in [Calls -> Held \cup [pc : {"idle", "admitted", "minute", "day"}]]
    BY AdmitShape, ReplyShape DEF TypeInv, TypeOK
<1>6. expires' \in Nat
    BY QuotaAssumption DEF Admit, KeepAlive, TypeInv, TypeOK
<1> QED
    BY <1>2, <1>3, <1>4, <1>5, <1>6 DEF Admit, TypeInv, TypeOK, FiniteLogs

\* A call that adds nothing leaves its backend what it kept.
LEMMA KeepTyped ==
    ASSUME TypeInv, NEW c \in Calls, NEW reply \in Replies, call[c].pc = "ready",
           bucket' = [bucket EXCEPT ![call[c].backend] = Kept(c)],
           call' = [call EXCEPT ![c] = reply],
           expires' \in Nat,
           UNCHANGED <<load, clock, current, created, log, swaps>>
    PROVE  TypeInv'
<1> DEFINE b == call[c].backend
<1>1. b \in Backends /\ Kept(c) \subseteq Entry /\ Kept(c) \subseteq log[b]
    BY KeptShape
<1>2. bucket' \in [Backends -> SUBSET Entry] /\ \A d \in Backends : bucket'[d] \subseteq log'[d]
    BY <1>1 DEF TypeInv, TypeOK
<1>3. call' \in [Calls -> Held \cup [pc : {"idle", "admitted", "minute", "day"}]]
    BY ReplyShape DEF TypeInv, TypeOK
<1> QED
    BY <1>2, <1>3 DEF TypeInv, TypeOK, FiniteLogs

\* One of the requests in progress changes, and what is to come, but no backend.
LEMMA CallTyped ==
    ASSUME TypeInv, NEW c \in Calls,
           NEW record \in Held \cup [pc : {"idle", "admitted", "minute", "day"}],
           call' = [call EXCEPT ![c] = record],
           load' \in Load,
           UNCHANGED <<clock, current, created, bucket, expires, log, swaps>>
    PROVE  TypeInv'
BY DEF TypeInv, TypeOK, FiniteLogs

LEMMA InstallTyped ==
    ASSUME TypeInv, NEW b \in Backends, Install(b),
           call' = call \/ call' = [c \in Calls |-> Idle],
           UNCHANGED <<clock, bucket, expires, log>>
    PROVE  TypeInv'
<1>1. /\ load' \in Load
      /\ current' \in Backends
      /\ created' \subseteq Memories
      /\ swaps' \subseteq Nat
    BY DEF Install, Load, Backends, TypeInv, TypeOK
<1>2. call' \in [Calls -> Held \cup [pc : {"idle", "admitted", "minute", "day"}]]
    BY DEF Idle, TypeInv, TypeOK
<1> QED
    BY <1>1, <1>2 DEF TypeInv, TypeOK, FiniteLogs

LEMMA ReplyMembers ==
    Idle \in Replies /\ [pc |-> "admitted"] \in Replies /\
    [pc |-> "minute"] \in Replies /\ [pc |-> "day"] \in Replies
BY DEF Replies, Idle
-----------------------------------------------------------------------------
(* What a step can be: an admission; a call that only trims its bucket; a   *)
(* call that comes closer to its backend, or is answered; a backend         *)
(* replaced; a reset; time.                                                 *)

Keep(c, reply) ==
    /\ call[c].pc = "ready"
    /\ bucket' = [bucket EXCEPT ![call[c].backend] = Kept(c)]
    /\ KeepAlive(c) \/ UNCHANGED expires
    /\ call' = [call EXCEPT ![c] = reply]
    /\ UNCHANGED <<load, clock, current, created, log, swaps>>

Proceed(c, record) ==
    /\ record.pc = "timed" => record.now = clock
    /\ record.pc = "ready" => /\ call[c].pc = "timed"
                              /\ record.now = call[c].now
                              /\ record.backend = current
    /\ call' = [call EXCEPT ![c] = record]
    /\ load' \in Load
    /\ load'.perMinute = load.perMinute
    /\ load'.perDay = load.perDay
    /\ UNCHANGED <<clock, current, created, bucket, expires, log, swaps>>

Replace(b) ==
    /\ Install(b)
    /\ call' = call \/ call' = [c \in Calls |-> Idle]
    /\ UNCHANGED <<clock, bucket, expires, log>>

LEMMA NextKinds ==
    ASSUME TypeInv, [Next]_vars
    PROVE  \/ \E c \in Calls, reply \in Replies : Admit(c, reply)
           \/ \E c \in Calls, reply \in Replies : Keep(c, reply)
           \/ \E c \in Calls, record \in ReadyCall \cup TimedCall \cup Replies : Proceed(c, record)
           \/ \E b \in Backends : Replace(b)
           \/ Reset
           \/ Tick
           \/ UNCHANGED vars
<1>1. ASSUME NEW c \in Calls, NEW kind \in {"consume", "status"}, TakeTime(c, kind)
      PROVE  \E record \in TimedCall : Proceed(c, record)
  <2> DEFINE record == [pc |-> "timed", kind |-> kind, now |-> clock]
  <2>1. record \in TimedCall
    BY DEF TimedCall, TypeInv, TypeOK
  <2>2. load' \in Load /\ load'.perMinute = load.perMinute /\ load'.perDay = load.perDay
    BY <1>1 DEF TakeTime, Load, TypeInv, TypeOK
  <2>3. Proceed(c, record)
    BY <1>1, <2>2 DEF TakeTime, Proceed
  <2> QED
    BY <2>1, <2>3
<1>2. ASSUME NEW c \in Calls, ReadBackend(c)
      PROVE  \E record \in ReadyCall : Proceed(c, record)
  <2> DEFINE record == [pc |-> "ready", kind |-> call[c].kind, now |-> call[c].now,
                        backend |-> current]
  <2>1. call[c] \in TimedCall /\ call[c].pc = "timed"
    BY <1>2, CallShape DEF ReadBackend, TypeInv
  <2>2. record \in ReadyCall
    BY <2>1 DEF TimedCall, ReadyCall, TypeInv, TypeOK
  <2>3. Proceed(c, record)
    BY <1>2, <2>1 DEF ReadBackend, Proceed, TypeInv, TypeOK
  <2> QED
    BY <2>2, <2>3
<1>3. ASSUME NEW c \in Calls, Answer(c)
      PROVE  Proceed(c, Idle)
    BY <1>3 DEF Answer, Proceed, Idle, TypeInv, TypeOK
<1>4. ASSUME NEW c \in Calls, NEW reply \in Replies, Refuse(c, reply)
      PROVE  Keep(c, reply)
    BY <1>4 DEF Refuse, Ready, Keep
<1>5. ASSUME NEW c \in Calls, Inspect(c)
      PROVE  Keep(c, Idle)
    BY <1>5 DEF Inspect, Ready, Keep
<1>6. ASSUME NEW c \in Calls, Consume(c)
      PROVE  \E reply \in Replies : Admit(c, reply) \/ Keep(c, reply)
    BY <1>4, <1>6, ReplyMembers DEF Consume
<1>7. ASSUME NEW c \in Calls, LoseReply(c)
      PROVE  Admit(c, Idle) \/ Keep(c, Idle) \/ Proceed(c, Idle)
  <2>1. CASE Refuse(c, Idle)
    BY <1>4, <2>1, ReplyMembers
  <2>2. CASE /\ call' = [call EXCEPT ![c] = Idle]
             /\ UNCHANGED <<load, clock, current, created, bucket, expires, log, swaps>>
    BY <2>2 DEF Proceed, Idle, TypeInv, TypeOK
  <2> QED
    BY <1>7, <2>1, <2>2 DEF LoseReply
<1>8. ASSUME NEW b \in Backends, Reconfigure(b) \/ Restart(b)
      PROVE  Replace(b)
    BY <1>8 DEF Reconfigure, Restart, Replace
<1> QED
  <2>1. CASE \E c \in Calls : LoseReply(c)
    BY <1>7, <2>1, ReplyMembers
  <2>2. CASE \E c \in Calls : Answer(c) \/ Inspect(c)
    BY <1>3, <1>5, <2>2, ReplyMembers
  <2> QED
    BY <1>1, <1>2, <1>6, <1>8, <2>1, <2>2 DEF Next

LEMMA TypeStep == TypeInv /\ [Next]_vars => TypeInv'
<1> SUFFICES ASSUME TypeInv, [Next]_vars PROVE TypeInv'
    OBVIOUS
<1>1. ASSUME NEW c \in Calls, NEW reply \in Replies, Keep(c, reply)
      PROVE  TypeInv'
  <2>1. expires' \in Nat
    BY <1>1, QuotaAssumption DEF Keep, KeepAlive, TypeInv, TypeOK
  <2> QED
    BY <1>1, <2>1, KeepTyped DEF Keep
<1>2. ASSUME NEW c \in Calls, NEW record \in ReadyCall \cup TimedCall \cup Replies,
             Proceed(c, record)
      PROVE  TypeInv'
  <2>1. record \in Held \cup [pc : {"idle", "admitted", "minute", "day"}]
    BY DEF ReadyCall, TimedCall, Replies, Held
  <2> QED
    BY <1>2, <2>1, CallTyped DEF Proceed
<1>3. CASE Reset
  <2>1. load' \in Load
    BY <1>3 DEF Reset, Load, TypeInv, TypeOK
  <2>2. \A b \in Backends : IsFiniteSet(log'[b])
    BY <1>3, FS_EmptySet DEF Reset, TypeInv, TypeOK, FiniteLogs
  <2>3. /\ log' \in [Backends -> SUBSET Entry]
        /\ bucket' \in [Backends -> SUBSET Entry]
        /\ \A b \in Backends : bucket'[b] \subseteq log'[b]
    BY <1>3 DEF Reset, TypeInv, TypeOK
  <2> QED
    BY <1>3, <2>1, <2>2, <2>3 DEF Reset, TypeInv, TypeOK, FiniteLogs
<1>4. CASE Tick
    BY <1>4 DEF Tick, TypeInv, TypeOK, FiniteLogs
<1>5. CASE UNCHANGED vars
    BY <1>5 DEF vars, TypeInv, TypeOK, FiniteLogs
<1> QED
    BY <1>1, <1>2, <1>3, <1>4, <1>5, NextKinds, AdmitTyped, InstallTyped DEF Replace

-----------------------------------------------------------------------------
(* Times. A call goes by a time that is past and not older than MaxStall;   *)
(* entries and replacements are past.                                       *)

Waiting(c) == call[c].pc \in {"timed", "ready"}
Prompt == \A c \in Calls : Waiting(c) => call[c].now <= clock /\ clock <= call[c].now + MaxStall
LogPast == \A b \in Backends : \A e \in log[b] : e.time <= clock
SwapsPast == \A s \in swaps : s <= clock

TimeInv == Prompt /\ LogPast /\ SwapsPast

LEMMA WaitingNow ==
    ASSUME TypeInv, NEW c \in Calls, Waiting(c)
    PROVE  call[c].now \in Nat
BY CallShape DEF TypeInv, Waiting, ReadyCall, TimedCall

LEMMA TimeOfPrompt ==
    ASSUME TypeInv, TimeInv, NEW c \in Calls, call[c].pc = "ready"
    PROVE  /\ TimeOf(c) <= clock
           /\ clock <= TimeOf(c) + MaxStall
           /\ call[c].now <= TimeOf(c)
           /\ call[c].backend # Redis => TimeOf(c) = call[c].now
           /\ call[c].backend = Redis => TimeOf(c) = clock
<1>1. call[c].now \in Nat /\ clock \in Nat /\ MaxStall \in Nat
    BY KeptShape, QuotaAssumption DEF TypeInv, TypeOK
<1>2. call[c].now <= clock /\ clock <= call[c].now + MaxStall
    BY DEF TimeInv, Prompt, Waiting
<1> QED
    BY <1>1, <1>2 DEF TimeOf

LEMMA TimeStep ==
    ASSUME TypeInv, TimeInv, [Next]_vars
    PROVE  TimeInv'
<1> USE QuotaAssumption
<1>1. clock \in Nat /\ MaxStall \in Nat
    BY DEF TypeInv, TypeOK
<1>2. ASSUME NEW c \in Calls, NEW reply \in Replies, call' = [call EXCEPT ![c] = reply],
             clock' = clock
      PROVE  Prompt'
  <2>1. reply.pc \notin {"timed", "ready"}
    BY ReplyShape
  <2> QED
    BY <1>2, <2>1 DEF TimeInv, Prompt, Waiting, TypeInv, TypeOK
<1>3. ASSUME NEW c \in Calls, NEW reply \in Replies, Admit(c, reply)
      PROVE  TimeInv'
  <2> DEFINE b == call[c].backend
  <2>1. Added(c).time <= clock /\ b \in Backends
    BY <1>3, AdmitShape, TimeOfPrompt DEF Added
  <2>2. UNCHANGED <<clock, swaps>>
    BY <1>3 DEF Admit
  <2>3. ASSUME NEW d \in Backends, NEW e \in log'[d]
        PROVE  e.time <= clock'
    <3>1. e \in log[d] \/ e = Added(c)
      BY <1>3, <2>3, AdmitShape
    <3> QED
      BY <2>1, <2>2, <3>1 DEF TimeInv, LogPast
  <2>4. Prompt'
    BY <1>2, <1>3, <2>2, AdmitShape
  <2> QED
    BY <2>2, <2>3, <2>4 DEF TimeInv, LogPast, SwapsPast
<1>4. ASSUME NEW c \in Calls, NEW reply \in Replies, Keep(c, reply)
      PROVE  TimeInv'
    BY <1>2, <1>4 DEF Keep, TimeInv, LogPast, SwapsPast
<1>5. ASSUME NEW c \in Calls, NEW record \in ReadyCall \cup TimedCall \cup Replies,
             Proceed(c, record)
      PROVE  TimeInv'
  <2>1. record.pc \in {"timed", "ready"} =>
            record.now <= clock /\ clock <= record.now + MaxStall
    BY <1>1, <1>5 DEF Proceed, TimeInv, Prompt, Waiting, TypeInv, TypeOK
  <2>2. Prompt'
    BY <1>5, <2>1 DEF Proceed, TimeInv, Prompt, Waiting, TypeInv, TypeOK
  <2> QED
    BY <1>5, <2>2 DEF Proceed, TimeInv, LogPast, SwapsPast
<1>6. ASSUME NEW b \in Backends, Replace(b)
      PROVE  TimeInv'
  <2>1. Prompt'
    BY <1>6 DEF Replace, Idle, TimeInv, Prompt, Waiting
  <2>2. SwapsPast'
    BY <1>1, <1>6 DEF Replace, Install, TimeInv, SwapsPast
  <2> QED
    BY <1>6, <2>1, <2>2 DEF Replace, TimeInv, LogPast
<1>7. CASE Reset
    BY <1>7 DEF Reset, TypeInv, TypeOK, TimeInv, Prompt, Waiting, LogPast, SwapsPast
<1>8. CASE Tick
  <2>1. clock' = clock + 1 /\ UNCHANGED <<call, log, swaps>>
    BY <1>8 DEF Tick
  <2>2. ASSUME NEW c \in Calls, Waiting(c)
        PROVE  call[c].now <= clock + 1 /\ clock + 1 <= call[c].now + MaxStall
    BY <1>1, <1>8, <2>2, WaitingNow DEF Tick, TimeInv, Prompt, Waiting
  <2>3. ASSUME NEW b \in Backends, NEW e \in log[b]
        PROVE  e.time <= clock + 1
    BY <1>1, <2>3 DEF TimeInv, LogPast, TypeInv, TypeOK, Entry
  <2>4. ASSUME NEW s \in swaps
        PROVE  s <= clock + 1
    BY <1>1, <2>4 DEF TimeInv, SwapsPast, TypeInv, TypeOK
  <2> QED
    BY <2>1, <2>2, <2>3, <2>4 DEF TimeInv, Prompt, Waiting, LogPast, SwapsPast
<1>9. CASE UNCHANGED vars
    BY <1>9 DEF vars, TimeInv, Prompt, Waiting, LogPast, SwapsPast
<1> QED
    BY <1>3, <1>4, <1>5, <1>6, <1>7, <1>8, <1>9, NextKinds

-----------------------------------------------------------------------------
(* What a bucket has lost is out of the day, and the key of Redis lives for *)
(* the day of every entry.                                                  *)

Forgotten(b) == IF b = Redis THEN clock - Day + 1 ELSE clock - Day

Lost == \A b \in Backends : \A e \in log[b] \ bucket[b] : e.time < Forgotten(b)
Expiry == \A e \in bucket[Redis] : e.time + Day <= expires

KeptInv == Lost /\ Expiry

LEMMA KeptRecent ==
    ASSUME TypeInv, TimeInv, KeptInv, NEW c \in Calls, call[c].pc = "ready",
           NEW e \in log[call[c].backend], e.time >= Forgotten(call[c].backend)
    PROVE  e \in Kept(c)
<1> DEFINE b == call[c].backend
<1>1. b \in Backends /\ call[c].now \in Nat
    BY KeptShape
<1>2. e \in Entry /\ clock \in Nat /\ Day \in Nat /\ expires \in Nat
    BY <1>1, QuotaAssumption DEF TypeInv, TypeOK
<1>3. e.time \in Nat /\ e.rank \in Nat
    BY <1>2 DEF Entry
<1>4. e \in bucket[b]
    BY <1>1, <1>2, <1>3 DEF KeptInv, Lost, Forgotten
<1>5. CASE b = Redis
  <2>1. e.time + Day <= expires
    BY <1>4, <1>5 DEF KeptInv, Expiry
  <2>2. e.time >= clock - Day + 1
    BY <1>5 DEF Forgotten
  <2>3. ~(clock >= expires) /\ e.time > clock - Day
    BY <1>2, <1>3, <2>1, <2>2
  <2> QED
    BY <1>4, <1>5, <2>3 DEF Kept, Pruned, TimeOf
<1>6. CASE b # Redis
  <2>1. TimeOf(c) <= clock /\ TimeOf(c) \in Nat
    BY TimeOfPrompt, KeptShape
  <2>2. e.time >= TimeOf(c) - Day
    BY <1>2, <1>3, <1>6, <2>1 DEF Forgotten
  <2>3. e.rank <= e.rank
    BY <1>3
  <2> QED
    BY <1>4, <1>6, <2>2, <2>3 DEF Kept, Trimmed
<1> QED
    BY <1>5, <1>6

LEMMA KeptStep ==
    ASSUME TypeInv, TimeInv, KeptInv, [Next]_vars
    PROVE  KeptInv'
<1> USE QuotaAssumption
<1>1. /\ clock \in Nat /\ Day \in Nat /\ Ttl \in Nat /\ expires \in Nat /\ Day <= Ttl
      /\ Redis \in Backends
    BY DEF TypeInv, TypeOK, Backends
<1>2. \A b \in Backends : \A e \in log[b] : e.time \in Nat /\ e.time <= clock
    BY DEF TypeInv, TypeOK, Entry, TimeInv, LogPast
<1>3. ASSUME NEW c \in Calls, call[c].pc = "ready"
      PROVE  \A e \in log[call[c].backend] \ Kept(c) : e.time < Forgotten(call[c].backend)
  <2>1. Forgotten(call[c].backend) \in Int
    BY <1>1 DEF Forgotten
  <2> QED
    BY <1>2, <1>3, <2>1, KeptRecent, KeptShape
<1>4. ASSUME NEW c \in Calls, NEW reply \in Replies, Admit(c, reply)
      PROVE  KeptInv'
  <2> DEFINE b == call[c].backend
  <2>1. call[c].pc = "ready" /\ b \in Backends /\ clock' = clock
    BY <1>4, AdmitShape DEF Admit
  <2>2. Lost'
    <3> SUFFICES ASSUME NEW d \in Backends, NEW e \in log'[d] \ bucket'[d]
                 PROVE  e.time < Forgotten(d)'
      BY DEF Lost
    <3>1. CASE d = b
      <4>1. e \in log[b] \ Kept(c)
        BY <1>4, <3>1, AdmitShape
      <4> QED
        BY <1>3, <2>1, <3>1, <4>1 DEF Forgotten
    <3>2. CASE d # b
      BY <1>4, <2>1, <3>2, AdmitShape DEF KeptInv, Lost, Forgotten
    <3> QED
      BY <3>1, <3>2
  <2>3. CASE b = Redis
    <3>1. expires' = clock + Ttl
      BY <1>4, <2>3 DEF Admit, KeepAlive
    <3>2. \A e \in Kept(c) : e.time \in Nat /\ e.time <= clock
      BY <1>2, <2>1, KeptShape
    <3>3. Added(c).time \in Nat /\ Added(c).time <= clock
      BY <2>1, KeptShape, TimeOfPrompt DEF Added
    <3>4. bucket'[Redis] = Kept(c) \cup {Added(c)}
      BY <1>4, <2>3, AdmitShape
    <3>5. \A e \in bucket'[Redis] : e.time \in Nat /\ e.time <= clock
      BY <3>2, <3>3, <3>4
    <3> QED
      BY <1>1, <2>2, <3>1, <3>5 DEF KeptInv, Expiry
  <2>4. CASE b # Redis
    <3>1. expires' = expires /\ bucket'[Redis] = bucket[Redis]
      BY <1>1, <1>4, <2>4, AdmitShape DEF Admit, KeepAlive
    <3> QED
      BY <2>2, <3>1 DEF KeptInv, Expiry
  <2> QED
    BY <2>3, <2>4
<1>5. ASSUME NEW c \in Calls, NEW reply \in Replies, Keep(c, reply)
      PROVE  KeptInv'
  <2> DEFINE b == call[c].backend
  <2>1. /\ call[c].pc = "ready" /\ b \in Backends /\ UNCHANGED <<clock, log>>
        /\ bucket'[b] = Kept(c)
        /\ \A d \in Backends \ {b} : bucket'[d] = bucket[d]
        /\ Kept(c) \subseteq bucket[b]
    BY <1>5, KeptShape DEF Keep, TypeInv, TypeOK
  <2>2. Lost'
    BY <1>3, <2>1 DEF KeptInv, Lost, Forgotten
  <2>3. bucket'[Redis] \subseteq bucket[Redis]
    BY <1>1, <2>1
  <2>4. CASE UNCHANGED expires
    BY <2>2, <2>3, <2>4 DEF KeptInv, Expiry
  <2>5. CASE expires' = clock + Ttl
    <3>1. \A e \in bucket'[Redis] : e.time \in Nat /\ e.time <= clock
      BY <1>1, <1>2, <2>3 DEF TypeInv, TypeOK
    <3> QED
      BY <1>1, <2>2, <2>5, <3>1 DEF KeptInv, Expiry
  <2> QED
    BY <1>5, <2>4, <2>5 DEF Keep, KeepAlive
<1>6. CASE Reset
    BY <1>1, <1>6 DEF Reset, TypeInv, TypeOK, KeptInv, Lost, Expiry, Forgotten
<1>7. CASE Tick
  <2>1. clock' = clock + 1 /\ UNCHANGED <<bucket, log, expires>>
    BY <1>7 DEF Tick
  <2>2. ASSUME NEW b \in Backends, NEW e \in log[b] \ bucket[b]
        PROVE  e.time < Forgotten(b)'
    <3>1. e.time < Forgotten(b) /\ e.time \in Nat
      BY <1>2, <2>2 DEF KeptInv, Lost
    <3> QED
      BY <1>1, <2>1, <3>1 DEF Forgotten
  <2> QED
    BY <2>1, <2>2 DEF KeptInv, Lost, Expiry
<1>8. CASE UNCHANGED <<clock, bucket, log, expires>>
    BY <1>8 DEF KeptInv, Lost, Expiry, Forgotten
<1> QED
    BY <1>4, <1>5, <1>6, <1>7, <1>8, NextKinds DEF Proceed, Replace, vars

-----------------------------------------------------------------------------
(* The windows. An admission adds to a window only what fits, because every *)
(* entry of a window around it is still kept.                               *)

LEMMA WithinFinite ==
    ASSUME NEW S, IsFiniteSet(S), NEW first, NEW last
    PROVE  IsFiniteSet(Within(S, first, last)) /\ Cardinality(Within(S, first, last)) \in Nat
BY FS_Subset, FS_CardinalityType DEF Within

LEMMA WindowGrows ==
    ASSUME NEW S, IsFiniteSet(S), NEW K, IsFiniteSet(K), NEW e,
           NEW first, NEW last, NEW limit \in Nat,
           Cardinality(Within(S, first, last)) <= limit,
           first <= e.time /\ e.time <= last
               => Within(S, first, last) \subseteq K /\ Cardinality(K) < limit
    PROVE  Cardinality(Within(S \cup {e}, first, last)) <= limit
<1> DEFINE W == Within(S, first, last)
<1>1. IsFiniteSet(W) /\ Cardinality(W) \in Nat
    BY WithinFinite
<1>2. CASE first <= e.time /\ e.time <= last
  <2>1. Within(S \cup {e}, first, last) = W \cup {e}
    BY <1>2 DEF Within
  <2>2. Cardinality(W) <= Cardinality(K) /\ Cardinality(K) \in Nat
    BY <1>2, FS_Subset, FS_CardinalityType
  <2>3. CASE e \in W
    <3>1. W \cup {e} = W
      BY <2>3
    <3> QED
      BY <2>1, <3>1
  <2>4. CASE e \notin W
    <3>1. Cardinality(K) < limit
      BY <1>2
    <3>2. Cardinality(W \cup {e}) = Cardinality(W) + 1
      <4> HIDE DEF W
      <4> QED
        BY <1>1, <2>4, FS_AddElement
    <3>3. Cardinality(W) + 1 <= limit
      <4> HIDE DEF W
      <4> QED
        BY ONLY <1>1, <2>2, <3>1, limit \in Nat
    <3> QED
      BY ONLY <2>1, <3>2, <3>3
  <2> QED
    BY <2>3, <2>4
<1>3. CASE ~(first <= e.time /\ e.time <= last)
  <2>1. Within(S \cup {e}, first, last) = W
    BY <1>3 DEF Within
  <2> QED
    BY <2>1
<1> QED
    BY <1>2, <1>3

LEMMA UsedKept ==
    ASSUME TypeInv, TimeInv, KeptInv, NEW c \in Calls, call[c].pc = "ready",
           NEW first \in Int, NEW length \in Nat,
           call[c].backend = Redis => length < Day,
           call[c].backend # Redis => length + MaxStall <= Day,
           first <= TimeOf(c), TimeOf(c) <= first + length
    PROVE  Within(log[call[c].backend], first, first + length) \subseteq Kept(c)
<1> DEFINE b == call[c].backend
<1> SUFFICES ASSUME NEW e \in log[b], first <= e.time
             PROVE  e \in Kept(c)
    BY DEF Within
<1>1. e.time \in Nat
    BY KeptShape DEF TypeInv, TypeOK, Entry
<1>2. /\ clock \in Nat /\ Day \in Nat /\ MaxStall \in Nat /\ TimeOf(c) \in Nat
      /\ clock <= TimeOf(c) + MaxStall
      /\ b = Redis => TimeOf(c) = clock
    BY KeptShape, TimeOfPrompt, QuotaAssumption DEF TypeInv, TypeOK
<1>3. e.time >= Forgotten(b)
    BY <1>1, <1>2 DEF Forgotten
<1> QED
    BY <1>3, KeptRecent

\* Between two steps that leave the limits alone, only admissions fill windows.
LEMMA LimitsKept ==
    ASSUME TypeInv, [Next]_vars
    PROVE  PerMinute' = PerMinute /\ PerDay' = PerDay
<1>1. load'.perMinute = load.perMinute /\ load'.perDay = load.perDay
  <2>1. CASE \E b \in Backends : Replace(b)
    BY <2>1 DEF Replace, Install, Load, TypeInv, TypeOK
  <2>2. CASE Reset
    BY <2>2 DEF Reset, Load, TypeInv, TypeOK
  <2> QED
    BY <2>1, <2>2, NextKinds DEF Admit, Keep, Proceed, Tick, vars
<1> QED
    BY <1>1 DEF PerMinute, PerDay

LEMMA LogKinds ==
    ASSUME TypeInv, [Next]_vars
    PROVE  \/ \E c \in Calls, reply \in Replies : Admit(c, reply)
           \/ \A b \in Backends : log'[b] = log[b] \/ log'[b] = {}
<1>1. CASE Reset
    BY <1>1 DEF Reset, TypeInv, TypeOK
<1> QED
    BY <1>1, NextKinds DEF Keep, Proceed, Replace, Tick, vars

LEMMA MinuteStep ==
    ASSUME TypeInv, TimeInv, KeptInv, MinuteWindowHolds, [Next]_vars
    PROVE  MinuteWindowHolds'
<1> SUFFICES ASSUME NEW b \in Backends, NEW first \in 0 .. MaxClock
             PROVE  Cardinality(Within(log'[b], first, first + Minute)) <= PerMinute
    BY LimitsKept DEF MinuteWindowHolds, Within
<1>1. /\ Cardinality(Within(log[b], first, first + Minute)) <= PerMinute
      /\ IsFiniteSet(log[b]) /\ PerMinute \in Nat
      /\ Minute \in Nat /\ MaxClock \in Nat /\ first \in Nat
    BY Limits, QuotaAssumption DEF MinuteWindowHolds, TypeInv, FiniteLogs
<1>2. ASSUME NEW c \in Calls, NEW reply \in Replies, Admit(c, reply)
      PROVE  Cardinality(Within(log'[b], first, first + Minute)) <= PerMinute
  <2>1. call[c].pc = "ready" /\ Cardinality(MinuteUsed(c)) < PerMinute
    <3>1. IsFiniteSet(MinuteUsed(c)) /\ call[c].pc = "ready"
      BY <1>2, AdmitShape, KeptShape, FS_Subset DEF MinuteUsed
    <3>2. Cardinality(MinuteUsed(c)) \in Nat
      BY <3>1, FS_CardinalityType
    <3> QED
      BY <1>1, <1>2, <3>1, <3>2 DEF Admit, MinuteSpent
  <2>2. CASE b = call[c].backend
    <3>1. ASSUME first <= TimeOf(c), TimeOf(c) <= first + Minute
          PROVE  Within(log[b], first, first + Minute) \subseteq MinuteUsed(c)
      <4>1. Within(log[b], first, first + Minute) \subseteq Kept(c)
        BY <1>1, <2>1, <2>2, <3>1, UsedKept, QuotaAssumption
      <4>2. \A e \in log[b] : e.time \in Nat
        BY DEF TypeInv, TypeOK, Entry
      <4>3. TimeOf(c) \in Nat
        BY <2>1, KeptShape
      <4> QED
        BY <1>1, <3>1, <4>1, <4>2, <4>3 DEF MinuteUsed, Within
    <3>2. IsFiniteSet(MinuteUsed(c))
      BY <2>1, KeptShape, FS_Subset DEF MinuteUsed
    <3>3. log'[b] = log[b] \cup {Added(c)} /\ Added(c).time = TimeOf(c)
      BY <1>2, <2>2, AdmitShape DEF Added
    <3> QED
      BY <1>1, <2>1, <3>1, <3>2, <3>3, WindowGrows
  <2>3. CASE b # call[c].backend
    BY <1>1, <1>2, <2>3, AdmitShape
  <2> QED
    BY <2>2, <2>3
<1>3. CASE log'[b] \subseteq log[b]
  <2>1. Within(log'[b], first, first + Minute) \subseteq Within(log[b], first, first + Minute)
    BY <1>3 DEF Within
  <2>2. IsFiniteSet(Within(log[b], first, first + Minute))
    BY <1>1, WithinFinite
  <2>3. /\ Cardinality(Within(log'[b], first, first + Minute))
                <= Cardinality(Within(log[b], first, first + Minute))
        /\ Cardinality(Within(log'[b], first, first + Minute)) \in Nat
        /\ Cardinality(Within(log[b], first, first + Minute)) \in Nat
    BY <2>1, <2>2, FS_Subset, FS_CardinalityType
  <2> QED
    BY <1>1, <2>3
<1> QED
    BY <1>2, <1>3, LogKinds

LEMMA DayStep ==
    ASSUME TypeInv, TimeInv, KeptInv, DayWindowHolds, [Next]_vars
    PROVE  DayWindowHolds'
<1> SUFFICES ASSUME NEW b \in Backends, NEW first \in 0 .. MaxClock
             PROVE  Cardinality(Within(log'[b], first, first + Reach(b))) <= PerDay
    BY LimitsKept DEF DayWindowHolds, Within, Reach
<1>1. /\ Cardinality(Within(log[b], first, first + Reach(b))) <= PerDay
      /\ IsFiniteSet(log[b]) /\ PerDay \in Nat
      /\ MaxClock \in Nat /\ first \in Nat
    BY Limits, QuotaAssumption DEF DayWindowHolds, TypeInv, FiniteLogs
<1>2. ASSUME NEW c \in Calls, NEW reply \in Replies, Admit(c, reply)
      PROVE  Cardinality(Within(log'[b], first, first + Reach(b))) <= PerDay
  <2>1. /\ call[c].pc = "ready" /\ IsFiniteSet(Kept(c))
        /\ Cardinality(Kept(c)) < PerDay
    <3>1. IsFiniteSet(Kept(c)) /\ call[c].pc = "ready"
      BY <1>2, AdmitShape, KeptShape
    <3>2. Cardinality(Kept(c)) \in Nat
      BY <3>1, FS_CardinalityType
    <3> QED
      BY <1>1, <1>2, <3>1, <3>2 DEF Admit, DaySpent
  <2>2. CASE b = call[c].backend
    <3>1. ASSUME first <= TimeOf(c), TimeOf(c) <= first + Reach(b)
          PROVE  Within(log[b], first, first + Reach(b)) \subseteq Kept(c)
      <4>1. /\ Reach(b) \in Nat /\ first \in Int
            /\ b = Redis => Reach(b) < Day
            /\ b # Redis => Reach(b) + MaxStall <= Day
        BY <1>1, QuotaAssumption DEF Reach
      <4> QED
        BY <2>1, <2>2, <3>1, <4>1, UsedKept
    <3>2. log'[b] = log[b] \cup {Added(c)} /\ Added(c).time = TimeOf(c)
      BY <1>2, <2>2, AdmitShape DEF Added
    <3> QED
      BY <1>1, <2>1, <3>1, <3>2, WindowGrows
  <2>3. CASE b # call[c].backend
    BY <1>1, <1>2, <2>3, AdmitShape
  <2> QED
    BY <2>2, <2>3
<1>3. CASE log'[b] \subseteq log[b]
  <2> DEFINE now == Within(log[b], first, first + Reach(b))
             next == Within(log'[b], first, first + Reach(b))
  <2>1. next \subseteq now
    BY <1>3 DEF Within
  <2>2. IsFiniteSet(now)
    BY <1>1, WithinFinite
  <2>3. Cardinality(next) <= Cardinality(now) /\ Cardinality(next) \in Nat
        /\ Cardinality(now) \in Nat
    BY <2>1, <2>2, FS_Subset, FS_CardinalityType
  <2> QED
    BY <1>1, <2>3
<1> QED
    BY <1>2, <1>3, LogKinds
-----------------------------------------------------------------------------
(* The order of a bucket is that of its admissions, and differs from that   *)
(* of the times by no more than a delay.                                    *)

Ranked == \A b \in Backends : \A e \in log[b] : e.rank <= Cardinality(log[b])
Ordered ==
    \A b \in Backends : \A e, f \in log[b] : f.rank <= e.rank => f.time <= e.time + MaxStall

OrderInv == Ranked /\ Ordered

LEMMA OrderStep ==
    ASSUME TypeInv, TimeInv, OrderInv, [Next]_vars
    PROVE  OrderInv'
<1>1. ASSUME NEW c \in Calls, NEW reply \in Replies, Admit(c, reply)
      PROVE  OrderInv'
  <2> DEFINE b == call[c].backend
             a == Added(c)
             n == Cardinality(log[b])
  <2>1. /\ call[c].pc = "ready" /\ b \in Backends /\ IsFiniteSet(log[b]) /\ n \in Nat
        /\ log'[b] = log[b] \cup {a}
        /\ \A d \in Backends \ {b} : log'[d] = log[d]
        /\ a.rank = n + 1 /\ a.time = TimeOf(c)
    BY <1>1, AdmitShape, KeptShape DEF Added
  <2>2. \A e \in log[b] : e.rank \in Nat /\ e.time \in Nat /\ e.rank <= n /\ e.time <= clock
    BY <2>1 DEF OrderInv, Ranked, TimeInv, LogPast, TypeInv, TypeOK, Entry
  <2>3. a \notin log[b]
    <3> HIDE DEF a, n
    <3> QED
      BY <2>1, <2>2
  <2>4. Cardinality(log'[b]) = n + 1
    <3>1. \A S, x : IsFiniteSet(S) /\ x \notin S => Cardinality(S \cup {x}) = Cardinality(S) + 1
      BY FS_AddElement
    <3>2. Cardinality(log[b] \cup {a}) = n + 1
      BY <2>1, <2>3, <3>1
    <3> QED
      BY ONLY <2>1, <3>2
  <2>5. Ranked'
    <3> SUFFICES ASSUME NEW d \in Backends, NEW e \in log'[d]
                 PROVE  e.rank <= Cardinality(log'[d])
      BY DEF Ranked
    <3>1. CASE d = b
      <4>1. e \in log[b] \/ e = a
        BY <2>1, <3>1
      <4>2. e.rank <= n + 1
        <5> HIDE DEF a, n
        <5> QED
          BY <2>1, <2>2, <4>1
      <4>3. Cardinality(log'[d]) = n + 1
        BY ONLY <2>4, <3>1
      <4> QED
        BY ONLY <4>2, <4>3
    <3>2. CASE d # b
      BY <2>1, <3>2 DEF OrderInv, Ranked
    <3> QED
      BY <3>1, <3>2
  <2>6. Ordered'
    <3> SUFFICES ASSUME NEW d \in Backends, NEW e \in log'[d], NEW f \in log'[d],
                        f.rank <= e.rank
                 PROVE  f.time <= e.time + MaxStall
      BY DEF Ordered
    <3>1. CASE d = b
      <4>1. (e \in log[b] \/ e = a) /\ (f \in log[b] \/ f = a)
        BY <2>1, <3>1
      <4>2. /\ clock \in Nat /\ MaxStall \in Nat /\ a.time \in Nat
            /\ a.time <= clock /\ clock <= a.time + MaxStall
        BY <2>1, TimeOfPrompt, KeptShape, QuotaAssumption DEF TypeInv, TypeOK
      <4>3. CASE e \in log[b] /\ f \in log[b]
        BY <2>1, <4>3 DEF OrderInv, Ordered
      <4>4. CASE e = a
        <5> HIDE DEF a, n
        <5> QED
          BY <2>1, <2>2, <4>1, <4>2, <4>4
      <4>5. CASE f = a /\ e \in log[b]
        <5> HIDE DEF a, n
        <5> QED
          BY <2>1, <2>2, <4>5
      <4> QED
        BY <4>1, <4>3, <4>4, <4>5
    <3>2. CASE d # b
      BY <2>1, <3>2 DEF OrderInv, Ordered
    <3> QED
      BY <3>1, <3>2
  <2> QED
    BY <2>5, <2>6 DEF OrderInv
<1>2. CASE \A b \in Backends : log'[b] = log[b] \/ log'[b] = {}
  <2>1. Ranked'
    BY <1>2 DEF OrderInv, Ranked
  <2>2. Ordered'
    BY <1>2 DEF OrderInv, Ordered
  <2> QED
    BY <2>1, <2>2 DEF OrderInv
<1> QED
  BY <1>1, <1>2, LogKinds

\* Whoever turns from ready to a refusal was refused by its backend.
LEMMA RefusedBy ==
    ASSUME TypeInv, [Next]_vars, NEW c \in Calls, call[c].pc = "ready",
           call'[c].pc \in {"minute", "day"}
    PROVE  /\ MinuteSpent(c) \/ DaySpent(c)
           /\ call'[c].pc = IF MinuteSpent(c) THEN "minute" ELSE "day"
<1>1. call \in [Calls -> Held \cup [pc : {"idle", "admitted", "minute", "day"}]]
    BY DEF TypeInv, TypeOK
<1>2. ASSUME NEW d \in Calls,
             \/ \E kind \in {"consume", "status"} : TakeTime(d, kind)
             \/ ReadBackend(d)
             \/ Answer(d)
             \/ LoseReply(d)
             \/ Inspect(d)
      PROVE  call'[c].pc \notin {"minute", "day"}
    BY <1>1, <1>2 DEF TakeTime, ReadBackend, Answer, LoseReply, Inspect, Admit, Refuse, Idle
<1>3. ASSUME NEW d \in Calls, Consume(d)
      PROVE  /\ d = c
             /\ Refuse(c, [pc |-> IF MinuteSpent(c) THEN "minute" ELSE "day"])
    BY <1>1, <1>3 DEF Consume, Admit, Refuse
<1>4. ASSUME NEW b \in Backends, Reconfigure(b) \/ Restart(b)
      PROVE  call'[c].pc \notin {"minute", "day"}
    BY <1>1, <1>4 DEF Reconfigure, Restart, Idle
<1>5. ASSUME Reset \/ Tick \/ UNCHANGED vars
      PROVE  call'[c].pc \notin {"minute", "day"}
    BY <1>5 DEF Reset, Tick, vars
<1>6. PICK d \in Calls : Consume(d)
    BY <1>2, <1>4, <1>5 DEF Next
<1>7. Refuse(c, [pc |-> IF MinuteSpent(c) THEN "minute" ELSE "day"])
    BY <1>3, <1>6
<1> QED
    BY <1>1, <1>7 DEF Refuse

LEMMA RefusalStep ==
    ASSUME TypeInv, TimeInv, OrderInv, [Next]_vars, NEW c \in Calls, call[c].pc = "ready"
    PROVE  LET b == call[c].backend
               now == TimeOf(c)
           IN  /\ call'[c].pc = "minute"
                    => Cardinality(Within(log[b], now - Minute, clock)) >= PerMinute
               /\ call'[c].pc = "day"
                    => Cardinality(Within(log[b], now - Day - MaxStall, clock)) >= PerDay
<1> DEFINE b == call[c].backend
           now == TimeOf(c)
<1>1. /\ b \in Backends /\ IsFiniteSet(log[b]) /\ Kept(c) \subseteq log[b]
      /\ now \in Nat
      /\ \A e \in log[b] : e.time \in Nat /\ e.rank \in Nat /\ e.time <= clock
      /\ Minute \in Nat /\ Day \in Nat /\ MaxStall \in Nat /\ clock \in Nat
      /\ PerMinute \in Nat /\ PerDay \in Nat
    BY KeptShape, Limits, QuotaAssumption DEF TypeInv, TypeOK, TimeInv, LogPast, Entry
<1>2. ASSUME NEW W, NEW K, IsFiniteSet(W), K \subseteq W, NEW limit \in Nat,
             Cardinality(K) >= limit
      PROVE  Cardinality(W) >= limit
  <2>1. /\ Cardinality(K) <= Cardinality(W)
        /\ Cardinality(K) \in Nat /\ Cardinality(W) \in Nat
    BY <1>2, FS_Subset, FS_CardinalityType
  <2> QED
    BY <1>2, <2>1
<1>3. ASSUME call'[c].pc = "minute"
      PROVE  Cardinality(Within(log[b], now - Minute, clock)) >= PerMinute
  <2>1. Cardinality(MinuteUsed(c)) >= PerMinute
    BY <1>3, RefusedBy DEF MinuteSpent
  <2>2. MinuteUsed(c) \subseteq Within(log[b], now - Minute, clock)
    BY <1>1 DEF MinuteUsed, Within
  <2>3. IsFiniteSet(Within(log[b], now - Minute, clock))
    BY <1>1, WithinFinite
  <2> QED
    BY <1>1, <1>2, <2>1, <2>2, <2>3
<1>4. ASSUME call'[c].pc = "day"
      PROVE  Cardinality(Within(log[b], now - Day - MaxStall, clock)) >= PerDay
  <2>1. Cardinality(Kept(c)) >= PerDay
    BY <1>4, RefusedBy DEF DaySpent
  <2>2. ASSUME NEW e \in Kept(c)
        PROVE  now - Day - MaxStall <= e.time
    <3>1. CASE b = Redis
      <4>1. e.time > now - Day
        BY <1>1, <3>1 DEF Kept, Pruned
      <4> QED
        BY <1>1, <4>1
    <3>2. CASE b # Redis
      <4>1. PICK f \in bucket[b] : f.rank <= e.rank /\ f.time >= now - Day
        BY <3>2 DEF Kept, Trimmed
      <4>2. f \in log[b]
        BY <1>1 DEF TypeInv, TypeOK
      <4>3. f.time <= e.time + MaxStall
        BY <1>1, <4>1, <4>2 DEF OrderInv, Ordered
      <4> QED
        BY <1>1, <4>1, <4>2, <4>3
    <3> QED
      BY <3>1, <3>2
  <2>3. Kept(c) \subseteq Within(log[b], now - Day - MaxStall, clock)
    BY <1>1, <2>2 DEF Within
  <2>4. IsFiniteSet(Within(log[b], now - Day - MaxStall, clock))
    BY <1>1, WithinFinite
  <2> QED
    BY <1>1, <1>2, <2>1, <2>3, <2>4
<1> QED
    BY <1>3, <1>4

-----------------------------------------------------------------------------
(* Replacements. What a backend that is no longer current holds, or will be *)
(* given by a call that still holds it, is not later than a replacement.    *)

Delay(b) == IF b = Redis THEN MaxStall ELSE 0

Retired ==
    \A b \in Backends \ {current} :
        /\ \A c \in Calls :
            call[c].pc = "ready" /\ call[c].backend = b => \E s \in swaps : call[c].now <= s
        /\ \A e \in log[b] : \E s \in swaps : e.time - Delay(b) <= s

LEMMA RetiredStep ==
    ASSUME TypeInv, TimeInv, Retired, [Next]_vars
    PROVE  Retired'
<1> USE QuotaAssumption
<1>1. ASSUME NEW c \in Calls, NEW reply \in Replies, call' = [call EXCEPT ![c] = reply],
             UNCHANGED <<current, swaps>>, NEW b \in Backends \ {current}, NEW d \in Calls,
             call'[d].pc = "ready", call'[d].backend = b
      PROVE  \E s \in swaps : call'[d].now <= s
  <2>1. reply.pc # "ready"
    BY ReplyShape
  <2>2. call'[d] = call[d]
    BY <1>1, <2>1 DEF TypeInv, TypeOK
  <2> QED
    BY <1>1, <2>2 DEF Retired
<1>2. ASSUME NEW c \in Calls, NEW reply \in Replies, Admit(c, reply)
      PROVE  Retired'
  <2> DEFINE a == call[c].backend
  <2>1. UNCHANGED <<current, swaps>> /\ call' = [call EXCEPT ![c] = reply]
    BY <1>2 DEF Admit
  <2>2. ASSUME NEW b \in Backends \ {current}, NEW e \in log'[b]
        PROVE  \E s \in swaps : e.time - Delay(b) <= s
    <3>1. CASE e \in log[b]
      BY <2>2, <3>1 DEF Retired
    <3>2. CASE b = a /\ e = Added(c)
      <4>1. call[c].pc = "ready"
        BY <1>2, AdmitShape
      <4>2. PICK s \in swaps : call[c].now <= s
        BY <2>2, <3>2, <4>1 DEF Retired
      <4>3. /\ s \in Nat /\ call[c].now \in Nat /\ clock \in Nat /\ MaxStall \in Nat
            /\ clock <= call[c].now + MaxStall
            /\ e.time = TimeOf(c)
        BY <3>2, <4>1, KeptShape DEF TypeInv, TypeOK, TimeInv, Prompt, Waiting, Added
      <4>4. CASE b = Redis
        BY <3>2, <4>2, <4>3, <4>4 DEF TimeOf, Delay
      <4>5. CASE b # Redis
        BY <3>2, <4>2, <4>3, <4>5 DEF TimeOf, Delay
      <4> QED
        BY <4>4, <4>5
    <3> QED
      BY <1>2, <2>2, <3>1, <3>2, AdmitShape
  <2> QED
    BY <1>1, <2>1, <2>2 DEF Retired, Delay
<1>3. ASSUME NEW c \in Calls, NEW reply \in Replies, Keep(c, reply)
      PROVE  Retired'
    BY <1>1, <1>3 DEF Keep, Retired, Delay
<1>4. ASSUME NEW c \in Calls, NEW record \in ReadyCall \cup TimedCall \cup Replies,
             Proceed(c, record)
      PROVE  Retired'
  <2>1. UNCHANGED <<current, swaps, log>> /\ call' = [call EXCEPT ![c] = record]
    BY <1>4 DEF Proceed
  <2>2. ASSUME NEW b \in Backends \ {current}, NEW d \in Calls,
               call'[d].pc = "ready", call'[d].backend = b
        PROVE  \E s \in swaps : call'[d].now <= s
    <3>1. call'[d] = call[d]
      BY <1>4, <2>1, <2>2 DEF Proceed, TypeInv, TypeOK
    <3> QED
      BY <2>2, <3>1 DEF Retired
  <2> QED
    BY <2>1, <2>2 DEF Retired, Delay
<1>5. ASSUME NEW b \in Backends, Replace(b)
      PROVE  Retired'
  <2>1. clock \in swaps' /\ log' = log /\ (call' = call \/ call' = [c \in Calls |-> Idle])
    BY <1>5 DEF Replace, Install
  <2>2. ASSUME NEW c \in Calls, call'[c].pc = "ready"
        PROVE  call'[c].now <= clock
    BY <2>1, <2>2 DEF Idle, TimeInv, Prompt, Waiting
  <2>3. ASSUME NEW d \in Backends, NEW e \in log[d]
        PROVE  e.time - Delay(d) <= clock
    <3>1. e.time \in Nat /\ clock \in Nat /\ MaxStall \in Nat /\ e.time <= clock
      BY <2>3 DEF TypeInv, TypeOK, Entry, TimeInv, LogPast
    <3> QED
      BY <3>1 DEF Delay
  <2> QED
    BY <2>1, <2>2, <2>3 DEF Retired, Delay
<1>6. CASE Reset
    BY <1>6 DEF Reset, Retired, Delay, TypeInv, TypeOK
<1>7. CASE Tick \/ UNCHANGED vars
    BY <1>7 DEF Tick, vars, Retired, Delay
<1> QED
    BY <1>2, <1>3, <1>4, <1>5, <1>6, <1>7, NextKinds

LEMMA OverrunStep ==
    ASSUME TypeInv, TimeInv, Retired, OverrunNeedsSwap, [Next]_vars
    PROVE  OverrunNeedsSwap'
<1> DEFINE before(b1, b2) == IF Redis \in {b1, b2} THEN MaxStall ELSE 0
           Swapped(S, b1, b2, e1, e2) ==
               \E s \in S : e1.time - before(b1, b2) <= s /\ s <= e2.time + MaxStall
<1>1. /\ \A b1, b2 \in Backends : b1 # b2 =>
             \A e1 \in log[b1], e2 \in log[b2] :
                 e1.time <= e2.time /\ e2.time <= e1.time + Minute
                     => Swapped(swaps, b1, b2, e1, e2)
      /\ swaps \subseteq swaps'
  <2>1. swaps \subseteq swaps'
    BY NextKinds DEF Admit, Keep, Proceed, Replace, Install, Reset, Tick, vars
  <2> QED
    BY <2>1 DEF OverrunNeedsSwap
<1>2. TypeInv' /\ TimeInv' /\ Retired'
    BY TypeStep, TimeStep, RetiredStep
<1> SUFFICES ASSUME NEW b1 \in Backends, NEW b2 \in Backends, b1 # b2,
                    NEW e1 \in log'[b1], NEW e2 \in log'[b2],
                    e1.time <= e2.time, e2.time <= e1.time + Minute
             PROVE  Swapped(swaps', b1, b2, e1, e2)
    BY DEF OverrunNeedsSwap
<1>3. CASE e1 \in log[b1] /\ e2 \in log[b2]
    BY <1>1, <1>3
<1>4. CASE e1 \notin log[b1] \/ e2 \notin log[b2]
  <2>1. PICK c \in Calls, reply \in Replies : Admit(c, reply)
    BY <1>4, LogKinds
  <2>2. call[c].pc = "ready" /\ clock' = clock
    BY <2>1, AdmitShape DEF Admit
  <2>3. /\ e1.time \in Nat /\ e2.time \in Nat /\ clock \in Nat /\ MaxStall \in Nat
        /\ swaps' \subseteq Nat
        /\ \A s \in swaps' : s <= clock
    BY <1>2, <2>2, QuotaAssumption DEF TypeInv, TypeOK, Entry, TimeInv, SwapsPast
  <2>4. clock <= e2.time + MaxStall
    <3>1. Added(c) \in {e1, e2}
      BY <1>4, <2>1, AdmitShape
    <3>2. clock <= Added(c).time + MaxStall
      BY <2>2, TimeOfPrompt DEF Added
    <3> QED
      BY <2>3, <3>1, <3>2
  <2>5. \E s \in swaps' : e1.time - before(b1, b2) <= s
    <3>1. CASE b1 # current'
      <4>1. PICK s \in swaps' : e1.time - Delay(b1) <= s
        BY <1>2, <3>1 DEF Retired, Delay
      <4> QED
        BY <2>3, <4>1 DEF Delay
    <3>2. CASE b2 # current'
      <4>1. PICK s \in swaps' : e2.time - Delay(b2) <= s
        BY <1>2, <3>2 DEF Retired, Delay
      <4> QED
        BY <2>3, <4>1 DEF Delay
    <3> QED
      BY <3>1, <3>2
  <2> QED
    BY <2>3, <2>4, <2>5
<1> QED
    BY <1>3, <1>4

-----------------------------------------------------------------------------
(* The theorems.                                                            *)

QuotaInv ==
    /\ TypeInv
    /\ TimeInv
    /\ KeptInv
    /\ OrderInv
    /\ Retired
    /\ MinuteWindowHolds
    /\ DayWindowHolds
    /\ OverrunNeedsSwap

LEMMA QuotaInit == Init => QuotaInv
<1> SUFFICES ASSUME Init PROVE QuotaInv
    OBVIOUS
<1>1. TypeInv
    BY TypeInit
<1>2. /\ \A b \in Backends : log[b] = {} /\ bucket[b] = {}
      /\ \A c \in Calls : call[c].pc = "idle"
      /\ swaps = {}
      /\ Redis \in Backends
    BY DEF Init, Idle, Backends
<1>3. TimeInv /\ KeptInv /\ OrderInv /\ Retired /\ OverrunNeedsSwap
    BY <1>2 DEF TimeInv, Prompt, Waiting, LogPast, SwapsPast, KeptInv, Lost, Expiry,
                OrderInv, Ranked, Ordered, Retired, OverrunNeedsSwap
<1>4. ASSUME NEW b \in Backends, NEW first, NEW last, NEW limit \in Nat
      PROVE  Cardinality(Within(log[b], first, last)) <= limit
  <2>1. Within(log[b], first, last) = {}
    BY <1>2 DEF Within
  <2> QED
    BY <2>1, FS_EmptySet
<1>5. PerMinute \in Nat /\ PerDay \in Nat
    BY <1>1, Limits DEF TypeInv
<1> QED
    BY <1>1, <1>3, <1>4, <1>5 DEF QuotaInv, MinuteWindowHolds, DayWindowHolds

LEMMA QuotaStep == QuotaInv /\ [Next]_vars => QuotaInv'
BY TypeStep, TimeStep, KeptStep, OrderStep, RetiredStep, MinuteStep, DayStep, OverrunStep
   DEF QuotaInv

LEMMA QuotaInvariant == Spec => []QuotaInv
BY QuotaInit, QuotaStep, PTL DEF Spec

\* Requests, buckets and backends keep their types (quotas.py).
THEOREM WellTyped == Spec => []TypeOK
<1>1. QuotaInv => TypeOK
    BY DEF QuotaInv, TypeInv
<1> QED
    BY <1>1, QuotaInvariant, PTL

\* No backend admits more than the minute's limit in any minute (consume).
THEOREM MinuteHolds == Spec => []MinuteWindowHolds
<1>1. QuotaInv => MinuteWindowHolds
    BY DEF QuotaInv
<1> QED
    BY <1>1, QuotaInvariant, PTL

\* No backend admits more than the day's limit: Redis in any day, the deque in
\* any day less the longest delay (consume, _trim).
THEOREM DayHolds == Spec => []DayWindowHolds
<1>1. QuotaInv => DayWindowHolds
    BY DEF QuotaInv
<1> QED
    BY <1>1, QuotaInvariant, PTL

\* Two backends count requests of one minute only around a replacement or a
\* restart (set_backend, configure_quota_backend).
THEOREM OverrunsNeedSwaps == Spec => []OverrunNeedsSwap
<1>1. QuotaInv => OverrunNeedsSwap
    BY DEF QuotaInv
<1> QED
    BY <1>1, QuotaInvariant, PTL

\* A request is refused only when its limit was used up (consume).
THEOREM RefusalsEarned == Spec => RefusalEarned
<1>1. QuotaInv /\ [Next]_vars =>
        [\A c \in Calls :
            LET b == call[c].backend
                now == TimeOf(c)
            IN  /\ call'[c].pc = "minute" /\ call[c].pc = "ready"
                    => Cardinality(Within(log[b], now - Minute, clock)) >= PerMinute
                /\ call'[c].pc = "day" /\ call[c].pc = "ready"
                    => Cardinality(Within(log[b], now - Day - MaxStall, clock)) >= PerDay]_vars
    BY RefusalStep DEF QuotaInv
<1> QED
    BY <1>1, QuotaInvariant, PTL DEF Spec, RefusalEarned

=============================================================================
