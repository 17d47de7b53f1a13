-------------------------- MODULE EvaluationProofs --------------------------
(***************************************************************************)
(* Theorems about Evaluation, for every number of handlers, every set of   *)
(* bundles and of verdicts, and every bound on the ledger.                 *)
(***************************************************************************)
EXTENDS Evaluation, FiniteSetTheorems, TLAPS

Row == [prev : 0 .. MaxEntries, payload : Payloads]

\* An append is underway exactly between the two store calls of the handlers.
HeadsHeld ==
    \A w \in Writers : head[w] # NoHead <=> call[w].pc \in {"decided", "signing"}

\* The head an append read is a row, or GENESIS; and there is room for its row.
RoomLeft ==
    /\ \A w \in Writers : head[w] # NoHead => head[w] <= Len(entries)
    /\ Len(entries) + Cardinality(Appending) <= MaxEntries

TypeInv == TypeOK /\ HeadsHeld /\ RoomLeft

LEMMA AppendingFinite ==
    ASSUME NEW S \in SUBSET Writers
    PROVE  IsFiniteSet(S) /\ Cardinality(S) \in Nat
BY LedgerAssumption, FS_Subset, FS_CardinalityType

LEMMA TypeInit == Init => TypeInv
<1> SUFFICES ASSUME Init PROVE TypeInv
    OBVIOUS
<1>1. TypeOK
  <2>1. entries \in Seq([prev : 0 .. MaxEntries, payload : Payloads])
    BY DEF Init, LedgerInit
  <2>2. LedgerTypeOK(Payloads)
    BY <2>1 DEF Init, LedgerInit, LedgerTypeOK
  <2>3. changes \in 0 .. MaxChanges
    BY EvaluationAssumption DEF Init
  <2> QED
    BY <2>2, <2>3 DEF Init, TypeOK, Signatures
<1> USE LedgerAssumption, EvaluationAssumption DEF Init, LedgerInit
<1>2. HeadsHeld
    BY DEF HeadsHeld, Idle
<1>3. Appending = {}
    BY DEF Appending
<1>4. RoomLeft
    BY <1>3, FS_EmptySet DEF RoomLeft
<1> QED
    BY <1>1, <1>2, <1>4 DEF TypeInv

\* ledger.append, first half: the handler goes on to a step that holds a head.
LEMMA ReadHeadStep ==
    ASSUME TypeInv, NEW w \in Writers, head[w] = NoHead, ReadHead(w)
    PROVE  /\ LedgerTypeOK(Payloads)'
           /\ RoomLeft'
           /\ head'[w] = Len(entries) /\ head'[w] # NoHead
           /\ \A v \in Writers \ {w} : head'[v] = head[v]
<1> USE LedgerAssumption DEF TypeInv, TypeOK, LedgerTypeOK, ReadHead
<1>1. Cardinality(Appending) \in Nat /\ IsFiniteSet(Appending)
    BY AppendingFinite DEF Appending
<1>2. Len(entries) \in Nat
    OBVIOUS
<1>3. Len(entries) <= MaxEntries
    BY <1>1, <1>2
<1>4. /\ head'[w] = Len(entries) /\ head'[w] # NoHead
      /\ \A v \in Writers \ {w} : head'[v] = head[v]
    BY <1>2 DEF NoHead
<1>5. Appending' = Appending \cup {w} /\ w \notin Appending
    BY <1>4 DEF Appending
<1>6. Cardinality(Appending') = Cardinality(Appending) + 1
    BY <1>1, <1>5, FS_AddElement
<1>7. RoomLeft'
    BY <1>1, <1>2, <1>4, <1>6 DEF RoomLeft
<1> QED
    BY <1>3, <1>4, <1>7

\* ledger.append, second half.
LEMMA InsertRowStep ==
    ASSUME TypeInv, NEW w \in Writers, head[w] # NoHead,
           NEW payload \in Payloads, InsertRow(w, payload)
    PROVE  /\ LedgerTypeOK(Payloads)'
           /\ RoomLeft'
           /\ head'[w] = NoHead
           /\ \A v \in Writers \ {w} : head'[v] = head[v]
           /\ Len(entries) + 1 \in Ids
           /\ Len(entries') = Len(entries) + 1
           /\ entries'[Len(entries) + 1] = [prev |-> head[w], payload |-> payload]
           /\ \A i \in DOMAIN entries : entries'[i] = entries[i]
<1> USE LedgerAssumption DEF TypeInv, TypeOK, LedgerTypeOK, InsertRow
<1>1. Cardinality(Appending) \in Nat /\ IsFiniteSet(Appending)
    BY AppendingFinite DEF Appending
<1>2. Len(entries) \in Nat
    OBVIOUS
<1>3. head[w] \in 0 .. MaxEntries /\ w \in Appending
    BY DEF Appending
<1>4. /\ head'[w] = NoHead
      /\ \A v \in Writers \ {w} : head'[v] = head[v]
    OBVIOUS
<1>5. Appending' = Appending \ {w}
    BY <1>4 DEF Appending
<1>6. Cardinality(Appending') = Cardinality(Appending) - 1
    BY <1>1, <1>3, <1>5, FS_RemoveElement
<1>7. /\ Len(entries') = Len(entries) + 1
      /\ entries'[Len(entries) + 1] = [prev |-> head[w], payload |-> payload]
      /\ \A i \in DOMAIN entries : entries'[i] = entries[i]
    OBVIOUS
<1>8. Cardinality(Appending) >= 1
    BY <1>1, <1>6, AppendingFinite DEF Appending
<1>9. Len(entries) + 1 \in Ids
    BY <1>1, <1>2, <1>8 DEF RoomLeft, Ids
<1>10. RoomLeft'
    BY <1>1, <1>2, <1>4, <1>6, <1>7 DEF RoomLeft
<1>11. LedgerTypeOK(Payloads)'
    BY <1>3
<1> QED
    BY <1>4, <1>7, <1>9, <1>10, <1>11

\* What a handler at a step carries.
LEMMA CallShape ==
    ASSUME TypeInv, NEW w \in Writers
    PROVE  /\ call[w].pc \in {"loaded", "hashed", "described", "decided"}
              => call[w] \in EvaluationCall /\ call[w].row \in EvaluationRow
           /\ call[w].pc \in {"audited", "escalated"}
              => call[w] \in RecordingCall /\ call[w].audit \in Ids
           /\ call[w].pc \in {"resolved", "signing"}
              => /\ call[w] \in ResolutionCall /\ call[w].audit \in Ids
                 /\ call[w].resolution \in Resolutions
BY DEF TypeInv, TypeOK, EvaluationCall, RecordingCall, ResolutionCall, Idle

\* A torn call keeps its step and its shape.
LEMMA TornShape ==
    ASSUME NEW k \in EvaluationCall
    PROVE  LET m == [k EXCEPT !.row.torn = TRUE]
           IN  m \in EvaluationCall /\ m.pc = k.pc
<1> DEFINE r == [k.row EXCEPT !.torn = TRUE]
<1>1. k.row \in EvaluationRow
    BY DEF EvaluationCall
<1>2. r \in EvaluationRow
    BY <1>1 DEF EvaluationRow
<1>3. [k EXCEPT !.row.torn = TRUE] = [k EXCEPT !.row = r]
    BY DEF EvaluationCall
<1> HIDE DEF r
<1> QED
    BY <1>2, <1>3 DEF EvaluationCall

\* A step of one handler that leaves the ledger alone.
LEMMA LedgerAside ==
    ASSUME TypeInv, UNCHANGED ledgerVars
    PROVE  LedgerTypeOK(Payloads)' /\ RoomLeft'
BY DEF TypeInv, TypeOK, LedgerTypeOK, RoomLeft, Appending, ledgerVars

Calls == EvaluationCall \cup RecordingCall \cup ResolutionCall \cup {Idle}

LEMMA PolicyLoaded == TypeInv => LoadPolicy \in Policies
BY DEF TypeInv, TypeOK, LoadPolicy, Policies

\* A handler whose append died gives its room back.
LEMMA HeadsDropped ==
    ASSUME TypeInv, NEW D \in SUBSET Writers,
           head' = [w \in Writers |-> IF w \in D THEN NoHead ELSE head[w]],
           UNCHANGED <<entries, overlapped>>
    PROVE  LedgerTypeOK(Payloads)' /\ RoomLeft'
<1>1. Appending' \subseteq Appending
    BY DEF Appending
<1>2. Cardinality(Appending') <= Cardinality(Appending)
    BY <1>1, AppendingFinite, FS_Subset DEF Appending
<1>3. Cardinality(Appending) \in Nat /\ Cardinality(Appending') \in Nat
    BY AppendingFinite DEF Appending
<1>4. Len(entries) \in Nat /\ MaxEntries \in Nat
    BY LedgerAssumption DEF TypeInv, TypeOK, LedgerTypeOK
<1>5. RoomLeft'
    BY <1>2, <1>3, <1>4 DEF TypeInv, RoomLeft
<1>6. LedgerTypeOK(Payloads)'
    BY DEF TypeInv, TypeOK, LedgerTypeOK
<1> QED
    BY <1>5, <1>6

LEMMA TypeStep == TypeInv /\ [Next]_vars => TypeInv'
<1> SUFFICES ASSUME TypeInv, [Next]_vars PROVE TypeInv'
    OBVIOUS
<1> USE EvaluationAssumption DEF policyVars
<1>t. /\ signature \in [Bundles -> Signatures] /\ binding \in Bundles \cup {NoBundle}
      /\ changes \in 0 .. MaxChanges /\ call \in [Writers -> Calls]
      /\ approvals \in [Ids -> Resolutions \cup {"PENDING", NoApproval}]
      /\ incidents \subseteq Ids /\ answered \subseteq Ids /\ lost \subseteq Ids
      /\ HeadsHeld
    BY DEF TypeInv, TypeOK, Calls
<1> DEFINE Rest == /\ signature \in [Bundles -> Signatures]
                   /\ binding \in Bundles \cup {NoBundle}
                   /\ changes \in 0 .. MaxChanges
                   /\ approvals \in [Ids -> Resolutions \cup {"PENDING", NoApproval}]
                   /\ incidents \subseteq Ids
                   /\ answered \subseteq Ids
                   /\ lost \subseteq Ids
<1>u. ASSUME LedgerTypeOK(Payloads)', RoomLeft', call' \in [Writers -> Calls],
             HeadsHeld', Rest'
      PROVE  TypeInv'
    BY <1>u DEF TypeInv, TypeOK, Calls
<1>1. ASSUME NEW b \in Bundles, Publish(b)
      PROVE  TypeInv'
  <2>1. Rest'
    BY <1>1, <1>t DEF Publish, Signatures
  <2>2. LedgerTypeOK(Payloads)' /\ RoomLeft'
    BY <1>1, LedgerAside DEF Publish
  <2> QED
    BY <1>1, <1>t, <1>u, <2>1, <2>2 DEF Publish, HeadsHeld, ledgerVars
<1>2. ASSUME NEW b \in Bundles, Activate(b)
      PROVE  TypeInv'
  <2>1. Rest'
    BY <1>2, <1>t DEF Activate
  <2>2. LedgerTypeOK(Payloads)' /\ RoomLeft'
    BY <1>2, LedgerAside DEF Activate
  <2>3. ASSUME NEW w \in Writers
        PROVE  call'[w] \in Calls /\ call'[w].pc = call[w].pc
    <3>1. CASE call[w].pc \in {"loaded", "hashed"}
      <4>1. call[w] \in EvaluationCall
        BY <3>1, CallShape
      <4>2. call'[w] = [call[w] EXCEPT !.row.torn = TRUE]
        BY <1>2, <3>1 DEF Activate, Tear
      <4>3. call'[w] \in EvaluationCall /\ call'[w].pc = call[w].pc
        BY <4>1, <4>2, TornShape
      <4> QED
        BY <4>3 DEF Calls
    <3>2. CASE call[w].pc \notin {"loaded", "hashed"}
      BY <1>2, <1>t, <3>2 DEF Activate, Tear
    <3> QED
      BY <3>1, <3>2
  <2>4. call' \in [Writers -> Calls]
    BY <1>2, <2>3 DEF Activate, Tear
  <2>5. HeadsHeld'
    BY <1>2, <1>t, <2>3 DEF Activate, HeadsHeld, ledgerVars
  <2> QED
    BY <1>u, <2>1, <2>2, <2>4, <2>5
<1>3. CASE Redeploy
  <2>1. HalfResolved(Writers) \subseteq Ids
    BY CallShape DEF HalfResolved, At
  <2>2. Rest'
    BY <1>3, <1>t, <2>1 DEF Redeploy, Signatures
  <2>3. head' = [w \in Writers |-> IF w \in Writers THEN NoHead ELSE head[w]]
    BY <1>3 DEF Redeploy
  <2>4. LedgerTypeOK(Payloads)' /\ RoomLeft'
    BY <1>3, <2>3, HeadsDropped DEF Redeploy
  <2>5. call' \in [Writers -> Calls] /\ HeadsHeld'
    BY <1>3 DEF Redeploy, Calls, HeadsHeld, Idle
  <2> QED
    BY <1>u, <2>2, <2>4, <2>5
<1>4. ASSUME NEW w \in Writers, BeginEvaluation(w)
      PROVE  TypeInv'
  <2>1. Rest'
    BY <1>4, <1>t DEF BeginEvaluation
  <2>2. LedgerTypeOK(Payloads)' /\ RoomLeft'
    BY <1>4, LedgerAside DEF BeginEvaluation
  <2>3. LoadPolicy \in Policies
    BY PolicyLoaded
  <2>4. call'[w] \in EvaluationCall /\ call'[w].pc = "loaded"
    BY <1>4, <1>t, <2>3 DEF BeginEvaluation, EvaluationCall, EvaluationRow, Decisions
  <2>5. \A v \in Writers \ {w} : call'[v] = call[v]
    BY <1>4, <1>t DEF BeginEvaluation
  <2>6. call' \in [Writers -> Calls]
    BY <1>4, <1>t, <2>4 DEF BeginEvaluation, Calls
  <2>7. HeadsHeld'
    BY <1>4, <1>t, <2>4, <2>5 DEF BeginEvaluation, HeadsHeld, At, ledgerVars
  <2> QED
    BY <1>u, <2>1, <2>2, <2>6, <2>7
<1>5. ASSUME NEW w \in Writers, HashPolicy(w)
      PROVE  TypeInv'
  <2>1. Rest'
    BY <1>5, <1>t DEF HashPolicy
  <2>2. LedgerTypeOK(Payloads)' /\ RoomLeft'
    BY <1>5, LedgerAside DEF HashPolicy
  <2>3. LoadPolicy \in Policies /\ call[w] \in EvaluationCall
    BY <1>5, PolicyLoaded, CallShape DEF HashPolicy, At
  <2>4. call'[w] \in EvaluationCall /\ call'[w].pc = "hashed"
    BY <1>5, <1>t, <2>3 DEF HashPolicy, EvaluationCall, EvaluationRow
  <2>5. \A v \in Writers \ {w} : call'[v] = call[v]
    BY <1>5, <1>t DEF HashPolicy
  <2>6. call' \in [Writers -> Calls]
    BY <1>5, <1>t, <2>4 DEF HashPolicy, Calls
  <2>7. HeadsHeld'
    BY <1>5, <1>t, <2>4, <2>5 DEF HashPolicy, HeadsHeld, At, ledgerVars
  <2> QED
    BY <1>u, <2>1, <2>2, <2>6, <2>7
<1>6. ASSUME NEW w \in Writers, DescribeBinding(w)
      PROVE  TypeInv'
  <2>1. Rest'
    BY <1>6, <1>t DEF DescribeBinding
  <2>2. LedgerTypeOK(Payloads)' /\ RoomLeft'
    BY <1>6, LedgerAside DEF DescribeBinding
  <2>3. call[w] \in EvaluationCall
    BY <1>6, CallShape DEF DescribeBinding, At
  <2>4. call'[w] \in EvaluationCall /\ call'[w].pc = "described"
    BY <1>6, <1>t, <2>3 DEF DescribeBinding, EvaluationCall, EvaluationRow
  <2>5. \A v \in Writers \ {w} : call'[v] = call[v]
    BY <1>6, <1>t DEF DescribeBinding
  <2>6. call' \in [Writers -> Calls]
    BY <1>6, <1>t, <2>4 DEF DescribeBinding, Calls
  <2>7. HeadsHeld'
    BY <1>6, <1>t, <2>4, <2>5 DEF DescribeBinding, HeadsHeld, At, ledgerVars
  <2> QED
    BY <1>u, <2>1, <2>2, <2>6, <2>7
<1>7. ASSUME NEW w \in Writers, NEW verdict \in Verdicts, Decide(w, verdict)
      PROVE  TypeInv'
  <2>1. Rest'
    BY <1>7, <1>t DEF Decide
  <2>2. call[w] \in EvaluationCall /\ head[w] = NoHead
    BY <1>7, <1>t, CallShape DEF Decide, At, HeadsHeld
  <2>3. /\ LedgerTypeOK(Payloads)' /\ RoomLeft' /\ head'[w] # NoHead
        /\ \A v \in Writers \ {w} : head'[v] = head[v]
    BY <1>7, <2>2, ReadHeadStep DEF Decide
  <2>4. call'[w] \in EvaluationCall /\ call'[w].pc = "decided"
    BY <1>7, <1>t, <2>2 DEF Decide, EvaluationCall, EvaluationRow
  <2>5. \A v \in Writers \ {w} : call'[v] = call[v]
    BY <1>7, <1>t DEF Decide
  <2>6. call' \in [Writers -> Calls]
    BY <1>7, <1>t, <2>4 DEF Decide, Calls
  <2>7. HeadsHeld'
    BY <1>t, <2>3, <2>4, <2>5 DEF HeadsHeld
  <2> QED
    BY <1>u, <2>1, <2>3, <2>6, <2>7
<1>8. ASSUME NEW w \in Writers, RecordDecision(w)
      PROVE  TypeInv'
  <2>1. Rest'
    BY <1>8, <1>t DEF RecordDecision
  <2>2. call[w].row \in Payloads /\ head[w] # NoHead
    BY <1>8, <1>t, CallShape DEF RecordDecision, At, HeadsHeld, Payloads
  <2>3. /\ LedgerTypeOK(Payloads)' /\ RoomLeft' /\ head'[w] = NoHead
        /\ \A v \in Writers \ {w} : head'[v] = head[v]
        /\ Len(entries) + 1 \in Ids
    BY <1>8, <2>2, InsertRowStep DEF RecordDecision
  <2>4. call'[w] \in RecordingCall /\ call'[w].pc = "audited"
    BY <1>8, <1>t, <2>3 DEF RecordDecision, RecordingCall
  <2>5. \A v \in Writers \ {w} : call'[v] = call[v]
    BY <1>8, <1>t DEF RecordDecision
  <2>6. call' \in [Writers -> Calls]
    BY <1>8, <1>t, <2>4 DEF RecordDecision, Calls
  <2>7. HeadsHeld'
    BY <1>t, <2>3, <2>4, <2>5 DEF HeadsHeld
  <2> QED
    BY <1>u, <2>1, <2>3, <2>6, <2>7
<1>9. ASSUME NEW w \in Writers, CreateApproval(w)
      PROVE  TypeInv'
  <2>1. call[w] \in RecordingCall /\ call[w].audit \in Ids
    BY <1>9, CallShape DEF CreateApproval, At
  <2>2. Rest'
    BY <1>9, <1>t, <2>1 DEF CreateApproval
  <2>3. LedgerTypeOK(Payloads)' /\ RoomLeft'
    BY <1>9, LedgerAside DEF CreateApproval
  <2>4. call'[w] \in RecordingCall /\ call'[w].pc = "escalated"
    BY <1>9, <1>t, <2>1 DEF CreateApproval, Goto, RecordingCall
  <2>5. \A v \in Writers \ {w} : call'[v] = call[v]
    BY <1>9, <1>t DEF CreateApproval, Goto
  <2>6. call' \in [Writers -> Calls]
    BY <1>9, <1>t, <2>4 DEF CreateApproval, Goto, Calls
  <2>7. HeadsHeld'
    BY <1>9, <1>t, <2>4, <2>5 DEF CreateApproval, HeadsHeld, At, ledgerVars
  <2> QED
    BY <1>u, <2>2, <2>3, <2>6, <2>7
<1>10. ASSUME NEW w \in Writers, CreateIncident(w)
       PROVE  TypeInv'
  <2>1. call[w].audit \in Ids
    BY <1>10, CallShape DEF CreateIncident, At
  <2>2. Rest'
    BY <1>10, <1>t, <2>1 DEF CreateIncident
  <2>3. LedgerTypeOK(Payloads)' /\ RoomLeft'
    BY <1>10, LedgerAside DEF CreateIncident
  <2>4. call' \in [Writers -> Calls]
    BY <1>10, <1>t DEF CreateIncident, Finish, Calls
  <2>5. HeadsHeld'
    BY <1>10, <1>t DEF CreateIncident, Finish, HeadsHeld, At, ledgerVars, Idle
  <2> QED
    BY <1>u, <2>2, <2>3, <2>4, <2>5
<1>11. ASSUME NEW w \in Writers, NEW a \in Ids, NEW resolution \in Resolutions,
              Resolve(w, a, resolution)
       PROVE  TypeInv'
  <2>1. Rest'
    BY <1>11, <1>t DEF Resolve
  <2>2. LedgerTypeOK(Payloads)' /\ RoomLeft'
    BY <1>11, LedgerAside DEF Resolve
  <2>3. call'[w] \in ResolutionCall /\ call'[w].pc = "resolved"
    BY <1>11, <1>t DEF Resolve, ResolutionCall
  <2>4. \A v \in Writers \ {w} : call'[v] = call[v]
    BY <1>11, <1>t DEF Resolve
  <2>5. call' \in [Writers -> Calls]
    BY <1>11, <1>t, <2>3 DEF Resolve, Calls
  <2>6. HeadsHeld'
    BY <1>11, <1>t, <2>3, <2>4 DEF Resolve, HeadsHeld, At, ledgerVars
  <2> QED
    BY <1>u, <2>1, <2>2, <2>5, <2>6
<1>12. ASSUME NEW w \in Writers, BeginResolutionRow(w)
       PROVE  TypeInv'
  <2>1. Rest'
    BY <1>12, <1>t DEF BeginResolutionRow
  <2>2. call[w] \in ResolutionCall /\ head[w] = NoHead
    BY <1>12, <1>t, CallShape DEF BeginResolutionRow, At, HeadsHeld
  <2>3. /\ LedgerTypeOK(Payloads)' /\ RoomLeft' /\ head'[w] # NoHead
        /\ \A v \in Writers \ {w} : head'[v] = head[v]
    BY <1>12, <2>2, ReadHeadStep DEF BeginResolutionRow
  <2>4. call'[w] \in ResolutionCall /\ call'[w].pc = "signing"
    BY <1>12, <1>t, <2>2 DEF BeginResolutionRow, Goto, ResolutionCall
  <2>5. \A v \in Writers \ {w} : call'[v] = call[v]
    BY <1>12, <1>t DEF BeginResolutionRow, Goto
  <2>6. call' \in [Writers -> Calls]
    BY <1>12, <1>t, <2>4 DEF BeginResolutionRow, Goto, Calls
  <2>7. HeadsHeld'
    BY <1>t, <2>3, <2>4, <2>5 DEF HeadsHeld
  <2> QED
    BY <1>u, <2>1, <2>3, <2>6, <2>7
<1>13. ASSUME NEW w \in Writers, RecordResolution(w)
       PROVE  TypeInv'
  <2>1. Rest'
    BY <1>13, <1>t DEF RecordResolution
  <2>2. head[w] # NoHead /\ call[w].audit \in Ids /\ call[w].resolution \in Resolutions
    BY <1>13, <1>t, CallShape DEF RecordResolution, At, HeadsHeld
  <2> DEFINE row == [event |-> "HUMAN_APPROVAL", audit |-> call[w].audit,
                     resolution |-> call[w].resolution]
  <2>3. row \in Payloads
    BY <2>2 DEF Payloads, ApprovalRow
  <2> HIDE DEF row
  <2>4. InsertRow(w, row)
    BY <1>13 DEF RecordResolution, row
  <2>5. /\ LedgerTypeOK(Payloads)' /\ RoomLeft' /\ head'[w] = NoHead
        /\ \A v \in Writers \ {w} : head'[v] = head[v]
    BY <2>2, <2>3, <2>4, InsertRowStep
  <2>6. call' \in [Writers -> Calls]
    BY <1>13, <1>t DEF RecordResolution, Finish, Calls
  <2>7. HeadsHeld'
    BY <1>13, <1>t, <2>5 DEF RecordResolution, Finish, HeadsHeld, Idle
  <2> QED
    BY <1>u, <2>1, <2>5, <2>6, <2>7
<1>14. ASSUME NEW w \in Writers, Crash(w)
       PROVE  TypeInv'
  <2>1. HalfResolved({w}) \subseteq Ids
    BY CallShape DEF HalfResolved, At
  <2>2. Rest'
    BY <1>14, <1>t, <2>1 DEF Crash
  <2>3. head' = [v \in Writers |-> IF v \in {w} THEN NoHead ELSE head[v]]
    BY <1>14 DEF Crash, TypeInv, TypeOK, LedgerTypeOK
  <2>4. LedgerTypeOK(Payloads)' /\ RoomLeft'
    BY <1>14, <2>3, HeadsDropped DEF Crash
  <2>5. call' \in [Writers -> Calls]
    BY <1>14, <1>t DEF Crash, Finish, Calls
  <2>6. HeadsHeld'
    BY <1>14, <1>t, <2>3 DEF Crash, Finish, HeadsHeld, Idle
  <2> QED
    BY <1>u, <2>2, <2>4, <2>5, <2>6
<1>15. CASE UNCHANGED vars
  <2>1. LedgerTypeOK(Payloads)' /\ RoomLeft'
    BY <1>15, LedgerAside DEF vars
  <2> QED
    BY <1>15, <1>t, <1>u, <2>1 DEF vars, HeadsHeld, ledgerVars
<1> QED
    BY <1>1, <1>2, <1>3, <1>4, <1>5, <1>6, <1>7, <1>8, <1>9, <1>10, <1>11,
       <1>12, <1>13, <1>14, <1>15
    DEF Next

\* Every reachable state is well typed: rows, approvals and handlers hold what
\* the code puts there, and the ledger never outgrows its bound.
THEOREM WellTyped == Spec => []TypeOK
<1>1. TypeInv => TypeOK
    BY DEF TypeInv
<1> QED
    BY <1>1, TypeInit, TypeStep, PTL DEF Spec

-----------------------------------------------------------------------------
(* Rows stay where they are.                                               *)

LEMMA DecisionRecorded ==
    ASSUME TypeInv, NEW w \in Writers, RecordDecision(w)
    PROVE  /\ DOMAIN entries = 1 .. Len(entries) /\ Len(entries) \in Nat
           /\ DOMAIN entries' = 1 .. Len(entries) + 1
           /\ \A i \in DOMAIN entries : entries'[i] = entries[i]
           /\ entries'[Len(entries) + 1].prev = head[w]
           /\ entries'[Len(entries) + 1].payload = call[w].row
           /\ head[w] # NoHead /\ head'[w] = NoHead
           /\ \A v \in Writers \ {w} : head'[v] = head[v]
           /\ call[w].row \in EvaluationRow
           /\ Len(entries) + 1 \in Ids
           /\ call'[w] = [pc |-> "audited", audit |-> Len(entries) + 1]
           /\ \A v \in Writers \ {w} : call'[v] = call[v]
<1>1. call[w].row \in EvaluationRow /\ call[w].row \in Payloads /\ head[w] # NoHead
    BY CallShape DEF RecordDecision, At, TypeInv, HeadsHeld, Payloads
<1>2. /\ LedgerTypeOK(Payloads)' /\ head'[w] = NoHead
      /\ \A v \in Writers \ {w} : head'[v] = head[v]
      /\ Len(entries) + 1 \in Ids
      /\ Len(entries') = Len(entries) + 1
      /\ entries'[Len(entries) + 1] = [prev |-> head[w], payload |-> call[w].row]
      /\ \A i \in DOMAIN entries : entries'[i] = entries[i]
    BY <1>1, InsertRowStep DEF RecordDecision
<1>3. DOMAIN entries = 1 .. Len(entries) /\ Len(entries) \in Nat
      /\ DOMAIN entries' = 1 .. Len(entries')
    BY <1>2 DEF TypeInv, TypeOK, LedgerTypeOK
<1>4. /\ call'[w] = [pc |-> "audited", audit |-> Len(entries) + 1]
      /\ \A v \in Writers \ {w} : call'[v] = call[v]
    BY DEF RecordDecision, TypeInv, TypeOK
<1> QED
    BY <1>1, <1>2, <1>3, <1>4

LEMMA ResolutionRowed ==
    ASSUME TypeInv, NEW w \in Writers, RecordResolution(w)
    PROVE  /\ DOMAIN entries = 1 .. Len(entries) /\ Len(entries) \in Nat
           /\ DOMAIN entries' = 1 .. Len(entries) + 1
           /\ \A i \in DOMAIN entries : entries'[i] = entries[i]
           /\ entries'[Len(entries) + 1].prev = head[w]
           /\ entries'[Len(entries) + 1].payload =
                 [event |-> "HUMAN_APPROVAL", audit |-> call[w].audit,
                  resolution |-> call[w].resolution]
           /\ head[w] # NoHead /\ head'[w] = NoHead
           /\ \A v \in Writers \ {w} : head'[v] = head[v]
           /\ call'[w] = Idle
           /\ \A v \in Writers \ {w} : call'[v] = call[v]
<1> DEFINE row == [event |-> "HUMAN_APPROVAL", audit |-> call[w].audit,
                   resolution |-> call[w].resolution]
<1>1. row \in Payloads /\ head[w] # NoHead
    BY CallShape
    DEF RecordResolution, At, TypeInv, HeadsHeld, Payloads, ApprovalRow
<1>2. InsertRow(w, row)
    BY DEF RecordResolution
<1> HIDE DEF row
<1>3. /\ LedgerTypeOK(Payloads)' /\ head'[w] = NoHead
      /\ \A v \in Writers \ {w} : head'[v] = head[v]
      /\ Len(entries') = Len(entries) + 1
      /\ entries'[Len(entries) + 1] = [prev |-> head[w], payload |-> row]
      /\ \A i \in DOMAIN entries : entries'[i] = entries[i]
    BY <1>1, <1>2, InsertRowStep
<1>4. DOMAIN entries = 1 .. Len(entries) /\ Len(entries) \in Nat
      /\ DOMAIN entries' = 1 .. Len(entries')
    BY <1>3 DEF TypeInv, TypeOK, LedgerTypeOK
<1>5. call'[w] = Idle /\ \A v \in Writers \ {w} : call'[v] = call[v]
    BY DEF RecordResolution, Finish, TypeInv, TypeOK
<1> QED
    BY <1>1, <1>3, <1>4, <1>5 DEF row

LEMMA RowsKept ==
    ASSUME TypeInv, [Next]_vars
    PROVE  \A i \in DOMAIN entries : i \in DOMAIN entries' /\ entries'[i] = entries[i]
<1>1. ASSUME NEW w \in Writers, RecordDecision(w)
      PROVE  \A i \in DOMAIN entries : i \in DOMAIN entries' /\ entries'[i] = entries[i]
  <2>1. /\ DOMAIN entries = 1 .. Len(entries) /\ Len(entries) \in Nat
        /\ DOMAIN entries' = 1 .. Len(entries) + 1
        /\ \A i \in DOMAIN entries : entries'[i] = entries[i]
    BY <1>1, DecisionRecorded
  <2> QED
    BY <2>1
<1>2. ASSUME NEW w \in Writers, RecordResolution(w)
      PROVE  \A i \in DOMAIN entries : i \in DOMAIN entries' /\ entries'[i] = entries[i]
  <2>1. /\ DOMAIN entries = 1 .. Len(entries) /\ Len(entries) \in Nat
        /\ DOMAIN entries' = 1 .. Len(entries) + 1
        /\ \A i \in DOMAIN entries : entries'[i] = entries[i]
    BY <1>2, ResolutionRowed
  <2> QED
    BY <2>1
<1>3. ASSUME \A w \in Writers : ~RecordDecision(w) /\ ~RecordResolution(w)
      PROVE  UNCHANGED entries
    BY <1>3 DEF Next, Publish, Activate, Redeploy, BeginEvaluation, HashPolicy,
       DescribeBinding, Decide, ReadHead, CreateApproval, CreateIncident,
       Resolve, BeginResolutionRow, Crash, ledgerVars, vars
<1> QED
    BY <1>1, <1>2, <1>3

\* Nothing the service does repairs a ledger that fails verification: /ready
\* answers 503 from then on.
THEOREM BrokenForGood == Spec => BrokenStaysBroken
<1>1. TypeInv /\ [Next]_vars => [~Valid => ~Valid']_vars
  <2> SUFFICES ASSUME TypeInv, [Next]_vars, Valid' PROVE Valid
    OBVIOUS
  <2> QED
    BY RowsKept DEF Valid
<1> QED
    BY <1>1, TypeInit, TypeStep, PTL DEF Spec, BrokenStaysBroken

-----------------------------------------------------------------------------
(* A ledger breaks only where appends overlap.                             *)

\* Until two appends overlap there is at most one underway, and what it read is
\* still the last row.
ChainInv ==
    ~overlapped => /\ Valid
                   /\ \A w \in Appending : head[w] = Len(entries)
                   /\ \A w, v \in Appending : w = v

LEMMA ChainInit == Init => ChainInv
BY DEF Init, LedgerInit, ChainInv, Valid, Appending

LEMMA ChainRead ==
    ASSUME TypeInv, ChainInv, NEW w \in Writers, head[w] = NoHead, ReadHead(w)
    PROVE  ChainInv'
<1>1. /\ head'[w] = Len(entries)
      /\ \A v \in Writers \ {w} : head'[v] = head[v]
    BY ReadHeadStep
<1>2. ~overlapped' => ~overlapped /\ Appending = {}
    BY DEF ReadHead
<1>3. Appending = {} => Appending' \subseteq {w}
    BY <1>1 DEF Appending
<1> QED
    BY <1>1, <1>2, <1>3 DEF ChainInv, ReadHead, Valid

LEMMA ChainInsert ==
    ASSUME TypeInv, ChainInv, NEW w \in Writers, head[w] # NoHead,
           DOMAIN entries = 1 .. Len(entries), Len(entries) \in Nat,
           DOMAIN entries' = 1 .. Len(entries) + 1,
           \A i \in DOMAIN entries : entries'[i] = entries[i],
           entries'[Len(entries) + 1].prev = head[w],
           head'[w] = NoHead, \A v \in Writers \ {w} : head'[v] = head[v],
           UNCHANGED overlapped
    PROVE  ChainInv'
<1> SUFFICES ASSUME ~overlapped
             PROVE  Valid' /\ Appending' = {}
    BY DEF ChainInv
<1>1. w \in Appending
    BY DEF Appending
<1>2. Appending' = {}
    BY <1>1 DEF ChainInv, Appending
<1>3. Valid'
    BY <1>1 DEF ChainInv, Valid
<1> QED
    BY <1>2, <1>3

LEMMA ChainStep == TypeInv /\ ChainInv /\ [Next]_vars => ChainInv'
<1> SUFFICES ASSUME TypeInv, ChainInv, [Next]_vars PROVE ChainInv'
    OBVIOUS
<1>1. ASSUME NEW w \in Writers, NEW verdict \in Verdicts, Decide(w, verdict)
      PROVE  ChainInv'
    BY <1>1, ChainRead DEF Decide, At, TypeInv, HeadsHeld
<1>2. ASSUME NEW w \in Writers, BeginResolutionRow(w)
      PROVE  ChainInv'
    BY <1>2, ChainRead DEF BeginResolutionRow, At, TypeInv, HeadsHeld
<1>3. ASSUME NEW w \in Writers, RecordDecision(w)
      PROVE  ChainInv'
  <2>1. /\ DOMAIN entries = 1 .. Len(entries) /\ Len(entries) \in Nat
        /\ DOMAIN entries' = 1 .. Len(entries) + 1
        /\ \A i \in DOMAIN entries : entries'[i] = entries[i]
        /\ entries'[Len(entries) + 1].prev = head[w]
        /\ head[w] # NoHead /\ head'[w] = NoHead
        /\ \A v \in Writers \ {w} : head'[v] = head[v]
    BY <1>3, DecisionRecorded
  <2> QED
    BY <1>3, <2>1, ChainInsert DEF RecordDecision, InsertRow
<1>4. ASSUME NEW w \in Writers, RecordResolution(w)
      PROVE  ChainInv'
    BY <1>4, ResolutionRowed, ChainInsert DEF RecordResolution, InsertRow
<1>5. CASE Redeploy
    BY <1>5 DEF Redeploy, ChainInv, Valid, Appending
<1>6. ASSUME NEW w \in Writers, Crash(w)
      PROVE  ChainInv'
    BY <1>6 DEF Crash, ChainInv, Valid, Appending, TypeInv, TypeOK, LedgerTypeOK
<1>7. ASSUME UNCHANGED ledgerVars
      PROVE  ChainInv'
    BY <1>7 DEF ledgerVars, ChainInv, Valid, Appending
<1> QED
    BY <1>1, <1>2, <1>3, <1>4, <1>5, <1>6, <1>7
    DEF Next, Publish, Activate, BeginEvaluation, HashPolicy, DescribeBinding,
        CreateApproval, CreateIncident, Resolve, vars

\* verify() fails only on a ledger in which one append began while another was
\* between its read and its insert.
THEOREM ChainBreaksByOverlap == Spec => []BrokenOnlyByOverlap
<1>1. Init => TypeInv /\ ChainInv
    BY TypeInit, ChainInit
<1>2. TypeInv /\ ChainInv /\ [Next]_vars => TypeInv' /\ ChainInv'
    BY TypeStep, ChainStep
<1>3. ChainInv => BrokenOnlyByOverlap
    BY DEF ChainInv, BrokenOnlyByOverlap
<1> QED
    BY <1>1, <1>2, <1>3, PTL DEF Spec

-----------------------------------------------------------------------------
(* The trail of an evaluation.                                             *)

Recording(w) == call[w].pc \in {"audited", "escalated"}

\* A handler that records is about an evaluation row that no other handler is
\* about; before it escalates there is no approval for it, and afterwards there
\* is one if the decision asks for it.
TrailInv ==
    /\ \A w \in Writers : Recording(w) => IsEvaluation(call[w].audit)
    /\ \A w, v \in Writers :
          (w # v /\ Recording(w) /\ Recording(v)) => call[w].audit # call[v].audit
    /\ \A w \in Writers :
          call[w].pc = "audited" => approvals[call[w].audit] = NoApproval
    /\ \A w \in Writers :
          (call[w].pc = "escalated"
           /\ Evaluated(call[w].audit).decision = "REQUIRE_APPROVAL")
          => approvals[call[w].audit] # NoApproval
    /\ EvidenceGrounded
    /\ EvidenceComplete

LEMMA TrailInit == Init => TrailInv
BY DEF Init, TrailInv, Recording, EvidenceGrounded, EvidenceComplete, Idle

LEMMA EvaluationsKept ==
    ASSUME TypeInv, [Next]_vars, NEW a, IsEvaluation(a)
    PROVE  IsEvaluation(a)' /\ Evaluated(a)' = Evaluated(a)
BY RowsKept DEF IsEvaluation, Evaluated

\* A step after which every handler that records already did so, and which
\* leaves approvals, incidents and answers alone.
LEMMA TrailAside ==
    ASSUME TypeInv, TrailInv, [Next]_vars,
           UNCHANGED <<approvals, incidents, answered>>,
           \A w \in Writers : Recording(w)' => call'[w].audit = call[w].audit
                                               /\ call'[w].pc = call[w].pc
    PROVE  TrailInv'
<1> USE DEF TrailInv, Recording
<1>1. \A w \in Writers : Recording(w)' =>
         /\ IsEvaluation(call[w].audit)'
         /\ Evaluated(call[w].audit)' = Evaluated(call[w].audit)
    BY RowsKept DEF IsEvaluation, Evaluated
<1>2. EvidenceGrounded'
    BY EvaluationsKept DEF EvidenceGrounded
<1>3. EvidenceComplete'
    BY EvaluationsKept DEF EvidenceComplete
<1> QED
    BY <1>1, <1>2, <1>3 DEF Evaluated, IsEvaluation

LEMMA TrailStep == TypeInv /\ TrailInv /\ [Next]_vars => TrailInv'
<1> SUFFICES ASSUME TypeInv, TrailInv, [Next]_vars PROVE TrailInv'
    OBVIOUS
<1>c. call \in [Writers -> Calls]
    BY DEF TypeInv, TypeOK, Calls
<1>1. ASSUME NEW b \in Bundles, Publish(b)
      PROVE  TrailInv'
    BY <1>1, TrailAside DEF Publish, Recording
<1>2. ASSUME NEW b \in Bundles, Activate(b)
      PROVE  TrailInv'
  <2>1. \A w \in Writers : Recording(w)' => call'[w] = call[w]
    <3> SUFFICES ASSUME NEW w \in Writers, Recording(w)'
                 PROVE  call'[w] = call[w]
      OBVIOUS
    <3>1. CASE call[w].pc \in {"loaded", "hashed"}
      <4>1. call[w] \in EvaluationCall
        BY <3>1, CallShape
      <4>2. call'[w] = [call[w] EXCEPT !.row.torn = TRUE]
        BY <1>2, <3>1 DEF Activate, Tear
      <4>3. call'[w].pc = call[w].pc
        BY <4>1, <4>2 DEF EvaluationCall
      <4> QED
        BY <3>1, <4>3 DEF Recording
    <3>2. CASE call[w].pc \notin {"loaded", "hashed"}
      BY <1>2, <3>2 DEF Activate, Tear
    <3> QED
      BY <3>1, <3>2
  <2> QED
    BY <1>2, <2>1, TrailAside DEF Activate
<1>3. CASE Redeploy
    BY <1>3, TrailAside DEF Redeploy, Recording, Idle
<1>4. ASSUME NEW w \in Writers, BeginEvaluation(w)
      PROVE  TrailInv'
  <2>1. call'[w].pc = "loaded" /\ \A v \in Writers \ {w} : call'[v] = call[v]
    BY <1>4, <1>c DEF BeginEvaluation
  <2> QED
    BY <1>4, <2>1, TrailAside DEF BeginEvaluation, Recording
<1>5. ASSUME NEW w \in Writers, HashPolicy(w)
      PROVE  TrailInv'
  <2>1. call[w] \in EvaluationCall
    BY <1>5, CallShape DEF HashPolicy, At
  <2>2. call'[w].pc = "hashed" /\ \A v \in Writers \ {w} : call'[v] = call[v]
    BY <1>5, <1>c, <2>1 DEF HashPolicy, EvaluationCall
  <2> QED
    BY <1>5, <2>2, TrailAside DEF HashPolicy, Recording
<1>6. ASSUME NEW w \in Writers, DescribeBinding(w)
      PROVE  TrailInv'
  <2>1. call[w] \in EvaluationCall
    BY <1>6, CallShape DEF DescribeBinding, At
  <2>2. call'[w].pc = "described" /\ \A v \in Writers \ {w} : call'[v] = call[v]
    BY <1>6, <1>c, <2>1 DEF DescribeBinding, EvaluationCall
  <2> QED
    BY <1>6, <2>2, TrailAside DEF DescribeBinding, Recording
<1>7. ASSUME NEW w \in Writers, NEW verdict \in Verdicts, Decide(w, verdict)
      PROVE  TrailInv'
  <2>1. call[w] \in EvaluationCall
    BY <1>7, CallShape DEF Decide, At
  <2>2. call'[w].pc = "decided" /\ \A v \in Writers \ {w} : call'[v] = call[v]
    BY <1>7, <1>c, <2>1 DEF Decide, EvaluationCall
  <2> QED
    BY <1>7, <2>2, TrailAside DEF Decide, Recording
<1>8. ASSUME NEW w \in Writers, RecordDecision(w)
      PROVE  TrailInv'
  <2> DEFINE n == Len(entries) + 1
  <2>1. /\ DOMAIN entries = 1 .. Len(entries) /\ Len(entries) \in Nat
        /\ DOMAIN entries' = 1 .. n
        /\ entries'[n].payload = call[w].row
        /\ call[w].row \in EvaluationRow
        /\ n \in Ids
        /\ call'[w] = [pc |-> "audited", audit |-> n]
        /\ \A v \in Writers \ {w} : call'[v] = call[v]
    BY <1>8, DecisionRecorded
  <2>2. n \notin DOMAIN entries /\ UNCHANGED <<approvals, incidents, answered>>
    BY <1>8, <2>1 DEF RecordDecision
  <2>3. approvals[n] = NoApproval
    BY <2>1, <2>2 DEF TrailInv, EvidenceGrounded, IsEvaluation
  <2>4. (entries'[n].payload).event = "EVALUATION" /\ n \in DOMAIN entries'
    BY <2>1 DEF EvaluationRow
  <2>5. \A v \in Writers \ {w} : Recording(v)' =>
           /\ Recording(v) /\ IsEvaluation(call[v].audit)
           /\ IsEvaluation(call[v].audit)'
           /\ Evaluated(call[v].audit)' = Evaluated(call[v].audit)
           /\ call[v].audit # n
    BY <2>1, <2>2, RowsKept DEF TrailInv, Recording, IsEvaluation, Evaluated
  <2>6. EvidenceGrounded'
    BY <2>2, EvaluationsKept DEF TrailInv, EvidenceGrounded
  <2>7. EvidenceComplete'
    BY <2>2, EvaluationsKept DEF TrailInv, EvidenceComplete
  <2>8. ASSUME NEW v \in Writers
        PROVE  /\ Recording(v)' => IsEvaluation(call[v].audit)'
               /\ call'[v].pc = "audited" => approvals'[call'[v].audit] = NoApproval
               /\ (call'[v].pc = "escalated"
                   /\ Evaluated(call[v].audit)'.decision = "REQUIRE_APPROVAL")
                  => approvals'[call'[v].audit] # NoApproval
    <3>1. CASE v = w
      BY <2>1, <2>2, <2>3, <2>4, <3>1 DEF IsEvaluation
    <3>2. CASE v # w
      BY <2>1, <2>2, <2>5, <3>2 DEF TrailInv, Recording
    <3> QED
      BY <3>1, <3>2
  <2>9. ASSUME NEW u \in Writers, NEW v \in Writers, u # v,
               Recording(u)', Recording(v)'
        PROVE  call'[u].audit # call'[v].audit
    <3>1. CASE u = w
      BY <2>1, <2>5, <2>9, <3>1
    <3>2. CASE v = w
      BY <2>1, <2>5, <2>9, <3>2
    <3>3. CASE u # w /\ v # w
      BY <2>1, <2>5, <2>9, <3>3 DEF TrailInv
    <3> QED
      BY <3>1, <3>2, <3>3
  <2> QED
    BY <2>6, <2>7, <2>8, <2>9 DEF TrailInv
<1>9. ASSUME NEW w \in Writers, CreateApproval(w)
      PROVE  TrailInv'
  <2>1. call[w] \in RecordingCall /\ call[w].audit \in Ids /\ Recording(w)
    BY <1>9, CallShape DEF CreateApproval, At, Recording
  <2>0. PICK a \in Ids : a = call[w].audit
    BY <2>1
  <2>2. /\ call'[w].pc = "escalated" /\ call'[w].audit = a
        /\ \A v \in Writers \ {w} : call'[v] = call[v]
        /\ UNCHANGED <<entries, incidents, answered>>
    BY <1>9, <1>c, <2>0, <2>1 DEF CreateApproval, Goto, RecordingCall, ledgerVars
  <2>3. /\ approvals' = IF Evaluated(a).decision = "REQUIRE_APPROVAL"
                        THEN [approvals EXCEPT ![a] = "PENDING"] ELSE approvals
        /\ approvals \in [Ids -> Resolutions \cup {"PENDING", NoApproval}]
    BY <1>9, <2>0 DEF CreateApproval, TypeInv, TypeOK
  <2>4. /\ \A x \in Ids : x # a => approvals'[x] = approvals[x]
        /\ Evaluated(a).decision = "REQUIRE_APPROVAL" => approvals'[a] = "PENDING"
        /\ Evaluated(a).decision # "REQUIRE_APPROVAL" => approvals'[a] = approvals[a]
    BY <2>3
  <2>5. IsEvaluation(a)
    BY <2>0, <2>1 DEF TrailInv
  <2>6. \A v \in Writers \ {w} : Recording(v) => call[v].audit # a /\ call[v].audit \in Ids
    BY <2>0, <2>1, CallShape DEF TrailInv, Recording
  <2>7. EvidenceGrounded'
    BY <2>2, <2>4, <2>5 DEF TrailInv, EvidenceGrounded, IsEvaluation, Evaluated
  <2>8. EvidenceComplete'
    BY <2>2, <2>4
    DEF TrailInv, EvidenceComplete, IsEvaluation, Evaluated, NoApproval, TypeInv, TypeOK
  <2> QED
    BY <2>0, <2>1, <2>2, <2>4, <2>5, <2>6, <2>7, <2>8
    DEF TrailInv, Recording, IsEvaluation, Evaluated, NoApproval
<1>10. ASSUME NEW w \in Writers, CreateIncident(w)
       PROVE  TrailInv'
  <2>1. call[w] \in RecordingCall /\ call[w].audit \in Ids /\ call[w].pc = "escalated"
    BY <1>10, CallShape DEF CreateIncident, At
  <2>0. PICK a \in Ids : a = call[w].audit
    BY <2>1
  <2>2. /\ call'[w] = Idle /\ \A v \in Writers \ {w} : call'[v] = call[v]
        /\ UNCHANGED <<entries, approvals>>
        /\ incidents' = IF Reportable(a) THEN incidents \cup {a} ELSE incidents
        /\ answered' = answered \cup {a}
    BY <1>10, <1>c, <2>0 DEF CreateIncident, Finish, ledgerVars
  <2>3. /\ IsEvaluation(a)
        /\ Evaluated(a).decision = "REQUIRE_APPROVAL" => approvals[a] # NoApproval
    BY <2>0, <2>1 DEF TrailInv, Recording
  <2>4. EvidenceGrounded'
    BY <2>2, <2>3 DEF TrailInv, EvidenceGrounded, Reportable, IsEvaluation, Evaluated
  <2>5. EvidenceComplete'
    BY <2>2, <2>3 DEF TrailInv, EvidenceComplete, Reportable, IsEvaluation, Evaluated
  <2> QED
    BY <2>2, <2>4, <2>5 DEF TrailInv, Recording, IsEvaluation, Evaluated, Idle
<1>11. ASSUME NEW w \in Writers, NEW a \in Ids, NEW resolution \in Resolutions,
              Resolve(w, a, resolution)
       PROVE  TrailInv'
  <2>1. /\ call'[w].pc = "resolved" /\ \A v \in Writers \ {w} : call'[v] = call[v]
        /\ UNCHANGED <<entries, incidents, answered>>
        /\ approvals[a] # NoApproval
    BY <1>11, <1>c DEF Resolve, ledgerVars
  <2>2. /\ \A x \in Ids : x # a => approvals'[x] = approvals[x]
        /\ approvals'[a] # NoApproval
    BY <1>11 DEF Resolve, TypeInv, TypeOK, Resolutions, NoApproval
  <2>3. \A v \in Writers : Recording(v) => call[v].audit \in Ids
    BY CallShape DEF Recording
  <2>4. EvidenceGrounded'
    BY <2>1, <2>2 DEF TrailInv, EvidenceGrounded, IsEvaluation, Evaluated
  <2>5. EvidenceComplete'
    BY <2>1, <2>2
    DEF TrailInv, EvidenceComplete, IsEvaluation, Evaluated, TypeInv, TypeOK
  <2> QED
    BY <2>1, <2>2, <2>3, <2>4, <2>5 DEF TrailInv, Recording, IsEvaluation, Evaluated
<1>12. ASSUME NEW w \in Writers, BeginResolutionRow(w)
       PROVE  TrailInv'
  <2>1. call[w] \in ResolutionCall
    BY <1>12, CallShape DEF BeginResolutionRow, At
  <2>2. call'[w].pc = "signing" /\ \A v \in Writers \ {w} : call'[v] = call[v]
    BY <1>12, <1>c, <2>1 DEF BeginResolutionRow, Goto, ResolutionCall
  <2> QED
    BY <1>12, <2>2, TrailAside DEF BeginResolutionRow, Recording
<1>13. ASSUME NEW w \in Writers, RecordResolution(w)
       PROVE  TrailInv'
  <2>1. call'[w] = Idle /\ \A v \in Writers \ {w} : call'[v] = call[v]
    BY <1>13, <1>c DEF RecordResolution, Finish
  <2> QED
    BY <1>13, <2>1, TrailAside DEF RecordResolution, Recording, Idle
<1>14. ASSUME NEW w \in Writers, Crash(w)
       PROVE  TrailInv'
  <2>1. call'[w] = Idle /\ \A v \in Writers \ {w} : call'[v] = call[v]
    BY <1>14, <1>c DEF Crash, Finish
  <2> QED
    BY <1>14, <2>1, TrailAside DEF Crash, Recording, Idle
<1>15. CASE UNCHANGED vars
    BY <1>15, TrailAside DEF vars, Recording
<1> QED
    BY <1>1, <1>2, <1>3, <1>4, <1>5, <1>6, <1>7, <1>8, <1>9, <1>10, <1>11,
       <1>12, <1>13, <1>14, <1>15
    DEF Next

LEMMA TrailCorrect == Spec => [](TypeInv /\ TrailInv)
<1>1. Init => TypeInv /\ TrailInv
    BY TypeInit, TrailInit
<1>2. TypeInv /\ TrailInv /\ [Next]_vars => TypeInv' /\ TrailInv'
    BY TypeStep, TrailStep
<1> QED
    BY <1>1, <1>2, PTL DEF Spec

\* Whatever handlers run at once and wherever they die, an approval or an
\* incident points at an evaluation row whose verdict calls for it.
THEOREM EvidenceIsGrounded == Spec => []EvidenceGrounded
<1>1. TrailInv => EvidenceGrounded
    BY DEF TrailInv
<1> QED
    BY <1>1, TrailCorrect, PTL

\* An answered caller left its audit row, and the approval and the incident its
\* verdict calls for.
THEOREM EvidenceIsComplete == Spec => []EvidenceComplete
<1>1. TrailInv => EvidenceComplete
    BY DEF TrailInv
<1> QED
    BY <1>1, TrailCorrect, PTL

\* No step makes a resolved approval pending again: ids are never reused, so
\* INSERT OR REPLACE never replaces a resolved row by a new one.
THEOREM ResolvedForGood == Spec => ResolvedStaysResolved
<1>1. TypeInv /\ TrailInv /\ [Next]_vars
      => [\A a \in Ids : approvals[a] \in Resolutions
                         => approvals'[a] \in Resolutions]_vars
  <2> SUFFICES ASSUME TypeInv, TrailInv, [Next]_vars,
                      NEW a \in Ids, approvals[a] \in Resolutions
               PROVE  approvals'[a] \in Resolutions
    OBVIOUS
  <2>1. ASSUME NEW w \in Writers, CreateApproval(w)
        PROVE  approvals'[a] \in Resolutions
    <3>1. call[w].audit # a
      BY <2>1 DEF CreateApproval, At, TrailInv, Resolutions, NoApproval
    <3> QED
      BY <2>1, <3>1 DEF CreateApproval, TypeInv, TypeOK
  <2>2. ASSUME NEW w \in Writers, NEW x \in Ids, NEW resolution \in Resolutions,
               Resolve(w, x, resolution)
        PROVE  approvals'[a] \in Resolutions
    BY <2>2 DEF Resolve, TypeInv, TypeOK
  <2>3. ASSUME UNCHANGED approvals
        PROVE  approvals'[a] \in Resolutions
    BY <2>3
  <2> QED
    BY <2>1, <2>2, <2>3
    DEF Next, Publish, Activate, Redeploy, BeginEvaluation, HashPolicy,
        DescribeBinding, Decide, RecordDecision, CreateIncident,
        BeginResolutionRow, RecordResolution, Crash, vars
<1> QED
    BY <1>1, TrailCorrect, PTL DEF Spec, ResolvedStaysResolved

-----------------------------------------------------------------------------
(* The resolution that stands is in the ledger.                            *)

Resolving(w, a) == call[w].pc \in {"resolved", "signing"} /\ call[w].audit = a

InLedger(a) ==
    \E i \in DOMAIN entries :
        entries[i].payload = [event |-> "HUMAN_APPROVAL", audit |-> a,
                              resolution |-> approvals[a]]

\* The word that stands is in the ledger or on its way there.
ResolutionInv ==
    \A a \in Ids :
        (approvals[a] \in Resolutions /\ a \notin lost)
        => \/ InLedger(a)
           \/ \E w \in Writers : /\ Resolving(w, a)
                                 /\ call[w].resolution = approvals[a]

LEMMA ResolutionInit == Init => ResolutionInv
BY DEF Init, ResolutionInv, Resolutions, NoApproval

\* One approval that a step does not touch.
LEMMA StillRecorded ==
    ASSUME TypeInv, ResolutionInv, [Next]_vars, NEW a \in Ids,
           approvals'[a] = approvals[a], lost \subseteq lost',
           \A w \in Writers : Resolving(w, a) =>
              \/ Resolving(w, a)' /\ call'[w].resolution = call[w].resolution
              \/ a \in lost'
              \/ call[w].resolution = approvals[a] => InLedger(a)'
    PROVE  (approvals'[a] \in Resolutions /\ a \notin lost')
           => \/ InLedger(a)'
              \/ \E w \in Writers : /\ Resolving(w, a)'
                                    /\ call'[w].resolution = approvals'[a]
<1>1. InLedger(a) => InLedger(a)'
    BY RowsKept DEF InLedger
<1> QED
    BY <1>1 DEF ResolutionInv

LEMMA ResolutionStep == TypeInv /\ TrailInv /\ ResolutionInv /\ [Next]_vars => ResolutionInv'
<1> SUFFICES ASSUME TypeInv, TrailInv, ResolutionInv, [Next]_vars, NEW a \in Ids
             PROVE  (approvals'[a] \in Resolutions /\ a \notin lost')
                    => \/ InLedger(a)'
                       \/ \E w \in Writers : /\ Resolving(w, a)'
                                             /\ call'[w].resolution = approvals'[a]
    BY DEF ResolutionInv
<1> DEFINE Goal == (approvals'[a] \in Resolutions /\ a \notin lost')
                   => \/ InLedger(a)'
                      \/ \E w \in Writers : /\ Resolving(w, a)'
                                            /\ call'[w].resolution = approvals'[a]
<1>c. call \in [Writers -> Calls]
    BY DEF TypeInv, TypeOK, Calls
<1>1. ASSUME NEW b \in Bundles, Publish(b)
      PROVE  Goal
    BY <1>1, StillRecorded DEF Publish, Resolving
<1>2. ASSUME NEW b \in Bundles, Activate(b)
      PROVE  Goal
  <2>1. \A w \in Writers : Resolving(w, a) => call'[w] = call[w]
    BY <1>2 DEF Activate, Tear, Resolving
  <2> QED
    BY <1>2, <2>1, StillRecorded DEF Activate, Resolving
<1>3. CASE Redeploy
  <2>1. \A w \in Writers : Resolving(w, a) => a \in lost'
    BY <1>3 DEF Redeploy, HalfResolved, At, Resolving
  <2> QED
    BY <1>3, <2>1, StillRecorded DEF Redeploy
<1>4. ASSUME NEW w \in Writers, call[w].pc \notin {"resolved", "signing"},
             \A v \in Writers \ {w} : call'[v] = call[v],
             UNCHANGED <<approvals, lost>>
      PROVE  Goal
    BY <1>4, StillRecorded DEF Resolving
<1>5. ASSUME NEW w \in Writers, CreateApproval(w)
      PROVE  Goal
  <2>1. CASE a = call[w].audit
    BY <1>5, <2>1
    DEF CreateApproval, At, TrailInv, TypeInv, TypeOK, Resolutions, NoApproval
  <2>2. CASE a # call[w].audit
    <3>1. approvals'[a] = approvals[a]
      BY <1>5, <2>2 DEF CreateApproval, TypeInv, TypeOK
    <3>2. \A v \in Writers : Resolving(v, a) => call'[v] = call[v]
      BY <1>5, <1>c DEF CreateApproval, Goto, At, Resolving
    <3> QED
      BY <1>5, <3>1, <3>2, StillRecorded DEF CreateApproval, Resolving
  <2> QED
    BY <2>1, <2>2
<1>6. ASSUME NEW w \in Writers, NEW x \in Ids, NEW resolution \in Resolutions,
             Resolve(w, x, resolution)
      PROVE  Goal
  <2>1. /\ call'[w] = [pc |-> "resolved", audit |-> x, resolution |-> resolution]
        /\ \A v \in Writers \ {w} : call'[v] = call[v]
        /\ call[w].pc = "idle"
    BY <1>6, <1>c DEF Resolve, At
  <2>2. CASE a = x
    BY <1>6, <2>1, <2>2 DEF Resolve, Resolving, TypeInv, TypeOK
  <2>3. CASE a # x
    <3>1. approvals'[a] = approvals[a]
      BY <1>6, <2>3 DEF Resolve, TypeInv, TypeOK
    <3> QED
      BY <1>6, <2>1, <3>1, StillRecorded DEF Resolve, Resolving
  <2> QED
    BY <2>2, <2>3
<1>7. ASSUME NEW w \in Writers, BeginResolutionRow(w)
      PROVE  Goal
  <2>1. call[w] \in ResolutionCall
    BY <1>7, CallShape DEF BeginResolutionRow, At
  <2>2. /\ call'[w].pc = "signing" /\ call'[w].audit = call[w].audit
        /\ call'[w].resolution = call[w].resolution
        /\ \A v \in Writers \ {w} : call'[v] = call[v]
    BY <1>7, <1>c, <2>1 DEF BeginResolutionRow, Goto, ResolutionCall
  <2> QED
    BY <1>7, <2>2, StillRecorded DEF BeginResolutionRow, Resolving
<1>8. ASSUME NEW w \in Writers, RecordResolution(w)
      PROVE  Goal
  <2>1. /\ Len(entries) \in Nat
        /\ DOMAIN entries' = 1 .. Len(entries) + 1
        /\ entries'[Len(entries) + 1].payload =
              [event |-> "HUMAN_APPROVAL", audit |-> call[w].audit,
               resolution |-> call[w].resolution]
        /\ \A v \in Writers \ {w} : call'[v] = call[v]
    BY <1>8, ResolutionRowed
  <2>2. UNCHANGED <<approvals, lost>>
    BY <1>8 DEF RecordResolution
  <2>3. (call[w].audit = a /\ call[w].resolution = approvals[a]) => InLedger(a)'
    BY <2>1, <2>2 DEF InLedger
  <2> QED
    BY <2>1, <2>2, <2>3, StillRecorded DEF Resolving
<1>9. ASSUME NEW w \in Writers, Crash(w)
      PROVE  Goal
  <2>1. \A v \in Writers \ {w} : call'[v] = call[v]
    BY <1>9, <1>c DEF Crash, Finish
  <2>2. Resolving(w, a) => a \in lost'
    BY <1>9 DEF Crash, HalfResolved, At, Resolving
  <2>3. \A v \in Writers : Resolving(v, a) =>
           \/ Resolving(v, a)' /\ call'[v].resolution = call[v].resolution
           \/ a \in lost'
    BY <2>1, <2>2 DEF Resolving
  <2>4. approvals'[a] = approvals[a] /\ lost \subseteq lost'
    BY <1>9 DEF Crash
  <2> QED
    BY <2>3, <2>4, StillRecorded
<1>10. CASE UNCHANGED vars
    BY <1>10, StillRecorded DEF vars, Resolving
<1>11. ASSUME NEW w \in Writers,
              \/ BeginEvaluation(w) \/ HashPolicy(w) \/ DescribeBinding(w)
              \/ \E verdict \in Verdicts : Decide(w, verdict)
              \/ RecordDecision(w) \/ CreateIncident(w)
       PROVE  Goal
  <2>1. /\ call[w].pc \notin {"resolved", "signing"}
        /\ UNCHANGED <<approvals, lost>>
    BY <1>11 DEF BeginEvaluation, HashPolicy, DescribeBinding, Decide,
       RecordDecision, CreateIncident, At
  <2>2. \A v \in Writers \ {w} : call'[v] = call[v]
    BY <1>11, <1>c DEF BeginEvaluation, HashPolicy, DescribeBinding, Decide,
       RecordDecision, CreateIncident, Finish
  <2> QED
    BY <1>4, <2>1, <2>2
<1> QED
    BY <1>1, <1>2, <1>3, <1>5, <1>6, <1>7, <1>8, <1>9, <1>10, <1>11 DEF Next

\* The resolution an approval shows has its row, unless its resolver is between
\* its two writes or died there.
THEOREM ResolutionsAreRecorded == Spec => []ResolutionRecorded
<1>1. Init => TypeInv /\ TrailInv /\ ResolutionInv
    BY TypeInit, TrailInit, ResolutionInit
<1>2. TypeInv /\ TrailInv /\ ResolutionInv /\ [Next]_vars
      => TypeInv' /\ TrailInv' /\ ResolutionInv'
    BY TypeStep, TrailStep, ResolutionStep
<1>3. ResolutionInv => ResolutionRecorded
  <2>1. \A w \in Writers, a \in Ids : Resolving(w, a) => a \in HalfResolved(Writers)
    BY DEF Resolving, HalfResolved, At
  <2> QED
    BY <2>1 DEF ResolutionInv, ResolutionRecorded, InLedger
<1> QED
    BY <1>1, <1>2, <1>3, PTL DEF Spec

-----------------------------------------------------------------------------
(* What an evaluation records of the policy it ran under.                  *)

\* A bound bundle was published.
BoundWasPublished == binding # NoBundle => signature[binding] # "unpublished"

\* What a row says of its policy when nothing changed between the reads.
NamesPolicy(row) ==
    ~row.torn => /\ row.sha = row.under
                 /\ IF row.verified THEN row.under = row.bundle
                                    ELSE row.under = FilePolicy

\* What each read has established, while the policy stays what it was.
ReadsAgree(w) ==
    /\ (call[w].pc = "loaded" /\ ~call[w].row.torn)
       => call[w].row.under = LoadPolicy
    /\ (call[w].pc = "hashed" /\ ~call[w].row.torn)
       => call[w].row.under = LoadPolicy /\ call[w].row.sha = LoadPolicy
    /\ call[w].pc \in {"described", "decided"} => NamesPolicy(call[w].row)

PolicyInv ==
    /\ BoundWasPublished
    /\ \A w \in Writers : ReadsAgree(w)
    /\ \A a \in DOMAIN entries :
          IsEvaluation(a) => NamesPolicy(entries[a].payload)

LEMMA PolicyInit == Init => PolicyInv
BY DEF Init, LedgerInit, PolicyInv, BoundWasPublished, ReadsAgree, Idle

\* A step of a handler that adds no evaluation row and changes no policy.
LEMMA PolicyAside ==
    ASSUME TypeInv, PolicyInv, [Next]_vars, UNCHANGED <<signature, binding>>,
           \A w \in Writers : ReadsAgree(w)',
           \A i \in DOMAIN entries' : i \in DOMAIN entries
                                      \/ (entries'[i].payload).event # "EVALUATION"
                                      \/ NamesPolicy(entries'[i].payload)
    PROVE  PolicyInv'
<1>1. \A i \in DOMAIN entries : entries'[i] = entries[i]
    BY RowsKept
<1>2. \A i \in DOMAIN entries' : IsEvaluation(i)' => NamesPolicy(entries'[i].payload)
    BY <1>1 DEF PolicyInv, IsEvaluation
<1>3. BoundWasPublished'
    BY DEF PolicyInv, BoundWasPublished
<1> QED
    BY <1>2, <1>3 DEF PolicyInv, NamesPolicy

\* A step of one handler leaves what the others have read as good as it was.
LEMMA OthersAgree ==
    ASSUME PolicyInv, UNCHANGED <<signature, binding>>, NEW w \in Writers,
           ReadsAgree(w)', \A v \in Writers \ {w} : call'[v] = call[v]
    PROVE  \A v \in Writers : ReadsAgree(v)'
<1>1. LoadPolicy' = LoadPolicy
    BY DEF LoadPolicy, Verifies
<1>2. ASSUME NEW v \in Writers, v # w
      PROVE  ReadsAgree(v)'
    BY <1>1, <1>2 DEF PolicyInv, ReadsAgree, NamesPolicy
<1> QED
    BY <1>2

LEMMA PolicyStep == TypeInv /\ PolicyInv /\ [Next]_vars => PolicyInv'
<1> SUFFICES ASSUME TypeInv, PolicyInv, [Next]_vars PROVE PolicyInv'
    OBVIOUS
<1> USE EvaluationAssumption
<1>c. call \in [Writers -> Calls]
    BY DEF TypeInv, TypeOK, Calls
<1>l. UNCHANGED <<signature, binding>> => LoadPolicy' = LoadPolicy
    BY DEF LoadPolicy, Verifies
<1>1. ASSUME NEW b \in Bundles, Publish(b)
      PROVE  PolicyInv'
  <2>1. \A x \in Bundles : x # b => signature'[x] = signature[x]
    BY <1>1 DEF Publish, TypeInv, TypeOK
  <2>2. binding # b
    BY <1>1 DEF Publish, PolicyInv, BoundWasPublished
  <2>3. LoadPolicy' = LoadPolicy
    BY <1>1, <2>1, <2>2 DEF Publish, LoadPolicy, Verifies, TypeInv, TypeOK
  <2>4. BoundWasPublished'
    BY <1>1, <2>1, <2>2 DEF Publish, PolicyInv, BoundWasPublished, TypeInv, TypeOK
  <2> QED
    BY <1>1, <2>3, <2>4
    DEF Publish, PolicyInv, ReadsAgree, NamesPolicy, IsEvaluation, ledgerVars
<1>2. ASSUME NEW b \in Bundles, Activate(b)
      PROVE  PolicyInv'
  <2>1. BoundWasPublished'
    BY <1>2 DEF Activate, BoundWasPublished, Verifies
  <2>2. ASSUME NEW w \in Writers
        PROVE  ReadsAgree(w)'
    <3>1. CASE call[w].pc \in {"loaded", "hashed"}
      <4>1. call[w] \in EvaluationCall
        BY <3>1, CallShape
      <4>2. call'[w] = [call[w] EXCEPT !.row.torn = TRUE]
        BY <1>2, <3>1 DEF Activate, Tear
      <4>3. call'[w].row.torn = TRUE /\ call'[w].pc = call[w].pc
        BY <4>1, <4>2 DEF EvaluationCall, EvaluationRow
      <4> QED
        BY <3>1, <4>3 DEF ReadsAgree
    <3>2. CASE call[w].pc \notin {"loaded", "hashed"}
      <4>1. call'[w] = call[w]
        BY <1>2, <3>2 DEF Activate, Tear
      <4> QED
        BY <3>2, <4>1 DEF PolicyInv, ReadsAgree, NamesPolicy
    <3> QED
      BY <3>1, <3>2
  <2> QED
    BY <1>2, <2>1, <2>2
    DEF Activate, PolicyInv, NamesPolicy, IsEvaluation, ledgerVars
<1>3. CASE Redeploy
    BY <1>3 DEF Redeploy, PolicyInv, BoundWasPublished, ReadsAgree, NamesPolicy,
       IsEvaluation, Idle, TypeInv, TypeOK
<1>4. ASSUME NEW w \in Writers, BeginEvaluation(w)
      PROVE  PolicyInv'
  <2>1. /\ call'[w].pc = "loaded" /\ call'[w].row.under = LoadPolicy
        /\ \A v \in Writers \ {w} : call'[v] = call[v]
    BY <1>4, <1>c DEF BeginEvaluation
  <2>2. \A v \in Writers : ReadsAgree(v)'
    BY <1>4, <1>l, <2>1
    DEF BeginEvaluation, policyVars, PolicyInv, ReadsAgree, NamesPolicy
  <2> QED
    BY <1>4, <2>2, PolicyAside DEF BeginEvaluation, policyVars, ledgerVars
<1>5. ASSUME NEW w \in Writers, HashPolicy(w)
      PROVE  PolicyInv'
  <2>1. call[w] \in EvaluationCall /\ call[w].pc = "loaded"
    BY <1>5, CallShape DEF HashPolicy, At
  <2>2. /\ call'[w].pc = "hashed" /\ call'[w].row.sha = LoadPolicy
        /\ call'[w].row.under = call[w].row.under
        /\ call'[w].row.torn = call[w].row.torn
        /\ \A v \in Writers \ {w} : call'[v] = call[v]
    BY <1>5, <1>c, <2>1 DEF HashPolicy, EvaluationCall, EvaluationRow
  <2>3. ReadsAgree(w)'
    BY <1>5, <1>l, <2>1, <2>2 DEF HashPolicy, policyVars, PolicyInv, ReadsAgree
  <2>4. \A v \in Writers : ReadsAgree(v)'
    BY <1>5, <2>2, <2>3, OthersAgree DEF HashPolicy, policyVars
  <2> QED
    BY <1>5, <2>4, PolicyAside DEF HashPolicy, policyVars, ledgerVars
<1>6. ASSUME NEW w \in Writers, DescribeBinding(w)
      PROVE  PolicyInv'
  <2>1. call[w] \in EvaluationCall /\ call[w].pc = "hashed"
    BY <1>6, CallShape DEF DescribeBinding, At
  <2>2. /\ call'[w].pc = "described" /\ call'[w].row.bundle = binding
        /\ call'[w].row.verified = (binding # NoBundle /\ Verifies(binding))
        /\ call'[w].row.under = call[w].row.under
        /\ call'[w].row.sha = call[w].row.sha
        /\ call'[w].row.torn = call[w].row.torn
        /\ \A v \in Writers \ {w} : call'[v] = call[v]
    BY <1>6, <1>c, <2>1 DEF DescribeBinding, EvaluationCall, EvaluationRow
  <2>3. NamesPolicy(call'[w].row)
    BY <2>1, <2>2 DEF PolicyInv, ReadsAgree, NamesPolicy, LoadPolicy
  <2>4. ReadsAgree(w)'
    BY <2>2, <2>3 DEF ReadsAgree, NamesPolicy
  <2>5. \A v \in Writers : ReadsAgree(v)'
    BY <1>6, <2>2, <2>4, OthersAgree DEF DescribeBinding, policyVars
  <2> QED
    BY <1>6, <2>5, PolicyAside DEF DescribeBinding, policyVars, ledgerVars
<1>7. ASSUME NEW w \in Writers, NEW verdict \in Verdicts, Decide(w, verdict)
      PROVE  PolicyInv'
  <2>1. call[w] \in EvaluationCall /\ call[w].pc = "described"
    BY <1>7, CallShape DEF Decide, At
  <2>2. /\ call'[w].pc = "decided" /\ call'[w].row.bundle = call[w].row.bundle
        /\ call'[w].row.verified = call[w].row.verified
        /\ call'[w].row.under = call[w].row.under
        /\ call'[w].row.sha = call[w].row.sha
        /\ call'[w].row.torn = call[w].row.torn
        /\ \A v \in Writers \ {w} : call'[v] = call[v]
    BY <1>7, <1>c, <2>1 DEF Decide, EvaluationCall, EvaluationRow
  <2>3. ReadsAgree(w)'
    BY <2>1, <2>2 DEF PolicyInv, ReadsAgree, NamesPolicy
  <2>4. \A v \in Writers : ReadsAgree(v)'
    BY <1>7, <2>2, <2>3, OthersAgree DEF Decide, policyVars
  <2> QED
    BY <1>7, <2>4, PolicyAside DEF Decide, ReadHead, policyVars
<1>8. ASSUME NEW w \in Writers, RecordDecision(w)
      PROVE  PolicyInv'
  <2>1. /\ DOMAIN entries = 1 .. Len(entries) /\ Len(entries) \in Nat
        /\ DOMAIN entries' = 1 .. Len(entries) + 1
        /\ entries'[Len(entries) + 1].payload = call[w].row
        /\ call'[w].pc = "audited"
        /\ \A v \in Writers \ {w} : call'[v] = call[v]
    BY <1>8, DecisionRecorded
  <2>2. NamesPolicy(call[w].row)
    BY <1>8 DEF RecordDecision, At, PolicyInv, ReadsAgree
  <2>3. \A v \in Writers : ReadsAgree(v)'
    BY <1>8, <1>l, <2>1
    DEF RecordDecision, policyVars, PolicyInv, ReadsAgree, NamesPolicy
  <2>4. \A i \in DOMAIN entries' : i \in DOMAIN entries
                                   \/ NamesPolicy(entries'[i].payload)
    BY <2>1, <2>2
  <2> QED
    BY <1>8, <2>3, <2>4, PolicyAside DEF RecordDecision, policyVars
<1>9. ASSUME NEW w \in Writers,
             \/ CreateApproval(w) \/ CreateIncident(w) \/ BeginResolutionRow(w)
             \/ \E a \in Ids, resolution \in Resolutions : Resolve(w, a, resolution)
             \/ Crash(w)
      PROVE  PolicyInv'
  <2>1. /\ UNCHANGED <<entries, policyVars>>
        /\ \A v \in Writers \ {w} : call'[v] = call[v]
    BY <1>9, <1>c DEF CreateApproval, CreateIncident, BeginResolutionRow, Resolve,
       Crash, Goto, Finish, ReadHead, ledgerVars
  <2>2. call'[w].pc \notin {"loaded", "hashed", "described", "decided"}
    <3>1. CASE CreateApproval(w)
      BY <3>1, <1>c, CallShape DEF CreateApproval, Goto, At, RecordingCall
    <3>2. CASE BeginResolutionRow(w)
      BY <3>2, <1>c, CallShape DEF BeginResolutionRow, Goto, At, ResolutionCall
    <3>3. CASE ~CreateApproval(w) /\ ~BeginResolutionRow(w)
      BY <1>9, <1>c, <3>3 DEF CreateIncident, Resolve, Crash, Finish, Idle
    <3> QED
      BY <3>1, <3>2, <3>3
  <2>3. \A v \in Writers : ReadsAgree(v)'
    BY <1>l, <2>1, <2>2 DEF policyVars, PolicyInv, ReadsAgree, NamesPolicy
  <2> QED
    BY <2>1, <2>3, PolicyAside DEF policyVars
<1>10. ASSUME NEW w \in Writers, RecordResolution(w)
       PROVE  PolicyInv'
  <2>0. /\ DOMAIN entries = 1 .. Len(entries) /\ Len(entries) \in Nat
        /\ DOMAIN entries' = 1 .. Len(entries) + 1
        /\ entries'[Len(entries) + 1].payload =
              [event |-> "HUMAN_APPROVAL", audit |-> call[w].audit,
               resolution |-> call[w].resolution]
        /\ call'[w] = Idle
        /\ \A v \in Writers \ {w} : call'[v] = call[v]
    BY <1>10, ResolutionRowed
  <2>1. /\ DOMAIN entries = 1 .. Len(entries) /\ Len(entries) \in Nat
        /\ DOMAIN entries' = 1 .. Len(entries) + 1
        /\ (entries'[Len(entries) + 1].payload).event = "HUMAN_APPROVAL"
        /\ call'[w] = Idle
        /\ \A v \in Writers \ {w} : call'[v] = call[v]
    BY <2>0
  <2>2. \A v \in Writers : ReadsAgree(v)'
    BY <1>10, <1>l, <2>1
    DEF RecordResolution, policyVars, PolicyInv, ReadsAgree, NamesPolicy, Idle
  <2>3. \A i \in DOMAIN entries' : i \in DOMAIN entries
                                   \/ (entries'[i].payload).event # "EVALUATION"
    BY <2>1
  <2> QED
    BY <1>10, <2>2, <2>3, PolicyAside DEF RecordResolution, policyVars
<1>11. CASE UNCHANGED vars
    BY <1>11, <1>l DEF vars, policyVars, ledgerVars, PolicyInv, BoundWasPublished,
       ReadsAgree, NamesPolicy, IsEvaluation
<1> QED
    BY <1>1, <1>2, <1>3, <1>4, <1>5, <1>6, <1>7, <1>8, <1>9, <1>10, <1>11 DEF Next

\* An evaluation no policy change overtakes records the policy it ran under: by
\* its hash, by its bundle where the signature verified, and as the shipped file
\* otherwise.
THEOREM QuietRowsNamePolicy == Spec => []QuietRowNamesPolicy
<1>1. Init => TypeInv /\ PolicyInv
    BY TypeInit, PolicyInit
<1>2. TypeInv /\ PolicyInv /\ [Next]_vars => TypeInv' /\ PolicyInv'
    BY TypeStep, PolicyStep
<1>3. PolicyInv => QuietRowNamesPolicy
    BY DEF PolicyInv, QuietRowNamesPolicy, NamesPolicy, Evaluated
<1> QED
    BY <1>1, <1>2, <1>3, PTL DEF Spec

-----------------------------------------------------------------------------
(* An evaluation is answered once.                                         *)

\* A handler that records was recording, or has just inserted its row.
LEMMA RecordingBegins ==
    ASSUME TypeInv, [Next]_vars, NEW w \in Writers, Recording(w)'
    PROVE  \/ Recording(w) /\ call'[w].audit = call[w].audit
           \/ RecordDecision(w) /\ call'[w].audit = Len(entries) + 1
<1> DEFINE Goal == \/ Recording(w) /\ call'[w].audit = call[w].audit
                   \/ RecordDecision(w) /\ call'[w].audit = Len(entries) + 1
<1>c. call \in [Writers -> Calls]
    BY DEF TypeInv, TypeOK, Calls
<1>0. ASSUME call'[w] = call[w] PROVE Goal
    BY <1>0 DEF Recording
<1>1. ASSUME NEW b \in Bundles, Activate(b)
      PROVE  Goal
  <2>1. CASE call[w].pc \in {"loaded", "hashed"}
    <3>1. call[w] \in EvaluationCall
      BY <2>1, CallShape
    <3>2. call'[w] = [call[w] EXCEPT !.row.torn = TRUE]
      BY <1>1, <2>1 DEF Activate, Tear
    <3>3. call'[w].pc = call[w].pc
      BY <3>1, <3>2 DEF EvaluationCall
    <3> QED
      BY <2>1, <3>3 DEF Recording
  <2>2. CASE call[w].pc \notin {"loaded", "hashed"}
    BY <1>0, <1>1, <2>2 DEF Activate, Tear
  <2> QED
    BY <2>1, <2>2
<1>2. CASE Redeploy
    BY <1>2 DEF Redeploy, Recording, Idle
<1>3. ASSUME NEW v \in Writers, v # w,
             \/ BeginEvaluation(v) \/ HashPolicy(v) \/ DescribeBinding(v)
             \/ \E verdict \in Verdicts : Decide(v, verdict)
             \/ RecordDecision(v) \/ CreateApproval(v) \/ CreateIncident(v)
             \/ \E a \in Ids, resolution \in Resolutions : Resolve(v, a, resolution)
             \/ BeginResolutionRow(v) \/ RecordResolution(v) \/ Crash(v)
      PROVE  Goal
  <2>1. call'[w] = call[w]
    BY <1>c, <1>3 DEF BeginEvaluation, HashPolicy, DescribeBinding, Decide,
       RecordDecision, CreateApproval, CreateIncident, Resolve, BeginResolutionRow,
       RecordResolution, Crash, Goto, Finish
  <2> QED
    BY <1>0, <2>1
<1>4. ASSUME \/ HashPolicy(w) \/ DescribeBinding(w)
             \/ \E verdict \in Verdicts : Decide(w, verdict)
      PROVE  Goal
  <2>1. call[w] \in EvaluationCall
    BY <1>4, CallShape DEF HashPolicy, DescribeBinding, Decide, At
  <2>2. call'[w].pc \in {"hashed", "described", "decided"}
    <3>1. CASE HashPolicy(w)
      BY <1>c, <2>1, <3>1 DEF HashPolicy, EvaluationCall
    <3>2. CASE DescribeBinding(w)
      BY <1>c, <2>1, <3>2 DEF DescribeBinding, EvaluationCall
    <3>3. CASE \E verdict \in Verdicts : Decide(w, verdict)
      BY <1>c, <2>1, <3>3 DEF Decide, EvaluationCall
    <3> QED
      BY <1>4, <3>1, <3>2, <3>3
  <2> QED
    BY <2>2 DEF Recording
<1>5. ASSUME RecordDecision(w)
      PROVE  Goal
    BY <1>5, <1>c DEF RecordDecision
<1>6. ASSUME CreateApproval(w)
      PROVE  Goal
  <2>1. call[w] \in RecordingCall /\ Recording(w)
    BY <1>6, CallShape DEF CreateApproval, At, Recording
  <2> QED
    BY <1>6, <1>c, <2>1 DEF CreateApproval, Goto, RecordingCall
<1>7. ASSUME \/ BeginEvaluation(w)
             \/ \E a \in Ids, resolution \in Resolutions : Resolve(w, a, resolution)
             \/ CreateIncident(w) \/ RecordResolution(w) \/ Crash(w)
      PROVE  Goal
    BY <1>7, <1>c DEF BeginEvaluation, Resolve, CreateIncident, RecordResolution,
       Crash, Finish, Recording, Idle
<1>8. ASSUME BeginResolutionRow(w)
      PROVE  Goal
  <2>1. call[w] \in ResolutionCall
    BY <1>8, CallShape DEF BeginResolutionRow, At
  <2>2. call'[w].pc = "signing"
    BY <1>8, <1>c, <2>1 DEF BeginResolutionRow, Goto, ResolutionCall
  <2> QED
    BY <2>2 DEF Recording
<1>9. ASSUME \/ UNCHANGED vars
             \/ \E b \in Bundles : Publish(b)
      PROVE  Goal
    BY <1>0, <1>9 DEF vars, Publish
<1> QED
    BY <1>1, <1>2, <1>3, <1>4, <1>5, <1>6, <1>7, <1>8, <1>9 DEF Next

OnceInv == \A w \in Writers : Recording(w) => call[w].audit \notin answered

LEMMA OnceInit == Init => OnceInv
BY DEF Init, OnceInv

LEMMA OnceStep == TypeInv /\ TrailInv /\ OnceInv /\ [Next]_vars => OnceInv'
<1> SUFFICES ASSUME TypeInv, TrailInv, OnceInv, [Next]_vars,
                    NEW w \in Writers, Recording(w)'
             PROVE  call'[w].audit \notin answered'
    BY DEF OnceInv
<1>c. call \in [Writers -> Calls]
    BY DEF TypeInv, TypeOK, Calls
<1>1. call'[w].audit \notin answered
  <2>1. CASE Recording(w) /\ call'[w].audit = call[w].audit
    BY <2>1 DEF OnceInv
  <2>2. CASE RecordDecision(w) /\ call'[w].audit = Len(entries) + 1
    <3>1. DOMAIN entries = 1 .. Len(entries) /\ Len(entries) \in Nat
      BY <2>2, DecisionRecorded
    <3>2. Len(entries) + 1 \notin DOMAIN entries
      BY <3>1
    <3> QED
      BY <2>2, <3>2 DEF TrailInv, EvidenceComplete, IsEvaluation
  <2> QED
    BY <2>1, <2>2, RecordingBegins
<1>2. ASSUME NEW v \in Writers, CreateIncident(v)
      PROVE  call'[w].audit \notin answered'
  <2>1. call'[v] = Idle /\ call'[w] = call[w] /\ v # w
    BY <1>2, <1>c DEF CreateIncident, Finish, Recording, Idle
  <2>2. Recording(w) /\ Recording(v)
    BY <1>2, <2>1 DEF Recording, CreateIncident, At
  <2>3. call[w].audit # call[v].audit
    BY <2>1, <2>2 DEF TrailInv
  <2> QED
    BY <1>1, <1>2, <2>1, <2>3 DEF CreateIncident
<1>3. ASSUME \A v \in Writers : ~CreateIncident(v)
      PROVE  answered' = answered
    BY <1>3 DEF Next, Publish, Activate, Redeploy, BeginEvaluation, HashPolicy,
       DescribeBinding, Decide, RecordDecision, CreateApproval, Resolve,
       BeginResolutionRow, RecordResolution, Crash, vars
<1> QED
    BY <1>1, <1>2, <1>3

-----------------------------------------------------------------------------
(* Evaluation implements EvidenceTrail.                                    *)

Words == [w \in Writers |-> Word(w)]

LEMMA TrailStarts == Init => Abstract!Init
<1> SUFFICES ASSUME Init PROVE Abstract!Init
    OBVIOUS
<1>1. Trail = << >>
    BY DEF Init, LedgerInit, Trail
<1>2. Words = [w \in Writers |-> {}]
    BY DEF Init, Words, Word, At, Idle
<1> QED
    BY <1>1, <1>2 DEF Init, Abstract!Init, Words

\* A row more in the ledger is a row more in the trail.
LEMMA TrailGrows ==
    ASSUME Len(entries) \in Nat, DOMAIN entries = 1 .. Len(entries),
           DOMAIN entries' = 1 .. Len(entries) + 1,
           \A i \in DOMAIN entries : entries'[i] = entries[i],
           NEW gist, gist = Gist(entries'[Len(entries) + 1].payload)
    PROVE  Trail' = Append(Trail, gist)
<1> DEFINE n == Len(entries)
           S == {Trail[i] : i \in DOMAIN Trail}
<1>1. Trail = [i \in 1 .. n |-> Trail[i]]
    BY DEF Trail
<1>2. Trail \in Seq(S) /\ Len(Trail) = n
    BY <1>1
<1>3. Trail' = [i \in 1 .. n + 1 |-> IF i <= n THEN Trail[i] ELSE gist]
  <2>1. Trail' = [i \in 1 .. n + 1 |-> Gist(entries'[i].payload)]
    BY DEF Trail
  <2>2. ASSUME NEW i \in 1 .. n + 1
        PROVE  Gist(entries'[i].payload) = IF i <= n THEN Trail[i] ELSE gist
    <3>1. CASE i <= n
      BY <3>1 DEF Trail
    <3>2. CASE ~(i <= n)
      <4>1. i = n + 1
        BY <3>2
      <4> QED
        BY <3>2, <4>1
    <3> QED
      BY <3>1, <3>2
  <2> HIDE DEF n
  <2> QED
    BY <2>1, <2>2
<1> HIDE DEF n, S
<1>4. Append(Trail, gist) = [i \in 1 .. n + 1 |-> IF i <= n THEN Trail[i] ELSE gist]
    BY <1>2
<1> QED
    BY <1>3, <1>4

LEMMA OthersKeepTheirWord ==
    ASSUME NEW w \in Writers, \A v \in Writers \ {w} : call'[v] = call[v]
    PROVE  \A v \in Writers \ {w} : Word(v)' = Word(v)
BY DEF Word, At

\* A step of a handler that has no word to record and leaves evidence alone.
LEMMA TrailStutters ==
    ASSUME UNCHANGED <<entries, approvals, incidents, answered>>,
           \A w \in Writers : Word(w)' = Word(w)
    PROVE  UNCHANGED Abstract!trailVars
<1>1. Trail' = Trail
    BY DEF Trail
<1>2. Words' = Words
    BY DEF Words
<1> QED
    BY <1>1, <1>2 DEF Abstract!trailVars, Words

\* The handlers of W die.
LEMMA WordsForgotten ==
    ASSUME UNCHANGED <<entries, approvals, incidents, answered>>,
           NEW W \in SUBSET Writers,
           \A w \in Writers : Word(w)' = IF w \in W THEN {} ELSE Word(w)
    PROVE  Abstract!Next
<1>1. Trail' = Trail
    BY DEF Trail
<1>2. Words' = [w \in Writers |-> IF Words'[w] = {} THEN {} ELSE Words[w]]
    BY DEF Words
<1>3. Abstract!Forget
    BY <1>1, <1>2 DEF Abstract!Forget, Words
<1> QED
    BY <1>3 DEF Abstract!Next

LEMMA EvaluationIsOne ==
    ASSUME TypeInv, NEW w \in Writers, RecordDecision(w)
    PROVE  Abstract!Next
<1> PICK decision \in Decisions, risky \in BOOLEAN :
        decision = call[w].row.decision /\ risky = call[w].row.risky
    BY DecisionRecorded DEF EvaluationRow
<1> DEFINE gist == [event |-> "EVALUATION", decision |-> decision, risky |-> risky]
<1>1. /\ DOMAIN entries = 1 .. Len(entries) /\ Len(entries) \in Nat
      /\ DOMAIN entries' = 1 .. Len(entries) + 1
      /\ \A i \in DOMAIN entries : entries'[i] = entries[i]
      /\ entries'[Len(entries) + 1].payload = call[w].row
      /\ call[w].row \in EvaluationRow
      /\ call'[w] = [pc |-> "audited", audit |-> Len(entries) + 1]
      /\ \A v \in Writers \ {w} : call'[v] = call[v]
    BY DecisionRecorded
<1>2. gist = Gist(entries'[Len(entries) + 1].payload)
    BY <1>1 DEF Gist, EvaluationRow
<1> HIDE DEF gist
<1>3. Trail' = Append(Trail, gist)
    BY <1>1, <1>2, TrailGrows
<1>4. Words' = Words
  <2>1. Word(w)' = {} /\ Word(w) = {}
    BY <1>1 DEF RecordDecision, Word, At
  <2>2. \A v \in Writers \ {w} : Word(v)' = Word(v)
    BY <1>1, OthersKeepTheirWord
  <2> QED
    BY <2>1, <2>2 DEF Words
<1>5. Abstract!Evaluate(decision, risky)
    BY <1>3, <1>4
    DEF Abstract!Evaluate, Abstract!EvaluationRow, Words, gist, RecordDecision
<1> QED
    BY <1>5 DEF Abstract!Next

LEMMA RecordedPlan ==
    ASSUME TypeInv, NEW a, IsEvaluation(a)
    PROVE  /\ Abstract!IsEvaluated(a)
           /\ Trail[a].decision = Evaluated(a).decision
           /\ Trail[a].risky = Evaluated(a).risky
<1>1. Trail[a] = Gist(entries[a].payload) /\ a \in DOMAIN Trail
    BY DEF Trail, IsEvaluation
<1> QED
    BY <1>1 DEF Abstract!IsEvaluated, Gist, IsEvaluation, Evaluated

LEMMA ApprovalHolds ==
    ASSUME TypeInv, TrailInv, NEW w \in Writers, CreateApproval(w)
    PROVE  [Abstract!Next]_(Abstract!trailVars)
<1>1. call[w] \in RecordingCall /\ call[w].audit \in Ids /\ Recording(w)
    BY CallShape DEF CreateApproval, At, Recording
<1> PICK a \in Ids : a = call[w].audit
    BY <1>1
<1>2. IsEvaluation(a) /\ approvals[a] = NoApproval
    BY <1>1 DEF TrailInv, CreateApproval, At
<1>3. call'[w].pc = "escalated" /\ \A v \in Writers \ {w} : call'[v] = call[v]
    BY <1>1 DEF CreateApproval, Goto, RecordingCall, TypeInv, TypeOK
<1>4. \A v \in Writers : Word(v)' = Word(v)
    BY <1>3 DEF Word, At, CreateApproval
<1>5. CASE Evaluated(a).decision = "REQUIRE_APPROVAL"
  <2>1. Trail' = Trail
    BY DEF CreateApproval, ledgerVars, Trail
  <2>2. Words' = Words
    BY <1>4 DEF Words
  <2>3. Abstract!IsEvaluated(a) /\ Abstract!AsksForPerson(a)
    BY <1>2, <1>5, RecordedPlan DEF Abstract!AsksForPerson
  <2>4. Abstract!Hold(a)
    BY <1>2, <1>5, <2>1, <2>2, <2>3 DEF Abstract!Hold, CreateApproval, Words
  <2> QED
    BY <2>4 DEF Abstract!Next
<1>6. CASE Evaluated(a).decision # "REQUIRE_APPROVAL"
    BY <1>4, <1>6, TrailStutters DEF CreateApproval, ledgerVars
<1> QED
    BY <1>5, <1>6

LEMMA IncidentAnswers ==
    ASSUME TypeInv, TrailInv, OnceInv, NEW w \in Writers, CreateIncident(w)
    PROVE  Abstract!Next
<1>1. call[w] \in RecordingCall /\ call[w].audit \in Ids /\ Recording(w)
    BY CallShape DEF CreateIncident, At, Recording
<1> PICK a \in Ids : a = call[w].audit
    BY <1>1
<1>2. /\ IsEvaluation(a) /\ a \notin answered
      /\ Evaluated(a).decision = "REQUIRE_APPROVAL" => approvals[a] # NoApproval
    BY <1>1 DEF TrailInv, OnceInv, CreateIncident, At
<1>3. call'[w] = Idle /\ \A v \in Writers \ {w} : call'[v] = call[v]
    BY DEF CreateIncident, Finish, TypeInv, TypeOK
<1>4. Words' = Words
    BY <1>3 DEF Words, Word, At, CreateIncident, Idle
<1>5. Trail' = Trail
    BY DEF CreateIncident, ledgerVars, Trail
<1>6. /\ Abstract!IsEvaluated(a)
      /\ Abstract!AsksForPerson(a) => approvals[a] # NoApproval
      /\ Abstract!Grave(a) <=> Reportable(a)
    BY <1>2, RecordedPlan DEF Abstract!AsksForPerson, Abstract!Grave, Reportable
<1>7. Abstract!Answer(a)
    BY <1>2, <1>4, <1>5, <1>6 DEF Abstract!Answer, CreateIncident, Words
<1> QED
    BY <1>7 DEF Abstract!Next

LEMMA ResolutionIsGiven ==
    ASSUME TypeInv, NEW w \in Writers, NEW a \in Ids, NEW resolution \in Resolutions,
           Resolve(w, a, resolution)
    PROVE  Abstract!Next
<1>1. /\ call'[w] = [pc |-> "resolved", audit |-> a, resolution |-> resolution]
      /\ \A v \in Writers \ {w} : call'[v] = call[v]
      /\ call[w].pc = "idle"
    BY DEF Resolve, At, TypeInv, TypeOK
<1> DEFINE said == {[event |-> "HUMAN_APPROVAL", audit |-> a, resolution |-> resolution]}
<1>2. Words[w] = {}
    BY <1>1 DEF Words, Word, At
<1>3. Word(w)' = said /\ \A v \in Writers \ {w} : Word(v)' = Word(v)
    BY <1>1 DEF Word, At
<1> HIDE DEF said
<1>4. Words' = [Words EXCEPT ![w] = said]
    BY <1>3 DEF Words
<1>5. Trail' = Trail
    BY DEF Resolve, ledgerVars, Trail
<1>6. Abstract!Resolve(w, a, resolution)
    BY <1>2, <1>4, <1>5 DEF Abstract!Resolve, Resolve, Words, said
<1> QED
    BY <1>6 DEF Abstract!Next

LEMMA ResolutionIsRecorded ==
    ASSUME TypeInv, NEW w \in Writers, RecordResolution(w)
    PROVE  Abstract!Next
<1> PICK row : row = [event |-> "HUMAN_APPROVAL", audit |-> call[w].audit,
                      resolution |-> call[w].resolution]
    OBVIOUS
<1>1. /\ DOMAIN entries = 1 .. Len(entries) /\ Len(entries) \in Nat
      /\ DOMAIN entries' = 1 .. Len(entries) + 1
      /\ \A i \in DOMAIN entries : entries'[i] = entries[i]
      /\ entries'[Len(entries) + 1].payload = row
      /\ call'[w] = Idle
      /\ \A v \in Writers \ {w} : call'[v] = call[v]
    BY ResolutionRowed
<1>2. row.event # "EVALUATION"
    OBVIOUS
<1>3. Gist(row) = row
    BY <1>2 DEF Gist
<1>4. Trail' = Append(Trail, row)
    BY <1>1, <1>3, TrailGrows
<1>5. Words[w] = {row}
    BY DEF Words, Word, At, RecordResolution
<1>6. Word(w)' = {} /\ \A v \in Writers \ {w} : Word(v)' = Word(v)
  <2>1. Word(w)' = {}
    BY <1>1 DEF Word, At, Idle
  <2> QED
    BY <1>1, <2>1, OthersKeepTheirWord
<1>7. Words' = [Words EXCEPT ![w] = {}]
    BY <1>6 DEF Words
<1>8. Abstract!Record(w)
    BY <1>4, <1>5, <1>7 DEF Abstract!Record, RecordResolution, Words
<1> QED
    BY <1>8 DEF Abstract!Next

LEMMA TrailRefined ==
    TypeInv /\ TrailInv /\ OnceInv /\ [Next]_vars => [Abstract!Next]_(Abstract!trailVars)
<1> SUFFICES ASSUME TypeInv, TrailInv, OnceInv, [Next]_vars
             PROVE  [Abstract!Next]_(Abstract!trailVars)
    OBVIOUS
<1>c. call \in [Writers -> Calls]
    BY DEF TypeInv, TypeOK, Calls
<1>1. ASSUME NEW b \in Bundles, Publish(b)
      PROVE  [Abstract!Next]_(Abstract!trailVars)
    BY <1>1, TrailStutters DEF Publish, ledgerVars, Word, At
<1>2. ASSUME NEW b \in Bundles, Activate(b)
      PROVE  [Abstract!Next]_(Abstract!trailVars)
  <2>1. ASSUME NEW w \in Writers
        PROVE  Word(w)' = Word(w)
    <3>1. CASE call[w].pc \in {"loaded", "hashed"}
      <4>1. call[w] \in EvaluationCall
        BY <3>1, CallShape
      <4>2. call'[w] = [call[w] EXCEPT !.row.torn = TRUE]
        BY <1>2, <3>1 DEF Activate, Tear
      <4>3. call'[w].pc = call[w].pc
        BY <4>1, <4>2 DEF EvaluationCall
      <4> QED
        BY <3>1, <4>3 DEF Word, At
    <3>2. CASE call[w].pc \notin {"loaded", "hashed"}
      <4>1. call'[w] = call[w]
        BY <1>2, <3>2 DEF Activate, Tear
      <4> QED
        BY <4>1 DEF Word, At
    <3> QED
      BY <3>1, <3>2
  <2> QED
    BY <1>2, <2>1, TrailStutters DEF Activate, ledgerVars
<1>3. CASE Redeploy
  <2>1. \A w \in Writers : Word(w)' = IF w \in Writers THEN {} ELSE Word(w)
    BY <1>3 DEF Redeploy, Word, At, Idle
  <2> QED
    BY <1>3, <2>1, WordsForgotten DEF Redeploy
<1>4. ASSUME NEW w \in Writers,
             \/ BeginEvaluation(w) \/ HashPolicy(w) \/ DescribeBinding(w)
             \/ \E verdict \in Verdicts : Decide(w, verdict)
      PROVE  [Abstract!Next]_(Abstract!trailVars)
  <2>1. call[w].pc \in {"loaded", "hashed", "described"} => call[w] \in EvaluationCall
    BY CallShape
  <2>2. /\ call[w].pc \in {"idle", "loaded", "hashed", "described"}
        /\ \A v \in Writers \ {w} : call'[v] = call[v]
        /\ UNCHANGED <<entries, approvals, incidents, answered>>
    BY <1>4, <1>c
    DEF BeginEvaluation, HashPolicy, DescribeBinding, Decide, ReadHead, At, ledgerVars
  <2>3. call'[w].pc \in {"loaded", "hashed", "described", "decided"}
    <3>1. CASE BeginEvaluation(w)
      BY <1>c, <3>1 DEF BeginEvaluation
    <3>2. CASE HashPolicy(w)
      BY <1>c, <2>1, <3>2 DEF HashPolicy, At, EvaluationCall
    <3>3. CASE DescribeBinding(w)
      BY <1>c, <2>1, <3>3 DEF DescribeBinding, At, EvaluationCall
    <3>4. CASE \E verdict \in Verdicts : Decide(w, verdict)
      BY <1>c, <2>1, <3>4 DEF Decide, At, EvaluationCall
    <3> QED
      BY <1>4, <3>1, <3>2, <3>3, <3>4
  <2>4. Word(w)' = Word(w)
    BY <2>2, <2>3 DEF Word, At
  <2> QED
    BY <2>2, <2>4, OthersKeepTheirWord, TrailStutters
<1>5. ASSUME NEW w \in Writers, BeginResolutionRow(w)
      PROVE  [Abstract!Next]_(Abstract!trailVars)
  <2>1. call[w] \in ResolutionCall
    BY <1>5, CallShape DEF BeginResolutionRow, At
  <2>2. /\ call'[w].pc = "signing" /\ call'[w].audit = call[w].audit
        /\ call'[w].resolution = call[w].resolution
        /\ \A v \in Writers \ {w} : call'[v] = call[v]
    BY <1>5, <1>c, <2>1 DEF BeginResolutionRow, Goto, ResolutionCall
  <2>3. \A v \in Writers : Word(v)' = Word(v)
    BY <1>5, <2>2 DEF Word, At, BeginResolutionRow
  <2> QED
    BY <1>5, <2>3, TrailStutters DEF BeginResolutionRow, ReadHead
<1>6. ASSUME NEW w \in Writers, Crash(w)
      PROVE  [Abstract!Next]_(Abstract!trailVars)
  <2>1. call'[w] = Idle /\ \A v \in Writers \ {w} : call'[v] = call[v]
    BY <1>6, <1>c DEF Crash, Finish
  <2>2. \A v \in Writers : Word(v)' = IF v \in {w} THEN {} ELSE Word(v)
    BY <2>1 DEF Word, At, Idle
  <2> QED
    BY <1>6, <2>2, WordsForgotten DEF Crash
<1>7. CASE UNCHANGED vars
    BY <1>7, TrailStutters DEF vars, ledgerVars, Word, At
<1> QED
    BY <1>1, <1>2, <1>3, <1>4, <1>5, <1>6, <1>7, EvaluationIsOne, ApprovalHolds,
       IncidentAnswers, ResolutionIsGiven, ResolutionIsRecorded
    DEF Next

\* However handlers interleave between their store calls and wherever they die,
\* what they leave is a trail as EvidenceTrail promises it (evaluate_plan,
\* resolve, ledger.append).
THEOREM HandlersLeaveATrail == Spec => ImplementsEvidenceTrail
<1>1. Spec => [](TypeInv /\ TrailInv /\ OnceInv)
  <2>1. TypeInv /\ TrailInv /\ OnceInv /\ [Next]_vars => (TypeInv /\ TrailInv /\ OnceInv)'
    BY TypeStep, TrailStep, OnceStep
  <2>2. Init => TypeInv /\ TrailInv /\ OnceInv
    BY TypeInit, TrailInit, OnceInit
  <2> QED
    BY <2>1, <2>2, PTL DEF Spec
<1> QED
    BY <1>1, TrailStarts, TrailRefined, PTL
    DEF Spec, ImplementsEvidenceTrail, Abstract!Spec

=============================================================================
