----------------------- MODULE PolicyGovernanceProofs -----------------------
(***************************************************************************)
(* Theorems about PolicyGovernance, for every set of members, groups,      *)
(* requests, bundles and concurrent votes.                                 *)
(***************************************************************************)
EXTENDS PolicyGovernance, FiniteSetTheorems, TLAPS

\* Votes, calls and certificates exist only for requests that were opened.
OpenedFirst ==
    /\ \A c \in Calls : call[c] # Idle => Opened(call[c].request)
    /\ \A r \in Requests : ~Opened(r) => \A e \in Emails : votes[r][e] = NoVote
    /\ \A r \in certified : Opened(r)

\* A signing key is replaced by one of the changes MaxChanges bounds.
KeysCounted == signingKey <= changes + 1

TypeInv == TypeOK /\ OpenedFirst /\ KeysCounted

LEMMA GroupMinimum ==
    ASSUME TypeOK, NEW g \in GroupNames
    PROVE  RequiredApprovals(g) \in Nat \ {0}
BY DEF TypeOK, RbacTypeOK, RequiredApprovals, Group

LEMMA TypeInit == Init => TypeInv
<1> SUFFICES ASSUME Init PROVE TypeInv
    OBVIOUS
<1> USE RbacAssumption, GovernanceAssumption DEF Init, RbacInit
<1>1. TypeOK
    BY DEF TypeOK, RbacTypeOK
<1>2. OpenedFirst
    BY DEF OpenedFirst, Opened
<1>3. KeysCounted
    BY DEF KeysCounted
<1> QED
    BY <1>1, <1>2, <1>3 DEF TypeInv

\* A vote that moves on is still one, of the same request.
LEMMA MovedCall ==
    ASSUME NEW v \in VoteCall, NEW step \in Steps, NEW people \in SUBSET Emails
    PROVE  /\ [v EXCEPT !.pc = step] \in VoteCall
           /\ [v EXCEPT !.pc = step, !.approvers = people] \in VoteCall
           /\ [v EXCEPT !.pc = step].request = v.request
           /\ [v EXCEPT !.pc = step, !.approvers = people].request = v.request
           /\ v # Idle
<1>1. v.pc # Idle.pc
    BY DEF VoteCall, Steps, Idle
<1> QED
    BY <1>1 DEF VoteCall

LEMMA TypeStep == TypeInv /\ [Next]_vars => TypeInv'
<1> SUFFICES ASSUME TypeInv, [Next]_vars PROVE TypeInv'
    OBVIOUS
<1> USE RbacAssumption, GovernanceAssumption
    DEF TypeInv, TypeOK, OpenedFirst, KeysCounted, RbacTypeOK, settings, history, bounds,
        rbacVars, Opened
<1>1. ASSUME NEW by \in Emails, NEW e \in Emails, NEW role \in AssignableRoles,
             ChangeRole(by, e, role)
      PROVE  TypeInv'
    BY <1>1 DEF ChangeRole, SetRole
<1>2. ASSUME NEW g \in GroupNames, NEW config \in GroupConfigs,
             ChangeGroup(g, config)
      PROVE  TypeInv'
    BY <1>2 DEF ChangeGroup, UpsertGroup
<1>3. CASE RotateSigningKey
    BY <1>3 DEF RotateSigningKey
<1>4. ASSUME NEW b \in Bundles, Publish(b)
      PROVE  TypeInv'
    BY <1>4 DEF Publish
<1>5. ASSUME NEW by \in Emails, NEW b \in Bundles, ActivateDirectly(by, b)
      PROVE  TypeInv'
    BY <1>5 DEF ActivateDirectly
<1>6. ASSUME NEW r \in Requests, NEW by \in Emails, NEW b \in Bundles,
             NEW g \in GroupNames, Propose(r, by, b, g)
      PROVE  TypeInv'
    BY <1>6 DEF Propose, Request, NoRequest, Statuses
<1>7. ASSUME NEW c \in Calls, NEW r \in Requests, NEW e \in Emails,
             NEW d \in Decisions, BeginVote(c, r, e, d)
      PROVE  TypeInv'
    BY <1>7 DEF BeginVote, VoteCall, Steps, Idle
<1>8. ASSUME NEW c \in Calls, RecordVote(c)
      PROVE  TypeInv'
  <2>1. call[c] \in VoteCall
    BY <1>8 DEF RecordVote, At, Idle
  <2>2. /\ call[c].request \in Requests
        /\ call[c].actor \in Emails
        /\ call[c].decision \in Decisions
        /\ Opened(call[c].request)
    <3>1. /\ call[c].request \in Requests
          /\ call[c].actor \in Emails
          /\ call[c].decision \in Decisions
      BY <2>1 DEF VoteCall
    <3>2. call[c] # Idle
      BY <1>8 DEF RecordVote, At, Idle
    <3> QED
      BY <3>1, <3>2
  <2>3. call' = [call EXCEPT ![c] = [call[c] EXCEPT !.pc = "recorded"]]
    BY <1>8, <2>1 DEF RecordVote, Advance
  <2>4. call' \in [Calls -> VoteCall \cup {Idle}]
    BY <2>1, <2>3, MovedCall DEF Steps
  <2>5. \A d \in Calls : call'[d] # Idle => /\ call[d] # Idle
                                           /\ call'[d].request = call[d].request
    BY <2>1, <2>3, MovedCall DEF Steps
  <2>6. /\ votes' \in [Requests -> [Emails -> Decisions \cup {NoVote}]]
        /\ \A q \in Requests : ~Opened(q) => votes'[q] = votes[q]
    BY <1>8, <2>2 DEF RecordVote
  <2>7. UNCHANGED <<rbacVars, settings, signingKey, signedWith, binding, requests, bounds,
                    history>>
    BY <1>8 DEF RecordVote
  <2> QED
    BY <2>4, <2>5, <2>6, <2>7
<1>9. ASSUME NEW c \in Calls, RejectRequest(c)
      PROVE  TypeInv'
  <2> DEFINE r == call[c].request
  <2>1. call[c] \in VoteCall /\ r \in Requests /\ requests[r] \in Request
    BY <1>9 DEF RejectRequest, SettleRejected, At, Idle, VoteCall
  <2>2. requests' = [requests EXCEPT ![r].status = "REJECTED"]
    BY <1>9 DEF RejectRequest, SettleRejected
  <2>3. requests' \in [Requests -> Request \cup {NoRequest}]
    BY <2>1, <2>2 DEF Request, Statuses
  <2>4. requests'[r].status = "REJECTED"
    BY <2>1, <2>2 DEF Request
  <2>9. requests[r] # NoRequest /\ requests'[r] # NoRequest
    BY <2>1, <2>4 DEF Request, NoRequest, Statuses
  <2>5. \A q \in Requests : (requests'[q] = NoRequest) <=> (requests[q] = NoRequest)
    BY <2>2, <2>9
  <2>6. call' = [call EXCEPT ![c] = Idle]
    BY <1>9 DEF RejectRequest, SettleRejected, Finish
  <2>7. overtaken' \subseteq Requests
    BY <1>9, <2>1 DEF RejectRequest, SettleRejected
  <2>8. UNCHANGED <<rbacVars, settings, signingKey, signedWith, binding, votes, bounds,
                    certified, everBound, interrupted>>
    BY <1>9 DEF RejectRequest, SettleRejected
  <2>10. TypeOK'
    BY <2>3, <2>6, <2>7, <2>8
  <2>13. \A d \in Calls : call'[d] # Idle => /\ call[d] # Idle
                                            /\ call'[d] = call[d]
                                            /\ call[d].request \in Requests
    BY <2>6 DEF VoteCall
  <2>11. OpenedFirst'
    BY <2>5, <2>8, <2>13
  <2>12. KeysCounted'
    BY <2>8
  <2> QED
    BY ONLY <2>10, <2>11, <2>12 DEF TypeInv
<1>15. ASSUME NEW c \in Calls, ReadVotes(c)
       PROVE  TypeInv'
  <2>1. call[c] \in VoteCall
    BY <1>15 DEF ReadVotes, At, Idle
  <2>2. Approvers(call[c].request) \in SUBSET Emails
    BY DEF Approvers
  <2>6. call' = [call EXCEPT ![c] = [call[c] EXCEPT !.pc = "tallied",
                                     !.approvers = Approvers(call[c].request)]]
    BY <1>15, <2>1 DEF ReadVotes
  <2> DEFINE moved == [call[c] EXCEPT !.pc = "tallied",
                                      !.approvers = Approvers(call[c].request)]
  <2>7. moved \in VoteCall /\ moved.request = call[c].request /\ call[c] # Idle
    BY <2>1, <2>2, MovedCall DEF Steps
  <2>8. call' = [call EXCEPT ![c] = moved]
    BY <2>6
  <2> HIDE DEF moved
  <2>3. call' \in [Calls -> VoteCall \cup {Idle}]
    BY <2>7, <2>8
  <2>4. \A d \in Calls : call'[d] # Idle => /\ call[d] # Idle
                                           /\ call'[d].request = call[d].request
    BY <2>7, <2>8
  <2>5. UNCHANGED <<rbacVars, settings, signingKey, signedWith, binding, requests, votes,
                    bounds, history>>
    BY <1>15 DEF ReadVotes
  <2> QED
    BY <2>3, <2>4, <2>5
<1>10. ASSUME NEW c \in Calls, CountApprovals(c)
       PROVE  TypeInv'
  <2> DEFINE r == call[c].request
  <2>1. call[c] \in VoteCall /\ r \in Requests /\ Opened(r)
    BY <1>10 DEF CountApprovals, At, Idle, VoteCall
  <2>2. \/ call' = [call EXCEPT ![c] = [call[c] EXCEPT !.pc = "quorate", !.approvers = {}]]
        \/ call' = [call EXCEPT ![c] = Idle]
    BY <1>10, <2>1 DEF CountApprovals, Finish
  <2>6. /\ [call[c] EXCEPT !.pc = "quorate", !.approvers = {}] \in VoteCall
        /\ [call[c] EXCEPT !.pc = "quorate", !.approvers = {}].request = r
        /\ call[c] # Idle
    BY <2>1, MovedCall DEF Steps
  <2>3. call' \in [Calls -> VoteCall \cup {Idle}]
    BY <2>2, <2>6
  <2>4. \A d \in Calls : call'[d] # Idle => /\ call[d] # Idle
                                           /\ call'[d].request = call[d].request
    BY <2>2, <2>6
  <2>5. certified' \subseteq Requests /\ \A q \in certified' : Opened(q)
    BY <1>10, <2>1 DEF CountApprovals
  <2> QED
    BY <1>10, <2>3, <2>4, <2>5 DEF CountApprovals
<1>11. ASSUME NEW c \in Calls, ActivateBundle(c)
       PROVE  TypeInv'
  <2> DEFINE r == call[c].request
  <2>1. call[c] \in VoteCall /\ r \in Requests /\ Opened(r)
    BY <1>11 DEF ActivateBundle, At, Idle, VoteCall
  <2>2. \/ call' = [call EXCEPT ![c] = [call[c] EXCEPT !.pc = "bound"]]
        \/ call' = [call EXCEPT ![c] = Idle]
    BY <1>11, <2>1 DEF ActivateBundle, Advance, Finish
  <2> DEFINE moved == [call[c] EXCEPT !.pc = "bound"]
  <2>11. moved \in VoteCall /\ moved.request = r /\ call[c] # Idle
    BY <2>1, MovedCall DEF Steps
  <2>12. call' = [call EXCEPT ![c] = moved] \/ call' = [call EXCEPT ![c] = Idle]
    BY <2>2
  <2> HIDE DEF moved
  <2>3. call' \in [Calls -> VoteCall \cup {Idle}]
    BY <2>11, <2>12
  <2>4. \A d \in Calls : call'[d] # Idle => /\ call[d] # Idle
                                           /\ call'[d].request = call[d].request
    BY <2>11, <2>12
  <2>5. requests[r].bundle \in Bundles
    BY <2>1 DEF Request
  <2>6. /\ binding' \in Bundles \cup {NoBundle}
        /\ everBound' \subseteq Requests
        /\ interrupted' \subseteq Requests
    BY <1>11, <2>1, <2>5 DEF ActivateBundle
  <2>7. UNCHANGED <<rbacVars, settings, signingKey, signedWith, requests, votes,
                    bounds, certified, overtaken>>
    BY <1>11 DEF ActivateBundle
  <2>8. TypeOK'
    BY <2>3, <2>6, <2>7
  <2>9. OpenedFirst'
    BY <2>4, <2>7
  <2>10. KeysCounted'
    BY <2>7
  <2> QED
    BY ONLY <2>8, <2>9, <2>10 DEF TypeInv
<1>12. ASSUME NEW c \in Calls, MarkActivated(c)
       PROVE  TypeInv'
  <2> DEFINE r == call[c].request
  <2>1. r \in Requests /\ requests[r] \in Request
    BY <1>12 DEF MarkActivated, SettleActivated, At, Idle, VoteCall
  <2>2. requests' = [requests EXCEPT ![r].status = "ACTIVATED"]
    BY <1>12 DEF MarkActivated, SettleActivated
  <2>3. requests' \in [Requests -> Request \cup {NoRequest}]
    BY <2>1, <2>2 DEF Request, Statuses
  <2>4. requests'[r].status = "ACTIVATED"
    BY <2>1, <2>2 DEF Request
  <2>5. requests[r] # NoRequest /\ requests'[r] # NoRequest
    BY <2>1, <2>4 DEF Request, NoRequest, Statuses
  <2>6. \A q \in Requests : (requests'[q] = NoRequest) <=> (requests[q] = NoRequest)
    BY <2>2, <2>5
  <2> QED
    BY <1>12, <2>3, <2>6 DEF MarkActivated, SettleActivated, Finish, Idle
<1>13. ASSUME NEW c \in Calls, Crash(c)
       PROVE  TypeInv'
    BY <1>13 DEF Crash, Finish, Idle
<1>14. CASE UNCHANGED vars
    BY <1>14 DEF vars
<1> QED
    BY <1>1, <1>2, <1>3, <1>4, <1>5, <1>6, <1>7, <1>8, <1>9, <1>10, <1>11,
       <1>12, <1>13, <1>14, <1>15
    DEF Next, Administration, Voting

\* Every reachable state is well typed: each row and each vote in progress has
\* the columns and values the code gives it (TypeOK), whatever the order in
\* which handlers, operators and crashes interleave.
THEOREM TypeCorrect == Spec => []TypeInv
<1>1. QED
    BY TypeInit, TypeStep, PTL DEF Spec

\* The same for the invariant TLC checks.
THEOREM WellTyped == Spec => []TypeOK
<1>1. TypeInv => TypeOK
    BY DEF TypeInv
<1> QED
    BY <1>1, TypeCorrect, PTL

-----------------------------------------------------------------------------
(* What a vote has done when it is at each of its steps.                   *)

\* A vote past its count holds a certificate; one past the binding has bound.
StepsDone ==
    \A c \in Calls :
        /\ call[c].pc \in {"quorate", "bound"} => call[c].request \in certified
        /\ call[c].pc = "bound" => call[c].request \in everBound

\* A vote still in progress on a rejected request was there when it was rejected.
RejectedWasOvertaken ==
    \A c \in Calls :
        (call[c] # Idle /\ requests[call[c].request].status = "REJECTED")
        => call[c].request \in overtaken

\* A governed deployment binds nothing but the bundle of a certified request.
BindingCertified ==
    (requireApproval /\ binding # NoBundle)
    => \E r \in certified : requests[r].bundle = binding

VoteInv == /\ StepsDone
           /\ RejectedWasOvertaken
           /\ BindingCertified
           /\ ActivatedWasBound

LEMMA VoteInit == Init => VoteInv
BY DEF Init, VoteInv, StepsDone, RejectedWasOvertaken, BindingCertified,
       ActivatedWasBound, Idle, NoRequest

\* What a vote may do to itself and to the row of its request.
LEMMA CallShape ==
    ASSUME TypeInv, NEW c \in Calls, call[c] # Idle
    PROVE  /\ call[c] \in VoteCall
           /\ call[c].request \in Requests
           /\ requests[call[c].request] \in Request
           /\ requests[call[c].request].bundle \in Bundles
BY DEF TypeInv, TypeOK, OpenedFirst, Opened, VoteCall, Request

LEMMA VoteStep == TypeInv /\ VoteInv /\ [Next]_vars => VoteInv'
<1> SUFFICES ASSUME TypeInv, VoteInv, [Next]_vars PROVE VoteInv'
    OBVIOUS
<1> USE DEF VoteInv, StepsDone, RejectedWasOvertaken, BindingCertified,
        ActivatedWasBound, settings, history, bounds, rbacVars
<1>1. ASSUME NEW by \in Emails, NEW e \in Emails, NEW role \in AssignableRoles,
             ChangeRole(by, e, role)
      PROVE  VoteInv'
    BY <1>1 DEF ChangeRole
<1>2. ASSUME NEW g \in GroupNames, NEW config \in GroupConfigs,
             ChangeGroup(g, config)
      PROVE  VoteInv'
    BY <1>2 DEF ChangeGroup
<1>3. CASE RotateSigningKey
    BY <1>3 DEF RotateSigningKey, Idle
<1>4. ASSUME NEW b \in Bundles, Publish(b)
      PROVE  VoteInv'
    BY <1>4 DEF Publish
<1>5. ASSUME NEW by \in Emails, NEW b \in Bundles, ActivateDirectly(by, b)
      PROVE  VoteInv'
    BY <1>5 DEF ActivateDirectly
<1>6. ASSUME NEW r \in Requests, NEW by \in Emails, NEW b \in Bundles,
             NEW g \in GroupNames, Propose(r, by, b, g)
      PROVE  VoteInv'
  <2>1. \A q \in Requests : q # r => requests'[q] = requests[q]
    BY <1>6 DEF Propose, TypeInv, TypeOK
  <2>2. requests'[r].status = "PENDING"
    BY <1>6 DEF Propose, TypeInv, TypeOK
  <2>3. r \notin certified /\ \A c \in Calls : call[c] # Idle => call[c].request # r
    BY <1>6 DEF Propose, TypeInv, OpenedFirst
  <2>4. certified \subseteq Requests
    BY DEF TypeInv, TypeOK
  <2>5. RejectedWasOvertaken'
    BY <1>6, <2>1, <2>3, CallShape DEF Propose
  <2>6. BindingCertified'
    BY <1>6, <2>1, <2>3, <2>4 DEF Propose
  <2>7. ActivatedWasBound'
    BY <1>6, <2>1, <2>2 DEF Propose
  <2> QED
    BY <1>6, <2>5, <2>6, <2>7 DEF Propose
<1>7. ASSUME NEW c \in Calls, NEW r \in Requests, NEW e \in Emails,
             NEW d \in Decisions, BeginVote(c, r, e, d)
      PROVE  VoteInv'
    BY <1>7 DEF BeginVote, TypeInv, TypeOK
<1>8. ASSUME NEW c \in Calls, RecordVote(c)
      PROVE  VoteInv'
  <2>1. call[c] # Idle
    BY <1>8 DEF RecordVote, At, Idle
  <2>2. \A d \in Calls : /\ call'[d].pc \in {"quorate", "bound"} => call'[d] = call[d]
                         /\ call'[d] # Idle => call'[d].request = call[d].request
                         /\ call'[d] # Idle => call[d] # Idle
    BY <1>8, <2>1, CallShape DEF RecordVote, Advance, VoteCall, TypeInv, TypeOK, Idle
  <2> QED
    BY <1>8, <2>2 DEF RecordVote
<1>9. ASSUME NEW c \in Calls, RejectRequest(c)
      PROVE  VoteInv'
  <2> DEFINE r == call[c].request
  <2>1. call[c] # Idle
    BY <1>9 DEF RejectRequest, SettleRejected, At, Idle
  <2>2. r \in Requests /\ requests[r] \in Request
    BY <2>1, CallShape
  <2>3. /\ \A q \in Requests : q # r => requests'[q] = requests[q]
        /\ requests'[r].status = "REJECTED"
        /\ requests'[r].bundle = requests[r].bundle
    BY <1>9, <2>2 DEF RejectRequest, SettleRejected, TypeInv, TypeOK, Request
  <2>4. /\ \A d \in Calls : d # c => call'[d] = call[d]
        /\ call'[c] = Idle
    BY <1>9 DEF RejectRequest, SettleRejected, Finish, TypeInv, TypeOK
  <2>5. overtaken \subseteq overtaken'
    BY <1>9 DEF RejectRequest, SettleRejected
  <2>6. StepsDone'
    BY <1>9, <2>4 DEF RejectRequest, SettleRejected, Idle
  <2>7. ASSUME NEW d \in Calls, call'[d] # Idle,
               requests'[call'[d].request].status = "REJECTED"
        PROVE  call'[d].request \in overtaken'
    <3>1. d # c /\ call'[d] = call[d] /\ call[d].request \in Requests
      BY <2>4, <2>7, CallShape
    <3>2. CASE call[d].request = r
      BY <1>9, <2>7, <3>1, <3>2 DEF RejectRequest, SettleRejected, OthersInProgress
    <3>3. CASE call[d].request # r
      BY <2>3, <2>5, <2>7, <3>1, <3>3
    <3> QED
      BY <3>2, <3>3
  <2>8. BindingCertified'
    BY <1>9, <2>3 DEF RejectRequest, SettleRejected, TypeInv, TypeOK
  <2>9. ActivatedWasBound'
    BY <1>9, <2>3 DEF RejectRequest, SettleRejected
  <2> QED
    BY <2>6, <2>7, <2>8, <2>9
<1>15. ASSUME NEW c \in Calls, ReadVotes(c)
       PROVE  VoteInv'
  <2>1. call[c] # Idle
    BY <1>15 DEF ReadVotes, At, Idle
  <2>2. \A d \in Calls : /\ call'[d].pc \in {"quorate", "bound"} => call'[d] = call[d]
                         /\ call'[d] # Idle => call'[d].request = call[d].request
                         /\ call'[d] # Idle => call[d] # Idle
    BY <1>15, <2>1, CallShape DEF ReadVotes, VoteCall, TypeInv, TypeOK, Idle
  <2>3. UNCHANGED <<requireApproval, binding, requests, certified, everBound, overtaken>>
    BY <1>15 DEF ReadVotes
  <2> QED
    BY <2>2, <2>3
<1>10. ASSUME NEW c \in Calls, CountApprovals(c)
       PROVE  VoteInv'
  <2>1. call[c] # Idle
    BY <1>10 DEF CountApprovals, At, Idle
  <2>3. \/ /\ call' = [call EXCEPT ![c].pc = "quorate", ![c].approvers = {}]
           /\ certified' = certified \cup {call[c].request}
        \/ /\ call' = [call EXCEPT ![c] = Idle]
           /\ certified' = certified
    BY <1>10 DEF CountApprovals, Finish
  <2>4. \A d \in Calls : d # c => call'[d] = call[d]
    BY <2>3 DEF TypeInv, TypeOK
  <2>5. \/ call'[c] = Idle
        \/ /\ call'[c].pc = "quorate"
           /\ call'[c].request = call[c].request
           /\ call[c].request \in certified'
    BY <2>1, <2>3, CallShape DEF TypeInv, TypeOK, VoteCall
  <2>6. UNCHANGED <<requests, everBound, overtaken, binding, requireApproval>>
        /\ certified \subseteq certified'
    BY <1>10 DEF CountApprovals
  <2> QED
    BY <2>1, <2>4, <2>5, <2>6 DEF Idle
<1>11. ASSUME NEW c \in Calls, ActivateBundle(c)
       PROVE  VoteInv'
  <2> DEFINE r == call[c].request
  <2>1. call[c].pc = "quorate" /\ call[c] # Idle
    BY <1>11 DEF ActivateBundle, At, Idle
  <2>2. r \in certified
    BY <2>1
  <2>3. \/ /\ call' = [call EXCEPT ![c].pc = "bound"]
           /\ everBound' = everBound \cup {r}
           /\ binding' = requests[r].bundle
        \/ /\ call' = [call EXCEPT ![c] = Idle]
           /\ everBound' = everBound
           /\ binding' = binding
    BY <1>11 DEF ActivateBundle, Advance, Finish
  <2>4. \A d \in Calls : d # c => call'[d] = call[d]
    BY <2>3 DEF TypeInv, TypeOK
  <2>5. \/ call'[c] = Idle
        \/ /\ call'[c].pc = "bound"
           /\ call'[c].request = r
           /\ r \in everBound'
    BY <2>1, <2>3, CallShape DEF TypeInv, TypeOK, VoteCall
  <2>6. UNCHANGED <<requests, certified, overtaken, requireApproval>>
        /\ everBound \subseteq everBound'
    BY <1>11 DEF ActivateBundle
  <2> QED
    BY <2>1, <2>2, <2>3, <2>4, <2>5, <2>6 DEF Idle
<1>12. ASSUME NEW c \in Calls, MarkActivated(c)
       PROVE  VoteInv'
  <2> DEFINE r == call[c].request
  <2>1. call[c].pc = "bound" /\ call[c] # Idle
    BY <1>12 DEF MarkActivated, SettleActivated, At, Idle
  <2>2. r \in Requests /\ requests[r] \in Request /\ r \in everBound
    BY <2>1, CallShape
  <2>3. /\ \A q \in Requests : q # r => requests'[q] = requests[q]
        /\ requests'[r].status = "ACTIVATED"
        /\ requests'[r].bundle = requests[r].bundle
    BY <1>12, <2>2
    DEF MarkActivated, SettleActivated, TypeInv, TypeOK, Request
  <2>4. /\ \A d \in Calls : d # c => call'[d] = call[d]
        /\ call'[c] = Idle
    BY <1>12 DEF MarkActivated, SettleActivated, Finish, TypeInv, TypeOK
  <2>5. UNCHANGED <<certified, everBound, overtaken, binding, requireApproval>>
    BY <1>12 DEF MarkActivated, SettleActivated
  <2>6. RejectedWasOvertaken'
    BY <2>3, <2>4, <2>5, CallShape
  <2>7. BindingCertified'
    BY <2>3, <2>5 DEF TypeInv, TypeOK
  <2> QED
    BY <2>2, <2>3, <2>4, <2>5, <2>6, <2>7 DEF Idle
<1>13. ASSUME NEW c \in Calls, Crash(c)
       PROVE  VoteInv'
    BY <1>13 DEF Crash, Finish, Idle, TypeInv, TypeOK
<1>14. CASE UNCHANGED vars
    BY <1>14 DEF vars
<1> QED
    BY <1>1, <1>2, <1>3, <1>4, <1>5, <1>6, <1>7, <1>8, <1>9, <1>10, <1>11,
       <1>12, <1>13, <1>14, <1>15
    DEF Next, Administration, Voting

LEMMA VotesCorrect == Spec => [](TypeInv /\ VoteInv)
<1>1. Init => TypeInv /\ VoteInv
    BY TypeInit, VoteInit
<1>2. TypeInv /\ VoteInv /\ [Next]_vars => TypeInv' /\ VoteInv'
    BY TypeStep, VoteStep
<1> QED
    BY <1>1, <1>2, PTL DEF Spec

\* A request reads ACTIVATED only after its bundle was bound: no interleaving
\* of votes, and no crash between the store calls of vote(), makes the record
\* claim an activation that did not happen.
THEOREM ActivationRecorded == Spec => []ActivatedWasBound
<1>1. VoteInv => ActivatedWasBound
    BY DEF VoteInv
<1> QED
    BY <1>1, VotesCorrect, PTL

\* Where approval is required, the policy load_policy serves is the shipped
\* file or a bundle under the deployed key whose request was counted a quorum.
THEOREM ServedPolicy == Spec => []ServedPolicyGoverned
<1>1. VoteInv => ServedPolicyGoverned
    BY DEF VoteInv, BindingCertified, ServedPolicyGoverned, LoadedPolicy, Verifies
<1> QED
    BY <1>1, VotesCorrect, PTL

\* A rejected request is bound only by a vote that was in progress when it was
\* rejected.
THEOREM RejectionHolds == Spec => RejectionBarsNewVotes
<1>1. ASSUME TypeInv, VoteInv, [Next]_vars
      PROVE  [\A r \in everBound' \ everBound :
                requests[r].status = "REJECTED" => r \in overtaken]_vars
  <2> SUFFICES ASSUME NEW r \in everBound' \ everBound,
                      requests[r].status = "REJECTED"
               PROVE  r \in overtaken
    OBVIOUS
  <2>1. PICK c \in Calls : ActivateBundle(c) /\ call[c].request = r
    BY <1>1 DEF Next, Administration, Voting, ChangeRole, ChangeGroup,
       RotateSigningKey, Publish, ActivateDirectly, Propose, BeginVote,
       RecordVote, RejectRequest, SettleRejected, ReadVotes, CountApprovals,
       ActivateBundle, MarkActivated, SettleActivated, Crash, vars, history
  <2> QED
    BY <1>1, <2>1 DEF ActivateBundle, At, Idle, VoteInv, RejectedWasOvertaken
<1> QED
    BY <1>1, VotesCorrect, PTL DEF Spec, RejectionBarsNewVotes

-----------------------------------------------------------------------------
(* A quorum is never left behind.                                          *)

HasQuorum(r) == Cardinality(Approvers(r)) >= RequiredApprovals(requests[r].group)

\* A vote that will settle r, or has yet to read the votes that make its quorum.
Settling(c, r) ==
    /\ Unsettled(c, r)
    /\ call[c].pc = "tallied" => ApprovalsSuffice(r, call[c].approvers)

\* r is not left behind: if it is pending with a quorum, some vote settles it. A
\* vote that read too few approvals is not enough, for it may be the last.
Attended(r) ==
    (/\ Opened(r)
     /\ requests[r].status = "PENDING"
     /\ r \notin interrupted
     /\ HasQuorum(r))
    => \E c \in Calls : Settling(c, r)

AllAttended == \A r \in Requests : Attended(r)

\* A row of Requests whose votes and group a step leaves alone.
LEMMA SameCount ==
    ASSUME UNCHANGED <<votes, groups, fourEyes>>,
           NEW r \in Requests,
           requests'[r].requestedBy = requests[r].requestedBy,
           requests'[r].group = requests[r].group
    PROVE  /\ HasQuorum(r)' <=> HasQuorum(r)
           /\ \A c \in Calls : call'[c] = call[c] => (Settling(c, r)' <=> Settling(c, r))
BY DEF HasQuorum, Approvers, RequiredApprovals, Settling, Unsettled, ApprovalsSuffice

LEMMA StrandedInit == Init => AllAttended
BY DEF Init, AllAttended, Attended, Opened

\* One request at a time, for a step that leaves its row, its votes and its
\* group alone: whoever was settling it still is, or it was interrupted.
LEMMA StillSettled ==
    ASSUME AllAttended,
           UNCHANGED <<votes, groups, fourEyes>>,
           NEW r \in Requests, requests'[r] = requests[r],
           interrupted \subseteq interrupted',
           \A c \in Calls : Settling(c, r) /\ HasQuorum(r) =>
                \/ call'[c] = call[c]
                \/ Settling(c, r)'
                \/ r \in interrupted'
    PROVE  Attended(r)'
<1>1. HasQuorum(r)' <=> HasQuorum(r)
    BY SameCount
<1>2. \A c \in Calls : Settling(c, r) /\ HasQuorum(r) => Settling(c, r)' \/ r \in interrupted'
    BY SameCount
<1> QED
    BY <1>1, <1>2 DEF AllAttended, Attended, Opened

LEMMA StrandedStep ==
    TypeInv /\ TypeInv' /\ AllAttended /\ [Next]_vars => AllAttended'
<1> SUFFICES ASSUME TypeInv, TypeInv', AllAttended, [Next]_vars,
                    NEW r \in Requests
             PROVE  Attended(r)'
    BY DEF AllAttended
<1> USE DEF settings, history, bounds, rbacVars
<1>1. ASSUME NEW by \in Emails, NEW e \in Emails, NEW role \in AssignableRoles,
             ChangeRole(by, e, role)
      PROVE  Attended(r)'
    BY <1>1, StillSettled DEF ChangeRole, SetRole
<1>2. ASSUME NEW g \in GroupNames, NEW config \in GroupConfigs,
             ChangeGroup(g, config)
      PROVE  Attended(r)'
  <2>1. Opened(r)' <=> Opened(r)
    BY <1>2 DEF ChangeGroup, Opened
  <2>2. CASE ~Opened(r) \/ requests[r].group = g
    BY <1>2, <2>1, <2>2 DEF ChangeGroup, Attended
  <2>3. CASE Opened(r) /\ requests[r].group # g
    <3>1. groups'[requests[r].group] = groups[requests[r].group]
      BY <1>2, <2>3
      DEF ChangeGroup, UpsertGroup, TypeInv, TypeOK, RbacTypeOK, Opened, Request
    <3>2. HasQuorum(r)' <=> HasQuorum(r)
      BY <1>2, <3>1 DEF ChangeGroup, HasQuorum, Approvers, RequiredApprovals
    <3>3. \A c \in Calls : Settling(c, r)' <=> Settling(c, r)
      BY <1>2, <3>1
      DEF ChangeGroup, Settling, Unsettled, ApprovalsSuffice, RequiredApprovals
    <3> QED
      BY <1>2, <3>2, <3>3 DEF ChangeGroup, AllAttended, Attended, Opened
  <2> QED
    BY <2>2, <2>3
<1>3. CASE RotateSigningKey
    BY <1>3, StillSettled DEF RotateSigningKey, Settling
<1>4. ASSUME NEW b \in Bundles, Publish(b)
      PROVE  Attended(r)'
    BY <1>4, StillSettled DEF Publish
<1>5. ASSUME NEW by \in Emails, NEW b \in Bundles, ActivateDirectly(by, b)
      PROVE  Attended(r)'
    BY <1>5, StillSettled DEF ActivateDirectly
<1>6. ASSUME NEW q \in Requests, NEW by \in Emails, NEW b \in Bundles,
             NEW g \in GroupNames, Propose(q, by, b, g)
      PROVE  Attended(r)'
  <2>1. CASE q # r
    <3>1. requests'[r] = requests[r]
      BY <1>6, <2>1 DEF Propose, TypeInv, TypeOK
    <3> QED
      BY <1>6, <3>1, StillSettled DEF Propose
  <2>2. CASE q = r
    <3>1. \A e \in Emails : votes'[r][e] = NoVote
      BY <1>6, <2>2 DEF Propose, TypeInv, OpenedFirst
    <3>2. Approvers(r)' = {}
      BY <3>1 DEF Approvers, NoVote
    <3>3. Cardinality(Approvers(r)') = 0
      BY <3>2, FS_EmptySet
    <3>4. requests'[r].group \in GroupNames
      BY <1>6, <2>2 DEF Propose, TypeInv, TypeOK
    <3>5. RequiredApprovals(requests[r].group)' \in Nat \ {0}
      BY <3>4 DEF TypeInv, TypeOK, RbacTypeOK, RequiredApprovals, Group
    <3> QED
      BY <3>3, <3>5 DEF Attended, HasQuorum
  <2> QED
    BY <2>1, <2>2
<1>7. ASSUME NEW c \in Calls, NEW q \in Requests, NEW e \in Emails,
             NEW d \in Decisions, BeginVote(c, q, e, d)
      PROVE  Attended(r)'
  <2>1. \A x \in Calls : Settling(x, r) => call'[x] = call[x]
    BY <1>7 DEF BeginVote, Settling, Unsettled, At, TypeInv, TypeOK
  <2> QED
    BY <1>7, <2>1, StillSettled DEF BeginVote
<1>8. ASSUME NEW c \in Calls, RecordVote(c)
      PROVE  Attended(r)'
  <2>1. call[c] # Idle /\ call[c].pc = "permitted"
    BY <1>8 DEF RecordVote, At, Idle
  <2>2. call' = [call EXCEPT ![c].pc = "recorded"]
    BY <1>8 DEF RecordVote, Advance
  <2>3. /\ \A x \in Calls : x # c => call'[x] = call[x]
        /\ call'[c].pc = "recorded"
        /\ call'[c].request = call[c].request
    BY <2>1, <2>2, CallShape DEF TypeInv, TypeOK, VoteCall
  <2>4. CASE call[c].request = r
    BY <2>3, <2>4 DEF Attended, Settling, Unsettled
  <2>5. CASE call[c].request # r
    <3>1. votes'[r] = votes[r]
      BY <1>8, <2>5 DEF RecordVote, TypeInv, TypeOK
    <3>2. HasQuorum(r)' <=> HasQuorum(r)
      BY <1>8, <3>1 DEF RecordVote, HasQuorum, Approvers, RequiredApprovals
    <3>3. \A x \in Calls : Settling(x, r) => Settling(x, r)'
      BY <1>8, <2>1, <2>3
      DEF RecordVote, Settling, Unsettled, ApprovalsSuffice, RequiredApprovals
    <3> QED
      BY <1>8, <3>2, <3>3 DEF RecordVote, AllAttended, Attended, Opened
  <2> QED
    BY <2>4, <2>5
<1>9. ASSUME NEW c \in Calls, RejectRequest(c)
      PROVE  Attended(r)'
  <2>1. call[c] # Idle
    BY <1>9 DEF RejectRequest, SettleRejected, At, Idle
  <2>2. CASE call[c].request = r
    <3>1. requests'[r].status = "REJECTED"
      BY <1>9, <2>1, <2>2, CallShape
      DEF RejectRequest, SettleRejected, TypeInv, TypeOK, Request
    <3> QED
      BY <3>1 DEF Attended
  <2>3. CASE call[c].request # r
    <3>1. requests'[r] = requests[r]
      BY <1>9, <2>3 DEF RejectRequest, SettleRejected, TypeInv, TypeOK
    <3>2. \A x \in Calls : Settling(x, r) => call'[x] = call[x]
      BY <1>9, <2>3
      DEF RejectRequest, SettleRejected, Finish, Settling, Unsettled, TypeInv, TypeOK
    <3> QED
      BY <1>9, <3>1, <3>2, StillSettled DEF RejectRequest, SettleRejected
  <2> QED
    BY <2>2, <2>3
<1>15. ASSUME NEW c \in Calls, ReadVotes(c)
       PROVE  Attended(r)'
  <2>1. call[c] # Idle
    BY <1>15 DEF ReadVotes, At, Idle
  <2>2. \A x \in Calls : x # c => call'[x] = call[x]
    BY <1>15 DEF ReadVotes, TypeInv, TypeOK
  <2>3. ASSUME Settling(c, r), HasQuorum(r)
        PROVE  Settling(c, r)'
    <3>1. /\ call'[c].pc = "tallied"
          /\ call'[c].request = r
          /\ call'[c].approvers = Approvers(r)
      BY <1>15, <2>1, <2>3, CallShape
      DEF ReadVotes, Settling, Unsettled, TypeInv, TypeOK, VoteCall
    <3>2. RequiredApprovals(requests[r].group)' = RequiredApprovals(requests[r].group)
      BY <1>15 DEF ReadVotes, RequiredApprovals
    <3> QED
      BY <2>3, <3>1, <3>2 DEF Settling, Unsettled, ApprovalsSuffice, HasQuorum
  <2> QED
    BY <1>15, <2>2, <2>3, StillSettled DEF ReadVotes
<1>10. ASSUME NEW c \in Calls, CountApprovals(c)
       PROVE  Attended(r)'
  <2>1. call[c] # Idle
    BY <1>10 DEF CountApprovals, At, Idle
  <2>2. \A x \in Calls : x # c => call'[x] = call[x]
    BY <1>10 DEF CountApprovals, Finish, TypeInv, TypeOK
  <2>3. ASSUME Settling(c, r)
        PROVE  Settling(c, r)'
    <3>1. call' = [call EXCEPT ![c].pc = "quorate", ![c].approvers = {}]
      BY <1>10, <2>3 DEF CountApprovals, At, Settling, Unsettled
    <3> QED
      BY <2>1, <2>3, <3>1, CallShape DEF Settling, Unsettled, TypeInv, TypeOK, VoteCall
  <2> QED
    BY <1>10, <2>2, <2>3, StillSettled DEF CountApprovals
<1>11. ASSUME NEW c \in Calls, ActivateBundle(c)
       PROVE  Attended(r)'
  <2>1. call[c] # Idle
    BY <1>11 DEF ActivateBundle, At, Idle
  <2>2. \A x \in Calls : x # c => call'[x] = call[x]
    BY <1>11 DEF ActivateBundle, Advance, Finish, TypeInv, TypeOK
  <2>3. ASSUME Settling(c, r)
        PROVE  Settling(c, r)' \/ r \in interrupted'
    <3>1. \/ call' = [call EXCEPT ![c].pc = "bound"]
          \/ interrupted' = interrupted \cup {r}
      BY <1>11, <2>3 DEF ActivateBundle, Advance, Settling, Unsettled
    <3> QED
      BY <2>1, <2>3, <3>1, CallShape DEF Settling, Unsettled, TypeInv, TypeOK, VoteCall
  <2>4. interrupted \subseteq interrupted'
    BY <1>11 DEF ActivateBundle
  <2> QED
    BY <1>11, <2>2, <2>3, <2>4, StillSettled DEF ActivateBundle
<1>12. ASSUME NEW c \in Calls, MarkActivated(c)
       PROVE  Attended(r)'
  <2>1. call[c] # Idle
    BY <1>12 DEF MarkActivated, SettleActivated, At, Idle
  <2>2. CASE call[c].request = r
    <3>1. requests'[r].status = "ACTIVATED"
      BY <1>12, <2>1, <2>2, CallShape
      DEF MarkActivated, SettleActivated, TypeInv, TypeOK, Request
    <3> QED
      BY <3>1 DEF Attended
  <2>3. CASE call[c].request # r
    <3>1. requests'[r] = requests[r]
      BY <1>12, <2>3 DEF MarkActivated, SettleActivated, TypeInv, TypeOK
    <3>2. \A x \in Calls : Settling(x, r) => call'[x] = call[x]
      BY <1>12, <2>3
      DEF MarkActivated, SettleActivated, Finish, Settling, Unsettled, TypeInv, TypeOK
    <3> QED
      BY <1>12, <3>1, <3>2, StillSettled DEF MarkActivated, SettleActivated
  <2> QED
    BY <2>2, <2>3
<1>13. ASSUME NEW c \in Calls, Crash(c)
       PROVE  Attended(r)'
  <2>1. \A x \in Calls : Settling(x, r) => call'[x] = call[x] \/ r \in interrupted'
    BY <1>13 DEF Crash, Finish, Settling, TypeInv, TypeOK
  <2> QED
    BY <1>13, <2>1, StillSettled DEF Crash
<1>14. CASE UNCHANGED vars
    BY <1>14, StillSettled DEF vars
<1> QED
    BY <1>1, <1>2, <1>3, <1>4, <1>5, <1>6, <1>7, <1>8, <1>9, <1>10, <1>11,
       <1>12, <1>13, <1>14, <1>15
    DEF Next, Administration, Voting

\* Concurrent approvals cannot each miss the other's vote: a pending request
\* with its quorum is being settled, unless a vote on it was cut short or its
\* group was changed.
THEOREM QuorumIsSettled == Spec => []QuorumNotStranded
<1>1. Init => TypeInv /\ AllAttended
    BY TypeInit, StrandedInit
<1>2. TypeInv /\ AllAttended /\ [Next]_vars => TypeInv' /\ AllAttended'
    BY TypeStep, StrandedStep
<1>3. AllAttended => QuorumNotStranded
    BY DEF AllAttended, Attended, Settling, HasQuorum, QuorumNotStranded
<1> QED
    BY <1>1, <1>2, <1>3, PTL DEF Spec

-----------------------------------------------------------------------------
(* The steps of a vote implement GovernedActivation.                       *)

\* The abstract variables that are computed from the tables.
Target == [r \in Requests |->
              IF Opened(r) THEN requests[r].bundle ELSE NoBundle]

Approvals == [r \in Requests |-> IF Opened(r) THEN Approvers(r) ELSE {}]

Threshold == [r \in Requests |->
                 IF Opened(r) THEN RequiredApprovals(requests[r].group) ELSE 1]

TalliesOf == [r \in Requests |-> Tallies(r)]

LEMMA ThresholdTypeNext ==
    ASSUME TypeInv'
    PROVE  Threshold' \in [Requests -> Nat \ {0}]
<1>1. ASSUME NEW r \in Requests, Opened(r)'
      PROVE  RequiredApprovals(requests[r].group)' \in Nat \ {0}
  <2>1. requests'[r].group \in GroupNames
    BY <1>1 DEF TypeInv, TypeOK, Opened, Request
  <2> QED
    BY <2>1 DEF TypeInv, TypeOK, RbacTypeOK, RequiredApprovals, Group
<1> QED
    BY <1>1 DEF Threshold

LEMMA RefinementInit == Init => Abstract!Init
<1> SUFFICES ASSUME Init PROVE Abstract!Init
    OBVIOUS
<1>1. \A r \in Requests : ~Opened(r)
    BY DEF Init, Opened
<1>2. /\ Target = [r \in Requests |-> NoBundle]
      /\ Approvals = [r \in Requests |-> {}]
      /\ Threshold \in [Requests -> Nat \ {0}]
    BY <1>1 DEF Target, Approvals, Threshold
<1>3. TalliesOf = [r \in Requests |-> {}]
    BY DEF TalliesOf, Tallies, Init, At, Idle
<1>4. requireApproval \in BOOLEAN /\ certified = {} /\ binding = NoBundle
    BY GovernanceAssumption DEF Init
<1> QED
    BY <1>2, <1>3, <1>4 DEF Abstract!Init, Target, Approvals, Threshold, TalliesOf

\* A step that leaves every bundle, vote, group and opening alone.
LEMMA SameRows ==
    ASSUME UNCHANGED <<votes, groups, fourEyes>>,
           \A r \in Requests :
              /\ Opened(r)' <=> Opened(r)
              /\ Opened(r) => /\ requests'[r].bundle = requests[r].bundle
                              /\ requests'[r].group = requests[r].group
                              /\ requests'[r].requestedBy = requests[r].requestedBy
    PROVE  UNCHANGED <<Target, Approvals, Threshold>>
<1>1. Target' = Target
    BY DEF Target
<1>2. Approvals' = Approvals
    BY DEF Approvals, Approvers
<1>3. Threshold' = Threshold
    BY DEF Threshold, RequiredApprovals
<1> QED
    BY <1>1, <1>2, <1>3

\* A step in which no vote reads the votes takes no tally, and one in which none
\* of those that have read them moves loses none.
LEMMA NoTallyTaken ==
    ASSUME \A c \in Calls : call'[c].pc = "tallied" => call'[c] = call[c]
    PROVE  \A r \in Requests : Tallies(r)' \subseteq Tallies(r)
BY DEF Tallies, At

LEMMA SameTallies ==
    ASSUME \A c \in Calls : call'[c].pc = "tallied" \/ call[c].pc = "tallied"
                                => call'[c] = call[c]
    PROVE  UNCHANGED TalliesOf
<1>1. \A r \in Requests : Tallies(r)' = Tallies(r)
    BY DEF Tallies, At
<1> QED
    BY <1>1 DEF TalliesOf

\* The abstract steps, in the terms of the tables.
Forgetting ==
    /\ UNCHANGED <<requireApproval, Target, Approvals, Threshold, certified, binding>>
    /\ \A r \in Requests : Tallies(r)' \subseteq Tallies(r)

LEMMA AbstractDiscard ==
    ASSUME Forgetting
    PROVE  Abstract!Next
<1>1. Abstract!Discard
    BY DEF Forgetting, Abstract!Discard, Abstract!Forgets, Target, Approvals, Threshold
<1> QED
    BY <1>1 DEF Abstract!Next

LEMMA AbstractReconfigure ==
    ASSUME Threshold' \in [Requests -> Nat \ {0}],
           UNCHANGED <<requireApproval, Target, Approvals, TalliesOf, certified, binding>>
    PROVE  Abstract!Next
BY DEF Abstract!Next, Abstract!Reconfigure, Target, Approvals, Threshold, TalliesOf

LEMMA AbstractOpen ==
    ASSUME NEW r \in Requests, NEW b \in Bundles,
           Target[r] = NoBundle,
           Target' = [Target EXCEPT ![r] = b],
           Threshold'[r] \in Nat \ {0},
           Threshold' = [Threshold EXCEPT ![r] = Threshold'[r]],
           UNCHANGED <<requireApproval, Approvals, TalliesOf, certified, binding>>
    PROVE  Abstract!Next
<1>1. Abstract!Open(r)
    BY DEF Abstract!Open, Target, Approvals, Threshold, TalliesOf
<1> QED
    BY <1>1 DEF Abstract!Next

LEMMA AbstractApprove ==
    ASSUME NEW r \in Requests, NEW e \in Emails,
           Target[r] # NoBundle,
           \/ Approvals' = [Approvals EXCEPT ![r] = Approvals[r] \cup {e}]
           \/ Approvals' = [Approvals EXCEPT ![r] = Approvals[r] \ {e}],
           UNCHANGED <<requireApproval, Target, Threshold, TalliesOf, certified, binding>>
    PROVE  Abstract!Next
<1>1. Abstract!Approve(r, e)
    BY DEF Abstract!Approve, Target, Approvals, Threshold, TalliesOf
<1> QED
    BY <1>1 DEF Abstract!Next

LEMMA AbstractTally ==
    ASSUME NEW r \in Requests,
           Target[r] # NoBundle,
           TalliesOf' = [TalliesOf EXCEPT ![r] = TalliesOf[r] \cup {Approvals[r]}],
           UNCHANGED <<requireApproval, Target, Approvals, Threshold, certified, binding>>
    PROVE  Abstract!Next
<1>1. Abstract!Tally(r)
    BY DEF Abstract!Tally, Target, Approvals, Threshold, TalliesOf
<1> QED
    BY <1>1 DEF Abstract!Next

LEMMA AbstractCertify ==
    ASSUME NEW r \in Requests,
           NEW people \in Tallies(r),
           Cardinality(people) >= Threshold[r],
           certified' = certified \cup {r},
           \A q \in Requests : Tallies(q)' \subseteq Tallies(q),
           UNCHANGED <<requireApproval, Target, Approvals, Threshold, binding>>
    PROVE  Abstract!Next
<1>1. Abstract!Cardinality(people) = Cardinality(people)
    BY DEF Abstract!Cardinality, Cardinality
<1>2. Abstract!Certify(r)
    BY <1>1 DEF Abstract!Certify, Abstract!Forgets, Target, Approvals, Threshold
<1> QED
    BY <1>2 DEF Abstract!Next

LEMMA AbstractActivate ==
    ASSUME NEW r \in Requests,
           r \in certified,
           binding' = Target[r],
           UNCHANGED <<requireApproval, Target, Approvals, Threshold, TalliesOf, certified>>
    PROVE  Abstract!Next
<1>1. Abstract!Activate(r)
    BY DEF Abstract!Activate, Target, Approvals, Threshold, TalliesOf
<1> QED
    BY <1>1 DEF Abstract!Next

LEMMA AbstractActivateDirectly ==
    ASSUME NEW b \in Bundles,
           ~requireApproval,
           binding' = b,
           UNCHANGED <<requireApproval, Target, Approvals, Threshold, TalliesOf, certified>>
    PROVE  Abstract!Next
<1>1. Abstract!ActivateDirectly(b)
    BY DEF Abstract!ActivateDirectly, Target, Approvals, Threshold, TalliesOf
<1> QED
    BY <1>1 DEF Abstract!Next

LEMMA RefinementStep ==
    TypeInv /\ TypeInv' /\ VoteInv /\ [Next]_vars
    => [Abstract!Next]_(Abstract!absVars)
<1> SUFFICES ASSUME TypeInv, TypeInv', VoteInv, [Next]_vars
             PROVE  [Abstract!Next]_(Abstract!absVars)
    OBVIOUS
<1> USE DEF settings, history, bounds, rbacVars, Forgetting
<1>1. ASSUME NEW by \in Emails, NEW e \in Emails, NEW role \in AssignableRoles,
             ChangeRole(by, e, role)
      PROVE  Forgetting
    BY <1>1, SameRows, NoTallyTaken DEF ChangeRole, SetRole, Opened
<1>2. ASSUME NEW g \in GroupNames, NEW config \in GroupConfigs,
             ChangeGroup(g, config)
      PROVE  Abstract!Next
  <2>1. Threshold' \in [Requests -> Nat \ {0}]
    BY ThresholdTypeNext
  <2>2. UNCHANGED <<Target, Approvals>>
    BY <1>2 DEF ChangeGroup, Target, Approvals, Approvers, Opened
  <2>3. UNCHANGED TalliesOf
    BY <1>2, SameTallies DEF ChangeGroup
  <2> QED
    BY <1>2, <2>1, <2>2, <2>3, AbstractReconfigure DEF ChangeGroup
<1>3. CASE RotateSigningKey
  <2>1. Forgetting
    BY <1>3, SameRows, NoTallyTaken DEF RotateSigningKey, Opened, Idle
  <2> QED
    BY <2>1, AbstractDiscard
<1>4. ASSUME NEW b \in Bundles, Publish(b)
      PROVE  Forgetting
    BY <1>4, SameRows, NoTallyTaken DEF Publish, Opened
<1>5. ASSUME NEW by \in Emails, NEW b \in Bundles, ActivateDirectly(by, b)
      PROVE  Abstract!Next
  <2>1. UNCHANGED <<Target, Approvals, Threshold>>
    BY <1>5, SameRows DEF ActivateDirectly, Opened
  <2>2. UNCHANGED TalliesOf
    BY <1>5, SameTallies DEF ActivateDirectly
  <2> QED
    BY <1>5, <2>1, <2>2, AbstractActivateDirectly DEF ActivateDirectly
<1>6. ASSUME NEW r \in Requests, NEW by \in Emails, NEW b \in Bundles,
             NEW g \in GroupNames, Propose(r, by, b, g)
      PROVE  Abstract!Next
  <2>1. ~Opened(r) /\ Opened(r)' /\ requests'[r].bundle = b
    BY <1>6 DEF Propose, Opened, NoRequest, TypeInv, TypeOK
  <2>2. \A q \in Requests : q # r => /\ requests'[q] = requests[q]
                                     /\ Opened(q)' <=> Opened(q)
    BY <1>6 DEF Propose, Opened, TypeInv, TypeOK
  <2>3. Target[r] = NoBundle /\ Target' = [Target EXCEPT ![r] = b]
    BY <2>1, <2>2 DEF Target
  <2>4. Approvers(r)' = {}
    BY <1>6, <2>1 DEF Propose, TypeInv, OpenedFirst, Approvers, NoVote
  <2>5. \A q \in Requests : q # r => /\ Approvers(q)' = Approvers(q)
                                     /\ RequiredApprovals(requests[q].group)'
                                        = RequiredApprovals(requests[q].group)
    BY <1>6, <2>2 DEF Propose, Approvers, RequiredApprovals
  <2>6. Approvals' = Approvals
    BY <2>1, <2>2, <2>4, <2>5 DEF Approvals
  <2>7. Threshold' \in [Requests -> Nat \ {0}]
    BY ThresholdTypeNext
  <2>8. Threshold' = [Threshold EXCEPT ![r] = Threshold'[r]]
    BY <2>2, <2>5 DEF Threshold
  <2>9. UNCHANGED TalliesOf
    BY <1>6, SameTallies DEF Propose
  <2> QED
    BY <1>6, <2>3, <2>6, <2>7, <2>8, <2>9, AbstractOpen DEF Propose
<1>7. ASSUME NEW c \in Calls, NEW r \in Requests, NEW e \in Emails,
             NEW d \in Decisions, BeginVote(c, r, e, d)
      PROVE  Forgetting
  <2>1. \A x \in Calls : call'[x].pc = "tallied" => call'[x] = call[x]
    BY <1>7 DEF BeginVote, At, TypeInv, TypeOK
  <2> QED
    BY <1>7, <2>1, SameRows, NoTallyTaken DEF BeginVote, Opened
<1>8. ASSUME NEW c \in Calls, RecordVote(c)
      PROVE  Abstract!Next
  <2>1. call[c] # Idle
    BY <1>8 DEF RecordVote, At, Idle
  <2>0. PICK r \in Requests, e \in Emails : r = call[c].request /\ e = call[c].actor
    BY <2>1, CallShape DEF VoteCall
  <2>2. Opened(r) /\ requests[r].bundle \in Bundles
    BY <2>1, <2>0, CallShape DEF VoteCall, TypeInv, OpenedFirst
  <2>3. Target[r] # NoBundle
    BY <2>2, GovernanceAssumption DEF Target
  <2>4. /\ \A q \in Requests : q # r => votes'[q] = votes[q]
        /\ \A x \in Emails : x # e => votes'[r][x] = votes[r][x]
        /\ UNCHANGED <<requests, fourEyes, groups, requireApproval, certified,
                       binding>>
    BY <1>8, <2>0 DEF RecordVote, TypeInv, TypeOK
  <2>5. UNCHANGED <<Target, Threshold>>
    BY <2>4 DEF Target, Threshold, Opened, RequiredApprovals
  <2>6. \/ Approvers(r)' = Approvers(r) \cup {e}
        \/ Approvers(r)' = Approvers(r) \ {e}
    <3>1. CASE e \in Approvers(r)'
      BY <2>2, <2>4, <3>1 DEF Approvers
    <3>2. CASE e \notin Approvers(r)'
      BY <2>2, <2>4, <3>2 DEF Approvers
    <3> QED
      BY <3>1, <3>2
  <2>7. \A q \in Requests : q # r => Approvers(q)' = Approvers(q)
    BY <2>4 DEF Approvers
  <2>8. \/ Approvals' = [Approvals EXCEPT ![r] = Approvals[r] \cup {e}]
        \/ Approvals' = [Approvals EXCEPT ![r] = Approvals[r] \ {e}]
    <3>1. Approvals[r] = Approvers(r) /\ Approvals'[r] = Approvers(r)'
      BY <2>2, <2>4 DEF Approvals, Opened
    <3>2. \A q \in Requests : q # r => Approvals'[q] = Approvals[q]
      BY <2>4, <2>7 DEF Approvals, Opened
    <3>3. Approvals' = [Approvals EXCEPT ![r] = Approvals'[r]]
      BY <2>2, <3>2 DEF Approvals
    <3> QED
      BY <2>6, <3>1, <3>3
  <2>9. UNCHANGED TalliesOf
    <3>1. call[c].pc = "permitted" /\ call' = [call EXCEPT ![c].pc = "recorded"]
      BY <1>8 DEF RecordVote, At, Advance
    <3>2. \A x \in Calls : \/ call'[x] = call[x]
                           \/ call[x].pc = "permitted" /\ call'[x].pc = "recorded"
      BY <2>1, <3>1, CallShape DEF TypeInv, TypeOK, VoteCall
    <3> QED
      BY <3>2, SameTallies
  <2> QED
    BY <2>2, <2>3, <2>4, <2>5, <2>8, <2>9, AbstractApprove
<1>9. ASSUME NEW c \in Calls, RejectRequest(c)
      PROVE  Forgetting
  <2>1. call[c] # Idle
    BY <1>9 DEF RejectRequest, SettleRejected, At, Idle
  <2>2. requests' = [requests EXCEPT ![call[c].request].status = "REJECTED"]
    BY <1>9 DEF RejectRequest, SettleRejected
  <2>3. \A q \in Requests :
           /\ Opened(q)' <=> Opened(q)
           /\ Opened(q) => /\ requests'[q].bundle = requests[q].bundle
                           /\ requests'[q].group = requests[q].group
                           /\ requests'[q].requestedBy = requests[q].requestedBy
    BY <2>1, <2>2, CallShape
    DEF TypeInv, TypeOK, Opened, Request, NoRequest, Statuses
  <2>4. \A x \in Calls : call'[x].pc = "tallied" => call'[x] = call[x]
    BY <1>9 DEF RejectRequest, SettleRejected, Finish, Idle, TypeInv, TypeOK
  <2> QED
    BY <1>9, <2>3, <2>4, SameRows, NoTallyTaken DEF RejectRequest, SettleRejected
<1>15. ASSUME NEW c \in Calls, ReadVotes(c)
       PROVE  Abstract!Next
  <2>1. call[c] # Idle
    BY <1>15 DEF ReadVotes, At, Idle
  <2>0. PICK r \in Requests : r = call[c].request
    BY <2>1, CallShape
  <2>2. Opened(r) /\ requests[r].bundle \in Bundles
    BY <2>1, <2>0, CallShape DEF TypeInv, OpenedFirst
  <2>3. UNCHANGED <<Target, Approvals, Threshold>>
    BY <1>15, SameRows DEF ReadVotes, Opened
  <2>4. Target[r] # NoBundle /\ Approvals[r] = Approvers(r)
    BY <2>2, GovernanceAssumption DEF Target, Approvals
  <2>5. /\ \A x \in Calls : x # c => call'[x] = call[x]
        /\ call[c].pc = "recorded"
        /\ call'[c].pc = "tallied"
        /\ call'[c].request = r
        /\ call'[c].approvers = Approvers(r)
    BY <1>15, <2>0, <2>1, CallShape DEF ReadVotes, At, TypeInv, TypeOK, VoteCall
  <2>6. /\ Tallies(r)' = Tallies(r) \cup {Approvers(r)}
        /\ \A q \in Requests : q # r => Tallies(q)' = Tallies(q)
    BY <2>0, <2>5 DEF Tallies, At
  <2>7. TalliesOf' = [TalliesOf EXCEPT ![r] = TalliesOf[r] \cup {Approvals[r]}]
    BY <2>4, <2>6 DEF TalliesOf
  <2>8. UNCHANGED <<requireApproval, certified, binding>>
    BY <1>15 DEF ReadVotes
  <2> QED
    BY <2>3, <2>4, <2>7, <2>8, AbstractTally
<1>10. ASSUME NEW c \in Calls, CountApprovals(c)
       PROVE  Abstract!Next
  <2>1. call[c] # Idle /\ call[c].pc = "tallied"
    BY <1>10 DEF CountApprovals, At, Idle
  <2>0. PICK r \in Requests, people \in SUBSET Emails :
            r = call[c].request /\ people = call[c].approvers
    BY <2>1, CallShape DEF VoteCall
  <2>2. Opened(r)
    BY <2>0, <2>1 DEF TypeInv, OpenedFirst
  <2>3. UNCHANGED <<Target, Approvals, Threshold>>
    BY <1>10, SameRows DEF CountApprovals, Opened
  <2>6. \A x \in Calls : call'[x].pc = "tallied" => call'[x] = call[x]
    <3>1. \/ call' = [call EXCEPT ![c].pc = "quorate", ![c].approvers = {}]
          \/ call' = [call EXCEPT ![c] = Idle]
      BY <1>10 DEF CountApprovals, Finish
    <3> QED
      BY <2>1, <3>1, CallShape DEF TypeInv, TypeOK, VoteCall, Idle
  <2>7. \A q \in Requests : Tallies(q)' \subseteq Tallies(q)
    BY <2>6, NoTallyTaken
  <2>8. UNCHANGED <<requireApproval, binding>>
    BY <1>10 DEF CountApprovals
  <2>4. CASE ApprovalsSuffice(r, people)
    <3>1. people \in Tallies(r)
      BY <2>0, <2>1 DEF Tallies, At
    <3>2. Cardinality(people) >= Threshold[r]
      BY <2>2, <2>4 DEF Threshold, ApprovalsSuffice
    <3>3. certified' = certified \cup {r}
      BY <1>10, <2>0, <2>4 DEF CountApprovals
    <3> QED
      BY <2>3, <2>7, <2>8, <3>1, <3>2, <3>3, AbstractCertify
  <2>5. CASE ~ApprovalsSuffice(r, people)
    <3>1. UNCHANGED certified
      BY <1>10, <2>0, <2>5 DEF CountApprovals
    <3> QED
      BY <2>3, <2>7, <2>8, <3>1, AbstractDiscard
  <2> QED
    BY <2>4, <2>5
<1>11. ASSUME NEW c \in Calls, ActivateBundle(c)
       PROVE  [Abstract!Next]_(Abstract!absVars)
  <2> DEFINE r == call[c].request
  <2>1. call[c] # Idle /\ call[c].pc = "quorate"
    BY <1>11 DEF ActivateBundle, At, Idle
  <2>2. r \in Requests /\ Opened(r) /\ r \in certified
    BY <2>1, CallShape DEF TypeInv, OpenedFirst, VoteInv, StepsDone
  <2>3. UNCHANGED <<Target, Approvals, Threshold>>
    BY <1>11, SameRows DEF ActivateBundle, Opened
  <2>4. Target[r] = requests[r].bundle
    BY <2>2 DEF Target
  <2>6. UNCHANGED <<requireApproval, certified>>
    BY <1>11 DEF ActivateBundle
  <2>7. CASE Verifies(requests[r].bundle)
    <3>1. /\ binding' = Target[r]
          /\ call' = [call EXCEPT ![c].pc = "bound"]
      BY <1>11, <2>4, <2>7 DEF ActivateBundle, Advance
    <3>2. \A x \in Calls : \/ call'[x] = call[x]
                           \/ call[x].pc = "quorate" /\ call'[x].pc = "bound"
      BY <2>1, <3>1, CallShape DEF TypeInv, TypeOK, VoteCall
    <3>3. UNCHANGED TalliesOf
      BY <3>2, SameTallies
    <3> QED
      BY <2>2, <2>3, <2>6, <3>1, <3>3, AbstractActivate
  <2>8. CASE ~Verifies(requests[r].bundle)
    <3>1. binding' = binding /\ call' = [call EXCEPT ![c] = Idle]
      BY <1>11, <2>8 DEF ActivateBundle, Finish
    <3>2. \A x \in Calls : call'[x].pc = "tallied" => call'[x] = call[x]
      BY <3>1 DEF Idle, TypeInv, TypeOK
    <3> QED
      BY <2>3, <2>6, <3>1, <3>2, NoTallyTaken, AbstractDiscard
  <2> QED
    BY <2>7, <2>8
<1>12. ASSUME NEW c \in Calls, MarkActivated(c)
       PROVE  Forgetting
  <2>1. call[c] # Idle
    BY <1>12 DEF MarkActivated, SettleActivated, At, Idle
  <2>2. requests' = [requests EXCEPT ![call[c].request].status = "ACTIVATED"]
    BY <1>12 DEF MarkActivated, SettleActivated
  <2>3. \A q \in Requests :
           /\ Opened(q)' <=> Opened(q)
           /\ Opened(q) => /\ requests'[q].bundle = requests[q].bundle
                           /\ requests'[q].group = requests[q].group
                           /\ requests'[q].requestedBy = requests[q].requestedBy
    BY <2>1, <2>2, CallShape
    DEF TypeInv, TypeOK, Opened, Request, NoRequest, Statuses
  <2>4. \A x \in Calls : call'[x].pc = "tallied" => call'[x] = call[x]
    BY <1>12 DEF MarkActivated, SettleActivated, Finish, Idle, TypeInv, TypeOK
  <2> QED
    BY <1>12, <2>3, <2>4, SameRows, NoTallyTaken DEF MarkActivated, SettleActivated
<1>13. ASSUME NEW c \in Calls, Crash(c)
       PROVE  Forgetting
  <2>1. \A x \in Calls : call'[x].pc = "tallied" => call'[x] = call[x]
    BY <1>13 DEF Crash, Finish, Idle, TypeInv, TypeOK
  <2> QED
    BY <1>13, <2>1, SameRows, NoTallyTaken DEF Crash, Opened
<1>14. CASE UNCHANGED vars
  <2>1. Forgetting
    BY <1>14, SameRows, NoTallyTaken DEF vars, Opened
  <2> QED
    BY <2>1, AbstractDiscard
<1> QED
    BY <1>1, <1>2, <1>3, <1>4, <1>5, <1>6, <1>7, <1>8, <1>9, <1>10, <1>11,
       <1>12, <1>13, <1>14, <1>15, AbstractDiscard
    DEF Next, Administration, Voting

\* Every behaviour of the handlers is one of governed activation: the bundle a
\* workspace runs under is replaced only by that of a request whose approvals at
\* one instant were as many as its group asked for then or later, or directly
\* where approval is not required.
THEOREM VotesGovernActivation == Spec => ImplementsGovernedActivation
<1>1. Init => Abstract!Init
    BY RefinementInit
<1>2. TypeInv /\ TypeInv' /\ VoteInv /\ [Next]_vars
      => [Abstract!Next]_(Abstract!absVars)
    BY RefinementStep
<1> QED
    BY <1>1, <1>2, VotesCorrect, PTL
    DEF Spec, ImplementsGovernedActivation, Abstract!Spec

=============================================================================
