---------------------------- MODULE GatewayProofs ----------------------------
(***************************************************************************)
(* Theorems about Gateway and the registry of MCPGovernance it runs beside,*)
(* for every set of members, groups, requests, contents and plans.         *)
(***************************************************************************)
EXTENDS Gateway, DecisionProofs, FiniteSetTheorems

VotingCall == [pc : {"permitted"}, request : Requests, actor : Emails, decision : Decisions]
CountingCall == [pc : {"recorded", "quorate"}, request : Requests]
TallyingCall == [pc : {"tallied"}, request : Requests, approvers : SUBSET Emails]
RegisteringCall == [pc : {"looked", "registered"}, request : Requests \cup {Direct},
                    content : Entry, id : Nat, alone : BOOLEAN]

\* A row that is being written has an id that was made; votes and certificates
\* exist only for requests that were opened.
Minted == \A c \in Calls : At(c, "looked") => call[c].id <= minted
OpenedFirst ==
    /\ \A r \in Requests : ~Opened(r) => \A e \in Emails : votes[r][e] = NoVote
    /\ \A r \in certified \cup registered : Opened(r)

TypeInv == TypeOK /\ Minted /\ OpenedFirst

LEMMA CallShape ==
    ASSUME TypeInv, NEW c \in Calls
    PROVE  /\ call[c].pc = "permitted" => call[c] \in VotingCall
           /\ call[c].pc \in {"recorded", "quorate"} => call[c] \in CountingCall
           /\ call[c].pc = "tallied" => call[c] \in TallyingCall
           /\ call[c].pc \in {"looked", "registered"} => call[c] \in RegisteringCall
           /\ call[c].pc \in {"permitted", "recorded", "tallied", "quorate", "looked",
                               "registered"}
                <=> call[c] # Idle
BY DEF TypeInv, TypeOK, Call, VotingCall, CountingCall, TallyingCall, RegisteringCall, Idle

LEMMA RequestShape ==
    ASSUME TypeInv, NEW c \in Calls, call[c] # Idle, call[c].request # Direct
    PROVE  /\ call[c].request \in Requests
           /\ Opened(call[c].request)
           /\ requests[call[c].request] \in Request
           /\ requests[call[c].request].content \in Entry
<1>1. call[c].request \in Requests
    BY CallShape DEF VotingCall, CountingCall, TallyingCall, RegisteringCall
<1>2. Opened(call[c].request)
    BY DEF TypeInv, TypeOK, Opened
<1>3. requests[call[c].request] \in Request
    BY <1>1, <1>2 DEF TypeInv, TypeOK, Opened
<1> QED
    BY <1>1, <1>2, <1>3 DEF Request

\* A vote is about a request.
LEMMA VoteShape ==
    ASSUME TypeInv, NEW c \in Calls, call[c].pc \in {"permitted", "recorded", "tallied", "quorate"}
    PROVE  /\ call[c] # Idle
           /\ call[c].request \in Requests
           /\ call[c].request # Direct
BY CallShape, RegistryAssumption DEF VotingCall, CountingCall, TallyingCall, Direct

-----------------------------------------------------------------------------
(* What a step can be: as in Next, with the steps that touch no row or      *)
(* call together, the deaths of handlers, and the reads of register.        *)

Quiet ==
    /\ RbacTypeOK'
    /\ load' \in Load
    /\ load'.direct = load.direct
    /\ UNCHANGED <<key, server, minted, requests, votes, call, history>>

Lose(lost) ==
    /\ Dies(lost)
    /\ load' \in Load
    /\ load'.direct = load.direct
    /\ key' \in Nat
    /\ UNCHANGED <<rbacVars, server, minted, requests, votes, certified, registered>>

Look(c, request, content) ==
    /\ \/ /\ At(c, "quorate")
          /\ request = call[c].request
          /\ content = requests[request].content
       \/ /\ call[c] = Idle
          /\ request = Direct
          /\ load.direct
    /\ Looks(c, request, content, RowId)
    /\ load' \in Load
    /\ load'.direct = load.direct

LEMMA NextKinds ==
    ASSUME TypeInv, [Next]_vars
    PROVE  \/ Quiet
           \/ \E lost \in SUBSET Calls : Lose(lost)
           \/ \E r \in Requests, by \in Emails, content \in Entry, g \in GroupNames :
                 Propose(r, by, content, g)
           \/ \E c \in Calls :
                \/ \E r \in Requests, e \in Emails, d \in Decisions : BeginVote(c, r, e, d)
                \/ RecordApproval(c)
                \/ RecordRejection(c)
                \/ ReadVotes(c)
                \/ CountApprovals(c)
                \/ \E request \in Requests \cup {Direct}, content \in Entry :
                      Look(c, request, content)
                \/ UpsertServer(c)
                \/ ReplyDirectly(c)
                \/ MarkApplied(c)
<1>1. ASSUME NEW by \in Emails, NEW e \in Emails, NEW role \in AssignableRoles,
             ChangeRole(by, e, role)
      PROVE  Quiet
  <2>1. load' \in Load /\ load'.direct = load.direct
    BY <1>1 DEF ChangeRole, Spend, Load, TypeInv, TypeOK
  <2> QED
    BY <1>1, <2>1, RbacAssumption
    DEF ChangeRole, SetRole, Quiet, RbacTypeOK, TypeInv, TypeOK
<1>2. ASSUME NEW g \in GroupNames, NEW config \in GroupConfigs, ChangeGroup(g, config)
      PROVE  Quiet
  <2>1. load' \in Load /\ load'.direct = load.direct
    BY <1>2 DEF ChangeGroup, Spend, Load, TypeInv, TypeOK
  <2> QED
    BY <1>2, <2>1, RbacAssumption
    DEF ChangeGroup, UpsertGroup, Quiet, RbacTypeOK, TypeInv, TypeOK
<1>3. ASSUME Redeploy
      PROVE  Lose(Calls)
  <2>1. load' \in Load /\ load'.direct = load.direct
    BY <1>3 DEF Redeploy, Spend, Load, TypeInv, TypeOK
  <2> QED
    BY <1>3, <2>1 DEF Redeploy, Lose, TypeInv, TypeOK
<1>4. ASSUME NEW c \in Calls, Crash(c)
      PROVE  Lose({c})
    BY <1>4 DEF Crash, Lose, TypeInv, TypeOK
<1>5. ASSUME NEW c \in Calls, LookForVote(c)
      PROVE  \E request \in Requests \cup {Direct}, content \in Entry : Look(c, request, content)
  <2>1. /\ call[c].request \in Requests
        /\ requests[call[c].request].content \in Entry
    BY <1>5, VoteShape, RequestShape DEF LookForVote, At
  <2>2. Look(c, call[c].request, requests[call[c].request].content)
    BY <1>5 DEF LookForVote, Look, TypeInv, TypeOK
  <2> QED
    BY <2>1, <2>2
<1>6. ASSUME NEW c \in Calls, NEW by \in Emails, NEW content \in Entry,
             LookDirectly(c, by, content)
      PROVE  Look(c, Direct, content)
  <2>1. /\ load.registrations > 0
        /\ load' = [load EXCEPT !.registrations = @ - 1]
        /\ load \in Load
    BY <1>6 DEF LookDirectly, TypeInv, TypeOK
  <2>2. load' \in Load /\ load'.direct = load.direct
    BY ONLY <2>1 DEF Load
  <2> QED
    BY <1>6, <2>2 DEF LookDirectly, Look
<1>7. ASSUME UNCHANGED vars
      PROVE  Quiet
    BY <1>7 DEF vars, rbacVars, Quiet, RbacTypeOK, TypeInv, TypeOK
<1>8. ASSUME Redeploy \/ \E c \in Calls : Crash(c)
      PROVE  \E lost \in SUBSET Calls : Lose(lost)
    BY <1>3, <1>4, <1>8
<1>9. ASSUME NEW c \in Calls,
             \/ LookForVote(c)
             \/ \E by \in Emails, content \in Entry : LookDirectly(c, by, content)
      PROVE  \E request \in Requests \cup {Direct}, content \in Entry : Look(c, request, content)
    BY <1>5, <1>6, <1>9
<1>10. CASE \/ \E by, e \in Emails, role \in AssignableRoles : ChangeRole(by, e, role)
            \/ \E g \in GroupNames, config \in GroupConfigs : ChangeGroup(g, config)
            \/ UNCHANGED vars
    BY <1>1, <1>2, <1>7, <1>10
<1>11. CASE Redeploy \/ \E c \in Calls : Crash(c)
    BY <1>8, <1>11
<1>12. CASE \E c \in Calls :
              \/ LookForVote(c)
              \/ \E by \in Emails, content \in Entry : LookDirectly(c, by, content)
    BY <1>9, <1>12
<1> QED
    BY <1>10, <1>11, <1>12 DEF Next

-----------------------------------------------------------------------------
(* What the calls are after a step.                                         *)

\* The call c when it has read the votes.
Tallied(c) == [pc |-> "tallied", request |-> call[c].request,
               approvers |-> Approvers(call[c].request)]

LEMMA TallyTurns ==
    ASSUME TypeInv, NEW c \in Calls, ReadVotes(c)
    PROVE  /\ call[c].pc = "recorded"
           /\ Tallied(c) \in TallyingCall
           /\ Tallied(c).pc = "tallied"
           /\ Tallied(c).request = call[c].request
           /\ Tallied(c).approvers = Approvers(call[c].request)
           /\ call' = [call EXCEPT ![c] = Tallied(c)]
<1>1. call[c].pc = "recorded" /\ call[c].request \in Requests
    BY VoteShape DEF ReadVotes, At
<1>2. Approvers(call[c].request) \in SUBSET Emails
    BY DEF Approvers
<1> QED
    BY <1>1, <1>2 DEF ReadVotes, Tallied, TallyingCall

LEMMA CountTurns ==
    ASSUME TypeInv, NEW c \in Calls, CountApprovals(c)
    PROVE  /\ call[c] \in TallyingCall
           /\ \/ call' = [call EXCEPT ![c] = [pc |-> "quorate", request |-> call[c].request]]
              \/ call' = [call EXCEPT ![c] = Idle]
BY CallShape DEF CountApprovals, At, Finish

\* The call c when its row is written.
Written(c) == [pc |-> "registered", request |-> call[c].request, content |-> call[c].content,
               id |-> call[c].id, alone |-> call[c].alone]

LEMMA UpsertTurns ==
    ASSUME TypeInv, NEW c \in Calls, UpsertServer(c)
    PROVE  /\ call[c] \in RegisteringCall
           /\ Written(c) \in RegisteringCall
           /\ call' = [call EXCEPT ![c] = Written(c)]
<1>1. call[c] \in RegisteringCall
    BY CallShape DEF UpsertServer, At
<1>2. [call[c] EXCEPT !.pc = "registered"] = Written(c)
    BY <1>1 DEF RegisteringCall, Written
<1>3. Written(c) \in RegisteringCall
    BY <1>1 DEF RegisteringCall, Written
<1> QED
    BY <1>1, <1>2, <1>3 DEF UpsertServer

LEMMA AloneTurns ==
    ASSUME NEW m \in RegisteringCall, NEW alone \in BOOLEAN
    PROVE  LET turned == [pc |-> m.pc, request |-> m.request, content |-> m.content,
                          id |-> m.id, alone |-> alone]
           IN  /\ [m EXCEPT !.alone = alone] = turned
               /\ turned \in RegisteringCall
BY DEF RegisteringCall

\* The read of c, and what the other reads become.
LEMMA LookTurns ==
    ASSUME TypeInv, NEW c \in Calls, NEW request \in Requests \cup {Direct},
           NEW content \in Entry, Look(c, request, content)
    PROVE  /\ RowId \in Nat
           /\ \E alone \in BOOLEAN :
                /\ alone <=> \A d \in Calls \ {c} : ~At(d, "looked")
                /\ call'[c] = [pc |-> "looked", request |-> request, content |-> content,
                               id |-> RowId, alone |-> alone]
           /\ call'[c] \in RegisteringCall
           /\ DOMAIN call' = Calls
           /\ call' = [d \in Calls |-> call'[d]]
           /\ \A d \in Calls \ {c} :
                \/ /\ At(d, "looked")
                   /\ call'[d] = [pc |-> "looked", request |-> call[d].request,
                                  content |-> call[d].content, id |-> call[d].id,
                                  alone |-> FALSE]
                   /\ call'[d] \in RegisteringCall
                \/ /\ ~At(d, "looked")
                   /\ call'[d] = call[d]
<1> DEFINE others == {d \in Calls \ {c} : At(d, "looked")}
           mine == [pc |-> "looked", request |-> request, content |-> content,
                    id |-> RowId, alone |-> others = {}]
<1>1. RowId \in Nat
    BY DEF RowId, TypeInv, TypeOK
<1>2. call' = [d \in Calls |->
                  IF d = c THEN mine
                  ELSE IF d \in others THEN [call[d] EXCEPT !.alone = FALSE]
                  ELSE call[d]]
    BY DEF Look, Looks
<1>3. /\ DOMAIN call' = Calls
      /\ call' = [d \in Calls |-> call'[d]]
      /\ call'[c] = mine
    BY <1>2
<1>4. (others = {}) = (\A d \in Calls \ {c} : ~At(d, "looked"))
    OBVIOUS
<1>5. mine \in RegisteringCall
    BY <1>1 DEF RegisteringCall
<1>6. ASSUME NEW d \in Calls \ {c}, At(d, "looked")
      PROVE  /\ call'[d] = [pc |-> "looked", request |-> call[d].request,
                            content |-> call[d].content, id |-> call[d].id, alone |-> FALSE]
             /\ call'[d] \in RegisteringCall
  <2>1. call[d] \in RegisteringCall /\ call[d].pc = "looked"
    BY <1>6, CallShape DEF At
  <2>2. call'[d] = [call[d] EXCEPT !.alone = FALSE]
    BY <1>2, <1>6
  <2> DEFINE crowded == [pc |-> "looked", request |-> call[d].request,
                         content |-> call[d].content, id |-> call[d].id, alone |-> FALSE]
  <2>3. [call[d] EXCEPT !.alone = FALSE] = crowded /\ crowded \in RegisteringCall
    BY <2>1, AloneTurns
  <2> QED
    BY <2>2, <2>3
<1>7. ASSUME NEW d \in Calls \ {c}, ~At(d, "looked")
      PROVE  call'[d] = call[d]
    BY <1>2, <1>7
<1>8. \E alone \in BOOLEAN :
        /\ alone <=> \A d \in Calls \ {c} : ~At(d, "looked")
        /\ call'[c] = [pc |-> "looked", request |-> request, content |-> content,
                       id |-> RowId, alone |-> alone]
  <2>1. (others = {}) \in BOOLEAN
    OBVIOUS
  <2> QED
    BY <1>3, <1>4, <2>1, Zenon
<1> QED
  <2> HIDE DEF mine, others
  <2> QED
    BY <1>1, <1>3, <1>5, <1>6, <1>7, <1>8

LEMMA LookFields ==
    ASSUME TypeInv, NEW c \in Calls, NEW request \in Requests \cup {Direct},
           NEW content \in Entry, Look(c, request, content)
    PROVE  /\ call'[c].pc = "looked"
           /\ call'[c].request = request
           /\ call'[c].content = content
           /\ call'[c].id = RowId
           /\ call'[c] # Idle
           /\ \A d \in Calls \ {c} :
                /\ call'[d].pc = call[d].pc
                /\ call'[d].request = call[d].request
                /\ call'[d].content = call[d].content
                /\ call'[d].id = call[d].id
                /\ call'[d] = Idle <=> call[d] = Idle
<1>1. /\ call'[c].pc = "looked" /\ call'[c].request = request
      /\ call'[c].content = content /\ call'[c].id = RowId
  <2>1. PICK alone \in BOOLEAN :
            /\ alone <=> \A d \in Calls \ {c} : ~At(d, "looked")
            /\ call'[c] = [pc |-> "looked", request |-> request, content |-> content,
                           id |-> RowId, alone |-> alone]
    BY LookTurns
  <2> QED
    BY <2>1
<1>2. ASSUME NEW m, m.pc = "looked"
      PROVE  m # Idle
    BY <1>2 DEF Idle
<1>3. ASSUME NEW d \in Calls \ {c}, At(d, "looked")
      PROVE  /\ call'[d].pc = call[d].pc
             /\ call'[d].request = call[d].request
             /\ call'[d].content = call[d].content
             /\ call'[d].id = call[d].id
  <2>1. call'[d] = [pc |-> "looked", request |-> call[d].request,
                    content |-> call[d].content, id |-> call[d].id, alone |-> FALSE]
    BY <1>3, LookTurns, Zenon
  <2> QED
    BY <1>3, <2>1 DEF At
<1>4. ASSUME NEW d \in Calls \ {c}, ~At(d, "looked")
      PROVE  call'[d] = call[d]
    BY <1>4, LookTurns, Zenon
<1>5. ASSUME NEW d \in Calls \ {c}
      PROVE  call'[d] = Idle <=> call[d] = Idle
    BY <1>2, <1>3, <1>4 DEF At
<1> QED
    BY <1>1, <1>2, <1>3, <1>4, <1>5

LEMMA LookAlone ==
    ASSUME TypeInv, NEW c \in Calls, NEW request \in Requests \cup {Direct},
           NEW content \in Entry, Look(c, request, content)
    PROVE  /\ call'[c].alone => \A d \in Calls \ {c} : ~At(d, "looked")
           /\ \A d \in Calls \ {c} :
                /\ At(d, "looked") => ~call'[d].alone
                /\ ~At(d, "looked") => call'[d] = call[d]
<1>1. PICK alone \in BOOLEAN :
        /\ alone <=> \A d \in Calls \ {c} : ~At(d, "looked")
        /\ call'[c] = [pc |-> "looked", request |-> request, content |-> content,
                       id |-> RowId, alone |-> alone]
    BY LookTurns
<1>2. call'[c].alone = alone
    BY <1>1
<1>3. ASSUME NEW d \in Calls \ {c}, At(d, "looked")
      PROVE  call'[d].alone = FALSE
  <2>1. call'[d] = [pc |-> "looked", request |-> call[d].request,
                    content |-> call[d].content, id |-> call[d].id, alone |-> FALSE]
    BY <1>3, LookTurns, Zenon
  <2> QED
    BY <2>1
<1>4. ASSUME NEW d \in Calls \ {c}, ~At(d, "looked")
      PROVE  call'[d] = call[d]
    BY <1>4, LookTurns, Zenon
<1> QED
    BY <1>1, <1>2, <1>3, <1>4

\* The status of a request is the only column a vote changes.
LEMMA StatusShape ==
    ASSUME TypeInv, NEW r \in Requests, Opened(r), NEW status \in Statuses,
           requests' = [requests EXCEPT ![r].status = status]
    PROVE  /\ requests' \in [Requests -> Request \cup {NoRequest}]
           /\ \A q \in Requests : q # r => requests'[q] = requests[q]
           /\ requests'[r] \in Request
           /\ requests'[r].status = status
           /\ \A q \in Requests :
                /\ Opened(q)' <=> Opened(q)
                /\ requests'[q].content = requests[q].content
                /\ requests'[q].group = requests[q].group
                /\ requests'[q].requestedBy = requests[q].requestedBy
<1>1. requests[r] \in Request
    BY DEF TypeInv, TypeOK, Opened
<1>2. requests' = [requests EXCEPT ![r] = [requests[r] EXCEPT !.status = status]]
    OBVIOUS
<1>3. /\ [requests[r] EXCEPT !.status = status] \in Request
      /\ [requests[r] EXCEPT !.status = status].status = status
      /\ [requests[r] EXCEPT !.status = status].content = requests[r].content
      /\ [requests[r] EXCEPT !.status = status].group = requests[r].group
      /\ [requests[r] EXCEPT !.status = status].requestedBy = requests[r].requestedBy
    BY <1>1 DEF Request
<1>4. /\ requests'[r] = [requests[r] EXCEPT !.status = status]
      /\ \A q \in Requests : q # r => requests'[q] = requests[q]
      /\ requests' \in [Requests -> Request \cup {NoRequest}]
    BY <1>2, <1>3 DEF TypeInv, TypeOK
<1>5. requests'[r] # NoRequest
    BY <1>3, <1>4 DEF NoRequest, Statuses
<1> QED
    BY <1>3, <1>4, <1>5 DEF Opened

-----------------------------------------------------------------------------
(* Types.                                                                   *)

LEMMA TypeInit == Init => TypeInv
<1> SUFFICES ASSUME Init PROVE TypeInv
    OBVIOUS
<1>1. /\ RbacTypeOK /\ load \in Load
    BY RbacAssumption, RegistryAssumption DEF Init, RbacInit, RbacTypeOK
<1>2. /\ requests = [r \in Requests |-> NoRequest]
      /\ votes = [r \in Requests |-> [e \in Emails |-> NoVote]]
      /\ call = [c \in Calls |-> Idle]
      /\ server = NoServer /\ minted = 0 /\ key = 1
      /\ certified = {} /\ registered = {} /\ unsettled = {}
    BY DEF Init
<1>3. server \in [id : Nat, content : Entry \cup {NoContent}] /\ server.id <= minted
    BY <1>2 DEF NoServer
<1>4. /\ requests \in [Requests -> Request \cup {NoRequest}]
      /\ votes \in [Requests -> [Emails -> Decisions \cup {NoVote}]]
      /\ call \in [Calls -> Call \cup {Idle}]
    BY <1>2
<1>5. Minted
    BY <1>2 DEF Minted, At, Idle
<1>6. OpenedFirst
    BY <1>2 DEF OpenedFirst, Opened
<1> QED
  <2>1. TypeOK
    BY <1>1, <1>2, <1>3, <1>4 DEF TypeOK
  <2> QED
    BY <1>5, <1>6, <2>1 DEF TypeInv

\* The calls may change if their requests stay open.
CallsTyped ==
    /\ call' \in [Calls -> Call \cup {Idle}]
    /\ \A c \in Calls : call'[c] # Idle /\ call'[c].request # Direct
                            => requests'[call'[c].request] # NoRequest

LEMMA TurnTyped ==
    ASSUME TypeInv, NEW c \in Calls, NEW record \in Call \cup {Idle},
           call' = [call EXCEPT ![c] = record],
           record # Idle /\ record.request # Direct => Opened(record.request),
           \A r \in Requests : Opened(r) => Opened(r)'
    PROVE  CallsTyped
<1>1. call' \in [Calls -> Call \cup {Idle}]
    BY DEF TypeInv, TypeOK
<1>2. ASSUME NEW d \in Calls, call'[d] # Idle, call'[d].request # Direct
      PROVE  requests'[call'[d].request] # NoRequest
  <2>1. call'[d].request \in Requests
    BY <1>1, <1>2 DEF Call
  <2>2. Opened(call'[d].request)
    BY <1>2 DEF TypeInv, TypeOK, Opened
  <2> QED
    BY <2>1, <2>2 DEF Opened
<1> QED
    BY <1>1, <1>2 DEF CallsTyped

LEMMA CallSets ==
    /\ VotingCall \subseteq Call
    /\ CountingCall \subseteq Call
    /\ TallyingCall \subseteq Call
    /\ RegisteringCall \subseteq Call
BY DEF VotingCall, CountingCall, TallyingCall, RegisteringCall, Call

LEMMA TypeStep == TypeInv /\ [Next]_vars => TypeInv'
<1> SUFFICES ASSUME TypeInv, [Next]_vars PROVE TypeInv'
    OBVIOUS
<1>1. CASE Quiet
    BY <1>1 DEF Quiet, history, TypeInv, TypeOK, Minted, At, OpenedFirst, Opened
<1>2. ASSUME NEW lost \in SUBSET Calls, Lose(lost)
      PROVE  TypeInv'
  <2>1. /\ call' \in [Calls -> Call \cup {Idle}]
        /\ \A c \in Calls : call'[c] = call[c] \/ call'[c] = Idle
        /\ unsettled' \subseteq Requests
    BY <1>2 DEF Lose, Dies, TypeInv, TypeOK
  <2>2. \A c \in Calls : call'[c].pc = "looked" => call'[c] = call[c]
    BY <2>1 DEF Idle
  <2> QED
    BY <1>2, <2>1, <2>2
    DEF Lose, rbacVars, RbacTypeOK, TypeInv, TypeOK, Minted, At, OpenedFirst, Opened
<1>3. ASSUME NEW r \in Requests, NEW by \in Emails, NEW content \in Entry, NEW g \in GroupNames,
             Propose(r, by, content, g)
      PROVE  TypeInv'
  <2> DEFINE row == [status |-> "PENDING", content |-> content, requestedBy |-> by,
                     group |-> g, signedWith |-> key]
  <2>1. row \in Request /\ row # NoRequest
    BY DEF Request, NoRequest, Statuses, TypeInv, TypeOK
  <2>2. /\ requests' = [requests EXCEPT ![r] = row]
        /\ load' = [load EXCEPT !.proposals = @ - 1] /\ load.proposals > 0
        /\ UNCHANGED <<rbacVars, key, server, minted, votes, call, history>>
    BY <1>3 DEF Propose
  <2>3. /\ requests' \in [Requests -> Request \cup {NoRequest}]
        /\ \A q \in Requests : Opened(q) => Opened(q)'
    <3> HIDE DEF row
    <3> QED
      BY <2>1, <2>2 DEF TypeInv, TypeOK, Opened
  <2>4. load' \in Load
    BY <2>2 DEF Load, TypeInv, TypeOK
  <2>5. \A c \in Calls : call'[c] # Idle /\ call'[c].request # Direct
                            => requests'[call'[c].request] # NoRequest
    BY <2>2, <2>3, RequestShape DEF Opened
  <2>6. TypeOK'
    BY <2>2, <2>3, <2>4, <2>5 DEF history, rbacVars, RbacTypeOK, TypeInv, TypeOK
  <2>7. Minted' /\ OpenedFirst'
    BY <2>2, <2>3 DEF history, TypeInv, TypeOK, Minted, At, OpenedFirst
  <2> QED
    BY <2>6, <2>7 DEF TypeInv
<1>4. ASSUME NEW c \in Calls, NEW r \in Requests, NEW e \in Emails, NEW d \in Decisions,
             BeginVote(c, r, e, d)
      PROVE  TypeInv'
  <2> DEFINE record == [pc |-> "permitted", request |-> r, actor |-> e, decision |-> d]
  <2>1. record \in Call /\ record.request = r /\ record.pc # "looked"
    BY CallSets DEF VotingCall
  <2>2. /\ call' = [call EXCEPT ![c] = record]
        /\ Opened(r)
        /\ load' = [load EXCEPT !.votes = @ - 1] /\ load.votes > 0
        /\ UNCHANGED <<rbacVars, key, server, minted, requests, votes, history>>
    BY <1>4 DEF BeginVote
  <2>3. CallsTyped
    <3> HIDE DEF record
    <3> QED
      BY <2>1, <2>2, TurnTyped DEF Opened
  <2>4. load' \in Load
    BY <2>2 DEF Load, TypeInv, TypeOK
  <2>5. Minted'
    <3> HIDE DEF record
    <3> QED
      BY <2>1, <2>2 DEF TypeInv, TypeOK, Minted, At
  <2> QED
    BY <2>2, <2>3, <2>4, <2>5
    DEF CallsTyped, history, rbacVars, RbacTypeOK, TypeInv, TypeOK, OpenedFirst, Opened
<1>5. ASSUME NEW c \in Calls, RecordApproval(c) \/ RecordRejection(c)
      PROVE  TypeInv'
  <2> DEFINE r == call[c].request
  <2>1. /\ call[c] \in VotingCall /\ r \in Requests /\ Opened(r) /\ call[c] # Idle
        /\ r # Direct
    BY <1>5, CallShape, VoteShape, RequestShape DEF RecordApproval, RecordRejection, Vote, At
  <2>2. /\ votes' \in [Requests -> [Emails -> Decisions \cup {NoVote}]]
        /\ \A q \in Requests : ~Opened(q) => votes'[q] = votes[q]
    BY <1>5, <2>1 DEF RecordApproval, RecordRejection, Vote, VotingCall, TypeInv, TypeOK
  <2>3. /\ requests' \in [Requests -> Request \cup {NoRequest}]
        /\ \A q \in Requests : Opened(q)' <=> Opened(q)
    <3>1. CASE requests' = requests
      BY <3>1 DEF TypeInv, TypeOK, Opened
    <3>2. CASE requests' = [requests EXCEPT ![r].status = "REJECTED"]
      BY <2>1, <3>2, StatusShape DEF Statuses
    <3> QED
      BY <1>5, <3>1, <3>2 DEF RecordApproval, RecordRejection
  <2>4. /\ [pc |-> "recorded", request |-> r] \in CountingCall
        /\ Idle.pc # "looked"
    BY <2>1 DEF CountingCall, Idle
  <2>5. PICK record \in CountingCall \cup {Idle} :
            /\ call' = [call EXCEPT ![c] = record]
            /\ record.pc # "looked"
            /\ record # Idle => record.request = r
    BY <1>5, <2>4 DEF RecordApproval, RecordRejection, Finish
  <2>6. CallsTyped
    BY <2>1, <2>3, <2>5, CallSets, TurnTyped
  <2>7. Minted'
    BY <1>5, <2>5 DEF RecordApproval, RecordRejection, TypeInv, TypeOK, Minted, At
  <2>8. unsettled' \subseteq Requests
    BY <1>5, <2>1 DEF RecordApproval, RecordRejection, Overtakes, history, TypeInv, TypeOK
  <2>9. UNCHANGED <<roles, groups, load, key, server, minted, certified, registered>>
    BY <1>5 DEF RecordApproval, RecordRejection, history, rbacVars
  <2>10. OpenedFirst'
    BY <2>2, <2>3, <2>9 DEF TypeInv, TypeOK, OpenedFirst
  <2> QED
    BY <2>2, <2>3, <2>6, <2>7, <2>8, <2>9, <2>10
    DEF CallsTyped, RbacTypeOK, TypeInv, TypeOK, Opened
<1>13. ASSUME NEW c \in Calls, ReadVotes(c)
      PROVE  TypeInv'
  <2>1. /\ call[c].request \in Requests
        /\ Opened(call[c].request)
        /\ call[c].request # Direct
    BY <1>13, VoteShape, RequestShape DEF ReadVotes, At
  <2>2. PICK record \in TallyingCall :
            /\ call' = [call EXCEPT ![c] = record]
            /\ record.pc # "looked"
            /\ record.request = call[c].request
    BY <1>13, TallyTurns
  <2>3. UNCHANGED <<rbacVars, load, key, server, minted, requests, votes, history>>
    BY <1>13 DEF ReadVotes
  <2>4. CallsTyped
    BY <2>1, <2>2, <2>3, CallSets, TurnTyped DEF Opened
  <2>5. Minted'
    BY <2>2, <2>3 DEF TypeInv, TypeOK, Minted, At
  <2> QED
    BY <2>3, <2>4, <2>5
    DEF CallsTyped, history, rbacVars, RbacTypeOK, TypeInv, TypeOK, OpenedFirst, Opened
<1>6. ASSUME NEW c \in Calls, CountApprovals(c)
      PROVE  TypeInv'
  <2> DEFINE r == call[c].request
  <2>1. r \in Requests /\ Opened(r) /\ r # Direct
    BY <1>6, VoteShape, RequestShape DEF CountApprovals, At
  <2>2. /\ [pc |-> "quorate", request |-> r] \in CountingCall
        /\ Idle.pc # "looked"
    BY <2>1 DEF CountingCall, Idle
  <2>3. PICK record \in CountingCall \cup {Idle} :
            /\ call' = [call EXCEPT ![c] = record]
            /\ record.pc # "looked"
            /\ record # Idle => record.request = r
    BY <1>6, <2>2, CountTurns
  <2>4. CallsTyped
    BY <1>6, <2>1, <2>3, CallSets, TurnTyped DEF CountApprovals, Opened
  <2>5. Minted'
    BY <1>6, <2>3 DEF CountApprovals, TypeInv, TypeOK, Minted, At
  <2>6. certified' \subseteq Requests /\ \A q \in certified' : Opened(q)
    BY <1>6, <2>1 DEF CountApprovals, TypeInv, TypeOK, OpenedFirst
  <2> QED
    BY <1>6, <2>4, <2>5, <2>6
    DEF CountApprovals, CallsTyped, rbacVars, RbacTypeOK, TypeInv, TypeOK, OpenedFirst, Opened
<1>7. ASSUME NEW c \in Calls, NEW request \in Requests \cup {Direct}, NEW content \in Entry,
             Look(c, request, content)
      PROVE  TypeInv'
  <2>1. /\ load' \in Load
        /\ minted' = IF RowId = server.id THEN minted ELSE minted + 1
        /\ UNCHANGED <<rbacVars, key, server, requests, votes, history>>
    BY <1>7 DEF Look, Looks
  <2>2. RowId <= minted' /\ minted <= minted' /\ minted' \in Nat
    BY <2>1 DEF RowId, TypeInv, TypeOK
  <2>3. call' \in [Calls -> Call \cup {Idle}]
    <3>1. call'[c] \in Call
      BY <1>7, CallSets, LookTurns, Zenon
    <3>2. ASSUME NEW d \in Calls \ {c}
          PROVE  call'[d] \in RegisteringCall \/ call'[d] = call[d]
      BY <1>7, <3>2, LookTurns, Zenon
    <3>3. \A d \in Calls : call'[d] \in Call \cup {Idle}
      BY <3>1, <3>2, CallSets DEF TypeInv, TypeOK
    <3>4. call' = [d \in Calls |-> call'[d]]
      BY <1>7, LookTurns, Zenon
    <3> QED
      BY ONLY <3>3, <3>4
  <2>4. ASSUME NEW d \in Calls, call'[d] # Idle, call'[d].request # Direct
        PROVE  requests'[call'[d].request] # NoRequest
    <3>1. CASE d = c
      <4>1. At(c, "quorate") /\ call'[c].request = call[c].request
        BY <1>7, <2>4, <3>1, LookFields DEF Look
      <4> QED
        BY <2>1, <3>1, <4>1, VoteShape, RequestShape DEF At, Opened
    <3>2. CASE d # c
      <4>1. call[d] # Idle /\ call'[d].request = call[d].request
        BY <1>7, <2>4, <3>2, LookFields
      <4> QED
        BY <2>1, <2>4, <4>1, RequestShape DEF Opened
    <3> QED
      BY <3>1, <3>2
  <2>5. ASSUME NEW d \in Calls, call'[d].pc = "looked"
        PROVE  call'[d].id <= minted'
    <3>1. CASE d = c
      BY <1>7, <2>2, <3>1, LookFields
    <3>2. CASE d # c
      <4>1. At(d, "looked") /\ call'[d].id = call[d].id /\ call[d].id \in Nat
        BY <1>7, <2>5, <3>2, LookFields, CallShape DEF At, RegisteringCall
      <4> QED
        BY <2>2, <4>1 DEF TypeInv, TypeOK, Minted
    <3> QED
      BY <3>1, <3>2
  <2>6. server.id <= minted'
    BY <2>2 DEF TypeInv, TypeOK
  <2> QED
    BY <2>1, <2>2, <2>3, <2>4, <2>5, <2>6
    DEF history, rbacVars, RbacTypeOK, TypeInv, TypeOK, Minted, At, OpenedFirst, Opened
<1>8. ASSUME NEW c \in Calls, UpsertServer(c)
      PROVE  TypeInv'
  <2>1. /\ call[c] \in RegisteringCall /\ call[c].pc = "looked" /\ call[c] # Idle
        /\ call' = [call EXCEPT ![c] = Written(c)]
        /\ Written(c) \in Call
        /\ Written(c).pc = "registered"
        /\ Written(c).request = call[c].request
    BY <1>8, UpsertTurns, CallShape, CallSets DEF UpsertServer, At, Written
  <2>2. /\ server' = [id |-> IF server = NoServer THEN call[c].id ELSE server.id,
                      content |-> call[c].content]
        /\ registered' = registered \cup ({call[c].request} \ {Direct})
        /\ UNCHANGED <<rbacVars, load, key, minted, requests, votes, certified, unsettled>>
    BY <1>8 DEF UpsertServer
  <2>3. call[c].id <= minted /\ call[c].id \in Nat /\ call[c].content \in Entry
    BY <2>1 DEF TypeInv, Minted, At, RegisteringCall
  <2>4. server' \in [id : Nat, content : Entry \cup {NoContent}] /\ server'.id <= minted
    BY <2>2, <2>3 DEF TypeInv, TypeOK
  <2>5. CallsTyped
    <3>1. Written(c).request # Direct => Opened(Written(c).request)
      BY <2>1, RequestShape
    <3> QED
      BY <2>1, <2>2, <3>1, TurnTyped DEF Opened
  <2>6. Minted'
    BY <2>1, <2>2 DEF TypeInv, TypeOK, Minted, At
  <2>7. registered' \subseteq Requests /\ \A q \in registered' : Opened(q)
    BY <2>1, <2>2, RequestShape DEF TypeInv, TypeOK, OpenedFirst
  <2> QED
    BY <2>2, <2>4, <2>5, <2>6, <2>7
    DEF CallsTyped, rbacVars, RbacTypeOK, TypeInv, TypeOK, OpenedFirst, Opened
<1>9. ASSUME NEW c \in Calls, ReplyDirectly(c)
      PROVE  TypeInv'
  <2>1. /\ call' = [call EXCEPT ![c] = Idle]
        /\ UNCHANGED <<rbacVars, load, key, server, minted, requests, votes, history>>
    BY <1>9 DEF ReplyDirectly, Finish
  <2>2. CallsTyped
    BY <2>1, TurnTyped DEF Opened
  <2>3. Minted'
    BY <2>1 DEF TypeInv, TypeOK, Minted, At, Idle
  <2> QED
    BY <2>1, <2>2, <2>3
    DEF CallsTyped, history, rbacVars, RbacTypeOK, TypeInv, TypeOK, OpenedFirst, Opened
<1>10. ASSUME NEW c \in Calls, MarkApplied(c)
       PROVE  TypeInv'
  <2> DEFINE r == call[c].request
  <2>1. r \in Requests /\ Opened(r)
    BY <1>10, CallShape, RequestShape DEF MarkApplied, At
  <2>2. /\ call' = [call EXCEPT ![c] = Idle]
        /\ requests' = [requests EXCEPT ![r].status = "APPLIED"]
        /\ UNCHANGED <<rbacVars, load, key, server, minted, votes, certified, registered>>
    BY <1>10 DEF MarkApplied, Finish
  <2>3. /\ requests' \in [Requests -> Request \cup {NoRequest}]
        /\ \A q \in Requests : Opened(q)' <=> Opened(q)
    BY <2>1, <2>2, StatusShape DEF Statuses
  <2>4. CallsTyped
    BY <2>2, <2>3, TurnTyped
  <2>5. unsettled' \subseteq Requests
    BY <1>10, <2>1 DEF MarkApplied, Overtakes, TypeInv, TypeOK
  <2>6. Minted'
    BY <2>2 DEF TypeInv, TypeOK, Minted, At, Idle
  <2>7. OpenedFirst'
    BY <2>2, <2>3 DEF TypeInv, TypeOK, OpenedFirst
  <2> QED
    BY <2>2, <2>3, <2>4, <2>5, <2>6, <2>7
    DEF CallsTyped, rbacVars, RbacTypeOK, TypeInv, TypeOK, Opened
<1> QED
    BY <1>1, <1>2, <1>3, <1>4, <1>5, <1>6, <1>7, <1>8, <1>9, <1>10, <1>13, NextKinds

-----------------------------------------------------------------------------
(* What becomes of a request. Whoever is still voting on a resolved request *)
(* was overtaken, so its vote is accounted for whatever it does.            *)

\* A vote that has registered has left its request among the registered.
RegisteredByVote ==
    \A c \in Calls : At(c, "registered") /\ call[c].request # Direct
                        => call[c].request \in registered

AppliedRegistered ==
    \A r \in Requests : requests[r].status = "APPLIED" => r \in registered

Overtaken ==
    \A r \in Requests, c \in Calls :
        Of(c, r) /\ requests[r].status # "PENDING" => r \in unsettled

Accounted ==
    \A r \in registered :
        \/ requests[r].status = "APPLIED"
        \/ r \in unsettled
        \/ \E c \in Calls : Of(c, r) /\ At(c, "registered")

RequestInv == RegisteredByVote /\ AppliedRegistered /\ Overtaken /\ Accounted

LEMMA RequestInit == Init => RequestInv
BY DEF Init, RequestInv, RegisteredByVote, AppliedRegistered, Overtaken, Accounted,
       Of, At, Idle, NoRequest

\* The vote c ends, or goes on to a step before the registration.
LEMMA VoteGoesOn ==
    ASSUME TypeInv, RequestInv, NEW c \in Calls, NEW record,
           call' = [call EXCEPT ![c] = record],
           record.pc \notin {"registered"},
           record # Idle => call[c] # Idle /\ record.request = call[c].request,
           ~At(c, "registered"),
           UNCHANGED <<requests, registered, unsettled>>
    PROVE  RequestInv'
<1>1. /\ \A d \in Calls : d # c => call'[d] = call[d]
      /\ call'[c] = record
    BY DEF TypeInv, TypeOK
<1>2. \A d \in Calls, r \in Requests : Of(d, r)' => Of(d, r)
    BY <1>1 DEF Of
<1>3. \A d \in Calls : At(d, "registered")' <=> At(d, "registered")
    BY <1>1 DEF At
<1>4. \A d \in Calls, r \in Requests : Of(d, r) /\ At(d, "registered") => Of(d, r)'
    BY <1>1 DEF Of, At
<1>5. \A d \in Calls : At(d, "registered")' => call'[d] = call[d]
    BY <1>1 DEF At
<1>6. registered \subseteq Requests
    BY DEF TypeInv, TypeOK
<1>7. RegisteredByVote'
    BY <1>3, <1>5 DEF RequestInv, RegisteredByVote
<1>8. AppliedRegistered'
    BY DEF RequestInv, AppliedRegistered
<1>9. Overtaken'
    BY <1>2 DEF RequestInv, Overtaken
<1>10. Accounted'
    BY <1>3, <1>4, <1>6 DEF RequestInv, Accounted
<1> QED
    BY <1>7, <1>8, <1>9, <1>10 DEF RequestInv

\* The vote c resolves its request.
LEMMA VoteResolves ==
    ASSUME TypeInv, RequestInv, NEW c \in Calls, NEW r \in Requests, NEW status \in Statuses,
           call[c] # Idle, call[c].request = r, Opened(r),
           requests' = [requests EXCEPT ![r].status = status],
           call' = [call EXCEPT ![c] = Idle],
           unsettled' = Overtakes(c, r),
           UNCHANGED registered,
           status = "APPLIED" => r \in registered,
           status # "APPLIED" => ~At(c, "registered")
    PROVE  RequestInv'
<1>1. /\ \A d \in Calls : d # c => call'[d] = call[d]
      /\ call'[c] = Idle
    BY DEF TypeInv, TypeOK
<1>2. /\ requests'[r].status = status
      /\ \A q \in Requests : q # r => requests'[q] = requests[q]
  <2>1. TypeInv /\ Opened(r) /\ requests' = [requests EXCEPT ![r].status = status]
    OBVIOUS
  <2> QED
    BY ONLY <2>1, StatusShape, Zenon
<1>3. unsettled \subseteq unsettled'
    BY DEF Overtakes
<1>4. ASSUME NEW d \in Calls, d # c, Of(d, r)
      PROVE  r \in unsettled'
    BY <1>4 DEF Overtakes
<1>5. ASSUME NEW d \in Calls, NEW q \in Requests, Of(d, q)'
      PROVE  Of(d, q) /\ d # c
    BY <1>1, <1>5 DEF Of
<1>6. ASSUME NEW d \in Calls, At(d, "registered")'
      PROVE  At(d, "registered") /\ d # c /\ call'[d] = call[d]
    BY <1>1, <1>6 DEF At, Idle
<1>7. RegisteredByVote'
    BY <1>6 DEF RequestInv, RegisteredByVote
<1>8. AppliedRegistered'
    BY <1>2 DEF RequestInv, AppliedRegistered
<1>9. Overtaken'
  <2> SUFFICES ASSUME NEW q \in Requests, NEW d \in Calls,
                      Of(d, q)', requests'[q].status # "PENDING"
               PROVE  q \in unsettled'
    BY DEF Overtaken
  <2>1. CASE q = r
    BY <1>4, <1>5, <2>1
  <2>2. CASE q # r
    BY <1>2, <1>3, <1>5, <2>2 DEF RequestInv, Overtaken
  <2> QED
    BY <2>1, <2>2
<1>10. Accounted'
  <2> SUFFICES ASSUME NEW q \in registered
               PROVE  \/ requests'[q].status = "APPLIED"
                      \/ q \in unsettled'
                      \/ \E d \in Calls : Of(d, q)' /\ At(d, "registered")'
    BY DEF Accounted
  <2>1. q \in Requests
    BY DEF TypeInv, TypeOK
  <2>2. CASE q = r
    <3>1. CASE requests[r].status = "APPLIED"
      BY <1>3, <2>2, <3>1 DEF RequestInv, Overtaken, Of
    <3>2. CASE r \in unsettled
      BY <1>3, <2>2, <3>2
    <3>3. CASE \E d \in Calls : Of(d, r) /\ At(d, "registered")
      <4>1. PICK d \in Calls : Of(d, r) /\ At(d, "registered")
        BY <3>3
      <4>2. CASE d = c
        BY <1>2, <2>2, <4>1, <4>2
      <4>3. CASE d # c
        BY <1>4, <2>2, <4>1, <4>3
      <4> QED
        BY <4>2, <4>3
    <3> QED
      BY <2>2, <3>1, <3>2, <3>3 DEF RequestInv, Accounted
  <2>3. CASE q # r
    <3>1. CASE \E d \in Calls : Of(d, q) /\ At(d, "registered")
      <4>1. PICK d \in Calls : Of(d, q) /\ At(d, "registered")
        BY <3>1
      <4>2. d # c
        BY <2>3, <4>1 DEF Of
      <4> QED
        BY <1>1, <4>1, <4>2 DEF Of, At
    <3> QED
      BY <1>2, <1>3, <2>1, <2>3, <3>1 DEF RequestInv, Accounted
  <2> QED
    BY <2>2, <2>3
<1> QED
    BY <1>7, <1>8, <1>9, <1>10 DEF RequestInv

LEMMA RequestStep == TypeInv /\ RequestInv /\ [Next]_vars => RequestInv'
<1> SUFFICES ASSUME TypeInv, RequestInv, [Next]_vars PROVE RequestInv'
    OBVIOUS
<1>1. CASE Quiet
    BY <1>1
    DEF Quiet, history, RequestInv, RegisteredByVote, AppliedRegistered, Overtaken, Accounted,
        Of, At
<1>2. ASSUME NEW lost \in SUBSET Calls, Lose(lost)
      PROVE  RequestInv'
  <2>1. /\ \A c \in Calls : call'[c] = IF c \in lost THEN Idle ELSE call[c]
        /\ unsettled' = unsettled \cup
              {r \in Requests : \E c \in lost : Of(c, r) /\ At(c, "registered")}
        /\ UNCHANGED <<requests, registered>>
        /\ registered \subseteq Requests
    BY <1>2 DEF Lose, Dies, TypeInv, TypeOK
  <2>2. RegisteredByVote' /\ AppliedRegistered'
    BY <2>1 DEF RequestInv, RegisteredByVote, AppliedRegistered, At, Idle
  <2>3. Overtaken'
    BY <2>1 DEF RequestInv, Overtaken, Of
  <2>4. Accounted'
    <3> SUFFICES ASSUME NEW r \in registered, requests[r].status # "APPLIED",
                        r \notin unsettled'
                 PROVE  \E c \in Calls : Of(c, r)' /\ At(c, "registered")'
      BY <2>1 DEF Accounted
    <3>1. PICK c \in Calls : Of(c, r) /\ At(c, "registered")
      BY <2>1 DEF RequestInv, Accounted
    <3>2. call'[c] = call[c]
      BY <2>1, <3>1
    <3> QED
      BY <3>1, <3>2 DEF Of, At
  <2> QED
    BY <2>2, <2>3, <2>4 DEF RequestInv
<1>3. ASSUME NEW r \in Requests, NEW by \in Emails, NEW content \in Entry, NEW g \in GroupNames,
             Propose(r, by, content, g)
      PROVE  RequestInv'
  <2>1. /\ ~Opened(r)
        /\ requests'[r].status = "PENDING"
        /\ \A q \in Requests : q # r => requests'[q] = requests[q]
        /\ UNCHANGED <<call, registered, unsettled>>
    BY <1>3 DEF Propose, history, TypeInv, TypeOK
  <2>2. r \notin registered /\ registered \subseteq Requests
    BY <2>1 DEF TypeInv, TypeOK, OpenedFirst
  <2> QED
    BY <2>1, <2>2
    DEF RequestInv, RegisteredByVote, AppliedRegistered, Overtaken, Accounted, Of, At
<1>4. ASSUME NEW c \in Calls, NEW r \in Requests, NEW e \in Emails, NEW d \in Decisions,
             BeginVote(c, r, e, d)
      PROVE  RequestInv'
  <2>1. /\ \A x \in Calls : x # c => call'[x] = call[x]
        /\ call'[c].pc = "permitted" /\ call'[c].request = r
        /\ call[c] = Idle
        /\ requests[r].status = "PENDING"
        /\ UNCHANGED <<requests, registered, unsettled>>
    BY <1>4 DEF BeginVote, history, TypeInv, TypeOK
  <2>2. \A x \in Calls : At(x, "registered")' <=> x # c /\ At(x, "registered")
    BY <2>1 DEF At
  <2>3. RegisteredByVote'
    BY <2>1, <2>2 DEF RequestInv, RegisteredByVote
  <2>4. AppliedRegistered'
    BY <2>1 DEF RequestInv, AppliedRegistered
  <2>5. Overtaken'
    BY <2>1 DEF RequestInv, Overtaken, Of
  <2>6. Accounted'
    BY <2>1, <2>2 DEF RequestInv, Accounted, Of, At, Idle
  <2> QED
    BY <2>3, <2>4, <2>5, <2>6 DEF RequestInv
<1>5. ASSUME NEW c \in Calls, RecordApproval(c)
      PROVE  RequestInv'
  <2> DEFINE record == [pc |-> "recorded", request |-> call[c].request]
  <2>1. call[c] # Idle /\ ~At(c, "registered")
    BY <1>5, VoteShape DEF RecordApproval, Vote, At
  <2>2. call' = [call EXCEPT ![c] = record] /\ UNCHANGED <<requests, registered, unsettled>>
    BY <1>5 DEF RecordApproval, history
  <2>3. record.pc # "registered" /\ record.request = call[c].request
    OBVIOUS
  <2> HIDE DEF record
  <2> QED
    BY <2>1, <2>2, <2>3, VoteGoesOn
<1>6. ASSUME NEW c \in Calls, RecordRejection(c)
      PROVE  RequestInv'
  <2>1. /\ call[c] # Idle /\ call[c].request \in Requests /\ Opened(call[c].request)
        /\ ~At(c, "registered")
    BY <1>6, VoteShape, RequestShape DEF RecordRejection, Vote, At
  <2> QED
    BY <1>6, <2>1, VoteResolves DEF RecordRejection, Finish, Statuses
<1>14. ASSUME NEW c \in Calls, ReadVotes(c)
      PROVE  RequestInv'
  <2>1. /\ call[c] # Idle /\ ~At(c, "registered")
        /\ UNCHANGED <<requests, registered, unsettled>>
    BY <1>14, VoteShape DEF ReadVotes, At, history
  <2>2. PICK record :
            /\ call' = [call EXCEPT ![c] = record]
            /\ record.pc # "registered"
            /\ record.request = call[c].request
    BY <1>14, TallyTurns
  <2> QED
    BY <2>1, <2>2, VoteGoesOn
<1>7. ASSUME NEW c \in Calls, CountApprovals(c)
      PROVE  RequestInv'
  <2> DEFINE record == [pc |-> "quorate", request |-> call[c].request]
  <2>1. /\ call[c] # Idle /\ ~At(c, "registered")
        /\ UNCHANGED <<requests, registered, unsettled>>
    BY <1>7, VoteShape DEF CountApprovals, At
  <2>2. /\ record.pc # "registered" /\ record.request = call[c].request
        /\ Idle.pc # "registered"
    BY DEF Idle
  <2>3. call' = [call EXCEPT ![c] = record] \/ call' = [call EXCEPT ![c] = Idle]
    BY <1>7, CountTurns
  <2> HIDE DEF record
  <2>4. CASE call' = [call EXCEPT ![c] = record]
    BY <2>1, <2>2, <2>4, VoteGoesOn
  <2>5. CASE call' = [call EXCEPT ![c] = Idle]
    BY <2>1, <2>2, <2>5, VoteGoesOn
  <2> QED
    BY <2>3, <2>4, <2>5
<1>8. ASSUME NEW c \in Calls, NEW request \in Requests \cup {Direct}, NEW content \in Entry,
             Look(c, request, content)
      PROVE  RequestInv'
  <2>1. /\ UNCHANGED <<requests, registered, unsettled>>
        /\ registered \subseteq Requests
        /\ Direct \notin Requests
    BY <1>8, RegistryAssumption DEF Look, Looks, history, TypeInv, TypeOK, Direct
  <2>2. \A d \in Calls : /\ At(d, "registered")' <=> At(d, "registered")
                         /\ At(d, "registered") => call'[d].request = call[d].request
                                                   /\ call'[d] # Idle
    BY <1>8, LookFields DEF Look, At, Idle
  <2>3. \A d \in Calls, r \in Requests : Of(d, r)' => Of(d, r)
    <3> SUFFICES ASSUME NEW d \in Calls, NEW r \in Requests, Of(d, r)'
                 PROVE  Of(d, r)
      OBVIOUS
    <3>1. CASE d = c
      <4>1. request = r /\ request # Direct
        BY <1>8, <2>1, <3>1, LookFields DEF Of
      <4> QED
        BY <1>8, <3>1, <4>1 DEF Look, Of, At, Idle
    <3>2. CASE d # c
      BY <1>8, <3>2, LookFields DEF Of
    <3> QED
      BY <3>1, <3>2
  <2>4. RegisteredByVote'
    BY <2>1, <2>2 DEF RequestInv, RegisteredByVote
  <2>5. AppliedRegistered' /\ Overtaken'
    BY <2>1, <2>3 DEF RequestInv, AppliedRegistered, Overtaken
  <2>6. Accounted'
    BY <2>1, <2>2 DEF RequestInv, Accounted, Of
  <2> QED
    BY <2>4, <2>5, <2>6 DEF RequestInv
<1>9. ASSUME NEW c \in Calls, UpsertServer(c)
      PROVE  RequestInv'
  <2>1. /\ call[c] # Idle
        /\ \A d \in Calls : d # c => call'[d] = call[d]
        /\ call'[c].pc = "registered" /\ call'[c].request = call[c].request
        /\ call'[c] # Idle
        /\ registered' = registered \cup ({call[c].request} \ {Direct})
        /\ UNCHANGED <<requests, unsettled>>
    BY <1>9, UpsertTurns, CallShape DEF UpsertServer, Written, At, Idle, TypeInv, TypeOK
  <2>2. RegisteredByVote' /\ AppliedRegistered' /\ Overtaken'
    BY <2>1 DEF RequestInv, RegisteredByVote, AppliedRegistered, Overtaken, Of, At
  <2>3. Accounted'
    <3> SUFFICES ASSUME NEW r \in registered'
                 PROVE  \/ requests[r].status = "APPLIED"
                        \/ r \in unsettled
                        \/ \E d \in Calls : Of(d, r)' /\ At(d, "registered")'
      BY <2>1 DEF Accounted
    <3>1. CASE r = call[c].request
      BY <2>1, <3>1 DEF Of, At
    <3>2. CASE r # call[c].request
      BY <2>1, <3>2 DEF RequestInv, Accounted, Of, At
    <3> QED
      BY <3>1, <3>2
  <2> QED
    BY <2>2, <2>3 DEF RequestInv
<1>10. ASSUME NEW c \in Calls, ReplyDirectly(c)
      PROVE  RequestInv'
  <2>1. /\ \A d \in Calls : d # c => call'[d] = call[d]
        /\ call'[c] = Idle
        /\ call[c].request = Direct
        /\ Direct \notin Requests
        /\ registered \subseteq Requests
        /\ UNCHANGED <<requests, registered, unsettled>>
    BY <1>10, RegistryAssumption DEF ReplyDirectly, Finish, history, Direct, TypeInv, TypeOK
  <2>2. \A d \in Calls, r \in Requests : Of(d, r) <=> Of(d, r)'
    BY <2>1 DEF Of
  <2>3. RegisteredByVote' /\ AppliedRegistered' /\ Overtaken'
    BY <2>1, <2>2 DEF RequestInv, RegisteredByVote, AppliedRegistered, Overtaken, At, Idle
  <2>4. Accounted'
    BY <2>1, <2>2 DEF RequestInv, Accounted, At, Of
  <2> QED
    BY <2>3, <2>4 DEF RequestInv
<1>11. ASSUME NEW c \in Calls, MarkApplied(c)
      PROVE  RequestInv'
  <2>1. /\ call[c] # Idle /\ call[c].request \in Requests /\ Opened(call[c].request)
        /\ call[c].request \in registered
    BY <1>11, CallShape, RequestShape DEF MarkApplied, At, RequestInv, RegisteredByVote
  <2> QED
    BY <1>11, <2>1, VoteResolves DEF MarkApplied, Finish, Statuses
<1> QED
    BY <1>1, <1>2, <1>3, <1>4, <1>5, <1>6, <1>7, <1>8, <1>9, <1>10, <1>11, <1>14,
       NextKinds

-----------------------------------------------------------------------------
(* The id of the row. A registration that runs alone writes the row it read.*)

LookedAlone ==
    \A c \in Calls : At(c, "looked") /\ call[c].alone =>
        /\ \A d \in Calls \ {c} : ~At(d, "looked")
        /\ server = NoServer \/ call[c].id = server.id

RegisteredAlone ==
    \A c \in Calls : At(c, "registered") /\ call[c].alone =>
        server # NoServer /\ call[c].id = server.id

RowInv == LookedAlone /\ RegisteredAlone

LEMMA RowInit == Init => RowInv
BY DEF Init, RowInv, LookedAlone, RegisteredAlone, At, Idle

LEMMA RowStep == TypeInv /\ RowInv /\ [Next]_vars => RowInv'
<1> SUFFICES ASSUME TypeInv, RowInv, [Next]_vars PROVE RowInv'
    OBVIOUS
<1>1. ASSUME server' = server,
             \A c \in Calls : call'[c] = call[c] \/ call'[c].pc \notin {"looked", "registered"}
      PROVE  RowInv'
    BY <1>1 DEF RowInv, LookedAlone, RegisteredAlone, At
<1>2. ASSUME NEW c \in Calls, NEW request \in Requests \cup {Direct}, NEW content \in Entry,
             Look(c, request, content)
      PROVE  RowInv'
  <2>1. server' = server
    BY <1>2 DEF Look, Looks
  <2>2. /\ call'[c].alone => \A d \in Calls \ {c} : ~At(d, "looked")
        /\ call'[c].id = RowId /\ call'[c].pc = "looked"
    BY <1>2, LookAlone, LookFields
  <2>3. ASSUME NEW d \in Calls \ {c}
        PROVE  /\ call'[d].pc = call[d].pc
               /\ At(d, "looked") => ~call'[d].alone
               /\ ~At(d, "looked") => call'[d] = call[d]
    BY <1>2, LookAlone, LookFields
  <2>4. server = NoServer \/ RowId = server.id
    BY DEF RowId
  <2>5. LookedAlone'
    BY <2>1, <2>2, <2>3, <2>4 DEF LookedAlone, At
  <2>6. RegisteredAlone'
    BY <2>1, <2>2, <2>3 DEF RowInv, RegisteredAlone, At
  <2> QED
    BY <2>5, <2>6 DEF RowInv
<1>3. ASSUME NEW c \in Calls, UpsertServer(c)
      PROVE  RowInv'
  <2>1. /\ At(c, "looked")
        /\ call[c] \in RegisteringCall
        /\ \A d \in Calls : d # c => call'[d] = call[d]
        /\ call'[c] = Written(c)
        /\ server' = [id |-> IF server = NoServer THEN call[c].id ELSE server.id,
                      content |-> call[c].content]
    BY <1>3, UpsertTurns DEF UpsertServer, TypeInv, TypeOK
  <2>2. /\ call'[c].pc = "registered" /\ call'[c].id = call[c].id
        /\ call'[c].alone = call[c].alone
    BY <2>1 DEF Written
  <2>3. server' # NoServer
    <3>1. server'.content \in Entry /\ NoServer.content = NoContent /\ NoContent \notin Entry
      BY <2>1, RegistryAssumption DEF RegisteringCall, NoServer, Entry
    <3> QED
      BY <3>1
  <2>4. server # NoServer => server'.id = server.id
    BY <2>1
  <2>5. server = NoServer => server'.id = call[c].id
    BY <2>1
  <2>6. LookedAlone'
    BY <2>1, <2>2 DEF RowInv, LookedAlone, At
  <2>7. RegisteredAlone'
    BY <2>1, <2>2, <2>3, <2>4, <2>5 DEF RowInv, LookedAlone, RegisteredAlone, At
  <2> QED
    BY <2>6, <2>7 DEF RowInv
<1>4. CASE Quiet
    BY <1>1, <1>4 DEF Quiet
<1>5. ASSUME NEW lost \in SUBSET Calls, Lose(lost)
      PROVE  RowInv'
    BY <1>1, <1>5 DEF Lose, Dies, Idle
<1>6. ASSUME NEW c \in Calls,
             \/ \E r \in Requests, e \in Emails, d \in Decisions : BeginVote(c, r, e, d)
             \/ RecordApproval(c)
             \/ RecordRejection(c)
             \/ ReadVotes(c)
             \/ CountApprovals(c)
             \/ ReplyDirectly(c)
             \/ MarkApplied(c)
      PROVE  RowInv'
  <2>1. server' = server
    BY <1>6
    DEF BeginVote, RecordApproval, RecordRejection, ReadVotes, CountApprovals, ReplyDirectly,
        MarkApplied
  <2>2. \E record : /\ record.pc \notin {"looked", "registered"}
                    /\ call' = [call EXCEPT ![c] = record]
    <3>1. CASE \E r \in Requests, e \in Emails, d \in Decisions : BeginVote(c, r, e, d)
      BY <3>1 DEF BeginVote
    <3>2. CASE RecordApproval(c)
      BY <3>2 DEF RecordApproval
    <3>3. CASE CountApprovals(c)
      BY <3>3, CountTurns DEF Idle
    <3>5. CASE ReadVotes(c)
      BY <3>5, TallyTurns
    <3>4. CASE RecordRejection(c) \/ ReplyDirectly(c) \/ MarkApplied(c)
      BY <3>4 DEF RecordRejection, ReplyDirectly, MarkApplied, Finish, Idle
    <3> QED
      BY <1>6, <3>1, <3>2, <3>3, <3>4, <3>5
  <2>3. \A d \in Calls : call'[d] = call[d] \/ call'[d].pc \notin {"looked", "registered"}
    BY <2>2 DEF TypeInv, TypeOK
  <2> QED
    BY <1>1, <2>1, <2>3
<1>7. ASSUME NEW r \in Requests, NEW by \in Emails, NEW content \in Entry, NEW g \in GroupNames,
             Propose(r, by, content, g)
      PROVE  RowInv'
    BY <1>1, <1>7 DEF Propose
<1> QED
    BY <1>2, <1>3, <1>4, <1>5, <1>6, <1>7, NextKinds

-----------------------------------------------------------------------------
(* What a registration has behind it: a certificate and the content of its  *)
(* request, or the route that needs none.                                   *)

Backed ==
    \A c \in Calls :
        /\ At(c, "quorate") => call[c].request \in certified
        /\ At(c, "looked") =>
            \/ call[c].request = Direct /\ load.direct
            \/ /\ call[c].request \in certified
               /\ call[c].content = requests[call[c].request].content

LEMMA BackedInit == Init => Backed
BY DEF Init, Backed, At, Idle

LEMMA BackedStep == TypeInv /\ Backed /\ [Next]_vars => Backed'
<1> SUFFICES ASSUME TypeInv, Backed, [Next]_vars PROVE Backed'
    OBVIOUS
<1>1. ASSUME \A c \in Calls : call'[c] = call[c] \/ call'[c].pc \notin {"quorate", "looked"},
             certified' = certified, load'.direct = load.direct,
             \A r \in Requests : Opened(r) => requests'[r].content = requests[r].content
      PROVE  Backed'
    BY <1>1 DEF Backed, At, TypeInv, TypeOK, OpenedFirst
<1>2. CASE Quiet
    BY <1>1, <1>2 DEF Quiet, history
<1>3. ASSUME NEW lost \in SUBSET Calls, Lose(lost)
      PROVE  Backed'
    BY <1>1, <1>3 DEF Lose, Dies, Idle
<1>4. ASSUME NEW r \in Requests, NEW by \in Emails, NEW content \in Entry, NEW g \in GroupNames,
             Propose(r, by, content, g)
      PROVE  Backed'
  <2>1. load'.direct = load.direct
    BY <1>4 DEF Propose, Load, TypeInv, TypeOK
  <2> QED
    BY <1>1, <1>4, <2>1 DEF Propose, history, TypeInv, TypeOK
<1>5. ASSUME NEW c \in Calls, NEW r \in Requests, NEW e \in Emails, NEW d \in Decisions,
             BeginVote(c, r, e, d)
      PROVE  Backed'
  <2>1. load'.direct = load.direct
    BY <1>5 DEF BeginVote, Load, TypeInv, TypeOK
  <2> QED
    BY <1>1, <1>5, <2>1 DEF BeginVote, history, TypeInv, TypeOK
<1>6. ASSUME NEW c \in Calls, RecordApproval(c) \/ ReplyDirectly(c)
      PROVE  Backed'
    BY <1>1, <1>6 DEF RecordApproval, ReplyDirectly, Finish, history, Idle, TypeInv, TypeOK
<1>7. ASSUME NEW c \in Calls, RecordRejection(c) \/ MarkApplied(c)
      PROVE  Backed'
  <2>1. call[c].request \in Requests /\ Opened(call[c].request)
    BY <1>7, CallShape, VoteShape, RequestShape DEF RecordRejection, Vote, MarkApplied, At
  <2>2. \A r \in Requests : requests'[r].content = requests[r].content
    BY <1>7, <2>1, StatusShape DEF RecordRejection, MarkApplied, Statuses
  <2>3. \A d \in Calls : call'[d] = call[d] \/ call'[d].pc \notin {"quorate", "looked"}
    BY <1>7 DEF RecordRejection, MarkApplied, Finish, Idle, TypeInv, TypeOK
  <2> QED
    BY <1>1, <1>7, <2>2, <2>3 DEF RecordRejection, MarkApplied
<1>11. ASSUME NEW c \in Calls, ReadVotes(c)
       PROVE  Backed'
  <2>1. \A d \in Calls : call'[d] = call[d] \/ call'[d].pc = "tallied"
    BY <1>11, TallyTurns DEF TypeInv, TypeOK
  <2> QED
    BY <1>1, <1>11, <2>1 DEF ReadVotes, history
<1>8. ASSUME NEW c \in Calls, CountApprovals(c)
      PROVE  Backed'
  <2>1. /\ \A d \in Calls : d # c => call'[d] = call[d]
        /\ call'[c].pc # "looked"
        /\ call'[c].pc = "quorate" => /\ call'[c].request = call[c].request
                                      /\ call[c].request \in certified'
        /\ certified \subseteq certified'
        /\ UNCHANGED <<requests, load>>
    <3>1. CASE call' = [call EXCEPT ![c] = Idle]
      BY <1>8, <3>1 DEF CountApprovals, Idle, TypeInv, TypeOK
    <3>2. CASE call' = [call EXCEPT ![c] = [pc |-> "quorate", request |-> call[c].request]]
      <4>1. Quorum(call[c].request, call[c].approvers)
        <5>1. call'[c] # Idle
          BY <3>2 DEF Idle, TypeInv, TypeOK
        <5> QED
          BY <1>8, <5>1 DEF CountApprovals, Finish, TypeInv, TypeOK
      <4> QED
        BY <1>8, <3>2, <4>1 DEF CountApprovals, TypeInv, TypeOK
    <3> QED
      BY <1>8, <3>1, <3>2, CountTurns
  <2> QED
    BY <2>1 DEF Backed, At
<1>9. ASSUME NEW c \in Calls, NEW request \in Requests \cup {Direct}, NEW content \in Entry,
             Look(c, request, content)
      PROVE  Backed'
  <2>1. UNCHANGED <<requests, certified>> /\ load'.direct = load.direct
    BY <1>9 DEF Look, Looks, history
  <2>2. \/ request = Direct /\ load.direct
        \/ request \in certified /\ content = requests[request].content
    BY <1>9 DEF Look, Backed
  <2>3. ASSUME NEW d \in Calls, At(d, "quorate")'
        PROVE  At(d, "quorate") /\ call'[d].request = call[d].request
    BY <1>9, <2>3, LookFields DEF At
  <2>4. ASSUME NEW d \in Calls, d # c, At(d, "looked")'
        PROVE  /\ At(d, "looked")
               /\ call'[d].request = call[d].request /\ call'[d].content = call[d].content
    BY <1>9, <2>4, LookFields DEF At
  <2>5. call'[c].request = request /\ call'[c].content = content
    BY <1>9, LookFields
  <2> QED
    BY <2>1, <2>2, <2>3, <2>4, <2>5 DEF Backed
<1>10. ASSUME NEW c \in Calls, UpsertServer(c)
       PROVE  Backed'
  <2>1. /\ \A d \in Calls : d # c => call'[d] = call[d]
        /\ call'[c].pc = "registered"
        /\ UNCHANGED <<requests, load, certified>>
    BY <1>10, UpsertTurns DEF UpsertServer, Written, TypeInv, TypeOK
  <2> QED
    BY <1>1, <2>1
<1> QED
    BY <1>2, <1>3, <1>4, <1>5, <1>6, <1>7, <1>8, <1>9, <1>10, <1>11, NextKinds

-----------------------------------------------------------------------------
(* The steps of the registry implement GovernedActivation.                  *)

Approvals == [r \in Requests |-> IF Opened(r) THEN Approvers(r) ELSE {}]
Target == [r \in Requests |-> IF Opened(r) THEN requests[r].content ELSE NoContent]
Threshold ==
    [r \in Requests |-> IF Opened(r) THEN RequiredApprovals(requests[r].group) ELSE 1]
TalliesOf == [r \in Requests |-> Tallies(r)]
Governed == ~load.direct

\* What the abstract step is in the terms of the tables.
Forgetting ==
    /\ UNCHANGED <<Governed, Target, Approvals, Threshold, certified, server>>
    /\ \A r \in Requests : Tallies(r)' \subseteq Tallies(r)

LEMMA ThresholdTyped ==
    ASSUME TypeInv'
    PROVE  Threshold' \in [Requests -> Nat \ {0}]
<1>1. ASSUME NEW r \in Requests, Opened(r)'
      PROVE  RequiredApprovals(requests[r].group)' \in Nat \ {0}
  <2>1. requests'[r].group \in GroupNames
    BY <1>1 DEF TypeInv, TypeOK, Opened, Request
  <2> QED
    BY <2>1 DEF TypeInv, TypeOK, RbacTypeOK, RequiredApprovals, Group
<1> QED
    BY <1>1 DEF Threshold

LEMMA RefinementInit == Init => Abstract!Init
<1> SUFFICES ASSUME Init PROVE Abstract!Init
    OBVIOUS
<1>1. \A r \in Requests : ~Opened(r)
    BY DEF Init, Opened
<1>2. /\ Target = [r \in Requests |-> NoContent]
      /\ Approvals = [r \in Requests |-> {}]
      /\ Threshold \in [Requests -> Nat \ {0}]
    BY <1>1 DEF Target, Approvals, Threshold
<1>3. Governed \in BOOLEAN /\ certified = {} /\ server.content = NoContent
    BY DEF Init, NoServer, Governed
<1>4. TalliesOf = [r \in Requests |-> {}]
    BY DEF TalliesOf, Tallies, Init, At, Idle
<1> QED
    BY <1>2, <1>3, <1>4 DEF Abstract!Init, Target, Approvals, Threshold, TalliesOf, Governed

\* A step that leaves every content, vote, group and opening alone.
LEMMA SameRows ==
    ASSUME UNCHANGED <<votes, groups>>,
           \A r \in Requests :
              /\ Opened(r)' <=> Opened(r)
              /\ requests'[r].content = requests[r].content
              /\ requests'[r].group = requests[r].group
              /\ requests'[r].requestedBy = requests[r].requestedBy
    PROVE  UNCHANGED <<Target, Approvals, Threshold>>
<1>1. Target' = Target
    BY DEF Target
<1>2. Approvals' = Approvals
    BY DEF Approvals, Approvers
<1>3. Threshold' = Threshold
    BY DEF Threshold, RequiredApprovals
<1> QED
    BY <1>1, <1>2, <1>3

\* A step in which no vote reads the votes takes no tally, and one in which none
\* of those that have read them moves loses none.
LEMMA NoTallyTaken ==
    ASSUME \A c \in Calls : call'[c].pc = "tallied" => call'[c] = call[c]
    PROVE  \A r \in Requests : Tallies(r)' \subseteq Tallies(r)
BY DEF Tallies, At

LEMMA SameTallies ==
    ASSUME \A c \in Calls : call'[c].pc = "tallied" \/ call[c].pc = "tallied"
                                => call'[c] = call[c]
    PROVE  UNCHANGED TalliesOf
<1>1. \A r \in Requests : Tallies(r)' = Tallies(r)
    BY DEF Tallies, At
<1> QED
    BY <1>1 DEF TalliesOf

LEMMA AbstractDiscard ==
    ASSUME Forgetting
    PROVE  Abstract!Next
<1>1. Abstract!Discard
    BY DEF Forgetting, Abstract!Discard, Abstract!Forgets, Target, Approvals, Threshold, Governed
<1> QED
    BY <1>1 DEF Abstract!Next

LEMMA AbstractReconfigure ==
    ASSUME Threshold' \in [Requests -> Nat \ {0}],
           UNCHANGED <<Governed, Target, Approvals, TalliesOf, certified, server>>
    PROVE  Abstract!Next
BY DEF Abstract!Next, Abstract!Reconfigure, Target, Approvals, Threshold, TalliesOf, Governed

LEMMA AbstractOpen ==
    ASSUME NEW r \in Requests, NEW content \in Entry,
           Target[r] = NoContent,
           Target' = [Target EXCEPT ![r] = content],
           Threshold'[r] \in Nat \ {0},
           Threshold' = [Threshold EXCEPT ![r] = Threshold'[r]],
           UNCHANGED <<Governed, Approvals, TalliesOf, certified, server>>
    PROVE  Abstract!Next
<1>1. Abstract!Open(r)
    BY DEF Abstract!Open, Target, Approvals, Threshold, TalliesOf, Governed
<1> QED
    BY <1>1 DEF Abstract!Next

LEMMA AbstractApprove ==
    ASSUME NEW r \in Requests, NEW e \in Emails,
           Target[r] # NoContent,
           \/ Approvals' = [Approvals EXCEPT ![r] = Approvals[r] \cup {e}]
           \/ Approvals' = [Approvals EXCEPT ![r] = Approvals[r] \ {e}],
           UNCHANGED <<Governed, Target, Threshold, TalliesOf, certified, server>>
    PROVE  Abstract!Next
<1>1. Abstract!Approve(r, e)
    BY DEF Abstract!Approve, Target, Approvals, Threshold, TalliesOf, Governed
<1> QED
    BY <1>1 DEF Abstract!Next

LEMMA AbstractTally ==
    ASSUME NEW r \in Requests,
           Target[r] # NoContent,
           TalliesOf' = [TalliesOf EXCEPT ![r] = TalliesOf[r] \cup {Approvals[r]}],
           UNCHANGED <<Governed, Target, Approvals, Threshold, certified, server>>
    PROVE  Abstract!Next
<1>1. Abstract!Tally(r)
    BY DEF Abstract!Tally, Target, Approvals, Threshold, TalliesOf, Governed
<1> QED
    BY <1>1 DEF Abstract!Next

LEMMA AbstractCertify ==
    ASSUME NEW r \in Requests,
           NEW people \in Tallies(r),
           Cardinality(people) >= Threshold[r],
           certified' = certified \cup {r},
           \A q \in Requests : Tallies(q)' \subseteq Tallies(q),
           UNCHANGED <<Governed, Target, Approvals, Threshold, server>>
    PROVE  Abstract!Next
<1>1. Abstract!Cardinality(people) = Cardinality(people)
    BY DEF Abstract!Cardinality, Cardinality
<1>2. Abstract!Certify(r)
    BY <1>1 DEF Abstract!Certify, Abstract!Forgets, Target, Approvals, Threshold, Governed
<1> QED
    BY <1>2 DEF Abstract!Next

LEMMA AbstractActivate ==
    ASSUME NEW r \in Requests,
           r \in certified,
           server'.content = Target[r],
           UNCHANGED <<Governed, Target, Approvals, Threshold, TalliesOf, certified>>
    PROVE  Abstract!Next
<1>1. Abstract!Activate(r)
    BY DEF Abstract!Activate, Target, Approvals, Threshold, TalliesOf, Governed
<1> QED
    BY <1>1 DEF Abstract!Next

LEMMA AbstractActivateDirectly ==
    ASSUME NEW content \in Entry,
           ~Governed,
           server'.content = content,
           UNCHANGED <<Governed, Target, Approvals, Threshold, TalliesOf, certified>>
    PROVE  Abstract!Next
<1>1. Abstract!ActivateDirectly(content)
    BY DEF Abstract!ActivateDirectly, Target, Approvals, Threshold, TalliesOf, Governed
<1> QED
    BY <1>1 DEF Abstract!Next

\* A vote is written: the approvals of its request gain or lose its actor.
LEMMA VoteRefines ==
    ASSUME TypeInv, NEW c \in Calls, Vote(c),
           \A q \in Requests :
              /\ Opened(q)' <=> Opened(q)
              /\ requests'[q].content = requests[q].content
              /\ requests'[q].group = requests[q].group
              /\ requests'[q].requestedBy = requests[q].requestedBy,
           \A d \in Calls : call'[d] = call[d] \/ (d = c /\ call'[d].pc # "tallied"),
           UNCHANGED <<groups, load, certified, server>>
    PROVE  Abstract!Next
<1>1. call[c] \in VotingCall /\ call[c] # Idle /\ call[c].request # Direct
    BY CallShape, VoteShape DEF Vote, At
<1>2. PICK r \in Requests, e \in Emails : r = call[c].request /\ e = call[c].actor
    BY <1>1 DEF VotingCall
<1>3. Opened(r) /\ Target[r] # NoContent
    BY <1>1, <1>2, RequestShape, RegistryAssumption DEF Target, Entry
<1>4. /\ \A q \in Requests : q # r => votes'[q] = votes[q]
      /\ \A x \in Emails : x # e => votes'[r][x] = votes[r][x]
    BY <1>2 DEF Vote, TypeInv, TypeOK
<1>5. UNCHANGED <<Target, Threshold, Governed>>
    BY DEF Target, Threshold, RequiredApprovals, Governed
<1>6. \/ Approvers(r)' = Approvers(r) \cup {e}
      \/ Approvers(r)' = Approvers(r) \ {e}
  <2>1. CASE e \in Approvers(r)'
    BY <1>4, <2>1 DEF Approvers
  <2>2. CASE e \notin Approvers(r)'
    BY <1>4, <2>2 DEF Approvers
  <2> QED
    BY <2>1, <2>2
<1>7. \A q \in Requests : q # r => Approvers(q)' = Approvers(q)
    BY <1>4 DEF Approvers
<1>8. \/ Approvals' = [Approvals EXCEPT ![r] = Approvals[r] \cup {e}]
      \/ Approvals' = [Approvals EXCEPT ![r] = Approvals[r] \ {e}]
  <2>1. Approvals[r] = Approvers(r) /\ Approvals'[r] = Approvers(r)'
    BY <1>3 DEF Approvals
  <2>2. \A q \in Requests : q # r => Approvals'[q] = Approvals[q]
    BY <1>7 DEF Approvals
  <2>3. Approvals' = [Approvals EXCEPT ![r] = Approvals'[r]]
    BY <2>2 DEF Approvals
  <2> QED
    BY <1>6, <2>1, <2>3
<1>9. UNCHANGED TalliesOf
  <2>1. call[c].pc # "tallied"
    BY DEF Vote, At
  <2> QED
    BY <2>1, SameTallies
<1> QED
    BY <1>3, <1>5, <1>8, <1>9, AbstractApprove

LEMMA RefinementStep ==
    TypeInv /\ TypeInv' /\ Backed /\ [Next]_vars => [Abstract!Next]_(Abstract!absVars)
<1> SUFFICES ASSUME TypeInv, TypeInv', Backed, [Next]_vars
             PROVE  [Abstract!Next]_(Abstract!absVars)
    OBVIOUS
<1>1. CASE Quiet
  <2>1. Threshold' \in [Requests -> Nat \ {0}]
    BY ThresholdTyped
  <2>2. UNCHANGED <<Governed, Target, Approvals, certified, server>>
    BY <1>1 DEF Quiet, history, Governed, Target, Approvals, Approvers, Opened
  <2>3. UNCHANGED TalliesOf
    BY <1>1, SameTallies DEF Quiet
  <2> QED
    BY <2>1, <2>2, <2>3, AbstractReconfigure
<1>2. ASSUME NEW lost \in SUBSET Calls, Lose(lost)
      PROVE  Forgetting
  <2>1. UNCHANGED <<Target, Approvals, Threshold>>
    BY <1>2, SameRows DEF Lose, rbacVars, Opened
  <2>2. \A d \in Calls : call'[d].pc = "tallied" => call'[d] = call[d]
    BY <1>2 DEF Lose, Dies, Idle
  <2> QED
    BY <1>2, <2>1, <2>2, NoTallyTaken DEF Lose, Forgetting, Governed
<1>3. ASSUME NEW r \in Requests, NEW by \in Emails, NEW content \in Entry, NEW g \in GroupNames,
             Propose(r, by, content, g)
      PROVE  Abstract!Next
  <2>1. ~Opened(r) /\ Opened(r)' /\ requests'[r].content = content
    BY <1>3 DEF Propose, Opened, NoRequest, TypeInv, TypeOK
  <2>2. \A q \in Requests : q # r => /\ requests'[q] = requests[q]
                                     /\ Opened(q)' <=> Opened(q)
    BY <1>3 DEF Propose, Opened, TypeInv, TypeOK
  <2>3. Target[r] = NoContent /\ Target' = [Target EXCEPT ![r] = content]
    BY <2>1, <2>2 DEF Target
  <2>4. Approvers(r)' = {}
    BY <1>3, <2>1 DEF Propose, TypeInv, OpenedFirst, Approvers, NoVote
  <2>5. \A q \in Requests : q # r => /\ Approvers(q)' = Approvers(q)
                                     /\ RequiredApprovals(requests[q].group)'
                                        = RequiredApprovals(requests[q].group)
    BY <1>3, <2>2 DEF Propose, rbacVars, Approvers, RequiredApprovals
  <2>6. Approvals' = Approvals
    BY <2>1, <2>2, <2>4, <2>5 DEF Approvals
  <2>7. Threshold' \in [Requests -> Nat \ {0}]
    BY ThresholdTyped
  <2>8. Threshold' = [Threshold EXCEPT ![r] = Threshold'[r]]
    BY <2>2, <2>5 DEF Threshold
  <2>9. UNCHANGED <<Governed, certified, server>>
    BY <1>3 DEF Propose, history, Governed, Load, TypeInv, TypeOK
  <2>10. UNCHANGED TalliesOf
    BY <1>3, SameTallies DEF Propose
  <2> QED
    BY <2>3, <2>6, <2>7, <2>8, <2>9, <2>10, AbstractOpen
<1>4. ASSUME NEW c \in Calls, NEW r \in Requests, NEW e \in Emails, NEW d \in Decisions,
             BeginVote(c, r, e, d)
      PROVE  Forgetting
  <2>1. UNCHANGED <<Target, Approvals, Threshold>>
    BY <1>4, SameRows DEF BeginVote, rbacVars, Opened
  <2>2. \A x \in Calls : call'[x].pc = "tallied" => call'[x] = call[x]
    BY <1>4 DEF BeginVote, TypeInv, TypeOK
  <2> QED
    BY <1>4, <2>1, <2>2, NoTallyTaken DEF BeginVote, history, Forgetting, Governed, Load, TypeInv, TypeOK
<1>5. ASSUME NEW c \in Calls, RecordApproval(c)
      PROVE  Abstract!Next
  <2>1. \A d \in Calls : call'[d] = call[d] \/ (d = c /\ call'[d].pc # "tallied")
    BY <1>5 DEF RecordApproval, TypeInv, TypeOK
  <2> QED
    BY <1>5, <2>1, VoteRefines DEF RecordApproval, rbacVars, history, Opened
<1>6. ASSUME NEW c \in Calls, RecordRejection(c)
      PROVE  Abstract!Next
  <2>1. call[c].request \in Requests /\ Opened(call[c].request)
    BY <1>6, VoteShape, RequestShape DEF RecordRejection, Vote, At
  <2>2. \A d \in Calls : call'[d] = call[d] \/ (d = c /\ call'[d].pc # "tallied")
    BY <1>6 DEF RecordRejection, Finish, Idle, TypeInv, TypeOK
  <2> QED
    BY <1>6, <2>1, <2>2, StatusShape, VoteRefines DEF RecordRejection, rbacVars, Statuses
<1>13. ASSUME NEW c \in Calls, ReadVotes(c)
       PROVE  Abstract!Next
  <2>1. PICK r \in Requests : /\ r = call[c].request
                              /\ Opened(r)
                              /\ requests[r].content \in Entry
    BY <1>13, VoteShape, RequestShape DEF ReadVotes, At
  <2>2. UNCHANGED <<Target, Approvals, Threshold>>
    BY <1>13, SameRows DEF ReadVotes, rbacVars, Opened
  <2>3. UNCHANGED <<Governed, certified, server>>
    BY <1>13 DEF ReadVotes, history, Governed
  <2>4. Target[r] # NoContent /\ Approvals[r] = Approvers(r)
    BY <2>1, RegistryAssumption DEF Target, Approvals, Entry
  <2>5. /\ \A d \in Calls : d # c => call'[d] = call[d]
        /\ call[c].pc = "recorded"
        /\ call'[c].pc = "tallied"
        /\ call'[c].request = r
        /\ call'[c].approvers = Approvers(r)
    BY <1>13, <2>1, TallyTurns DEF TypeInv, TypeOK
  <2>6. /\ Tallies(r)' = Tallies(r) \cup {Approvers(r)}
        /\ \A q \in Requests : q # r => Tallies(q)' = Tallies(q)
    BY <2>1, <2>5 DEF Tallies, At
  <2>7. TalliesOf' = [TalliesOf EXCEPT ![r] = TalliesOf[r] \cup {Approvals[r]}]
    BY <2>4, <2>6 DEF TalliesOf
  <2> QED
    BY <2>2, <2>3, <2>4, <2>7, AbstractTally
<1>7. ASSUME NEW c \in Calls, CountApprovals(c)
      PROVE  Abstract!Next
  <2>1. PICK r \in Requests, people \in SUBSET Emails :
            r = call[c].request /\ people = call[c].approvers /\ Opened(r)
    BY <1>7, CallShape, VoteShape, RequestShape DEF CountApprovals, At, TallyingCall
  <2>2. UNCHANGED <<Target, Approvals, Threshold, Governed, server>>
    <3>1. UNCHANGED <<Target, Approvals, Threshold>>
      BY <1>7, SameRows DEF CountApprovals, rbacVars, Opened
    <3> QED
      BY <1>7, <3>1 DEF CountApprovals, Governed
  <2>5. \A d \in Calls : call'[d].pc = "tallied" => call'[d] = call[d]
    BY <1>7, CountTurns DEF Idle, TypeInv, TypeOK
  <2>6. \A q \in Requests : Tallies(q)' \subseteq Tallies(q)
    BY <2>5, NoTallyTaken
  <2>3. CASE Quorum(r, people)
    <3>1. people \in Tallies(r)
      BY <1>7, <2>1 DEF CountApprovals, Tallies, At
    <3>2. Cardinality(people) >= Threshold[r]
      BY <2>1, <2>3 DEF Threshold, Quorum
    <3>3. certified' = certified \cup {r}
      BY <1>7, <2>1, <2>3 DEF CountApprovals
    <3> QED
      BY <2>2, <2>6, <3>1, <3>2, <3>3, AbstractCertify
  <2>4. CASE ~Quorum(r, people)
    <3>1. UNCHANGED certified
      BY <1>7, <2>1, <2>4 DEF CountApprovals
    <3> QED
      BY <2>2, <2>6, <3>1, AbstractDiscard DEF Forgetting
  <2> QED
    BY <2>3, <2>4
<1>8. ASSUME NEW c \in Calls, NEW request \in Requests \cup {Direct}, NEW content \in Entry,
             Look(c, request, content)
      PROVE  Forgetting
  <2>1. UNCHANGED <<Target, Approvals, Threshold>>
    BY <1>8, SameRows DEF Look, Looks, rbacVars, Opened
  <2>2. \A d \in Calls : call'[d].pc = "tallied" => call'[d] = call[d]
    <3>1. call'[c].pc = "looked"
      BY <1>8, LookFields
    <3>2. ASSUME NEW d \in Calls \ {c}, call'[d].pc = "tallied"
          PROVE  call'[d] = call[d]
      <4>1. ~At(d, "looked")
        BY <1>8, <3>2, LookFields DEF At
      <4>2. ~At(d, "looked") => call'[d] = call[d]
        BY <1>8, LookTurns, Zenon
      <4> QED
        BY <4>1, <4>2
    <3> QED
      BY <3>1, <3>2
  <2> QED
    BY <1>8, <2>1, <2>2, NoTallyTaken DEF Look, Looks, history, Forgetting, Governed
<1>9. ASSUME NEW c \in Calls, UpsertServer(c)
      PROVE  Abstract!Next
  <2>1. UNCHANGED <<Target, Approvals, Threshold, Governed, certified>>
    <3>1. UNCHANGED <<Target, Approvals, Threshold>>
      BY <1>9, SameRows DEF UpsertServer, rbacVars, Opened
    <3> QED
      BY <1>9, <3>1 DEF UpsertServer, Governed
  <2>2. server'.content = call[c].content /\ call[c].content \in Entry
    BY <1>9, CallShape DEF UpsertServer, At, RegisteringCall
  <2>5. UNCHANGED TalliesOf
    <3>1. call[c].pc = "looked" /\ call' = [call EXCEPT ![c] = Written(c)]
      BY <1>9, UpsertTurns DEF UpsertServer, At
    <3>2. Written(c).pc = "registered"
      BY DEF Written
    <3>3. \A d \in Calls : \/ call'[d] = call[d]
                           \/ call[d].pc = "looked" /\ call'[d].pc = "registered"
      BY <3>1, <3>2 DEF TypeInv, TypeOK
    <3> QED
      BY <3>3, SameTallies
  <2>3. CASE call[c].request = Direct /\ load.direct
    BY <2>1, <2>2, <2>3, <2>5, AbstractActivateDirectly DEF Governed
  <2>4. CASE /\ call[c].request \in certified
             /\ call[c].content = requests[call[c].request].content
    <3>1. call[c].request \in Requests /\ Opened(call[c].request)
      BY <2>4 DEF TypeInv, TypeOK, OpenedFirst
    <3>2. server'.content = Target[call[c].request]
      BY <2>2, <2>4, <3>1 DEF Target
    <3> QED
      BY <2>1, <2>4, <2>5, <3>1, <3>2, AbstractActivate
  <2> QED
    BY <1>9, <2>3, <2>4 DEF UpsertServer, Backed
<1>10. ASSUME NEW c \in Calls, ReplyDirectly(c)
       PROVE  Forgetting
  <2>1. UNCHANGED <<Target, Approvals, Threshold>>
    BY <1>10, SameRows DEF ReplyDirectly, rbacVars, Opened
  <2>3. \A d \in Calls : call'[d].pc = "tallied" => call'[d] = call[d]
    BY <1>10 DEF ReplyDirectly, Finish, Idle, TypeInv, TypeOK
  <2> QED
    BY <1>10, <2>3, NoTallyTaken, <2>1 DEF ReplyDirectly, history, Forgetting, Governed
<1>11. ASSUME NEW c \in Calls, MarkApplied(c)
       PROVE  Forgetting
  <2>1. call[c].request \in Requests /\ Opened(call[c].request)
    BY <1>11, CallShape, RequestShape DEF MarkApplied, At
  <2>2. UNCHANGED <<Target, Approvals, Threshold>>
    BY <1>11, <2>1, StatusShape, SameRows DEF MarkApplied, rbacVars, Statuses
  <2>3. \A d \in Calls : call'[d].pc = "tallied" => call'[d] = call[d]
    BY <1>11 DEF MarkApplied, Finish, Idle, TypeInv, TypeOK
  <2> QED
    BY <1>11, <2>3, NoTallyTaken, <2>2 DEF MarkApplied, Forgetting, Governed
<1>12. Forgetting => [Abstract!Next]_(Abstract!absVars)
    BY AbstractDiscard
<1> QED
    BY <1>1, <1>2, <1>3, <1>4, <1>5, <1>6, <1>7, <1>8, <1>9, <1>10, <1>11, <1>12, <1>13,
       NextKinds

-----------------------------------------------------------------------------
(* The plan that is evaluated beside the registry.                          *)

\* What is prepared is a beginning of the plan.
PlanInv ==
    evaluation # NoPlan =>
        /\ DOMAIN evaluation = PlanFields
        /\ evaluation.pc \in {"preparing", "decided"}
        /\ \E T : evaluation.actions \in Seq(T)
        /\ \A n \in DOMAIN evaluation.actions : DOMAIN evaluation.actions[n] = ActionFields
        /\ \E T : evaluation.prepared \in Seq(T)
        /\ Len(evaluation.prepared) <= Len(evaluation.actions)
        /\ evaluation.pc = "decided" =>
            /\ Len(evaluation.prepared) = Len(evaluation.actions)
            /\ \E i \in DOMAIN PRIORITY : PRIORITY[i] = evaluation.final

\* What the registry says of an action changes neither its name nor what it
\* depends on, and the decision is that of the actions as prepared.
PreparedInv ==
    evaluation # NoPlan =>
        /\ \A n \in DOMAIN evaluation.prepared :
                /\ DOMAIN evaluation.prepared[n] = ActionFields
                /\ evaluation.prepared[n].id = evaluation.actions[n].id
                /\ evaluation.prepared[n].deps = evaluation.actions[n].deps
        /\ Decided =>
                evaluation.final = FinalDecision(evaluation.prepared, evaluation.agent,
                                                 evaluation.intent)

LEMMA PlanInit == GatewayInit => PlanInv
<1> SUFFICES ASSUME GatewayInit, evaluation # NoPlan PROVE PlanInv
    BY DEF PlanInv
<1>1. load \in Loads
    BY DEF GatewayInit, Init
<1>2. PICK p \in PlansUnder[load] :
        evaluation = [pc |-> "preparing", actions |-> p.actions, prepared |-> << >>,
                      agent |-> p.agent, intent |-> p.intent, final |-> "ALLOW"]
    BY DEF GatewayInit
<1>3. /\ \E T : p.actions \in Seq(T)
      /\ \A n \in DOMAIN p.actions : DOMAIN p.actions[n] = ActionFields
    BY <1>1, GatewayAssumption
<1>4. /\ evaluation.prepared = << >> /\ evaluation.actions = p.actions
      /\ evaluation.pc = "preparing" /\ DOMAIN evaluation = PlanFields
    BY <1>2 DEF PlanFields
<1>5. Len(<< >>) <= Len(p.actions) /\ \E T : << >> \in Seq(T)
  <2>1. Len(p.actions) \in Nat
    BY <1>3
  <2>2. << >> \in Seq({})
    OBVIOUS
  <2> QED
    BY <2>1, <2>2
<1> QED
    BY <1>3, <1>4, <1>5 DEF PlanInv

LEMMA PlanStep == PlanInv /\ [GatewayNext]_gatewayVars => PlanInv'
<1> SUFFICES ASSUME PlanInv, [GatewayNext]_gatewayVars PROVE PlanInv'
    OBVIOUS
<1>1. ASSUME UNCHANGED evaluation PROVE PlanInv'
    BY <1>1 DEF PlanInv
<1>2. ASSUME Prepare PROVE PlanInv'
  <2> DEFINE next == Enriched(evaluation.actions[Len(evaluation.prepared) + 1])
  <2>1. /\ evaluation # NoPlan
        /\ evaluation.pc = "preparing"
        /\ Len(evaluation.prepared) < Len(evaluation.actions)
        /\ evaluation' = [evaluation EXCEPT !.prepared = Append(evaluation.prepared, next)]
    BY <1>2 DEF Prepare, NoPlan
  <2> HIDE DEF next
  <2>2. PICK T : evaluation.prepared \in Seq(T)
    BY <2>1 DEF PlanInv
  <2>3. PICK U : evaluation.actions \in Seq(U)
    BY <2>1 DEF PlanInv
  <2>4. /\ Append(evaluation.prepared, next) \in Seq(T \cup {next})
        /\ Len(Append(evaluation.prepared, next)) = Len(evaluation.prepared) + 1
    <3>1. evaluation.prepared \in Seq(T \cup {next})
      BY <2>2
    <3> QED
      BY <3>1
  <2>5. /\ evaluation'.prepared = Append(evaluation.prepared, next)
        /\ evaluation'.actions = evaluation.actions
        /\ evaluation'.pc = "preparing"
        /\ DOMAIN evaluation' = PlanFields
    BY <2>1 DEF PlanInv, PlanFields
  <2>6. Len(evaluation.prepared) + 1 <= Len(evaluation.actions)
    BY <2>1, <2>2, <2>3
  <2> QED
    BY <2>1, <2>3, <2>4, <2>5, <2>6 DEF PlanInv
<1>3. ASSUME Conclude PROVE PlanInv'
  <2> DEFINE decision == FinalDecision(evaluation.prepared, evaluation.agent, evaluation.intent)
  <2>1. /\ evaluation # NoPlan
        /\ Len(evaluation.prepared) = Len(evaluation.actions)
        /\ evaluation' = [evaluation EXCEPT !.pc = "decided", !.final = decision]
    BY <1>3 DEF Conclude, NoPlan
  <2>2. \E i \in DOMAIN PRIORITY : PRIORITY[i] = decision
    BY GravestDecides
  <2> HIDE DEF decision
  <2>3. /\ evaluation'.prepared = evaluation.prepared
        /\ evaluation'.actions = evaluation.actions
        /\ evaluation'.pc = "decided"
        /\ evaluation'.final = decision
        /\ DOMAIN evaluation' = PlanFields
    BY <2>1 DEF PlanInv, PlanFields
  <2> QED
    BY <2>1, <2>2, <2>3 DEF PlanInv
<1> QED
    BY <1>1, <1>2, <1>3 DEF GatewayNext, gatewayVars

LEMMA PlanTyped == PlanInv /\ TypeOK => GatewayTypeOK
<1> SUFFICES ASSUME PlanInv, TypeOK, evaluation # NoPlan PROVE GatewayTypeOK
    BY DEF GatewayTypeOK
<1>1. PICK T : evaluation.prepared \in Seq(T)
    BY DEF PlanInv
<1>2. PICK U : evaluation.actions \in Seq(U)
    BY DEF PlanInv
<1>3. /\ DOMAIN evaluation.prepared = 1 .. Len(evaluation.prepared)
      /\ DOMAIN evaluation.actions = 1 .. Len(evaluation.actions)
      /\ Len(evaluation.prepared) \in Nat /\ Len(evaluation.actions) \in Nat
    BY <1>1, <1>2
<1>4. DOMAIN evaluation.prepared \subseteq DOMAIN evaluation.actions
    BY <1>3 DEF PlanInv
<1> QED
    BY <1>3, <1>4 DEF PlanInv, GatewayTypeOK

LEMMA PreparedInit == GatewayInit => PreparedInv
<1> SUFFICES ASSUME GatewayInit, evaluation # NoPlan PROVE PreparedInv
    BY DEF PreparedInv
<1>1. PICK p \in PlansUnder[load] :
        evaluation = [pc |-> "preparing", actions |-> p.actions, prepared |-> << >>,
                      agent |-> p.agent, intent |-> p.intent, final |-> "ALLOW"]
    BY DEF GatewayInit
<1>2. evaluation.prepared = << >> /\ evaluation.pc = "preparing"
    BY <1>1
<1> QED
    BY <1>2 DEF PreparedInv, Decided

LEMMA EnrichedKeeps ==
    ASSUME NEW a, DOMAIN a = ActionFields
    PROVE  /\ DOMAIN Enriched(a) = ActionFields
           /\ Enriched(a).id = a.id
           /\ Enriched(a).deps = a.deps
BY DEF Enriched, ActionFields

LEMMA PreparedStep == PlanInv /\ PreparedInv /\ [GatewayNext]_gatewayVars => PreparedInv'
<1> SUFFICES ASSUME PlanInv, PreparedInv, [GatewayNext]_gatewayVars PROVE PreparedInv'
    OBVIOUS
<1>1. ASSUME UNCHANGED evaluation PROVE PreparedInv'
    BY <1>1 DEF PreparedInv, Decided
<1>2. ASSUME Prepare PROVE PreparedInv'
  <2> DEFINE last == Len(evaluation.prepared) + 1
             next == Enriched(evaluation.actions[last])
  <2>1. /\ evaluation # NoPlan
        /\ evaluation.pc = "preparing"
        /\ Len(evaluation.prepared) < Len(evaluation.actions)
        /\ evaluation' = [evaluation EXCEPT !.prepared = Append(evaluation.prepared, next)]
    BY <1>2 DEF Prepare, NoPlan
  <2>2. PICK T : evaluation.prepared \in Seq(T)
    BY <2>1 DEF PlanInv
  <2>3. PICK U : evaluation.actions \in Seq(U)
    BY <2>1 DEF PlanInv
  <2>4. last \in DOMAIN evaluation.actions
    BY <2>1, <2>2, <2>3
  <2>5. /\ DOMAIN next = ActionFields
        /\ next.id = evaluation.actions[last].id
        /\ next.deps = evaluation.actions[last].deps
    BY <2>1, <2>4, EnrichedKeeps DEF PlanInv
  <2> HIDE DEF next
  <2>6. /\ evaluation'.prepared = Append(evaluation.prepared, next)
        /\ evaluation'.actions = evaluation.actions
        /\ evaluation'.pc = "preparing"
    BY <2>1 DEF PlanInv, PlanFields
  <2>7. \A n \in DOMAIN Append(evaluation.prepared, next) :
            \/ n = last /\ Append(evaluation.prepared, next)[n] = next
            \/ /\ n \in DOMAIN evaluation.prepared
               /\ Append(evaluation.prepared, next)[n] = evaluation.prepared[n]
    BY <2>2
  <2> HIDE DEF last
  <2> QED
    BY <2>1, <2>5, <2>6, <2>7 DEF PreparedInv, Decided
<1>3. ASSUME Conclude PROVE PreparedInv'
  <2> DEFINE decision == FinalDecision(evaluation.prepared, evaluation.agent, evaluation.intent)
  <2>1. /\ evaluation # NoPlan
        /\ evaluation' = [evaluation EXCEPT !.pc = "decided", !.final = decision]
    BY <1>3 DEF Conclude, NoPlan
  <2>2. /\ evaluation'.prepared = evaluation.prepared
        /\ evaluation'.actions = evaluation.actions
        /\ evaluation'.agent = evaluation.agent
        /\ evaluation'.intent = evaluation.intent
        /\ evaluation'.final = decision
    BY <2>1 DEF PlanInv, PlanFields
  <2>3. FinalDecision(evaluation'.prepared, evaluation'.agent, evaluation'.intent) = decision
    BY <2>2
  <2> HIDE DEF decision
  <2> QED
    BY <2>1, <2>2, <2>3 DEF PreparedInv
<1> QED
    BY <1>1, <1>2, <1>3 DEF GatewayNext, gatewayVars

LEMMA PlanInvariant == GatewaySpec => [](PlanInv /\ PreparedInv)
BY PlanInit, PlanStep, PreparedInit, PreparedStep, PTL DEF GatewaySpec

\* A decided plan is one the theorems about decisions are about.
LEMMA PreparedPlan ==
    ASSUME PlanInv, PreparedInv, Decided
    PROVE  /\ Plan(evaluation.prepared)
           /\ Shaped(evaluation.prepared)
           /\ WellOrdered(evaluation.actions) => WellOrdered(evaluation.prepared)
           /\ evaluation.final = FinalDecision(evaluation.prepared, evaluation.agent,
                                               evaluation.intent)
<1>1. evaluation # NoPlan
    BY DEF Decided, NoPlan
<1>2. PICK T : evaluation.prepared \in Seq(T)
    BY <1>1 DEF PlanInv
<1>3. PICK U : evaluation.actions \in Seq(U)
    BY <1>1 DEF PlanInv
<1>4. /\ DOMAIN evaluation.prepared = 1 .. Len(evaluation.prepared)
      /\ Len(evaluation.prepared) \in Nat
      /\ DOMAIN evaluation.actions = DOMAIN evaluation.prepared
    BY <1>1, <1>2, <1>3 DEF PlanInv, Decided
<1>5. ASSUME WellOrdered(evaluation.actions) PROVE WellOrdered(evaluation.prepared)
  <2>1. \A n \in DOMAIN evaluation.prepared :
            /\ evaluation.prepared[n].id = evaluation.actions[n].id
            /\ evaluation.prepared[n].deps = evaluation.actions[n].deps
    BY <1>1 DEF PreparedInv
  <2>2. \A n \in DOMAIN evaluation.prepared, m \in DOMAIN evaluation.prepared :
            evaluation.prepared[m].id = evaluation.prepared[n].id => m = n
    BY <1>4, <1>5, <2>1 DEF WellOrdered
  <2>3. ASSUME NEW n \in DOMAIN evaluation.prepared, NEW d \in evaluation.prepared[n].deps
        PROVE  \E m \in 1 .. n - 1 : evaluation.prepared[m].id = d
    <3>1. PICK m \in 1 .. n - 1 : evaluation.actions[m].id = d
        BY <1>4, <1>5, <2>1, <2>3 DEF WellOrdered
    <3>2. m \in DOMAIN evaluation.prepared
        BY <1>4, <3>1
    <3> QED
        BY <2>1, <3>1, <3>2
  <2> QED
    BY <2>2, <2>3 DEF WellOrdered
<1> QED
    BY <1>1, <1>4, <1>5 DEF Plan, Shaped, PreparedInv

LEMMA PreparedFlows == PlanInv /\ PreparedInv => FlowsContained
<1> SUFFICES ASSUME PlanInv, PreparedInv, Decided, WellOrdered(evaluation.actions),
                    evaluation.final # "BLOCK",
                    NEW n \in DOMAIN Outgoing, NEW label \in {"SECRET_DATA", "CONFIDENTIAL_DATA"},
                    Outgoing[n].op \in EXTERNAL_SINKS, Outgoing[n].destination # "none"
             PROVE  ~Reached(Outgoing, label, n)
    BY DEF FlowsContained
<1> QED
    BY PreparedPlan, SensitiveFlowsBlocked DEF Outgoing

LEMMA PreparedRepairs == PlanInv /\ PreparedInv => RepairConverges
<1> SUFFICES ASSUME PlanInv, PreparedInv, Decided, NEW n \in DOMAIN Outgoing, Rewritten(n)
             PROVE  Deciding(Outgoing[n], evaluation.agent, evaluation.intent,
                             TaintsOf(Outgoing, n)) > Decides(n)
    BY DEF RepairConverges
<1>1. Plan(evaluation.prepared) /\ Shaped(evaluation.prepared)
    BY PreparedPlan
<1>2. n \in DOMAIN evaluation.prepared
    BY DEF Outgoing, Effective
<1>3. Repairs(evaluation.prepared[n], evaluation.agent,
              RuleFor(evaluation.prepared, evaluation.agent, evaluation.intent, n))
    BY DEF Rewritten, Decides, RuleFor
<1> QED
    BY <1>1, <1>2, <1>3, RepairMovesOn DEF Outgoing, Decides

LEMMA PreparedInfluence == PlanInv /\ PreparedInv => InfluenceEscalates
<1> SUFFICES ASSUME PlanInv, PreparedInv, Decided, WellOrdered(evaluation.actions),
                    On("approval_for_untrusted_influence"),
                    evaluation.final \notin {"REQUIRE_APPROVAL", "BLOCK"},
                    NEW n \in DOMAIN evaluation.prepared,
                    evaluation.prepared[n].op \in EXTERNAL_SINKS,
                    Reached(evaluation.prepared, "UNTRUSTED_INPUT", n)
             PROVE  Rewritten(n)
    BY DEF InfluenceEscalates
<1>1. Repairs(evaluation.prepared[n], evaluation.agent,
              RuleFor(evaluation.prepared, evaluation.agent, evaluation.intent, n))
    BY PreparedPlan, UntrustedInputWaits
<1> QED
    BY <1>1 DEF Rewritten, Decides, RuleFor

-----------------------------------------------------------------------------
(* The theorems. The gateway leaves the registry to its own steps, so what   *)
(* holds of the registry in every behaviour of its own holds beside it.      *)

LEMMA GatewayKeepsRegistry == GatewaySpec => Spec
<1>1. GatewayInit => Init
    BY DEF GatewayInit
<1>2. [GatewayNext]_gatewayVars => [Next]_vars
    BY DEF GatewayNext, gatewayVars, Prepare, Conclude
<1> QED
    BY <1>1, <1>2, PTL DEF GatewaySpec, Spec

RegistryInv == TypeInv /\ RequestInv /\ RowInv /\ Backed

LEMMA RegistryInvariant == Spec => []RegistryInv
<1>1. Init => RegistryInv
    BY TypeInit, RequestInit, RowInit, BackedInit DEF RegistryInv
<1>2. RegistryInv /\ [Next]_vars => RegistryInv'
    BY TypeStep, RequestStep, RowStep, BackedStep DEF RegistryInv
<1> QED
    BY <1>1, <1>2, PTL DEF Spec

LEMMA RegistryMatches == RegistryInv => StatusMatchesRegistry
BY DEF RegistryInv, RequestInv, AppliedRegistered, Accounted, StatusMatchesRegistry

LEMMA RegistryNames == RegistryInv => ReplyNamesServer
<1> SUFFICES ASSUME RegistryInv, NEW c \in Calls, At(c, "registered"), call[c].alone
             PROVE  Verified(call[c].id) = Verified(ByUri)
    BY DEF ReplyNamesServer
<1>1. server # NoServer /\ call[c].id = server.id
    BY DEF RegistryInv, RowInv, RegisteredAlone
<1> QED
    BY <1>1 DEF Verified

\* The registry, its requests and the plan keep their types, and a decided plan
\* is prepared whole and has one of the five decisions (kernel.py evaluate_plan).
THEOREM GatewayTyped == GatewaySpec => []GatewayTypeOK
<1>1. RegistryInv => TypeOK
    BY DEF RegistryInv, TypeInv
<1> QED
    BY <1>1, GatewayKeepsRegistry, RegistryInvariant, PlanInit, PlanStep, PlanTyped, PTL
       DEF GatewaySpec

\* A request reads APPLIED only once it was registered, and whatever was
\* registered reads APPLIED, or was overtaken, or is being voted on (vote).
THEOREM StatusesMatch == GatewaySpec => []StatusMatchesRegistry
BY GatewayKeepsRegistry, RegistryInvariant, RegistryMatches, PTL

\* Who registers a server alone is told the id it is then found under
\* (MCPRegistry.register and enrich).
THEOREM RepliesName == GatewaySpec => []ReplyNamesServer
BY GatewayKeepsRegistry, RegistryInvariant, RegistryNames, PTL

\* Where the direct route is not used, every change of the registry is the
\* certified decision of a quorum (mcp_governance.py vote).
THEOREM RegistryGoverned == GatewaySpec => ImplementsGovernedActivation
<1>1. RegistryInv /\ RegistryInv' /\ [Next]_vars => [Abstract!Next]_(Abstract!absVars)
    BY RefinementStep DEF RegistryInv
<1> QED
    BY <1>1, GatewayKeepsRegistry, RegistryInvariant, RefinementInit, PTL
       DEF Spec, ImplementsGovernedActivation, Abstract!Spec

\* A plan that is not blocked, of any length and whatever its actions pass on,
\* takes no secret and no confidential data to an external destination: nothing
\* that the registry changes while the plan is prepared alters that (evaluate_plan).
THEOREM FlowsAreContained == GatewaySpec => []FlowsContained
BY PlanInvariant, PreparedFlows, PTL

\* A repair that is offered leaves nothing to repair for its rule: deciding the
\* rewritten plan moves on (repair_action).
THEOREM RepairsConverge == GatewaySpec => []RepairConverges
BY PlanInvariant, PreparedRepairs, PTL

\* Untrusted input that reaches an external sink is rewritten, or waits for an
\* approval, or is blocked, where the policy asks for that (evaluate_plan).
THEOREM InfluencesEscalate == GatewaySpec => []InfluenceEscalates
BY PlanInvariant, PreparedInfluence, PTL

=============================================================================
