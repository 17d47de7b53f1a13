---------------------------- MODULE DecisionProofs ----------------------------
(***************************************************************************)
(* Theorems about Decision, for plans of any length: what labels the       *)
(* actions have, which rule decides them, and what a repair leaves.        *)
(*                                                                         *)
(* An induction over the actions of a plan is about a set of their         *)
(* positions, which would have a least member outside it.                  *)
(***************************************************************************)
EXTENDS Decision, WellFoundedInduction, TLAPS

LEMMA LeastNumber ==
    ASSUME NEW T \in SUBSET Nat, T # {}
    PROVE  \E x \in T : \A y \in T : x <= y
<1>1. IsWellFoundedOn(OpToRel(<, Nat), Nat)
    BY NatLessThanWellFounded, Zenon
<1>2. PICK x \in T : \A y \in T : ~(<<y, x>> \in OpToRel(<, Nat))
    BY <1>1, WFMin, Zenon
<1>3. \A y \in T : ~(y < x)
    BY <1>2, Zenon DEF OpToRel
<1> QED
    BY <1>3

\* A set of positions that each belongs to if those before it do.
LEMMA Induction ==
    ASSUME NEW last \in Nat, NEW S,
           \A n \in 0 .. last : (\A m \in 0 .. n - 1 : m \in S) => n \in S
    PROVE  \A n \in 0 .. last : n \in S
<1> DEFINE T == {n \in 0 .. last : n \notin S}
<1> SUFFICES ASSUME T # {} PROVE FALSE
    OBVIOUS
<1>1. T \in SUBSET Nat
    OBVIOUS
<1>2. PICK n \in T : \A m \in T : n <= m
  <2> HIDE DEF T
  <2> QED
    BY <1>1, LeastNumber
<1>3. \A m \in 0 .. n - 1 : m \in 0 .. last /\ m \notin T
    BY <1>2
<1> QED
    BY <1>2, <1>3

-----------------------------------------------------------------------------
(* TaintState: ByAction satisfies the equation it is defined by.            *)

Fold(actions, f, last) ==
    /\ f = [n \in 0 .. last |-> f[n]]
    /\ \A n \in 0 .. last : f[n] = IF n = 0 THEN << >> ELSE Observed(actions[n], f[n - 1])

LEMMA FoldExists ==
    ASSUME NEW actions, NEW last \in Nat
    PROVE  \E f : Fold(actions, f, last)
<1> DEFINE S == {n \in Nat : \E f : Fold(actions, f, n)}
<1>1. ASSUME NEW n \in 0 .. last, \A m \in 0 .. n - 1 : m \in S
      PROVE  n \in S
  <2>1. CASE n = 0
    <3> DEFINE f == [m \in 0 .. 0 |-> << >>]
    <3>1. Fold(actions, f, 0)
        BY DEF Fold
    <3> QED
        BY <2>1, <3>1
  <2>2. CASE n # 0
    <3>1. PICK f : Fold(actions, f, n - 1)
        BY <1>1, <2>2
    <3> DEFINE g == [m \in 0 .. n |-> IF m = n THEN Observed(actions[n], f[n - 1]) ELSE f[m]]
    <3>2. \A m \in 0 .. n - 1 :
            /\ g[m] = f[m]
            /\ f[m] = IF m = 0 THEN << >> ELSE Observed(actions[m], f[m - 1])
            /\ m # 0 => m - 1 \in 0 .. n - 1
        BY <2>2, <3>1 DEF Fold
    <3>3. g[n] = Observed(actions[n], g[n - 1])
        BY <2>2, <3>2
    <3>4. \A m \in 0 .. n : g[m] = IF m = 0 THEN << >> ELSE Observed(actions[m], g[m - 1])
      <4> SUFFICES ASSUME NEW m \in 0 .. n
                   PROVE  g[m] = IF m = 0 THEN << >> ELSE Observed(actions[m], g[m - 1])
        OBVIOUS
      <4> HIDE DEF g
      <4>1. CASE m = n
        BY <2>2, <3>3, <4>1
      <4>2. CASE m # n
        BY <2>2, <3>2, <4>2
      <4> QED
        BY <4>1, <4>2
    <3>5. g = [m \in 0 .. n |-> g[m]]
        OBVIOUS
    <3>6. Fold(actions, g, n)
      <4> HIDE DEF g
      <4> QED
        BY <3>4, <3>5 DEF Fold
    <3> QED
        BY <3>6
  <2> QED
    BY <2>1, <2>2
<1> HIDE DEF S
<1>2. last \in S
    BY <1>1, Induction
<1> QED
    BY <1>2 DEF S

LEMMA ByActionFold ==
    ASSUME NEW actions, Len(actions) \in Nat
    PROVE  Fold(actions, ByAction(actions), Len(actions))
<1> DEFINE f == ByAction(actions)
           Body(g) == [n \in 0 .. Len(actions) |->
                            IF n = 0 THEN << >> ELSE Observed(actions[n], g[n - 1])]
<1>1. PICK g : Fold(actions, g, Len(actions))
    BY FoldExists
<1>2. g = Body(g)
    BY <1>1 DEF Fold
<1>3. f = CHOOSE h : h = Body(h)
    BY DEF ByAction
<1>4. f = Body(f)
    BY <1>2, <1>3
<1> QED
    BY <1>4 DEF Fold

\* A plan is a sequence of actions.
Plan(actions) ==
    /\ Len(actions) \in Nat
    /\ DOMAIN actions = 1 .. Len(actions)

LEMMA ByActionSteps ==
    ASSUME NEW actions, Plan(actions)
    PROVE  /\ ByAction(actions)[0] = << >>
           /\ \A n \in 1 .. Len(actions) :
                ByAction(actions)[n] = Observed(actions[n], ByAction(actions)[n - 1])
<1>1. Fold(actions, ByAction(actions), Len(actions))
    BY ByActionFold DEF Plan
<1> QED
    BY <1>1 DEF Fold, Plan

\* The ids observed so far.
LEMMA IdsObserved ==
    ASSUME NEW actions, Plan(actions)
    PROVE  \A n \in 0 .. Len(actions) :
                DOMAIN ByAction(actions)[n] = {actions[m].id : m \in 1 .. n}
<1> DEFINE by == ByAction(actions)
           S == {n \in 0 .. Len(actions) : DOMAIN by[n] = {actions[m].id : m \in 1 .. n}}
<1> HIDE DEF by
<1>1. ASSUME NEW n \in 0 .. Len(actions), \A m \in 0 .. n - 1 : m \in S
      PROVE  n \in S
  <2>1. CASE n = 0
    <3>1. by[0] = << >>
        BY ByActionSteps DEF by
    <3> QED
        BY <2>1, <3>1
  <2>2. CASE n # 0
    <3>1. by[n] = Observed(actions[n], by[n - 1])
        BY <2>2, ByActionSteps DEF by, Plan
    <3>2. DOMAIN by[n] = DOMAIN by[n - 1] \cup {actions[n].id}
        BY <3>1 DEF Observed
    <3>3. DOMAIN by[n - 1] = {actions[m].id : m \in 1 .. n - 1}
        BY <1>1, <2>2 DEF Plan
    <3>4. 1 .. n = (1 .. n - 1) \cup {n}
        BY <2>2 DEF Plan
    <3> QED
        BY <3>2, <3>3, <3>4
  <2> QED
    BY <2>1, <2>2
<1> HIDE DEF S
<1>2. \A n \in 0 .. Len(actions) : n \in S
    BY <1>1, Induction DEF Plan
<1> QED
    BY <1>2 DEF S, by

\* What observe finds is what is asked for later.
LEMMA TaintsObserved ==
    ASSUME NEW actions, Plan(actions), NEW n \in 1 .. Len(actions)
    PROVE  TaintsOf(actions, n) = Observe(actions[n], ByAction(actions)[n - 1])
<1>1. ByAction(actions)[n] = Observed(actions[n], ByAction(actions)[n - 1])
    BY ByActionSteps
<1> QED
    BY <1>1 DEF TaintsOf, Observed

\* Nothing overwrites the labels of an action whose id no other has.
LEMMA TaintsStay ==
    ASSUME NEW actions, Plan(actions), WellOrdered(actions)
    PROVE  \A n \in 0 .. Len(actions) : \A m \in 1 .. n :
                ByAction(actions)[n][actions[m].id] = TaintsOf(actions, m)
<1> DEFINE by == ByAction(actions)
           S == {n \in 0 .. Len(actions) :
                    \A m \in 1 .. n : by[n][actions[m].id] = TaintsOf(actions, m)}
<1>1. ASSUME NEW n \in 0 .. Len(actions), \A k \in 0 .. n - 1 : k \in S
      PROVE  n \in S
  <2> SUFFICES ASSUME NEW m \in 1 .. n
               PROVE  by[n][actions[m].id] = TaintsOf(actions, m)
    OBVIOUS
  <2>1. CASE m = n
    BY <2>1 DEF TaintsOf
  <2>2. CASE m # n
    <3>1. /\ n \in 1 .. Len(actions) /\ m \in 1 .. n - 1 /\ m \in 1 .. Len(actions)
          /\ n - 1 \in 0 .. n - 1
        BY <2>2 DEF Plan
    <3>2. by[n] = Observed(actions[n], by[n - 1])
        BY <3>1, ByActionSteps
    <3>3. actions[m].id # actions[n].id
        BY <2>2, <3>1 DEF Plan, WellOrdered
    <3>4. actions[m].id \in DOMAIN by[n - 1]
        BY <3>1, IdsObserved DEF Plan
    <3>5. by[n - 1][actions[m].id] = TaintsOf(actions, m)
        BY <1>1, <3>1
    <3> HIDE DEF by
    <3> QED
        BY <3>2, <3>3, <3>4, <3>5 DEF Observed
  <2> QED
    BY <2>1, <2>2
<1> HIDE DEF S
<1>2. \A n \in 0 .. Len(actions) : n \in S
    BY <1>1, Induction DEF Plan
<1> QED
    BY <1>2 DEF S

\* The labels of an action: its own and those of what it depends on, less those
\* it removes.
LEMMA TaintEquation ==
    ASSUME NEW actions, Plan(actions), WellOrdered(actions),
           NEW n \in 1 .. Len(actions), NEW label
    PROVE  label \in TaintsOf(actions, n) <=>
                /\ label \notin actions[n].sanitizes
                /\ \/ label \in OwnLabels(actions[n])
                   \/ \E m \in 1 .. n - 1 :
                        /\ actions[m].id \in actions[n].deps
                        /\ label \in TaintsOf(actions, m)
<1> DEFINE before == ByAction(actions)[n - 1]
<1>1. TaintsOf(actions, n) = Observe(actions[n], before)
    BY TaintsObserved
<1>2. n - 1 \in 0 .. Len(actions)
    BY DEF Plan
<1>3. DOMAIN before = {actions[m].id : m \in 1 .. n - 1}
    BY <1>2, IdsObserved
<1>4. \A m \in 1 .. n - 1 : before[actions[m].id] = TaintsOf(actions, m)
    BY <1>2, TaintsStay
<1> HIDE DEF before
<1>5. label \in UNION {before[d] : d \in actions[n].deps \cap DOMAIN before}
        <=> \E d \in actions[n].deps \cap DOMAIN before : label \in before[d]
    OBVIOUS
<1>6. (\E d \in actions[n].deps \cap DOMAIN before : label \in before[d])
        <=> \E m \in 1 .. n - 1 : /\ actions[m].id \in actions[n].deps
                                  /\ label \in TaintsOf(actions, m)
    BY <1>3, <1>4
<1> QED
    BY <1>1, <1>5, <1>6 DEF Observe

\* The labels found in one pass over the plan are the least sets that hold the
\* sources of each label and whatever depends on them, in every plan that only
\* depends on what it has named (TaintState.observe, over a plan of any length).
THEOREM TaintsExact ==
    ASSUME NEW actions, Plan(actions), WellOrdered(actions),
           NEW n \in DOMAIN actions, NEW label
    PROVE  label \in TaintsOf(actions, n) <=> Reached(actions, label, n)
<1> DEFINE Closed(S) == \A m \in DOMAIN actions :
                /\ label \notin actions[m].sanitizes
                /\ \/ label \in OwnLabels(actions[m])
                   \/ \E k \in S : actions[k].id \in actions[m].deps
                => m \in S
<1>1. DOMAIN actions = 1 .. Len(actions) /\ Len(actions) \in Nat
    BY DEF Plan
<1>2. Reached(actions, label, n) <=> \A S \in SUBSET DOMAIN actions : Closed(S) => n \in S
    BY DEF Reached
<1>3. ASSUME label \in TaintsOf(actions, n), NEW S \in SUBSET DOMAIN actions, Closed(S)
      PROVE  n \in S
  <2> DEFINE P == {m \in Nat : m \in DOMAIN actions /\ label \in TaintsOf(actions, m) => m \in S}
  <2>1. ASSUME NEW m \in 0 .. Len(actions), \A k \in 0 .. m - 1 : k \in P
        PROVE  m \in P
    <3> SUFFICES ASSUME m \in DOMAIN actions, label \in TaintsOf(actions, m) PROVE m \in S
        BY <1>1
    <3>1. /\ label \notin actions[m].sanitizes
          /\ \/ label \in OwnLabels(actions[m])
             \/ \E k \in 1 .. m - 1 : /\ actions[k].id \in actions[m].deps
                                      /\ label \in TaintsOf(actions, k)
        BY <1>1, TaintEquation
    <3>2. \A k \in 1 .. m - 1 : label \in TaintsOf(actions, k) => k \in S
        BY <1>1, <2>1
    <3> QED
        BY <1>3, <3>1, <3>2
  <2> HIDE DEF P
  <2>2. \A m \in 0 .. Len(actions) : m \in P
    BY <1>1, <2>1, Induction
  <2> QED
    BY <1>1, <1>3, <2>2 DEF P
<1>4. ASSUME \A S \in SUBSET DOMAIN actions : Closed(S) => n \in S
      PROVE  label \in TaintsOf(actions, n)
  <2> DEFINE S == {m \in DOMAIN actions : label \in TaintsOf(actions, m)}
  <2>1. ASSUME NEW m \in DOMAIN actions,
               label \notin actions[m].sanitizes,
               \/ label \in OwnLabels(actions[m])
               \/ \E k \in S : actions[k].id \in actions[m].deps
        PROVE  m \in S
    <3>1. ASSUME NEW k \in S, actions[k].id \in actions[m].deps
          PROVE  \E l \in 1 .. m - 1 : /\ actions[l].id \in actions[m].deps
                                       /\ label \in TaintsOf(actions, l)
      <4>1. PICK l \in 1 .. m - 1 : actions[l].id = actions[k].id
        BY <3>1 DEF WellOrdered
      <4>2. l \in DOMAIN actions /\ k \in DOMAIN actions
        BY <1>1, <4>1
      <4>3. l = k
        BY <4>1, <4>2 DEF WellOrdered
      <4> QED
        BY <3>1, <4>1, <4>3
    <3>2. label \in TaintsOf(actions, m)
        BY <1>1, <2>1, <3>1, TaintEquation
    <3> QED
        BY <3>2
  <2> HIDE DEF S
  <2>2. Closed(S)
    BY <2>1
  <2> HIDE DEF Closed
  <2>3. S \in SUBSET DOMAIN actions
    BY DEF S
  <2>4. n \in S
    BY <1>4, <2>2, <2>3
  <2> QED
    BY <2>4 DEF S
<1> QED
    BY <1>2, <1>3, <1>4

-----------------------------------------------------------------------------
(* evaluate_action: the first rule that matches.                           *)

LEMMA RulePositions ==
    /\ DOMAIN Rule = 1 .. 27
    /\ Rule[12] = "DB-DESTRUCTIVE" /\ Rule[14] = "DLP-SECRET" /\ Rule[25] = "GIT-PROTECTED"
    /\ Rule[26] = "UNTRUSTED-SIDE-EFFECT" /\ Rule[27] = "DEFAULT-AUDIT"
BY DEF Rule

\* A rule always decides, since the last one matches every action, and no rule
\* before it matches (evaluate_action).
LEMMA FirstMatchDecides ==
    ASSUME NEW a, NEW agent, NEW intent, NEW taints
    PROVE  LET i == Deciding(a, agent, intent, taints)
           IN  /\ i \in DOMAIN Rule
               /\ Matches(Rule[i], a, agent, intent, taints)
               /\ \A j \in DOMAIN Rule : Matches(Rule[j], a, agent, intent, taints) => i <= j
<1> DEFINE M == {i \in DOMAIN Rule : Matches(Rule[i], a, agent, intent, taints)}
<1>1. M \in SUBSET Nat
    BY RulePositions
<1>2. Matches("DEFAULT-AUDIT", a, agent, intent, taints)
    BY DEF Matches, MatchesEffect
<1>3. 27 \in M
    BY <1>2, RulePositions
<1>4. PICK i \in M : \A j \in M : i <= j
  <2> HIDE DEF M
  <2> QED
    BY <1>1, <1>3, LeastNumber
<1>5. \E k \in DOMAIN Rule :
            /\ Matches(Rule[k], a, agent, intent, taints)
            /\ \A j \in 1 .. k - 1 : ~Matches(Rule[j], a, agent, intent, taints)
    BY <1>4, RulePositions
<1> DEFINE d == Deciding(a, agent, intent, taints)
<1>6. /\ d \in DOMAIN Rule
      /\ Matches(Rule[d], a, agent, intent, taints)
      /\ \A j \in 1 .. d - 1 : ~Matches(Rule[j], a, agent, intent, taints)
    BY <1>5 DEF Deciding
<1> HIDE DEF d
<1>7. \A j \in DOMAIN Rule : Matches(Rule[j], a, agent, intent, taints) => d <= j
    BY <1>6, RulePositions
<1> QED
    BY <1>6, <1>7 DEF d

-----------------------------------------------------------------------------
(* repair_action: what a repair changes, and which rules it gets past.      *)

LEMMA Repairing ==
    ASSUME NEW a, DOMAIN a = ActionFields, NEW agent, NEW rule, Repairs(a, agent, rule)
    PROVE  LET b == Repaired(a, rule)
           IN  /\ rule \in {"DB-DESTRUCTIVE", "DLP-SECRET", "GIT-PROTECTED"}
               /\ b.id = a.id /\ b.tool = a.tool /\ b.kind = a.kind
               /\ b.destination = a.destination /\ b.deps = a.deps
               /\ b.untrusted = a.untrusted /\ b.amount = a.amount /\ b.flaws = a.flaws
               /\ b.op = IF rule = "DB-DESTRUCTIVE" THEN "select" ELSE a.op
               /\ b.protected = IF rule = "GIT-PROTECTED" THEN FALSE ELSE a.protected
               /\ b.sanitizes = IF rule = "DLP-SECRET"
                                THEN {"SECRET_DATA", "CONFIDENTIAL_DATA"} ELSE a.sanitizes
               /\ rule # "DLP-SECRET" => OwnLabels(b) = OwnLabels(a)
<1>1. CASE rule = "DB-DESTRUCTIVE"
    BY <1>1 DEF Repaired, ActionFields, OwnLabels
<1>2. CASE rule = "DLP-SECRET"
    BY <1>2 DEF Repaired, ActionFields
<1>3. CASE rule = "GIT-PROTECTED"
    BY <1>3 DEF Repaired, ActionFields, OwnLabels
<1> QED
    BY <1>1, <1>2, <1>3 DEF Repairs

\* The rules that look at more than an action's tool, kind, destination, amount
\* and flaws come after the repairs of what they look at.
LEMMA RulesBefore ==
    /\ \A j \in 1 .. 12 :
            Rule[j] \notin {"IAM-OP", "DLP-SECRET", "MEMORY-POISON", "MEMORY-PROVENANCE",
                            "A2A-SPOOF", "A2A-REPLAY", "A2A-STALE", "A2A-SIGNATURE",
                            "A2A-RECIPIENT", "CASCADE-BLOCK", "CASCADE-APPROVAL",
                            "PAYMENT-APPROVAL", "GIT-PROTECTED", "UNTRUSTED-SIDE-EFFECT",
                            "DEFAULT-AUDIT"}
    /\ \A j \in 1 .. 14 :
            Rule[j] \notin {"MEMORY-POISON", "GIT-PROTECTED", "UNTRUSTED-SIDE-EFFECT",
                            "DEFAULT-AUDIT"}
    /\ \A j \in 1 .. 25 : Rule[j] \notin {"UNTRUSTED-SIDE-EFFECT", "DEFAULT-AUDIT"}
BY DEF Rule

LEMMA RepairPasses ==
    ASSUME NEW a, DOMAIN a = ActionFields, NEW agent, NEW intent, NEW taints, NEW after,
           NEW i \in DOMAIN Rule, Repairs(a, agent, Rule[i]),
           Matches(Rule[i], a, agent, intent, taints),
           "SECRET_DATA" \in after => "SECRET_DATA" \in taints,
           after \cap Repaired(a, Rule[i]).sanitizes = {},
           NEW j \in 1 .. i, Matches(Rule[j], Repaired(a, Rule[i]), agent, intent, after)
    PROVE  j # i /\ Matches(Rule[j], a, agent, intent, taints)
<1> DEFINE b == Repaired(a, Rule[i])
<1>1. /\ Rule[i] \in {"DB-DESTRUCTIVE", "DLP-SECRET", "GIT-PROTECTED"}
      /\ b.tool = a.tool /\ b.kind = a.kind /\ b.destination = a.destination
      /\ b.amount = a.amount /\ b.flaws = a.flaws
      /\ b.op = IF Rule[i] = "DB-DESTRUCTIVE" THEN "select" ELSE a.op
      /\ b.protected = IF Rule[i] = "GIT-PROTECTED" THEN FALSE ELSE a.protected
      /\ b.sanitizes = IF Rule[i] = "DLP-SECRET"
                       THEN {"SECRET_DATA", "CONFIDENTIAL_DATA"} ELSE a.sanitizes
    BY Repairing
<1>2. Matches(Rule[j], b, agent, intent, after) /\ after \cap b.sanitizes = {}
    OBVIOUS
<1>3. /\ Rule[i] = "DB-DESTRUCTIVE" => i = 12
      /\ Rule[i] = "DLP-SECRET" => i = 14
      /\ Rule[i] = "GIT-PROTECTED" => i = 25
    BY DEF Rule
<1> HIDE DEF b
<1>4. /\ IsMcp(b) = IsMcp(a)
      /\ Untrusted(b, agent) = Untrusted(a, agent)
      /\ OverLimit(b, agent) = OverLimit(a, agent)
    BY <1>1 DEF IsMcp, Untrusted, OverLimit
<1>5. CASE Rule[i] = "DB-DESTRUCTIVE"
  <2>1. b.op = "select" /\ j \in 1 .. 12
    BY <1>1, <1>3, <1>5
  <2>2. CASE MatchesIdentity(Rule[j], b, agent, intent)
    BY <1>1, <1>5, <2>1, <2>2, RulesBefore DEF Matches, MatchesIdentity
  <2>3. CASE MatchesProvenance(Rule[j], b, agent)
    BY <1>1, <1>4, <1>5, <2>1, <2>3, RulesBefore DEF Matches, MatchesProvenance, Consequential
  <2>4. CASE MatchesEffect(Rule[j], b, agent, intent, after)
    BY <2>1, <2>4, RulesBefore DEF MatchesEffect, Destructive
  <2> QED
    BY <1>2, <2>2, <2>3, <2>4 DEF Matches
<1>6. CASE Rule[i] = "DLP-SECRET"
  <2>1. b.op = a.op /\ b.protected = a.protected /\ j \in 1 .. 14 /\ "SECRET_DATA" \notin after
    BY <1>1, <1>2, <1>3, <1>6
  <2>2. CASE MatchesIdentity(Rule[j], b, agent, intent)
    BY <1>1, <1>6, <2>1, <2>2 DEF Matches, MatchesIdentity
  <2>3. CASE MatchesProvenance(Rule[j], b, agent)
    BY <1>1, <1>4, <1>6, <2>1, <2>3 DEF Matches, MatchesProvenance, Sends
  <2>4. CASE MatchesEffect(Rule[j], b, agent, intent, after)
    BY <1>1, <1>4, <1>6, <2>1, <2>4, RulesBefore DEF Matches, MatchesEffect, Triggers
  <2> QED
    BY <1>2, <2>2, <2>3, <2>4 DEF Matches
<1>7. CASE Rule[i] = "GIT-PROTECTED"
  <2>1. b.op = a.op /\ b.protected = FALSE /\ j \in 1 .. 25
    BY <1>1, <1>3, <1>7
  <2>2. a.tool = "github" /\ a.op = "push"
    BY <1>7 DEF Matches, MatchesIdentity, MatchesProvenance, MatchesEffect
  <2>3. CASE MatchesIdentity(Rule[j], b, agent, intent)
    BY <1>1, <1>7, <2>1, <2>3 DEF Matches, MatchesIdentity
  <2>4. CASE MatchesProvenance(Rule[j], b, agent)
    BY <1>1, <1>4, <1>7, <2>1, <2>4 DEF Matches, MatchesProvenance, Sends
  <2>5. CASE MatchesEffect(Rule[j], b, agent, intent, after)
    BY <1>1, <1>4, <1>7, <2>1, <2>2, <2>5, RulesBefore DEF Matches, MatchesEffect, Triggers
  <2> QED
    BY <1>2, <2>3, <2>4, <2>5 DEF Matches
<1> QED
    BY <1>1, <1>5, <1>6, <1>7

-----------------------------------------------------------------------------
(* evaluate_plan: the rewritten plan.                                       *)

Shaped(actions) == \A n \in DOMAIN actions : DOMAIN actions[n] = ActionFields

\* Rewriting keeps the actions in their places, under their ids, and what they
\* depend on.
LEMMA EffectiveShape ==
    ASSUME NEW actions, Plan(actions), Shaped(actions), NEW agent, NEW intent
    PROVE  LET out == Effective(actions, agent, intent)
           IN  /\ Len(out) = Len(actions)
               /\ Plan(out)
               /\ \A n \in DOMAIN actions :
                    /\ out[n].id = actions[n].id
                    /\ out[n].deps = actions[n].deps
<1> DEFINE out == Effective(actions, agent, intent)
<1>1. DOMAIN out = 1 .. Len(actions) /\ Len(actions) \in Nat
    BY DEF Effective, Plan
<1>2. out = [n \in 1 .. Len(actions) |-> out[n]]
    BY DEF Effective, Plan
<1>3. ASSUME NEW n \in DOMAIN actions
      PROVE  out[n].id = actions[n].id /\ out[n].deps = actions[n].deps
  <2>1. out[n] = IF Repairs(actions[n], agent, RuleFor(actions, agent, intent, n))
                 THEN Repaired(actions[n], RuleFor(actions, agent, intent, n)) ELSE actions[n]
    BY DEF Effective
  <2> DEFINE rule == RuleFor(actions, agent, intent, n)
  <2>2. DOMAIN actions[n] = ActionFields
    BY DEF Shaped
  <2>3. CASE Repairs(actions[n], agent, rule)
    <3>1. /\ Repaired(actions[n], rule).id = actions[n].id
          /\ Repaired(actions[n], rule).deps = actions[n].deps
        BY <2>2, <2>3, Repairing
    <3> QED
        BY <2>1, <2>3, <3>1
  <2>4. CASE ~Repairs(actions[n], agent, rule)
    BY <2>1, <2>4
  <2> QED
    BY <2>3, <2>4
<1> HIDE DEF out
<1>4. Len(out) = Len(actions)
    BY <1>1, <1>2
<1> QED
    BY <1>1, <1>3, <1>4 DEF Plan, out

LEMMA EffectiveFields ==
    ASSUME NEW actions, Shaped(actions), NEW agent, NEW intent
    PROVE  Shaped(Effective(actions, agent, intent))
<1> DEFINE out == Effective(actions, agent, intent)
<1> SUFFICES ASSUME NEW n \in DOMAIN actions PROVE DOMAIN out[n] = ActionFields
    BY DEF Shaped, Effective
<1> DEFINE rule == RuleFor(actions, agent, intent, n)
<1>1. DOMAIN actions[n] = ActionFields
    BY DEF Shaped
<1>2. out[n] = IF Repairs(actions[n], agent, rule) THEN Repaired(actions[n], rule) ELSE actions[n]
    BY DEF Effective
<1> HIDE DEF out, rule
<1>3. ASSUME Repairs(actions[n], agent, rule)
      PROVE  DOMAIN Repaired(actions[n], rule) = DOMAIN actions[n]
  <2>1. rule \in {"DB-DESTRUCTIVE", "DLP-SECRET", "GIT-PROTECTED"}
    BY <1>3 DEF Repairs
  <2> QED
    BY <2>1 DEF Repaired
<1> QED
    BY <1>1, <1>2, <1>3

LEMMA EffectiveOrdered ==
    ASSUME NEW actions, Plan(actions), Shaped(actions), NEW agent, NEW intent,
           WellOrdered(actions)
    PROVE  WellOrdered(Effective(actions, agent, intent))
<1> DEFINE out == Effective(actions, agent, intent)
<1>1. /\ DOMAIN out = 1 .. Len(actions) /\ DOMAIN actions = 1 .. Len(actions)
      /\ Len(actions) \in Nat
      /\ \A n \in 1 .. Len(actions) :
            out[n].id = actions[n].id /\ out[n].deps = actions[n].deps
    BY EffectiveShape DEF Plan
<1> HIDE DEF out
<1>2. ASSUME NEW n \in DOMAIN out, NEW m \in DOMAIN out, out[m].id = out[n].id
      PROVE  m = n
    BY <1>1, <1>2 DEF WellOrdered
<1>3. ASSUME NEW n \in DOMAIN out, NEW d \in out[n].deps
      PROVE  \E m \in 1 .. n - 1 : out[m].id = d
  <2>1. PICK m \in 1 .. n - 1 : actions[m].id = d
    BY <1>1, <1>3 DEF WellOrdered
  <2>2. out[m].id = d
    BY <1>1, <2>1
  <2> QED
    BY <2>1, <2>2
<1> QED
    BY <1>2, <1>3 DEF WellOrdered, out

\* An action as it is rewritten has no secret of its own that it had not, and
\* removes what it did.
LEMMA RepairKeepsSecrets ==
    ASSUME NEW a, DOMAIN a = ActionFields, NEW agent, NEW rule, Repairs(a, agent, rule)
    PROVE  LET b == Repaired(a, rule)
           IN  "SECRET_DATA" \notin b.sanitizes =>
                    /\ "SECRET_DATA" \notin a.sanitizes
                    /\ "SECRET_DATA" \in OwnLabels(b) => "SECRET_DATA" \in OwnLabels(a)
<1> DEFINE b == Repaired(a, rule)
<1>1. /\ b.sanitizes = IF rule = "DLP-SECRET"
                       THEN {"SECRET_DATA", "CONFIDENTIAL_DATA"} ELSE a.sanitizes
      /\ rule # "DLP-SECRET" => OwnLabels(b) = OwnLabels(a)
    BY Repairing
<1> HIDE DEF b
<1>2. "SECRET_DATA" \notin b.sanitizes =>
            /\ "SECRET_DATA" \notin a.sanitizes
            /\ "SECRET_DATA" \in OwnLabels(b) => "SECRET_DATA" \in OwnLabels(a)
    BY <1>1
<1> QED
    BY <1>2 DEF b

\* A rewritten plan takes secrets nowhere the plan as proposed did not, whatever
\* its actions depend on and whatever ids they share (repair_action).
THEOREM RepairAddsNoSecret ==
    ASSUME NEW actions, Plan(actions), Shaped(actions), NEW agent, NEW intent,
           NEW n \in DOMAIN actions,
           "SECRET_DATA" \in TaintsOf(Effective(actions, agent, intent), n)
    PROVE  "SECRET_DATA" \in TaintsOf(actions, n)
<1> DEFINE out == Effective(actions, agent, intent)
           by == ByAction(actions)
           after == ByAction(out)
           S == {k \in Nat : k \in 0 .. Len(actions) =>
                    /\ DOMAIN after[k] = DOMAIN by[k]
                    /\ \A d \in DOMAIN by[k] :
                            "SECRET_DATA" \in after[k][d] => "SECRET_DATA" \in by[k][d]}
<1>1. /\ Plan(out) /\ Len(out) = Len(actions)
      /\ DOMAIN actions = 1 .. Len(actions) /\ Len(actions) \in Nat
      /\ \A k \in 1 .. Len(actions) :
            /\ out[k].id = actions[k].id
            /\ out[k].deps = actions[k].deps
    BY EffectiveShape DEF Plan
<1>2. ASSUME NEW k \in 1 .. Len(actions), "SECRET_DATA" \notin out[k].sanitizes
      PROVE  /\ "SECRET_DATA" \notin actions[k].sanitizes
             /\ "SECRET_DATA" \in OwnLabels(out[k]) => "SECRET_DATA" \in OwnLabels(actions[k])
  <2>1. out[k] = IF Repairs(actions[k], agent, RuleFor(actions, agent, intent, k))
                 THEN Repaired(actions[k], RuleFor(actions, agent, intent, k)) ELSE actions[k]
    BY <1>1 DEF Effective
  <2>2. DOMAIN actions[k] = ActionFields
    BY <1>1 DEF Shaped
  <2> QED
    BY <1>2, <2>1, <2>2, RepairKeepsSecrets
<1> HIDE DEF out
<1>3. /\ by[0] = << >> /\ after[0] = << >>
      /\ \A k \in 1 .. Len(actions) :
            /\ by[k] = Observed(actions[k], by[k - 1])
            /\ after[k] = Observed(out[k], after[k - 1])
    BY <1>1, ByActionSteps
<1> HIDE DEF by, after
<1>4. ASSUME NEW k \in 0 .. Len(actions), \A m \in 0 .. k - 1 : m \in S
      PROVE  k \in S
  <2>1. CASE k = 0
    BY <1>3, <2>1
  <2>2. CASE k # 0
    <3>1. k \in 1 .. Len(actions) /\ k - 1 \in 0 .. k - 1 /\ k - 1 \in 0 .. Len(actions)
        BY <1>1, <2>2
    <3>2. /\ DOMAIN after[k - 1] = DOMAIN by[k - 1]
          /\ \A d \in DOMAIN by[k - 1] :
                "SECRET_DATA" \in after[k - 1][d] => "SECRET_DATA" \in by[k - 1][d]
        BY <1>4, <3>1
    <3>3. "SECRET_DATA" \in Observe(out[k], after[k - 1])
                => "SECRET_DATA" \in Observe(actions[k], by[k - 1])
        BY <1>1, <1>2, <3>1, <3>2 DEF Observe
    <3>4. /\ by[k] = Observed(actions[k], by[k - 1]) /\ after[k] = Observed(out[k], after[k - 1])
          /\ out[k].id = actions[k].id
        BY <1>1, <1>3, <3>1
    <3>5. /\ DOMAIN after[k] = DOMAIN by[k]
          /\ \A d \in DOMAIN by[k] :
                "SECRET_DATA" \in after[k][d] => "SECRET_DATA" \in by[k][d]
        BY <3>2, <3>3, <3>4 DEF Observed
    <3> QED
        BY <1>1, <3>1, <3>5
  <2> QED
    BY <2>1, <2>2
<1> HIDE DEF S
<1>5. \A k \in 0 .. Len(actions) : k \in S
    BY <1>1, <1>4, Induction
<1>6. actions[n].id \in DOMAIN by[n]
    BY <1>1, IdsObserved DEF by
<1> QED
    BY <1>1, <1>5, <1>6 DEF S, by, after, out, TaintsOf

\* A repair gets its action past the rule that asked for it and past every rule
\* before that one, when the rewritten plan is decided in its turn.
THEOREM RepairMovesOn ==
    ASSUME NEW actions, Plan(actions), Shaped(actions), NEW agent, NEW intent,
           NEW n \in DOMAIN actions,
           Repairs(actions[n], agent, RuleFor(actions, agent, intent, n))
    PROVE  LET out == Effective(actions, agent, intent)
           IN  Deciding(out[n], agent, intent, TaintsOf(out, n))
                    > Deciding(actions[n], agent, intent, TaintsOf(actions, n))
<1> DEFINE out == Effective(actions, agent, intent)
           taints == TaintsOf(actions, n)
           after == TaintsOf(out, n)
           i == Deciding(actions[n], agent, intent, taints)
           j == Deciding(out[n], agent, intent, after)
<1>1. /\ i \in DOMAIN Rule
      /\ Matches(Rule[i], actions[n], agent, intent, taints)
      /\ \A k \in DOMAIN Rule : Matches(Rule[k], actions[n], agent, intent, taints) => i <= k
    BY FirstMatchDecides
<1>2. j \in DOMAIN Rule /\ Matches(Rule[j], out[n], agent, intent, after)
    BY FirstMatchDecides
<1>3. "SECRET_DATA" \in after => "SECRET_DATA" \in taints
    BY RepairAddsNoSecret
<1>4. Repairs(actions[n], agent, Rule[i]) /\ out[n] = Repaired(actions[n], Rule[i])
    BY DEF Effective, RuleFor
<1>5. after \cap out[n].sanitizes = {}
  <2>1. Plan(out) /\ n \in 1 .. Len(out)
    BY EffectiveShape DEF Plan
  <2>2. after = Observe(out[n], ByAction(out)[n - 1])
    BY <2>1, TaintsObserved
  <2> HIDE DEF out, after
  <2> QED
    BY <2>2 DEF Observe
<1>6. DOMAIN actions[n] = ActionFields
    BY DEF Shaped
<1> HIDE DEF i, j, taints, after, out
<1>7. ASSUME j \in 1 .. i PROVE FALSE
  <2>1. after \cap Repaired(actions[n], Rule[i]).sanitizes = {}
    BY <1>4, <1>5
  <2>2. Matches(Rule[j], Repaired(actions[n], Rule[i]), agent, intent, after)
    BY <1>2, <1>4
  <2>3. j # i /\ Matches(Rule[j], actions[n], agent, intent, taints)
    BY <1>1, <1>3, <1>4, <1>6, <1>7, <2>1, <2>2, RepairPasses
  <2> QED
    BY <1>1, <1>2, <1>7, <2>3, RulePositions
<1>8. j > i
    BY <1>1, <1>2, <1>7, RulePositions
<1> QED
    BY <1>8 DEF i, j, taints, after, out

-----------------------------------------------------------------------------
(* The decision of the plan is the gravest of its actions'.                 *)

\* The decision of a plan is one of the five, and nothing outranks it: not what
\* its actions get, nor the egress its rewritten actions still allow (PRIORITY,
\* graph_patterns).
THEOREM GravestDecides ==
    ASSUME NEW actions, NEW agent, NEW intent
    PROVE  LET final == FinalDecision(actions, agent, intent)
               Gets(n) == Outcome(actions[n], agent, RuleFor(actions, agent, intent, n))
           IN  /\ \E i \in DOMAIN PRIORITY : PRIORITY[i] = final
               /\ Egress(Effective(actions, agent, intent)) => final = "BLOCK"
               /\ \A n \in DOMAIN actions : Gets(n) = "BLOCK" => final = "BLOCK"
               /\ \A n \in DOMAIN actions :
                    Gets(n) = "REQUIRE_APPROVAL" => final \in {"REQUIRE_APPROVAL", "BLOCK"}
<1> DEFINE decisions == {Outcome(actions[n], agent, RuleFor(actions, agent, intent, n)) :
                            n \in DOMAIN actions}
                        \cup {"ALLOW"}
                        \cup (IF Egress(Effective(actions, agent, intent)) THEN {"BLOCK"} ELSE {})
           highest == CHOOSE i \in DOMAIN PRIORITY :
                        /\ PRIORITY[i] \in decisions
                        /\ \A j \in i + 1 .. Len(PRIORITY) : PRIORITY[j] \notin decisions
<1>1. /\ Egress(Effective(actions, agent, intent)) => "BLOCK" \in decisions
      /\ \A n \in DOMAIN actions :
            Outcome(actions[n], agent, RuleFor(actions, agent, intent, n)) \in decisions
      /\ "ALLOW" \in decisions
    OBVIOUS
<1>2. FinalDecision(actions, agent, intent) = PRIORITY[highest]
    BY DEF FinalDecision
<1> HIDE DEF decisions
<1>3. /\ DOMAIN PRIORITY = 1 .. 5 /\ Len(PRIORITY) = 5
      /\ PRIORITY[1] = "ALLOW" /\ PRIORITY[4] = "REQUIRE_APPROVAL" /\ PRIORITY[5] = "BLOCK"
    BY DEF PRIORITY
<1>4. \E i \in DOMAIN PRIORITY :
            /\ PRIORITY[i] \in decisions
            /\ \A j \in i + 1 .. Len(PRIORITY) : PRIORITY[j] \notin decisions
  <2> DEFINE Above(k) == \A j \in k + 1 .. 5 : PRIORITY[j] \notin decisions
  <2>1. \/ PRIORITY[5] \in decisions /\ Above(5)
        \/ PRIORITY[4] \in decisions /\ Above(4)
        \/ PRIORITY[3] \in decisions /\ Above(3)
        \/ PRIORITY[2] \in decisions /\ Above(2)
        \/ PRIORITY[1] \in decisions /\ Above(1)
    BY <1>1, <1>3
  <2> QED
    BY <1>3, <2>1
<1>5. /\ highest \in DOMAIN PRIORITY
      /\ \A j \in highest + 1 .. Len(PRIORITY) : PRIORITY[j] \notin decisions
    BY <1>4
<1> HIDE DEF highest
<1>6. "BLOCK" \in decisions => PRIORITY[highest] = "BLOCK"
    BY <1>3, <1>5
<1>7. "REQUIRE_APPROVAL" \in decisions => PRIORITY[highest] \in {"REQUIRE_APPROVAL", "BLOCK"}
    BY <1>3, <1>5
<1> QED
    BY <1>1, <1>2, <1>5, <1>6, <1>7

\* Unless the plan is blocked, no secret and no confidential data reach an
\* external sink of the rewritten plan, through any number of actions
\* (graph_patterns over the labels observe finds).
THEOREM SensitiveFlowsBlocked ==
    ASSUME NEW actions, Plan(actions), Shaped(actions), WellOrdered(actions),
           NEW agent, NEW intent,
           FinalDecision(actions, agent, intent) # "BLOCK"
    PROVE  LET out == Effective(actions, agent, intent)
           IN  \A n \in DOMAIN out, label \in {"SECRET_DATA", "CONFIDENTIAL_DATA"} :
                    out[n].op \in EXTERNAL_SINKS /\ out[n].destination # "none"
                        => ~Reached(out, label, n)
<1> DEFINE out == Effective(actions, agent, intent)
<1>1. Plan(out) /\ WellOrdered(out)
    BY EffectiveShape, EffectiveOrdered
<1>2. ~Egress(out)
    BY GravestDecides
<1> HIDE DEF out
<1>3. ASSUME NEW n \in DOMAIN out, NEW label \in {"SECRET_DATA", "CONFIDENTIAL_DATA"},
             out[n].op \in EXTERNAL_SINKS, out[n].destination # "none"
      PROVE  ~Reached(out, label, n)
  <2>1. ByAction(out)[Len(out)][out[n].id] = TaintsOf(out, n)
    BY <1>1, TaintsStay DEF Plan
  <2>2. label \notin TaintsOf(out, n)
    BY <1>2, <1>3, <2>1 DEF Egress
  <2> QED
    BY <1>1, <2>2, TaintsExact
<1> QED
    BY <1>3 DEF out

\* Where the policy asks for approval of what untrusted input does, an action
\* that takes it to an external sink is rewritten, or its plan waits for a person
\* or is blocked (UNTRUSTED-SIDE-EFFECT, whatever rule decides before it).
THEOREM UntrustedInputWaits ==
    ASSUME NEW actions, Plan(actions), WellOrdered(actions), NEW agent, NEW intent,
           On("approval_for_untrusted_influence"),
           NEW n \in DOMAIN actions,
           actions[n].op \in EXTERNAL_SINKS,
           Reached(actions, "UNTRUSTED_INPUT", n),
           ~Repairs(actions[n], agent, RuleFor(actions, agent, intent, n))
    PROVE  FinalDecision(actions, agent, intent) \in {"REQUIRE_APPROVAL", "BLOCK"}
<1> DEFINE taints == TaintsOf(actions, n)
           i == Deciding(actions[n], agent, intent, taints)
<1>1. "UNTRUSTED_INPUT" \in taints
    BY TaintsExact
<1>2. Matches(Rule[26], actions[n], agent, intent, taints)
    BY <1>1, RulePositions DEF Matches, MatchesEffect
<1>3. i \in DOMAIN Rule /\ i <= 26
    BY <1>2, FirstMatchDecides, RulePositions
<1>4. ~Repairs(actions[n], agent, Rule[i])
    BY DEF RuleFor
<1>5. RuleFor(actions, agent, intent, n) = Rule[i]
    BY DEF RuleFor
<1> HIDE DEF i
<1>6. Rule[i] # "DEFAULT-AUDIT"
    BY <1>3 DEF Rule
<1>7. Outcome(actions[n], agent, Rule[i]) \in {"REQUIRE_APPROVAL", "BLOCK"}
    BY <1>4, <1>6 DEF Outcome
<1> QED
    BY <1>5, <1>7, GravestDecides

\* The action is taken in another workspace, or under an id nobody registered
\* where the policy asks for one.
Stranger(a, agent) ==
    \/ agent.status = "foreign"
    \/ /\ agent.status = "none"
       /\ On("require_registered_agent")
       /\ "unregistered demo" \notin a.flaws

\* A stranger's plan gets nothing but a BLOCK, whatever else it holds
\* (WORKSPACE-SCOPE, IDENTITY).
THEOREM StrangersBlocked ==
    ASSUME NEW actions, NEW agent, NEW intent, NEW n \in DOMAIN actions,
           Stranger(actions[n], agent)
    PROVE  FinalDecision(actions, agent, intent) = "BLOCK"
<1> DEFINE taints == TaintsOf(actions, n)
           i == Deciding(actions[n], agent, intent, taints)
<1>1. Rule[1] = "WORKSPACE-SCOPE" /\ Rule[2] = "IDENTITY"
    BY DEF Rule
<1>2. \/ Matches(Rule[1], actions[n], agent, intent, taints)
      \/ Matches(Rule[2], actions[n], agent, intent, taints)
    BY <1>1 DEF Matches, MatchesIdentity, Stranger
<1>3. /\ i \in 1 .. 27
      /\ \A j \in 1 .. 27 : Matches(Rule[j], actions[n], agent, intent, taints) => i <= j
    BY FirstMatchDecides, RulePositions
<1>4. RuleFor(actions, agent, intent, n) = Rule[i]
    BY DEF RuleFor
<1> HIDE DEF i, taints
<1>5. i \in {1, 2}
  <2>1. i <= 1 \/ i <= 2
    BY <1>2, <1>3
  <2> QED
    BY <1>3, <2>1
<1>6. Outcome(actions[n], agent, Rule[i]) = "BLOCK"
    BY <1>1, <1>5 DEF Outcome, Repairs
<1> QED
    BY <1>4, <1>6, GravestDecides

\* Unless the plan is blocked, every action of the rewritten plan stays within
\* what its agent and its intent allow: a repair gives an action no operation that
\* its agent does not have, although the allowlist of operations is looked at
\* after the rule the repair belongs to (IAM-TOOL, INTENT-SCOPE, DB-DESTRUCTIVE,
\* IAM-OP, repair_action).
THEOREM RewrittenStaysAllowed ==
    ASSUME NEW actions, Plan(actions), Shaped(actions), NEW agent, NEW intent, Known(agent),
           FinalDecision(actions, agent, intent) # "BLOCK",
           NEW n \in DOMAIN actions
    PROVE  LET b == Effective(actions, agent, intent)[n]
           IN  /\ On("enforce_tool_allowlist") => b.tool \in agent.tools
               /\ intent.tools # {} => b.tool \in intent.tools
               /\ On("enforce_operation_allowlist") /\ OperationsOf(agent, b.tool) # {}
                    => b.op \in OperationsOf(agent, b.tool)
               /\ b.tool = "database" /\ b.op \in Destructive => intent.destructive
<1> DEFINE a == actions[n]
           b == Effective(actions, agent, intent)[n]
           taints == TaintsOf(actions, n)
           i == Deciding(a, agent, intent, taints)
<1>1. /\ i \in 1 .. 27
      /\ Matches(Rule[i], a, agent, intent, taints)
      /\ \A j \in 1 .. 27 : j < i => ~Matches(Rule[j], a, agent, intent, taints)
    BY FirstMatchDecides, RulePositions
<1>2. /\ Outcome(a, agent, Rule[i]) # "BLOCK"
      /\ b = IF Repairs(a, agent, Rule[i]) THEN Repaired(a, Rule[i]) ELSE a
    BY GravestDecides DEF RuleFor, Effective
<1>3. DOMAIN a = ActionFields
    BY DEF Shaped
<1> HIDE DEF a, b, taints, i
<1>4. /\ Rule[3] = "IAM-TOOL" /\ Rule[4] = "INTENT-SCOPE"
      /\ Rule[12] = "DB-DESTRUCTIVE" /\ Rule[13] = "IAM-OP"
    BY DEF Rule
<1>5. \/ i = 12 /\ Rule[i] = "DB-DESTRUCTIVE" /\ Repairs(a, agent, "DB-DESTRUCTIVE")
      \/ i > 13
  <2>1. \/ Repairs(a, agent, Rule[i])
        \/ Rule[i] \in {"DEFAULT-AUDIT", "CASCADE-APPROVAL", "PAYMENT-APPROVAL",
                        "UNTRUSTED-SIDE-EFFECT"}
    BY <1>2 DEF Outcome
  <2>2. Rule[i] \in {"DB-DESTRUCTIVE", "DLP-SECRET", "GIT-PROTECTED", "DEFAULT-AUDIT",
                     "CASCADE-APPROVAL", "PAYMENT-APPROVAL", "UNTRUSTED-SIDE-EFFECT"}
    BY <2>1 DEF Repairs
  <2>3. i = 12 \/ i > 13
    BY <1>1, <2>2 DEF Rule
  <2> QED
    BY <1>4, <2>1, <2>3
<1>6. /\ On("enforce_tool_allowlist") => a.tool \in agent.tools
      /\ intent.tools # {} => a.tool \in intent.tools
  <2>1. /\ ~Matches("IAM-TOOL", a, agent, intent, taints)
        /\ ~Matches("INTENT-SCOPE", a, agent, intent, taints)
    BY <1>1, <1>4, <1>5
  <2> QED
    BY <2>1 DEF Matches, MatchesIdentity
<1>7. CASE i = 12 /\ Rule[i] = "DB-DESTRUCTIVE" /\ Repairs(a, agent, "DB-DESTRUCTIVE")
  <2>1. a.tool = "database" /\ "select" \in OperationsOf(agent, "database")
    BY <1>1, <1>7 DEF Matches, MatchesIdentity, MatchesProvenance, MatchesEffect, Repairs
  <2>2. b.tool = a.tool /\ b.op = "select"
    BY <1>2, <1>3, <1>7, Repairing
  <2> QED
    BY <1>6, <2>1, <2>2 DEF b, Destructive
<1>8. CASE i > 13
  <2>1. /\ ~Matches("IAM-OP", a, agent, intent, taints)
        /\ ~Matches("DB-DESTRUCTIVE", a, agent, intent, taints)
    BY <1>1, <1>4, <1>8
  <2>2. Rule[i] # "DB-DESTRUCTIVE"
    BY <1>1, <1>8 DEF Rule
  <2>3. b.tool = a.tool /\ b.op = a.op
    <3>1. CASE Repairs(a, agent, Rule[i])
      <4>1. /\ Repaired(a, Rule[i]).tool = a.tool
            /\ Repaired(a, Rule[i]).op = IF Rule[i] = "DB-DESTRUCTIVE" THEN "select" ELSE a.op
        BY <1>3, <3>1, Repairing
      <4> QED
        BY <1>2, <2>2, <3>1, <4>1
    <3>2. CASE ~Repairs(a, agent, Rule[i])
      BY <1>2, <3>2
    <3> QED
      BY <3>1, <3>2
  <2>4. /\ On("enforce_operation_allowlist") /\ OperationsOf(agent, a.tool) # {}
                => a.op \in OperationsOf(agent, a.tool)
        /\ a.tool = "database" /\ a.op \in Destructive => intent.destructive
    BY <2>1 DEF Matches, MatchesIdentity, MatchesEffect
  <2> QED
    BY <1>6, <2>3, <2>4 DEF b
<1> QED
    BY <1>5, <1>7, <1>8 DEF b

-----------------------------------------------------------------------------
(* Evaluating the rewritten plan, and rewriting it again.                   *)

LEMMA FirstIsDeciding ==
    ASSUME NEW a, NEW agent, NEW intent, NEW taints, NEW i \in DOMAIN Rule,
           Matches(Rule[i], a, agent, intent, taints),
           \A j \in 1 .. i - 1 : ~Matches(Rule[j], a, agent, intent, taints)
    PROVE  Deciding(a, agent, intent, taints) = i
<1> DEFINE d == Deciding(a, agent, intent, taints)
<1>1. /\ d \in DOMAIN Rule
      /\ Matches(Rule[d], a, agent, intent, taints)
      /\ d <= i
    BY FirstMatchDecides
<1> HIDE DEF d
<1>2. ~(d \in 1 .. i - 1)
    BY <1>1
<1>3. d = i
    BY <1>1, <1>2, RulePositions
<1> QED
    BY <1>3 DEF d

\* Three rules look at the labels of an action.
LEMMA TaintsUnread ==
    ASSUME NEW rule, NEW a, NEW agent, NEW intent, NEW taints, NEW others,
           rule \notin {"DLP-SECRET", "MEMORY-POISON", "UNTRUSTED-SIDE-EFFECT"},
           Matches(rule, a, agent, intent, taints)
    PROVE  Matches(rule, a, agent, intent, others)
<1>1. CASE MatchesEffect(rule, a, agent, intent, taints)
  <2>1. MatchesEffect(rule, a, agent, intent, others)
    BY <1>1 DEF MatchesEffect
  <2> QED
    BY <2>1 DEF Matches
<1> QED
    BY <1>1 DEF Matches

\* What a second evaluation rewrites are pushes to a protected branch, which a
\* secret had held back before.
LEMMA OnlyPushesLeft ==
    ASSUME NEW actions, Plan(actions), Shaped(actions), NEW agent, NEW intent,
           NEW n \in DOMAIN actions, NEW out, out = Effective(actions, agent, intent),
           Repairs(out[n], agent, RuleFor(out, agent, intent, n))
    PROVE  RuleFor(out, agent, intent, n) = "GIT-PROTECTED"
<1> DEFINE a == actions[n]
           b == out[n]
           taints == TaintsOf(actions, n)
           after == TaintsOf(out, n)
           i == Deciding(a, agent, intent, taints)
           j == Deciding(b, agent, intent, after)
<1>1. /\ i \in 1 .. 27
      /\ Matches(Rule[i], a, agent, intent, taints)
      /\ \A k \in 1 .. 27 : k < i => ~Matches(Rule[k], a, agent, intent, taints)
    BY FirstMatchDecides, RulePositions
<1>2. /\ j \in 1 .. 27
      /\ Matches(Rule[j], b, agent, intent, after)
      /\ \A k \in 1 .. 27 : k < j => ~Matches(Rule[k], b, agent, intent, after)
    BY FirstMatchDecides, RulePositions
<1>3. /\ Repairs(b, agent, Rule[j])
      /\ RuleFor(out, agent, intent, n) = Rule[j]
    BY DEF RuleFor
<1>4. b = IF Repairs(a, agent, Rule[i]) THEN Repaired(a, Rule[i]) ELSE a
    BY DEF Effective, RuleFor
<1>5. Repairs(a, agent, Rule[i]) => j > i
    BY RepairMovesOn DEF RuleFor
<1>6. "SECRET_DATA" \in after => "SECRET_DATA" \in taints
    BY RepairAddsNoSecret
<1>7. DOMAIN a = ActionFields
    BY DEF Shaped
<1> HIDE DEF a, b, taints, after, i, j
<1> SUFFICES ASSUME Rule[j] # "GIT-PROTECTED" PROVE FALSE
    BY <1>3
<1>8. \/ Rule[j] = "DB-DESTRUCTIVE" /\ j = 12
      \/ Rule[j] = "DLP-SECRET" /\ j = 14
  <2>1. Rule[j] \in {"DB-DESTRUCTIVE", "DLP-SECRET"}
    BY <1>3 DEF Repairs
  <2> QED
    BY <1>2, <2>1 DEF Rule
<1>9. ~Repairs(a, agent, Rule[i])
  <2> SUFFICES ASSUME Repairs(a, agent, Rule[i]) PROVE FALSE
    OBVIOUS
  <2>1. b = Repaired(a, Rule[i]) /\ i < 14
    BY <1>1, <1>2, <1>4, <1>5, <1>8
  <2>2. Rule[i] \in {"DB-DESTRUCTIVE", "DLP-SECRET", "GIT-PROTECTED"}
    BY DEF Repairs
  <2>3. Rule[i] = "DB-DESTRUCTIVE" /\ i = 12
    BY <1>1, <2>1, <2>2 DEF Rule
  <2>4. Repaired(a, Rule[i]).op = "select"
    BY <1>7, <2>3 DEF Repaired, ActionFields
  <2>5. b.op = "select" /\ Rule[j] = "DLP-SECRET"
    BY <1>1, <1>2, <1>5, <1>8, <2>1, <2>3, <2>4
  <2> QED
    BY <1>2, <2>5 DEF Matches, MatchesIdentity, MatchesProvenance, MatchesEffect, EXTERNAL_SINKS
<1>10. b = a
    BY <1>4, <1>9
<1>11. Matches(Rule[j], a, agent, intent, taints)
  <2>1. CASE Rule[j] = "DB-DESTRUCTIVE"
    BY <1>2, <1>10, <2>1, TaintsUnread
  <2>2. CASE Rule[j] = "DLP-SECRET"
    BY <1>2, <1>6, <1>10, <2>2 DEF Matches, MatchesIdentity, MatchesProvenance, MatchesEffect
  <2> QED
    BY <1>8, <2>1, <2>2
<1>12. ASSUME NEW k \in 1 .. j - 1 PROVE ~Matches(Rule[k], a, agent, intent, taints)
  <2>1. k \in 1 .. 27 /\ k < j
    BY <1>2
  <2>2. ~Matches(Rule[k], a, agent, intent, after)
    BY <1>2, <1>10, <2>1
  <2>3. Rule[k] \notin {"DLP-SECRET", "MEMORY-POISON", "UNTRUSTED-SIDE-EFFECT"}
    BY <1>8, <2>1 DEF Rule
  <2> QED
    BY <2>2, <2>3, TaintsUnread
<1>13. i = j
    BY <1>2, <1>11, <1>12, FirstIsDeciding, RulePositions DEF i
<1> QED
    BY <1>3, <1>9, <1>10, <1>13

\* The labels depend on nothing but ids, dependencies, and what each action adds
\* and removes.
LEMMA TaintsSame ==
    ASSUME NEW p, NEW q, Plan(p), Plan(q), Len(p) = Len(q),
           \A n \in DOMAIN p :
                /\ q[n].id = p[n].id /\ q[n].deps = p[n].deps
                /\ q[n].sanitizes = p[n].sanitizes /\ OwnLabels(q[n]) = OwnLabels(p[n]),
           NEW n \in DOMAIN p
    PROVE  TaintsOf(q, n) = TaintsOf(p, n)
<1> DEFINE before == ByAction(p)
           after == ByAction(q)
           S == {k \in Nat : k \in 0 .. Len(p) => after[k] = before[k]}
<1>1. /\ DOMAIN p = 1 .. Len(p) /\ Len(p) \in Nat
      /\ before[0] = << >> /\ after[0] = << >>
      /\ \A k \in 1 .. Len(p) :
            /\ before[k] = Observed(p[k], before[k - 1])
            /\ after[k] = Observed(q[k], after[k - 1])
    BY ByActionSteps DEF Plan
<1> HIDE DEF before, after
<1>2. ASSUME NEW k \in 0 .. Len(p), \A m \in 0 .. k - 1 : m \in S
      PROVE  k \in S
  <2>1. CASE k = 0
    BY <1>1, <2>1
  <2>2. CASE k # 0
    <3>1. k \in 1 .. Len(p) /\ k - 1 \in 0 .. k - 1 /\ k - 1 \in 0 .. Len(p)
        BY <1>1, <2>2
    <3>2. after[k - 1] = before[k - 1]
        BY <1>2, <3>1
    <3>3. Observed(q[k], before[k - 1]) = Observed(p[k], before[k - 1])
        BY <1>1, <3>1 DEF Observed, Observe
    <3> QED
        BY <1>1, <3>1, <3>2, <3>3
  <2> QED
    BY <2>1, <2>2
<1> HIDE DEF S
<1>3. \A k \in 0 .. Len(p) : k \in S
    BY <1>1, <1>2, Induction
<1> QED
    BY <1>1, <1>3 DEF S, before, after, TaintsOf

\* Rewriting ends: a plan that was rewritten, evaluated and rewritten again is
\* decided without any repair in its third evaluation (repair_action,
\* evaluate_plan).
THEOREM RepairSettles ==
    ASSUME NEW actions, Plan(actions), Shaped(actions), NEW agent, NEW intent
    PROVE  LET once == Effective(actions, agent, intent)
               twice == Effective(once, agent, intent)
           IN  /\ \A n \in DOMAIN twice :
                    ~Repairs(twice[n], agent, RuleFor(twice, agent, intent, n))
               /\ Effective(twice, agent, intent) = twice
<1>1. PICK once : once = Effective(actions, agent, intent)
    OBVIOUS
<1>2. PICK twice : twice = Effective(once, agent, intent)
    OBVIOUS
<1>3. Plan(once) /\ Shaped(once) /\ Len(once) = Len(actions)
    BY <1>1, EffectiveShape, EffectiveFields
<1>4. Plan(twice) /\ Shaped(twice) /\ Len(twice) = Len(once)
    BY <1>2, <1>3, EffectiveShape, EffectiveFields
<1>5. DOMAIN actions = DOMAIN once /\ DOMAIN twice = DOMAIN once
    BY <1>3, <1>4 DEF Plan
<1>6. \A n \in DOMAIN once :
        Repairs(once[n], agent, RuleFor(once, agent, intent, n))
            => RuleFor(once, agent, intent, n) = "GIT-PROTECTED"
    BY <1>1, <1>5, OnlyPushesLeft
<1>7. \A n \in DOMAIN once :
        twice[n] = IF Repairs(once[n], agent, RuleFor(once, agent, intent, n))
                   THEN Repaired(once[n], RuleFor(once, agent, intent, n)) ELSE once[n]
    BY <1>2 DEF Effective
<1>8. ASSUME NEW n \in DOMAIN once
      PROVE  /\ twice[n].id = once[n].id /\ twice[n].deps = once[n].deps
             /\ twice[n].sanitizes = once[n].sanitizes
             /\ OwnLabels(twice[n]) = OwnLabels(once[n])
  <2>1. CASE Repairs(once[n], agent, RuleFor(once, agent, intent, n))
    <3>1. twice[n] = Repaired(once[n], "GIT-PROTECTED")
        BY <1>6, <1>7, <2>1
    <3>2. DOMAIN once[n] = ActionFields
        BY <1>3 DEF Shaped
    <3> QED
        BY <3>1, <3>2 DEF Repaired, ActionFields, OwnLabels
  <2>2. CASE ~Repairs(once[n], agent, RuleFor(once, agent, intent, n))
    BY <1>7, <2>2
  <2> QED
    BY <2>1, <2>2
<1>9. \A n \in DOMAIN once : TaintsOf(twice, n) = TaintsOf(once, n)
    BY <1>3, <1>4, <1>8, TaintsSame
<1>10. ASSUME NEW n \in DOMAIN twice,
              Repairs(twice[n], agent, RuleFor(twice, agent, intent, n))
       PROVE  FALSE
  <2>1. RuleFor(twice, agent, intent, n) = "GIT-PROTECTED"
    BY <1>2, <1>3, <1>5, <1>10, OnlyPushesLeft
  <2>2. CASE Repairs(once[n], agent, RuleFor(once, agent, intent, n))
    <3> DEFINE i == Deciding(once[n], agent, intent, TaintsOf(once, n))
               j == Deciding(twice[n], agent, intent, TaintsOf(twice, n))
    <3>1. j > i
        BY <1>2, <1>3, <1>5, <2>2, RepairMovesOn
    <3>2. Rule[i] = "GIT-PROTECTED" /\ Rule[j] = "GIT-PROTECTED"
        BY <1>5, <1>6, <2>1, <2>2 DEF RuleFor
    <3>3. i \in 1 .. 27 /\ j \in 1 .. 27
        BY FirstMatchDecides, RulePositions
    <3> HIDE DEF i, j
    <3> QED
        BY <3>1, <3>2, <3>3 DEF Rule
  <2>3. CASE ~Repairs(once[n], agent, RuleFor(once, agent, intent, n))
    <3>1. twice[n] = once[n]
        BY <1>5, <1>7, <2>3
    <3>2. RuleFor(twice, agent, intent, n) = RuleFor(once, agent, intent, n)
        BY <1>5, <1>9, <3>1 DEF RuleFor
    <3> QED
        BY <1>10, <2>3, <3>1, <3>2
  <2> QED
    BY <2>2, <2>3
<1>11. Effective(twice, agent, intent) = [n \in DOMAIN twice |-> twice[n]]
    BY <1>10 DEF Effective
<1>12. twice = [n \in DOMAIN twice |-> twice[n]]
    BY <1>2 DEF Effective
<1>13. Effective(twice, agent, intent) = twice
    BY <1>11, <1>12
<1> QED
    BY <1>1, <1>2, <1>10, <1>13

=============================================================================
