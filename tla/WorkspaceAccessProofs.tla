------------------------ MODULE WorkspaceAccessProofs ------------------------
(***************************************************************************)
(* Theorems about WorkspaceAccess and the verification of tokens of        *)
(* FederatedIdentity, for every set of members, keys, sessions and         *)
(* handlers, every cache period and every length of a verification.        *)
(***************************************************************************)
EXTENDS WorkspaceAccess, TLAPS

(* The verifications in progress.                                          *)

VerifySteps == {"keys", "discover", "metadata", "dated", "get", "data", "stamp",
                "found", "unknown", "failed"}
Dated == {"discover", "metadata", "dated", "get", "data", "stamp"}

\* What a verification holds; it is never longer than MaxStall.
VerifyShape(v) ==
    /\ verify[v].pc \in VerifySteps
    /\ verify[v].kid \in Kids
    /\ verify[v].begun \in 0 .. clock
    /\ clock <= verify[v].begun + MaxStall
    /\ verify[v].pc \in Dated => verify[v].now \in verify[v].begun .. clock
    /\ verify[v].pc \in {"metadata", "dated", "get"} => verify[v].url \in Sites
    /\ verify[v].pc \in {"data", "stamp"} => verify[v].keys \subseteq Kids

FedTypeInv ==
    /\ FederatedTypeOK
    /\ \A v \in Verifiers : verify[v] = Verified \/ VerifyShape(v)
    /\ cachedAt <= clock
    /\ cachedSiteAt <= clock

LEMMA FedTypes ==
    ASSUME FedTypeInv
    PROVE  /\ clock \in Nat /\ MaxClock \in Nat /\ clock <= MaxClock
           /\ MaxStall \in Nat
           /\ CacheSeconds \in Nat /\ CacheSeconds >= 1
           /\ Never = -1
           /\ moved \in Int /\ cachedAt \in Int /\ cachedSiteAt \in Int
           /\ until \in [Kids -> Int]
           /\ published \in [Sites -> SUBSET Kids]
           /\ cachedKeys \subseteq Kids
           /\ cachedSite \in Sites /\ site \in Sites /\ FirstSite \in Sites
           /\ DOMAIN verify = Verifiers
BY FederatedAssumption DEF FedTypeInv, FederatedTypeOK, Times, Never, LongAgo

\* Only v's verification goes on; what it is about stays the same.
Kept(v) ==
    /\ DOMAIN verify' = Verifiers
    /\ \A w \in Verifiers : w # v => verify'[w] = verify[w]
    /\ verify'[v].kid = verify[v].kid
    /\ verify'[v].begun = verify[v].begun
    /\ verify'[v].known = verify[v].known

LEMMA GoesKeeps ==
    ASSUME DOMAIN verify = Verifiers, NEW v \in Verifiers, NEW pc
    PROVE  /\ Goes(v, pc, << >>) => Kept(v) /\ verify'[v].pc = pc
           /\ Goes(v, pc, [forced |-> TRUE]) => Kept(v) /\ verify'[v].pc = pc
<1>1. ASSUME Goes(v, pc, << >>)
      PROVE  Kept(v) /\ verify'[v].pc = pc
  <2>1. DOMAIN << >> = {}
    OBVIOUS
  <2> QED
    BY <1>1, <2>1 DEF Goes, Kept
<1>2. ASSUME Goes(v, pc, [forced |-> TRUE])
      PROVE  Kept(v) /\ verify'[v].pc = pc
  <2>1. DOMAIN [forced |-> TRUE] = {"forced"}
    OBVIOUS
  <2> DEFINE extra == [forced |-> TRUE]
  <2> HIDE DEF extra
  <2>2. DOMAIN extra = {"forced"} /\ Goes(v, pc, extra)
    BY <1>2, <2>1 DEF extra
  <2> QED
    BY <2>2 DEF Goes, Kept
<1> QED
    BY <1>1, <1>2

LEMMA GoesAt ==
    ASSUME DOMAIN verify = Verifiers, NEW v \in Verifiers, NEW pc, NEW now,
           Goes(v, pc, [now |-> now])
    PROVE  Kept(v) /\ verify'[v].pc = pc /\ verify'[v].now = now
<1> DEFINE extra == [now |-> now]
<1>1. DOMAIN extra = {"now"} /\ extra["now"] = now
    OBVIOUS
<1>2. Goes(v, pc, extra)
    OBVIOUS
<1> HIDE DEF extra
<1> QED
    BY <1>1, <1>2 DEF Goes, Kept

LEMMA GoesTo ==
    ASSUME DOMAIN verify = Verifiers, NEW v \in Verifiers, NEW pc, NEW now, NEW url,
           Goes(v, pc, [now |-> now, url |-> url])
    PROVE  Kept(v) /\ verify'[v].pc = pc /\ verify'[v].now = now /\ verify'[v].url = url
<1> DEFINE extra == [now |-> now, url |-> url]
<1>1. DOMAIN extra = {"now", "url"} /\ extra["now"] = now /\ extra["url"] = url
    OBVIOUS
<1>2. Goes(v, pc, extra)
    OBVIOUS
<1> HIDE DEF extra
<1> QED
    BY <1>1, <1>2 DEF Goes, Kept

LEMMA GoesWith ==
    ASSUME DOMAIN verify = Verifiers, NEW v \in Verifiers, NEW pc, NEW now, NEW found,
           Goes(v, pc, [now |-> now, keys |-> found])
    PROVE  Kept(v) /\ verify'[v].pc = pc /\ verify'[v].now = now /\ verify'[v].keys = found
<1> DEFINE extra == [now |-> now, keys |-> found]
<1>1. DOMAIN extra = {"now", "keys"} /\ extra["now"] = now /\ extra["keys"] = found
    OBVIOUS
<1>2. Goes(v, pc, extra)
    OBVIOUS
<1> HIDE DEF extra
<1> QED
    BY <1>1, <1>2 DEF Goes, Kept

\* How a search ends.
Searched(v, found) ==
    /\ Kept(v)
    /\ \/ verify'[v].pc = "found" /\ verify[v].kid \in found
       \/ verify'[v].pc = "unknown" /\ verify[v].kid \notin found
            /\ (verify[v].forced \/ mode = "static")
       \/ verify'[v].pc = "keys"

LEMMA SearchTurns ==
    ASSUME DOMAIN verify = Verifiers, NEW v \in Verifiers, NEW found, Search(v, found)
    PROVE  Searched(v, found)
BY GoesKeeps DEF Search, Searched

\* What the verifier of a step leaves alone, and where it goes.
LEMMA AskTurns ==
    ASSUME DOMAIN verify = Verifiers, NEW v \in Verifiers, AskKeys(v)
    PROVE  /\ verify[v].pc = "keys"
           /\ Kept(v)
           /\ \/ verify'[v].pc = "keys"
              \/ /\ verify'[v].pc = "found"
                 /\ \/ mode = "static" /\ verify[v].kid \in published[FirstSite]
                    \/ CacheServes /\ verify[v].kid \in cachedKeys
              \/ /\ verify'[v].pc = "unknown"
                 /\ mode = "static"
                 /\ verify[v].kid \notin published[FirstSite]
              \/ /\ verify'[v].pc = "get"
                 /\ verify'[v].now = clock
                 /\ \/ mode = "url" /\ verify'[v].url = FirstSite
                    \/ SiteServes /\ verify'[v].url = cachedSite
              \/ verify'[v].pc = "discover" /\ verify'[v].now = clock
<1>1. CASE mode = "static" /\ Search(v, published[FirstSite])
    BY <1>1, SearchTurns DEF Searched, AskKeys
<1>2. CASE mode # "static" /\ ~verify[v].forced /\ CacheServes /\ Search(v, cachedKeys)
    BY <1>2, SearchTurns DEF Searched, AskKeys
<1>3. CASE mode = "url" /\ Goes(v, "get", [now |-> clock, url |-> FirstSite])
    BY <1>3, GoesTo DEF AskKeys
<1>4. CASE SiteServes /\ Goes(v, "get", [now |-> clock, url |-> cachedSite])
    BY <1>4, GoesTo DEF AskKeys
<1>5. CASE Goes(v, "discover", [now |-> clock])
    BY <1>5, GoesAt DEF AskKeys
<1> QED
    BY <1>1, <1>2, <1>3, <1>4, <1>5 DEF AskKeys

\* The other steps of a verification, by what they do.
Moves(v, from, to) ==
    /\ Kept(v)
    /\ verify[v].pc = from
    /\ verify'[v].pc = to

LEMMA RequestTurns ==
    ASSUME DOMAIN verify = Verifiers, NEW v \in Verifiers
    PROVE  /\ Discover(v) =>
                /\ Moves(v, "discover", "metadata")
                /\ verify'[v].now = verify[v].now /\ verify'[v].url = site
           /\ StoreMetadata(v) =>
                /\ Moves(v, "metadata", "dated")
                /\ verify'[v].now = verify[v].now /\ verify'[v].url = verify[v].url
           /\ DateMetadata(v) =>
                /\ Moves(v, "dated", "get")
                /\ verify'[v].now = verify[v].now /\ verify'[v].url = verify[v].url
           /\ GetKeys(v) =>
                /\ Moves(v, "get", "data")
                /\ verify'[v].now = verify[v].now
                /\ verify'[v].keys = published[verify[v].url]
           /\ StoreKeys(v) =>
                /\ Moves(v, "data", "stamp")
                /\ verify'[v].now = verify[v].now /\ verify'[v].keys = verify[v].keys
           /\ StampKeys(v) => verify[v].pc = "stamp" /\ Searched(v, verify[v].keys)
           /\ FailRequest(v) => Kept(v) /\ verify'[v].pc = "failed"
<1>1. Discover(v) => /\ Moves(v, "discover", "metadata")
                     /\ verify'[v].now = verify[v].now /\ verify'[v].url = site
    BY GoesTo DEF Discover, Moves
<1>2. StoreMetadata(v) => /\ Moves(v, "metadata", "dated")
                          /\ verify'[v].now = verify[v].now /\ verify'[v].url = verify[v].url
    BY GoesTo DEF StoreMetadata, Moves
<1>3. DateMetadata(v) => /\ Moves(v, "dated", "get")
                         /\ verify'[v].now = verify[v].now /\ verify'[v].url = verify[v].url
    BY GoesTo DEF DateMetadata, Moves
<1>4. GetKeys(v) => /\ Moves(v, "get", "data")
                    /\ verify'[v].now = verify[v].now
                    /\ verify'[v].keys = published[verify[v].url]
    BY GoesWith DEF GetKeys, Moves
<1>5. StoreKeys(v) => /\ Moves(v, "data", "stamp")
                      /\ verify'[v].now = verify[v].now /\ verify'[v].keys = verify[v].keys
    BY GoesWith DEF StoreKeys, Moves
<1>6. StampKeys(v) => verify[v].pc = "stamp" /\ Searched(v, verify[v].keys)
    BY SearchTurns DEF StampKeys
<1>7. FailRequest(v) => Kept(v) /\ verify'[v].pc = "failed"
    BY GoesKeeps DEF FailRequest
<1> QED
    BY <1>1, <1>2, <1>3, <1>4, <1>5, <1>6, <1>7

LEMMA VerifyKeeps ==
    ASSUME DOMAIN verify = Verifiers, NEW v \in Verifiers, VerifyStep(v)
    PROVE  Kept(v) /\ UNCHANGED <<clock, mode, provider>>
BY AskTurns, RequestTurns
   DEF VerifyStep, Moves, Searched, AskKeys, Discover, StoreMetadata, DateMetadata, GetKeys,
       StoreKeys, StampKeys, FailRequest

\* What a step does to the verifications and their provider.
Begins(v, kid) == BeginVerify(v, kid) /\ UNCHANGED <<clock, mode, provider, caches>>
Ends(v) == EndVerify(v) /\ UNCHANGED <<clock, mode, provider, caches>>
Ticks ==
    /\ clock < MaxClock
    /\ \A v \in Verifiers : verify[v] # Verified => clock < verify[v].begun + MaxStall
    /\ clock' = clock + 1
    /\ UNCHANGED <<mode, provider, caches, verify>>

FedNext ==
    \/ UNCHANGED fedVars
    \/ \E v \in Verifiers, kid \in Kids : Begins(v, kid)
    \/ \E v \in Verifiers : Ends(v) \/ VerifyStep(v)
    \/ ProviderStep
    \/ Ticks

LEMMA BeginTurns ==
    ASSUME DOMAIN verify = Verifiers, NEW v \in Verifiers, NEW kid \in Kids, BeginVerify(v, kid)
    PROVE  /\ DOMAIN verify' = Verifiers
           /\ \A w \in Verifiers : w # v => verify'[w] = verify[w]
           /\ verify'[v].pc = "keys"
           /\ verify'[v].kid = kid
           /\ verify'[v].begun = clock
           /\ verify'[v].known <=> kid \in published[site]
<1>1. ASSUME NEW b \in BOOLEAN,
             verify' = [verify EXCEPT ![v] = [pc |-> "keys", kid |-> kid, begun |-> clock,
                                              forced |-> FALSE, known |-> b]]
      PROVE  /\ DOMAIN verify' = Verifiers
             /\ \A w \in Verifiers : w # v => verify'[w] = verify[w]
             /\ verify'[v].pc = "keys"
             /\ verify'[v].kid = kid
             /\ verify'[v].begun = clock
             /\ verify'[v].known = b
    BY <1>1
<1>2. (kid \in published[site]) \in BOOLEAN
    OBVIOUS
<1> QED
    BY <1>1, <1>2 DEF BeginVerify

LEMMA EndTurns ==
    ASSUME DOMAIN verify = Verifiers, NEW v \in Verifiers, EndVerify(v)
    PROVE  /\ DOMAIN verify' = Verifiers
           /\ \A w \in Verifiers : w # v => verify'[w] = verify[w]
           /\ verify'[v] = Verified
BY DEF EndVerify

LEMMA FedTypeInit == Init => FedTypeInv
<1> SUFFICES ASSUME Init PROVE FedTypeInv
    OBVIOUS
<1>1. \A v \in Verifiers : verify[v] = Verified
    BY DEF Init, FederatedInit
<1>2. FederatedTypeOK
    BY FederatedAssumption DEF Init, FederatedInit, FederatedTypeOK, Times, Never, LongAgo
<1>3. cachedAt <= clock /\ cachedSiteAt <= clock
    BY FederatedAssumption DEF Init, FederatedInit, LongAgo
<1> QED
    BY <1>1, <1>2, <1>3 DEF FedTypeInv

\* A verification that goes on within its time has its shape.
LEMMA ShapeTurns ==
    ASSUME FedTypeInv, NEW v \in Verifiers, Kept(v), VerifyShape(v), clock' = clock,
           verify'[v].pc \in VerifySteps,
           verify'[v].pc \in Dated => verify'[v].now \in verify[v].begun .. clock,
           verify'[v].pc \in {"metadata", "dated", "get"} => verify'[v].url \in Sites,
           verify'[v].pc \in {"data", "stamp"} => verify'[v].keys \subseteq Kids
    PROVE  \A w \in Verifiers : verify'[w] = Verified \/ VerifyShape(w)'
BY DEF FedTypeInv, VerifyShape, Kept

LEMMA Running ==
    ASSUME FedTypeInv, NEW v \in Verifiers, verify[v].pc \in VerifySteps
    PROVE  VerifyShape(v)
BY DEF FedTypeInv, VerifySteps, Verified

LEMMA VerifyTypeStep ==
    ASSUME FedTypeInv, NEW v \in Verifiers, VerifyStep(v)
    PROVE  FedTypeInv'
<1> USE FedTypes
<1>1. Kept(v) /\ UNCHANGED <<clock, mode, provider>>
    BY VerifyKeeps
<1>2. ASSUME verify[v].pc \in VerifySteps,
             verify'[v].pc \in VerifySteps,
             verify'[v].pc \in Dated => verify'[v].now \in verify[v].begun .. clock,
             verify'[v].pc \in {"metadata", "dated", "get"} => verify'[v].url \in Sites,
             verify'[v].pc \in {"data", "stamp"} => verify'[v].keys \subseteq Kids,
             cachedKeys' \subseteq Kids,
             cachedSite' \in Sites,
             cachedAt' \in {cachedAt} \cup 0 .. clock,
             cachedSiteAt' \in {cachedSiteAt} \cup 0 .. clock
      PROVE  FedTypeInv'
  <2>1. \A w \in Verifiers : verify'[w] = Verified \/ VerifyShape(w)'
    BY <1>1, <1>2, Running, ShapeTurns
  <2>2. FederatedTypeOK'
    BY <1>1, <1>2 DEF FederatedTypeOK, FedTypeInv, Kept, provider
  <2>3. cachedAt' <= clock' /\ cachedSiteAt' <= clock'
    BY <1>1, <1>2 DEF FedTypeInv
  <2> QED
    BY <2>1, <2>2, <2>3 DEF FedTypeInv
<1>3. CASE AskKeys(v)
  <2>1. verify[v].pc = "keys" /\ VerifyShape(v)
    BY <1>3, AskTurns, Running DEF VerifySteps
  <2>2. verify'[v].pc \in {"keys", "found", "unknown", "get", "discover"}
    BY <1>3, AskTurns
  <2>3. verify'[v].pc \in Dated => verify'[v].now \in verify[v].begun .. clock
    BY <1>3, <2>1, AskTurns DEF VerifyShape, Dated
  <2>4. verify'[v].pc = "get" => verify'[v].url \in Sites
    BY <1>3, AskTurns
  <2>5. UNCHANGED caches
    BY <1>3 DEF AskKeys
  <2> QED
    BY <1>2, <2>1, <2>2, <2>3, <2>4, <2>5 DEF caches, VerifySteps
<1>4. CASE Discover(v)
  <2>1. VerifyShape(v) /\ Moves(v, "discover", "metadata")
    BY <1>4, RequestTurns, Running DEF Moves, VerifySteps
  <2> QED
    BY <1>2, <1>4, <2>1, RequestTurns
       DEF Discover, Moves, VerifyShape, VerifySteps, Dated, caches
<1>5. CASE StoreMetadata(v)
  <2>1. VerifyShape(v) /\ Moves(v, "metadata", "dated")
    BY <1>5, RequestTurns, Running DEF Moves, VerifySteps
  <2> QED
    BY <1>2, <1>5, <2>1, RequestTurns
       DEF StoreMetadata, Moves, VerifyShape, VerifySteps, Dated
<1>6. CASE DateMetadata(v)
  <2>1. VerifyShape(v) /\ Moves(v, "dated", "get")
    BY <1>6, RequestTurns, Running DEF Moves, VerifySteps
  <2> QED
    BY <1>2, <1>6, <2>1, RequestTurns
       DEF DateMetadata, Moves, VerifyShape, VerifySteps, Dated
<1>7. CASE GetKeys(v)
  <2>1. VerifyShape(v) /\ Moves(v, "get", "data")
    BY <1>7, RequestTurns, Running DEF Moves, VerifySteps
  <2> QED
    BY <1>2, <1>7, <2>1, RequestTurns
       DEF GetKeys, Moves, VerifyShape, VerifySteps, Dated, caches
<1>8. CASE StoreKeys(v)
  <2>1. VerifyShape(v) /\ Moves(v, "data", "stamp")
    BY <1>8, RequestTurns, Running DEF Moves, VerifySteps
  <2> QED
    BY <1>2, <1>8, <2>1, RequestTurns
       DEF StoreKeys, Moves, VerifyShape, VerifySteps, Dated
<1>9. CASE StampKeys(v)
  <2>1. VerifyShape(v) /\ verify[v].pc = "stamp" /\ Searched(v, verify[v].keys)
    BY <1>9, RequestTurns, Running DEF VerifySteps
  <2>2. verify'[v].pc \in {"found", "unknown", "keys"}
    BY <2>1 DEF Searched
  <2>3. cachedAt' \in 0 .. clock
    BY <1>9, <2>1 DEF StampKeys, VerifyShape, Dated
  <2> QED
    BY <1>2, <1>9, <2>1, <2>2, <2>3 DEF StampKeys, VerifySteps, Dated
<1>10. CASE FailRequest(v)
  <2>1. verify'[v].pc = "failed"
    BY <1>10, RequestTurns
  <2>2. verify[v].pc \in VerifySteps
    BY <1>10 DEF FailRequest, VerifySteps
  <2> QED
    BY <1>2, <1>10, <2>1, <2>2 DEF FailRequest, VerifySteps, Dated, caches
<1> QED
    BY <1>3, <1>4, <1>5, <1>6, <1>7, <1>8, <1>9, <1>10 DEF VerifyStep

LEMMA FedTypeStep == FedTypeInv /\ FedNext => FedTypeInv'
<1> SUFFICES ASSUME FedTypeInv, FedNext PROVE FedTypeInv'
    OBVIOUS
<1> USE FedTypes
<1>1. CASE UNCHANGED fedVars
    BY <1>1 DEF fedVars, provider, caches, FedTypeInv, FederatedTypeOK, VerifyShape
<1>2. ASSUME NEW v \in Verifiers, DOMAIN verify' = Verifiers,
             \A w \in Verifiers : w # v => verify'[w] = verify[w],
             UNCHANGED <<clock, mode, provider, caches>>,
             verify'[v] = Verified \/ VerifyShape(v)'
      PROVE  FedTypeInv'
  <2>1. FederatedTypeOK'
    BY <1>2 DEF provider, caches, FedTypeInv, FederatedTypeOK
  <2>2. \A w \in Verifiers : verify'[w] = Verified \/ VerifyShape(w)'
    BY <1>2 DEF FedTypeInv, VerifyShape
  <2> QED
    BY <1>2, <2>1, <2>2 DEF FedTypeInv, caches
<1>3. ASSUME NEW v \in Verifiers, NEW kid \in Kids, Begins(v, kid)
      PROVE  FedTypeInv'
  <2>1. VerifyShape(v)'
    BY <1>3, BeginTurns DEF Begins, VerifyShape, VerifySteps, Dated
  <2> QED
    BY <1>2, <1>3, <2>1, BeginTurns DEF Begins
<1>4. ASSUME NEW v \in Verifiers, Ends(v)
      PROVE  FedTypeInv'
    BY <1>2, <1>4, EndTurns DEF Ends
<1>5. ASSUME ProviderStep PROVE FedTypeInv'
  <2>1. /\ site' \in Sites /\ published' \in [Sites -> SUBSET Kids]
        /\ until' \in [Kids -> Times] /\ moved' \in Times
    BY <1>5 DEF ProviderStep, PublishKid, WithdrawKid, MoveSite, FedTypeInv, FederatedTypeOK, Times
  <2>2. UNCHANGED <<clock, mode, caches, verify>>
    BY <1>5 DEF ProviderStep
  <2> QED
    BY <2>1, <2>2 DEF caches, FedTypeInv, FederatedTypeOK, VerifyShape
<1>6. ASSUME Ticks PROVE FedTypeInv'
  <2>1. \A v \in Verifiers : verify'[v] = Verified \/ VerifyShape(v)'
    <3> SUFFICES ASSUME NEW v \in Verifiers, verify[v] # Verified
                 PROVE  VerifyShape(v)'
      BY <1>6 DEF Ticks
    <3> QED
      BY <1>6 DEF Ticks, FedTypeInv, VerifyShape
  <2>2. FederatedTypeOK'
    BY <1>6 DEF Ticks, provider, caches, FedTypeInv, FederatedTypeOK
  <2> QED
    BY <1>6, <2>1, <2>2 DEF Ticks, caches, FedTypeInv
<1> QED
    BY <1>1, <1>3, <1>4, <1>5, <1>6, VerifyTypeStep DEF FedNext

-----------------------------------------------------------------------------
(* The provider. A withdrawn key is served at the old URL only, and only    *)
(* when it was withdrawn after the provider had moved.                      *)

ProviderInv ==
    /\ \A kid \in Kids : until[kid] <= clock
    /\ moved <= clock
    /\ mode = "static" => \A kid \in Kids : until[kid] = Never
    /\ mode # "discovery" => moved = Never
    /\ moved = Never => site = FirstSite /\ \A s \in Sites : s # site => published[s] = {}
    /\ \A kid \in Kids : kid \in published[site] => until[kid] = Never
    /\ \A kid \in Kids, s \in Sites :
        kid \in published[s] /\ until[kid] # Never => moved # Never /\ moved <= until[kid]

LEMMA ProviderInit == Init => ProviderInv
BY FederatedAssumption DEF Init, FederatedInit, ProviderInv, Never

LEMMA PublishStep ==
    ASSUME FedTypeInv, ProviderInv, NEW kid \in Kids, PublishKid(kid), mode # "static",
           UNCHANGED <<clock, mode, caches, verify>>
    PROVE  ProviderInv'
<1> USE FedTypes
<1>1. /\ published'[site] = published[site] \cup {kid}
      /\ \A s \in Sites : s # site => published'[s] = published[s]
      /\ until[kid] = Never
      /\ UNCHANGED <<site, until, moved>>
    BY DEF PublishKid
<1> QED
    BY <1>1 DEF ProviderInv

LEMMA WithdrawStep ==
    ASSUME FedTypeInv, ProviderInv, NEW kid \in Kids, WithdrawKid(kid), mode # "static",
           UNCHANGED <<clock, mode, caches, verify>>
    PROVE  ProviderInv'
<1> USE FedTypes
<1>1. /\ published'[site] = published[site] \ {kid}
      /\ \A s \in Sites : s # site => published'[s] = published[s]
      /\ until'[kid] = clock
      /\ \A k \in Kids : k # kid => until'[k] = until[k]
      /\ UNCHANGED <<site, moved>>
    BY DEF WithdrawKid
<1>2. \A k \in Kids, s \in Sites :
        k \in published'[s] /\ until'[k] # Never => moved # Never /\ moved <= until'[k]
    BY <1>1 DEF ProviderInv
<1>3. \A k \in Kids : k \in published'[site] => until'[k] = Never
    BY <1>1 DEF ProviderInv
<1> QED
    BY <1>1, <1>2, <1>3 DEF ProviderInv

LEMMA MoveStep ==
    ASSUME FedTypeInv, ProviderInv, NEW s \in Sites, MoveSite(s), mode # "static",
           UNCHANGED <<clock, mode, caches, verify>>
    PROVE  ProviderInv'
<1> USE FedTypes
<1>1. /\ mode = "discovery" /\ moved = Never /\ s # site /\ site' = s
      /\ published'[s] = published[site]
      /\ \A t \in Sites : t # s => published'[t] = published[t]
      /\ moved' = clock
      /\ until' = until
    BY DEF MoveSite
<1>2. \A k \in Kids, t \in Sites : k \in published'[t] => until[k] = Never
    BY <1>1 DEF ProviderInv
<1> QED
    BY <1>1, <1>2 DEF ProviderInv

LEMMA ProviderInvStep == FedTypeInv /\ ProviderInv /\ FedNext => ProviderInv'
<1> SUFFICES ASSUME FedTypeInv, ProviderInv, FedNext PROVE ProviderInv'
    OBVIOUS
<1> USE FedTypes
<1>1. ASSUME UNCHANGED <<clock, mode, provider>> PROVE ProviderInv'
    BY <1>1 DEF provider, ProviderInv
<1>2. ASSUME ProviderStep PROVE ProviderInv'
    BY <1>2, PublishStep, WithdrawStep, MoveStep DEF ProviderStep
<1>3. ASSUME Ticks PROVE ProviderInv'
    BY <1>3 DEF Ticks, provider, ProviderInv
<1> QED
    BY <1>1, <1>2, <1>3, VerifyKeeps DEF FedNext, fedVars, Begins, Ends

-----------------------------------------------------------------------------
(* Where the key set is asked for. An URL the provider has left is found in *)
(* the cache of metadata a cache period longer than a verification takes.   *)

SiteInv ==
    /\ moved = Never => cachedSite = site
    /\ cachedSite # site => cachedSiteAt <= moved + MaxStall
    /\ \A v \in Verifiers :
        /\ verify[v].pc = "dated" /\ cachedSite # site => verify[v].now <= moved + MaxStall
        /\ verify[v].pc \in {"metadata", "dated"} /\ verify[v].url # site
            => moved # Never /\ verify[v].now <= moved
        /\ verify[v].pc = "get" /\ verify[v].url # site
            => moved # Never /\ verify[v].now < moved + MaxStall + CacheSeconds

LEMMA SiteInit == Init => SiteInv
BY DEF Init, FederatedInit, SiteInv, Verified

LEMMA SiteStep == FedTypeInv /\ ProviderInv /\ SiteInv /\ FedNext => SiteInv'
<1> SUFFICES ASSUME FedTypeInv, ProviderInv, SiteInv, FedNext PROVE SiteInv'
    OBVIOUS
<1> USE FedTypes
<1>1. ASSUME NEW v \in Verifiers,
             \A w \in Verifiers : w # v => verify'[w] = verify[w],
             verify'[v].pc \notin {"metadata", "dated", "get"},
             UNCHANGED <<site, moved, cachedSite, cachedSiteAt>>
      PROVE  SiteInv'
    BY <1>1 DEF SiteInv
<1>2. ASSUME UNCHANGED fedVars PROVE SiteInv'
    BY <1>2 DEF fedVars, provider, caches, SiteInv
<1>3. ASSUME NEW v \in Verifiers, NEW kid \in Kids, Begins(v, kid)
      PROVE  SiteInv'
    BY <1>1, <1>3, BeginTurns DEF Begins, provider, caches
<1>4. ASSUME NEW v \in Verifiers, Ends(v)
      PROVE  SiteInv'
    BY <1>1, <1>4, EndTurns DEF Ends, provider, caches, Verified
<1>5. ASSUME NEW v \in Verifiers, AskKeys(v)
      PROVE  SiteInv'
  <2>1. Kept(v) /\ UNCHANGED <<site, moved, cachedSite, cachedSiteAt>>
    BY <1>5, AskTurns DEF AskKeys, provider, caches
  <2>2. CASE verify'[v].pc = "get"
    <3>1. verify'[v].url # site
            => moved # Never /\ verify'[v].now < moved + MaxStall + CacheSeconds
      BY <1>5, <2>2, AskTurns DEF SiteServes, SiteInv, ProviderInv
    <3> QED
      BY <2>1, <2>2, <3>1 DEF SiteInv, Kept
  <2> QED
    BY <1>1, <1>5, <2>1, <2>2, AskTurns DEF Kept
<1>6. ASSUME NEW v \in Verifiers, Discover(v)
      PROVE  SiteInv'
  <2>1. Moves(v, "discover", "metadata") /\ verify'[v].url = site
    BY <1>6, RequestTurns
  <2> QED
    BY <1>6, <2>1 DEF Discover, provider, caches, Moves, Kept, SiteInv
<1>7. ASSUME NEW v \in Verifiers, StoreMetadata(v)
      PROVE  SiteInv'
  <2>1. /\ Moves(v, "metadata", "dated")
        /\ verify'[v].now = verify[v].now /\ verify'[v].url = verify[v].url
    BY <1>7, RequestTurns
  <2>2. cachedSite' = verify[v].url /\ UNCHANGED <<site, moved, cachedSiteAt>>
    BY <1>7 DEF StoreMetadata, provider
  <2>3. CASE verify[v].url = site
    BY <2>1, <2>2, <2>3 DEF SiteInv, Moves, Kept
  <2>4. CASE verify[v].url # site
    <3>1. moved # Never /\ verify[v].now <= moved
      BY <2>1, <2>4 DEF SiteInv, Moves
    <3>2. clock <= moved + MaxStall
      BY <2>1, <3>1, Running DEF Moves, VerifyShape, VerifySteps, Dated
    <3>3. cachedSiteAt <= moved + MaxStall
      BY <3>2 DEF FedTypeInv
    <3>4. \A w \in Verifiers : verify[w].pc = "dated" => verify[w].now <= moved + MaxStall
      BY <3>2, Running DEF VerifyShape, VerifySteps, Dated
    <3>5. verify[v].now <= moved + MaxStall
      BY <2>1, <3>2, Running DEF Moves, VerifyShape, VerifySteps, Dated
    <3> QED
      BY <2>1, <2>2, <2>4, <3>1, <3>3, <3>4, <3>5 DEF SiteInv, Moves, Kept
  <2> QED
    BY <2>3, <2>4
<1>8. ASSUME NEW v \in Verifiers, DateMetadata(v)
      PROVE  SiteInv'
  <2>1. /\ Moves(v, "dated", "get")
        /\ verify'[v].now = verify[v].now /\ verify'[v].url = verify[v].url
    BY <1>8, RequestTurns
  <2>2. cachedSiteAt' = verify[v].now /\ UNCHANGED <<site, moved, cachedSite>>
    BY <1>8 DEF DateMetadata, provider
  <2>3. verify[v].now \in Int
    BY <2>1, Running DEF Moves, VerifyShape, VerifySteps, Dated
  <2> QED
    BY <2>1, <2>2, <2>3 DEF SiteInv, Moves, Kept
<1>9. ASSUME NEW v \in Verifiers, GetKeys(v) \/ StoreKeys(v) \/ StampKeys(v) \/ FailRequest(v)
      PROVE  SiteInv'
  <2>1. Kept(v) /\ verify'[v].pc \notin {"metadata", "dated", "get"}
    BY <1>9, RequestTurns DEF Moves, Searched
  <2> QED
    BY <1>1, <1>9, <2>1 DEF GetKeys, StoreKeys, StampKeys, FailRequest, provider, caches, Kept
<1>10. ASSUME ProviderStep PROVE SiteInv'
  <2>1. UNCHANGED <<clock, caches, verify>>
    BY <1>10 DEF ProviderStep
  <2>2. CASE UNCHANGED <<site, moved>>
    BY <2>1, <2>2 DEF SiteInv, caches
  <2>3. CASE moved = Never /\ moved' = clock
    <3>1. cachedSiteAt <= moved' + MaxStall /\ moved' # Never
      BY <2>3 DEF FedTypeInv
    <3>2. \A v \in Verifiers : verify[v].pc \in Dated => verify[v].now <= moved'
      BY <2>3, Running DEF VerifyShape, VerifySteps, Dated
    <3>3. \A v \in Verifiers : verify[v].pc \in Dated => verify[v].now \in Int
      BY Running DEF VerifyShape, VerifySteps, Dated
    <3> QED
      BY <2>1, <2>3, <3>1, <3>2, <3>3 DEF SiteInv, caches, Dated
  <2> QED
    BY <1>10, <2>2, <2>3 DEF ProviderStep, PublishKid, WithdrawKid, MoveSite
<1>11. ASSUME Ticks PROVE SiteInv'
    BY <1>11 DEF Ticks, provider, caches, SiteInv
<1> QED
    BY <1>2, <1>3, <1>4, <1>5, <1>6, <1>7, <1>8, <1>9, <1>10, <1>11 DEF FedNext, VerifyStep

-----------------------------------------------------------------------------
(* Withdrawn keys. One is fetched no later than it was withdrawn, or than an*)
(* old URL is asked, stored within one verification of that, stamped with   *)
(* the time of whoever stores a key set meanwhile, and served for a cache   *)
(* period from then.                                                        *)

Slack == IF moved = Never THEN 0 ELSE CacheSeconds + MaxStall
Late(kid) == until[kid] + Slack

FetchedInv ==
    \A v \in Verifiers, kid \in Kids :
        verify[v].pc \in {"data", "stamp"} /\ kid \in verify[v].keys /\ until[kid] # Never
            => verify[v].now <= Late(kid)

CachedInv ==
    \A kid \in cachedKeys : until[kid] # Never =>
        /\ cachedAt <= Late(kid) + MaxStall
        /\ \A v \in Verifiers :
            verify[v].pc = "stamp" => verify[v].now <= Late(kid) + MaxStall

FoundInv ==
    \A v \in Verifiers, kid \in Kids :
        verify[v].pc = "found" /\ verify[v].kid = kid /\ until[kid] # Never
            => verify[v].begun < Late(kid) + MaxStall + CacheSeconds

KeyInv == FetchedInv /\ CachedInv /\ FoundInv

LEMMA KeyInit == Init => KeyInv
BY DEF Init, FederatedInit, KeyInv, FetchedInv, CachedInv, FoundInv, Verified

LEMMA LateTyped ==
    ASSUME FedTypeInv
    PROVE  /\ Slack \in Int /\ Slack >= 0
           /\ \A kid \in Kids : Late(kid) \in Int /\ Late(kid) >= until[kid]
BY FedTypes DEF Slack, Late

\* A verification ends with a key that it has found in a good key set.
LEMMA FindsWell ==
    ASSUME FedTypeInv, KeyInv, NEW v \in Verifiers,
           Kept(v),
           UNCHANGED <<provider, cachedKeys>>,
           cachedAt' = cachedAt \/ (cachedAt' = verify[v].now /\ verify[v].pc = "stamp"),
           verify'[v].pc \notin {"data", "stamp"},
           \A kid \in Kids :
                verify'[v].pc = "found" /\ verify[v].kid = kid /\ until[kid] # Never
                    => verify[v].begun < Late(kid) + MaxStall + CacheSeconds
    PROVE  KeyInv'
<1>1. \A kid \in Kids : Late(kid)' = Late(kid)
    BY DEF Late, Slack, provider
<1>2. UNCHANGED <<until, cachedKeys>>
    BY DEF provider, caches
<1>3. cachedKeys \subseteq Kids /\ verify[v].pc \in VerifySteps => verify[v].kid \in Kids
    BY FedTypes, Running DEF VerifyShape
<1>4. FetchedInv'
    BY <1>1, <1>2 DEF KeyInv, FetchedInv, Kept
<1>5. CachedInv'
  <2>1. \A kid \in cachedKeys : until[kid] # Never => cachedAt' <= Late(kid) + MaxStall
    BY <1>2 DEF KeyInv, CachedInv, caches
  <2> QED
    BY <1>1, <1>2, <1>3, <2>1, FedTypes DEF KeyInv, CachedInv, Kept
<1>6. FoundInv'
    BY <1>1, <1>2 DEF KeyInv, FoundInv, Kept
<1> QED
    BY <1>4, <1>5, <1>6 DEF KeyInv

LEMMA KeyVerifyStep ==
    ASSUME FedTypeInv, ProviderInv, SiteInv, KeyInv, NEW v \in Verifiers, VerifyStep(v)
    PROVE  KeyInv'
<1> USE FedTypes
<1>1. Kept(v) /\ UNCHANGED <<clock, mode, provider>>
    BY VerifyKeeps
<1>2. \A kid \in Kids : Late(kid)' = Late(kid)
    BY <1>1 DEF Late, Slack, provider
<1>3. CASE AskKeys(v)
  <2>1. UNCHANGED <<cachedKeys, cachedAt>>
    BY <1>3 DEF AskKeys, caches
  <2>2. VerifyShape(v)
    BY <1>3, AskTurns, Running DEF VerifySteps
  <2>3. ASSUME NEW kid \in Kids, verify'[v].pc = "found", verify[v].kid = kid, until[kid] # Never
        PROVE  verify[v].begun < Late(kid) + MaxStall + CacheSeconds
    <3>1. mode # "static"
      BY <2>3 DEF ProviderInv
    <3>2. CacheServes /\ kid \in cachedKeys
      BY <1>3, <2>3, <3>1, AskTurns
    <3>3. cachedAt <= Late(kid) + MaxStall
      BY <2>3, <3>2 DEF KeyInv, CachedInv
    <3>4. verify[v].begun <= clock /\ verify[v].begun \in Int
      BY <2>2 DEF VerifyShape
    <3> QED
      BY <3>2, <3>3, <3>4, LateTyped DEF CacheServes
  <2>4. verify'[v].pc \notin {"data", "stamp"}
    BY <1>3, AskTurns
  <2> QED
    <3>1. UNCHANGED <<provider, cachedKeys>>
      BY <1>1, <2>1
    <3> QED
      BY <1>1, <2>1, <2>3, <2>4, <3>1, FindsWell
<1>4. CASE Discover(v) \/ FailRequest(v)
  <2>1. UNCHANGED <<cachedKeys, cachedAt>> /\ verify'[v].pc \notin {"data", "stamp", "found"}
    BY <1>4, RequestTurns DEF Discover, FailRequest, Moves, caches
  <2> QED
    <3>1. UNCHANGED <<provider, cachedKeys>>
      BY <1>1, <2>1
    <3>2. verify'[v].pc # "found"
      BY <2>1
    <3> QED
      BY <1>1, <2>1, <3>1, <3>2, FindsWell
<1>5. CASE StoreMetadata(v) \/ DateMetadata(v)
  <2>1. verify'[v].pc \notin {"data", "stamp", "found"} /\ UNCHANGED <<cachedKeys, cachedAt>>
    BY <1>5, RequestTurns DEF StoreMetadata, DateMetadata, Moves
  <2>2. FetchedInv'
    BY <1>1, <1>2, <2>1 DEF KeyInv, FetchedInv, Kept, provider
  <2>3. CachedInv'
    BY <1>1, <1>2, <2>1 DEF KeyInv, CachedInv, Kept, provider
  <2>4. FoundInv'
    BY <1>1, <2>1 DEF KeyInv, FoundInv, Kept, provider, Late, Slack
  <2> QED
    BY <2>2, <2>3, <2>4 DEF KeyInv
<1>6. CASE GetKeys(v)
  <2>1. /\ Moves(v, "get", "data")
        /\ verify'[v].now = verify[v].now
        /\ verify'[v].keys = published[verify[v].url]
        /\ UNCHANGED caches
    BY <1>6, RequestTurns DEF GetKeys
  <2>2. VerifyShape(v) /\ verify[v].pc = "get"
    BY <2>1, Running DEF Moves, VerifySteps
  <2>3. ASSUME NEW kid \in Kids, kid \in verify'[v].keys, until[kid] # Never
        PROVE  verify[v].now <= Late(kid)
    <3>1. kid \in published[verify[v].url] /\ verify[v].url \in Sites
      BY <2>1, <2>2, <2>3 DEF VerifyShape
    <3>2. moved # Never /\ moved <= until[kid] /\ verify[v].url # site
      BY <2>3, <3>1 DEF ProviderInv
    <3>3. verify[v].now < moved + MaxStall + CacheSeconds
      BY <2>2, <3>2 DEF SiteInv
    <3>4. verify[v].now \in Int
      BY <2>2 DEF VerifyShape, Dated
    <3> QED
      BY <3>2, <3>3, <3>4 DEF Late, Slack
  <2>4. FetchedInv'
    BY <1>1, <1>2, <2>1, <2>3 DEF KeyInv, FetchedInv, Kept, provider
  <2>5. CachedInv'
    BY <1>1, <1>2, <2>1 DEF KeyInv, CachedInv, Kept, provider, caches, Moves
  <2>6. FoundInv'
    BY <1>1, <2>1 DEF KeyInv, FoundInv, Kept, provider, Late, Slack, Moves
  <2> QED
    BY <2>4, <2>5, <2>6 DEF KeyInv
<1>7. CASE StoreKeys(v)
  <2>1. /\ Moves(v, "data", "stamp")
        /\ verify'[v].now = verify[v].now
        /\ verify'[v].keys = verify[v].keys
        /\ cachedKeys' = verify[v].keys
        /\ UNCHANGED cachedAt
    BY <1>7, RequestTurns DEF StoreKeys
  <2>2. VerifyShape(v) /\ verify[v].pc = "data"
    BY <2>1, Running DEF Moves, VerifySteps
  <2>3. ASSUME NEW kid \in verify[v].keys, until[kid] # Never
        PROVE  /\ clock <= Late(kid) + MaxStall
               /\ verify[v].now <= Late(kid) + MaxStall
    <3>1. kid \in Kids /\ verify[v].now <= Late(kid)
      BY <2>2, <2>3 DEF KeyInv, FetchedInv, VerifyShape
    <3>2. clock <= verify[v].now + MaxStall /\ verify[v].now \in Int
      BY <2>2 DEF VerifyShape, Dated
    <3> QED
      BY <3>1, <3>2, LateTyped
  <2>4. FetchedInv'
    BY <1>1, <1>2, <2>1 DEF KeyInv, FetchedInv, Kept, provider, Moves
  <2>5. CachedInv'
    <3> SUFFICES ASSUME NEW kid \in verify[v].keys, until[kid] # Never
                 PROVE  /\ cachedAt <= Late(kid) + MaxStall
                        /\ \A w \in Verifiers : verify'[w].pc = "stamp"
                                => verify'[w].now <= Late(kid) + MaxStall
      BY <1>1, <1>2, <2>1, <2>2 DEF CachedInv, provider, VerifyShape
    <3>1. Late(kid) \in Int
      BY <2>2, LateTyped DEF VerifyShape
    <3>2. \A w \in Verifiers : verify[w].pc = "stamp" => verify[w].now \in Int /\ verify[w].now <= clock
      BY Running DEF VerifyShape, VerifySteps, Dated
    <3>3. cachedAt <= clock
      BY DEF FedTypeInv
    <3> QED
      BY <1>1, <2>1, <2>3, <3>1, <3>2, <3>3 DEF Kept
  <2>6. FoundInv'
    BY <1>1, <2>1 DEF KeyInv, FoundInv, Kept, provider, Late, Slack, Moves
  <2> QED
    BY <2>4, <2>5, <2>6 DEF KeyInv
<1>8. CASE StampKeys(v)
  <2>1. verify[v].pc = "stamp" /\ Searched(v, verify[v].keys)
    BY <1>8, RequestTurns
  <2>2. cachedAt' = verify[v].now /\ UNCHANGED cachedKeys
    BY <1>8 DEF StampKeys
  <2>3. VerifyShape(v)
    BY <2>1, Running DEF VerifySteps
  <2>4. ASSUME NEW kid \in Kids, verify'[v].pc = "found", verify[v].kid = kid, until[kid] # Never
        PROVE  verify[v].begun < Late(kid) + MaxStall + CacheSeconds
    <3>1. kid \in verify[v].keys
      BY <2>1, <2>4 DEF Searched
    <3>2. verify[v].now <= Late(kid)
      BY <2>1, <2>4, <3>1 DEF KeyInv, FetchedInv
    <3>3. verify[v].begun <= verify[v].now /\ verify[v].begun \in Int /\ verify[v].now \in Int
      BY <2>1, <2>3 DEF VerifyShape, Dated
    <3> QED
      BY <3>1, <3>2, <3>3, LateTyped
  <2>5. verify'[v].pc \notin {"data", "stamp"}
    BY <2>1 DEF Searched
  <2> QED
    BY <1>1, <2>1, <2>2, <2>4, <2>5, FindsWell
<1> QED
    BY <1>3, <1>4, <1>5, <1>6, <1>7, <1>8 DEF VerifyStep

LEMMA KeyStep == FedTypeInv /\ ProviderInv /\ SiteInv /\ KeyInv /\ FedNext => KeyInv'
<1> SUFFICES ASSUME FedTypeInv, ProviderInv, SiteInv, KeyInv, FedNext PROVE KeyInv'
    OBVIOUS
<1> USE FedTypes
<1>1. CASE UNCHANGED fedVars
    BY <1>1 DEF fedVars, provider, caches, KeyInv, FetchedInv, CachedInv, FoundInv, Late, Slack
<1>2. ASSUME NEW v \in Verifiers,
             \A w \in Verifiers : w # v => verify'[w] = verify[w],
             verify'[v].pc \notin {"data", "stamp", "found"},
             UNCHANGED <<provider, caches>>
      PROVE  KeyInv'
  <2>1. FetchedInv'
    BY <1>2 DEF provider, KeyInv, FetchedInv, Late, Slack
  <2>2. CachedInv'
    BY <1>2 DEF provider, caches, KeyInv, CachedInv, Late, Slack
  <2>3. FoundInv'
    BY <1>2 DEF provider, KeyInv, FoundInv, Late, Slack
  <2> QED
    BY <2>1, <2>2, <2>3 DEF KeyInv
<1>3. ASSUME NEW v \in Verifiers, NEW kid \in Kids, Begins(v, kid)
      PROVE  KeyInv'
    BY <1>2, <1>3, BeginTurns DEF Begins
<1>4. ASSUME NEW v \in Verifiers, Ends(v)
      PROVE  KeyInv'
    BY <1>2, <1>4, EndTurns DEF Ends, Verified
<1>5. ASSUME ProviderStep PROVE KeyInv'
  <2>1. UNCHANGED <<clock, caches, verify>>
    BY <1>5 DEF ProviderStep
  <2>2. ASSUME NEW kid \in Kids, until'[kid] # Never
        PROVE  Late(kid)' >= clock \/ (until[kid] # Never /\ Late(kid)' >= Late(kid))
    <3>1. CASE until' = until /\ moved' = moved
      BY <2>2, <3>1, LateTyped DEF Late, Slack
    <3>2. CASE moved = Never /\ moved' = clock /\ until' = until
      BY <2>2, <3>2 DEF Late, Slack
    <3>3. CASE moved' = moved /\ \E k \in Kids : until' = [until EXCEPT ![k] = clock]
      BY <2>2, <3>3 DEF Late, Slack
    <3> QED
      BY <1>5, <3>1, <3>2, <3>3 DEF ProviderStep, PublishKid, WithdrawKid, MoveSite
  <2>3. \A kid \in Kids : Late(kid)' \in Int
    <3>1. until' \in [Kids -> Int]
      BY <1>5 DEF ProviderStep, PublishKid, WithdrawKid, MoveSite
    <3> QED
      BY <3>1 DEF Late, Slack
  <2>4. \A v \in Verifiers :
            verify[v].pc \in VerifySteps =>
                verify[v].kid \in Kids /\ verify[v].begun \in Int /\ verify[v].begun <= clock
    BY Running DEF VerifyShape
  <2>5. \A v \in Verifiers :
            verify[v].pc \in Dated => verify[v].now \in Int /\ verify[v].now <= clock
    BY Running DEF VerifyShape, VerifySteps, Dated
  <2>6. FetchedInv'
    BY <2>1, <2>2, <2>3, <2>5, LateTyped DEF KeyInv, FetchedInv, Dated
  <2>7. CachedInv'
    <3> SUFFICES ASSUME NEW kid \in cachedKeys, until'[kid] # Never
                 PROVE  /\ cachedAt <= Late(kid)' + MaxStall
                        /\ \A v \in Verifiers : verify[v].pc = "stamp"
                                => verify[v].now <= Late(kid)' + MaxStall
      BY <2>1 DEF CachedInv, caches
    <3>1. kid \in Kids /\ cachedAt <= clock
      BY DEF FedTypeInv
    <3>2. CASE Late(kid)' >= clock
      BY <2>3, <2>5, <3>1, <3>2 DEF Dated
    <3>3. CASE until[kid] # Never /\ Late(kid)' >= Late(kid)
      BY <2>3, <2>5, <3>1, <3>3, LateTyped DEF KeyInv, CachedInv, Dated
    <3> QED
      BY <2>2, <3>1, <3>2, <3>3
  <2>8. FoundInv'
    <3> SUFFICES ASSUME NEW v \in Verifiers, NEW kid \in Kids,
                        verify[v].pc = "found", verify[v].kid = kid, until'[kid] # Never
                 PROVE  verify[v].begun < Late(kid)' + MaxStall + CacheSeconds
      BY <2>1 DEF FoundInv
    <3>1. verify[v].begun \in Int /\ verify[v].begun <= clock
      BY <2>4 DEF VerifySteps
    <3>2. CASE Late(kid)' >= clock
      BY <2>3, <3>1, <3>2
    <3>3. CASE until[kid] # Never /\ Late(kid)' >= Late(kid)
      BY <2>3, <3>1, <3>3, LateTyped DEF KeyInv, FoundInv
    <3> QED
      BY <2>2, <3>2, <3>3
  <2> QED
    BY <2>6, <2>7, <2>8 DEF KeyInv
<1>6. ASSUME Ticks PROVE KeyInv'
    BY <1>6 DEF Ticks, provider, caches, KeyInv, FetchedInv, CachedInv, FoundInv, Late, Slack
<1> QED
    BY <1>1, <1>3, <1>4, <1>5, <1>6, KeyVerifyStep DEF FedNext

-----------------------------------------------------------------------------
(* Keys the provider had published before a verification began. A fresh key *)
(* set lacks one only if it came from an old URL.                           *)

Outdated(v) == moved # Never /\ verify[v].begun < moved + MaxStall + CacheSeconds

KnownInv ==
    \A v \in Verifiers, kid \in Kids :
        verify[v] # Verified /\ verify[v].kid = kid /\ verify[v].known /\ until[kid] = Never =>
            /\ kid \in published[site]
            /\ verify[v].pc \in {"data", "stamp"} => kid \in verify[v].keys \/ Outdated(v)
            /\ verify[v].pc = "unknown" => Outdated(v)

LEMMA KnownInit == Init => KnownInv
BY DEF Init, FederatedInit, KnownInv

\* The verification v goes on to a step that promises nothing yet, or what is
\* promised of it holds.
LEMMA KnownTurns ==
    ASSUME FedTypeInv, KnownInv, NEW v \in Verifiers, verify[v].pc \in VerifySteps,
           Kept(v), UNCHANGED provider,
           \A kid \in Kids :
                verify[v].kid = kid /\ verify[v].known /\ until[kid] = Never =>
                    /\ verify'[v].pc \in {"data", "stamp"} => kid \in verify'[v].keys \/ Outdated(v)
                    /\ verify'[v].pc = "unknown" => Outdated(v)
    PROVE  KnownInv'
<1>1. verify[v] # Verified
    BY DEF Verified, VerifySteps
<1>2. \A w \in Verifiers : Outdated(w)' = Outdated(w)
    BY DEF Outdated, Kept, provider
<1> QED
    BY <1>1, <1>2 DEF KnownInv, Kept, provider

LEMMA KnownVerifyStep ==
    ASSUME FedTypeInv, ProviderInv, SiteInv, KnownInv, NEW v \in Verifiers, VerifyStep(v)
    PROVE  KnownInv'
<1> USE FedTypes
<1>1. Kept(v) /\ UNCHANGED provider
    BY VerifyKeeps
<1>2. verify[v].pc \in VerifySteps
    BY DEF VerifyStep, AskKeys, Discover, StoreMetadata, DateMetadata, GetKeys, StoreKeys,
           StampKeys, FailRequest, VerifySteps
<1>3. VerifyShape(v) /\ verify[v] # Verified
    BY <1>2, Running DEF Verified, VerifySteps
<1>4. CASE verify'[v].pc \notin {"data", "stamp", "unknown"}
    BY <1>1, <1>2, <1>4, KnownTurns
<1>5. CASE AskKeys(v)
  <2>1. ASSUME NEW kid \in Kids, verify[v].kid = kid, verify[v].known, until[kid] = Never
        PROVE  verify'[v].pc # "unknown"
    <3>1. kid \in published[site]
      BY <1>3, <2>1 DEF KnownInv
    <3>2. mode = "static" => site = FirstSite
      BY DEF ProviderInv
    <3> QED
      BY <1>5, <2>1, <3>1, <3>2, AskTurns
  <2>2. verify'[v].pc \notin {"data", "stamp"}
    BY <1>5, AskTurns
  <2> QED
    BY <1>1, <1>2, <2>1, <2>2, KnownTurns
<1>6. CASE GetKeys(v)
  <2>1. Moves(v, "get", "data") /\ verify'[v].keys = published[verify[v].url]
    BY <1>6, RequestTurns
  <2>2. ASSUME NEW kid \in Kids, verify[v].kid = kid, verify[v].known, until[kid] = Never
        PROVE  kid \in verify'[v].keys \/ Outdated(v)
    <3>1. kid \in published[site]
      BY <1>3, <2>2 DEF KnownInv
    <3>2. CASE verify[v].url = site
      BY <2>1, <3>1, <3>2
    <3>3. CASE verify[v].url # site
      BY <1>3, <2>1, <3>3 DEF SiteInv, Outdated, Moves, VerifyShape, Dated
    <3> QED
      BY <3>2, <3>3
  <2> QED
    BY <1>1, <1>2, <2>1, <2>2, KnownTurns DEF Moves
<1>7. CASE StoreKeys(v)
  <2>1. Moves(v, "data", "stamp") /\ verify'[v].keys = verify[v].keys
    BY <1>7, RequestTurns
  <2>2. ASSUME NEW kid \in Kids, verify[v].kid = kid, verify[v].known, until[kid] = Never
        PROVE  kid \in verify'[v].keys \/ Outdated(v)
    BY <1>3, <2>1, <2>2 DEF KnownInv, Moves
  <2> QED
    BY <1>1, <1>2, <2>1, <2>2, KnownTurns DEF Moves
<1>8. CASE StampKeys(v)
  <2>1. verify[v].pc = "stamp" /\ Searched(v, verify[v].keys)
    BY <1>8, RequestTurns
  <2>2. ASSUME NEW kid \in Kids, verify[v].kid = kid, verify[v].known, until[kid] = Never
        PROVE  verify'[v].pc = "unknown" => Outdated(v)
    BY <1>3, <2>1, <2>2 DEF KnownInv, Searched
  <2>3. verify'[v].pc \notin {"data", "stamp"}
    BY <2>1 DEF Searched
  <2> QED
    BY <1>1, <1>2, <2>2, <2>3, KnownTurns
<1>9. CASE Discover(v) \/ StoreMetadata(v) \/ DateMetadata(v) \/ FailRequest(v)
    BY <1>4, <1>9, RequestTurns DEF Moves
<1> QED
    BY <1>5, <1>6, <1>7, <1>8, <1>9 DEF VerifyStep

LEMMA KnownStep == FedTypeInv /\ ProviderInv /\ SiteInv /\ KnownInv /\ FedNext => KnownInv'
<1> SUFFICES ASSUME FedTypeInv, ProviderInv, SiteInv, KnownInv, FedNext PROVE KnownInv'
    OBVIOUS
<1> USE FedTypes
<1>1. CASE UNCHANGED fedVars
    BY <1>1 DEF fedVars, provider, KnownInv, Outdated
<1>2. ASSUME NEW v \in Verifiers, NEW kid \in Kids, Begins(v, kid)
      PROVE  KnownInv'
    BY <1>2, BeginTurns DEF Begins, provider, KnownInv, Outdated
<1>3. ASSUME NEW v \in Verifiers, Ends(v)
      PROVE  KnownInv'
    BY <1>3, EndTurns DEF Ends, provider, KnownInv, Outdated
<1>4. ASSUME ProviderStep PROVE KnownInv'
  <2>1. UNCHANGED verify
    BY <1>4 DEF ProviderStep
  <2>2. \A v \in Verifiers : Outdated(v) => Outdated(v)'
    <3>1. moved # Never => moved' = moved
      BY <1>4 DEF ProviderStep, PublishKid, WithdrawKid, MoveSite
    <3> QED
      BY <2>1, <3>1 DEF Outdated
  <2>3. \A kid \in Kids : until'[kid] = Never /\ until[kid] = Never /\ kid \in published[site]
                            => kid \in published'[site']
    <3>1. CASE \E kid \in Kids : PublishKid(kid)
      BY <3>1 DEF PublishKid
    <3>2. CASE \E kid \in Kids : WithdrawKid(kid)
      BY <3>2 DEF WithdrawKid
    <3>3. CASE \E s \in Sites : MoveSite(s)
      BY <3>3 DEF MoveSite
    <3> QED
      BY <1>4, <3>1, <3>2, <3>3 DEF ProviderStep
  <2>4. \A kid \in Kids : until'[kid] = Never => until[kid] = Never
    BY <1>4 DEF ProviderStep, PublishKid, WithdrawKid, MoveSite
  <2> QED
    BY <2>1, <2>2, <2>3, <2>4 DEF KnownInv
<1>5. ASSUME Ticks PROVE KnownInv'
    BY <1>5 DEF Ticks, provider, KnownInv, Outdated
<1> QED
    BY <1>1, <1>2, <1>3, <1>4, <1>5, KnownVerifyStep DEF FedNext

-----------------------------------------------------------------------------
(* The verification as a whole.                                             *)

FedInv == FedTypeInv /\ ProviderInv /\ SiteInv /\ KeyInv /\ KnownInv

LEMMA FedInit == Init => FedInv
BY FedTypeInit, ProviderInit, SiteInit, KeyInit, KnownInit DEF FedInv

LEMMA FedStep == FedInv /\ FedNext => FedInv'
BY FedTypeStep, ProviderInvStep, SiteStep, KeyStep, KnownStep DEF FedInv

LEMMA KeysExpire == FedInv => WithdrawnKeyExpires
<1> SUFFICES ASSUME FedInv, NEW v \in Verifiers, verify[v].pc = "found",
                    until[verify[v].kid] # Never
             PROVE  clock - until[verify[v].kid]
                        < IF moved = Never THEN CacheSeconds + 2 * MaxStall
                          ELSE 2 * CacheSeconds + 3 * MaxStall
    BY DEF WithdrawnKeyExpires
<1>1. FedTypeInv
    BY DEF FedInv
<1>2. VerifyShape(v)
    BY <1>1, Running DEF VerifySteps
<1>3. PICK kid \in Kids : kid = verify[v].kid
    BY <1>2 DEF VerifyShape
<1>4. verify[v].begun < Late(kid) + MaxStall + CacheSeconds
    BY <1>3 DEF FedInv, KeyInv, FoundInv
<1>5. clock <= verify[v].begun + MaxStall /\ verify[v].begun \in Int
    BY <1>2 DEF VerifyShape
<1> QED
    BY <1>1, <1>3, <1>4, <1>5, FedTypes DEF Late, Slack

LEMMA KeysHonoured == FedInv => NewKeyHonoured
<1> SUFFICES ASSUME FedInv, NEW v \in Verifiers, verify[v].pc = "unknown",
                    verify[v].kid \in published[site], verify[v].known
             PROVE  moved # Never /\ clock - moved < CacheSeconds + 2 * MaxStall
    BY DEF NewKeyHonoured
<1>1. FedTypeInv
    BY DEF FedInv
<1>2. VerifyShape(v) /\ verify[v] # Verified
    BY <1>1, Running DEF VerifySteps, Verified
<1>3. PICK kid \in Kids : kid = verify[v].kid
    BY <1>2 DEF VerifyShape
<1>4. until[kid] = Never
    BY <1>3 DEF FedInv, ProviderInv
<1>5. Outdated(v)
    BY <1>2, <1>3, <1>4 DEF FedInv, KnownInv
<1>6. clock <= verify[v].begun + MaxStall /\ verify[v].begun \in Int
    BY <1>2 DEF VerifyShape
<1> QED
    BY <1>1, <1>5, <1>6, FedTypes DEF Outdated

-----------------------------------------------------------------------------
(* The requests in progress, with the workspace they are made in.           *)

Req == [pc : Steps, key : Keys, auth : Authorization, op : Operation,
        barred : BOOLEAN, could : BOOLEAN]

\* A secret is held only once the workspace is written, with its first key.
AccessTypeInv ==
    /\ RbacTypeOK
    /\ load \in Load
    /\ created \in 0 .. Complete
    /\ keys \in [Keys -> KeyStatuses]
    /\ held \subseteq {k \in Keys : keys[k] # "none"}
    /\ sessions \in [Sessions -> Session \cup {NoSession}]
    /\ at \in [Requests -> Req \cup {Idle}]
    /\ overlapped \in BOOLEAN
    /\ created # Complete => held = {} /\ \A r \in Requests : at[r] = Idle
    /\ created = 1 /\ load.legacy => keys[FirstKey] = "legacy"
    /\ created \in 2 .. Complete => keys[FirstKey] # "none"
    /\ \A r \in Requests : at[r] # Idle =>
        /\ at[r].key \in held
        /\ at[r].auth.kind = "session" => Issued(at[r].auth.session)

LEMMA ReqShape ==
    ASSUME AccessTypeInv, NEW r \in Requests
    PROVE  /\ at[r] # Idle => at[r] \in Req
           /\ at[r].pc \in Steps <=> at[r] # Idle
           /\ at[r] # Idle => created = Complete
           /\ at[r] # Idle => at[r].key \in Keys /\ keys[at[r].key] # "none"
           /\ at[r] # Idle /\ at[r].auth.kind = "session" => at[r].auth.session \in Sessions
           /\ at[r] # Idle /\ at[r].auth.kind = "oidc" => at[r].auth.kid \in Kids
           /\ DOMAIN at = Requests
<1>1. at[r] # Idle => at[r] \in Req
    BY DEF AccessTypeInv
<1>2. at[r].pc \in Steps <=> at[r] # Idle
    BY <1>1 DEF Req, Idle, Steps
<1>3. at[r] # Idle => created = Complete
    BY DEF AccessTypeInv
<1>4. at[r] # Idle => at[r].key \in Keys /\ keys[at[r].key] # "none"
    BY DEF AccessTypeInv
<1>5. at[r] # Idle => at[r].auth \in Authorization
    BY <1>1 DEF Req
<1>6. at[r] # Idle /\ at[r].auth.kind = "session" => at[r].auth.session \in Sessions
    BY <1>5 DEF Authorization
<1>7. at[r] # Idle /\ at[r].auth.kind = "oidc" => at[r].auth.kid \in Kids
    BY <1>5 DEF Authorization
<1>8. DOMAIN at = Requests
    BY DEF AccessTypeInv
<1> QED
    BY <1>1, <1>2, <1>3, <1>4, <1>6, <1>7, <1>8

\* What a step does to the requests: one ends, goes on through a gate, or the
\* step is about the time and the provider only.
Rest == UNCHANGED <<roles, groups, load, created, keys, held, sessions, overlapped, clock>>

Ended(r) == at[r] # Idle /\ End(r) /\ Rest

Gate(r, to) ==
    \/ /\ At(r, "arrived") /\ to = "keyed"
       /\ Usable(at[r].key)
    \/ /\ At(r, "keyed") /\ to = "verified"
       /\ \/ at[r].auth.kind = "header"
          \/ at[r].auth.kind = "session" /\ Valid(at[r].auth.session)
    \/ /\ At(r, "keyed") /\ to = "federated"
       /\ at[r].auth.kind = "oidc"
    \/ At(r, "federated") /\ to = "verified"
    \/ /\ At(r, "verified") /\ to = "authorized"
       /\ Allowed(at[r].auth, at[r].op)
    \/ /\ At(r, "authorized") /\ to = "chosen"
       /\ at[r].op.kind = "revoke"
       /\ \/ at[r].op.key # at[r].key
          \/ keys[at[r].key] = "legacy"
          \/ Alternatives(r) # {}

Advanced(r, to) == at[r] # Idle /\ Gate(r, to) /\ Advance(r, to) /\ Rest

Elsewhere ==
    /\ UNCHANGED <<roles, groups, created, keys, held, sessions, at, overlapped>>
    /\ \/ load' = load
       \/ load.changes > 0 /\ load' = [load EXCEPT !.changes = @ - 1]
       \/ load.ticks > 0 /\ load' = [load EXCEPT !.ticks = @ - 1]
    /\ clock' = clock \/ clock' = clock + 1

LEMMA AccessKinds ==
    ASSUME AccessTypeInv, [Next]_vars
    PROVE  \/ Create
           \/ Elsewhere
           \/ \E s \in Sessions : RevokeSession(s)
           \/ \E r \in Requests :
                \/ \E k \in Keys, auth \in Authorization, op \in Operation : Arrive(r, k, auth, op)
                \/ Ended(r)
                \/ \E to \in Steps : Advanced(r, to)
                \/ \E k \in Keys : RotateKey(r, k)
                \/ RevokeKey(r)
                \/ SetMember(r)
                \/ \E s \in Sessions, email \in Emails : IssueSession(r, s, email)
<1>1. CASE UNCHANGED vars
    BY <1>1 DEF vars, fedVars, rbacVars, accessVars, Elsewhere
<1>2. ASSUME NEW r \in Requests, Authenticate(r)
      PROVE  Ended(r) \/ Advanced(r, "keyed")
    BY <1>2 DEF Authenticate, Ended, Advanced, Gate, At, Idle, Rest, fedVars, rbacVars
<1>3. ASSUME NEW r \in Requests, TakeHeader(r)
      PROVE  Advanced(r, "verified")
    BY <1>3 DEF TakeHeader, Advanced, Gate, At, Idle, Rest, fedVars, rbacVars
<1>4. ASSUME NEW r \in Requests, VerifySession(r)
      PROVE  Ended(r) \/ Advanced(r, "verified")
    BY <1>4 DEF VerifySession, Ended, Advanced, Gate, At, Idle, Rest, fedVars, rbacVars
<1>5. ASSUME NEW r \in Requests, Federate(r)
      PROVE  Advanced(r, "federated")
    BY <1>5 DEF Federate, Advanced, Gate, At, Idle, Rest, rbacVars
<1>6. ASSUME NEW r \in Requests, Federated(r)
      PROVE  Ended(r) \/ Advanced(r, "verified")
    BY <1>6 DEF Federated, Ended, Advanced, Gate, At, Idle, Rest, rbacVars
<1>7. ASSUME NEW r \in Requests, Authorize(r)
      PROVE  Ended(r) \/ Advanced(r, "authorized")
    BY <1>7 DEF Authorize, Ended, Advanced, Gate, At, Idle, Rest, fedVars, rbacVars
<1>8. ASSUME NEW r \in Requests, Use(r)
      PROVE  Ended(r)
    BY <1>8 DEF Use, Operating, Ended, At, Idle, Rest, fedVars, rbacVars
<1>9. ASSUME NEW r \in Requests, ChooseKey(r)
      PROVE  Ended(r) \/ Advanced(r, "chosen")
    BY <1>9 DEF ChooseKey, Operating, Ended, Advanced, Gate, At, Idle, Rest, fedVars, rbacVars
<1>10. ASSUME NEW r \in Requests, Verifying(r)
       PROVE  Elsewhere
  <2>1. UNCHANGED clock
    BY <1>10 DEF Verifying, VerifyStep, AskKeys, Discover, StoreMetadata, DateMetadata, GetKeys,
                 StoreKeys, StampKeys, FailRequest
  <2> QED
    BY <1>10, <2>1 DEF Verifying, Elsewhere, rbacVars, accessVars
<1>11. ASSUME ProviderChange PROVE Elsewhere
    BY <1>11 DEF ProviderChange, ProviderStep, Elsewhere, rbacVars
<1>12. ASSUME Tick PROVE Elsewhere
    BY <1>12 DEF Tick, Elsewhere, rbacVars
<1>13. "keyed" \in Steps /\ "verified" \in Steps /\ "federated" \in Steps /\ "authorized" \in Steps
        /\ "chosen" \in Steps
    BY DEF Steps
<1> QED
    BY <1>1, <1>2, <1>3, <1>4, <1>5, <1>6, <1>7, <1>8, <1>9, <1>10, <1>11, <1>12, <1>13 DEF Next

\* What it does to the verifications.
LEMMA FedKinds ==
    ASSUME AccessTypeInv, [Next]_vars
    PROVE  FedNext
<1>1. CASE UNCHANGED vars
    BY <1>1 DEF vars, FedNext
<1>2. ASSUME NEW r \in Requests, Federate(r)
      PROVE  \E v \in Verifiers, kid \in Kids : Begins(v, kid)
  <2>1. at[r].auth.kid \in Kids
    BY <1>2, ReqShape DEF Federate, At, Steps
  <2> QED
    BY <1>2, <2>1, AccessAssumption DEF Federate, Begins
<1>3. ASSUME NEW r \in Requests, Federated(r)
      PROVE  \E v \in Verifiers : Ends(v)
    BY <1>3, AccessAssumption DEF Federated, Ends
<1>4. ASSUME NEW r \in Requests, Verifying(r)
      PROVE  \E v \in Verifiers : VerifyStep(v)
    BY <1>4, AccessAssumption DEF Verifying
<1>5. ASSUME ProviderChange PROVE ProviderStep
    BY <1>5 DEF ProviderChange
<1>6. ASSUME Tick PROVE Ticks
    BY <1>6 DEF Tick, Ticks
<1>7. ASSUME NEW r \in Requests,
             \/ \E k \in Keys, auth \in Authorization, op \in Operation : Arrive(r, k, auth, op)
             \/ Authenticate(r) \/ TakeHeader(r) \/ VerifySession(r) \/ Authorize(r) \/ Use(r)
             \/ \E k \in Keys : RotateKey(r, k)
             \/ ChooseKey(r) \/ RevokeKey(r) \/ SetMember(r)
             \/ \E s \in Sessions, email \in Emails : IssueSession(r, s, email)
      PROVE  UNCHANGED fedVars
    BY <1>7 DEF Arrive, Authenticate, TakeHeader, VerifySession, Authorize, Use, RotateKey,
                ChooseKey, RevokeKey, SetMember, IssueSession
<1>8. ASSUME Create \/ \E s \in Sessions : RevokeSession(s)
      PROVE  UNCHANGED fedVars
    BY <1>8 DEF Create, WriteWorkspace, WriteKey, AdmitOwner, WriteSecurityGroup,
                WriteFinanceGroup, WriteGroup, RevokeSession
<1> QED
    BY <1>1, <1>2, <1>3, <1>4, <1>5, <1>6, <1>7, <1>8 DEF Next, FedNext

LEMMA EndsAt ==
    ASSUME AccessTypeInv, NEW r \in Requests, End(r)
    PROVE  /\ at' \in [Requests -> Req \cup {Idle}]
           /\ at'[r] = Idle
           /\ \A q \in Requests : q # r => at'[q] = at[q]
BY DEF AccessTypeInv, End

LEMMA AdvancesAt ==
    ASSUME AccessTypeInv, NEW r \in Requests, NEW to \in Steps, at[r] # Idle, Advance(r, to)
    PROVE  /\ at' \in [Requests -> Req \cup {Idle}]
           /\ at'[r] # Idle
           /\ at'[r].pc = to
           /\ at'[r].key = at[r].key /\ at'[r].auth = at[r].auth /\ at'[r].op = at[r].op
           /\ at'[r].barred = at[r].barred /\ at'[r].could = at[r].could
           /\ \A q \in Requests : q # r => at'[q] = at[q]
<1>1. at[r] \in Req
    BY ReqShape
<1>2. at' = [at EXCEPT ![r] = [at[r] EXCEPT !.pc = to]]
    BY DEF Advance
<1> DEFINE next == [at[r] EXCEPT !.pc = to]
<1>3. /\ next \in Req /\ next.pc = to
      /\ next.key = at[r].key /\ next.auth = at[r].auth /\ next.op = at[r].op
      /\ next.barred = at[r].barred /\ next.could = at[r].could
    BY <1>1 DEF Req
<1> HIDE DEF next
<1>4. at' = [at EXCEPT ![r] = next]
    BY <1>2 DEF next
<1>5. next # Idle
    BY <1>3 DEF Idle, Steps
<1> QED
    BY <1>3, <1>4, <1>5 DEF AccessTypeInv

\* A request arrives with a record of what it is refused for, and could do.
LEMMA ArrivesAt ==
    ASSUME AccessTypeInv, NEW r \in Requests, NEW k \in Keys, NEW auth \in Authorization,
           NEW op \in Operation, Arrive(r, k, auth, op)
    PROVE  /\ at' \in [Requests -> Req \cup {Idle}]
           /\ at'[r] # Idle
           /\ at'[r].pc = "arrived"
           /\ at'[r].key = k /\ at'[r].auth = auth /\ at'[r].op = op
           /\ at'[r].barred <=> ~Usable(k) \/ (auth.kind = "session" /\ ~Valid(auth.session))
           /\ at'[r].could <=> Allowed(auth, op)
           /\ \A q \in Requests : q # r => at'[q] = at[q]
<1>1. ASSUME NEW b \in BOOLEAN, NEW d \in BOOLEAN,
             at' = [at EXCEPT ![r] = [pc |-> "arrived", key |-> k, auth |-> auth, op |-> op,
                                      barred |-> b, could |-> d]]
      PROVE  /\ at' \in [Requests -> Req \cup {Idle}]
             /\ at'[r] # Idle
             /\ at'[r].pc = "arrived"
             /\ at'[r].key = k /\ at'[r].auth = auth /\ at'[r].op = op
             /\ at'[r].barred = b
             /\ at'[r].could = d
             /\ \A q \in Requests : q # r => at'[q] = at[q]
  <2> DEFINE next == [pc |-> "arrived", key |-> k, auth |-> auth, op |-> op,
                      barred |-> b, could |-> d]
  <2>1. /\ next \in Req /\ next # Idle /\ next.pc = "arrived" /\ next.key = k
        /\ next.auth = auth /\ next.op = op /\ next.barred = b /\ next.could = d
    BY DEF Req, Steps, Idle
  <2>2. at' = [at EXCEPT ![r] = next]
    BY <1>1
  <2> HIDE DEF next
  <2> QED
    BY <2>1, <2>2 DEF AccessTypeInv
<1> DEFINE b == ~Usable(k) \/ (auth.kind = "session" /\ ~Valid(auth.session))
           d == Allowed(auth, op)
<1>2. b \in BOOLEAN /\ d \in BOOLEAN
    BY DEF Allowed
<1>3. at' = [at EXCEPT ![r] = [pc |-> "arrived", key |-> k, auth |-> auth, op |-> op,
                               barred |-> b, could |-> d]]
    BY DEF Arrive
<1> HIDE DEF b, d
<1>4. at'[r].barred = b /\ at'[r].could = d
    BY <1>1, <1>2, <1>3
<1>5. /\ at' \in [Requests -> Req \cup {Idle}]
      /\ at'[r] # Idle
      /\ at'[r].pc = "arrived"
      /\ at'[r].key = k /\ at'[r].auth = auth /\ at'[r].op = op
      /\ \A q \in Requests : q # r => at'[q] = at[q]
    BY <1>1, <1>2, <1>3
<1> QED
    BY <1>4, <1>5 DEF b, d

LEMMA MembersAt ==
    ASSUME AccessTypeInv, NEW r \in Requests, SetMember(r)
    PROVE  /\ at' \in [Requests -> Req \cup {Idle}]
           /\ at'[r] = Idle
           /\ \A q \in Requests : at[q] = Idle => at'[q] = Idle
           /\ \A q \in Requests : q # r /\ at[q] # Idle =>
                /\ at'[q] # Idle
                /\ at'[q].pc = at[q].pc
                /\ at'[q].key = at[q].key /\ at'[q].auth = at[q].auth /\ at'[q].op = at[q].op
                /\ at'[q].barred = at[q].barred
                /\ at'[q].could <=> \/ at[q].could
                                    \/ /\ Actor(at[q].auth) = at[r].op.email
                                       /\ Capability(at[q].op) \in ROLE_CAPABILITIES[at[r].op.role]
<1> DEFINE May(q) ==
        \/ at[q].could
        \/ /\ Actor(at[q].auth) = at[r].op.email
           /\ Capability(at[q].op) \in ROLE_CAPABILITIES[at[r].op.role]
<1>1. at' = [q \in Requests |->
                IF q = r \/ at[q] = Idle THEN Idle ELSE [at[q] EXCEPT !.could = May(q)]]
    BY DEF SetMember
<1>2. ASSUME NEW q \in Requests, at[q] # Idle, NEW b \in BOOLEAN
      PROVE  LET next == [at[q] EXCEPT !.could = b]
             IN  /\ next \in Req /\ next # Idle /\ next.pc = at[q].pc
                 /\ next.key = at[q].key /\ next.auth = at[q].auth /\ next.op = at[q].op
                 /\ next.barred = at[q].barred /\ next.could = b
  <2> DEFINE next == [at[q] EXCEPT !.could = b]
  <2>1. at[q] \in Req
    BY <1>2, ReqShape
  <2>2. /\ next \in Req /\ next.pc = at[q].pc
        /\ next.key = at[q].key /\ next.auth = at[q].auth /\ next.op = at[q].op
        /\ next.barred = at[q].barred /\ next.could = b
    BY <2>1 DEF Req
  <2>3. next # Idle
    BY <2>1, <2>2 DEF Req, Idle, Steps
  <2> QED
    BY <2>2, <2>3
<1>3. \A q \in Requests : May(q) \in BOOLEAN
  <2> SUFFICES ASSUME NEW q \in Requests PROVE May(q) \in BOOLEAN
    OBVIOUS
  <2> QED
    OBVIOUS
<1> HIDE DEF May
<1>4. \A q \in Requests : q # r /\ at[q] # Idle =>
        /\ at'[q] \in Req
        /\ at'[q] # Idle
        /\ at'[q].pc = at[q].pc
        /\ at'[q].key = at[q].key /\ at'[q].auth = at[q].auth /\ at'[q].op = at[q].op
        /\ at'[q].barred = at[q].barred
        /\ at'[q].could = May(q)
  <2> SUFFICES ASSUME NEW q \in Requests, q # r, at[q] # Idle
               PROVE  /\ at'[q] \in Req
                      /\ at'[q] # Idle
                      /\ at'[q].pc = at[q].pc
                      /\ at'[q].key = at[q].key /\ at'[q].auth = at[q].auth /\ at'[q].op = at[q].op
                      /\ at'[q].barred = at[q].barred
                      /\ at'[q].could = May(q)
    OBVIOUS
  <2>1. at'[q] = [at[q] EXCEPT !.could = May(q)]
    BY <1>1
  <2>2. May(q) \in BOOLEAN
    BY <1>3
  <2> QED
    BY <1>2, <2>1, <2>2
<1>5. at'[r] = Idle /\ \A q \in Requests : at[q] = Idle => at'[q] = Idle
    BY <1>1
<1>6. at' \in [Requests -> Req \cup {Idle}]
  <2>1. DOMAIN at' = Requests /\ \A q \in Requests : at'[q] \in Req \cup {Idle}
    BY <1>1, <1>4, <1>5
  <2>2. at' = [q \in Requests |-> at'[q]]
    BY <1>1
  <2> QED
    BY <2>1, <2>2
<1> QED
    BY <1>4, <1>5, <1>6 DEF May

\* A session that was issued stays somebody's; it does not become valid again.
LEMMA SessionsLast ==
    ASSUME AccessTypeInv, FedTypeInv, [Next]_vars, NEW s \in Sessions, Issued(s)
    PROVE  /\ Issued(s)'
           /\ sessions'[s].email = sessions[s].email
           /\ ~Valid(s) => ~Valid(s)'
<1>1. sessions[s] \in Session
    BY DEF AccessTypeInv, Issued
<1>2. ASSUME UNCHANGED sessions, clock' = clock \/ clock' = clock + 1
      PROVE  /\ Issued(s)'
             /\ sessions'[s].email = sessions[s].email
             /\ ~Valid(s) => ~Valid(s)'
    BY <1>1, <1>2, FedTypes DEF Issued, Valid, Expired, Session
<1>3. ASSUME NEW t \in Sessions, RevokeSession(t)
      PROVE  /\ Issued(s)'
             /\ sessions'[s].email = sessions[s].email
             /\ ~Valid(s) => ~Valid(s)'
  <2>1. UNCHANGED clock /\ sessions' = [sessions EXCEPT ![t].revoked = TRUE]
    BY <1>3 DEF RevokeSession, fedVars
  <2>2. CASE s # t
    <3>1. sessions'[s] = sessions[s]
      BY <2>1, <2>2 DEF AccessTypeInv
    <3> QED
      BY <2>1, <3>1 DEF Issued, Valid, Expired
  <2>3. CASE s = t
    <3>1. sessions'[s] = [sessions[s] EXCEPT !.revoked = TRUE]
      BY <2>1, <2>3 DEF AccessTypeInv
    <3>2. /\ sessions'[s].revoked = TRUE
          /\ sessions'[s].email = sessions[s].email
          /\ DOMAIN sessions'[s] = DOMAIN sessions[s]
      BY <1>1, <3>1 DEF Session
    <3>3. DOMAIN NoSession = {"expires"} /\ "revoked" \in DOMAIN sessions[s]
      BY <1>1 DEF NoSession, Session
    <3>4. "revoked" \notin DOMAIN NoSession
      BY <3>3
    <3> QED
      BY <3>2, <3>3, <3>4 DEF Issued, Valid
  <2> QED
    BY <2>2, <2>3
<1>4. ASSUME NEW r \in Requests, NEW t \in Sessions, NEW email \in Emails, IssueSession(r, t, email)
      PROVE  /\ Issued(s)'
             /\ sessions'[s].email = sessions[s].email
             /\ ~Valid(s) => ~Valid(s)'
  <2>1. s # t /\ UNCHANGED clock
    BY <1>4 DEF IssueSession, fedVars
  <2>2. sessions'[s] = sessions[s]
    BY <1>4, <2>1 DEF IssueSession, AccessTypeInv
  <2> QED
    BY <2>1, <2>2 DEF Issued, Valid, Expired
<1>5. CASE Create
    BY <1>2, <1>5 DEF Create, WriteWorkspace, WriteKey, AdmitOwner, WriteSecurityGroup,
                      WriteFinanceGroup, WriteGroup, fedVars
<1>6. CASE Elsewhere
    BY <1>2, <1>6 DEF Elsewhere
<1>7. ASSUME NEW r \in Requests,
             \/ \E k \in Keys, auth \in Authorization, op \in Operation : Arrive(r, k, auth, op)
             \/ Ended(r)
             \/ \E to \in Steps : Advanced(r, to)
             \/ \E k \in Keys : RotateKey(r, k)
             \/ RevokeKey(r)
             \/ SetMember(r)
      PROVE  UNCHANGED <<sessions, clock>>
    BY <1>7 DEF Arrive, Ended, Advanced, Rest, RotateKey, RevokeKey, SetMember, fedVars
<1> QED
    BY <1>2, <1>3, <1>4, <1>5, <1>6, <1>7, AccessKinds

\* A key that has a row never loses it, and one that was revoked stays so.
LEMMA KeysLast ==
    ASSUME AccessTypeInv, [Next]_vars, NEW k \in Keys, keys[k] # "none", created = Complete
    PROVE  /\ keys'[k] # "none"
           /\ keys[k] = "revoked" => keys'[k] = "revoked"
           /\ created' = Complete
           /\ held \subseteq held'
<1>1. ~Create
    BY DEF Create, WriteWorkspace, WriteKey, AdmitOwner, WriteSecurityGroup, WriteFinanceGroup,
           Complete
<1>2. CASE Elsewhere \/ \E s \in Sessions : RevokeSession(s)
    BY <1>2 DEF Elsewhere, RevokeSession
<1>3. ASSUME NEW r \in Requests,
             \/ \E a \in Keys, auth \in Authorization, op \in Operation : Arrive(r, a, auth, op)
             \/ Ended(r)
             \/ \E to \in Steps : Advanced(r, to)
             \/ SetMember(r)
             \/ \E s \in Sessions, email \in Emails : IssueSession(r, s, email)
      PROVE  UNCHANGED <<keys, created, held>>
    BY <1>3 DEF Arrive, Ended, Advanced, Rest, SetMember, IssueSession
<1>4. ASSUME NEW r \in Requests, NEW n \in Keys, RotateKey(r, n)
      PROVE  /\ keys'[k] = keys[k] /\ created' = created
             /\ held \subseteq held'
    BY <1>4 DEF RotateKey, AccessTypeInv
<1>5. ASSUME NEW r \in Requests, RevokeKey(r)
      PROVE  /\ keys'[k] \in {keys[k], "revoked"} /\ created' = created
             /\ held \subseteq held'
    BY <1>5 DEF RevokeKey, AccessTypeInv
<1> QED
    BY <1>1, <1>2, <1>3, <1>4, <1>5, AccessKinds

LEMMA AccessTypeInit == Init => AccessTypeInv
<1> SUFFICES ASSUME Init PROVE AccessTypeInv
    OBVIOUS
<1>1. RbacTypeOK
    BY RbacAssumption DEF Init, RbacInit, RbacTypeOK
<1>2. load \in Load
    BY AccessAssumption DEF Init
<1>3. /\ created = 0 /\ held = {} /\ overlapped = FALSE
      /\ keys = [k \in Keys |-> "none"]
      /\ sessions = [s \in Sessions |-> NoSession]
      /\ at = [r \in Requests |-> Idle]
    BY DEF Init
<1>4. created \in 0 .. Complete /\ created # 1 /\ created \notin 2 .. Complete
    BY <1>3 DEF Complete
<1>5. /\ keys \in [Keys -> KeyStatuses]
      /\ sessions \in [Sessions -> Session \cup {NoSession}]
    BY <1>3 DEF KeyStatuses
<1>6. at \in [Requests -> Req \cup {Idle}] /\ \A r \in Requests : at[r] = Idle
    BY <1>3
<1> QED
    BY <1>1, <1>2, <1>3, <1>4, <1>5, <1>6 DEF AccessTypeInv

LEMMA CreateTypeStep == AccessTypeInv /\ Create => AccessTypeInv'
<1> SUFFICES ASSUME AccessTypeInv, Create PROVE AccessTypeInv'
    OBVIOUS
<1> USE AccessAssumption
<1>1. created # Complete /\ held = {} /\ \A r \in Requests : at[r] = Idle
    BY DEF Create, WriteWorkspace, WriteKey, AdmitOwner, WriteSecurityGroup, WriteFinanceGroup,
           AccessTypeInv, Complete
<1>2. UNCHANGED <<load, sessions, at, overlapped>>
    BY DEF Create, WriteWorkspace, WriteKey, AdmitOwner, WriteSecurityGroup, WriteFinanceGroup,
           WriteGroup
<1>3. ASSUME RbacTypeOK', created' \in 0 .. Complete, keys' \in [Keys -> KeyStatuses],
             created' # Complete => held' = {},
             held' \subseteq {FirstKey},
             created' = 1 /\ load.legacy => keys'[FirstKey] = "legacy",
             created' \in 2 .. Complete => keys'[FirstKey] # "none",
             created' = Complete \/ held' = {}
      PROVE  AccessTypeInv'
  <2>1. held' \subseteq {k \in Keys : keys'[k] # "none"}
    BY <1>3 DEF Complete
  <2>2. \A r \in Requests : at'[r] = Idle
    BY <1>1, <1>2
  <2> QED
    BY <1>2, <1>3, <2>1, <2>2 DEF AccessTypeInv
<1>4. CASE WriteWorkspace
  <2>1. keys' \in [Keys -> KeyStatuses] /\ (load.legacy => keys'[FirstKey] = "legacy")
    BY <1>4 DEF WriteWorkspace, AccessTypeInv, KeyStatuses
  <2>2. created' = 1 /\ held' = {} /\ RbacTypeOK'
    BY <1>1, <1>4 DEF WriteWorkspace, AccessTypeInv, RbacTypeOK, rbacVars
  <2> QED
    BY <1>3, <2>1, <2>2 DEF Complete
<1>5. CASE WriteKey
  <2>1. keys' \in [Keys -> KeyStatuses] /\ keys'[FirstKey] # "none"
    BY <1>5 DEF WriteKey, AccessTypeInv, KeyStatuses
  <2>2. created' = 2 /\ held' = {} /\ RbacTypeOK'
    BY <1>1, <1>5 DEF WriteKey, AccessTypeInv, RbacTypeOK, rbacVars
  <2> QED
    BY <1>3, <2>1, <2>2 DEF Complete
<1>6. CASE AdmitOwner
  <2>1. created = 2 /\ created' = 3 /\ held' = {} /\ keys' = keys
    BY <1>1, <1>6 DEF AdmitOwner
  <2>2. RbacTypeOK'
    BY <1>6 DEF AdmitOwner, AccessTypeInv, RbacTypeOK, VALID_ROLES
  <2> QED
    BY <1>3, <2>1, <2>2 DEF AccessTypeInv, Complete
<1>7. ASSUME NEW g, NEW groupRoles \in SUBSET VALID_ROLES, WriteGroup(g, groupRoles),
             created \in {3, 4}, held' \subseteq {FirstKey}, created = 3 => held' = {}
      PROVE  AccessTypeInv'
  <2>1. created' = created + 1 /\ keys' = keys /\ roles' = roles
    BY <1>7 DEF WriteGroup
  <2>2. [roles |-> groupRoles, members |-> {OwnerEmail}, min |-> 1] \in Group
    BY DEF Group
  <2>3. groups' \in [GroupNames -> Group \cup {NoGroup}]
    BY <1>7, <2>2 DEF WriteGroup, AccessTypeInv, RbacTypeOK
  <2> QED
    BY <1>3, <1>7, <2>1, <2>3 DEF AccessTypeInv, RbacTypeOK, Complete
<1>8. CASE WriteSecurityGroup
    BY <1>1, <1>7, <1>8 DEF WriteSecurityGroup, VALID_ROLES
<1>9. CASE WriteFinanceGroup
    BY <1>7, <1>9 DEF WriteFinanceGroup, VALID_ROLES
<1> QED
    BY <1>4, <1>5, <1>6, <1>8, <1>9 DEF Create

\* A step leaves every request with a key somebody holds and the session that
\* it named.
LEMMA TypesGoOn ==
    ASSUME AccessTypeInv, FedTypeInv, [Next]_vars,
           RbacTypeOK', load' \in Load, load'.legacy = load.legacy,
           keys' \in [Keys -> KeyStatuses],
           held' \subseteq {k \in Keys : keys'[k] # "none"},
           sessions' \in [Sessions -> Session \cup {NoSession}],
           at' \in [Requests -> Req \cup {Idle}],
           overlapped' \in BOOLEAN,
           created' = created,
           created # Complete => UNCHANGED <<keys, held, at>>,
           \A r \in Requests : at'[r] # Idle =>
                \/ at[r] # Idle /\ at'[r].key = at[r].key /\ at'[r].auth = at[r].auth
                \/ /\ at'[r].key \in held'
                   /\ at'[r].auth.kind = "session" => sessions'[at'[r].auth.session] # NoSession
    PROVE  AccessTypeInv'
<1> USE AccessAssumption
<1>1. created = Complete => keys'[FirstKey] # "none"
    BY KeysLast DEF AccessTypeInv, Complete
<1>2. ASSUME NEW r \in Requests, at'[r] # Idle
      PROVE  /\ at'[r].key \in held'
             /\ at'[r].auth.kind = "session" => sessions'[at'[r].auth.session] # NoSession
  <2>1. CASE at[r] # Idle /\ at'[r].key = at[r].key /\ at'[r].auth = at[r].auth
    <3>1. at[r].key \in held /\ at[r].key \in Keys /\ keys[at[r].key] # "none" /\ created = Complete
      BY <2>1, ReqShape DEF AccessTypeInv
    <3>2. at'[r].key \in held'
      BY <2>1, <3>1, KeysLast
    <3>3. ASSUME at[r].auth.kind = "session"
          PROVE  sessions'[at[r].auth.session] # NoSession
      <4>1. PICK s \in Sessions : s = at[r].auth.session
        BY <2>1, <3>3, ReqShape
      <4>2. Issued(s)
        BY <2>1, <3>3, <4>1 DEF AccessTypeInv
      <4>3. Issued(s)'
        BY <4>2, SessionsLast
      <4> QED
        BY <4>1, <4>3 DEF Issued
    <3> QED
      BY <2>1, <3>2, <3>3
  <2> QED
    BY <1>2, <2>1
<1>3. created # Complete => held' = {} /\ \A r \in Requests : at'[r] = Idle
    BY DEF AccessTypeInv
<1>4. created = 1 /\ load.legacy => keys'[FirstKey] = "legacy"
    BY DEF AccessTypeInv, Complete
<1>5. created \in 2 .. Complete => keys'[FirstKey] # "none"
    BY <1>1 DEF AccessTypeInv
<1>6. \A r \in Requests : at'[r] # Idle =>
        /\ at'[r].key \in held'
        /\ at'[r].auth.kind = "session" => Issued(at[r].auth.session)'
    BY <1>2 DEF Issued
<1>7. created' \in 0 .. Complete
    BY DEF AccessTypeInv
<1> QED
    BY <1>3, <1>4, <1>5, <1>6, <1>7 DEF AccessTypeInv

LEMMA AccessTypeStep == AccessTypeInv /\ FedTypeInv /\ [Next]_vars => AccessTypeInv'
<1> SUFFICES ASSUME AccessTypeInv, FedTypeInv, [Next]_vars PROVE AccessTypeInv'
    OBVIOUS
<1> USE AccessAssumption
<1>1. CASE Create
    BY <1>1, CreateTypeStep
<1>2. CASE Elsewhere
  <2>1. load' \in Load /\ load'.legacy = load.legacy
    BY <1>2 DEF Elsewhere, AccessTypeInv, Load
  <2>2. RbacTypeOK'
    BY <1>2 DEF Elsewhere, AccessTypeInv, RbacTypeOK
  <2> QED
    BY <1>2, <2>1, <2>2, TypesGoOn DEF Elsewhere, AccessTypeInv
<1>3. ASSUME NEW s \in Sessions, RevokeSession(s)
      PROVE  AccessTypeInv'
  <2>1. load' \in Load /\ load'.legacy = load.legacy
    BY <1>3 DEF RevokeSession, AccessTypeInv, Load
  <2>2. RbacTypeOK'
    BY <1>3 DEF RevokeSession, AccessTypeInv, RbacTypeOK, rbacVars
  <2>3. sessions[s] \in Session
    BY <1>3 DEF RevokeSession, Issued, AccessTypeInv
  <2>4. [sessions[s] EXCEPT !.revoked = TRUE] \in Session
    BY <2>3 DEF Session
  <2>5. sessions' = [sessions EXCEPT ![s] = [sessions[s] EXCEPT !.revoked = TRUE]]
    BY <1>3 DEF RevokeSession
  <2>6. sessions' \in [Sessions -> Session \cup {NoSession}]
    BY <2>4, <2>5 DEF AccessTypeInv
  <2>7. UNCHANGED <<created, keys, held, at, overlapped>>
    BY <1>3 DEF RevokeSession
  <2> QED
    BY <2>1, <2>2, <2>6, <2>7, TypesGoOn DEF AccessTypeInv
<1>4. ASSUME NEW r \in Requests, NEW k \in Keys, NEW auth \in Authorization,
             NEW op \in Operation, Arrive(r, k, auth, op)
      PROVE  AccessTypeInv'
  <2>1. load' \in Load /\ load'.legacy = load.legacy
    BY <1>4 DEF Arrive, AccessTypeInv, Load
  <2>2. RbacTypeOK' /\ UNCHANGED <<created, keys, held, sessions, overlapped>>
    BY <1>4 DEF Arrive, AccessTypeInv, RbacTypeOK, rbacVars
  <2>3. k \in held /\ (auth.kind = "session" => sessions[auth.session] # NoSession)
    BY <1>4 DEF Arrive, Issued
  <2>4. created = Complete
    BY <2>3 DEF AccessTypeInv
  <2>5. /\ at' \in [Requests -> Req \cup {Idle}]
        /\ at'[r].key = k /\ at'[r].auth = auth
        /\ \A q \in Requests : q # r => at'[q] = at[q]
    BY <1>4, ArrivesAt
  <2> QED
    BY <2>1, <2>2, <2>3, <2>4, <2>5, TypesGoOn DEF AccessTypeInv
<1>5. ASSUME NEW r \in Requests, Ended(r)
      PROVE  AccessTypeInv'
  <2>1. RbacTypeOK' /\ UNCHANGED <<load, created, keys, held, sessions, overlapped>>
    BY <1>5 DEF Ended, Rest, AccessTypeInv, RbacTypeOK
  <2>2. created = Complete
    BY <1>5, ReqShape DEF Ended
  <2> QED
    BY <1>5, <2>1, <2>2, EndsAt, TypesGoOn DEF AccessTypeInv, Ended
<1>6. ASSUME NEW r \in Requests, NEW to \in Steps, Advanced(r, to)
      PROVE  AccessTypeInv'
  <2>1. RbacTypeOK' /\ UNCHANGED <<load, created, keys, held, sessions, overlapped>>
    BY <1>6 DEF Advanced, Rest, AccessTypeInv, RbacTypeOK
  <2>2. created = Complete /\ at[r] # Idle
    BY <1>6, ReqShape DEF Advanced
  <2>3. /\ at' \in [Requests -> Req \cup {Idle}]
        /\ at'[r].key = at[r].key /\ at'[r].auth = at[r].auth
        /\ \A q \in Requests : q # r => at'[q] = at[q]
    BY <1>6, AdvancesAt DEF Advanced
  <2> QED
    BY <2>1, <2>2, <2>3, TypesGoOn DEF AccessTypeInv
<1>7. ASSUME NEW r \in Requests, at[r] # Idle, End(r),
             UNCHANGED <<groups, load, created>>, RbacTypeOK',
             keys' \in [Keys -> KeyStatuses],
             held' \subseteq {k \in Keys : keys'[k] # "none"},
             sessions' \in [Sessions -> Session \cup {NoSession}],
             overlapped' \in BOOLEAN
      PROVE  AccessTypeInv'
  <2>1. created = Complete /\ load \in Load
    BY <1>7, ReqShape DEF AccessTypeInv
  <2>2. /\ at' \in [Requests -> Req \cup {Idle}]
        /\ at'[r] = Idle
        /\ \A q \in Requests : q # r => at'[q] = at[q]
    BY <1>7, EndsAt
  <2> QED
    BY <1>7, <2>1, <2>2, TypesGoOn
<1>8. ASSUME NEW r \in Requests, NEW k \in Keys, RotateKey(r, k)
      PROVE  AccessTypeInv'
  <2>1. at[r] # Idle /\ End(r) /\ UNCHANGED <<roles, groups, load, created, sessions, overlapped>>
    BY <1>8 DEF RotateKey, Operating, At, Idle, rbacVars
  <2>2. keys' = [keys EXCEPT ![k] = "active"] /\ held' \subseteq held \cup {k}
    BY <1>8 DEF RotateKey
  <2>3. keys' \in [Keys -> KeyStatuses] /\ held' \subseteq {a \in Keys : keys'[a] # "none"}
    BY <2>2 DEF AccessTypeInv, KeyStatuses
  <2> QED
    BY <1>7, <2>1, <2>3 DEF AccessTypeInv, RbacTypeOK
<1>9. ASSUME NEW r \in Requests, RevokeKey(r)
      PROVE  AccessTypeInv'
  <2>1. at[r] # Idle /\ End(r) /\ UNCHANGED <<roles, groups, load, created, held, sessions>>
    BY <1>9 DEF RevokeKey, Operating, At, Idle, rbacVars
  <2>2. keys' = keys \/ keys' = [keys EXCEPT ![at[r].op.key] = "revoked"]
    BY <1>9 DEF RevokeKey
  <2>3. keys' \in [Keys -> KeyStatuses] /\ held \subseteq {a \in Keys : keys'[a] # "none"}
    BY <2>2 DEF AccessTypeInv, KeyStatuses
  <2>4. overlapped' \in BOOLEAN
    BY <1>9 DEF RevokeKey, AccessTypeInv
  <2> QED
    BY <1>7, <2>1, <2>3, <2>4 DEF AccessTypeInv, RbacTypeOK
<1>10. ASSUME NEW r \in Requests, SetMember(r)
       PROVE  AccessTypeInv'
  <2>1. at[r] # Idle /\ at[r].op.kind = "member"
        /\ UNCHANGED <<groups, load, created, keys, held, sessions, overlapped>>
    BY <1>10 DEF SetMember, Operating, At, Idle
  <2>2. at[r].op.email \in Emails /\ at[r].op.role \in AssignableRoles
    BY <2>1, ReqShape DEF Req, Operation
  <2>3. RbacTypeOK'
    BY <1>10, <2>1, <2>2, RbacAssumption DEF SetMember, AccessTypeInv, RbacTypeOK
  <2>4. created = Complete
    BY <2>1, ReqShape
  <2>5. /\ at' \in [Requests -> Req \cup {Idle}]
        /\ \A q \in Requests : at'[q] # Idle =>
                at[q] # Idle /\ at'[q].key = at[q].key /\ at'[q].auth = at[q].auth
    BY <1>10, MembersAt
  <2> QED
    BY <2>1, <2>3, <2>4, <2>5, TypesGoOn DEF AccessTypeInv
<1>11. ASSUME NEW r \in Requests, NEW s \in Sessions, NEW email \in Emails,
              IssueSession(r, s, email)
       PROVE  AccessTypeInv'
  <2>1. at[r] # Idle /\ End(r) /\ UNCHANGED <<roles, groups, load, created, keys, held, overlapped>>
    BY <1>11 DEF IssueSession, Operating, At, Idle, rbacVars
  <2>2. roles[email] \in VALID_ROLES /\ clock + Ttl \in Nat
    BY <1>11, FedTypes DEF IssueSession, AccessTypeInv, RbacTypeOK
  <2>3. [email |-> email, role |-> roles[email], expires |-> clock + Ttl, revoked |-> FALSE]
            \in Session
    BY <2>2 DEF Session
  <2>4. sessions' \in [Sessions -> Session \cup {NoSession}]
    BY <1>11, <2>3 DEF IssueSession, AccessTypeInv
  <2> QED
    BY <1>7, <2>1, <2>4 DEF AccessTypeInv, RbacTypeOK
<1> QED
    BY <1>1, <1>2, <1>3, <1>4, <1>5, <1>6, <1>8, <1>9, <1>10, <1>11, AccessKinds

-----------------------------------------------------------------------------
(* What a request may still do. Whatever barred one when it arrived lasts   *)
(* until the guard that looks at it.                                        *)

StaleSession(auth) == auth.kind = "session" /\ ~Valid(auth.session)

CredInv ==
    \A r \in Requests : at[r] # Idle =>
        /\ At(r, "arrived") /\ at[r].barred
            => keys[at[r].key] = "revoked" \/ StaleSession(at[r].auth)
        /\ At(r, "keyed") /\ at[r].barred => StaleSession(at[r].auth)
        /\ at[r].barred => At(r, "arrived") \/ At(r, "keyed")
        /\ Allowed(at[r].auth, at[r].op) => at[r].could
        /\ At(r, "authorized") \/ At(r, "chosen") => at[r].could

LEMMA CredInit == Init => CredInv
BY DEF Init, CredInv

\* What barred a request lasts.
LEMMA BarsLast ==
    ASSUME AccessTypeInv, FedTypeInv, [Next]_vars, NEW r \in Requests, at[r] # Idle,
           at'[r].key = at[r].key, at'[r].auth = at[r].auth
    PROVE  /\ keys[at[r].key] = "revoked" => keys'[at'[r].key] = "revoked"
           /\ StaleSession(at[r].auth) => StaleSession(at[r].auth)'
<1>1. keys[at[r].key] = "revoked" => keys'[at'[r].key] = "revoked"
    BY KeysLast, ReqShape
<1>2. ASSUME at[r].auth.kind = "session"
      PROVE  ~Valid(at[r].auth.session) => ~Valid(at[r].auth.session)'
  <2>1. PICK s \in Sessions : s = at[r].auth.session
    BY <1>2, ReqShape
  <2>2. Issued(s)
    BY <1>2, <2>1 DEF AccessTypeInv
  <2>3. ~Valid(s) => ~Valid(s)'
    BY <2>2, SessionsLast
  <2> QED
    BY <2>1, <2>3 DEF Valid, Expired
<1> QED
    BY <1>1, <1>2 DEF StaleSession

\* An actor is allowed nothing new unless its row is written.
LEMMA AllowedLasts ==
    ASSUME AccessTypeInv, FedTypeInv, [Next]_vars, UNCHANGED roles,
           NEW r \in Requests, at[r] # Idle, at'[r].auth = at[r].auth, at'[r].op = at[r].op
    PROVE  Allowed(at[r].auth, at[r].op)' => Allowed(at[r].auth, at[r].op)
<1>1. Actor(at[r].auth)' = Actor(at[r].auth)
  <2>1. CASE at[r].auth.kind = "session"
    <3>1. PICK s \in Sessions : s = at[r].auth.session
      BY <2>1, ReqShape
    <3>2. Issued(s)
      BY <2>1, <3>1 DEF AccessTypeInv
    <3>3. sessions'[s].email = sessions[s].email
      BY <3>2, SessionsLast
    <3> QED
      BY <2>1, <3>1, <3>3 DEF Actor
  <2>2. CASE at[r].auth.kind # "session"
    BY <2>2 DEF Actor
  <2> QED
    BY <2>1, <2>2
<1>2. Capability(at[r].op)' = Capability(at[r].op)
    BY DEF Capability
<1> QED
    BY <1>1, <1>2 DEF Allowed, Can

\* A request keeps what it has while it stays where it is.
Waits(r) ==
    /\ at'[r] # Idle => at[r] # Idle
    /\ at'[r] # Idle => at'[r] = at[r]

LEMMA WaitingCred ==
    ASSUME AccessTypeInv, FedTypeInv, CredInv, [Next]_vars, UNCHANGED roles,
           NEW r \in Requests, Waits(r), at'[r] # Idle
    PROVE  /\ At(r, "arrived")' /\ at'[r].barred
                => keys'[at'[r].key] = "revoked" \/ StaleSession(at[r].auth)'
           /\ At(r, "keyed")' /\ at'[r].barred => StaleSession(at[r].auth)'
           /\ at'[r].barred => At(r, "arrived")' \/ At(r, "keyed")'
           /\ Allowed(at[r].auth, at[r].op)' => at'[r].could
           /\ At(r, "authorized")' \/ At(r, "chosen")' => at'[r].could
<1>1. at[r] # Idle /\ at'[r] = at[r]
    BY DEF Waits
<1>2. \A pc : At(r, pc)' <=> At(r, pc)
    BY <1>1 DEF At
<1>3. at'[r].key = at[r].key /\ at'[r].auth = at[r].auth /\ at'[r].op = at[r].op
      /\ at'[r].barred = at[r].barred /\ at'[r].could = at[r].could
    BY <1>1
<1>4. Allowed(at[r].auth, at[r].op)' => at[r].could
    BY <1>1, <1>3, AllowedLasts DEF CredInv
<1> QED
    BY <1>1, <1>2, <1>3, <1>4, BarsLast DEF CredInv

LEMMA CredWaits ==
    ASSUME AccessTypeInv, FedTypeInv, CredInv, [Next]_vars, UNCHANGED roles,
           \A r \in Requests : Waits(r)
    PROVE  CredInv'
BY WaitingCred DEF CredInv

LEMMA CredArrive ==
    ASSUME AccessTypeInv, FedTypeInv, CredInv, [Next]_vars, NEW r \in Requests, NEW k \in Keys,
           NEW auth \in Authorization, NEW op \in Operation, Arrive(r, k, auth, op)
    PROVE  CredInv'
<1>1. UNCHANGED <<roles, keys, sessions, clock>> /\ k \in held
    BY DEF Arrive, fedVars, rbacVars
<1>2. \A q \in Requests : q # r => Waits(q)
    BY ArrivesAt DEF Waits
<1>3. /\ At(r, "arrived")'
      /\ ~At(r, "keyed")' /\ ~At(r, "authorized")' /\ ~At(r, "chosen")'
    BY ArrivesAt DEF At
<1>4. at'[r].barred => keys'[at'[r].key] = "revoked" \/ StaleSession(at[r].auth)'
  <2>1. ~Usable(k) => keys[k] = "revoked"
    BY <1>1 DEF Usable, AccessTypeInv, KeyStatuses
  <2>2. ~Valid(auth.session) => ~Valid(auth.session)'
    BY <1>1 DEF Valid, Expired
  <2> QED
    BY <1>1, <2>1, <2>2, ArrivesAt DEF StaleSession, Valid, Expired
<1>5. Allowed(at[r].auth, at[r].op)' => at'[r].could
  <2>1. Allowed(auth, op)' => Allowed(auth, op)
    BY <1>1 DEF Allowed, Can, Actor, Capability
  <2>2. at'[r].auth = auth /\ at'[r].op = op
    BY ArrivesAt
  <2>3. Allowed(at[r].auth, at[r].op)' => Allowed(auth, op)'
    BY <2>2 DEF Allowed, Can, Actor, Capability
  <2> QED
    BY <2>1, <2>3, ArrivesAt
<1>6. ASSUME NEW q \in Requests, at'[q] # Idle
      PROVE  /\ At(q, "arrived")' /\ at'[q].barred
                => keys'[at'[q].key] = "revoked" \/ StaleSession(at[q].auth)'
             /\ At(q, "keyed")' /\ at'[q].barred => StaleSession(at[q].auth)'
             /\ at'[q].barred => At(q, "arrived")' \/ At(q, "keyed")'
             /\ Allowed(at[q].auth, at[q].op)' => at'[q].could
             /\ At(q, "authorized")' \/ At(q, "chosen")' => at'[q].could
  <2>1. CASE q = r
    BY <1>3, <1>4, <1>5, <2>1
  <2>2. CASE q # r
    BY <1>1, <1>2, <1>6, <2>2, WaitingCred
  <2> QED
    BY <2>1, <2>2
<1> QED
    BY <1>6 DEF CredInv

LEMMA CredAdvance ==
    ASSUME AccessTypeInv, FedTypeInv, CredInv, [Next]_vars, NEW r \in Requests, NEW to \in Steps,
           Advanced(r, to)
    PROVE  CredInv'
<1>1. UNCHANGED <<roles, keys, sessions, clock>> /\ at[r] # Idle /\ Gate(r, to)
    BY DEF Advanced, Rest
<1>2. /\ at'[r].pc = to
      /\ at'[r].key = at[r].key /\ at'[r].auth = at[r].auth /\ at'[r].op = at[r].op
      /\ at'[r].barred = at[r].barred /\ at'[r].could = at[r].could
      /\ \A q \in Requests : q # r => at'[q] = at[q]
    BY AdvancesAt DEF Advanced
<1>3. \A q \in Requests : q # r => Waits(q)
    BY <1>2 DEF Waits
<1>4. ~At(r, "arrived")'
    BY <1>1, <1>2 DEF Gate, At
<1>5. StaleSession(at[r].auth) => StaleSession(at[r].auth)'
    BY <1>1, <1>2, BarsLast
<1>6. Allowed(at[r].auth, at[r].op)' => at'[r].could
    BY <1>1, <1>2, AllowedLasts DEF CredInv
<1>7. At(r, "keyed")' /\ at'[r].barred => StaleSession(at[r].auth)'
  <2>1. At(r, "keyed")' => At(r, "arrived") /\ Usable(at[r].key)
    BY <1>1, <1>2 DEF Gate, At
  <2>2. Usable(at[r].key) => keys[at[r].key] # "revoked"
    BY DEF Usable
  <2> QED
    BY <1>1, <1>2, <1>5, <2>1, <2>2 DEF CredInv
<1>8. at'[r].barred => At(r, "keyed")'
  <2> SUFFICES ASSUME at[r].barred PROVE At(r, "keyed")'
    BY <1>2
  <2>1. At(r, "arrived") \/ At(r, "keyed")
    BY <1>1 DEF CredInv
  <2>2. ~At(r, "keyed")
    <3> SUFFICES ASSUME At(r, "keyed") PROVE FALSE
      OBVIOUS
    <3>1. at[r].auth.kind = "session" /\ ~Valid(at[r].auth.session)
      BY <1>1 DEF CredInv, StaleSession
    <3> QED
      BY <1>1, <3>1 DEF Gate, At
  <2> QED
    BY <1>1, <1>2, <2>1, <2>2 DEF Gate, At
<1>9. At(r, "authorized")' \/ At(r, "chosen")' => at'[r].could
  <2>1. At(r, "authorized")' => Allowed(at[r].auth, at[r].op)
    BY <1>1, <1>2 DEF Gate, At
  <2>2. At(r, "chosen")' => At(r, "authorized")
    BY <1>1, <1>2 DEF Gate, At
  <2> QED
    BY <1>1, <1>2, <2>1, <2>2 DEF CredInv
<1>10. ASSUME NEW q \in Requests, at'[q] # Idle
       PROVE  /\ At(q, "arrived")' /\ at'[q].barred
                => keys'[at'[q].key] = "revoked" \/ StaleSession(at[q].auth)'
              /\ At(q, "keyed")' /\ at'[q].barred => StaleSession(at[q].auth)'
              /\ at'[q].barred => At(q, "arrived")' \/ At(q, "keyed")'
              /\ Allowed(at[q].auth, at[q].op)' => at'[q].could
              /\ At(q, "authorized")' \/ At(q, "chosen")' => at'[q].could
  <2>1. CASE q = r
    BY <1>4, <1>6, <1>7, <1>8, <1>9, <2>1
  <2>2. CASE q # r
    BY <1>1, <1>3, <1>10, <2>2, WaitingCred
  <2> QED
    BY <2>1, <2>2
<1> QED
    BY <1>10 DEF CredInv

\* Who gains a capability while a request of theirs is in progress could do it.
LEMMA CredMember ==
    ASSUME AccessTypeInv, FedTypeInv, CredInv, [Next]_vars, NEW r \in Requests, SetMember(r)
    PROVE  CredInv'
<1>1. /\ UNCHANGED <<keys, sessions, clock>>
      /\ roles' = [roles EXCEPT ![at[r].op.email] = at[r].op.role]
      /\ at[r] # Idle /\ at[r].op.kind = "member"
    BY DEF SetMember, Operating, At, Idle, fedVars
<1>2. at[r].op.email \in Emails /\ at[r].op.role \in VALID_ROLES
    BY <1>1, ReqShape, RbacAssumption DEF Req, Operation
<1>3. roles'[at[r].op.email] = at[r].op.role
      /\ \A e \in Emails : e # at[r].op.email => roles'[e] = roles[e]
    BY <1>1, <1>2 DEF AccessTypeInv, RbacTypeOK
<1>4. ASSUME NEW q \in Requests, at'[q] # Idle
      PROVE  /\ At(q, "arrived")' /\ at'[q].barred
                => keys'[at'[q].key] = "revoked" \/ StaleSession(at[q].auth)'
             /\ At(q, "keyed")' /\ at'[q].barred => StaleSession(at[q].auth)'
             /\ at'[q].barred => At(q, "arrived")' \/ At(q, "keyed")'
             /\ Allowed(at[q].auth, at[q].op)' => at'[q].could
             /\ At(q, "authorized")' \/ At(q, "chosen")' => at'[q].could
  <2>1. /\ q # r /\ at[q] # Idle
        /\ at'[q].pc = at[q].pc
        /\ at'[q].key = at[q].key /\ at'[q].auth = at[q].auth /\ at'[q].op = at[q].op
        /\ at'[q].barred = at[q].barred
    BY <1>4, MembersAt
  <2>2. at'[q].could <=> \/ at[q].could
                         \/ /\ Actor(at[q].auth) = at[r].op.email
                            /\ Capability(at[q].op) \in ROLE_CAPABILITIES[at[r].op.role]
    BY <1>4, <2>1, MembersAt
  <2>3. \A pc : At(q, pc)' <=> At(q, pc)
    BY <2>1 DEF At
  <2>4. Actor(at[q].auth) \in Emails
    <3>1. at[q].auth \in Authorization
      BY <2>1, ReqShape DEF Req
    <3>2. CASE at[q].auth.kind = "session"
      <4>1. at[q].auth.session \in Sessions /\ Issued(at[q].auth.session)
        BY <2>1, <3>2, ReqShape DEF AccessTypeInv
      <4> QED
        BY <3>2, <4>1 DEF Actor, Issued, AccessTypeInv, Session
    <3>3. CASE at[q].auth.kind # "session"
      BY <3>1, <3>3 DEF Actor, Authorization
    <3> QED
      BY <3>2, <3>3
  <2>5. Allowed(at[q].auth, at[q].op)' => at'[q].could
    <3>1. /\ Actor(at[q].auth)' = Actor(at[q].auth)
          /\ Capability(at[q].op)' = Capability(at[q].op)
      BY <1>1, <2>1 DEF Actor, Capability
    <3>2. CASE Actor(at[q].auth) = at[r].op.email
      BY <1>3, <2>1, <2>2, <3>1, <3>2 DEF Allowed, Can, CredInv
    <3>3. CASE Actor(at[q].auth) # at[r].op.email
      BY <1>3, <2>1, <2>2, <2>4, <3>1, <3>3 DEF Allowed, Can, CredInv
    <3> QED
      BY <3>2, <3>3
  <2> QED
    BY <2>1, <2>2, <2>3, <2>5, BarsLast DEF CredInv
<1> QED
    BY <1>4 DEF CredInv

LEMMA CredStep == AccessTypeInv /\ FedTypeInv /\ CredInv /\ [Next]_vars => CredInv'
<1> SUFFICES ASSUME AccessTypeInv, FedTypeInv, CredInv, [Next]_vars PROVE CredInv'
    OBVIOUS
<1>1. CASE Create
  <2>1. \A r \in Requests : at'[r] = Idle
    BY <1>1 DEF Create, WriteWorkspace, WriteKey, AdmitOwner, WriteSecurityGroup,
                WriteFinanceGroup, WriteGroup, AccessTypeInv, Complete
  <2> QED
    BY <2>1 DEF CredInv
<1>2. CASE Elsewhere \/ \E s \in Sessions : RevokeSession(s)
    BY <1>2, CredWaits DEF Elsewhere, RevokeSession, rbacVars, Waits
<1>3. ASSUME NEW r \in Requests, End(r), UNCHANGED roles
      PROVE  CredInv'
  <2>1. \A q \in Requests : Waits(q)
    BY <1>3, EndsAt DEF Waits
  <2> QED
    BY <1>3, <2>1, CredWaits
<1>4. ASSUME NEW r \in Requests,
             \/ Ended(r)
             \/ \E k \in Keys : RotateKey(r, k)
             \/ RevokeKey(r)
             \/ \E s \in Sessions, email \in Emails : IssueSession(r, s, email)
      PROVE  End(r) /\ UNCHANGED roles
    BY <1>4 DEF Ended, Rest, RotateKey, RevokeKey, IssueSession, rbacVars
<1> QED
    BY <1>1, <1>2, <1>3, <1>4, CredArrive, CredAdvance, CredMember, AccessKinds

-----------------------------------------------------------------------------
(* The keys of the workspace. A revocation holds a key that is still usable *)
(* unless another revocation was in progress beside it, and one that is to  *)
(* revoke its own key has seen another.                                     *)

SomeUsable == \E k \in Keys : Usable(k)

ReachInv ==
    /\ created \in 2 .. Complete => overlapped \/ SomeUsable
    /\ \A r \in Requests : Revoking(r) => overlapped \/ Usable(at[r].key)
    /\ \A r \in Requests :
        At(r, "chosen") =>
            /\ at[r].op.kind = "revoke"
            /\ \/ overlapped
               \/ at[r].op.key # at[r].key
               \/ keys[at[r].key] = "legacy"
               \/ Alternatives(r) # {}

LEMMA ReachInit == Init => ReachInv
BY DEF Init, ReachInv, Complete, Revoking, At, Idle

LEMMA ReachCreate == AccessTypeInv /\ ReachInv /\ Create => ReachInv'
<1> SUFFICES ASSUME AccessTypeInv, ReachInv, Create PROVE ReachInv'
    OBVIOUS
<1> USE AccessAssumption
<1>1. created # Complete /\ \A r \in Requests : at'[r] = Idle
    BY DEF Create, WriteWorkspace, WriteKey, AdmitOwner, WriteSecurityGroup, WriteFinanceGroup,
           WriteGroup, AccessTypeInv, Complete
<1>2. created' \in 2 .. Complete => SomeUsable' \/ overlapped'
  <2>1. CASE WriteWorkspace
    BY <2>1 DEF WriteWorkspace
  <2>2. CASE WriteKey
    <3>1. keys'[FirstKey] \in {"legacy", "active"}
      BY <2>2 DEF WriteKey, AccessTypeInv
    <3> QED
      BY <3>1 DEF SomeUsable, Usable
  <2>3. CASE AdmitOwner \/ WriteSecurityGroup \/ WriteFinanceGroup
    BY <2>3 DEF AdmitOwner, WriteSecurityGroup, WriteFinanceGroup, WriteGroup, ReachInv,
                SomeUsable, Usable, Complete
  <2> QED
    BY <2>1, <2>2, <2>3 DEF Create
<1> QED
    BY <1>1, <1>2 DEF ReachInv, Revoking, At, Idle

\* Where no key is touched, a revocation that goes on keeps what it has.
LEMMA ReachWaits ==
    ASSUME AccessTypeInv, ReachInv, UNCHANGED <<created, overlapped>>,
           \A k \in Keys : Usable(k) => Usable(k)',
           \A k \in Keys : keys[k] \in {"legacy", "active"} => keys'[k] = keys[k],
           \A r \in Requests : at'[r] # Idle /\ Revoking(r)' =>
                /\ at[r] # Idle
                /\ at'[r].key = at[r].key /\ at'[r].op = at[r].op
                /\ Revoking(r) \/ Usable(at[r].key)
                /\ At(r, "chosen")' => At(r, "chosen")
                    \/ at[r].op.key # at[r].key
                    \/ keys[at[r].key] = "legacy"
                    \/ Alternatives(r) # {},
           \A r \in Requests : At(r, "chosen")' => at'[r].op.kind = "revoke"
    PROVE  ReachInv'
<1>1. created' \in 2 .. Complete => overlapped' \/ SomeUsable'
    BY DEF ReachInv, SomeUsable
<1>2. ASSUME NEW r \in Requests, Revoking(r)'
      PROVE  overlapped' \/ Usable(at[r].key)'
  <2>1. at'[r] # Idle
    BY <1>2 DEF Revoking
  <2>2. at[r] # Idle /\ at'[r].key = at[r].key /\ (Revoking(r) \/ Usable(at[r].key))
    BY <1>2, <2>1
  <2>3. at[r].key \in Keys
    BY <2>2, ReqShape
  <2>4. overlapped \/ Usable(at[r].key)
    BY <2>2 DEF ReachInv
  <2>5. Usable(at[r].key) => keys'[at[r].key] \in {"legacy", "active"}
    BY <2>3 DEF Usable
  <2> QED
    BY <2>2, <2>4, <2>5 DEF Usable
<1>3. ASSUME NEW r \in Requests, At(r, "chosen")'
      PROVE  /\ at'[r].op.kind = "revoke"
             /\ \/ overlapped'
                \/ at'[r].op.key # at'[r].key
                \/ keys'[at'[r].key] = "legacy"
                \/ Alternatives(r)' # {}
  <2>1. at'[r] # Idle /\ at'[r].op.kind = "revoke" /\ Revoking(r)'
    BY <1>3 DEF At, Idle, Revoking
  <2>2. at[r] # Idle /\ at'[r].key = at[r].key /\ at'[r].op = at[r].op
    BY <2>1
  <2>3. \/ overlapped
        \/ at[r].op.key # at[r].key
        \/ keys[at[r].key] = "legacy"
        \/ Alternatives(r) # {}
    BY <1>3, <2>1 DEF ReachInv
  <2>4. at[r].key \in Keys
    BY <2>2, ReqShape
  <2>5. Alternatives(r) # {} => Alternatives(r)' # {}
    BY <2>2 DEF Alternatives
  <2> QED
    BY <2>1, <2>2, <2>3, <2>4, <2>5
<1> QED
    BY <1>1, <1>2, <1>3 DEF ReachInv

\* A revocation beside another is recorded; one alone leaves a usable key.
LEMMA ReachRevoke ==
    ASSUME AccessTypeInv, ReachInv, NEW r \in Requests, RevokeKey(r)
    PROVE  ReachInv'
<1>1. /\ At(r, "chosen") /\ at[r] # Idle /\ Revoking(r) /\ End(r) /\ UNCHANGED created
      /\ overlapped' = (overlapped \/ \E q \in Requests \ {r} : Revoking(q))
      /\ keys' = IF keys[at[r].op.key] = "active"
                 THEN [keys EXCEPT ![at[r].op.key] = "revoked"] ELSE keys
    BY DEF RevokeKey, Operating, At, Idle, Revoking
<1>2. /\ at'[r] = Idle
      /\ \A q \in Requests : q # r => at'[q] = at[q]
    BY <1>1, EndsAt
<1>3. \A q \in Requests : Revoking(q)' => q # r /\ Revoking(q)
    BY <1>2 DEF Revoking, At
<1>4. \A q \in Requests : Revoking(q)' => overlapped'
    BY <1>1, <1>3
<1>5. \A q \in Requests : At(q, "chosen")' => at'[q].op.kind = "revoke" /\ overlapped'
  <2> SUFFICES ASSUME NEW q \in Requests, At(q, "chosen")'
               PROVE  at'[q].op.kind = "revoke" /\ overlapped'
    OBVIOUS
  <2>1. q # r /\ at'[q] = at[q] /\ At(q, "chosen")
    BY <1>2 DEF At, Idle
  <2>2. at'[q].op.kind = "revoke" /\ at'[q] # Idle /\ ~At(q, "arrived")'
    BY <2>1 DEF ReachInv, At, Idle
  <2> QED
    BY <1>4, <2>2 DEF Revoking
<1>6. overlapped' \/ SomeUsable'
  <2> SUFFICES ASSUME ~overlapped' PROVE SomeUsable'
    OBVIOUS
  <2>1. ~overlapped /\ Usable(at[r].key) /\ at[r].key \in Keys
    BY <1>1, ReqShape DEF ReachInv
  <2>2. CASE keys[at[r].op.key] # "active" \/ at[r].op.key # at[r].key
    <3>1. keys'[at[r].key] = keys[at[r].key]
      BY <1>1, <2>1, <2>2 DEF AccessTypeInv
    <3> QED
      BY <2>1, <3>1 DEF SomeUsable, Usable
  <2>3. CASE keys[at[r].op.key] = "active" /\ at[r].op.key = at[r].key
    <3>1. PICK k \in Keys : k # at[r].key /\ keys[k] = "active"
      BY <1>1, <2>1, <2>3 DEF ReachInv, Alternatives
    <3>2. keys'[k] = "active"
      BY <1>1, <2>3, <3>1 DEF AccessTypeInv
    <3> QED
      BY <3>2 DEF SomeUsable, Usable
  <2> QED
    BY <2>2, <2>3
<1> QED
    BY <1>4, <1>5, <1>6 DEF ReachInv

LEMMA ReachStep == AccessTypeInv /\ ReachInv /\ [Next]_vars => ReachInv'
<1> SUFFICES ASSUME AccessTypeInv, ReachInv, [Next]_vars PROVE ReachInv'
    OBVIOUS
<1>1. ASSUME UNCHANGED <<created, overlapped, keys>>,
             \A r \in Requests : at'[r] = Idle \/ at'[r] = at[r]
      PROVE  ReachInv'
  <2>1. \A r \in Requests : at'[r] # Idle /\ Revoking(r)' => at'[r] = at[r] /\ Revoking(r)
    BY <1>1 DEF Revoking, At
  <2>2. \A r \in Requests : At(r, "chosen")' => At(r, "chosen") /\ at'[r].op.kind = "revoke"
    BY <1>1 DEF At, Idle, ReachInv
  <2> QED
    BY <1>1, <2>1, <2>2, ReachWaits DEF Usable
<1>2. CASE Elsewhere \/ \E s \in Sessions : RevokeSession(s)
    BY <1>1, <1>2 DEF Elsewhere, RevokeSession
<1>3. ASSUME NEW r \in Requests, NEW k \in Keys, NEW auth \in Authorization, NEW op \in Operation,
             Arrive(r, k, auth, op)
      PROVE  ReachInv'
  <2>1. UNCHANGED <<created, overlapped, keys>>
    BY <1>3 DEF Arrive
  <2>2. at'[r].pc = "arrived" /\ \A q \in Requests : q # r => at'[q] = at[q]
    BY <1>3, ArrivesAt
  <2>3. \A q \in Requests : Revoking(q)' => q # r /\ Revoking(q)
    BY <2>2 DEF Revoking, At
  <2>4. \A q \in Requests : At(q, "chosen")' => q # r /\ At(q, "chosen") /\ at'[q].op.kind = "revoke"
    BY <2>2 DEF At, ReachInv
  <2> QED
    BY <2>1, <2>2, <2>3, <2>4, ReachWaits DEF Usable, Revoking
<1>4. ASSUME NEW r \in Requests, Ended(r) \/ \E s \in Sessions, e \in Emails : IssueSession(r, s, e)
      PROVE  ReachInv'
  <2>1. UNCHANGED <<created, overlapped, keys>> /\ End(r)
    BY <1>4 DEF Ended, Rest, IssueSession
  <2> QED
    BY <1>1, <2>1, EndsAt
<1>5. ASSUME NEW r \in Requests, NEW to \in Steps, Advanced(r, to)
      PROVE  ReachInv'
  <2>1. UNCHANGED <<created, overlapped, keys>> /\ at[r] # Idle /\ Gate(r, to)
    BY <1>5 DEF Advanced, Rest
  <2>2. /\ at'[r].pc = to
        /\ at'[r].key = at[r].key /\ at'[r].op = at[r].op
        /\ \A q \in Requests : q # r => at'[q] = at[q]
    BY <1>5, AdvancesAt DEF Advanced
  <2>3. Revoking(r)' => Revoking(r) \/ Usable(at[r].key)
    BY <2>1, <2>2 DEF Revoking, Gate, At
  <2>4. At(r, "chosen")' =>
            /\ at'[r].op.kind = "revoke"
            /\ \/ at[r].op.key # at[r].key
               \/ keys[at[r].key] = "legacy"
               \/ Alternatives(r) # {}
    BY <2>1, <2>2 DEF Gate, At
  <2>5. \A q \in Requests : q # r =>
            /\ Revoking(q)' => Revoking(q)
            /\ At(q, "chosen")' => At(q, "chosen") /\ at'[q].op.kind = "revoke"
    BY <2>2 DEF Revoking, At, ReachInv
  <2>6. \A q \in Requests : at'[q] # Idle /\ Revoking(q)' =>
            /\ at[q] # Idle
            /\ at'[q].key = at[q].key /\ at'[q].op = at[q].op
            /\ Revoking(q) \/ Usable(at[q].key)
            /\ At(q, "chosen")' => At(q, "chosen")
                    \/ at[q].op.key # at[q].key
                    \/ keys[at[q].key] = "legacy"
                    \/ Alternatives(q) # {}
    BY <2>1, <2>2, <2>3, <2>4, <2>5
  <2>7. \A q \in Requests : At(q, "chosen")' => at'[q].op.kind = "revoke"
    BY <2>4, <2>5
  <2> QED
    BY <2>1, <2>6, <2>7, ReachWaits DEF Usable
<1>6. ASSUME NEW r \in Requests, NEW k \in Keys, RotateKey(r, k)
      PROVE  ReachInv'
  <2>1. /\ UNCHANGED <<created, overlapped>> /\ End(r)
        /\ keys[k] = "none" /\ keys' = [keys EXCEPT ![k] = "active"]
    BY <1>6 DEF RotateKey
  <2>2. \A a \in Keys : keys[a] \in {"legacy", "active"} => keys'[a] = keys[a]
    BY <2>1 DEF AccessTypeInv
  <2>3. \A q \in Requests : at'[q] = Idle \/ at'[q] = at[q]
    BY <2>1, EndsAt
  <2>4. \A q \in Requests : at'[q] # Idle /\ Revoking(q)' => at'[q] = at[q] /\ Revoking(q)
    BY <2>3 DEF Revoking, At
  <2>5. \A q \in Requests : At(q, "chosen")' => At(q, "chosen") /\ at'[q].op.kind = "revoke"
    BY <2>3 DEF At, Idle, ReachInv
  <2>6. \A a \in Keys : Usable(a) => Usable(a)'
    BY <2>2 DEF Usable
  <2> QED
    BY <2>1, <2>2, <2>4, <2>5, <2>6, ReachWaits
<1>7. ASSUME NEW r \in Requests, SetMember(r)
      PROVE  ReachInv'
  <2>1. UNCHANGED <<created, overlapped, keys>>
    BY <1>7 DEF SetMember
  <2>2. \A q \in Requests : at'[q] # Idle =>
            /\ at[q] # Idle /\ at'[q].pc = at[q].pc
            /\ at'[q].key = at[q].key /\ at'[q].op = at[q].op
    BY <1>7, MembersAt
  <2>3. \A q \in Requests : at'[q] # Idle /\ Revoking(q)' => Revoking(q)
    BY <2>2 DEF Revoking, At
  <2>4. \A q \in Requests : At(q, "chosen")' => at'[q] # Idle /\ At(q, "chosen")
    BY <2>2 DEF At, Idle
  <2>5. \A q \in Requests : At(q, "chosen")' => at'[q].op.kind = "revoke"
    BY <2>2, <2>4 DEF ReachInv
  <2> QED
    BY <2>1, <2>2, <2>3, <2>4, <2>5, ReachWaits DEF Usable
<1> QED
    BY <1>2, <1>3, <1>4, <1>5, <1>6, <1>7, ReachCreate, ReachRevoke, AccessKinds

-----------------------------------------------------------------------------
(* The theorems.                                                            *)

AccessInv == AccessTypeInv /\ FedInv /\ CredInv /\ ReachInv

LEMMA AccessInvariant == Spec => []AccessInv
<1>1. Init => AccessInv
    BY AccessTypeInit, FedInit, CredInit, ReachInit DEF AccessInv
<1>2. AccessInv /\ [Next]_vars => AccessInv'
    BY AccessTypeStep, FedStep, FedKinds, CredStep, ReachStep DEF AccessInv, FedInv
<1> QED
    BY <1>1, <1>2, PTL DEF Spec

LEMMA RequestsTyped ==
    ASSUME AccessTypeInv
    PROVE  \A r \in Requests : at[r] # Idle =>
            /\ at[r].pc \in Steps
            /\ at[r].key \in held
            /\ at[r].op \in Operation
            /\ at[r].auth \in Authorization
            /\ created = Complete
<1> SUFFICES ASSUME NEW r \in Requests, at[r] # Idle
             PROVE  /\ at[r].pc \in Steps
                    /\ at[r].key \in held
                    /\ at[r].op \in Operation
                    /\ at[r].auth \in Authorization
                    /\ created = Complete
    OBVIOUS
<1>1. at[r] \in Req /\ created = Complete
    BY ReqShape
<1>2. at[r].key \in held
    BY DEF AccessTypeInv
<1> QED
    BY <1>1, <1>2 DEF Req

\* Keys, sessions, members and requests keep their types, and whoever is in a
\* request came with a key of a completely written workspace (workspaces.py).
THEOREM WellTyped == Spec => []TypeOK
<1>1. AccessInv => TypeOK
    BY RequestsTyped DEF AccessInv, AccessTypeInv, FedInv, FedTypeInv, TypeOK
<1> QED
    BY <1>1, AccessInvariant, PTL

\* No request passes its guards on what was revoked, expired or taken away
\* before it arrived (main.py _workspace_match, _principal).
THEOREM CredentialsCurrent == Spec => []CredentialCurrent
<1>1. AccessInv => CredentialCurrent
  <2> SUFFICES ASSUME AccessInv, NEW r \in Requests, at[r] # Idle
               PROVE  /\ ~At(r, "arrived") /\ at[r].barred
                            => at[r].auth.kind = "session" /\ At(r, "keyed")
                      /\ At(r, "authorized") \/ At(r, "chosen") => at[r].could
    BY DEF CredentialCurrent
  <2> QED
    BY DEF AccessInv, CredInv, StaleSession
<1> QED
    BY <1>1, AccessInvariant, PTL

\* A workspace keeps a usable key unless revocations overlapped (main.py
\* revoke_key).
THEOREM WorkspacesReachable == Spec => []WorkspaceReachable
<1>1. AccessInv => WorkspaceReachable
    BY DEF AccessInv, ReachInv, SomeUsable, WorkspaceReachable, Complete, Usable
<1> QED
    BY <1>1, AccessInvariant, PTL

\* A withdrawn signing key is accepted for a bounded time, for every length of
\* the cache and of a verification (oidc.py _jwks).
THEOREM WithdrawnKeysExpire == Spec => []WithdrawnKeyExpires
<1>1. AccessInv => WithdrawnKeyExpires
    BY KeysExpire DEF AccessInv
<1> QED
    BY <1>1, AccessInvariant, PTL

\* A published signing key is found by the refresh on an unknown kid, but for a
\* bounded time after the provider moved (oidc.py verify).
THEOREM NewKeysHonoured == Spec => []NewKeyHonoured
<1>1. AccessInv => NewKeyHonoured
    BY KeysHonoured DEF AccessInv
<1> QED
    BY <1>1, AccessInvariant, PTL

=============================================================================
