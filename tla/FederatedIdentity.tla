-------------------------- MODULE FederatedIdentity --------------------------
(***************************************************************************)
(* The verification of a bearer token of an OpenID provider: oidc.py, with *)
(* its two caches, which its callers share without a lock, against a       *)
(* provider that publishes and withdraws signing keys, moves its key set   *)
(* to another URL, and fails to answer.                                    *)
(*                                                                         *)
(* verify[v].pc says where the verification v is:                          *)
(*   keys      about to ask _jwks for the key set (again, if forced);      *)
(*   discover  the caches did not serve: it asks for the metadata;         *)
(*   metadata, dated  it holds the provider's metadata, and has stored it  *)
(*             but not its time;                                           *)
(*   get       it asks for the key set at an URL;                          *)
(*   data, stamp  it holds the key set, and has stored it but not its time;*)
(*   found, unknown, failed  what it ends with.                            *)
(* Signature, issuer, audience and expiry are checked on the token alone;  *)
(* a token here passes them under the key of its kid.                      *)
(***************************************************************************)
EXTENDS Integers, Sequences

CONSTANTS
    Verifiers,          \* threads that verify
    Kids,               \* the signing keys of the provider
    Sites,              \* the URLs at which it publishes its key set
    FirstSite,          \* the one it starts with, TRUSTKERNEL_OIDC_JWKS_URL
    CacheSeconds,       \* TRUSTKERNEL_OIDC_JWKS_CACHE_SECONDS
    MaxStall,           \* bound: how long a verification takes
    MaxClock            \* bound: the latest time

ASSUME FederatedAssumption ==
    /\ FirstSite \in Sites
    /\ CacheSeconds \in Nat \ {0}
    /\ MaxStall \in Nat
    /\ MaxClock \in Nat

VARIABLES
    clock,
    mode,               \* where the verifier gets its keys from
    site,               \* the provider's jwks_uri
    published,          \* the kids at each site
    until,              \* history: when a kid was withdrawn
    moved,              \* history: when the provider moved last
    cachedKeys,         \* _cached_jwks
    cachedAt,           \* _cached_jwks_at
    cachedSite,         \* the jwks_uri of _cached_metadata
    cachedSiteAt,       \* _cached_metadata_at
    verify              \* the verifications in progress

provider == <<site, published, until, moved>>
caches == <<cachedKeys, cachedAt, cachedSite, cachedSiteAt>>
fedVars == <<clock, mode, provider, caches, verify>>

Modes == {"static", "url", "discovery"}
Never == -1
\* The caches start with the time 0.0, too old to be served.
LongAgo == -CacheSeconds

Verified == [pc |-> "none"]

Times == {Never} \cup 0 .. MaxClock

FederatedTypeOK ==
    /\ clock \in 0 .. MaxClock
    /\ mode \in Modes
    /\ site \in Sites
    /\ published \in [Sites -> SUBSET Kids]
    /\ until \in [Kids -> Times]
    /\ moved \in Times
    /\ cachedKeys \subseteq Kids
    /\ cachedSite \in Sites
    /\ {cachedAt, cachedSiteAt} \subseteq {LongAgo} \cup 0 .. MaxClock
    /\ DOMAIN verify = Verifiers

FederatedInit ==
    /\ clock = 0
    /\ mode \in Modes
    /\ site = FirstSite
    /\ \E kid \in Kids : published = [s \in Sites |-> IF s = FirstSite THEN {kid} ELSE {}]
    /\ until = [k \in Kids |-> Never]
    /\ moved = Never
    /\ cachedKeys = {}
    /\ cachedAt = LongAgo
    /\ cachedSite = FirstSite
    /\ cachedSiteAt = LongAgo
    /\ verify = [v \in Verifiers |-> Verified]

-----------------------------------------------------------------------------
(* The provider.                                                           *)

PublishKid(kid) ==
    /\ kid \notin published[site]
    /\ until[kid] = Never
    /\ published' = [published EXCEPT ![site] = @ \cup {kid}]
    /\ UNCHANGED <<site, until, moved>>

WithdrawKid(kid) ==
    /\ kid \in published[site]
    /\ published' = [published EXCEPT ![site] = @ \ {kid}]
    /\ until' = [until EXCEPT ![kid] = clock]
    /\ UNCHANGED <<site, moved>>

\* The key set moves, once; the old URL goes on serving what it has.
MoveSite(s) ==
    /\ mode = "discovery"
    /\ moved = Never
    /\ s # site
    /\ site' = s
    /\ published' = [published EXCEPT ![s] = published[site]]
    /\ moved' = clock
    /\ UNCHANGED until

ProviderStep ==
    /\ mode # "static"
    /\ \/ \E kid \in Kids : PublishKid(kid) \/ WithdrawKid(kid)
       \/ \E s \in Sites : MoveSite(s)
    /\ UNCHANGED <<clock, mode, caches, verify>>

-----------------------------------------------------------------------------
(* The verifier.                                                           *)

\* known is history: the provider had published the key by then.
BeginVerify(v, kid) ==
    verify' = [verify EXCEPT ![v] = [pc |-> "keys", kid |-> kid, begun |-> clock,
                                     forced |-> FALSE, known |-> kid \in published[site]]]

\* v goes on to pc, knowing extra of the keys it asks for.
Goes(v, pc, extra) ==
    verify' = [verify EXCEPT ![v] =
        [f \in {"pc", "kid", "begun", "forced", "known"} \cup DOMAIN extra |->
            CASE f = "pc"           -> pc
              [] f \in DOMAIN extra -> extra[f]
              [] OTHER              -> verify[v][f]]]

\* Mutant: an unknown kid is not looked for in a fresh key set.
SearchOnce(v, keys) ==
    Goes(v, IF verify[v].kid \in keys THEN "found" ELSE "unknown", << >>)

\* The kid is looked up in the key set, and once more in a fresh one.
Search(v, keys) ==
    \/ /\ verify[v].kid \in keys
       /\ Goes(v, "found", << >>)
    \/ /\ verify[v].kid \notin keys
       /\ verify[v].forced \/ mode = "static"
       /\ Goes(v, "unknown", << >>)
    \/ /\ verify[v].kid \notin keys
       /\ ~(verify[v].forced \/ mode = "static")
       /\ Goes(v, "keys", [forced |-> TRUE])

\* Mutant: the cached key set is never too old.
CacheAlwaysServes == cachedAt # LongAgo

CacheServes == clock - cachedAt < CacheSeconds

SiteServes == clock - cachedSiteAt < CacheSeconds

\* _jwks: a static set; the cache, unless it is to be refreshed or is too old;
\* else it is asked for at the URL configured, or in the metadata's cache, or
\* to be discovered.
AskKeys(v) ==
    /\ verify[v].pc = "keys"
    /\ \/ /\ mode = "static"
          /\ Search(v, published[FirstSite])
       \/ /\ mode # "static"
          /\ ~verify[v].forced
          /\ CacheServes
          /\ Search(v, cachedKeys)
       \/ /\ mode # "static"
          /\ verify[v].forced \/ ~CacheServes
          /\ IF mode = "url" \/ SiteServes
             THEN Goes(v, "get", [now |-> clock,
                                  url |-> IF mode = "url" THEN FirstSite ELSE cachedSite])
             ELSE Goes(v, "discover", [now |-> clock])
    /\ UNCHANGED <<clock, mode, provider, caches>>

Discover(v) ==
    /\ verify[v].pc = "discover"
    /\ Goes(v, "metadata", [now |-> verify[v].now, url |-> site])
    /\ UNCHANGED <<clock, mode, provider, caches>>

\* The metadata and its time are stored one after the other.
StoreMetadata(v) ==
    /\ verify[v].pc = "metadata"
    /\ cachedSite' = verify[v].url
    /\ Goes(v, "dated", [now |-> verify[v].now, url |-> verify[v].url])
    /\ UNCHANGED <<clock, mode, provider, cachedKeys, cachedAt, cachedSiteAt>>

DateMetadata(v) ==
    /\ verify[v].pc = "dated"
    /\ cachedSiteAt' = verify[v].now
    /\ Goes(v, "get", [now |-> verify[v].now, url |-> verify[v].url])
    /\ UNCHANGED <<clock, mode, provider, cachedKeys, cachedAt, cachedSite>>

GetKeys(v) ==
    /\ verify[v].pc = "get"
    /\ Goes(v, "data", [now |-> verify[v].now, keys |-> published[verify[v].url]])
    /\ UNCHANGED <<clock, mode, provider, caches>>

\* The key set and its time are stored one after the other.
StoreKeys(v) ==
    /\ verify[v].pc = "data"
    /\ cachedKeys' = verify[v].keys
    /\ Goes(v, "stamp", [now |-> verify[v].now, keys |-> verify[v].keys])
    /\ UNCHANGED <<clock, mode, provider, cachedAt, cachedSite, cachedSiteAt>>

StampKeys(v) ==
    /\ verify[v].pc = "stamp"
    /\ cachedAt' = verify[v].now
    /\ Search(v, verify[v].keys)
    /\ UNCHANGED <<clock, mode, provider, cachedKeys, cachedSite, cachedSiteAt>>

\* The provider does not answer, or not with what was asked for.
FailRequest(v) ==
    /\ verify[v].pc \in {"discover", "get"}
    /\ Goes(v, "failed", << >>)
    /\ UNCHANGED <<clock, mode, provider, caches>>

VerifyStep(v) ==
    \/ AskKeys(v)
    \/ Discover(v)
    \/ StoreMetadata(v)
    \/ DateMetadata(v)
    \/ GetKeys(v)
    \/ StoreKeys(v)
    \/ StampKeys(v)
    \/ FailRequest(v)

EndVerify(v) == verify' = [verify EXCEPT ![v] = Verified]

-----------------------------------------------------------------------------
(* Properties.                                                             *)

\* A token is accepted under a withdrawn key no longer than the cache serves
\* it and two verifications last: one stores the key, and the time of another
\* that runs at once may be stamped on it. A provider that moved is found a
\* cache period later, the time of its metadata confused in the same way.
WithdrawnKeyExpires ==
    \A v \in Verifiers :
        /\ verify[v].pc = "found"
        /\ until[verify[v].kid] # Never
        => clock - until[verify[v].kid]
            < IF moved = Never THEN CacheSeconds + 2 * MaxStall
              ELSE 2 * CacheSeconds + 3 * MaxStall

\* The refresh on an unknown kid finds every key the provider published before
\* the verification began and publishes still, unless it moved within a cache
\* period and two verifications: the refresh leaves the metadata in the cache.
NewKeyHonoured ==
    \A v \in Verifiers :
        /\ verify[v].pc = "unknown"
        /\ verify[v].kid \in published[site]
        /\ verify[v].known
        => /\ moved # Never
           /\ clock - moved < CacheSeconds + 2 * MaxStall
=============================================================================
