--------------------------- MODULE AtomicMigration ---------------------------
(***************************************************************************)
(* What _init_schema promises whoever deploys: a release finds every one   *)
(* of its versions recorded with its own checksum, and all those it was    *)
(* missing come at once, or it changes nothing. A recorded checksum is for *)
(* good. Locks, statements, transactions and deaths are not seen.          *)
(***************************************************************************)
CONSTANTS Replicas, Releases

VARIABLES
    recorded,           \* the checksum of each version that was applied
    made,               \* the versions whose tables are all there
    past                \* the release, if any, whose migrations a replica is past

absVars == <<recorded, made, past>>

Init ==
    /\ recorded = << >>
    /\ made = {}
    /\ past = [r \in Replicas |-> {}]

Agrees(release) ==
    \A v \in DOMAIN release \cap DOMAIN recorded : recorded[v] = release[v]

Migrate(r, release) ==
    /\ Agrees(release)
    /\ recorded' = [v \in DOMAIN recorded \cup DOMAIN release |->
                        IF v \in DOMAIN recorded THEN recorded[v] ELSE release[v]]
    /\ made' = made \cup DOMAIN release
    /\ past' = [past EXCEPT ![r] = {release}]

Leave(r) ==
    /\ past' = [past EXCEPT ![r] = {}]
    /\ UNCHANGED <<recorded, made>>

Next ==
    \E r \in Replicas :
        \/ \E release \in Releases : Migrate(r, release)
        \/ Leave(r)

Spec == Init /\ [][Next]_absVars
=============================================================================
