SPECIFICATION Spec
CONSTANTS
    Replicas = {r1, r2, r3}
    NoReplica = NoReplica
    Releases <- MCReleases
    Statements = 2
    MaxStarts = 2
INVARIANTS
    SchemaMatchesHistory
PROPERTIES
    ImplementsAtomicMigration
    WaitIsBounded
CHECK_DEADLOCK FALSE
