SPECIFICATION Spec
CONSTANTS
    w1 = w1
    w2 = w2
    b1 = b1
    FilePolicy = FilePolicy
    NoBundle = NoBundle
    Writers = {w1, w2}
    Bundles = {b1}
    Verdicts <- MCVerdicts
    MaxEntries = 3
    MaxEvaluations = 2
    MaxEvents = 3
    MaxChanges = 2
SYMMETRY Symmetry
INVARIANTS
    TypeOK
    EvidenceComplete
    ResolutionRecorded
    QuietRowNamesPolicy
    BrokenOnlyByOverlap
PROPERTIES
    ImplementsEvidenceTrail
    BrokenStaysBroken
CHECK_DEADLOCK FALSE
