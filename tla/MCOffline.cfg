SPECIFICATION OfflineSpec
CONSTANTS
    None = None
    Torn = Torn
    Window = 2
    Facts <- KnownFacts
    EventOf <- GraphEvents
    Nodes <- GraphNodes
    Subjects <- Investigated
    LimitSet <- BoundedAndNot
    Cutoff = 3
    EarlierCutoffs = {1, 2}
    Form = {1, 2, 3, 4, 5, 6, 7}
    Bucket <- AddressBucket
    Anchors <- AddressAnchors
    Ratio <- AddressRatio
    Threshold = 920
    MaxCandidates = 2
    Version = {1, 2, 3}
    Model <- ModelOf
    Manifest <- ManifestOf
    Config <- ConfigOf
    Features <- FeaturesOf
    Policy <- PolicyOf
    Supported = {"s1"}
    MaxEvaluations = 2
    Expectation <- Plans
    Cases <- TwoCases
    Models <- TwoModels
    Reports <- FinalReports
    Costs <- RupeeCosts
    Optimistic <- HalfOdds
    Stressed <- DoubleOdds
    Multipliers <- SomeOdds
    Odds <- SmallOdds
    Exposures = {0, 10, 20, 100, 500}
    MaxAddresses = 4
    Created <- AccountsCreated
    LabelledEvents <- Abuse
    Cutoffs <- SplitCutoffs
    MaxScore = 4
    Minimum <- OneOfEach
    MaxRecords = 4
    MaxLabelled = 4
    MaxHistory = 3
    Days = 90
    Fraction = {0, 1, 100}
    Selections <- OneChange
    MaxSize = 6
    Target = 12
INVARIANTS
    FeaturesAreConsistent
    EvidenceIsHonest
    DecisionsAreConsistent
    AddressesAreResolved
    EvaluationIsHeldOut
    LineageHolds
    ComparisonIsComplete
    WorldIsPlausible
PROPERTIES
    EvidenceIgnoresTheFuture
CHECK_DEADLOCK FALSE
