SPECIFICATION Spec
CONSTANTS
    ClassicProgram = "spl-token"
    HybridProgram = "mpl-hybrid"
    ReviewedCommit = "commit"
    Loader = "loader"
    TokenProgramOwner = "spl-token"
    CoreProgram = "mpl-core"
    EscrowOf <- MCEscrowOf
    RecipeOf <- MCRecipeOf
    U64Max = 10
    MaxAssets = 3
    Rows <- MCRows
    Texts <- MCTexts
    Ledgers <- MCLedgers
    SeededSlug = "hollow"
    Slugs = {"hollow", "other"}
    MaxSlot = 3
    MaxEdits = 3
    CanaryBacking = 2
    ObservedSlot = 2
    DeployedSlot = 2
    CanaryStarts <- MCCanaryStarts
    CanarySetups <- MCCanarySetups
    MaxCanarySlot = 4
    BackingPerNft = 2
    CaptureEnabled = TRUE
    ReleaseEnabled = TRUE
    MaxReserve = 9
    MaxInventory = 3
    Signatures = {"s1", "s2", "s3"}
    PendingTabs = {"left", "right"}
    MaxPending = 2
    Visitors = {"v1", "v2"}
    MetricsTtl = 2
    MetricsTimeout = 1
    MaxTime = 4
    PumpLayouts = {"core", "quote", "midQuote"}
    MaxCoinSlot = 4
    RehearsalCalls = {1, 2}
    Scope = {"creator-application", "world-activity"}
    Client = {"c1", "c2"}
    Policy <- Policies
    Global = Global
    Overflow = Overflow
    MaxBuckets = 3
    PruneEvery = 3
    MaxCallTime = 4
INVARIANTS
    WorldsTypeOK
    ReviewedTermsOnly
    PromiseCanBeKept
    SignedProgramSeen
    MigrationAccepted
    SafeMeansSound
    PreparedIsHonest
    AwakenCanBeReleased
    EvidenceStaysListed
    VerdictIsTrue
    ResultOfChosenCluster
    CeilingHolds
    RefusalsEarned
PROPERTIES
    SurplusNeverSpent
    VerdictWasTrueLately
