SPECIFICATION RacesSpec
CONSTANTS
    Updaters = {u1, u2, u3, u4}
    Reclaims = FALSE
    NoOwner = NoOwner
    NoPid = NoPid
    Calls = {c1, c2, c3}
    evidence = evidence
    recipe = recipe
    Steps <- StepIds
    RecipeSteps <- RecipeIds
    Dependencies <- StepOrder
    DailyLimit = 1
    MaxEdits = 1
    NoStep = NoStep
    Free = Free
    Installers = {i1}
    Scripts = {s1}
    ForeignEdits = {e1}
    Projections <- OneProjection
    Registries <- ThreeRegistries
    Amendments = {a1, a2}
    MaxVersions = 2
    MaxOperations = 2
    People = {ann, own}
    Owner = own
    HandEdits = {h1}
SYMMETRY CallSymmetry
INVARIANTS
    SnapshotIsClose
    ExecutionHolds
    SettingsHold
    ReconcilesOrRestores
    OnboardingHolds
CHECK_DEADLOCK FALSE
