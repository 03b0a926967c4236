SPECIFICATION TakeoversSpec
CONSTANTS
    Updaters = {u1, u2, u3, u4}
    Reclaims = TRUE
    NoOwner = NoOwner
    NoPid = NoPid
    Passes = {p1, p2, p3}
    Enrolled <- TwoSources
    Reconciling = {"reconciled"}
    MaxAttempts = 1
    MaxRefreshes = 1
    MaxUpsets = 2
SYMMETRY PassSymmetry
INVARIANTS
    NoLostUpdate
    RefreshHolds
PROPERTIES
    ImplementsStore
CHECK_DEADLOCK FALSE
