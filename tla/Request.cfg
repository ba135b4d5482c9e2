SPECIFICATION SuiteSpec
CONSTANTS
    Ops = {1, 2, 3}
    Targets = {1, 2}
    ControlOf <- SharedOnOne
    Statuses = {"absent", "Mutation", "NoOp"}
    MaxMutations = 3
    MaxId = 3
    Features = {"governor", "platform", "gpuProfile", "nice"}
    MaxEdits = 2
    ProposalKeys = {1, 2}
    Values = {"high", "low"}
    Sources = {1, 2, 3}
    MaxProposals = 3
    s1 = s1
    s2 = s2
    stranger = stranger
    Sessions <- TwoSessions
    NoSession = NoSession
    PlanIds = {1}
    Digests = {1, 2}
    Bodies = {1, 2}
    Expected = expected
    Others <- Strangers
    Nothing = Nothing
    MaxRequests = 2
    MaxLives = 1
    BackendIds = {1, 2, 3}
    Capabilities = {"c1", "c2"}
    Operations = {"o1", "o2"}
    Bare = {3}
    NumberWidth = 2
    IdWidth = 1
    DigestWidth = 2
    MaxFrame = 10
    SomeNumbers = {1, 257}
    RawCells = {0, 1}
    SomeCells = {0, 1, 3, 12, 131}
    MaxDamage = 2
SYMMETRY SessionSymmetry
INVARIANT DependenciesFirst
INVARIANT CycleIsReal
INVARIANT CanonicalOrder
INVARIANT OrderedPlanIsValid
INVARIANT VerdictIsRight
INVARIANT AdmittedIsValid
INVARIANT TighterPolicyAdmitsLess
INVARIANT TrustedLayerWins
INVARIANT InOrderOnce
INVARIANT BoundPlanIsApproved
INVARIANT UnboundNeverApplied
INVARIANT CanonicalOnly
INVARIANT RoundTrip
INVARIANT RoutedToOwner
\* A plan that was made or rejected is final; a stopped helper may never be
\* started again; a frame is received once.
CHECK_DEADLOCK FALSE
