\* No SYMMETRY: liveness properties and a refinement are checked.
SPECIFICATION MCSpec
CONSTANTS
 Request = {r1} Center = c1 Child = c2 Limit = 1 MaxRetries = 1 MaxLoads = 1
 Item = {c1, c2, c3} Roots = {c1} Depths = {1, 2} Caps = {2, 3} Attempts = 2
 Size = 3 Unlike = 30 Threshold = 85 Description <- MCDescription
 Firm = {"a", "b"} Filter = {"all", "owns"} Short = {"q"} Long = {"qq", "qqq"} Networks <- MCNetworks
 Call = {k1, k2, k3} FailureThreshold = 3 SuccessThreshold = 2 Timeout = 2
 Entry = {e1, e2, e3, e4} Content = {"ORDER_SUBMITTED"} Genesis = genesis
INVARIANT CacheFollowsLoad LimitHolds
INVARIANT CollectsWithinReach
INVARIANT ClustersAreComponents ConflictsNeedABridge LostOnlyWhenAlike
INVARIANT ConsoleShowsChoice
INVARIANT TypeOK ClosedBelowThreshold
INVARIANT ChainLinked CoversEarlierRecord
PROPERTY StaleAnswersExpire
PROPERTY DocumentedCycle Recovers
PROPERTY KeepsLedgerPromise
\* The collector and the resolution are commands that end, and so do the calls
\* of the log.
CHECK_DEADLOCK FALSE
