SPECIFICATION MCSpec
CONSTANTS
 GivenEntities <- MCGivenEntities GivenFlows <- MCGivenFlows
 Batch <- MCBatch Filter <- MCFilter NodeCap = 3 FlowCap = 2 MaxImports = 2
 Listed <- MCListed Created = {"c3"} MaxPosts = 2
 FinderEnds <- MCFinderEnds
 Corporation = {"a", "b", "c"} Individual = {"p"} FirstChoice = "a" Setting = {1, 2} FirstSetting = 1
 Network <- MCNetwork CoreNodes = 2 CrumbCap = 2 MaxOpenings = 3
 Call = {"x", "y", "z"}
 Tickers = 2 Loops = 2
 Sockets = 4 MaxBuffer = 2
 Writer = {"w1", "w2"} MaxRows = 4
 Events <- MCEvents MaxBatches = 4
 OrderKey = {"k", "l"} Amount = {0, 1, 2} CashLimit = 3 Threshold4 = 1
 Person = {"u", "v"} Window = 1 Version = {1, 2} MaxTicks = 1
INVARIANT ShownIsConnected CopiesAgree NeighboursShown PanelShowsLast
INVARIANT EveryCallSettles PollsWithinAllowance OneSocketFeeds
INVARIANT ForksNeedOverlap ViewFollowsLedger ControlsHold
\* Posts, openings, loops, sockets, rows and batches are bounded; calls are made
\* once.
CHECK_DEADLOCK FALSE
