SPECIFICATION Spec
CONSTANTS
    Minute = 2
    Suppliers = {s1, s2, s3}
    Prices = {1, 2, 3}
    Terms <- MCTerms
    MaxBids = 4
    MaxTime = 4
INVARIANTS
    L1RuleFollowsMarketBest
    RankRuleIsOvertaking
    LoggedMinutesMatchTheMove
    BackendsAgreeOnPrice
    NodeRankRuleIsOvertaking
SYMMETRY Symmetry
CHECK_DEADLOCK FALSE
