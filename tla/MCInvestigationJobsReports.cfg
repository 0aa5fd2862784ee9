SPECIFICATION Spec
CONSTANTS
    r1 = r1
    r2 = r2
    k1 = k1
    k2 = k2
    w1 = w1
    w2 = w2
    decision = decision
    None = None
    Run = {r1, r2}
    Trigger = {k1, k2}
    DecisionOf <- MCDecisionOf
    Content = {"grounded", "exhausted"}
    Worker = {w1, w2}
    Lease = 1
    Bound <- ReportsBound
INVARIANTS
    SeparateRunsKeepTheirReports
CHECK_DEADLOCK FALSE
