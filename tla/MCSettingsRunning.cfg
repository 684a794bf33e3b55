SPECIFICATION Spec
CONSTANTS
    r1 = r1
    r2 = r2
    r3 = r3
    Text = text
    None = None
    Request = {r1, r2}
    Key = {"daily_traffic_limit", "login_rate_limit"}
    Applied = {"daily_traffic_limit"}
    Number = {0, 1, 2}
    Lowest <- MCLowest
    Highest <- MCHighest
    Cfg <- SameCfg
    Default <- MCDefault
    MaxFailures = 0
INVARIANTS
    StoredIsRunning
