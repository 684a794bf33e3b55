SPECIFICATION Spec
CONSTANTS
    r1 = r1
    r2 = r2
    r3 = r3
    None = None
    Request <- MCRequest
    Key = {"daily_traffic_limit", "login_rate_limit"}
    Applied = {"daily_traffic_limit"}
    Number = {0, 1, 2}
    Text = text
    Lowest <- MCLowest
    Highest <- MCHighest
    Cfg <- MCCfg
    Default <- MCDefault
    MaxFailures = 1
SYMMETRY Symmetry
INVARIANTS
    TypeOK
    SettledAgrees
    OnlyValidValues
PROPERTIES
    StoredChangesByUpdate
