SPECIFICATION Spec
CONSTANTS
    r1 = r1
    r2 = r2
    t1 = t1
    f1 = f1
    None = None
    Token = {t1}
    File = {f1}
    Request <- MCRequest
    Limits = {2}
    CfgDailyLimit = 1
    MaxFile = 2
    NotFoundPage = 1
    Framing = 1
    MaxDownloads = 3
    Asked = {1, 3, 16}
    MaxInt = 31
    Days = 2
    MaxFailures = 1
SYMMETRY Symmetry
INVARIANTS
    TypeOK
    TrafficBounded
    ServedWithinLimit
PROPERTIES
    LinkFitsDay
