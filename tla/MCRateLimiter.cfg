SPECIFICATION FairSpec
CONSTANTS
    None = None
    Address = {a1}
    Request = {r1, r2}
    Visitor = {v1, v2, v3}
    Burst = 2
    Window = 2
    Idle = 3
    MaxPause = 1
INVARIANTS
    TypeOK
    UnracedWithinRate
PROPERTIES
    RefusedFairly
    ForgivesLittle
    QuietIsForgotten
