SPECIFICATION Spec
CONSTANTS
    w1 = w1
    w2 = w2
    i1 = i1
    i2 = i2
    k1 = k1
    k2 = k2
    here = here
    away = away
    q1 = q1
    None = None
    Worker <- MCWorker
    Caller = {q1}
    Id <- MCId
    Key <- MCKey
    Address = {here, away}
    Whitelists = {{here}}
    MaxFailures = 2
SYMMETRY Symmetry
INVARIANTS
    TypeOK
    AloneRefreshSettles
    MapIsWhole
    AdmittedByTable
PROPERTY
    ImplementsKeyBook
