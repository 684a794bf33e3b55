SPECIFICATION FairSpec
CONSTANTS
    t1 = t1
    t2 = t2
    w1 = w1
    w2 = w2
    None = None
    Token <- MCToken
    Worker <- MCWorker
    CfgMaxDownloads = 1
    CfgMaxExpiration = 1
    DownloadBounds = {2}
    ExpirationBounds = {1}
    MaxTime = 2
    MaxRestarts = 1
INVARIANTS
    TypeOK
    DownloadsWithinLimit
    RowSurvivesExit
    CopiesAgree
    OneLostPerExit
    Consistent
PROPERTIES
    ImplementsBudget
    LossOnlyAtExit
    OverIsReaped
