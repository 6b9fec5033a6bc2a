SPECIFICATION FairSpec
CONSTANTS
    c1 = c1  c2 = c2  s1 = s1  k1 = k1  k2 = k2  u1 = u1  notAKey = notAKey
    CIPs = {c1, c2}
    Secrets = {s1}
    Keys = {k1, k2}
    KMSKeys = {u1}
    KMSKey <- MCKMSKey
    Specs <- MixedSpecs
    SecretData <- MCSecretData
    InitMaps <- FoundMaps
    MapDeletable = TRUE
    MaxLag = 2
    MaxEdits = 3
    MaxFaults = 1
    NoSpec = NoSpec  NoSecret = NoSecret  NoEntry = NoEntry
INVARIANT TypeOK
PROPERTIES EventuallyConverged FinalizerGuardsEntry FinalizerHeldUntilClean
CHECK_DEADLOCK FALSE
