SPECIFICATION FairSpec
CONSTANTS
    c1 = c1  c2 = c2  s1 = s1  k1 = k1  k2 = k2  u1 = u1  notAKey = notAKey
    CIPs = {c1, c2}
    Secrets = {s1}
    Keys = {k1, k2}
    KMSKeys = {u1}
    KMSKey <- MCKMSKey
    Specs <- InlineSpecs
    SecretData <- MCSecretData
    InitMaps <- UnshippedMaps
    MapDeletable = FALSE
    MaxLag = 2
    MaxEdits = 2
    MaxFaults = 0
    NoSpec = NoSpec  NoSecret = NoSecret  NoEntry = NoEntry
PROPERTY OrphansRemoved
CHECK_DEADLOCK FALSE
