SPECIFICATION Spec
CONSTANTS
    c1 = c1  c2 = c2  s1 = s1  k1 = k1  k2 = k2  u1 = u1  notAKey = notAKey
    CIPs = {c1, c2}
    Secrets = {s1}
    Keys = {k1, k2}
    KMSKeys = {u1}
    KMSKey <- MCKMSKey
    Specs <- SecretSpecs
    SecretData <- MCSecretData
    InitMaps <- ShippedOnly
    MapDeletable = FALSE
    MaxLag = 3
    MaxEdits = 4
    MaxFaults = 0
    NoSpec = NoSpec  NoSecret = NoSecret  NoEntry = NoEntry
PROPERTY ImplementsPolicyTable
CHECK_DEADLOCK FALSE
