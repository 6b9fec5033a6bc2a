CONSTANTS
    Nil = Nil  k1 = k1  k2 = k2  s1 = s1  s2 = s2  p1 = p1  p2 = p2
    Procs = {p1, p2}
    Workloads <- RetryWorkloads
    Deterministic = {k2}
    Parent <- TheCAs
    Shards <- TheShards
    CTLogs <- TheCT
    Fulcio = "inter"
    Roots = {"root"}
    Life = 0
    MaxTime = 1
    MaxTries = 2
    MaxFaults = 2
SPECIFICATION FairSpec
CHECK_DEADLOCK FALSE
INVARIANT BundleIsItsEntry
PROPERTIES StaysVerified LostUploadRecovers
