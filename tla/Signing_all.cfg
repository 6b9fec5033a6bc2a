CONSTANTS
    Nil = Nil  k1 = k1  k2 = k2  s1 = s1  s2 = s2  p1 = p1  p2 = p2
    Procs = {p1, p2}
    Workloads <- AllWorkloads
    Deterministic = {k2}
    Parent <- TheCAs
    Shards <- TheShards
    CTLogs <- TheCT
    Fulcio = "inter"
    Roots = {"root"}
    Life = 0
    MaxTime = 1
    MaxTries = 1
    MaxFaults = 1
SPECIFICATION Spec
CHECK_DEADLOCK FALSE
SYMMETRY Slots
INVARIANTS KeySignaturesVerify KeylessSignaturesVerify VerifiedWasSigned
           TokenReleased BlobsVerify
