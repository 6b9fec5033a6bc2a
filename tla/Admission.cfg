SPECIFICATION FairSpec
CONSTANTS
    Nil = Nil
    NotAKey = NotAKey
    k1 = k1
    k2 = k2
    Parent <- TheCAs
    Names = {"a", "b"}
    Secrets <- TheSecrets
    KMS <- TheKMS
    Pods <- ThePods
    Tags <- TheTags
    Digests = {"d1", "d2"}
    Scenarios <- TheScenarios
    World <- TheWorld
    MaxEdits = 2
    MaxWrites = 1
    MaxPods = 1
INVARIANTS
    AdmittedVouchedFor
    AcceptedMeansUsable

    
CHECK_DEADLOCK FALSE
