\* policy init and policy sign without --out.
SPECIFICATION Spec
CONSTANTS
    Parts = {"root"}
    Nil = Nil
    Makers = {m1, m2}
    Passwords = {"one", "two"}
    MaxPairs = 3
    MaxFaults = 1
    None = None
    Tools = {p1, p2}
    Slots = {"signature"}
    SlotNames = {"", "unknown"}
    Secrets = {"other"}
    Randoms = {"random"}
    PinPolicies = {"", "once"}
    TouchPolicies = {""}
    MaxCommands = 3
    Nothing = Nothing
    Hsms <- MCHsms
    ModulePaths <- MCModulePaths
    PinsGiven <- MCPinsGiven
    EnvPin <- MCEnvPin
    MaxCalls = 3
    MaxErrors = 1
    Absent = Absent
    Tags = {"latest"}
    Clients = {c1, c2}
    Uploads <- MCUploads
    MaxRequests = 4
    MaxLost = 1
    NoRoot = NoRoot
    People = {"ann", "bob"}
    Issuers = {"here", "there"}
    Thresholds = {2}
    Operators = {o1, o2}
    OutFiles = {"", "o"}
    Experimental = TRUE
    MaxInits = 1
    MaxSigns = 3
    MaxOutages = 1
INVARIANT MadeIsPushed
CHECK_DEADLOCK FALSE
