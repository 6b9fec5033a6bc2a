CONSTANTS
    fulcio = fulcio
    rekor = rekor
    main = main
    private = private
    Procs = {"p1"}
    Targets = {fulcio, rekor}
    Mirrors = {main}
    Contents <- MCContents
    Releases <- MCReleases
    DefaultRemoteRoot = main
    EmbeddedVersion = 1
    Usages <- MCUsages
    Usage <- MCUsage
    Fallbacks <- MCFallbacks
    Worlds <- CrashWorlds
    NoMirror = NoMirror
    NoUsage = NoUsage
    NoContent = NoContent
SPECIFICATION Spec
INVARIANTS UpdatedTargetsServed
CHECK_DEADLOCK FALSE
