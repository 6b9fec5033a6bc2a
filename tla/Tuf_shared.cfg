CONSTANTS
    fulcio = fulcio
    rekor = rekor
    main = main
    private = private
    Procs = {"p1", "p2"}
    Targets = {fulcio, rekor}
    Mirrors = {main, private}
    Contents <- MCContents
    Releases <- MCReleases
    DefaultRemoteRoot = main
    EmbeddedVersion = 1
    Usages <- MCUsages
    Usage <- MCUsage
    Fallbacks <- MCFallbacks
    Worlds <- SharedWorlds
    NoMirror = NoMirror
    NoUsage = NoUsage
    NoContent = NoContent
SPECIFICATION Spec
INVARIANTS  ExpiredMeansUpdated ClosedWhenDone QuietUpdatesServed
CHECK_DEADLOCK FALSE
