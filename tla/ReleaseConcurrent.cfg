SPECIFICATION Spec
CONSTANTS
    Packages <- ConPackages
    Versions <- SeqVersions
    PlainVersions <- SeqVersions
    ResearchOnes = {}
    VersionLane <- MCVersionLane
    ReleaseLane <- MCReleaseLane
    Targets = {"linux", "mac"}
    Tags <- MCTags
    PlainReleases <- MCPlainReleases
    NoManifest = NoManifest
    Procs = {p1, p2}
    Commands <- ConCommands
    LocalManifests = {}
    Publishable <- ConPublishable
    Buildable <- ConBuildable
    GtcBuildable <- ConGtc
    MaxLaunches = 3
INVARIANTS
    PastGateVerified
    TagsBackedByRelease
PROPERTIES
    StableMovesVerified
    DispatchVerified
    ImplementsLanes
CHECK_DEADLOCK FALSE
