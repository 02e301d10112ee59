SPECIFICATION Spec
CONSTANTS
    Packages <- SeqPackages
    Versions <- SeqVersions
    PlainVersions <- SeqVersions
    ResearchOnes = {}
    VersionLane <- MCVersionLane
    ReleaseLane <- MCReleaseLane
    Targets = {linux}
    Tags <- MCTags
    PlainReleases <- MCPlainReleases
    NoManifest = NoManifest
    Procs = {p1}
    Commands <- SeqCommands
    LocalManifests = {}
    Publishable <- SeqPublishable
    Buildable <- SeqBuildable
    GtcBuildable <- SeqGtc
    MaxLaunches = 3
INVARIANTS
    StableDownloadable
    DispatchedDownloadable
CHECK_DEADLOCK FALSE
