SPECIFICATION Spec
CONSTANTS
    Packages <- ConPackages
    Versions <- SeqVersions
    PlainVersions <- SeqVersions
    ResearchOnes = {}
    VersionLane <- MCVersionLane
    ReleaseLane <- MCReleaseLane
    Targets = {linux}
    Tags <- MCTags
    PlainReleases <- MCPlainReleases
    NoManifest = NoManifest
    Procs = {p1, p2}
    Commands <- RaceCommands
    LocalManifests = {}
    Publishable <- RacePublishable
    Buildable <- RaceBuildable
    GtcBuildable <- RaceGtc
    MaxLaunches = 3
INVARIANTS
    StableDownloadable
CHECK_DEADLOCK FALSE
