SPECIFICATION FairSpec
CONSTANTS
    Packages <- ConPackages
    Versions <- OptVersions
    PlainVersions = {1}
    ResearchOnes = {3}
    VersionLane <- MCVersionLane
    ReleaseLane <- MCReleaseLane
    Targets = {linux}
    Tags <- MCTags
    PlainReleases <- MCPlainReleases
    NoManifest = NoManifest
    Procs = {p1}
    Commands <- OptCommands
    LocalManifests <- OptFiles
    Publishable <- OptPublishable
    Buildable <- OptBuildable
    GtcBuildable <- OptGtc
    MaxLaunches = 2
INVARIANTS
    GtcFilesPublished
PROPERTIES
    CommandsEnd
CHECK_DEADLOCK FALSE
