SPECIFICATION MCSpec
CONSTANTS
    Shells = {p1, p2}
    Artifacts <- MCArtifacts
    Providers <- MCProviders
    Dests <- MCDests
    Satisfies <- MCSatisfies
    BuildTarget = "wasip2"
    InitialTrees <- MCInitialTrees
    NoFile = NoFile
    Torn = Torn
    NoDir = NoDir
    None = None
    MaxCommands = 2
    MaxEdits = 1
    old = old
    new = new
    Invalid = Invalid
    Partial = Partial
    MaxChanges = 1
    SecurityCommandLines <- MCSecurityCommandLines
    Alerts <- MCAlerts
    Findings <- MCFindings
    DefaultPaths <- MCDefaultPaths
    DefaultRules <- MCDefaultRules
    OwnIgnores <- MCOwnIgnores
    AlertStates <- MCAlertStates
    Places = {"missing", "path"}
    AlertsPerPage = 1
    CoverageCommandLines <- MCCoverageCommandLines
    MeasuredFiles = {"core", "generated"}
    Measurements <- MCMeasurements
    Policies <- MCPolicies
    Machines <- MCMachines
    DevReleases <- MCReleases
    DevLane <- MCDevLane
    Clean <- MCClean
    Named <- MCNamed
    ReleasesPerPage = 2
    MaxPages = 2
INVARIANTS
    TypesOK
    SumsHold
    PassMeansClean
    NothingHidden
    OwnIgnoresKept
    PassMeansMeasured
    SetupFailureHasCause
    NewestAtStart
PROPERTIES
    BuildIsValidated
SYMMETRY Symmetry
CHECK_DEADLOCK FALSE
