SPECIFICATION Spec
CONSTANTS
    Procs = {p1, p2}
    Tenants = {"acme", "globex"}
    Manifests <- MCManifests
    Tools <- MCTools
    Docs <- MCDocs
    Names <- MCNames
    DocPaths = {"guide"}
    Similar <- MCSimilar
    NoManifest = NoManifest
    NoFile = NoFile
    NoName = NoName
    NoState = NoState
    MaxInstalls = 3
INVARIANTS
    StateBacked
    OnlyVerifiedFiles
    KeptForTenant
    ToolsRunnable
SYMMETRY Symmetry
CHECK_DEADLOCK FALSE
