SPECIFICATION Spec
CONSTANTS
    Procs = {p1, p2}
    Flows <- MCFlows
    Builds <- MCBuilds
    NodeIds = {"start", "call", "log"}
    Names = {"org.echo", "echo"}
    Dirs = {"org.echo", "echo"}
    Versions = {1, 2}
    Payloads = {"text", "card"}
    Operations = {"echo", "shout"}
    ShortOf <- MCShortOf
    NoBuild = NoBuild
    NoPack = NoPack
    NoConfig = NoConfig
    NoOperation = NoOperation
    MaxBuilds = 2
    MaxChanges = 2
INVARIANTS
    PackServesNodes
    OneDefaultOperation
    ConfigsMatchPack
SYMMETRY Symmetry
CHECK_DEADLOCK FALSE
