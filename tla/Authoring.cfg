SPECIFICATION MCSpec
CONSTANTS
    Clients = {c1, c2}
    Versions = {v1, v2}
    Artifacts <- MCArtifacts
    Dirs = {d1}
    Damaged = Damaged
    Partial = Partial
    Digests <- MCDigests
    Sha <- MCSha
    None = None
    MaxRounds = 3
    old = old
    new = new
    Missing = Missing
    Broken = Broken
    Failed = Failed
    oauth = oauth
    web = web
    null = null
    set = set
    Failing = Failing
    Mixed = Mixed
    Mapping = Mapping
    EmptyFile = EmptyFile
    ConfigFileNames <- FileNames
    Environments <- MCEnvironments
    ConfigKeys <- MCConfigKeys
    SchemaKeys <- MCSchemaKeys
    Profiles = {"a", "b"}
    Settings <- MCSettings
    FileArgs <- MCFileArgs
    InitialDisks <- MCInitialDisks
    MaxSettings = 3
    FlowPaths <- MCFlowPaths
    Stem <- MCStem
    Scalars <- MCScalars
    Components <- MCComponents
    FlowKeys <- MCFlowKeys
    Segment <- MCSegment
    Documents <- MCDocuments
    Schemas <- MCSchemas
    BrokenSchemas = {"broken"}
    Accepts <- MCAccepts
    Answers <- MCAnswers
    Stub <- MCStub
    MaxSecond = 1
    MaxRebuilds = 1
INVARIANTS
    TypesOK
    OneSchemaPerComponent
    TranscriptTells
    TranscriptKept
PROPERTIES
    ImplementsRegistry
    SetTakesEffect
    ProfilesKept
SYMMETRY Symmetry
CHECK_DEADLOCK FALSE
