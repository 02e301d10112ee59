SPECIFICATION Spec
CONSTANTS
    Launchers = {l1, l2}
    Commands <- AllCommands
    Documents <- AllDocuments
    Outs = {out}
    Schemas <- MCSchemas
    DefaultSchema = "1.0.0"
    Delegated <- MCDelegated
    packDoc = packDoc
    bundleDoc = bundleDoc
    out = out
    EmptyDoc = EmptyDoc
    BadDoc = BadDoc
    NoDoc = NoDoc
    NoDir = NoDir
    NoAnswers = NoAnswers
    NoPlan = NoPlan
    NoSchema = NoSchema
    MaxClock = 1
    MaxRuns = 2
INVARIANTS
    RunRecorded
    ExecutedIsLogged
    NothingRunUnasked
SYMMETRY Symmetry
CHECK_DEADLOCK FALSE
