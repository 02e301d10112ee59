SPECIFICATION Spec
CONSTANTS
    Versions <- MCVersions
    PlainVersions = {2, 4}
    ResearchOnes = {1, 3}
    VersionLane <- MCVersionLane
    Procs = {p1, p2}
    Catalogue <- MCCatalogue
    Channels = {"stable", "rnd"}
    Publishable <- MCPublishable
    SideLoads <- MCSideLoads
    MaxBinstall = 2
    MaxInstalls = 2
INVARIANTS
    NothingForgotten
    StillNewEnough
SYMMETRY Symmetry
CHECK_DEADLOCK FALSE
