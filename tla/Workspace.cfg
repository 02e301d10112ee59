SPECIFICATION Spec
CONSTANTS
    Procs = {p1, p2}
    Commands <- MCCommands
    Offers <- MCOffers
    Names <- MCNames
    Versions <- MCVersions
    Digests = {"sha256-a", "sha256-b", "sha256-p", "sha256-q"}
    Bytes = {"a", "b", "p", "q"}
    SemVers = {"1.0.0", "0.0.0"}
    ZeroVersion = "0.0.0"
    SlugOf <- MCSlugOf
    DirOf <- MCDirOf
    Slugs = {"org-llm", "other"}
    Dirs = {"demo", "other"}
    PackFiles <- MCPackFiles
    EntryNames = {"bundle.gtpack", "flow", "doc", "../up"}
    Suspicious = {"../up"}
    NoDigest = NoDigest
    NoFile = NoFile
    Torn = Torn
    NoOffer = NoOffer
    MaxCommands = 3
INVARIANTS
    EntryHoldsDigest
    NoAdditionLost
    DirectoryOfOnePack
SYMMETRY Symmetry
CHECK_DEADLOCK FALSE
