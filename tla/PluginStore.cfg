SPECIFICATION Spec
CONSTANTS
    v1 = v1
    v2 = v2
    c1 = c1
    c2 = c2
    Requests = {r1, r2}
    Versions = {v1, v2}
    Contents = {c1, c2}
    Offers <- TwoBuilds
    Protected = protected
    Nil = nil
    SeedVersion = v1
    SeedContent = c1
    MaxIds = 2
    MaxCrashes = 1
INVARIANTS
    TypeOK
    FilesMatchRows
    RendersWhatIsInstalled
PROPERTIES
    OnlyItsImportWrites
    InstalledStaysInPlace
    UninstallSparesSlots
    ServerComesUp
