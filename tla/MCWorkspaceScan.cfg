CONSTANTS
    Root = "."
    Paths <- Names
    Directories = {".github", "vendor"}
    Excluded = {"vendor"}
    Parent <- Directory
    Kind <- Kinded
    Contents <- Holds
    MaxEntries = 5
    MaxFiles = 2
    MaxFileBytes = 2
    MaxTotalBytes = 3
    MaxChanges = 1
    MaxFailures = 1
SPECIFICATION Spec
INVARIANTS
    SourcesSound
    NothingMissedSilently
    LaunchKnows
