SPECIFICATION Spec
CONSTANTS
    Page <- Pages
    Name <- Names
    FirstTag <- First
    Registry <- Listed
    Held <- Nobody
    Hosts <- Some
    MaxEdits <- Edits
    MaxUpdates = 1
    MaxFaults = 1
INVARIANTS SavesKept NeverAhead StaysInMajor
PROPERTY ConflictMeansChange
CHECK_DEADLOCK FALSE
