SPECIFICATION Spec
CONSTANTS
    Kinds = {"local", "gcs", "s3", "as"}
    Files <- MCFiles
    Markers <- MCMarkers
    NamePrefix <- MCNamePrefix
    Model <- MCModel
    Config <- MCConfig
    Probes <- MCProbes
    MaxEdits = 4
INVARIANTS
    StoresAgree
    CopyIsFaithful
PROPERTIES
    ReloadsWhenWritten
CHECK_DEADLOCK FALSE
