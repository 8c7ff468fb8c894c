CONSTANTS
    Records <- AllRecords
    MaxMetadataLength = 256
    MaxNoteLength = 512
SPECIFICATION Spec
CHECK_DEADLOCK FALSE
INVARIANT
    CreatedProjectsReimport
