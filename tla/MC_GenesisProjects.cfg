CONSTANTS
    a1 = a1
    NoKey = NoKey
    Docs <- QueryDocs
    ProjectId <- MCProjectId
    ClassId <- MCClassId
    Limit = 2
SPECIFICATION ImportSpec
CHECK_DEADLOCK FALSE
PROPERTY
    ImportedProjectsListed
