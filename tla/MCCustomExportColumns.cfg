CONSTANTS
    Inputs <- MCInputs
    MaxColumns = 3
    MaxPublications = 4
    MappingName = "m"
SPECIFICATION Spec
INVARIANT
    AllRowsAreRead
