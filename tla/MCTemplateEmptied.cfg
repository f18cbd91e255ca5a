CONSTANTS
    Templates <- MCTemplates
    MaxAuthors = 3
    MaxLength = 3
    MaxBlocks = 6
    MaxLoop = 4
SPECIFICATION Spec
INVARIANT
    BlocksAreEmptied
