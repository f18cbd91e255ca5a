CONSTANTS
    Templates <- MCTemplates
    MaxAuthors = 3
    MaxLength = 3
    MaxBlocks = 6
    MaxLoop = 4
SPECIFICATION FairSpec
INVARIANTS
    TypeOK
    StackIsSound
    AuthorIsThere
    WritesMeaning
    WellFormedIsAccepted
PROPERTY
    TemplateEnds
