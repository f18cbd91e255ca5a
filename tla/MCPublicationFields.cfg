CONSTANTS
    Entries <- MCEntries
    Options <- MCOptions
    PDFInfos <- MCPDFInfos
    MaxRuns = 2
    MaxText = 3
    MaxItems = 2
SPECIFICATION Spec
INVARIANTS
    TypeOK
    ChildrenInOrder
    DaysAreJudged
    NumberErrorsAreFound
    PagesAreCounted
    ReadsBack
    WrittenIsReadable
PROPERTY
    UpdatesAreFound
