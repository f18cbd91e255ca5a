CONSTANTS
    page1 = page1
    page2 = page2
    paper = paper
    archive = archive
    empty = empty
    N = 2
    Http = {1}
    Dynamic = {1}
    Docs = {page1, page2, paper, archive, empty}
    MimeOf <- MCMimeOf
    SizeOf <- MCSizeOf
    None = None
    MaxChecks = 2
SPECIFICATION Spec
INVARIANTS
    TypeOK
    StoredMatchesEntry
    OnlyPDFInfoIsLeft
    NoErrorMeansChecked
    NoErrorMeansSettled
CHECK_DEADLOCK FALSE
