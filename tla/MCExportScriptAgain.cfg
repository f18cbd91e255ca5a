CONSTANTS
    N = 3
    SortKeys <- MCSortKeys
    Field <- MCField
    Missing = Missing
    SortCommands <- MCSortCommands
    k1 = k1
    k2 = k2
    KeywordOf <- MCKeywordOf
    EmptyText = EmptyText
    GivenAnchors = {1}
    MaxLevel = 1
    MaxLines = 2
SPECIFICATION Spec
INVARIANT SelectingAgainIsReported
