CONSTANTS
    Article = Article
    Book = Book
    t1 = t1
    t2 = t2
    Labels = {10}
    Types = {Article, Book}
    Titles = {t1, t2}
    NoTitle = NoTitle
    CommentType = CommentType
    Inputs <- MCInputs
    PublicationWidth = 3
    MaxDepth = 5
    MaxItems = 2
    MaxSmall = 2
SPECIFICATION Spec
INVARIANT LatestIsKept
