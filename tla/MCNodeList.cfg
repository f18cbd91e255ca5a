CONSTANTS
    Article = Article
    Labels = {1, 2, 3}
    Types = {Article}
    Titles <- MCTitles
    NoTitle = 0
    CommentType = CommentType
    MaxPublications = 5
    Published <- MCPublished
SPECIFICATION Spec
INVARIANTS
    TypeOK
    ListIsSound
    ChildrenHaveOneOwner
PROPERTIES
    ImplementsCollection
