CONSTANTS
    Jobs = {j1, j2}
    x1 = x1  x2 = x2
    c1 = c1  c2 = c2
    k1 = k1  k2 = k2  k3 = k3  k4 = k4  k5 = k5
    Collections <- MCCollections
    Corpora <- MCCorpora
    Content <- MCContent
    Release <- MCRelease
    BatchSize = 2
    SampleSize = 1
    OneIndexer = TRUE
    None = None
    Versions = {"old", "new", "cut", "spoilt"}
    ChunksIn <- MCChunksIn
    ArticlesIn <- MCArticlesIn
    IdIn <- MCIdIn
    ConfiguredId = "2026"
    Documents = {1, 2, 3}
    Queries = {"q"}
    FoundDocuments <- MCFoundDocuments
    FoundArticles <- MCFoundArticles
    DocumentsPerPage = 1
    ArticlesPerPage = 1
    Unreadable = Unreadable
    Failed = Failed
    Nothing = Nothing
SPECIFICATION ServingSpec
SYMMETRY MCSymmetry
INVARIANTS  ReportsHold ReadyMeansComplete ShownIsAsked
PROPERTIES ReleaseKept
