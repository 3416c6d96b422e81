CONSTANTS
    r1 = r1
    r2 = r2
    r3 = r3
    v1 = v1
    v2 = v2
    ann = ann
    bob = bob
    None = None
    Requests <- MCRequests
    Users <- MCUsers
    OldReviews = {v1}
    Limit = 1
    Chunks = {1, 2, 3, 4, 5}
    Releases = {"current", "next", "empty"}
    PointsOf <- MCPoints
    Expected = "current"
    DocumentOf <- MCDocuments
    CandidateK = 4
    ContextK = 3
    RrfK = 60
    SparseWeight = 1
    DenseWeight = 9
    Preserved = 1
    Window = 3
    Scale <- MCScale
    Passages = {1, 2, 3, 4}
    CodeOf <- MCCodes
    ListingOf <- MCListings
    Categories <- MCCategories
    PreferredOf <- MCPreferred
    PreferredBonus = 2
    MaxRaw = 3
    MaxScore = 2
    TopK = 2
    PoolK = 3
    Facts <- MCFacts
    Unknown = Unknown
    Datasets = {"d1", "d2", "locked"}
    LockedOnes = {"locked"}
    CasesOf <- MCCasesOf
    Panels <- MCPanels
    Organization <- MCOrganization
    MinModels = 2
    Answers = {"claims", "timeout", "bad_usage"}
    MaxRuns = 2
    Nothing = Nothing
    Cases = {"q1", "q2"}
    Answerable = {"q1"}
    Labels = {"none", "claims", "moved", "outside"}
    CitesOf <- MCCitesOf
    EvidenceOf <- MCEvidenceOf
    ArticlesOf <- MCArticlesOf
    Corpora = {"bound", "other"}
    Bound = "bound"
    ArticleOf <- MCArticleOf
    Adjudications <- MCAdjudications
    NoClaims = "none"
    NoFile = NoFile
    Asked <- MCAsked
    ExpectedCount = 3
    Responses <- MCResponses
    BreakAfter = 2
    MaxVerifications = 2
    NotWritten = NotWritten
SPECIFICATION AllSpec
SYMMETRY Symmetry
INVARIANTS
    ContinuedWithSameDataset
CHECK_DEADLOCK FALSE
