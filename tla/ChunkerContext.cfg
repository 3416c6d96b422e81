CONSTANTS
    Alphabets <- MCAlphabets
    Topic = "topic"
    Nil = Nil
    Shapes <- MCShapes
    Tables <- MCTables
    MaxTokens = 11
    TargetTokens = 8
    PrefixLimit = 3
    Blank = Blank
    Process = {"p1", "p2"}
    Plans <- MCPlans
    Answers <- MCAnswers
    Retries = 2
    StaleAfter = 0
    MaxTime = 2
    MaxCrashes = 1
    Absent = Absent
    Runner = {"r1", "r2"}
    Registry <- MCRegistry
    Pages <- MCPages
    FallbackOn = {"gazette_record_not_found"}
    Readable = {1, 2, 3, 4, 5, 6, 8}
    Converted <- MCConverted
    Options <- MCOptions
    MaxRuns = 3
    Missing = Missing
    Layouts <- MCLayouts
    Styles <- MCStyles
    Abstracts <- MCAbstracts
    Lists <- MCLists
    Wanted = 3
    SelectedNumbers = {1, 3}
    BaseTitles <- MCBaseTitles
    NoValue = NoValue
    BaseArticles <- MCBaseArticles
    DocxVersions = {1, 2}
    Crawled = {1}
    Rulings <- MCRulings
    Questions <- MCQuestions
    LongTexts = {99}
    NearTexts = {30}
    MaxBuilds = 1
    MaxCompletions = 2
    MaxAudits = 2
    Unset = Unset
SPECIFICATION Spec
INVARIANT ContextIsExact
CHECK_DEADLOCK FALSE
