SPECIFICATION Spec
CONSTANTS
    None = None
    Reader = {"r1", "r2"}
    Asks <- MCAsks
    ItemsOf <- MCItemsOf
    LanguageTag = {"en", "es"}
    MaxAuthors = 2
    MaxCategories = 2
    PageSize = 1
    GutendexPageSize = 2
    MaxPages = 2
    MaxTotal = 3
    Many = {"STANDARD_EBOOKS", "ARXIV"}
    Interval = 1
    Administered = {"ARXIV"}
    Documents <- MCDocuments
    LastPage = 4
    MaxRedirects = 1
    MaxBytes = 2
    Target = 4
    MaxDimension = 2
CHECK_DEADLOCK FALSE
INVARIANTS LoadIsComplete BooksFitTables PageIsOfDocument NothingLeftOpen
PROPERTIES IntervalKept EveryRequestEnds EveryPageEnds
