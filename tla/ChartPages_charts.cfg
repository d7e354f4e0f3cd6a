SPECIFICATION PagesSpec
CONSTANTS
    a = a
    b = b
    None = None
    Versions = {1, 2}
    Texts = {a, b}
    Offered <- MCOffered
    MaxPublished = 1
    MaxClicks = 4
    MaxReconnects = 1
    none = none
    few = few
    many = many
    Queries = {none, few, many}
    NoText = none
    Matches <- MCMatches
    Enabled <- MCEnabled
    PageSize = 3
INVARIANTS
    TypeOK
    DocumentsOfVersion
    CompleteAtEnd
PROPERTY EditsSurvive
CHECK_DEADLOCK FALSE
