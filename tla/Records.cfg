SPECIFICATION RecordsSpec
CONSTANTS
    Slot = {x, y}
    Capacity = 2
    MaxEvents = 4
    Trio = {u, v, w}
    Ids = {1, 2, 3, 4}
    Latest = 2
    PageSize = 2
    LongestPage = 3
    PageSizes <- SomeSizes
    UrlLen = 2
    BioLen = 3
    Texts <- SomeTexts
    Connections = 2
    SessionsEver = 3
SYMMETRY Symmetric
INVARIANTS RowsAccountedFor OnlyAdminsServed AnswerIsLater SomeAdmin NobodySkipped SomebodyGoesOn
PROPERTIES OnlyProvidedFields AllOrNothing
