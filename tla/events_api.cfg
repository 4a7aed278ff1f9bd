CONSTANTS
    Event <- EventIds
    Key = {k1, k2}
    Client = {c1, c2}
    Reader = {r1}
    PageSize = 1
    Status = {"pending", "dead"}
    Query = {"dead", "dead letters"}
SPECIFICATION FairSpec
INVARIANTS
    TypeOK
    AnswersAgree
    PagesComplete
PROPERTIES
    ImplementsIntake
    RetriesAreAnswered
    ListingsEnd
