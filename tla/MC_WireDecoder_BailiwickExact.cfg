CONSTANTS
    MaxCount = 1
    MaxQuestions = 1
    QueryNames <- MCQueryNames
    QuestionNames <- MCQuestionNames
    Owners <- BailiwickOwners
    Types <- BailiwickTypes
    TTLs = {0, 32768}
    Targets <- NoTarget
    Unreadable = Unreadable
SPECIFICATION Spec

INVARIANT BailiwickCountExact
