\* Responses made only of CNAME records, at most one per section, over
\* owners and targets that can form a cycle through two names.
CONSTANTS
    MaxCount = 1
    MaxQuestions = 0
    QueryNames <- MCQueryNames
    QuestionNames <- MCQuestionNames
    Owners <- CnameOwners
    Types <- CnameTypes
    TTLs = {0}
    Targets <- CnameTargets
    Unreadable = Unreadable
SPECIFICATION Spec
INVARIANT CnameCycleDetected
