\* Responses of one question and up to one record per section, over owners
\* inside, outside and lookalike-outside the zone, in two letter cases, the
\* record types the decoder distinguishes and CNAME targets.
CONSTANTS
    MaxCount = 1
    MaxQuestions = 1
    QueryNames <- MCQueryNames
    QuestionNames <- MCQuestionNames
    Owners <- AllOwners
    Types <- AllTypes
    TTLs = {0}
    Targets <- CnameTargets
    Unreadable = Unreadable
SPECIFICATION Spec
INVARIANT TypeOK
INVARIANT OutOfBailiwickSound
INVARIANT SectionCounters
