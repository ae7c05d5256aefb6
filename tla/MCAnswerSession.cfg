SPECIFICATION Spec
CONSTANTS
    None = None
    Invalid = Invalid
    Roles = {"current", "original", "first"}
    Preferred = "current"
    Original = "original"
    Stores <- MCStores
    Questions <- MCQuestions
    Filters <- MCFilters
INVARIANTS
    TypeOK
    SupportOpens
    QuoteIsDrawn
    AnswersKeepToSource
    ChoiceHolds
    AnswerShowsSupport
    ClaimIsProved
