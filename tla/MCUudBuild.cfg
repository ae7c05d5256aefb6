CONSTANTS
    Words <- MCWords
    KindOf <- MCKindOf
    Corpora <- MCCorpora
    Suspect <- MCSuspect
SPECIFICATION GateSpec
INVARIANTS
    AnswerIsCitable
    CitationStandsOnItsLines
    CitationSaysItsText
    FurnitureIsNeverQuoted
    ParentHoldsChildren
    WordsChosenOnce
    GraphCloses
    NoLawLost
    CleanBuildPasses
    PublishedIsServed
    ServedIsDrawn
    LossIsNoticed
