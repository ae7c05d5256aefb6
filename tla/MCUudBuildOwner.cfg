CONSTANTS
    Words <- MCWords
    KindOf <- MCKindOf
    Corpora <- MCCorpora
    Suspect <- MCSuspect
SPECIFICATION GateSpec
INVARIANTS
    PropositionCitesOwner
