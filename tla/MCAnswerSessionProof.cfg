SPECIFICATION Spec
CONSTANTS
    None = None
    Invalid = Invalid
    Roles = {"current", "original", "first"}
    Preferred = "current"
    Original = "original"
    Stores <- MCRelationStores
    Questions <- Related
    Filters <- MCFilters
INVARIANTS
    OfferedSupportOpens
