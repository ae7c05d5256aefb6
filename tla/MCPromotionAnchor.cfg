SPECIFICATION Spec
CONSTANTS
    c0 = c0
    c1 = c1
    Absent = Absent
    Artifacts = {1, 2, 4}
    ManifestName = 3
    Contents = {c0, c1}
    Outputs <- MCOutputs
    Valid <- MCValid
    MaxAttempts = 2
    Crashes = FALSE
INVARIANTS
    AnchorFollowsPromotion
