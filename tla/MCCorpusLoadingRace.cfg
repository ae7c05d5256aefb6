SPECIFICATION Spec
CONSTANTS
    c0 = c0
    c1 = c1
    Absent = Absent
    Artifacts = {1, 3}
    ManifestName = 2
    Contents = {c0, c1}
    Outputs <- MCOutputs
    Valid <- MCOutputs
    Attested <- MCOutputs
    MaxAttempts = 1
    Crashes = FALSE
    Threads = {t1, t2}
    None = None
    PublishedLimit = 1
    MaxChanges = 2
INVARIANTS
    CachedOnlyIfUnchanged
