SPECIFICATION Spec
CONSTANTS
    Corpora = {uud, perppu}
    Registrable = {uud}
    Counted = {uud}
    ResolveFaults = {"manifest_missing"}
    LoadFaults = {"artifact_sha256_mismatch"}
    Versions = {v1, v2}
    SharedLimit = 1
    Threads = {t1, t2}
    None = None
    MaxChanges = 1
INVARIANTS
    UnknownIsUnsupported
