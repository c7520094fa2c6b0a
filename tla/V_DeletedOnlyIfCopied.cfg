CONSTANTS
    Tasks = {t1, t2}
    Sessions = {s1}
    Refs = {p1, p2}
    None = None
    Requests = {"completed", "ended", "provision", "downgrade", "transfer", "destroy"}
    Referred = FALSE
    Policies = {"keep_bill_user", "export_delete"}
    Default = "migrate_back"
    MaxAttempts = 2
    MaxFaults = 1
SPECIFICATION Spec
SYMMETRY Symmetric
CHECK_DEADLOCK FALSE
PROPERTIES DeletedOnlyIfCopied
