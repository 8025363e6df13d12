\* Every operation and every outside event, one input.
SPECIFICATION Spec
CONSTANTS
    t1 = t1
    t2 = t2
    t3 = t3
    n1 = n1
    NoTask = NoTask
    Tasks = {t1}
    Notices = {}
    Kinds = {"task", "queue", "retry", "goal", "compact", "switch", "fork", "preload"}
    Events = {"sweep", "credentials", "delete", "deleteFails", "settleTimeout", "shutdown"}
    CredentialRefresh = TRUE
    FollowUpLimit = 1
    MaxEntries = 2
    MaxChain = 1
INVARIANTS
    TypeOK
    OneDrivePerEntry
    NoStrandedFollowUp
\* The Session may stop: no caller has to come, and it may be closed.
CHECK_DEADLOCK FALSE
