\* A queued follow-up and a stale runtime.
SPECIFICATION Spec
CONSTANTS
    t1 = t1
    t2 = t2
    t3 = t3
    n1 = n1
    NoTask = NoTask
    Tasks = {t1, t2}
    Notices = {}
    Kinds = {"queue", "compact"}
    Events = {"credentials"}
    CredentialRefresh = TRUE
    FollowUpLimit = 1
    MaxEntries = 2
    MaxChain = 2
INVARIANTS
    FollowUpKept
\* The Session may stop: no caller has to come, and it may be closed.
CHECK_DEADLOCK FALSE
