\* No new Task after shutdown.
SPECIFICATION Spec
CONSTANTS
    t1 = t1
    t2 = t2
    t3 = t3
    n1 = n1
    NoTask = NoTask
    Tasks = {t1}
    Notices = {}
    Kinds = {"task"}
    Events = {"shutdown"}
    CredentialRefresh = FALSE
    FollowUpLimit = 1
    MaxEntries = 1
    MaxChain = 1
PROPERTIES
    NoStartAfterShutdown
\* The Session may stop: no caller has to come, and it may be closed.
CHECK_DEADLOCK FALSE
