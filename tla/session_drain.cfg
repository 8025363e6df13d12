\* Liveness, small.
SPECIFICATION FairSpec
CONSTANTS
    t1 = t1
    t2 = t2
    t3 = t3
    n1 = n1
    NoTask = NoTask
    Tasks = {t1, t2}
    Notices = {n1}
    Kinds = {"task", "queue", "compact"}
    Events = {"sweep", "credentials", "delete"}
    CredentialRefresh = FALSE
    FollowUpLimit = 1
    MaxEntries = 2
    MaxChain = 2
PROPERTIES
    FollowUpsDrain
\* The Session may stop: no caller has to come, and it may be closed.
CHECK_DEADLOCK FALSE
