\* The 409 of a Session that is being deleted.
SPECIFICATION Spec
CONSTANTS
    t1 = t1
    t2 = t2
    t3 = t3
    n1 = n1
    NoTask = NoTask
    Tasks = {t1}
    Notices = {}
    Kinds = {"goal"}
    Events = {"delete"}
    CredentialRefresh = FALSE
    FollowUpLimit = 1
    MaxEntries = 1
    MaxChain = 1
PROPERTIES
    NoStartWhileDeleting
\* The Session may stop: no caller has to come, and it may be closed.
CHECK_DEADLOCK FALSE
