\* No waits between the idle check and the launch: three inputs, a queue of two.
SPECIFICATION Spec
CONSTANTS
    t1 = t1
    t2 = t2
    t3 = t3
    n1 = n1
    NoTask = NoTask
    Tasks = {t1, t2, t3}
    Notices = {n1}
    Kinds = {"queue", "compact", "switch", "fork"}
    Events = {"sweep", "credentials", "delete"}
    CredentialRefresh = FALSE
    FollowUpLimit = 2
    MaxEntries = 2
    MaxChain = 1
INVARIANTS
    NoStrandedNotice
    SnapshotIsQuiet
PROPERTIES
    NoStartWhileDeleting
    KeepsMailbox
\* The Session may stop: no caller has to come, and it may be closed.
CHECK_DEADLOCK FALSE
