----------------------------- MODULE RunLedger ------------------------------
(***************************************************************************)
(* What the runs of an Activity promise its author, without the lock, the  *)
(* timer, the Sessions and the server behind them (ActivityRuns): one run  *)
(* at a time, one end for each, and a draft in which a run's result only   *)
(* ever replaces what that run was made from.                              *)
(***************************************************************************)
CONSTANTS
    Runs,
    Contents,  \* what the draft may hold
    Blank      \* what a new one holds

VARIABLES
    status,    \* of each run
    input,     \* what the draft held when the run was opened
    draft,     \* what it holds
    taken,     \* the results that went into it, and what each replaced
    archived   \* the Activity was deleted from its author's view

ledger == <<status, input, draft, taken, archived>>

Ends == {"succeeded", "failed", "cancelled", "conflict", "interrupted"}

Init ==
    /\ status = [r \in Runs |-> "none"]
    /\ input = [r \in Runs |-> Blank]
    /\ draft = Blank
    /\ taken = {}
    /\ archived = FALSE

Open(r) ==
    /\ ~archived
    /\ status[r] = "none" /\ \A s \in Runs : status[s] # "running"
    /\ status' = [status EXCEPT ![r] = "running"]
    /\ input' = [input EXCEPT ![r] = draft]
    /\ UNCHANGED <<draft, taken, archived>>

End(r, end) ==
    /\ status[r] = "running"
    /\ status' = [status EXCEPT ![r] = end]
    /\ UNCHANGED <<input, draft, taken, archived>>

\* To any content, the one there is and an earlier one included.
Change == draft' \in Contents

\* The run publishes its result as it ends, or it is accepted later.
TakeResult(r) ==
    /\ status[r] \in {"running", "succeeded"}
    /\ input[r] = draft
    /\ Change /\ taken' = taken \cup {[by |-> r, over |-> draft]}
    /\ UNCHANGED <<status, input, archived>>

Edit ==
    /\ ~archived
    /\ Change
    /\ UNCHANGED <<status, input, taken, archived>>

Archive ==
    /\ \A r \in Runs : status[r] # "running"
    /\ archived' = TRUE
    /\ UNCHANGED <<status, input, draft, taken>>

\* The Project is deleted, and with it the rows of the runs it had.
Remove ==
    /\ status' = [r \in Runs |-> IF status[r] = "none" THEN "none" ELSE "gone"]
    /\ UNCHANGED <<input, draft, taken, archived>>

Next ==
    \/ \E r \in Runs : Open(r) \/ TakeResult(r) \/ \E end \in Ends : End(r, end)
    \/ Edit \/ Archive \/ Remove

Spec == Init /\ [][Next]_ledger
=============================================================================
