--------------------------- MODULE ReportContract ---------------------------
(* What the documents promise of the published files, without runs, rows and *)
(* processes: each file shows nothing, a ranked view of a complete           *)
(* collection, one regenerated on command from committed state, or the       *)
(* unranked view that follows an erasure.                                    *)
CONSTANT Files
VARIABLES
    shown,      \* per file: its view
    erasing     \* an erasure is not complete yet

vars == <<shown, erasing>>

Init ==
    /\ shown = [f \in Files |-> "none"]
    /\ erasing = FALSE

\* A file is replaced while nothing is to be erased.
Publish(f, view) ==
    /\ ~erasing
    /\ view \in {"ranked", "regenerated"}
    /\ shown' = [shown EXCEPT ![f] = view]
    /\ UNCHANGED erasing

\* During an erasure a file is taken away or replaced by the unranked view.
Withdraw(f, view) ==
    /\ erasing
    /\ view \in {"none", "unranked"}
    /\ shown' = [shown EXCEPT ![f] = view]
    /\ UNCHANGED erasing

Request ==
    /\ erasing' = TRUE
    /\ UNCHANGED shown

\* No file from before the erasure is left when it is complete.
Complete ==
    /\ erasing
    /\ \A f \in Files : shown[f] \in {"none", "unranked"}
    /\ erasing' = FALSE
    /\ UNCHANGED shown

Next ==
    \/ \E f \in Files, view \in {"ranked", "regenerated"} : Publish(f, view)
    \/ \E f \in Files, view \in {"none", "unranked"} : Withdraw(f, view)
    \/ Request \/ Complete

Spec == Init /\ [][Next]_vars
=============================================================================
