-------------------------- MODULE ErasureContract --------------------------
(***************************************************************************)
(* What the erasure workflow promises, without lock, files or steps.       *)
(*                                                                         *)
(* `live` is the data the tracker shows, `copies` whatever else of it is   *)
(* still on disk, `gone` the data a source asked to erase.  Erased data    *)
(* may survive in copies only while an erasure that covers it is due, and  *)
(* no new copy of erased data is ever made.                                *)
(***************************************************************************)
CONSTANTS
    Data,           \* units of source data
    Keys,           \* erasure events
    Covers(_, _)    \* Covers(k, d): completing event k erases d everywhere

VARIABLES live, copies, gone, due

vars == <<live, copies, gone, due>>

Init == live = {} /\ copies = {} /\ gone = {} /\ due = {}

\* The pipeline stores `new` and erases `old` in one transaction; every unit
\* erased is covered by an event that is due from then on.
Update(new, old, queued) ==
    /\ old \subseteq live
    /\ new \cap old = {}
    /\ live' = (live \ old) \cup new
    /\ gone' = (gone \ live') \cup old
    /\ due' = due \cup queued
    /\ \A d \in old : \E k \in due' : Covers(k, d)
    /\ copies' = copies \cup old

\* Files come and go; what is added is live.
Copy ==
    /\ copies' \subseteq copies \cup live
    /\ UNCHANGED <<live, gone, due>>

\* Every due erasure is settled at once, when no copy of erased data is left.
Settle ==
    /\ copies \cap gone = {}
    /\ due' = {}
    /\ UNCHANGED <<live, copies, gone>>

\* An older state comes back, without any erased data.
Restore ==
    /\ due = {}
    /\ live' \subseteq live \cup copies
    /\ live' \cap gone = {}
    /\ copies' \subseteq copies
    /\ due' \subseteq Keys
    /\ UNCHANGED gone

Next ==
    \/ \E new, old \in SUBSET Data, queued \in SUBSET Keys : Update(new, old, queued)
    \/ Copy
    \/ Settle
    \/ Restore

Spec == Init /\ [][Next]_vars

\* Erased data is neither shown nor kept without an erasure being due.
Promise ==
    /\ live \cap gone = {}
    /\ \A d \in copies \cap gone : \E k \in due : Covers(k, d)
=============================================================================
