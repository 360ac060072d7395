--------------------------- MODULE RequestContract ---------------------------
(***************************************************************************)
(* What the bridge promises about one native operation: the native side    *)
(* works on a request at most once, work that was revoked never counts as  *)
(* finished, and Python takes a request as done only while it still wants  *)
(* the answer and only when the work ran to its end.  Either side may give *)
(* up at any time, without asking the other.                               *)
(***************************************************************************)
CONSTANT Requests

VARIABLES
    status,   \* Python: "unused", "open", "done" or "dropped"
    work      \* native: "none", "working", "finished" or "revoked"

contractVars == <<status, work>>

Init ==
    /\ status = [r \in Requests |-> "unused"]
    /\ work = [r \in Requests |-> "none"]

Move(f, ids, from, to) ==
    /\ \A r \in ids : f[r] = from
    /\ f' = [r \in Requests |-> IF r \in ids THEN to ELSE f[r]]

Open(r) == Move(status, {r}, "unused", "open") /\ UNCHANGED work
Drop(ids) == Move(status, ids, "open", "dropped") /\ UNCHANGED work
Complete(r) ==
    work[r] = "finished" /\ Move(status, {r}, "open", "done") /\ UNCHANGED work

\* A request may be taken up after Python has dropped it.
Accept(r) ==
    status[r] # "unused" /\ Move(work, {r}, "none", "working") /\ UNCHANGED status
Finish(r) == Move(work, {r}, "working", "finished") /\ UNCHANGED status
Revoke(ids) == Move(work, ids, "working", "revoked") /\ UNCHANGED status

Next ==
    \/ \E r \in Requests : Open(r) \/ Complete(r) \/ Accept(r) \/ Finish(r)
    \/ \E ids \in SUBSET Requests : Drop(ids) \/ Revoke(ids)

Spec == Init /\ [][Next]_contractVars
=============================================================================
