----------------------------- MODULE TraceFiles -----------------------------
(***************************************************************************)
(* What live observation promises of its trace files (NEWS.md, live trace   *)
(* spilling): one file per state, made after the one before was taken by    *)
(* the caller, given away complete or removed, and the caller's from then   *)
(* on.                                                                     *)
(***************************************************************************)
EXTENDS Naturals

CONSTANT States   \* number of states of the job

VARIABLE status   \* per state: what became of its file

Ids == 1 .. States

Init == status = [k \in Ids |-> "absent"]

Create(k) ==
  /\ status[k] = "absent"
  /\ \A j \in 1 .. k - 1 : status[j] = "delivered"
  /\ status' = [status EXCEPT ![k] = "open"]

Complete(k) ==
  /\ status[k] = "open"
  /\ status' = [status EXCEPT ![k] = "whole"]

(* Only a complete file is given to the caller, who owns it.                *)
Deliver(k) ==
  /\ status[k] = "whole"
  /\ status' = [status EXCEPT ![k] = "delivered"]

(* The end of the job, or a file that nobody could take charge of.          *)
Remove(k) ==
  /\ status[k] \in {"open", "whole"}
  /\ status' = [status EXCEPT ![k] = "removed"]

Leak(k) ==
  /\ status[k] = "open"
  /\ status' = [status EXCEPT ![k] = "leaked"]

Next == \E k \in Ids : Create(k) \/ Complete(k) \/ Deliver(k) \/ Remove(k) \/ Leak(k)

Spec == Init /\ [][Next]_status
=============================================================================
