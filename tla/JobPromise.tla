----------------------------- MODULE JobPromise -----------------------------
(***************************************************************************)
(* What asynchronous generation promises (API-GRAMMAR.md section 9), as    *)
(* the code keeps it: one engine, lent to one job at a time; a promise     *)
(* per job, settled once; the engine is back before its job settles; and   *)
(* an accepted cancellation is never followed by a result.                 *)
(***************************************************************************)
EXTENDS Naturals

CONSTANT MaxJobs

VARIABLES
  verdict,    \* the state of each promise
  busy,       \* the job that has the engine, 0 if none
  accepted    \* the jobs whose cancellation was accepted

vars == <<verdict, busy, accepted>>

Jobs == 1 .. MaxJobs
Rejections == {"cancelled", "failed", "consumer", "internal"}

Init ==
  /\ verdict = [j \in Jobs |-> "unsubmitted"]
  /\ busy = 0
  /\ accepted = {}

(* A submission gets the engine only when it is free.  One that does not    *)
(* start is rejected at once, or is pending without the engine.             *)
Submit(j) ==
  /\ verdict[j] = "unsubmitted"
  /\ \/ /\ busy = 0
        /\ verdict' = [verdict EXCEPT ![j] = "pending"]
        /\ busy' = j
     \/ /\ \E v \in {"pending", "failed"} : verdict' = [verdict EXCEPT ![j] = v]
        /\ UNCHANGED busy
  /\ UNCHANGED accepted

(* Only the job that has the engine can be cancelled, and only once.        *)
Cancel(j) ==
  /\ busy = j
  /\ verdict[j] = "pending"
  /\ j \notin accepted
  /\ accepted' = accepted \cup {j}
  /\ UNCHANGED <<verdict, busy>>

(* The engine comes back before its job settles.                            *)
Return ==
  /\ busy # 0
  /\ busy' = 0
  /\ UNCHANGED <<verdict, accepted>>

(* A pending promise settles, after or together with the return of the      *)
(* engine if its job has it; it resolves only without a cancellation.       *)
Settle(j, v) ==
  /\ verdict[j] = "pending"
  /\ v = "resolved" => j \notin accepted
  /\ verdict' = [verdict EXCEPT ![j] = v]
  /\ busy' \in {busy, 0} /\ busy' # j
  /\ UNCHANGED accepted

Next ==
  \E j \in Jobs :
    \/ Submit(j) \/ Cancel(j) \/ Return
    \/ \E v \in Rejections \cup {"resolved"} : Settle(j, v)

Spec == Init /\ [][Next]_vars
=============================================================================
