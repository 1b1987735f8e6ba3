------------------------------ MODULE Tickets ------------------------------
(***************************************************************************)
(* What the extraction service promises its client about a document, over  *)
(* every crash, restart and stop: an accepted document is computed at most *)
(* once, gets one terminal record and keeps it, and a record that claims   *)
(* an answer of the model comes from that computation                      *)
(* (docs/service-contract.md, sections 3 and 4; examples/funding-service). *)
(***************************************************************************)
EXTENDS Naturals

CONSTANT Docs   \* the documents' identifiers

VARIABLES ticket,   \* ticket[d]: what the store says of the document
          runs      \* runs[d]: how often a worker was given the document

vars == <<ticket, runs>>

Answers == {"success", "error"}
Terminal == Answers \cup {"interrupted"}

Init ==
    /\ ticket = [d \in Docs |-> "unknown"]
    /\ runs = [d \in Docs |-> 0]

Admit(d) ==
    /\ ticket[d] = "unknown"
    /\ ticket' = [ticket EXCEPT ![d] = "accepted"]
    /\ UNCHANGED runs

Run(d) ==
    /\ ticket[d] = "accepted"
    /\ runs[d] = 0
    /\ runs' = [runs EXCEPT ![d] = 1]
    /\ UNCHANGED ticket

Finish(d, state) ==
    /\ ticket[d] = "accepted"
    /\ state \in Answers => runs[d] = 1
    /\ ticket' = [ticket EXCEPT ![d] = state]
    /\ UNCHANGED runs

Next == \E d \in Docs : Admit(d) \/ Run(d) \/ \E state \in Terminal : Finish(d, state)

Spec == Init /\ [][Next]_vars

=============================================================================
