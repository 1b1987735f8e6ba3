---------------------------- MODULE LiveSteering ----------------------------
(***************************************************************************)
(* The data of the steering commands (rebirth-llm/src/live_steering.rs):   *)
(* a coefficient for every original steering entry, and replies that       *)
(* replace some of them.  Directions, layers and the arithmetic of the     *)
(* adapter buffer are abstracted to the set of the coefficients whose      *)
(* buffer overflows.                                                       *)
(***************************************************************************)
CONSTANTS
  Entries,          \* LiveRequest.steering, the original steering entries
  Coefs,            \* the finite coefficients
  Original,         \* LiveSteer.coef of each entry
  Unrepresentable   \* coefficients that rebuild refuses

Vectors == [Entries -> Coefs]

ASSUME SteeringAssumption ==
  /\ Original \in Vectors
  /\ Unrepresentable \subseteq Vectors \ {Original}

(* LiveReply: coefficients of distinct entries.  No reply and the empty     *)
(* reply are the same (unwrap_or_default).                                  *)
Replies == UNION {[S -> Coefs] : S \in SUBSET Entries}
NoReply == [e \in {} |-> CHOOSE c \in Coefs : TRUE]

(* The reply names only some of the entries; the others keep the value.     *)
Overlay(v, r) == [e \in Entries |-> IF e \in DOMAIN r THEN r[e] ELSE v[e]]
=============================================================================
