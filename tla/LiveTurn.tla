------------------------------ MODULE LiveTurn ------------------------------
(***************************************************************************)
(* What live observation promises                                          *)
(* (docs/phase6-live-introspection-plan.md, sections 3 and 4): the worker  *)
(* and the callback take turns.  Every sampled token has one state, which  *)
(* the consumer takes and answers before the next token is sampled, and an *)
(* answer holds for all later tokens of the job, unless the job ends.      *)
(***************************************************************************)
EXTENDS Naturals, LiveSteering

VARIABLES
  sampled,    \* tokens sampled
  asked,      \* states taken by the consumer
  answered,   \* states answered
  coefs,      \* the coefficients that the next token is decoded with
  over        \* the generation has ended

vars == <<sampled, asked, answered, coefs, over>>

Init ==
  /\ sampled = 0 /\ asked = 0 /\ answered = 0
  /\ coefs = Original
  /\ over = FALSE

(* The next token, when every state before it is answered.                  *)
Sample ==
  /\ ~over /\ sampled = answered
  /\ sampled' = sampled + 1
  /\ UNCHANGED <<asked, answered, coefs, over>>

(* The consumer takes the state of the sampled token.                       *)
Ask ==
  /\ ~over /\ asked = answered /\ asked < sampled
  /\ asked' = asked + 1
  /\ UNCHANGED <<sampled, answered, coefs, over>>

Answer ==
  /\ ~over /\ answered < asked
  /\ answered' = asked
  /\ \E r \in Replies : coefs' = Overlay(coefs, r)
  /\ UNCHANGED <<sampled, asked, over>>

(* The end, at any time: the model's own coefficients are back.             *)
End ==
  /\ ~over
  /\ over' = TRUE
  /\ coefs' = Original
  /\ UNCHANGED <<sampled, asked, answered>>

(* Another job of the session.                                              *)
Again == over /\ sampled' = 0 /\ asked' = 0 /\ answered' = 0 /\ coefs' = Original /\ over' = FALSE

Next == Sample \/ Ask \/ Answer \/ End \/ Again

Spec == Init /\ [][Next]_vars
=============================================================================
