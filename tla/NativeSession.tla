---------------------------- MODULE NativeSession ---------------------------
(***************************************************************************)
(* What the native ownership domain promises (decision D-037), without     *)
(* saying how: native work happens inside numbered sessions.  A number is  *)
(* used once, at most one thread is inside native code, and a session is   *)
(* neither closed nor replaced under a thread that is inside.              *)
(***************************************************************************)
EXTENDS Naturals

CONSTANTS Threads, NoThread, MaxGeneration

VARIABLES
  latest,   \* the last session number that was opened
  session,  \* the open session, 0 if none
  user      \* the thread inside native code

vars == <<latest, session, user>>

Init ==
  /\ latest = 0
  /\ session = 0
  /\ user = NoThread

Open ==
  /\ session = 0
  /\ latest' \in latest + 1 .. MaxGeneration
  /\ session' = latest'
  /\ UNCHANGED user

Begin(t) ==
  /\ session # 0
  /\ user = NoThread
  /\ user' = t
  /\ UNCHANGED <<latest, session>>

End ==
  /\ user # NoThread
  /\ user' = NoThread
  /\ UNCHANGED <<latest, session>>

Close ==
  /\ session # 0
  /\ user = NoThread
  /\ session' = 0
  /\ UNCHANGED <<latest, user>>

Next == Open \/ (\E t \in Threads : Begin(t)) \/ End \/ Close

Spec == Init /\ [][Next]_vars
=============================================================================
