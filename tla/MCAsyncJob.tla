----------------------------- MODULE MCAsyncJob -----------------------------
(* The job against an arbitrary main thread.  The event counters grow only  *)
(* within one job, so the instance is finite without a constraint.          *)
EXTENDS AsyncJob
=============================================================================
