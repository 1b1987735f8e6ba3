--------------------------- MODULE MCNativeDomain ---------------------------
(* Three threads: R's main thread, a generation worker and a foreign owner *)
(* that drops a model; every one may take every step of the domain.        *)
EXTENDS NativeDomain
=============================================================================
