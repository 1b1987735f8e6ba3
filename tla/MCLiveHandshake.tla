--------------------------- MODULE MCLiveHandshake ---------------------------
EXTENDS LiveHandshake

(* Two entries of one layer: each may have either coefficient, both high    *)
(* overflow the buffer.                                                     *)
Zero == [e \in Entries |-> 0]
TooHigh == {[e \in Entries |-> 1]}
==============================================================================
