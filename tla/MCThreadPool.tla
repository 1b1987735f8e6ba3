---------------------------- MODULE MCThreadPool ----------------------------
EXTENDS ThreadPool

(* Two products in a row, and a node that takes the next one along.         *)
Graph == <<"chunked", "nop", "fused", "unit", "chunked">>
==============================================================================
