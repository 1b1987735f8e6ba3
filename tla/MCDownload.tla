---------------------------- MODULE MCDownload ----------------------------
EXTENDS Download, TLC

Symmetry == Permutations(Sessions)
==============================================================================
