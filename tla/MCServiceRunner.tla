--------------------------- MODULE MCServiceRunner ---------------------------
(* Small instances of ServiceRunner for TLC.                                 *)
EXTENDS ServiceRunner, TLC

\* Clients are alike, and so are configurations; threads are numbered.
Symmetry == Permutations(Clients) \cup Permutations(Configs)
==============================================================================
