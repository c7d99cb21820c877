--------------------------- MODULE MCScriptSockets ---------------------------
(* Requests and objects are alike.                                           *)
EXTENDS ScriptSockets, TLC

Symmetry == Permutations(Threads) \cup Permutations(Objects)
==============================================================================
