---------------------------- MODULE MCCEventLoop ----------------------------
(* Model values for the descriptors that the OS hands out.                  *)
EXTENDS CEventLoop, TLC

Symmetry == Permutations(Fds)
==============================================================================
