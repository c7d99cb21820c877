---------------------------- MODULE MCHubDatabase ----------------------------
(* Small instances of HubDatabase for TLC.                                   *)
EXTENDS HubDatabase, TLC

\* Names are alike, and so are configurations and clients.
Symmetry ==
  Permutations(Names) \cup Permutations(Configs) \cup Permutations(Clients)
==============================================================================
