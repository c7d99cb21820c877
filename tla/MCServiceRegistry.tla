-------------------------- MODULE MCServiceRegistry --------------------------
(* Small instances of ServiceRegistry for TLC.                               *)
EXTENDS ServiceRegistry, TLC

\* Clients, names, configurations and plugins are alike.
Symmetry ==
  Permutations(Clients) \cup Permutations(Names)
    \cup Permutations(Configs) \cup Permutations(Plugins)
==============================================================================
