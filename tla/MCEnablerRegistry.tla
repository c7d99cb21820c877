-------------------------- MODULE MCEnablerRegistry --------------------------
(* Small instances of EnablerRegistry for TLC.                               *)
EXTENDS EnablerRegistry, TLC

CONSTANTS p1, p2, k1, a, b

\* p1 has a feature once it is configured; p2 has one, which k1 replaces by two.
MCOffers ==
  [p \in Plugins |->
     [k \in Configs \cup {Null} |->
        CASE p = p1 /\ k = Null -> <<>>
          [] p = p2 /\ k # Null -> <<b, a>>
          [] OTHER              -> <<a>>]]

\* Names are alike.
Symmetry == Permutations(Names)

\* What can still be reached: not the plugin objects that nothing refers to,
\* nor the features, the feeds and the histories of rows that are gone.
Reachable ==
  LET rows == {e.id : e \in enablers \cup saved.enablers}
      kept(fs) == {f \in fs : f.enabler \in rows}
      ids == {f.id : f \in kept(features \cup saved.features)}
  IN  <<pluginInfos, enablers, kept(features), identifiers, feeds \cap ids,
        torn \cap ids, spoiled \cap rows, autoCommit,
        saved.enablers, kept(saved.features), saved.feeds \cap ids,
        saved.torn \cap ids, saved.spoiled \cap rows,
        [i \in Numbers |-> IF i \in Live THEN objects[i] ELSE Null], plugins, client>>
==============================================================================
