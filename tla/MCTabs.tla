------------------------------- MODULE MCTabs -------------------------------
(* Two handlers; scripts are added for all tabs or for the active one. *)
EXTENDS Tabs, TLC

CONSTANTS h1, h2

MCHandlers == {h1, h2}
MCAliases == {"all", "active"}
Symmetry == Permutations(MCHandlers)
=============================================================================
