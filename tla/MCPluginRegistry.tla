-------------------------- MODULE MCPluginRegistry --------------------------
(* PluginRegistry on a directory of three plug-ins and one other entry.    *)
EXTENDS PluginRegistry, TLC

Symmetry == Permutations(Plugin)
=============================================================================
