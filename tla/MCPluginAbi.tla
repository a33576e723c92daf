---------------------------- MODULE MCPluginAbi -----------------------------
(* Instances of PluginAbi for TLC.                                         *)
EXTENDS PluginAbi, TLC

CallSymmetry == Permutations(Calls)
=============================================================================
