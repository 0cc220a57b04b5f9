---------------------------- MODULE MCHostResources ----------------------------
(* HostResources on small instances for TLC.                                *)
EXTENDS HostResources, TLC

\* Starts differ in nothing but their names; the runs check invariants only.
StartSymmetry == Permutations(Starts)
=============================================================================
