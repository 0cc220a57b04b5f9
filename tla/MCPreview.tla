------------------------------ MODULE MCPreview ------------------------------
(* PreviewLifecycle on small instances for TLC.                             *)
EXTENDS PreviewLifecycle, TLC

CONSTANTS p1, u1

OneOwner == p1 :> u1
=============================================================================
