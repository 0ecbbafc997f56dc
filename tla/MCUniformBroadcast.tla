-------------------------- MODULE MCUniformBroadcast --------------------------
(* Small instances of UniformBroadcast. *)
EXTENDS UniformBroadcast, TLC

CONSTANTS p1, p2, p3, m1

OneMessage == (m1 :> p1)

=============================================================================
