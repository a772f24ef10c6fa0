------------------------------ MODULE MCHosts ------------------------------
(***************************************************************************)
(* Small instances of HostRecovery for TLC: a source and two directories   *)
(* to restore into.                                                        *)
(***************************************************************************)
EXTENDS HostRecovery, TLC

CONSTANTS a, b, c, x

Copies == Permutations(Hosts \ {First})
=============================================================================
