---------------------------- MODULE MCHeaderSync ----------------------------
(***************************************************************************)
(* Two peers and a chain of a few headers.                                 *)
(***************************************************************************)
EXTENDS HeaderSync, TLC

CONSTANTS p, q

Peers == Permutations({p, q})
=============================================================================
