-------------------------- MODULE MCBlockDownload --------------------------
(***************************************************************************)
(* A chain of three blocks, and a second branch of two blocks that leaves  *)
(* it after the first.                                                     *)
(***************************************************************************)
EXTENDS BlockDownload, TLC

CONSTANTS a1, a2, a3, b2, b3, p, q, u

Short == {a1, a2, a3}

ShortChain == (a1 :> <<a1>>) @@ (a2 :> <<a1, a2>>) @@ (a3 :> <<a1, a2, a3>>)

Fork == Short \cup {b2, b3}

ForkChain == ShortChain @@ (b2 :> <<a1, b2>>) @@ (b3 :> <<a1, b2, b3>>)

\* The fork without the last block of the first branch: the second is longer.
Longer == Fork \ {a3}

LongerChain == [x \in Longer |-> ForkChain[x]]

Peers == Permutations({p, q})
=============================================================================
