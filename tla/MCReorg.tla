------------------------------ MODULE MCReorg ------------------------------
(***************************************************************************)
(* Instance of Reorg for TLC: a root r, the branch a2 a3, the branch b2 b3 *)
(* and an invalid e3 on b2.  t and s spend the same output of the root's   *)
(* coinbase, c spends t's output and u another output of the root.         *)
(***************************************************************************)
EXTENDS Reorg

CONSTANTS r, a2, a3, b2, b3, e3, cr, ca2, ca3, cb2, cb3, ce3, t, s, c, u

MCFileNumber == 0 .. 1
MCCoinbase == {cr, ca2, ca3, cb2, cb3, ce3}
MCTx == MCCoinbase \cup {t, s, c, u}
MCIns == [x \in MCCoinbase |-> <<>>] @@
         (t :> <<<<cr, 1>>>>) @@ (s :> <<<<cr, 1>>>>) @@ (c :> <<<<t, 1>>>>) @@ (u :> <<<<cr, 2>>>>)
MCOuts == [x \in MCTx |-> IF x = cr THEN 2 ELSE 1]
MCBlock == {r, a2, a3, b2, b3, e3}
MCChain == r :> <<r>> @@ a2 :> <<r, a2>> @@ a3 :> <<r, a2, a3>> @@
           b2 :> <<r, b2>> @@ b3 :> <<r, b2, b3>> @@ e3 :> <<r, b2, e3>>
MCTxs == r :> <<cr>> @@ a2 :> <<ca2, t, c>> @@ a3 :> <<ca3, u>> @@
         b2 :> <<cb2, s>> @@ b3 :> <<cb3, u>> @@ e3 :> <<ce3, t>>
MCWork == r :> 1 @@ a2 :> 2 @@ b2 :> 3 @@ a3 :> 4 @@ b3 :> 5 @@ e3 :> 6
MCStandard == {t, s, c, u}
MCSize == [x \in MCTx |-> IF x = u THEN 2 ELSE 1]
MCFee == (t :> 1) @@ (s :> 2) @@ (c :> 4) @@ (u :> 3) @@ [x \in MCCoinbase |-> 0]

=============================================================================
