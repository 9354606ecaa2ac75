-------------------------- MODULE MCHeaderStore --------------------------
(***************************************************************************)
(* A tree of seven headers: the branch o-c-l with a fork x at its end, and *)
(* the branch y1-y2 whose headers carry more work each, so that a lower    *)
(* tip can be the heavier.                                                 *)
(***************************************************************************)
EXTENDS HeaderStore, TLC

CONSTANTS g, o, c, l, x, y1, y2

MCHash == {g, o, c, l, x, y1, y2}

Parent == (o :> g) @@ (c :> o) @@ (l :> c) @@ (x :> c) @@ (y1 :> g) @@ (y2 :> y1)

MCChain ==
    LET chain[h \in MCHash] ==
            IF h = g THEN <<g>> ELSE Append(chain[Parent[h]], h)
    IN  chain

MCWork == [h \in MCHash |-> IF h \in {y1, y2} THEN 2 ELSE 1]

MCCheckpoint == [n \in {} |-> g]

=============================================================================
