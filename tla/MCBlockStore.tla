---------------------------- MODULE MCBlockStore ----------------------------
(* Instance of BlockStore for TLC. *)
EXTENDS BlockStore

MCFileNumber == 0 .. 2

=============================================================================
