---------------------------- MODULE MCTmConflict -----------------------------
(* Two cores whose transactions use the same two words.                              *)
EXTENDS TransactionalMemory

MCUses == {[i \in TmCore |-> {0, 1}]}
==============================================================================
