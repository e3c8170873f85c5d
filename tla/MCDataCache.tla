----------------------------- MODULE MCDataCache -----------------------------
(***************************************************************************)
(* A write-back data cache alone at the memory, which may accept the first *)
(* word of a burst late.                                                   *)
(***************************************************************************)
EXTENDS DataCache

MCWriteBack == {[kind |-> "back", combine |-> FALSE, bad |-> {}, shared |-> {}]}
==============================================================================
