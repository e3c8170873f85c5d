------------------------------- MODULE MCS4noc -------------------------------
(***************************************************************************)
(* A network of nine cores in which one core sends in the slot that leads  *)
(* one hop to the south.                                                   *)
(***************************************************************************)
EXTENDS S4noc

MCSouth == {[n |-> 3, streams |-> {<<8, 7>>}]}
==============================================================================
