---------------------------- MODULE MCMethodCache ----------------------------
(***************************************************************************)
(* The method cache with the 16 tags of the default configuration and a    *)
(* memory that answers quickly and without errors.                         *)
(***************************************************************************)
EXTENDS MethodCache

MCMethod == {"main", "leaf"}
MCSize == [m \in MCMethod |-> IF m = "main" THEN 14 ELSE 4]

MCSpec == McInit /\ [][McNext /\ mc'.st # "error"]_mcvars
==============================================================================
