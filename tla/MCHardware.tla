------------------------------ MODULE MCHardware -----------------------------
(***************************************************************************)
(* Devices of the hardware that work independently of one another, in one  *)
(* model: the initial state says which of them is at work, the others      *)
(* rest.                                                                   *)
(***************************************************************************)
EXTENDS HardwareBounds, DataCache, MethodCache, TLC

VARIABLE device

MCBuilds ==
  [kind : {"through", "back"}, combine : BOOLEAN, bad : {{2}}, shared : {{0}}] \cup
  {[kind |-> "two", combine |-> FALSE, bad |-> {}, shared |-> {0}]}
MCRest == [kind |-> "back", combine |-> FALSE, bad |-> {2}, shared |-> {0}]

\* Both cores fill their buffers, or one of them overflows.
MCAlone == (0 :> {0, 1, 2}) @@ (1 :> {0})
MCUses == {[i \in 0 .. 1 |-> {0, 1}], MCAlone}

MCMethod == {"main", "small", "leaf"}
MCSize == [m \in MCMethod |-> CASE m = "main" -> 6 [] m = "small" -> 3 [] m = "leaf" -> 1]

MCInit ==
  /\ device \in {"cas", "tm", "stack", "data", "method"}
  /\ CasInit /\ TmInit /\ ScInit /\ DcInit /\ McInit
  /\ device # "cas" => /\ spm = [a \in CasAddr |-> 0] /\ rdData = 0
                       /\ \A c \in CasCore : {cas[c].addr, cas[c].exp, cas[c].new} = {0}
  /\ device # "tm" => bufsize = 2 /\ uses = MCAlone
  /\ device # "stack" => sc.icache = "method"
  /\ device # "data" => dc.build = MCRest

Cas == device = "cas" /\ CasNext /\ UNCHANGED <<device, tmvars, scvars, dcvars, mcvars>>
Tm == device = "tm" /\ TmNext /\ UNCHANGED <<device, casvars, scvars, dcvars, mcvars>>
Stack == device = "stack" /\ ScNext /\ UNCHANGED <<device, casvars, tmvars, dcvars, mcvars>>
DCache == device = "data" /\ DcNext /\ UNCHANGED <<device, casvars, tmvars, scvars, mcvars>>
MCache == device = "method" /\ McNext /\ UNCHANGED <<device, casvars, tmvars, scvars, dcvars>>

MCNext == Cas \/ Tm \/ Stack \/ DCache \/ MCache

\* What follows once a call of the method cache was too early is not explored: the property
\* excepts it.
MCExplored == ~ mc.early

MCSpec == MCInit /\ [][MCNext]_<<device, casvars, tmvars, scvars, dcvars, mcvars>>

\* The registers of every device keep their widths, and its tables fit together: a buffer
\* or cache has one entry for an address, and the stack cache no more words than its size.
HardwareTypeOK == CasTypeOK /\ TmTypeOK /\ ScTypeOK /\ DcTypeOK /\ McTypeOK
==============================================================================
