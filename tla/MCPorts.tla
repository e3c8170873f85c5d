------------------------------- MODULE MCPorts -------------------------------
(***************************************************************************)
(* Two cores with a queuing channel each way, so that each waits for the   *)
(* other, and a sampling channel to a third core.                          *)
(***************************************************************************)
EXTENDS Ports, TLC

MCCore == 0 .. 2
MCsrc == (0 :> 0) @@ (1 :> 1) @@ (2 :> 0)
MCsink == (0 :> 1) @@ (1 :> 0) @@ (2 :> 2)
MCport_type == (0 :> "QUEUING") @@ (1 :> "QUEUING") @@ (2 :> "SAMPLING")

\* Enough memory for every port (at most three blocks each), or core 1 cannot hold all
\* of its two ports, or core 2 has no room for the sample buffers.
MCEnough == [c \in MCCore |-> 9]
MCSpm == {MCEnough, [MCEnough EXCEPT ![1] = 2], [MCEnough EXCEPT ![1] = 3], [MCEnough EXCEPT ![2] = 2]}
==============================================================================
