---------------------------- MODULE MCInterconnect ---------------------------
(***************************************************************************)
(* What connects the cores, in one model; the initial state says which of  *)
(* the systems is at work, the others rest:                                *)
(*  - the caches of two cores at the shared memory, with the burst length  *)
(*    of the build, behind the round-robin arbiter with on-chip or DDR3    *)
(*    memory or behind time-division multiplexing, with either join of the *)
(*    caches, and behind the round-robin arbiter with an SRAM chip and the *)
(*    join of a method cache, as in the configurations of DE2-115 boards;  *)
(*  - the network on chip with four or nine cores of which one or two send *)
(*    in one or two slots;                                                 *)
(*  - the network with nine cores that run the producer and the consumer   *)
(*    with credits.                                                        *)
(***************************************************************************)
EXTENDS Arbiter, NodeTdmArbiter, ProdconsFlow

VARIABLE system

\* By symmetry the first stream starts at core 0.  With nine cores the second one comes
\* from the same core or from its neighbour in the east or in the north.
MCNets ==
  {[n |-> 2, streams |-> {<<0, s>>, <<c, t>>}] : s \in {0, 2, 3}, c \in 0 .. 3, t \in {0, 2, 3}} \cup
  {[n |-> 3, streams |-> {<<0, s>>, <<c, t>>}] : s \in {0, 2, 7}, c \in {0, 1, 6}, t \in {1, 3, 5, 8}} \cup
  {FlowNet}

MCRest == [main |-> "start", work |-> "free", NR_CREDITS |-> 2, inserted |-> 0, tokens |-> 0, received |-> 0]

MCInit ==
  /\ system \in {"Arbiter", "TdmArbiterWrapper", "S4noc", "prodcons_flow"}
  /\ OcpInit /\ ArbInit /\ TdmInit /\ S4Init /\ FlowInit
  /\ system # "Arbiter" => memory = "OCRamCtrl"
  /\ memory = "SRamCtrl" => ~ priority
  /\ system \in {"S4noc", "prodcons_flow"} => priority
  /\ system # "S4noc" => net = FlowNet
  /\ system # "prodcons_flow" => flow = MCRest

MCNext ==
  /\ \/ system = "Arbiter" /\ ArbNext /\ UNCHANGED <<tdmvars, s4vars, flow>>
     \/ system = "TdmArbiterWrapper" /\ TdmNext /\ UNCHANGED <<arbvars, s4vars, flow>>
     \/ system = "S4noc" /\ S4Next /\ UNCHANGED <<ocpvars, arbvars, tdmvars, flow>>
     \/ system = "prodcons_flow" /\ FlowNext /\ UNCHANGED <<ocpvars, arbvars, tdmvars>>
  /\ UNCHANGED system

MCSpec == MCInit /\ [][MCNext]_<<system, ocpvars, arbvars, tdmvars, s4vars, flow>>

\* What worst-case execution time analysis assumes of a cache miss: behind the round-robin
\* arbiter a burst is done within a turn of every core, in a time-division multiplexed
\* memory within a period, or within two when the other cache of the core comes first.
BurstsInTime ==
  /\ system = "Arbiter" => ArbInTime
  /\ system = "TdmArbiterWrapper" => TdmInTime

\* No token and no credit is lost in prodcons_flow, and tokens are received in order.
FlowKept == system = "prodcons_flow" => CreditsKept
==============================================================================
