--------------------------- MODULE NodeTdmArbiter ----------------------------
(***************************************************************************)
(* Time-division multiplexing of the memory: hardware/src/main/scala/ocp/  *)
(* NodeTdmArbiter.scala, one NodeTdmArbiter per core, MemMuxIntf with its  *)
(* pipeline registers, and the memory it is timed for, io/SRamCtrl.scala.  *)
(*                                                                         *)
(* One step is one clock cycle.  A core may send a command only in the     *)
(* first cycle of its slot; nobody waits for the memory, the arbiters      *)
(* count its cycles.                                                       *)
(***************************************************************************)
EXTENDS SRamCtrl

CONSTANT ctrlDelay   \* the cycles the memory takes for a burst

\* What ctrlDelay = 16 stands for: two cycles for each access, with words of 32 bits and a
\* chip of 16 bits; wrCntReg is compared with a constant 4.
ASSUME TimedForSRam == ctrlDelay = 2 * TransPerWord * burstLength /\ burstLength = 4

\* Mutant: no cycle between two slots.
slotLenShort == burstLength + ctrlDelay

slotLen == burstLength + ctrlDelay + 1
period == arbcnt * slotLen
numPipe == 3

VARIABLES cntReg,     \* the position in the period, the same in every NodeTdmArbiter
          cpuSlot,    \* the core whose slot begins, or -1
          node,       \* node[c]: stateReg and the counters of the arbiter of core c
          pipe,       \* the pipeline registers of MemMuxIntf
          sram        \* the registers of SRamCtrl

tdmvars == <<cntReg, cpuSlot, node, pipe, sram>>

\* wrCntReg and rdCntReg are one counter here, 0 when idle: each is set when it comes to use.
IdleNode == [state |-> "sIdle", cnt |-> 0, burstCnt |-> 0]

TdmInit ==
  /\ cntReg = 0 /\ cpuSlot = -1
  /\ node = [c \in ArbCore |-> IdleNode]
  /\ pipe = [p1 |-> [c \in ArbCore |-> NoSignal], p2 |-> NoSignal, resp |-> NoResp]
  /\ sram = ReadyChip(TRUE)
-----------------------------------------------------------------------------
\* NodeTdmArbiter: what it sends on to the memory, accepts and answers in this cycle.
Begins(c) == node[c].state = "sIdle" /\ cpuSlot = c /\ JoinedM(c).cmd # "IDLE"

\* The slot of core c begins, but not for the burst that port s waits for.
Misses(c, s) == cpuSlot = c /\ ~ (Begins(c) /\ JoinedM(c).side = s)

NodeM(c) ==
  IF Begins(c) \/ (node[c].state = "sWrite" /\ node[c].cnt < LastWordOf)
               \/ (node[c].state = "sRead" /\ node[c].cnt < LastWordOf)
  THEN JoinedM(c) ELSE NoSignal

\* CmdAccept with the first word, DataAccept with every word of a write.
NodeAccepts(c) == Begins(c) \/ (node[c].state = "sWrite" /\ node[c].cnt < LastWordOf)

\* The cycles in which responses of the memory belong to this core.
RespWindow(c) == node[c].cnt >= ctrlDelay + numPipe

\* A write, always of the data cache, is answered by the arbiter itself.
NodeResp(c) ==
  CASE node[c].state = "sWrite" /\ node[c].cnt = 4 -> DoneResp(c, "right")
    [] node[c].state = "sRead" /\ RespWindow(c) -> pipe.resp
    [] OTHER -> NoResp

NodeStep(c) ==
  LET n == node[c]  got == NodeResp(c) # NoResp IN
  CASE n.state = "sIdle" ->
         IF Begins(c) THEN [n EXCEPT !.state = IF JoinedM(c).cmd = "RD" THEN "sRead" ELSE "sWrite"] ELSE n
    [] n.state = "sWrite" ->
         IF got THEN IdleNode ELSE [n EXCEPT !.cnt = CountTo(@, burstLength + ctrlDelay + numPipe)]
    [] n.state = "sRead" ->
         IF got /\ n.burstCnt = LastWordOf THEN IdleNode
         ELSE [n EXCEPT !.cnt = CountTo(@, 2 * burstLength + ctrlDelay + numPipe),
                        !.burstCnt = IF got THEN @ + 1 ELSE @]
-----------------------------------------------------------------------------
\* MemMuxIntf: the second stage is the OR of the first.  Two cores at once make nonsense.
Clash == [NoSignal EXCEPT !.cmd = "WR"]
Busy == {c \in ArbCore : pipe.p1[c] # NoSignal}
OrOfAll ==
  IF Busy = {} THEN NoSignal
  ELSE IF \E c \in Busy : Busy = {c} THEN pipe.p1[CHOOSE c \in Busy : TRUE] ELSE Clash

MemMuxStep(resp) == pipe' = [p1 |-> [c \in ArbCore |-> NodeM(c)], p2 |-> OrOfAll, resp |-> resp]

\* slotTable
SlotOf == IF cntReg % slotLen = 0 THEN cntReg \div slotLen ELSE -1

TdmNext ==
  /\ cntReg' = CountTo(cntReg, period - 1)
  /\ cpuSlot' = SlotOf
  /\ node' = [c \in ArbCore |-> NodeStep(c)]
  /\ MemMuxStep(SRamResp(sram))
  /\ sram' = SRamStep(sram, pipe.p2)
  /\ OcpStep([c \in ArbCore |-> NodeAccepts(c)], [c \in ArbCore |-> NodeResp(c)],
             [c \in ArbCore |-> [s \in Side |-> Misses(c, s)]])
-----------------------------------------------------------------------------
\* Slots of burstLen + ctrlDelay + 1 cycles are long enough, to the cycle: a command never
\* reaches a memory that is still busy, the words of a write are stored in their places, and
\* each response, which MemMuxIntf sends to every core, is taken by the one that waits for it.
SlotsExact == sram.intact /\ \A c \in ArbCore : Exact(c, NodeResp(c))

\* A burst is done in the first slot of its core after the request, or in the second when
\* the other cache of the core takes the first.  Other cores make no difference.
TdmInTime == \A c \in ArbCore, s \in Side : ports[c][s].waits <= IF priority THEN 1 ELSE 0
=============================================================================
