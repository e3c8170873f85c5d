------------------------------- MODULE Arbiter -------------------------------
(***************************************************************************)
(* The round-robin memory arbiter,                                         *)
(* hardware/src/main/scala/ocp/Arbiter.scala, with the buffers at its      *)
(* ports (OcpBurstBuffer) and three of the memories it is built with:      *)
(* on-chip memory, io/OCRamCtrl.scala, and a bridge to DDR3 memory,        *)
(* io/DDR3Bridge.scala, which always have this arbiter, and the SRAM chip  *)
(* of the DE2-115 board, io/SRamCtrl.scala, which has it when the          *)
(* configuration says roundRobinArbiter, as default.xml does               *)
(* (patmos/Patmos.scala).  All of them always accept.                      *)
(*                                                                         *)
(* One step is one clock cycle.  The memory behind the bridge answers      *)
(* after at most DdrDelay cycles.                                          *)
(***************************************************************************)
EXTENDS SRamCtrl

CONSTANTS DdrDelay,
          Watched     \* the cores whose cycles are counted

ASSUME DelayBounded == DdrDelay \in Nat /\ Watched \subseteq ArbCore

VARIABLES memory,     \* a parameter of the build: the controller of the memory
          mbuf,       \* mbuf[c]: MBuffer of core c, a sequence of signals
          sbuf,       \* sbuf[c]: SBuffer of core c, the response of the last cycle
          arb,        \* stateReg, turnReg, burstCntReg
          ram         \* the registers of the memory controller

arbvars == <<memory, mbuf, sbuf, arb, ram>>

RamAtRest(i) ==
  [state |-> "idle", cnt |-> 0, core |-> 0, side |-> "none",
   reading |-> FALSE, writing |-> FALSE, waited |-> 0, intact |-> i]

ArbInit ==
  /\ memory \in {"OCRamCtrl", "DDR3Bridge", "SRamCtrl"}
  /\ mbuf = [c \in ArbCore |-> [i \in 1 .. burstLength |-> NoSignal]]
  /\ sbuf = [c \in ArbCore |-> NoResp]
  /\ arb = [state |-> "sIdle", turn |-> 0, burstCnt |-> 0]
  /\ ram = IF memory = "SRamCtrl" THEN ReadyChip(TRUE) ELSE RamAtRest(TRUE)

\* The signals at the memory.
SlaveM == mbuf[arb.turn][1]
BufferFree(c) == mbuf[c][1].cmd = "IDLE"
-----------------------------------------------------------------------------
\* History: every word that the memory stores is the one that belongs there.
Stored(r, k) == [r EXCEPT !.intact = @ /\ SlaveM.core = r.core /\ SlaveM.side = r.side /\ SlaveM.word = k]

\* A transaction begins.
Taken(r, state) == [r EXCEPT !.state = state, !.core = SlaveM.core, !.side = SlaveM.side, !.cnt = 0]

\* OCRamCtrl; burstCntReg is 0 here when it is idle.
OcramResp ==
  IF ram.state = "read" THEN WordResp(ram.core, ram.side, ram.cnt)
  ELSE IF ram.state = "write" /\ ram.cnt = LastWordOf THEN DoneResp(ram.core, ram.side) ELSE NoResp

OcramStep ==
  LET end == ram.cnt = LastWordOf
      goes == IF ram.state = "idle" THEN ram
              ELSE IF end THEN RamAtRest(ram.intact) ELSE [ram EXCEPT !.cnt = @ + 1]
      stored == IF ram.state = "write" /\ ~ end THEN Stored(goes, ram.cnt + 1) ELSE goes IN
  CASE SlaveM.cmd = "RD" -> Taken(stored, "read")
    [] SlaveM.cmd = "WR" -> Stored(Taken(stored, "write"), 0)
    [] OTHER -> stored

\* DDR3Bridge; wait is waitrequest of a write, and that the words of a read are not there.
DdrResp(wait) ==
  IF ram.state # "idle" THEN NoResp
  ELSE IF ram.reading THEN WordResp(ram.core, ram.side, ram.cnt)
  ELSE IF ram.writing /\ ~ wait THEN DoneResp(ram.core, ram.side) ELSE NoResp

DdrStep(wait) ==
  LET r == [ram EXCEPT !.waited = IF wait THEN @ + 1 ELSE 0] IN
  CASE ram.state = "idle" ->
         LET begun == CASE SlaveM.cmd = "WR" -> [Stored(Taken(r, "write"), 0) EXCEPT !.cnt = 1]
                        [] SlaveM.cmd = "RD" -> Taken(r, "read")
                        [] OTHER -> r IN
         IF ram.reading
         THEN IF ram.cnt = LastWordOf THEN [begun EXCEPT !.reading = FALSE] ELSE [begun EXCEPT !.cnt = ram.cnt + 1]
         ELSE IF ram.writing /\ ~ wait THEN [begun EXCEPT !.writing = FALSE] ELSE begun
    [] ram.state = "read" -> IF wait THEN r ELSE [r EXCEPT !.cnt = 0, !.reading = TRUE, !.state = "idle"]
    [] ram.state = "write" ->
         LET s == Stored(r, ram.cnt) IN
         IF ram.cnt = LastWordOf THEN [s EXCEPT !.writing = TRUE, !.state = "idle", !.cnt = 0]
         ELSE [s EXCEPT !.cnt = @ + 1]

DdrMayWait == memory = "DDR3Bridge" /\ ram.waited < DdrDelay /\ (ram.state = "read" \/ (ram.state = "idle" /\ ram.writing))
-----------------------------------------------------------------------------
\* Mutant: a core without a request keeps its turn.
NextTurnOfBusy(a) ==
  IF a.state = "sIdle" THEN a
  ELSE [a EXCEPT !.turn = IF @ = arbcnt - 1 THEN 0 ELSE @ + 1, !.state = "sIdle"]

NextTurnOf(a) == [a EXCEPT !.turn = IF @ = arbcnt - 1 THEN 0 ELSE @ + 1, !.state = "sIdle"]

\* Mutant: the turn passes on with the first word of a read.
ReadDoneEarly == TRUE

\* The last of the responses to a read.
ReadDone == arb.burstCnt = LastWordOf

ArbStep(resp) ==
  CASE arb.state = "sIdle" ->
         CASE SlaveM.cmd = "RD" -> [arb EXCEPT !.state = "sRead"]
           [] SlaveM.cmd = "WR" -> [arb EXCEPT !.state = "sWrite", !.burstCnt = 0]
           [] OTHER -> NextTurnOf(arb)
    [] arb.state = "sWrite" -> IF resp = NoResp THEN arb ELSE NextTurnOf(arb)
    [] arb.state = "sRead" ->
         IF resp = NoResp THEN arb
         ELSE LET counted == [arb EXCEPT !.burstCnt = (@ + 1) % burstLength] IN
              IF ReadDone THEN NextTurnOf(counted) ELSE counted

\* OcpBurstBuffer; the memory always accepts, so the core whose turn it is may shift.
BufferStep(resp) ==
  /\ mbuf' = [c \in ArbCore |->
                IF BufferFree(c) \/ c = arb.turn THEN Append(Tail(mbuf[c]), JoinedM(c)) ELSE mbuf[c]]
  /\ sbuf' = [c \in ArbCore |-> IF c = arb.turn THEN resp ELSE NoResp]

ArbNext ==
  \E wait \in BOOLEAN :
    /\ wait => DdrMayWait
    /\ LET resp == CASE memory = "OCRamCtrl" -> OcramResp
                     [] memory = "DDR3Bridge" -> DdrResp(wait)
                     [] memory = "SRamCtrl" -> SRamResp(ram) IN
       /\ arb' = ArbStep(resp)
       /\ ram' = CASE memory = "OCRamCtrl" -> OcramStep
                   [] memory = "DDR3Bridge" -> DdrStep(wait)
                   [] memory = "SRamCtrl" -> SRamStep(ram, SlaveM)
       /\ BufferStep(resp)
    /\ OcpStep([c \in ArbCore |-> BufferFree(c)], sbuf, [c \in ArbCore |-> [s \in Side |-> c \in Watched]])
    /\ UNCHANGED memory
-----------------------------------------------------------------------------
\* Bursts stay whole from the caches through joins, buffers and arbiter to the memory and
\* back, whatever the other cores do: each response is the word that its port waits for, and
\* the memory stores the words of a write in their places.
BurstsExact == ram.intact /\ \A c \in ArbCore : Exact(c, sbuf[c])

\* The cycles of a burst: at most one of the other port before it, each with a turn of every
\* core, a pass through the buffers, and what the memory takes.
MemoryTakes ==
  CASE memory = "OCRamCtrl" -> burstLength
    [] memory = "DDR3Bridge" -> burstLength + DdrDelay + 1
    [] memory = "SRamCtrl" -> burstLength + 2 * TransPerWord * burstLength
BurstTakes == arbcnt * (MemoryTakes + 1) + burstLength + 1
ArbInTime == \A c \in ArbCore, s \in Side : ports[c][s].waits <= (IF priority THEN 2 ELSE 1) * BurstTakes
=============================================================================
