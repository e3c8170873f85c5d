-------------------------------- MODULE CASPM --------------------------------
(***************************************************************************)
(* The shared scratchpad with compare-and-swap,                            *)
(* hardware/src/main/scala/cmp/CASPM.scala.  A core stores the expected    *)
(* and the new value into registers of the device and then loads from the  *)
(* address: the load is the compare-and-swap and returns the old value.    *)
(*                                                                         *)
(* One step is one clock cycle.  The cores take turns (cnt), for three     *)
(* cycles each (precnt).  Words are stored whole (ByteEn is not modelled). *)
(***************************************************************************)
EXTENDS Integers

CONSTANTS corecnt, CasAddr, Data

ASSUME CoreAssumption == corecnt \in Nat \ {0}

CasCore == 0 .. corecnt - 1

VARIABLES spm,     \* the memory
          rdData,  \* spm.io.S.Data: what the memory read in the cycle before
          precnt, cnt,
          cas,     \* per core: its state and registers
          caswait  \* history, per core: the cycles since its load was taken

casvars == <<spm, rdData, precnt, cnt, cas, caswait>>

cntmax == 2

\* The registers that the reset leaves alone hold anything.
CasInit ==
  /\ spm \in [CasAddr -> Data] /\ rdData \in Data
  /\ precnt = 0 /\ cnt = 0
  /\ cas \in [CasCore -> [state : {"sIdle"}, cmd : {"RD"}, resp : {FALSE}, addr : CasAddr,
                          exp : Data, new : Data]]
  /\ caswait = [c \in CasCore |-> 0]

\* The cores that may put a command on their ports; the others wait for a response.
CasFree == {c \in CasCore : cas[c].state = "sIdle"}
CasCmd == [is : {"none"}] \cup [is : {"RD"}, addr : CasAddr]
          \cup [is : {"exp", "new"}, data : Data]

\* Mutant: the memory is read in the last cycle of a turn.
ServedLate(c) == cnt = c /\ precnt = cntmax

Equal(c) == rdData = cas[c].exp
Served(c) == cnt = c /\ precnt = 0
NextCnt == IF precnt # cntmax THEN cnt ELSE (cnt + 1) % corecnt

\* The registers of core c after a cycle in which it puts m on its port.
CasStep(c, m) ==
  LET r == [cas[c] EXCEPT !.cmd = "RD", !.resp = FALSE] IN
  CASE r.state = "sIdle" /\ m.is = "none" -> r
    [] r.state = "sIdle" /\ m.is = "RD" -> [r EXCEPT !.state = "sRead", !.addr = m.addr]
    [] r.state = "sIdle" /\ m.is = "exp" -> [r EXCEPT !.exp = m.data]
    [] r.state = "sIdle" /\ m.is = "new" -> [r EXCEPT !.new = m.data]
    [] r.state = "sRead" -> [r EXCEPT !.state = IF Served(c) THEN "sWrite" ELSE "sRead"]
    [] r.state = "sWrite" -> [r EXCEPT !.state = "sIdle", !.resp = TRUE,
                                       !.cmd = IF Equal(c) THEN "WR" ELSE "RD"]

\* The memory serves the core whose turn it is.  What it reads in a cycle in which it
\* writes is undefined (MemBlock without bypass).
CasMemory ==
  LET r == cas[cnt] IN
  IF r.cmd = "WR" THEN spm' = [spm EXCEPT ![r.addr] = r.new] /\ rdData' \in Data
                  ELSE spm' = spm /\ rdData' = spm[r.addr]

CasNext ==
  \E m \in [CasFree -> CasCmd] :
    /\ cas' = [c \in CasCore |-> CasStep(c, IF c \in CasFree THEN m[c] ELSE [is |-> "none"])]
    /\ caswait' = [c \in CasCore |-> IF cas'[c].state = "sIdle" THEN 0 ELSE caswait[c] + 1]
    /\ CasMemory
    /\ precnt' = IF precnt = cntmax THEN 0 ELSE precnt + 1
    /\ cnt' = NextCnt
-----------------------------------------------------------------------------
\* Every register holds a value of its width.
CasTypeOK ==
  /\ spm \in [CasAddr -> Data] /\ rdData \in Data
  /\ precnt \in 0 .. cntmax /\ cnt \in CasCore
  /\ cas \in [CasCore -> [state : {"sIdle", "sRead", "sWrite"}, cmd : {"RD", "WR"},
                          resp : BOOLEAN, addr : CasAddr, exp : Data, new : Data]]

\* The memory and the calls as the cores see them: a swap counts from the cycle of its
\* response, in which the write is on its way to the memory.
Memory == [a \in CasAddr |->
             IF \E c \in CasCore : cas[c].cmd = "WR" /\ cas[c].addr = a
             THEN cas[CHOOSE c \in CasCore : cas[c].cmd = "WR" /\ cas[c].addr = a].new ELSE spm[a]]
Call(c) == CASE cas[c].resp -> [is |-> "done", old |-> rdData]
             [] ~ cas[c].resp /\ cas[c].state = "sIdle" -> [is |-> "idle"]
             [] OTHER -> [is |-> "pending", addr |-> cas[c].addr,
                          exp |-> cas[c].exp, new |-> cas[c].new]

Atomic == INSTANCE AtomicCAS WITH Core <- CasCore, Addr <- CasAddr, mem <- Memory,
                                  call <- [c \in CasCore |-> Call(c)]

\* The load of CASPM is an atomic compare-and-swap: it compares, writes and returns the old
\* value in one step, whatever the other cores do.
AtomicSwap == Atomic!Spec

\* Every load is answered in time: after a turn of each core and one cycle.
CasInTime == \A c \in CasCore : caswait[c] <= (cntmax + 1) * corecnt + 1
==============================================================================
