--------------------------- MODULE HardwareProofs ----------------------------
(***************************************************************************)
(* Two memories that cores share, for any number of cores.                 *)
(*                                                                         *)
(* The load of CASPM is an atomic compare-and-swap, for any number of      *)
(* addresses and values.  A core is served in the three cycles of its      *)
(* turn: it reads in the first, compares in the second and writes in the   *)
(* third.  The invariant says which of these a core can be in.             *)
(*                                                                         *)
(* Transactions of TransactionalMemory that commit are serializable and    *)
(* commits are isolated, for any number of addresses and entries (a power  *)
(* of 2).  The invariant says that every address loaded from the shared    *)
(* memory has an entry with its bit in bufrds, so that a write to it sets  *)
(* the conflict flag, and that a load and a commit under way exclude each  *)
(* other.                                                                  *)
(*                                                                         *)
(* Both answer in bounded time.  The invariants bound the cycles that a    *)
(* core has waited by the turns that have passed since.  With the bursts   *)
(* of the stack cache, these are the bounds that the software counts on.   *)
(***************************************************************************)
EXTENDS HardwareBounds, StackProofs

CasSpec == CasInit /\ [][CasNext]_casvars

\* Only the core whose turn it is compares or is answered, with what the memory holds.
TurnOf(c) ==
  /\ cas[c].state = "sWrite" => cnt = c /\ precnt = 1 /\ rdData = spm[cas[c].addr]
  /\ cas[c].resp => cnt = c /\ precnt = 2 /\ rdData = spm[cas[c].addr] /\ cas[c].state = "sIdle"
  /\ cas[c].cmd = "WR" => cas[c].resp

CasRegs == [state : {"sIdle", "sRead", "sWrite"}, cmd : {"RD", "WR"},
            resp : BOOLEAN, addr : CasAddr, exp : Data, new : Data]

CasInv == CasTypeOK /\ \A c \in CasCore : TurnOf(c)

LEMMA CasInvInit == CasInit => CasInv
<1> SUFFICES ASSUME CasInit PROVE CasInv
  OBVIOUS
<1>1. ASSUME NEW c \in CasCore
      PROVE  cas[c] \in CasRegs /\ cas[c].state = "sIdle" /\ ~ cas[c].resp /\ cas[c].cmd = "RD"
  BY Zenon DEF CasInit, CasRegs
<1>2. cas \in [CasCore -> CasRegs]
  BY <1>1, Zenon DEF CasInit
<1>3. precnt \in 0 .. cntmax /\ cnt \in CasCore
  BY CoreAssumption DEF CasInit, CasCore, cntmax
<1> QED
  BY <1>3, Zenon DEF CasInit, CasInv, CasTypeOK, TurnOf

\* A cycle of the registers of one core.
LEMMA StepOfCore ==
  ASSUME CasTypeOK, NEW c \in CasCore, NEW m \in CasCmd
  PROVE  /\ CasStep(c, m) \in CasRegs
         /\ CasStep(c, m).state = "sWrite" <=> cas[c].state = "sRead" /\ Served(c)
         /\ CasStep(c, m).resp <=> cas[c].state = "sWrite"
         /\ CasStep(c, m).cmd = "WR" <=> cas[c].state = "sWrite" /\ Equal(c)
         /\ CasStep(c, m).resp => CasStep(c, m).state = "sIdle"
         /\ cas[c].state # "sIdle" => /\ CasStep(c, m).addr = cas[c].addr
                                      /\ CasStep(c, m).exp = cas[c].exp
                                      /\ CasStep(c, m).new = cas[c].new
         /\ cas[c].state = "sRead" => CasStep(c, m).state # "sIdle"
<1>1. cas[c] \in CasRegs
  BY Zenon DEF CasTypeOK, CasRegs
<1>2. CASE cas[c].state = "sIdle" /\ m.is = "none"
  BY <1>1, <1>2, Zenon DEF CasStep, CasRegs
<1>3. CASE cas[c].state = "sIdle" /\ m.is = "RD"
  <2>1. m.addr \in CasAddr
    BY <1>3, Zenon DEF CasCmd
  <2> QED
    BY <1>1, <1>3, <2>1, Zenon DEF CasStep, CasRegs
<1>4. CASE cas[c].state = "sIdle" /\ m.is = "exp"
  <2>1. m.data \in Data
    BY <1>4, Zenon DEF CasCmd
  <2> QED
    BY <1>1, <1>4, <2>1, Zenon DEF CasStep, CasRegs
<1>5. CASE cas[c].state = "sIdle" /\ m.is = "new"
  <2>1. m.data \in Data
    BY <1>5, Zenon DEF CasCmd
  <2> QED
    BY <1>1, <1>5, <2>1, Zenon DEF CasStep, CasRegs
<1>6. CASE cas[c].state = "sRead"
  BY <1>1, <1>6, Zenon DEF CasStep, CasRegs
<1>7. CASE cas[c].state = "sWrite"
  BY <1>1, <1>7, Zenon DEF CasStep, CasRegs
<1>8. m.is \in {"none", "RD", "exp", "new"}
  BY Zenon DEF CasCmd
<1> QED
  BY <1>1, <1>2, <1>3, <1>4, <1>5, <1>6, <1>7, <1>8, Zenon DEF CasRegs

\* A cycle of the whole device, core by core.
LEMMA CasCycle ==
  ASSUME CasTypeOK, CasNext
  PROVE  /\ CasMemory
         /\ precnt' = IF precnt = cntmax THEN 0 ELSE precnt + 1
         /\ cnt' = NextCnt
         /\ cas' = [c \in CasCore |-> cas'[c]]
         /\ \A c \in CasCore : \E m \in CasCmd : cas'[c] = CasStep(c, m)
<1>1. PICK m \in [CasFree -> CasCmd] :
        /\ cas' = [c \in CasCore |-> CasStep(c, IF c \in CasFree THEN m[c] ELSE [is |-> "none"])]
        /\ CasMemory
        /\ precnt' = IF precnt = cntmax THEN 0 ELSE precnt + 1
        /\ cnt' = NextCnt
  BY Zenon DEF CasNext
<1>2. [is |-> "none"] \in CasCmd
  BY Zenon DEF CasCmd
<1>3. ASSUME NEW c \in CasCore PROVE \E n \in CasCmd : cas'[c] = CasStep(c, n)
  <2>1. (IF c \in CasFree THEN m[c] ELSE [is |-> "none"]) \in CasCmd
    BY <1>2, Zenon
  <2> QED
    BY <1>1, <2>1, Zenon
<1> QED
  BY <1>1, <1>3, Zenon

LEMMA CasInvNext == CasInv /\ [CasNext]_casvars => CasInv'
<1> SUFFICES ASSUME CasInv, [CasNext]_casvars PROVE CasInv'
  OBVIOUS
<1>1. CASE CasNext
  <2>1. cas \in [CasCore -> CasRegs] /\ precnt \in {0, 1, 2} /\ cnt \in CasCore /\ cas[cnt] \in CasRegs
    BY DEF CasInv, CasTypeOK, CasRegs, cntmax
  <2>2. cas' \in [CasCore -> CasRegs]
    <3>1. ASSUME NEW c \in CasCore PROVE cas'[c] \in CasRegs
      BY <1>1, CasCycle, StepOfCore, Zenon DEF CasInv
    <3>2. cas' = [c \in CasCore |-> cas'[c]]
      BY <1>1, CasCycle, Zenon DEF CasInv
    <3> QED
      BY <3>1, <3>2, Zenon
  <2>3. precnt' \in 0 .. cntmax /\ cnt' \in CasCore
    BY <1>1, <2>1, CasCycle, CoreAssumption DEF CasInv, NextCnt, CasCore, cntmax
  <2>4. spm' \in [CasAddr -> Data] /\ rdData' \in Data
    <3>1. cas[cnt].addr \in CasAddr /\ cas[cnt].new \in Data
      BY <2>1, Zenon DEF CasRegs
    <3>2. spm \in [CasAddr -> Data] /\ CasMemory
      BY <1>1, CasCycle, Zenon DEF CasInv, CasTypeOK
    <3>3. CASE cas[cnt].cmd = "WR"
      BY <3>1, <3>2, Zenon DEF CasMemory
    <3>4. CASE cas[cnt].cmd # "WR"
      BY <3>1, <3>2, Zenon DEF CasMemory
    <3> QED
      BY <3>3, <3>4, Zenon
  <2>5. ASSUME NEW c \in CasCore PROVE TurnOf(c)'
    <3>1. PICK m \in CasCmd : cas'[c] = CasStep(c, m)
      BY <1>1, CasCycle, Zenon DEF CasInv
    <3>2. CASE cas[c].state = "sRead" /\ Served(c)
      <4>1. cas[cnt].cmd # "WR"
        BY <3>2, Zenon DEF CasInv, TurnOf, Served
      <4>2. spm' = spm /\ rdData' = spm[cas[c].addr] /\ cnt' = c /\ precnt' = 1
        BY <1>1, <3>2, <4>1, CasCycle DEF CasInv, CasMemory, Served, NextCnt, cntmax
      <4>3. cas'[c].addr = cas[c].addr /\ ~ cas'[c].resp /\ cas'[c].cmd # "WR"
        BY <3>1, <3>2, StepOfCore, Zenon DEF CasInv
      <4> QED
        BY <4>2, <4>3, Zenon DEF TurnOf
    <3>3. CASE cas[c].state = "sWrite"
      <4>1. cnt = c /\ precnt = 1 /\ cas[cnt].cmd # "WR"
        BY <3>3, Zenon DEF CasInv, TurnOf
      <4>2. spm' = spm /\ rdData' = spm[cas[c].addr] /\ cnt' = c /\ precnt' = 2
        BY <1>1, <4>1, CasCycle DEF CasInv, CasMemory, NextCnt, cntmax
      <4>3. cas'[c].addr = cas[c].addr /\ cas'[c].resp /\ cas'[c].state = "sIdle"
        BY <3>1, <3>3, StepOfCore DEF CasInv
      <4> QED
        BY <4>2, <4>3, Zenon DEF TurnOf
    <3>4. CASE ~ (cas[c].state = "sRead" /\ Served(c)) /\ cas[c].state # "sWrite"
      BY <3>1, <3>4, StepOfCore DEF CasInv, TurnOf
    <3> QED
      BY <3>2, <3>3, <3>4, Zenon
  <2> QED
    BY <2>2, <2>3, <2>4, <2>5, Zenon DEF CasInv, CasTypeOK, CasRegs
<1>2. CASE UNCHANGED casvars
  BY <1>2, Zenon DEF casvars, CasInv, CasTypeOK, TurnOf
<1> QED
  BY <1>1, <1>2, Zenon

LEMMA CasInvariant == CasSpec => []CasInv
  BY CasInvInit, CasInvNext, PTL DEF CasSpec

\* The registers of every core, the memory and the turn keep their types.
THEOREM CasTypeCorrect == CasSpec => []CasTypeOK
  BY CasInvariant, PTL DEF CasInv
-----------------------------------------------------------------------------
\* Call and Memory of CASPM as functions of the registers, for a state and for the next.
CallOf(r, d) == CASE r.resp -> [is |-> "done", old |-> d]
                  [] ~ r.resp /\ r.state = "sIdle" -> [is |-> "idle"]
                  [] OTHER -> [is |-> "pending", addr |-> r.addr, exp |-> r.exp, new |-> r.new]

MemoryOf(regs, m) ==
  [a \in CasAddr |->
     IF \E c \in CasCore : regs[c].cmd = "WR" /\ regs[c].addr = a
     THEN regs[CHOOSE c \in CasCore : regs[c].cmd = "WR" /\ regs[c].addr = a].new ELSE m[a]]

\* What a core is told, by the state of its registers.
LEMMA CallIs ==
  ASSUME NEW r \in CasRegs, NEW d \in Data, r.resp => r.state = "sIdle"
  PROVE  /\ r.resp => CallOf(r, d) = [is |-> "done", old |-> d]
         /\ ~ r.resp /\ r.state = "sIdle" => CallOf(r, d) = [is |-> "idle"]
         /\ r.state # "sIdle" => CallOf(r, d) = [is |-> "pending", addr |-> r.addr, exp |-> r.exp, new |-> r.new]
         /\ CallOf(r, d) \in {Atomic!Idle} \cup Atomic!Pending \cup Atomic!Done
         /\ CallOf(r, d) \in Atomic!Pending <=> r.state # "sIdle"
         /\ ~ r.resp => CallOf(r, d) \in Atomic!Pending \cup {Atomic!Idle}
<1>1. CASE r.resp
  BY Zenon DEF CallOf, Atomic!Idle, Atomic!Pending, Atomic!Done, CasRegs
<1>2. CASE ~ r.resp /\ r.state = "sIdle"
  BY Zenon DEF CallOf, Atomic!Idle, Atomic!Pending, Atomic!Done, CasRegs
<1>3. CASE r.state # "sIdle"
  BY Zenon DEF CallOf, Atomic!Idle, Atomic!Pending, Atomic!Done, CasRegs
<1> QED
  BY <1>1, <1>2, <1>3, Zenon

\* The cores see what the memory holds, and a write that is on its way.
LEMMA MemoryIs ==
  ASSUME NEW regs \in [CasCore -> CasRegs], NEW m \in [CasAddr -> Data], NEW turn \in CasCore,
         \A c \in CasCore : regs[c].cmd = "WR" => c = turn
  PROVE  MemoryOf(regs, m) = IF regs[turn].cmd = "WR" THEN [m EXCEPT ![regs[turn].addr] = regs[turn].new] ELSE m
<1>1. ASSUME NEW a \in CasAddr
      PROVE  MemoryOf(regs, m)[a] = IF regs[turn].cmd = "WR" /\ regs[turn].addr = a THEN regs[turn].new ELSE m[a]
  <2>1. CASE regs[turn].cmd = "WR" /\ regs[turn].addr = a
    <3>1. (CHOOSE c \in CasCore : regs[c].cmd = "WR" /\ regs[c].addr = a) = turn
      BY <2>1, Zenon
    <3> QED
      BY Zenon DEF MemoryOf
  <2>2. CASE ~ (regs[turn].cmd = "WR" /\ regs[turn].addr = a)
    BY Zenon DEF MemoryOf
  <2> QED
    BY <2>1, <2>2, Zenon
<1>2. MemoryOf(regs, m) = [a \in CasAddr |-> MemoryOf(regs, m)[a]]
  BY Zenon DEF MemoryOf
<1> QED
  BY <1>1, <1>2, Zenon

\* A core that does not compare in this cycle calls, returns or waits.
LEMMA OthersCallOrReturn ==
  ASSUME CasInv, CasInv', CasNext, NEW c \in CasCore, cas[c].state # "sWrite"
  PROVE  \/ Call(c)' = Call(c)
         \/ Call(c) \notin Atomic!Pending /\ Call(c)' \in Atomic!Pending \cup {Atomic!Idle}
<1>1. PICK m \in CasCmd : cas'[c] = CasStep(c, m)
  BY CasCycle, Zenon DEF CasInv
<1>2. cas[c] \in CasRegs /\ rdData \in Data /\ (cas[c].resp => cas[c].state = "sIdle")
  BY Zenon DEF CasInv, CasTypeOK, CasRegs, TurnOf
<1>3. cas'[c] \in CasRegs /\ rdData' \in Data /\ ~ cas'[c].resp
  BY <1>1, StepOfCore DEF CasInv, CasTypeOK
<1>4. Call(c) = CallOf(cas[c], rdData) /\ Call(c)' = CallOf(cas'[c], rdData')
  BY Zenon DEF Call, CallOf
<1>5. CASE cas[c].state = "sIdle"
  BY <1>2, <1>3, <1>4, <1>5, CallIs
<1>6. CASE cas[c].state = "sRead"
  <2>1. /\ cas'[c].state # "sIdle" /\ cas'[c].addr = cas[c].addr
        /\ cas'[c].exp = cas[c].exp /\ cas'[c].new = cas[c].new
    BY <1>1, <1>6, StepOfCore DEF CasInv
  <2> QED
    BY <1>2, <1>3, <1>4, <1>6, <2>1, CallIs, Zenon
<1> QED
  BY <1>2, <1>5, <1>6, Zenon DEF CasRegs

\* The step of a device with no core that compares leaves the memory as the cores see it.
LEMMA MemoryKept ==
  ASSUME CasInv, CasInv', CasNext, \A c \in CasCore : cas[c].state # "sWrite"
  PROVE  Memory' = Memory
<1>1. cnt \in CasCore /\ cas \in [CasCore -> CasRegs] /\ spm \in [CasAddr -> Data]
  BY Zenon DEF CasInv, CasTypeOK, CasRegs
<1>2. cnt' \in CasCore /\ cas' \in [CasCore -> CasRegs] /\ spm' \in [CasAddr -> Data]
  BY Zenon DEF CasInv, CasTypeOK, CasRegs
<1>3. Memory = IF cas[cnt].cmd = "WR" THEN [spm EXCEPT ![cas[cnt].addr] = cas[cnt].new] ELSE spm
  <2>1. \A c \in CasCore : cas[c].cmd = "WR" => c = cnt
    BY Zenon DEF CasInv, TurnOf
  <2> QED
    BY <1>1, <2>1, Zenon DEF Memory
<1>4. \A c \in CasCore : cas'[c].cmd # "WR"
  BY CasCycle, StepOfCore, Zenon DEF CasInv
<1>5. Memory' = spm'
  BY <1>2, <1>4, Zenon DEF Memory
<1>6. CasMemory
  BY CasCycle, Zenon DEF CasInv
<1> QED
  BY <1>3, <1>5, <1>6, Zenon DEF CasMemory

\* The core that compares: its swap takes effect in this cycle.
LEMMA Swaps ==
  ASSUME CasInv, CasInv', CasNext, NEW c \in CasCore, cas[c].state = "sWrite"
  PROVE  /\ Call(c) \in Atomic!Pending
         /\ Memory' = IF Memory[Call(c).addr] = Call(c).exp
                      THEN [Memory EXCEPT ![Call(c).addr] = Call(c).new] ELSE Memory
         /\ Call(c)' = [is |-> "done", old |-> Memory[Call(c).addr]]
<1>1. PICK m \in CasCmd : cas'[c] = CasStep(c, m)
  BY CasCycle, Zenon DEF CasInv
<1>2. /\ cas \in [CasCore -> CasRegs] /\ spm \in [CasAddr -> Data] /\ rdData \in Data
      /\ cas[c] \in CasRegs /\ cnt = c /\ precnt = 1 /\ rdData = spm[cas[c].addr]
      /\ ~ cas[c].resp
  BY Zenon DEF CasInv, CasTypeOK, CasRegs, TurnOf
<1>3. /\ cas' \in [CasCore -> CasRegs] /\ spm' \in [CasAddr -> Data] /\ rdData' \in Data
      /\ cas'[c] \in CasRegs
  BY Zenon DEF CasInv, CasTypeOK, CasRegs
<1>4. \A d \in CasCore : cas[d].cmd # "WR"
  BY <1>2, Zenon DEF CasInv, TurnOf
<1>5. \A d \in CasCore : cas'[d].cmd = "WR" => d = c
  BY CasCycle, StepOfCore DEF CasInv, TurnOf
<1>6. spm' = spm /\ rdData' = spm[cas[c].addr]
  BY <1>2, <1>4, CasCycle, Zenon DEF CasInv, CasMemory
<1>7. /\ cas'[c].resp /\ cas'[c].state = "sIdle"
      /\ cas'[c].addr = cas[c].addr /\ cas'[c].new = cas[c].new
      /\ cas'[c].cmd = "WR" <=> rdData = cas[c].exp
  BY <1>1, StepOfCore DEF CasInv, Equal
<1>8. Memory = spm
  BY <1>2, <1>4, Zenon DEF Memory
<1>9. Memory' = IF rdData = cas[c].exp THEN [spm EXCEPT ![cas[c].addr] = cas[c].new] ELSE spm
  <2>1. Memory' = MemoryOf(cas', spm')
    BY Zenon DEF Memory, MemoryOf
  <2> QED
    BY <1>3, <1>5, <1>6, <1>7, <2>1, MemoryIs
<1>10. Call(c) = CallOf(cas[c], rdData) /\ Call(c)' = CallOf(cas'[c], rdData')
  BY Zenon DEF Call, CallOf
<1>11. Call(c) = [is |-> "pending", addr |-> cas[c].addr, exp |-> cas[c].exp, new |-> cas[c].new]
  BY <1>2, <1>10, CallIs, Zenon
<1>12. Call(c)' = [is |-> "done", old |-> rdData']
  BY <1>3, <1>7, <1>10, CallIs, Zenon
<1>13. Call(c) \in Atomic!Pending
  BY <1>2, <1>10, CallIs
<1> QED
  BY <1>2, <1>6, <1>8, <1>9, <1>11, <1>12, <1>13

\* A step of the device is a step of the atomic memory.
LEMMA CasStepSimulates == CasInv /\ CasInv' /\ CasNext => Atomic!Next
<1> SUFFICES ASSUME CasInv, CasInv', CasNext PROVE Atomic!Next
  OBVIOUS
<1> DEFINE call == [c \in CasCore |-> Call(c)]
<1>1. call' \in [CasCore -> {Atomic!Idle} \cup Atomic!Pending \cup Atomic!Done]
  <2>1. ASSUME NEW c \in CasCore PROVE Call(c)' \in {Atomic!Idle} \cup Atomic!Pending \cup Atomic!Done
    <3>1. cas'[c] \in CasRegs /\ rdData' \in Data /\ (cas'[c].resp => cas'[c].state = "sIdle")
      BY Zenon DEF CasInv, CasTypeOK, CasRegs, TurnOf
    <3>2. Call(c)' = CallOf(cas'[c], rdData')
      BY Zenon DEF Call, CallOf
    <3> QED
      BY <3>1, <3>2, CallIs
  <2> QED
    BY <2>1, Zenon
<1>2. ASSUME NEW c \in CasCore, cas[c].state # "sWrite" PROVE Atomic!CallOrReturn(c)
  BY <1>2, OthersCallOrReturn, Zenon DEF Atomic!CallOrReturn
<1>3. CASE \A c \in CasCore : cas[c].state # "sWrite"
  BY <1>1, <1>2, <1>3, MemoryKept, Zenon DEF Atomic!Next
<1>4. ASSUME NEW c \in CasCore, cas[c].state = "sWrite" PROVE Atomic!Next
  <2>1. Atomic!Swap(c)
    BY <1>4, Swaps, Zenon DEF Atomic!Swap
  <2>2. \A d \in CasCore \ {c} : cas[d].state # "sWrite"
    BY <1>4 DEF CasInv, TurnOf
  <2> QED
    BY <1>1, <1>2, <2>1, <2>2, Zenon DEF Atomic!Next
<1> QED
  BY <1>3, <1>4, Zenon

\* The load of CASPM is an atomic compare-and-swap: the device implements AtomicCAS, for any
\* number of cores, any addresses and any values.
THEOREM CasImplementsAtomic == CasSpec => AtomicSwap
<1>1. CasInit => Atomic!Init
  <2> SUFFICES ASSUME CasInit PROVE Atomic!Init
    OBVIOUS
  <2>1. ASSUME NEW c \in CasCore PROVE ~ cas[c].resp /\ cas[c].state = "sIdle" /\ cas[c].cmd = "RD"
    BY Zenon DEF CasInit
  <2>2. Memory = spm
    BY Zenon DEF CasInit, Memory
  <2>3. \A c \in CasCore : Call(c) = [is |-> "idle"]
    BY <2>1, Zenon DEF Call
  <2> QED
    BY <2>2, <2>3, Zenon DEF CasInit, Atomic!Init, Atomic!Idle
<1>2. CasInv /\ CasInv' /\ [CasNext]_casvars => [Atomic!Next]_<<Memory, [c \in CasCore |-> Call(c)]>>
  <2>1. UNCHANGED casvars => UNCHANGED <<Memory, [c \in CasCore |-> Call(c)]>>
    BY Zenon DEF casvars, Memory, Call
  <2> QED
    BY <2>1, CasStepSimulates, Zenon
<1> QED
  BY <1>1, <1>2, CasInvariant, PTL DEF CasSpec, AtomicSwap, Atomic!Spec
-----------------------------------------------------------------------------
TmSpec == TmInit /\ [][TmNext]_tmvars

TmStates == {"sIdle", "sRead", "sPreSharedRead", "sSharedRead", "sCommit"}
TmRegs ==
  [state : TmStates, addr : TmAddr \cup {NoAddr}, buf : Seq(Entry), index : 0 .. bufsize - 1,
   conflict : BOOLEAN, overflow : BOOLEAN, stalled : BOOLEAN,
   loaded : SUBSET TmAddr, stale : BOOLEAN, late : BOOLEAN]

\* The address of a load that goes to the shared memory has no entry yet, and there is room.
NewEntry(r) ==
  /\ r.addr \in TmAddr /\ Len(r.buf) < bufsize
  /\ \A k \in DOMAIN r.buf : r.buf[k].addr # r.addr

\* The registers of one core fit together.
Good(r) ==
  /\ r \in TmRegs /\ Len(r.buf) <= bufsize
  /\ \A j, k \in DOMAIN r.buf : r.buf[j].addr = r.buf[k].addr => j = k
  /\ r.state \in {"sPreSharedRead", "sSharedRead"} => NewEntry(r)
  /\ \A a \in r.loaded : \E k \in DOMAIN r.buf : r.buf[k].rd /\ r.buf[k].addr = a
  /\ r.stale /\ ~ r.late => r.conflict

\* A load from the shared memory and a commit that has begun exclude each other.
NoneBegun == \A i \in TmCore : tm[i].state = "sCommit" => tm[i].index = 0

TmInv ==
  /\ corecur \in TmCore /\ bufsize \in Nat \ {0}
  /\ tm = [i \in TmCore |-> tm[i]]
  /\ \A i \in TmCore : Good(tm[i])
  /\ \A i \in TmCore : tm[i].state = "sSharedRead" => NoneBegun

LEMMA EmptyGood == bufsize \in Nat \ {0} => Good(Empty)
<1> SUFFICES ASSUME bufsize \in Nat \ {0} PROVE Good(Empty)
  OBVIOUS
<1>1. Empty.buf = <<>> /\ Len(<<>>) = 0 /\ DOMAIN <<>> = {} /\ <<>> \in Seq(Entry)
  BY DEF Empty
<1>2. Empty \in TmRegs
  BY DEF Empty, TmRegs, TmStates
<1> QED
  BY <1>2 DEF Good, Empty

LEMMA TmInvInit == TmInit => TmInv
<1> SUFFICES ASSUME TmInit PROVE TmInv
  OBVIOUS
<1>1. bufsize \in Nat \ {0} /\ corecur \in TmCore
  BY TmAssumption DEF TmInit, TmCore
<1>2. \A i \in TmCore : tm[i] = Empty
  BY Zenon DEF TmInit
<1>3. \A i \in TmCore : tm[i].state = "sIdle"
  BY <1>2 DEF Empty
<1>4. tm = [i \in TmCore |-> tm[i]]
  BY Zenon DEF TmInit
<1> QED
  BY <1>1, <1>2, <1>3, <1>4, EmptyGood, Zenon DEF TmInv
-----------------------------------------------------------------------------
\* The registers with which a cycle begins: conflict is set before anything else.
Base(i) == [tm[i] EXCEPT !.conflict = @ \/ Hits(i), !.stale = @ \/ Overwritten(i), !.index = 0]

\* Who overwrites a loaded word hits its entry.
LEMMA OverwrittenHits ==
  ASSUME NEW i \in TmCore, Good(tm[i]), Overwritten(i)
  PROVE  Hits(i)
  BY DEF Overwritten, Hits, Good

LEMMA BaseGood ==
  ASSUME NEW i \in TmCore, bufsize \in Nat \ {0}, Good(tm[i])
  PROVE  /\ Good(Base(i)) /\ Base(i).buf = tm[i].buf /\ Base(i).index = 0
         /\ Base(i).state = tm[i].state /\ Base(i).addr = tm[i].addr
<1>1. tm[i] \in TmRegs /\ Hits(i) \in BOOLEAN /\ Overwritten(i) \in BOOLEAN /\ 0 \in 0 .. bufsize - 1
  BY DEF Good, Hits, Overwritten
<1>2. Base(i) \in TmRegs
  BY <1>1, Zenon DEF Base, TmRegs
<1>3. /\ Base(i).buf = tm[i].buf /\ Base(i).index = 0 /\ Base(i).state = tm[i].state
      /\ Base(i).addr = tm[i].addr /\ Base(i).loaded = tm[i].loaded /\ Base(i).late = tm[i].late
      /\ Base(i).conflict = (tm[i].conflict \/ Hits(i)) /\ Base(i).stale = (tm[i].stale \/ Overwritten(i))
  BY <1>1, Zenon DEF Base, TmRegs
<1>4. Base(i).stale /\ ~ Base(i).late => Base(i).conflict
  BY <1>3, OverwrittenHits, Zenon DEF Good
<1> QED
  BY <1>2, <1>3, <1>4 DEF Good, NewEntry

\* A new entry at the end of a buffer.
LEMMA AppendEntry ==
  ASSUME NEW r, Good(r), NEW e \in Entry, Len(r.buf) < bufsize, bufsize \in Nat \ {0},
         \A k \in DOMAIN r.buf : r.buf[k].addr # e.addr
  PROVE  LET b == Append(r.buf, e) IN
         /\ b \in Seq(Entry) /\ Len(b) <= bufsize
         /\ \A j, k \in DOMAIN b : b[j].addr = b[k].addr => j = k
         /\ \A k \in DOMAIN r.buf : k \in DOMAIN b /\ b[k] = r.buf[k]
         /\ Len(b) \in DOMAIN b /\ b[Len(b)] = e
<1> DEFINE b == Append(r.buf, e)
<1>1. r.buf \in Seq(Entry) /\ Len(r.buf) \in Nat /\ DOMAIN r.buf = 1 .. Len(r.buf)
  BY DEF Good, TmRegs
<1>2. /\ b \in Seq(Entry) /\ Len(b) = Len(r.buf) + 1 /\ DOMAIN b = 1 .. Len(r.buf) + 1
      /\ \A k \in 1 .. Len(r.buf) : b[k] = r.buf[k]
      /\ b[Len(r.buf) + 1] = e
  BY <1>1
<1> HIDE DEF b
<1>3. ASSUME NEW j \in DOMAIN b, NEW k \in DOMAIN b, b[j].addr = b[k].addr PROVE j = k
  <2>1. CASE j \in 1 .. Len(r.buf) /\ k \in 1 .. Len(r.buf)
    BY <1>1, <1>2, <1>3, <2>1 DEF Good
  <2>2. CASE j = Len(r.buf) + 1 \/ k = Len(r.buf) + 1
    BY <1>1, <1>2, <1>3, <2>2, SMTT(30)
  <2> QED
    BY <1>2, <2>1, <2>2
<1>4. \A k \in DOMAIN r.buf : k \in DOMAIN b /\ b[k] = r.buf[k]
  BY <1>2
<1>5. Len(b) <= bufsize /\ Len(b) \in DOMAIN b /\ b[Len(b)] = e
  BY <1>2
<1>6. /\ b \in Seq(Entry) /\ Len(b) <= bufsize
      /\ \A j, k \in DOMAIN b : b[j].addr = b[k].addr => j = k
      /\ \A k \in DOMAIN r.buf : k \in DOMAIN b /\ b[k] = r.buf[k]
      /\ Len(b) \in DOMAIN b /\ b[Len(b)] = e
  BY <1>2, <1>3, <1>4, <1>5, Zenon
<1> QED
  BY <1>6, Zenon DEF b

\* Only the buffer changes, from a state in which no load is under way.
LEMMA NewBuffer ==
  ASSUME NEW r, Good(r), r.state = "sIdle", NEW b \in Seq(Entry), Len(b) <= bufsize,
         \A j, k \in DOMAIN b : b[j].addr = b[k].addr => j = k,
         \A k \in DOMAIN r.buf : k \in DOMAIN b /\ b[k].addr = r.buf[k].addr /\ b[k].rd = r.buf[k].rd
  PROVE  Good([r EXCEPT !.buf = b]) /\ [r EXCEPT !.buf = b].state = "sIdle"
<1> DEFINE q == [r EXCEPT !.buf = b]
<1>1. q \in TmRegs /\ q.state = "sIdle" /\ q.buf = b /\ q.loaded = r.loaded
      /\ q.stale = r.stale /\ q.late = r.late /\ q.conflict = r.conflict
  BY Zenon DEF Good, TmRegs
<1> HIDE DEF q
<1>2. Good(q)
  BY <1>1 DEF Good
<1> QED
  BY <1>1, <1>2, Zenon DEF q

\* The buffer and the history stay.
LEMMA SameBuffer ==
  ASSUME NEW r, Good(r), NEW q \in TmRegs, q.buf = r.buf, q.loaded = r.loaded,
         q.stale = r.stale, q.late = r.late, q.conflict = r.conflict,
         q.state \in {"sPreSharedRead", "sSharedRead"} => NewEntry(q)
  PROVE  Good(q)
  BY DEF Good

LEMMA StoreGood ==
  ASSUME NEW i \in TmCore, NEW r, Good(r), r.buf = tm[i].buf, r.state = "sIdle",
         NEW a \in TmAddr, bufsize \in Nat \ {0}
  PROVE  Good(Store(i, r, a)) /\ Store(i, r, a).state = "sIdle"
<1>1. r.buf \in Seq(Entry) /\ r \in TmRegs /\ Len(r.buf) \in Nat /\ Len(r.buf) <= bufsize
  BY DEF Good, TmRegs
<1>2. CASE Match(i, a) # {}
  <2> DEFINE b == Marked(i, r.buf, a)
  <2>1. Store(i, r, a) = [r EXCEPT !.buf = b]
    BY <1>2, Zenon DEF Store
  <2>2. DOMAIN b = 1 .. Len(r.buf) /\ DOMAIN r.buf = 1 .. Len(r.buf)
    BY DEF Marked
  <2>3. ASSUME NEW k \in DOMAIN r.buf
        PROVE  b[k] \in Entry /\ b[k].addr = r.buf[k].addr /\ b[k].rd = r.buf[k].rd
    <3>1. r.buf[k] \in Entry
      BY <1>1
    <3> QED
      BY <3>1, Zenon DEF Entry, Marked
  <2>4. b \in Seq(Entry) /\ Len(b) = Len(r.buf)
    <3>1. b = [k \in 1 .. Len(r.buf) |-> b[k]]
      BY <2>2, Zenon DEF Marked
    <3> HIDE DEF b
    <3>2. Len(r.buf) \in Nat /\ b \in [1 .. Len(r.buf) -> Entry]
      BY <1>1, <2>2, <2>3, <3>1, Zenon
    <3> QED
      BY <3>2
  <2>5. \A j, k \in DOMAIN b : b[j].addr = b[k].addr => j = k
    BY <2>2, <2>3 DEF Good
  <2> HIDE DEF b
  <2> QED
    <3>1. Len(b) <= bufsize
      BY <1>1, <2>4, Zenon
    <3>2. \A k \in DOMAIN r.buf : k \in DOMAIN b /\ b[k].addr = r.buf[k].addr /\ b[k].rd = r.buf[k].rd
      BY <2>2, <2>3, Zenon
    <3> QED
      BY <2>1, <2>4, <2>5, <3>1, <3>2, NewBuffer, SMTT(30)
<1>3. CASE Match(i, a) = {} /\ Len(r.buf) = bufsize
  <2>1. Store(i, r, a) = [r EXCEPT !.overflow = TRUE]
    BY <1>3, Zenon DEF Store
  <2> QED
    BY <1>1, <2>1, SameBuffer, Zenon DEF TmRegs
<1>4. CASE Match(i, a) = {} /\ Len(r.buf) # bufsize
  <2> DEFINE e == [addr |-> a, rd |-> FALSE, wr |-> TRUE]
  <2>1. Store(i, r, a) = [r EXCEPT !.buf = Append(r.buf, e)]
    BY <1>4, Zenon DEF Store
  <2>2. e \in Entry /\ e.addr = a
    BY Zenon DEF Entry
  <2>3. \A k \in DOMAIN r.buf : r.buf[k].addr # e.addr
    BY <1>4, Zenon DEF Match
  <2>4. Len(r.buf) < bufsize
    BY <1>1, <1>4
  <2> HIDE DEF e
  <2> QED
    <3> DEFINE b == Append(r.buf, e)
    <3>1. /\ b \in Seq(Entry) /\ Len(b) <= bufsize
          /\ \A j, k \in DOMAIN b : b[j].addr = b[k].addr => j = k
          /\ \A k \in DOMAIN r.buf : k \in DOMAIN b /\ b[k] = r.buf[k]
      BY <2>2, <2>3, <2>4, AppendEntry, Zenon
    <3>2. Store(i, r, a) = [r EXCEPT !.buf = b]
      BY <2>1, Zenon
    <3> HIDE DEF b
    <3> QED
      BY <3>1, <3>2, NewBuffer
<1> QED
  BY <1>2, <1>3, <1>4, Zenon

LEMMA LoadGood ==
  ASSUME NEW i \in TmCore, NEW r, Good(r), r.buf = tm[i].buf, r.state = "sIdle",
         NEW a \in TmAddr, bufsize \in Nat \ {0}
  PROVE  Good(Load(i, r, a)) /\ Load(i, r, a).state \in {"sIdle", "sRead", "sPreSharedRead"}
<1>1. r.buf \in Seq(Entry) /\ r \in TmRegs /\ Len(r.buf) \in Nat /\ Len(r.buf) <= bufsize
      /\ DOMAIN r.buf = 1 .. Len(r.buf)
  BY DEF Good, TmRegs
<1>2. CASE Match(i, a) # {}
  <2> DEFINE n == (CHOOSE k \in Match(i, a) : TRUE) - 1
             q == [r EXCEPT !.state = "sRead", !.index = n]
  <2>1. n \in 0 .. bufsize - 1
    BY <1>1, <1>2 DEF Match
  <2>2. Load(i, r, a) = q
    BY <1>2, Zenon DEF Load
  <2> HIDE DEF n
  <2>3. q \in TmRegs /\ q.buf = r.buf /\ q.loaded = r.loaded /\ q.stale = r.stale
        /\ q.late = r.late /\ q.conflict = r.conflict /\ q.state = "sRead"
    BY <1>1, <2>1, Zenon DEF TmRegs, TmStates
  <2> HIDE DEF q
  <2> QED
    BY <2>2, <2>3, SameBuffer, Zenon
<1>3. CASE Match(i, a) = {} /\ Len(r.buf) = bufsize
  <2>1. Load(i, r, a) = [r EXCEPT !.overflow = TRUE, !.stalled = TRUE]
    BY <1>3, Zenon DEF Load
  <2> QED
    BY <1>1, <2>1, SameBuffer, Zenon DEF TmRegs
<1>4. CASE Match(i, a) = {} /\ Len(r.buf) # bufsize
  <2> DEFINE q == [r EXCEPT !.state = "sPreSharedRead", !.addr = a]
  <2>1. Load(i, r, a) = q
    BY <1>4, Zenon DEF Load
  <2>2. q \in TmRegs /\ q.buf = r.buf /\ q.loaded = r.loaded /\ q.stale = r.stale
        /\ q.late = r.late /\ q.conflict = r.conflict /\ q.state = "sPreSharedRead" /\ q.addr = a
    BY <1>1, Zenon DEF TmRegs, TmStates
  <2> HIDE DEF q
  <2>3. NewEntry(q)
    BY <1>1, <1>4, <2>2 DEF NewEntry, Match
  <2> QED
    BY <2>1, <2>2, <2>3, SameBuffer, Zenon
<1> QED
  BY <1>2, <1>3, <1>4, Zenon

\* The entry of a load has its bit in bufrds; a word that is written in the same cycle is late.
LEMMA SharedReadGood ==
  ASSUME NEW i \in TmCore, NEW r, Good(r), r.state = "sSharedRead", bufsize \in Nat \ {0}
  PROVE  Good(SharedRead(i, r)) /\ SharedRead(i, r).state = "sIdle"
<1> DEFINE e == [addr |-> r.addr, rd |-> TRUE, wr |-> FALSE]
           b == Append(r.buf, e)
           q == SharedRead(i, r)
<1>1. r \in TmRegs /\ NewEntry(r) /\ r.addr \in TmAddr
  BY Zenon DEF Good, NewEntry
<1>2. e \in Entry /\ e.addr = r.addr /\ e.rd
  BY <1>1, Zenon DEF Entry
<1> HIDE DEF e
<1>3. /\ b \in Seq(Entry) /\ Len(b) <= bufsize
      /\ \A j, k \in DOMAIN b : b[j].addr = b[k].addr => j = k
      /\ \A k \in DOMAIN r.buf : k \in DOMAIN b /\ b[k] = r.buf[k]
      /\ Len(b) \in DOMAIN b /\ b[Len(b)] = e
  BY <1>1, <1>2, AppendEntry DEF NewEntry
<1> HIDE DEF b
<1>4. /\ q \in TmRegs /\ q.state = "sIdle" /\ q.buf = b /\ q.loaded = r.loaded \cup {r.addr}
      /\ q.conflict = r.conflict
      /\ q.stale = (r.stale \/ r.addr \in Written(corecur))
      /\ q.late = (r.late \/ r.addr \in Written(corecur))
  BY <1>1, <1>3, ZenonT(30) DEF SharedRead, TmRegs, TmStates, b, e
<1> HIDE DEF q
<1>5. \A a \in q.loaded : \E k \in DOMAIN b : b[k].rd /\ b[k].addr = a
  <2> SUFFICES ASSUME NEW a \in q.loaded PROVE \E k \in DOMAIN b : b[k].rd /\ b[k].addr = a
    OBVIOUS
  <2>1. CASE a \in r.loaded
    BY <1>3, <2>1 DEF Good
  <2>2. CASE a = r.addr
    BY <1>2, <1>3, <2>2, Zenon
  <2> QED
    BY <1>4, <2>1, <2>2, Zenon
<1>6. q.stale /\ ~ q.late => q.conflict
  BY <1>4, Zenon DEF Good
<1>7. Good(q)
  BY <1>3, <1>4, <1>5, <1>6 DEF Good
<1> QED
  BY <1>4, <1>7, Zenon DEF q

LEMMA KnownGood ==
  ASSUME NEW r, Good(r)
  PROVE  /\ Good(Known(r)) /\ Known(r).state = r.state /\ Known(r).index = r.index
         /\ Known(r).conflict = r.conflict
<1>1. r \in TmRegs
  BY Zenon DEF Good
<1>2. CASE r.conflict \/ r.overflow
  <2> DEFINE q == [r EXCEPT !.loaded = {}, !.stale = FALSE, !.late = FALSE]
  <2>1. /\ q \in TmRegs /\ q.loaded = {} /\ ~ q.stale /\ q.buf = r.buf /\ q.state = r.state
        /\ q.index = r.index /\ q.conflict = r.conflict /\ q.addr = r.addr
    BY <1>1, Zenon DEF TmRegs
  <2>2. Known(r) = q
    BY <1>2, Zenon DEF Known
  <2> HIDE DEF q
  <2> QED
    BY <2>1, <2>2 DEF Good, NewEntry
<1>3. CASE ~ (r.conflict \/ r.overflow)
  BY <1>3, Zenon DEF Known
<1> QED
  BY <1>2, <1>3, Zenon
-----------------------------------------------------------------------------
\* Who may load from the shared memory next, and whose commit has begun.
Follows(i, q) ==
  /\ Good(q)
  /\ q.state = "sSharedRead" => corecur = i /\ tm[i].state = "sPreSharedRead"
  /\ q.state = "sCommit" /\ q.index # 0 => corecur = i /\ tm[i].state = "sCommit"

LEMMA CommitStepGood ==
  ASSUME NEW i \in TmCore, TmInv, tm[i].state = "sCommit"
  PROVE  Follows(i, CommitStep(i, Base(i)))
<1> DEFINE r == Base(i)
<1>1. Good(r) /\ r.state = "sCommit" /\ r.index = 0 /\ r \in TmRegs /\ tm[i].index \in 0 .. bufsize - 1
      /\ bufsize \in Nat \ {0}
  BY BaseGood, Zenon DEF TmInv, Good, TmRegs
<1> HIDE DEF r
<1>2. CASE ~ (corecur = i \/ tm[i].conflict)
  BY <1>1, <1>2, Zenon DEF CommitStep, Follows, r
<1>3. CASE (corecur = i \/ tm[i].conflict) /\ (Finished(i) \/ tm[i].conflict)
  <2>1. CommitStep(i, r) = Empty
    BY <1>3, Zenon DEF CommitStep
  <2>2. Empty.state = "sIdle"
    BY Zenon DEF Empty
  <2> QED
    BY <1>1, <2>1, <2>2, EmptyGood, Zenon DEF Follows, r
<1>4. CASE corecur = i /\ ~ Finished(i) /\ ~ tm[i].conflict
  <2> DEFINE n == (tm[i].index + 1) % bufsize
             q == [r EXCEPT !.index = n]
  <2>1. n \in 0 .. bufsize - 1
    BY <1>1
  <2>2. CommitStep(i, r) = q
    BY <1>4, Zenon DEF CommitStep
  <2> HIDE DEF n
  <2>3. q \in TmRegs /\ q.buf = r.buf /\ q.loaded = r.loaded /\ q.stale = r.stale
        /\ q.late = r.late /\ q.conflict = r.conflict /\ q.state = "sCommit"
    BY <1>1, <2>1, Zenon DEF TmRegs
  <2> HIDE DEF q
  <2>4. Good(q)
    BY <1>1, <2>3, SameBuffer, Zenon
  <2> QED
    BY <1>4, <2>2, <2>3, <2>4, Zenon DEF Follows, r
<1> QED
  BY <1>2, <1>3, <1>4, Zenon

LEMMA TmStepGood ==
  ASSUME NEW i \in TmCore, TmInv, NEW m, m \in TmCmd(i)
  PROVE  Follows(i, TmStep(i, m))
<1> DEFINE r == Base(i)
<1>1. Good(r) /\ r.buf = tm[i].buf /\ r.index = 0 /\ r.state = tm[i].state /\ r \in TmRegs
      /\ bufsize \in Nat \ {0}
  BY BaseGood, Zenon DEF TmInv, Good
<1>2. m.is \in {"RD", "WR"} => m.addr \in TmAddr
  BY Zenon DEF TmCmd, TmAddr
<1>3. m.is \in {"none", "commit", "RD", "WR"}
  BY Zenon DEF TmCmd
<1> HIDE DEF r
<1>4. CASE tm[i].state = "sIdle" /\ m.is = "none"
  <2>1. TmStep(i, m) = r
    BY <1>1, <1>4, Zenon DEF TmStep, r, Base
  <2> QED
    BY <1>1, <1>4, <2>1, Zenon DEF Follows
<1>5. CASE tm[i].state = "sIdle" /\ m.is = "WR"
  <2>1. TmStep(i, m) = Store(i, r, m.addr)
    BY <1>1, <1>5, Zenon DEF TmStep, r, Base
  <2> QED
    BY <1>1, <1>2, <1>5, <2>1, StoreGood, Zenon DEF Follows
<1>6. CASE tm[i].state = "sIdle" /\ m.is = "RD"
  <2>1. TmStep(i, m) = Load(i, r, m.addr)
    BY <1>1, <1>6, Zenon DEF TmStep, r, Base
  <2> QED
    BY <1>1, <1>2, <1>6, <2>1, LoadGood DEF Follows
<1>7. CASE tm[i].state = "sIdle" /\ m.is = "commit"
  <2>1. TmStep(i, m) = Commit(i, r)
    BY <1>1, <1>7, Zenon DEF TmStep, r, Base
  <2>2. CASE Commit(i, r) = Empty
    <3>1. Empty.state = "sIdle"
      BY Zenon DEF Empty
    <3> QED
      BY <1>1, <2>1, <2>2, <3>1, EmptyGood, Zenon DEF Follows
  <2>3. CASE Commit(i, r) # Empty
    <3> DEFINE q == [r EXCEPT !.state = "sCommit"]
    <3>1. Commit(i, r) = q
      BY <2>3, Zenon DEF Commit
    <3>2. q \in TmRegs /\ q.buf = r.buf /\ q.loaded = r.loaded /\ q.stale = r.stale
          /\ q.late = r.late /\ q.conflict = r.conflict /\ q.state = "sCommit" /\ q.index = 0
      BY <1>1, Zenon DEF TmRegs, TmStates
    <3> HIDE DEF q
    <3> QED
      BY <1>1, <2>1, <3>1, <3>2, SameBuffer, Zenon DEF Follows
  <2> QED
    BY <2>2, <2>3, Zenon
<1>8. CASE tm[i].state = "sRead"
  <2> DEFINE q == [r EXCEPT !.state = "sIdle"]
  <2>1. TmStep(i, m) = q
    BY <1>1, <1>8, Zenon DEF TmStep, r, Base
  <2>2. q \in TmRegs /\ q.buf = r.buf /\ q.loaded = r.loaded /\ q.stale = r.stale
        /\ q.late = r.late /\ q.conflict = r.conflict /\ q.state = "sIdle"
    BY <1>1, Zenon DEF TmRegs, TmStates
  <2> HIDE DEF q
  <2> QED
    BY <1>1, <2>1, <2>2, SameBuffer, Zenon DEF Follows
<1>9. CASE tm[i].state = "sPreSharedRead"
  <2> DEFINE q == [r EXCEPT !.state = IF MyTurn(i) THEN "sSharedRead" ELSE r.state]
  <2>1. TmStep(i, m) = q
    BY <1>1, <1>9, Zenon DEF TmStep, r, Base
  <2>2. q \in TmRegs /\ q.buf = r.buf /\ q.loaded = r.loaded /\ q.stale = r.stale /\ q.addr = r.addr
        /\ q.late = r.late /\ q.conflict = r.conflict
        /\ q.state = IF MyTurn(i) THEN "sSharedRead" ELSE "sPreSharedRead"
    BY <1>1, <1>9, Zenon DEF TmRegs, TmStates
  <2> HIDE DEF q
  <2>3. NewEntry(q)
    BY <1>1, <1>9, <2>2, Zenon DEF Good, NewEntry
  <2>4. Good(q)
    BY <1>1, <2>2, <2>3, SameBuffer, Zenon
  <2> QED
    BY <1>9, <2>1, <2>2, <2>4, Zenon DEF Follows, MyTurn
<1>10. CASE tm[i].state = "sSharedRead"
  <2>1. TmStep(i, m) = SharedRead(i, r)
    BY <1>1, <1>10, Zenon DEF TmStep, r, Base
  <2> QED
    BY <1>1, <1>10, <2>1, SharedReadGood, Zenon DEF Follows
<1>11. CASE tm[i].state = "sCommit"
  <2>1. TmStep(i, m) = CommitStep(i, r)
    BY <1>1, <1>11, Zenon DEF TmStep, r, Base
  <2> QED
    BY <1>11, <2>1, CommitStepGood, Zenon DEF r
<1> QED
  BY <1>1, <1>3, <1>4, <1>5, <1>6, <1>7, <1>8, <1>9, <1>10, <1>11, Zenon DEF TmRegs, TmStates
-----------------------------------------------------------------------------
LEMMA TmCycle ==
  ASSUME TmInv, TmNext
  PROVE  /\ corecur' \in TmCore /\ bufsize' = bufsize /\ uses' = uses
         /\ tm' = [i \in TmCore |-> tm'[i]]
         /\ \A i \in TmCore : Follows(i, tm'[i])
<1>1. PICK m \in [TmFree -> UNION {TmCmd(i) : i \in TmCore}] :
        /\ \A i \in TmFree : m[i] \in TmCmd(i)
        /\ tm' = [i \in TmCore |-> Known(TmStep(i, IF i \in TmFree THEN m[i] ELSE [is |-> "none"]))]
        /\ corecur' = NextTurn /\ bufsize' = bufsize /\ uses' = uses
  BY Zenon DEF TmNext
<1>2. corecur' \in TmCore
  BY <1>1, TmAssumption DEF NextTurn, TmInv, TmCore
<1>3. ASSUME NEW i \in TmCore PROVE Follows(i, tm'[i])
  <2> DEFINE c == IF i \in TmFree THEN m[i] ELSE [is |-> "none"]
  <2>1. c \in TmCmd(i)
    BY <1>1, Zenon DEF TmCmd
  <2>2. tm'[i] = Known(TmStep(i, c))
    BY <1>1, Zenon
  <2> HIDE DEF c
  <2> DEFINE q == TmStep(i, c)
  <2>3. Follows(i, q)
    BY <2>1, TmStepGood, Zenon
  <2> HIDE DEF q
  <2>4. Good(Known(q)) /\ Known(q).state = q.state /\ Known(q).index = q.index
    BY <2>3, KnownGood, Zenon DEF Follows
  <2>5. tm'[i] = Known(q)
    BY <2>2, Zenon DEF q
  <2> QED
    BY <2>3, <2>4, <2>5, Zenon DEF Follows
<1> QED
  BY <1>1, <1>2, <1>3, Zenon

LEMMA TmInvNext == TmInv /\ [TmNext]_tmvars => TmInv'
<1>1. ASSUME TmInv, TmNext PROVE TmInv'
  <2>1. /\ corecur' \in TmCore /\ bufsize' = bufsize /\ uses' = uses
        /\ tm' = [i \in TmCore |-> tm'[i]]
        /\ \A i \in TmCore : Follows(i, tm'[i])
    BY <1>1, TmCycle, Zenon
  <2>2. bufsize' \in Nat \ {0}
    BY <1>1, <2>1, Zenon DEF TmInv
  <2>3. ASSUME NEW i \in TmCore PROVE Good(tm[i])'
    <3>1. Good(tm'[i])
      BY <2>1, Zenon DEF Follows
    <3> QED
      BY <2>1, <3>1 DEF Good, NewEntry, TmRegs, Entry, TmAddr
  <2>4. ASSUME NEW k \in TmCore, tm'[k].state = "sSharedRead" PROVE NoneBegun'
    BY <2>1, <2>4, Zenon DEF Follows, NoneBegun
  <2> QED
    BY <2>1, <2>2, <2>3, <2>4, Zenon DEF TmInv
<1>2. ASSUME TmInv, UNCHANGED tmvars PROVE TmInv'
  <2>1. bufsize' = bufsize /\ uses' = uses /\ corecur' = corecur /\ tm' = tm
    BY <1>2, Zenon DEF tmvars
  <2>2. ASSUME NEW i \in TmCore PROVE Good(tm[i])'
    <3>1. Good(tm[i])
      BY <1>2, Zenon DEF TmInv
    <3> QED
      BY <2>1, <3>1 DEF Good, NewEntry, TmRegs, Entry, TmAddr
  <2> QED
    BY <1>2, <2>1, <2>2, Zenon DEF TmInv, NoneBegun
<1> QED
  BY <1>1, <1>2, Zenon

LEMMA TmInvariant == TmSpec => []TmInv
  BY TmInvInit, TmInvNext, PTL DEF TmSpec
-----------------------------------------------------------------------------
\* The registers of all cores keep their widths, and no buffer has two entries for an
\* address: Store and Load look for one in all entries before they add another.
THEOREM TmTypeCorrect == TmSpec => []TmTypeOK
<1>1. TmInv => TmTypeOK
  BY Zenon DEF TmInv, Good, TmRegs, TmStates, TmTypeOK
<1> QED
  BY <1>1, TmInvariant, PTL

\* Every transaction that writes to the shared memory could have run alone at its commit,
\* unless a load of it fell into the cycle of another core's write to the same address.
THEOREM TmSerializable == TmSpec => []SerializableUnlessLate
<1>1. TmInv => SerializableUnlessLate
  BY Zenon DEF TmInv, Good, SerializableUnlessLate, Committing
<1> QED
  BY <1>1, TmInvariant, PTL

\* No core loads from the shared memory while the commit of another is half written:
\* corecur stays with the core that commits.
THEOREM TmIsolated == TmSpec => []CommitIsolated
<1>1. TmInv => CommitIsolated
  <2> SUFFICES ASSUME TmInv, NEW i \in TmCore, NEW k \in TmCore, Committing(i), tm[i].index > 0
               PROVE  tm[k].state # "sSharedRead"
    BY Zenon DEF CommitIsolated
  <2>1. tm[i].state = "sCommit" /\ tm[i].index # 0
    BY DEF Committing
  <2> QED
    BY <2>1, Zenon DEF TmInv, NoneBegun
<1> QED
  BY <1>1, TmInvariant, PTL
-----------------------------------------------------------------------------
\* A counter that wraps.
LEMMA NextIs ==
  ASSUME NEW w \in Nat \ {0}, NEW x \in 0 .. w - 1
  PROVE  (x + 1) % w = IF x = w - 1 THEN 0 ELSE x + 1
<1> DEFINE y == x + 1  q == y \div w  r == y % w
<1>1. q \in Int /\ r \in 0 .. w - 1 /\ y = w * q + r
  OBVIOUS
<1> HIDE DEF q, r
<1>2. CASE q >= 2
  <2>1. w * q >= 2 * w
    BY <1>1, <1>2
  <2> QED
    BY <1>1, <2>1
<1>3. CASE q <= -1
  <2>1. w * q <= -w
    BY <1>1, <1>3
  <2> QED
    BY <1>1, <2>1
<1>4. CASE q \in {0, 1}
  <2>1. r = IF x = w - 1 THEN 0 ELSE x + 1
    BY <1>1, <1>4
  <2> QED
    BY <2>1, Zenon DEF r
<1> QED
  BY <1>1, <1>2, <1>3, <1>4

\* The cycles until the memory reads for core c.
CasAhead(c) ==
  IF Served(c) THEN 0 ELSE 3 * (IF cnt < c THEN c - cnt ELSE c - cnt + corecnt) - precnt

\* The turn comes a cycle nearer in every cycle.
LEMMA CasNearer ==
  ASSUME NEW c \in CasCore, precnt \in {0, 1, 2}, cnt \in CasCore, cnt' = NextCnt,
         precnt' = IF precnt = cntmax THEN 0 ELSE precnt + 1
  PROVE  /\ CasAhead(c) \in 0 .. 3 * corecnt - 1
         /\ CasAhead(c)' = IF Served(c) THEN 3 * corecnt - 1 ELSE CasAhead(c) - 1
<1>1. corecnt \in Nat \ {0} /\ cnt \in 0 .. corecnt - 1 /\ c \in 0 .. corecnt - 1
  BY CoreAssumption, Zenon DEF CasCore
<1>2. (cnt + 1) % corecnt = IF cnt = corecnt - 1 THEN 0 ELSE cnt + 1
  BY <1>1, NextIs, Zenon
<1>3. CASE precnt = 0
  <2>1. cnt' = cnt /\ precnt' = 1
    BY <1>3 DEF NextCnt, cntmax
  <2> QED
    BY <1>1, <1>3, <2>1 DEF CasAhead, Served
<1>4. CASE precnt = 1
  <2>1. cnt' = cnt /\ precnt' = 2
    BY <1>4 DEF NextCnt, cntmax
  <2> QED
    BY <1>1, <1>4, <2>1 DEF CasAhead, Served
<1>5. CASE precnt = 2
  <2>1. precnt' = 0 /\ cnt' = IF cnt = corecnt - 1 THEN 0 ELSE cnt + 1
    BY <1>2, <1>5 DEF NextCnt, cntmax
  <2> QED
    BY <1>1, <1>5, <2>1 DEF CasAhead, Served
<1> QED
  BY <1>3, <1>4, <1>5, Zenon

\* What a core has waited and what it has still to wait make at most a turn of every core.
CasWaits(c) ==
  /\ caswait[c] \in Nat
  /\ cas[c].state = "sIdle" => caswait[c] = 0
  /\ cas[c].state = "sRead" => caswait[c] + CasAhead(c) <= 3 * corecnt
  /\ cas[c].state = "sWrite" => caswait[c] <= 3 * corecnt + 1

\* The inductive invariant of the time bound.
CasTime == CasInv /\ \A c \in CasCore : CasWaits(c)

\* A cycle brings the turn of every core nearer, and a core in its turn further.
LEMMA CasTimeNext == CasTime /\ [CasNext]_casvars => CasTime'
<1> SUFFICES ASSUME CasTime, [CasNext]_casvars PROVE CasTime'
  OBVIOUS
<1>0. CasInv'
  BY CasInvNext, Zenon DEF CasTime
<1>1. CASE CasNext
  <2>1. CasTypeOK /\ cas \in [CasCore -> CasRegs] /\ precnt \in {0, 1, 2} /\ cnt \in CasCore
    BY DEF CasTime, CasInv, CasTypeOK, CasRegs, cntmax
  <2>2. cnt' = NextCnt /\ precnt' = IF precnt = cntmax THEN 0 ELSE precnt + 1
    BY <1>1, <2>1, CasCycle, Zenon
  <2>3. corecnt \in Nat \ {0}
    BY CoreAssumption
  <2>4. ASSUME NEW c \in CasCore PROVE CasWaits(c)'
    <3>1. PICK m \in CasCmd : cas'[c] = CasStep(c, m)
      BY <1>1, <2>1, CasCycle, Zenon
    <3>2. /\ cas'[c].state = "sWrite" <=> cas[c].state = "sRead" /\ Served(c)
          /\ cas[c].state = "sWrite" => cas'[c].state = "sIdle"
          /\ cas'[c].state \in {"sIdle", "sRead", "sWrite"} /\ cas[c].state \in {"sIdle", "sRead", "sWrite"}
      <4>1. /\ CasStep(c, m) \in CasRegs
            /\ CasStep(c, m).state = "sWrite" <=> cas[c].state = "sRead" /\ Served(c)
            /\ CasStep(c, m).resp <=> cas[c].state = "sWrite"
            /\ CasStep(c, m).resp => CasStep(c, m).state = "sIdle"
        BY <2>1, StepOfCore, Zenon
      <4>2. cas[c] \in CasRegs
        BY <2>1, Zenon
      <4> QED
        BY <3>1, <4>1, <4>2, Zenon DEF CasRegs
    <3>3. caswait'[c] = IF cas'[c].state = "sIdle" THEN 0 ELSE caswait[c] + 1
      BY <1>1, Zenon DEF CasNext
    <3>4. CasAhead(c) \in 0 .. 3 * corecnt - 1 /\ CasAhead(c)' = IF Served(c) THEN 3 * corecnt - 1 ELSE CasAhead(c) - 1
      BY <2>1, <2>2, CasNearer, Zenon
    <3>5. CasWaits(c)
      BY Zenon DEF CasTime
    <3>6. Served(c) => CasAhead(c) = 0
      BY DEF CasAhead
    <3>7. CASE cas'[c].state = "sIdle"
      BY <3>3, <3>7 DEF CasWaits
    <3>8. CASE cas'[c].state = "sWrite"
      <4>1. caswait'[c] = caswait[c] + 1 /\ caswait[c] \in Nat /\ caswait[c] + 0 <= 3 * corecnt
        BY <3>2, <3>3, <3>5, <3>6, <3>8, Zenon DEF CasWaits
      <4>2. caswait'[c] \in Nat /\ caswait'[c] <= 3 * corecnt + 1
        BY <2>3, <4>1
      <4> QED
        BY <3>8, <4>2, Zenon DEF CasWaits
    <3>9. CASE cas'[c].state = "sRead" /\ cas[c].state = "sIdle"
      <4>1. caswait'[c] = caswait[c] + 1 /\ caswait[c] = 0
        BY <3>3, <3>5, <3>9, Zenon DEF CasWaits
      <4>2. caswait'[c] \in Nat /\ caswait'[c] + CasAhead(c)' <= 3 * corecnt
        BY <2>3, <3>4, <4>1
      <4> QED
        BY <3>9, <4>2, Zenon DEF CasWaits
    <3>10. CASE cas'[c].state = "sRead" /\ cas[c].state = "sRead"
      <4>1. caswait'[c] = caswait[c] + 1 /\ caswait[c] \in Nat /\ caswait[c] + CasAhead(c) <= 3 * corecnt
        BY <3>3, <3>5, <3>10, Zenon DEF CasWaits
      <4>2. CasAhead(c)' = CasAhead(c) - 1
        BY <3>2, <3>4, <3>10, Zenon
      <4>3. caswait'[c] \in Nat /\ caswait'[c] + CasAhead(c)' <= 3 * corecnt
        BY <2>3, <3>4, <4>1, <4>2
      <4> QED
        BY <3>10, <4>3, Zenon DEF CasWaits
    <3> QED
      BY <3>2, <3>7, <3>8, <3>9, <3>10, Zenon
  <2> QED
    BY <1>0, <2>4, Zenon DEF CasTime
<1>2. CASE UNCHANGED casvars
  BY <1>0, <1>2, Zenon DEF casvars, CasTime, CasWaits, CasAhead, Served
<1> QED
  BY <1>1, <1>2, Zenon

\* A load of CASPM is answered after a turn of every core and one cycle, for any number of
\* cores and whatever they do.
THEOREM CasIsInTime == CasSpec => []CasInTime
<1>1. CasInit => CasTime
  <2> SUFFICES ASSUME CasInit PROVE CasTime
    OBVIOUS
  <2>1. \A c \in CasCore : caswait[c] = 0 /\ cas[c].state = "sIdle"
    BY Zenon DEF CasInit
  <2>2. \A c \in CasCore : CasWaits(c)
    BY <2>1 DEF CasWaits
  <2> QED
    BY <2>2, CasInvInit, Zenon DEF CasTime
<1>2. CasTime => CasInTime
  <2> SUFFICES ASSUME CasTime, NEW c \in CasCore PROVE caswait[c] <= (cntmax + 1) * corecnt + 1
    BY Zenon DEF CasInTime
  <2>1. CasWaits(c) /\ cas[c].state \in {"sIdle", "sRead", "sWrite"}
    BY Zenon DEF CasTime, CasInv, CasTypeOK
  <2>2. cnt \in CasCore /\ precnt \in 0 .. 2 /\ c \in CasCore /\ corecnt \in Nat \ {0}
    BY CoreAssumption DEF CasTime, CasInv, CasTypeOK, cntmax
  <2>3. CasAhead(c) \in Nat
    BY <2>2 DEF CasAhead, Served, CasCore
  <2> QED
    BY <2>1, <2>2, <2>3 DEF CasWaits, cntmax
<1> QED
  BY <1>1, <1>2, CasTimeNext, PTL DEF CasSpec
-----------------------------------------------------------------------------
\* What becomes of core i in a cycle in which its registers become q, as far as waiting goes.
Proceeds(i, q) ==
  /\ q.state \in TmStates
  /\ q.state = "sRead" => tm[i].state = "sIdle"
  /\ q.state = "sPreSharedRead" => tm[i].state = "sIdle" \/ (tm[i].state = "sPreSharedRead" /\ corecur # i)
  /\ q.state = "sSharedRead" => tm[i].state = "sPreSharedRead" /\ corecur = i
  /\ q.state = "sCommit" =>
       /\ q.buf = tm[i].buf
       /\ \/ tm[i].state = "sIdle" /\ q.index = 0
          \/ tm[i].state = "sCommit" /\ corecur # i /\ q.index = 0
          \/ Committing(i) /\ ~ Finished(i) /\ q.index = (tm[i].index + 1) % bufsize
  /\ Committing(i) /\ ~ Finished(i) =>
       /\ q.state = "sCommit" /\ ~ q.conflict /\ q.buf = tm[i].buf
       /\ q.index = (tm[i].index + 1) % bufsize

\* A commit moves on by one entry in a cycle, or ends.
LEMMA CommitProceeds ==
  ASSUME NEW i \in TmCore, TmInv, tm[i].state = "sCommit"
  PROVE  Proceeds(i, CommitStep(i, Base(i)))
<1> DEFINE r == Base(i)
<1>1. /\ r \in TmRegs /\ r.state = "sCommit" /\ r.index = 0 /\ r.buf = tm[i].buf
      /\ (r.conflict <=> tm[i].conflict \/ Hits(i))
  <2>1. Good(tm[i]) /\ bufsize \in Nat \ {0}
    BY Zenon DEF TmInv
  <2>2. Good(r) /\ r.state = "sCommit" /\ r.index = 0 /\ r.buf = tm[i].buf
    BY <2>1, BaseGood, Zenon
  <2>3. tm[i] \in TmRegs
    BY <2>1, Zenon DEF Good
  <2>4. r.conflict <=> tm[i].conflict \/ Hits(i)
    BY <2>3, Zenon DEF Base, TmRegs
  <2> QED
    BY <2>2, <2>4, Zenon DEF Good
<1> HIDE DEF r
<1>2. CASE ~ (corecur = i \/ tm[i].conflict)
  <2>1. CommitStep(i, r) = r
    BY <1>2, Zenon DEF CommitStep
  <2> QED
    BY <1>1, <1>2, <2>1, Zenon DEF Proceeds, r, Committing, TmStates
<1>3. CASE (corecur = i \/ tm[i].conflict) /\ (Finished(i) \/ tm[i].conflict)
  <2>1. CommitStep(i, r) = Empty
    BY <1>3, Zenon DEF CommitStep
  <2>2. Empty.state = "sIdle"
    BY Zenon DEF Empty
  <2> QED
    BY <1>3, <2>1, <2>2, Zenon DEF Proceeds, r, Committing, TmStates
<1>4. CASE corecur = i /\ ~ Finished(i) /\ ~ tm[i].conflict
  <2> DEFINE n == (tm[i].index + 1) % bufsize
             q == [r EXCEPT !.index = n]
  <2>1. CommitStep(i, r) = q
    BY <1>4, Zenon DEF CommitStep
  <2>2. q.state = "sCommit" /\ q.buf = tm[i].buf /\ q.index = n /\ (q.conflict <=> r.conflict)
    BY <1>1, Zenon DEF TmRegs
  <2> HIDE DEF q
  <2>3. ~ Hits(i)
    BY <1>4, Zenon DEF Hits
  <2>4. ~ q.conflict
    BY <1>1, <1>4, <2>2, <2>3, Zenon
  <2>5. Committing(i)
    BY <1>4, Zenon DEF Committing
  <2> QED
    BY <1>4, <2>1, <2>2, <2>4, <2>5, Zenon DEF Proceeds, r, TmStates
<1> QED
  BY <1>2, <1>3, <1>4, Zenon

\* What a cycle does to the core whose turn it is.
LEMMA StepProceeds ==
  ASSUME NEW i \in TmCore, TmInv, NEW m, m \in TmCmd(i)
  PROVE  Proceeds(i, TmStep(i, m))
<1> DEFINE r == Base(i)  q == TmStep(i, m)
<1>1. Good(r) /\ r.buf = tm[i].buf /\ r.index = 0 /\ r.state = tm[i].state /\ r \in TmRegs
      /\ bufsize \in Nat \ {0}
  BY BaseGood, Zenon DEF TmInv, Good
<1>2. m.is \in {"RD", "WR"} => m.addr \in TmAddr
  BY Zenon DEF TmCmd, TmAddr
<1>3. m.is \in {"none", "commit", "RD", "WR"}
  BY Zenon DEF TmCmd
<1>4. q.state \in TmStates
  BY TmStepGood, Zenon DEF Follows, Good, TmRegs
<1> HIDE DEF r
<1>5. CASE tm[i].state = "sIdle" /\ m.is \in {"none", "WR", "RD"}
  <2>1. m.is = "none" => q.state = "sIdle"
    BY <1>1, <1>5, Zenon DEF TmStep, r, Base
  <2>2. m.is = "WR" => q.state = "sIdle"
    <3> SUFFICES ASSUME m.is = "WR" PROVE q.state = "sIdle"
      OBVIOUS
    <3>1. q = Store(i, r, m.addr)
      BY <1>1, <1>5, Zenon DEF TmStep, r, Base
    <3>2. m.addr \in TmAddr
      BY <1>2, Zenon
    <3>3. r.state = "sIdle"
      BY <1>1, <1>5, Zenon
    <3>4. Store(i, r, m.addr).state = "sIdle"
      BY <1>1, <3>2, <3>3, StoreGood, Zenon
    <3> QED
      BY <3>1, <3>4, Zenon
  <2>3. m.is = "RD" => q.state \in {"sIdle", "sRead", "sPreSharedRead"}
    <3>1. m.is = "RD" => q = Load(i, r, m.addr)
      BY <1>1, <1>5, Zenon DEF TmStep, r, Base
    <3> QED
      BY <1>1, <1>2, <1>5, <3>1, LoadGood
  <2> HIDE DEF q
  <2> QED
    BY <1>4, <1>5, <2>1, <2>2, <2>3, Zenon DEF Proceeds, Committing, q
<1>6. CASE tm[i].state = "sIdle" /\ m.is = "commit"
  <2>1. q = Commit(i, r)
    BY <1>1, <1>6, Zenon DEF TmStep, r, Base
  <2>2. CASE Commit(i, r) = Empty
    <3>1. Empty.state = "sIdle"
      BY Zenon DEF Empty
    <3> HIDE DEF q
    <3> QED
      BY <1>4, <1>6, <2>1, <2>2, <3>1, Zenon DEF Proceeds, Committing, q
  <2>3. CASE Commit(i, r) # Empty
    <3> DEFINE x == [r EXCEPT !.state = "sCommit"]
    <3>1. Commit(i, r) = x
      BY <2>3, Zenon DEF Commit
    <3>2. x.buf = tm[i].buf /\ x.state = "sCommit" /\ x.index = 0
      BY <1>1, Zenon DEF TmRegs
    <3> HIDE DEF x, q
    <3> QED
      BY <1>4, <1>6, <2>1, <3>1, <3>2, Zenon DEF Proceeds, Committing, q
  <2> QED
    BY <2>2, <2>3, Zenon
<1>7. CASE tm[i].state \in {"sRead", "sSharedRead"}
  <2>1. q.state = "sIdle"
    <3>1. tm[i].state = "sRead" => q = [r EXCEPT !.state = "sIdle"]
      BY <1>1, Zenon DEF TmStep, r, Base
    <3>2. tm[i].state = "sSharedRead" => q = SharedRead(i, r)
      BY <1>1, Zenon DEF TmStep, r, Base
    <3>3. [r EXCEPT !.state = "sIdle"].state = "sIdle"
      BY <1>1, Zenon DEF TmRegs
    <3>4. tm[i].state = "sSharedRead" => SharedRead(i, r).state = "sIdle"
      BY <1>1, SharedReadGood, Zenon
    <3> HIDE DEF q
    <3> QED
      BY <1>7, <3>1, <3>2, <3>3, <3>4, Zenon
  <2> HIDE DEF q
  <2> QED
    BY <1>4, <1>7, <2>1, Zenon DEF Proceeds, Committing, q
<1>8. CASE tm[i].state = "sPreSharedRead"
  <2> DEFINE x == [r EXCEPT !.state = IF MyTurn(i) THEN "sSharedRead" ELSE r.state]
  <2>1. q = x
    BY <1>1, <1>8, Zenon DEF TmStep, r, Base
  <2>2. x.state = IF corecur = i THEN "sSharedRead" ELSE "sPreSharedRead"
    BY <1>1, <1>8, Zenon DEF TmRegs, MyTurn
  <2> HIDE DEF x, q
  <2> QED
    BY <1>4, <1>8, <2>1, <2>2, Zenon DEF Proceeds, Committing, q
<1>9. CASE tm[i].state = "sCommit"
  <2>1. q = CommitStep(i, r)
    BY <1>1, <1>9, Zenon DEF TmStep, r, Base
  <2> QED
    BY <1>9, <2>1, CommitProceeds, Zenon DEF r
<1> QED
  BY <1>1, <1>3, <1>5, <1>6, <1>7, <1>8, <1>9, Zenon DEF TmRegs, TmStates

\* What a cycle does to every core.
LEMMA CycleProceeds ==
  ASSUME TmInv, TmNext
  PROVE  /\ corecur' = NextTurn /\ bufsize' = bufsize
         /\ \A i \in TmCore :
              /\ Proceeds(i, tm'[i])
              /\ tm[i].state = "sIdle" /\ tm[i].stalled => tm'[i].state = "sIdle"
              /\ tmwait'[i] = IF tm'[i].state = "sIdle" /\ ~ tm'[i].stalled THEN 0
                              ELSE IF tmwait[i] > MaxWait THEN tmwait[i] ELSE tmwait[i] + 1
<1>1. PICK m \in [TmFree -> UNION {TmCmd(i) : i \in TmCore}] :
        /\ \A i \in TmFree : m[i] \in TmCmd(i)
        /\ tm' = [i \in TmCore |-> Known(TmStep(i, IF i \in TmFree THEN m[i] ELSE [is |-> "none"]))]
        /\ corecur' = NextTurn /\ bufsize' = bufsize
        /\ tmwait' = [i \in TmCore |-> IF tm'[i].state = "sIdle" /\ ~ tm'[i].stalled THEN 0
                                       ELSE IF tmwait[i] > MaxWait THEN tmwait[i] ELSE tmwait[i] + 1]
  BY Zenon DEF TmNext
<1>2. ASSUME NEW i \in TmCore PROVE Proceeds(i, tm'[i])
  <2> DEFINE c == IF i \in TmFree THEN m[i] ELSE [is |-> "none"]
             q == TmStep(i, c)
  <2>1. c \in TmCmd(i)
    BY <1>1, Zenon DEF TmCmd
  <2>2. tm'[i] = Known(q)
    BY <1>1, Zenon
  <2> HIDE DEF c
  <2>3. Proceeds(i, q) /\ Good(q)
    BY <2>1, StepProceeds, TmStepGood, Zenon DEF Follows
  <2> HIDE DEF q
  <2>4. Known(q).state = q.state /\ Known(q).index = q.index /\ Known(q).conflict = q.conflict
    BY <2>3, KnownGood, Zenon
  <2>5. Known(q).buf = q.buf
    BY <2>3, Zenon DEF Known, Good, TmRegs
  <2> QED
    BY <2>2, <2>3, <2>4, <2>5, Zenon DEF Proceeds
<1>3. ASSUME NEW i \in TmCore, tm[i].state = "sIdle", tm[i].stalled PROVE tm'[i].state = "sIdle"
  <2> DEFINE c == [is |-> "none"]
             q == TmStep(i, c)
  <2>1. c \in TmCmd(i) /\ c.is = "none" /\ c.is # "WR" /\ c.is # "RD" /\ c.is # "commit"
    BY Zenon DEF TmCmd
  <2>2. tm'[i] = Known(q)
    BY <1>1, <1>3, Zenon DEF TmFree
  <2>3. Good(Base(i)) /\ Base(i).state = "sIdle"
    BY <1>3, BaseGood, Zenon DEF TmInv
  <2> HIDE DEF c
  <2>4. q = Base(i)
    BY <2>1, <2>3, Zenon DEF TmStep, Base
  <2> HIDE DEF q
  <2> QED
    BY <2>2, <2>3, <2>4, KnownGood, Zenon
<1> QED
  BY <1>1, <1>2, <1>3, Zenon

\* The turns until core i has its turn.
TmAhead(i) == IF corecur <= i THEN i - corecur ELSE i - corecur + tmcnt

\* Cycles that the commit under way has taken.
Into == IF Committing(corecur) THEN tm[corecur].index ELSE 0

\* A turn other than an endless one has at most bufsize cycles.
TmWaits(i) ==
  /\ tmwait[i] \in Nat
  /\ tm[i].state = "sIdle" /\ ~ tm[i].stalled => tmwait[i] = 0
  /\ tm[i].state = "sRead" => tmwait[i] = 1
  /\ tm[i].state \in {"sPreSharedRead", "sCommit"} =>
       tmwait[i] <= (tmcnt - 1 - TmAhead(i)) * bufsize + Into + 1
  /\ tm[i].state = "sSharedRead" => tmwait[i] <= (tmcnt - 1) * bufsize + 2

\* The counter of a commit has not passed the end of the buffer.
WithinBuffer == \A i \in TmCore : tm[i].state = "sCommit" => tm[i].index <= Len(tm[i].buf)

\* The inductive invariant of the time bound.  Once a commit of a full buffer has begun,
\* which does not end, nothing is promised.
TmTime == TmInv /\ WithinBuffer /\ ((\A i \in TmCore : TmWaits(i)) \/ Endless)

\* The registers that count.
LEMMA TmNumbers ==
  ASSUME TmInv, NEW i \in TmCore
  PROVE  /\ tmcnt \in Nat \ {0} /\ bufsize \in Nat \ {0} /\ corecur \in 0 .. tmcnt - 1 /\ i \in 0 .. tmcnt - 1
         /\ tm[i].index \in 0 .. bufsize - 1 /\ Len(tm[i].buf) \in Nat /\ Len(tm[i].buf) <= bufsize
         /\ tm[i].state \in TmStates
         /\ TmAhead(i) \in 0 .. tmcnt - 1 /\ Into \in 0 .. bufsize - 1
<1>1. tmcnt \in Nat \ {0} /\ bufsize \in Nat \ {0} /\ corecur \in 0 .. tmcnt - 1 /\ i \in 0 .. tmcnt - 1
  BY TmAssumption, Zenon DEF TmInv, TmCore
<1>2. \A k \in TmCore : tm[k] \in TmRegs /\ Len(tm[k].buf) <= bufsize
  BY Zenon DEF TmInv, Good
<1>3. tm[i].index \in 0 .. bufsize - 1 /\ tm[i].state \in TmStates /\ tm[i].buf \in Seq(Entry)
  BY <1>2, Zenon DEF TmRegs
<1>4. Len(tm[i].buf) \in Nat /\ Len(tm[i].buf) <= bufsize
  BY <1>2, <1>3
<1>5. TmAhead(i) \in 0 .. tmcnt - 1
  BY <1>1 DEF TmAhead
<1>6. tm[corecur].index \in 0 .. bufsize - 1 /\ 0 \in 0 .. bufsize - 1
  <2>1. corecur \in TmCore
    BY <1>1, Zenon DEF TmCore
  <2>2. tm[corecur].index \in 0 .. bufsize - 1
    BY <1>2, <2>1, Zenon DEF TmRegs
  <2> QED
    BY <1>1, <2>2
<1>7. Into \in 0 .. bufsize - 1
  BY <1>6, Zenon DEF Into
<1> QED
  BY <1>1, <1>3, <1>4, <1>5, <1>7, Zenon

\* The next index of a commit that has not finished.
LEMMA NextIndex ==
  ASSUME TmInv, NEW i \in TmCore, tm[i].index <= Len(tm[i].buf), ~ Finished(i)
  PROVE  /\ (tm[i].index + 1) % bufsize <= Len(tm[i].buf)
         /\ Len(tm[i].buf) # bufsize => (tm[i].index + 1) % bufsize = tm[i].index + 1
<1> DEFINE x == tm[i].index  n == Len(tm[i].buf)
<1>1. bufsize \in Nat \ {0} /\ x \in 0 .. bufsize - 1 /\ n \in Nat /\ n <= bufsize
  BY TmNumbers, Zenon
<1>2. x < n
  BY <1>1 DEF Finished
<1> HIDE DEF x, n
<1>3. (x + 1) % bufsize = IF x = bufsize - 1 THEN 0 ELSE x + 1
  BY <1>1, NextIs, Zenon
<1>4. (x + 1) % bufsize <= n /\ (n # bufsize => (x + 1) % bufsize = x + 1)
  BY <1>1, <1>2, <1>3
<1> QED
  BY <1>4, Zenon DEF x, n

\* The commit stays within the buffer.
LEMMA WithinNext ==
  ASSUME TmInv, TmNext, WithinBuffer
  PROVE  WithinBuffer'
<1> SUFFICES ASSUME NEW i \in TmCore, tm'[i].state = "sCommit" PROVE tm'[i].index <= Len(tm'[i].buf)
  BY Zenon DEF WithinBuffer
<1>1. Proceeds(i, tm'[i])
  BY CycleProceeds, Zenon
<1>2. Len(tm[i].buf) \in Nat /\ 0 <= Len(tm[i].buf)
  BY TmNumbers
<1>3. tm'[i].buf = tm[i].buf /\ (tm'[i].index = 0 \/ (Committing(i) /\ ~ Finished(i) /\ tm'[i].index = (tm[i].index + 1) % bufsize))
  BY <1>1, Zenon DEF Proceeds
<1>4. Committing(i) => tm[i].index <= Len(tm[i].buf)
  BY Zenon DEF WithinBuffer, Committing
<1>5. Committing(i) /\ ~ Finished(i) => (tm[i].index + 1) % bufsize <= Len(tm[i].buf)
  BY <1>4, NextIndex, Zenon
<1> QED
  BY <1>2, <1>3, <1>5, Zenon

\* A commit that cannot find its end goes on for ever.
LEMMA EndlessNext ==
  ASSUME TmInv, TmNext, Endless
  PROVE  Endless'
<1>1. PICK i \in TmCore : Committing(i) /\ Len(tm[i].buf) = bufsize
  BY Zenon DEF Endless
<1>2. ~ Finished(i)
  BY <1>1, TmNumbers DEF Finished
<1>3. corecur' = NextTurn /\ bufsize' = bufsize /\ Proceeds(i, tm'[i])
  BY CycleProceeds, Zenon
<1>4. corecur = i
  BY <1>1, Zenon DEF Committing
<1>5. corecur' = i
  BY <1>1, <1>2, <1>3, <1>4, Zenon DEF NextTurn
<1>6. tm'[i].state = "sCommit" /\ ~ tm'[i].conflict /\ tm'[i].buf = tm[i].buf
  BY <1>1, <1>2, <1>3, Zenon DEF Proceeds
<1> QED
  BY <1>1, <1>3, <1>5, <1>6, Zenon DEF Endless, Committing

\* The arithmetic of a turn that passes on.
LEMMA TurnSum ==
  ASSUME NEW x \in Int, NEW y \in Int, NEW p \in Int, NEW q \in Int, NEW b \in Int, y = x + b, p + 1 <= b, q >= 0
  PROVE  y + q >= x + p + 1
  OBVIOUS

\* The arithmetic of a cycle of waiting.
LEMMA WaitSum ==
  ASSUME NEW x \in Int, NEW y \in Int, NEW p \in Int, NEW q \in Int, NEW v \in Int, NEW w \in Int,
         w <= x + p + 1, y + q >= x + p + 1, v <= w + 1
  PROVE  v <= y + q + 1
  OBVIOUS

\* The bound on the cycles that a core has waited grows in every cycle in which it waits.
LEMMA BoundGrows ==
  ASSUME TmInv, TmNext, WithinBuffer, ~ Endless, NEW i \in TmCore,
         tm[i].state \in {"sPreSharedRead", "sCommit"}, tm'[i].state = tm[i].state
  PROVE  /\ TmAhead(i)' \in 0 .. tmcnt - 1 /\ Into' \in Nat
         /\ (tmcnt - 1 - TmAhead(i)') * bufsize + Into' >= (tmcnt - 1 - TmAhead(i)) * bufsize + Into + 1
<1> DEFINE j == corecur  b == bufsize  A == TmAhead(i)  B == TmAhead(i)'
<1>1. /\ tmcnt \in Nat \ {0} /\ b \in Nat \ {0} /\ j \in 0 .. tmcnt - 1 /\ i \in 0 .. tmcnt - 1
      /\ A \in 0 .. tmcnt - 1 /\ Into \in 0 .. b - 1 /\ j \in TmCore
  BY TmNumbers, Zenon DEF TmInv
<1>2. corecur' = NextTurn /\ Proceeds(i, tm'[i]) /\ Proceeds(j, tm'[j])
  BY <1>1, CycleProceeds, Zenon
<1>3. corecur' \in TmCore /\ \A k \in TmCore : tm'[k].index \in 0 .. b - 1
  BY TmCycle, Zenon DEF Follows, Good, TmRegs
<1>4. Into' \in Nat
  <2>1. tm'[corecur'].index \in Nat /\ 0 \in Nat
    BY <1>1, <1>3
  <2> QED
    BY <2>1, Zenon DEF Into
<1>5. CASE Committing(j) /\ ~ Finished(j)
  <2>1. corecur' = j
    BY <1>2, <1>5, Zenon DEF NextTurn
  <2>2. tm'[j].state = "sCommit" /\ ~ tm'[j].conflict /\ tm'[j].index = (tm[j].index + 1) % b
    BY <1>2, <1>5, Zenon DEF Proceeds
  <2>3. tm[j].index <= Len(tm[j].buf) /\ Len(tm[j].buf) # b
    BY <1>1, <1>5, Zenon DEF WithinBuffer, Committing, Endless
  <2>4. (tm[j].index + 1) % b = tm[j].index + 1
    BY <1>1, <1>5, <2>3, NextIndex, Zenon
  <2>5. Into = tm[j].index /\ Into' = tm[j].index + 1
    BY <1>5, <2>1, <2>2, <2>4, Zenon DEF Into, Committing
  <2>6. B = A
    BY <2>1, Zenon DEF TmAhead
  <2> HIDE DEF A, B, b, j
  <2>7. B \in 0 .. tmcnt - 1 /\ (tmcnt - 1 - B) * b + Into' >= (tmcnt - 1 - A) * b + Into + 1
    <3>1. Into' = Into + 1
      BY <2>5, Zenon
    <3>2. (tmcnt - 1 - A) * b \in Int
      BY <1>1
    <3>3. (tmcnt - 1 - B) * b = (tmcnt - 1 - A) * b
      BY <2>6, Zenon
    <3> QED
      BY <1>1, <2>6, <3>1, <3>2, <3>3
  <2> QED
    BY <1>4, <2>7, Zenon DEF A, B, b
<1>6. CASE ~ (Committing(j) /\ ~ Finished(j))
  <2>1. corecur' = (j + 1) % tmcnt
    BY <1>2, <1>6, Zenon DEF NextTurn
  <2>2. j # i
    BY <1>2, <1>6, Zenon DEF Proceeds
  <2>3. (j + 1) % tmcnt = IF j = tmcnt - 1 THEN 0 ELSE j + 1
    BY <1>1, NextIs, Zenon
  <2>4. B = A - 1 /\ A >= 1
    BY <1>1, <2>1, <2>2, <2>3 DEF TmAhead
  <2> HIDE DEF A, B, b, j
  <2>5. B \in 0 .. tmcnt - 1 /\ (tmcnt - 1 - B) * b + Into' >= (tmcnt - 1 - A) * b + Into + 1
    <3> DEFINE x == (tmcnt - 1 - A) * b  y == (tmcnt - 1 - B) * b
    <3>1. y = x + b /\ x \in Int /\ y \in Int /\ B \in 0 .. tmcnt - 1
      BY <1>1, <2>4
    <3>2. Into \in Int /\ Into + 1 <= b /\ b \in Int /\ Into' \in Int /\ Into' >= 0
      BY <1>1, <1>4
    <3> HIDE DEF x, y
    <3>3. y + Into' >= x + Into + 1
      BY <3>1, <3>2, TurnSum, Zenon
    <3> QED
      BY <3>1, <3>3, Zenon DEF x, y
  <2> QED
    BY <1>4, <2>5, Zenon DEF A, B, b
<1> QED
  BY <1>5, <1>6, Zenon

\* A cycle of waiting is paid by the turns that have passed.
LEMMA WaitsNext ==
  ASSUME TmInv, TmNext, WithinBuffer, ~ Endless, \A k \in TmCore : TmWaits(k), NEW i \in TmCore
  PROVE  TmWaits(i)'
<1>1. /\ Proceeds(i, tm'[i]) /\ bufsize' = bufsize
      /\ tm[i].state = "sIdle" /\ tm[i].stalled => tm'[i].state = "sIdle"
      /\ tmwait'[i] = IF tm'[i].state = "sIdle" /\ ~ tm'[i].stalled THEN 0
                      ELSE IF tmwait[i] > MaxWait THEN tmwait[i] ELSE tmwait[i] + 1
  BY CycleProceeds, Zenon
<1>2. TmWaits(i)
  OBVIOUS
<1>3. tmwait[i] \in Nat /\ tmwait'[i] \in Nat /\ tmwait'[i] <= tmwait[i] + 1
  <2>1. tmwait[i] \in Nat
    BY <1>2, Zenon DEF TmWaits
  <2> QED
    BY <1>1, <2>1
<1>4. tmcnt \in Nat \ {0} /\ bufsize \in Nat \ {0} /\ TmAhead(i) \in 0 .. tmcnt - 1 /\ Into \in 0 .. bufsize - 1
  BY TmNumbers, Zenon
<1>5. CASE tm'[i].state = "sIdle"
  BY <1>1, <1>3, <1>5, Zenon DEF TmWaits
<1>6. CASE tm'[i].state = "sRead"
  <2>1. tmwait[i] = 0
    BY <1>1, <1>2, <1>6, Zenon DEF Proceeds, TmWaits
  <2>2. MaxWait \in Nat
    BY <1>4 DEF MaxWait
  <2>3. tmwait'[i] = 1
    BY <1>1, <1>6, <2>1, <2>2
  <2> QED
    BY <1>3, <1>6, <2>3, Zenon DEF TmWaits
<1>7. CASE tm'[i].state = "sSharedRead"
  <2>1. tm[i].state = "sPreSharedRead" /\ corecur = i
    BY <1>1, <1>7, Zenon DEF Proceeds
  <2>2. Into = 0
    BY <2>1, Zenon DEF Into, Committing
  <2>3. TmAhead(i) = 0
    BY <2>1, TmNumbers DEF TmAhead
  <2>4. tmwait[i] <= (tmcnt - 1 - 0) * bufsize + 0 + 1
    BY <1>2, <2>1, <2>2, <2>3, Zenon DEF TmWaits
  <2>5. tmwait'[i] <= (tmcnt - 1) * bufsize + 2
    <3>1. (tmcnt - 1 - 0) * bufsize = (tmcnt - 1) * bufsize /\ (tmcnt - 1) * bufsize \in Int
      BY <1>4
    <3> QED
      BY <1>3, <2>4, <3>1
  <2> QED
    BY <1>1, <1>3, <1>7, <2>5, Zenon DEF TmWaits
<1>8. CASE tm'[i].state \in {"sPreSharedRead", "sCommit"} /\ tm[i].state # tm'[i].state
  <2>1. tm[i].state = "sIdle"
    BY <1>1, <1>8, Zenon DEF Proceeds, Committing
  <2>2. tmwait'[i] <= 1
    <3>1. tmwait[i] = 0
      BY <1>1, <1>2, <1>8, <2>1, Zenon DEF TmWaits
    <3> QED
      BY <1>3, <3>1
  <2>3. TmAhead(i)' \in 0 .. tmcnt - 1 /\ Into' \in Nat
    <3>1. corecur' \in 0 .. tmcnt - 1 /\ i \in 0 .. tmcnt - 1 /\ \A k \in TmCore : tm'[k].index \in 0 .. bufsize - 1
      BY TmCycle, TmNumbers, Zenon DEF Follows, Good, TmRegs, TmCore
    <3>2. tm'[corecur'].index \in 0 .. bufsize - 1
      BY <3>1, Zenon DEF TmCore
    <3>3. tm'[corecur'].index \in Nat /\ 0 \in Nat
      BY <1>4, <3>2
    <3>4. Into' \in Nat
      BY <3>3, Zenon DEF Into
    <3>5. i \in 0 .. tmcnt - 1 /\ tmcnt \in Nat
      BY <1>4, <3>1, Zenon
    <3>6. \A c \in 0 .. tmcnt - 1 : (IF c <= i THEN i - c ELSE i - c + tmcnt) \in 0 .. tmcnt - 1
      BY <3>5
    <3>7. TmAhead(i)' \in 0 .. tmcnt - 1
      BY <3>1, <3>6, Zenon DEF TmAhead
    <3> QED
      BY <3>4, <3>7, Zenon
  <2> DEFINE B == TmAhead(i)'
  <2> HIDE DEF B
  <2>4. (tmcnt - 1 - B) * bufsize >= 0 /\ (tmcnt - 1 - B) * bufsize \in Int
    BY <1>4, <2>3 DEF B
  <2>5. tmwait'[i] <= (tmcnt - 1 - B) * bufsize + Into' + 1
    BY <1>3, <2>2, <2>3, <2>4
  <2> QED
    BY <1>1, <1>3, <1>8, <2>5, Zenon DEF TmWaits, B
<1>9. CASE tm'[i].state \in {"sPreSharedRead", "sCommit"} /\ tm[i].state = tm'[i].state
  <2> DEFINE A == TmAhead(i)  B == TmAhead(i)'
             x == (tmcnt - 1 - A) * bufsize  y == (tmcnt - 1 - B) * bufsize
  <2>1. tmwait[i] <= x + Into + 1
    BY <1>2, <1>9, Zenon DEF TmWaits
  <2>2. B \in 0 .. tmcnt - 1 /\ Into' \in Nat /\ y + Into' >= x + Into + 1
    BY <1>9, BoundGrows, Zenon
  <2>3. x \in Int /\ y \in Int
    BY <1>4, <2>2
  <2> HIDE DEF x, y
  <2>4. Into \in Int /\ Into' \in Int
    BY <1>4, <2>2
  <2>5. y + Into' >= x + Into + 1
    BY <2>2, Zenon
  <2>6. tmwait'[i] <= y + Into' + 1
    <3>1. tmwait[i] \in Int /\ tmwait'[i] \in Int
      BY <1>3
    <3> QED
      BY <1>3, <2>1, <2>3, <2>4, <2>5, <3>1, WaitSum, Zenon
  <2> QED
    BY <1>1, <1>3, <1>9, <2>6, Zenon DEF TmWaits, y
<1> QED
  BY <1>1, <1>5, <1>6, <1>7, <1>8, <1>9, Zenon DEF Proceeds, TmStates

\* A command to the transactional memory is answered within MaxWait cycles, for any number
\* of cores and entries, unless the core loads one word more than its buffer has entries, or
\* the commit of a full buffer keeps the turn.
THEOREM TmIsInTime == TmSpec => []TmInTime
<1>1. TmInit => TmTime
  <2> SUFFICES ASSUME TmInit PROVE TmTime
    OBVIOUS
  <2>1. \A i \in TmCore : tm[i].state = "sIdle" /\ tmwait[i] = 0
    BY Zenon DEF TmInit, Empty
  <2>2. \A i \in TmCore : TmWaits(i)
    BY <2>1 DEF TmWaits
  <2>3. WithinBuffer
    BY <2>1, Zenon DEF WithinBuffer
  <2> QED
    BY <2>2, <2>3, TmInvInit, Zenon DEF TmTime
<1>2. TmTime /\ [TmNext]_tmvars => TmTime'
  <2> SUFFICES ASSUME TmTime, [TmNext]_tmvars PROVE TmTime'
    OBVIOUS
  <2>1. TmInv /\ TmInv'
    BY TmInvNext, Zenon DEF TmTime
  <2>2. CASE TmNext
    BY <2>1, <2>2, WithinNext, EndlessNext, WaitsNext, Zenon DEF TmTime
  <2>3. CASE UNCHANGED tmvars
    <3>1. /\ bufsize' = bufsize /\ corecur' = corecur /\ tm' = tm /\ tmwait' = tmwait
      BY <2>3, Zenon DEF tmvars
    <3>2. WithinBuffer'
      BY <3>1, Zenon DEF TmTime, WithinBuffer
    <3>3. Endless => Endless'
      BY <3>1, Zenon DEF Endless, Committing
    <3>4. \A i \in TmCore : TmWaits(i) => TmWaits(i)'
      BY <3>1, Zenon DEF TmWaits, TmAhead, Into, Committing
    <3> QED
      BY <2>1, <3>2, <3>3, <3>4, Zenon DEF TmTime
  <2> QED
    BY <2>2, <2>3, Zenon
<1>3. TmTime => TmInTime
  <2> SUFFICES ASSUME TmTime, NEW i \in TmCore, ~ Endless, ~ tm[i].stalled PROVE tmwait[i] <= MaxWait
    BY Zenon DEF TmInTime
  <2>1. TmInv /\ TmWaits(i)
    BY Zenon DEF TmTime
  <2> DEFINE A == TmAhead(i)
  <2>2. /\ tmcnt \in Nat \ {0} /\ bufsize \in Nat \ {0} /\ A \in 0 .. tmcnt - 1 /\ Into \in 0 .. bufsize - 1
        /\ tm[i].state \in TmStates
    BY <2>1, TmNumbers, Zenon
  <2> HIDE DEF A
  <2>3. \/ tmwait[i] \in {0, 1}
        \/ tmwait[i] <= (tmcnt - 1 - A) * bufsize + Into + 1
        \/ tmwait[i] <= (tmcnt - 1) * bufsize + 2
    BY <2>1, <2>2, Zenon DEF TmWaits, TmStates, A
  <2>4. tmwait[i] \in Nat
    BY <2>1, Zenon DEF TmWaits
  <2> DEFINE n == tmcnt * bufsize
  <2>5. n \in Nat /\ (tmcnt - 1) * bufsize = n - bufsize /\ A * bufsize >= 0 /\ A * bufsize \in Int
        /\ (tmcnt - 1 - A) * bufsize = n - bufsize - A * bufsize /\ MaxWait = n + tmcnt
    BY <2>2 DEF MaxWait
  <2> HIDE DEF n
  <2> QED
    BY <2>2, <2>3, <2>4, <2>5
<1> QED
  BY <1>1, <1>2, <1>3, PTL DEF TmSpec
-----------------------------------------------------------------------------
\* What worst-case execution time analysis relies on holds of the two shared memories and
\* the stack cache together, for any number of cores and any sizes; of the transactional
\* memory with the exceptions of TmInTime, both of full buffers.
THEOREM BoundsAreKept == CasSpec /\ TmSpec /\ ScSpec => []WorstCaseBounds
<1>1. CasInTime /\ TmInTime /\ BurstsBounded => WorstCaseBounds
  BY Zenon DEF WorstCaseBounds
<1> QED
  BY <1>1, CasIsInTime, TmIsInTime, StackBursts, PTL
==============================================================================
