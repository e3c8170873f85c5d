------------------------------ MODULE StackCache -----------------------------
(***************************************************************************)
(* The stack cache, hardware/src/main/scala/stackcache/StackCache.scala.   *)
(* It holds the words from stackTop to memTop of a stack that grows        *)
(* downwards; sres, sens, sfree and sspill move the two pointers and       *)
(* transfer words in aligned bursts to and from the main memory.           *)
(*                                                                         *)
(* One step is one clock cycle in which something changes; waiting for the *)
(* memory is a stuttering step.  So is being stalled (ena_in) before the   *)
(* first word of a transfer, unless the memory accepts (StallAccept).      *)
(* Addresses count words.  A word is abstracted to whether it is the one   *)
(* last stored to its address.                                             *)
(***************************************************************************)
EXTENDS Integers

CONSTANTS ScSize,     \* SCACHE_SIZE in words
          ScBurst,    \* BURST_LENGTH
          ScBase,     \* the stack has the addresses below this one
          Junk        \* any other word

ScAddr == 0 .. ScBase - 1

\* The sizes of a build; a burst has more than one word (FillError relies on it).
ASSUME StackSizes ==
  ScSize \in Nat \ {0} /\ ScBurst \in Nat \ {0, 1} /\ ScBase \in Nat /\ Junk \notin ScAddr

Here == -1            \* no context switch is under way

VARIABLES sc,         \* the registers
          lines,      \* the cache memory: the address whose word a line holds, or Junk
          inMem,      \* the addresses whose word the main memory holds
          live,       \* history: the addresses stored to since they were reserved, without
                      \* the words that Slips has lost
          port        \* the memory at the other end of the burst port, and history

scvars == <<sc, lines, inMem, live, port>>

Line(a) == a % ScSize
Aligned(a) == (a \div ScBurst) * ScBurst
LastOfBurst == sc.ta % ScBurst = ScBurst - 1

\* The start-up code has set both pointers.
ScInit ==
  /\ sc \in {[state |-> "idle", top |-> ScBase, mtop |-> ScBase, ta |-> 0, newmt |-> 0,
              res |-> FALSE, rdAddr |-> 0, away |-> Here, icache |-> type] : type \in {"method", "line"}}
  /\ lines = [l \in 0 .. ScSize - 1 |-> Junk]
  /\ inMem = {} /\ live = {}
  /\ port = [left |-> 0, err |-> FALSE, fault |-> FALSE, words |-> 0, bursts |-> 0, lost |-> FALSE]

\* The next state of the registers and of the port.  Between two operations the registers
\* that the next one sets before it uses them, and the history of the last one, are 0.
ScGo(r, p) ==
  IF r.state # "idle" THEN sc' = r /\ port' = p
  ELSE /\ sc' = [r EXCEPT !.ta = 0, !.newmt = 0, !.res = FALSE, !.rdAddr = 0]
       /\ port' = [p EXCEPT !.err = FALSE, !.words = 0, !.bursts = 0]

\* An instruction in the execute stage; no load or store is in the same bundle.
Operation == sc.state = "idle" /\ sc.away = Here /\ ~ port.fault

\* The exception that follows an ERR response ends the thread; another one starts.
Restart ==
  /\ sc.state = "idle" /\ port.fault
  /\ ScGo([sc EXCEPT !.top = ScBase, !.mtop = ScBase], [port EXCEPT !.fault = FALSE, !.lost = FALSE])
  /\ lines' = [l \in DOMAIN lines |-> Junk]
  /\ inMem' = {} /\ live' = {}
-----------------------------------------------------------------------------
\* stackAboveMem
AboveMem(n) == sc.mtop - sc.top < n

\* sens n: fill from memTop on.
Ensure(n) ==
  /\ Operation /\ sc.top + n <= ScBase
  /\ ScGo([sc EXCEPT !.ta = Aligned(sc.mtop), !.newmt = sc.top + n,
                     !.state = IF AboveMem(n) THEN "fill" ELSE "idle"],
          [port EXCEPT !.words = n])
  /\ UNCHANGED <<lines, inMem, live>>

\* Mutant: memTop is left behind.
FreedMemTopStays(n) == sc.mtop

FreedMemTop(n) == IF AboveMem(n) THEN sc.top + n ELSE sc.mtop

\* sfree n: the words below the new stackTop are dead.
Free(n) ==
  /\ Operation /\ sc.top + n <= ScBase
  /\ ScGo([sc EXCEPT !.top = sc.top + n, !.mtop = FreedMemTop(n)], port)
  /\ live' = {a \in live : a >= sc.top + n}
  /\ inMem' = inMem \cap live'
  /\ lines' = [l \in DOMAIN lines |-> IF lines[l] \in live' THEN lines[l] ELSE Junk]

\* sres n: spill from stackTop + SCACHE_SIZE on.
Reserve(n) ==
  /\ Operation /\ sc.top - n >= 0
  /\ LET start == Aligned(sc.top - n + ScSize)
     IN  ScGo([sc EXCEPT !.res = TRUE, !.top = sc.top - n, !.ta = start, !.rdAddr = Line(start),
                         !.state = IF sc.mtop - (sc.top - n) > ScSize THEN "holdSpill" ELSE "idle"],
              [port EXCEPT !.words = n])
  /\ UNCHANGED <<lines, inMem, live>>

\* sspill n
Spill(n) ==
  /\ Operation /\ n <= sc.mtop - sc.top
  /\ LET start == Aligned(sc.mtop - n)
     IN  ScGo([sc EXCEPT !.res = FALSE, !.ta = start, !.rdAddr = Line(start),
                         !.newmt = sc.mtop - n, !.state = "holdSpill"],
              [port EXCEPT !.words = n])
  /\ UNCHANGED <<lines, inMem, live>>

\* A store to a word of the frame.
StackStore(a) ==
  /\ Operation /\ a \in sc.top .. sc.mtop - 1
  /\ lines' = [lines EXCEPT ![Line(a)] = a]
  /\ inMem' = inMem \ {a} /\ live' = live \cup {a}
  /\ UNCHANGED <<sc, port>>

\* A context switch: everything has been spilled, and other threads have used the cache.
SwitchAway ==
  /\ Operation /\ sc.top = sc.mtop
  /\ sc' = [sc EXCEPT !.away = sc.top, !.top = 0, !.mtop = 0]
  /\ lines' = [l \in DOMAIN lines |-> Junk]
  /\ UNCHANGED <<inMem, live, port>>

\* Back again: sc_OP_SET_ST, then sc_OP_SET_MT.
SetTop ==
  /\ sc.away # Here /\ sc.top # sc.away
  /\ sc' = [sc EXCEPT !.top = sc.away]
  /\ UNCHANGED <<lines, inMem, live, port>>

SetMemTop ==
  /\ sc.away # Here /\ sc.top = sc.away
  /\ sc' = [sc EXCEPT !.mtop = sc.away, !.away = Here]
  /\ UNCHANGED <<lines, inMem, live, port>>
-----------------------------------------------------------------------------
\* Mutant: the words of the burst above the ones to spill are written as well.
WriteEnableAbove == (IF sc.res THEN sc.top + ScSize ELSE sc.newmt) <= sc.ta

\* The word at transferAddr is one to be spilled.
WriteEnable == (IF sc.res THEN sc.top + ScSize ELSE sc.newmt) <= sc.ta /\ sc.ta < sc.mtop

\* The memory takes a word of a write burst.
WriteWord ==
  inMem' = IF ~ WriteEnable THEN inMem
           ELSE IF lines[sc.rdAddr] = sc.ta THEN inMem \cup {sc.ta} ELSE inMem \ {sc.ta}

\* The word sent is not the one at transferAddr, which is lost.
Slips == WriteEnable /\ sc.rdAddr # Line(sc.ta)

\* Before the first burst the pipeline can stand still for an instruction.  ena_in then holds
\* back the command, but not the read address, which moves on if the memory signals that it
\* would accept.  Only a line cache fetches while the stack cache is at work.
StallAccept ==
  /\ sc.state = "holdSpill" /\ port.bursts = 0 /\ sc.icache = "line"
  /\ sc' = [sc EXCEPT !.rdAddr = Line(sc.ta + 1)]
  /\ UNCHANGED <<lines, inMem, live, port>>

\* The first word is accepted together with the command.
HoldSpill ==
  /\ sc.state = "holdSpill"
  /\ ScGo([sc EXCEPT !.state = "spill", !.ta = sc.ta + 1, !.rdAddr = Line(sc.ta + 1)],
          [port EXCEPT !.bursts = @ + 1, !.lost = @ \/ Slips])
  /\ WriteWord
  /\ live' = (IF Slips THEN live \ {sc.ta} ELSE live) /\ UNCHANGED lines

SpillWord ==
  /\ sc.state = "spill"
  /\ ScGo([sc EXCEPT !.state = IF LastOfBurst THEN "waitSpill" ELSE "spill",
                     !.ta = sc.ta + 1, !.rdAddr = Line(sc.ta + 1)], port)
  /\ WriteWord /\ UNCHANGED <<lines, live>>

\* The response to the burst.
WaitSpill(resp) ==
  /\ sc.state = "waitSpill"
  /\ LET done == sc.mtop <= sc.ta
     IN  ScGo([sc EXCEPT !.mtop = IF ~ done THEN @ ELSE IF sc.res THEN sc.top + ScSize ELSE sc.newmt,
                         !.state = CASE resp = "NULL" -> "waitSpill"
                                     [] resp = "DVA" -> IF done THEN "idle" ELSE "holdSpill"
                                     [] resp = "ERR" -> "idle"],
              [port EXCEPT !.fault = @ \/ resp = "ERR"])
  /\ UNCHANGED <<lines, inMem, live>>
-----------------------------------------------------------------------------
\* The read command is accepted.  Either all words will be good or all responses ERR.
Fill ==
  /\ sc.state = "fill"
  /\ \E err \in BOOLEAN :
       ScGo([sc EXCEPT !.state = "waitFill"], [port EXCEPT !.bursts = @ + 1, !.left = ScBurst, !.err = err])
  /\ UNCHANGED <<lines, inMem, live>>

FillingDone == sc.newmt <= sc.ta

FillWord ==
  /\ sc.state = "waitFill" /\ ~ port.err
  /\ ScGo([sc EXCEPT !.ta = sc.ta + 1, !.mtop = IF FillingDone THEN sc.newmt ELSE @,
                     !.state = IF ~ LastOfBurst THEN @ ELSE IF FillingDone THEN "idle" ELSE "fill"],
          [port EXCEPT !.left = @ - 1])
  /\ lines' = IF FillingDone \/ sc.mtop > sc.ta THEN lines
              ELSE [lines EXCEPT ![Line(sc.ta)] = IF sc.ta \in inMem THEN sc.ta ELSE Junk]
  /\ UNCHANGED <<inMem, live>>

\* After the first ERR response the others of the burst are waited for.
ErrorState == IF sc.state = "error" /\ LastOfBurst THEN "idle" ELSE "error"

FillError ==
  /\ sc.state \in {"waitFill", "error"} /\ port.err
  /\ ScGo([sc EXCEPT !.ta = sc.ta + 1, !.state = ErrorState],
          [port EXCEPT !.left = @ - 1, !.fault = TRUE])
  /\ UNCHANGED <<lines, inMem, live>>
-----------------------------------------------------------------------------
ScNext ==
  \/ \E n \in 0 .. ScSize : Ensure(n) \/ Free(n) \/ Reserve(n) \/ Spill(n)
  \/ \E a \in ScAddr : StackStore(a)
  \/ SwitchAway \/ SetTop \/ SetMemTop \/ Restart
  \/ StallAccept \/ HoldSpill \/ SpillWord \/ (\E resp \in {"NULL", "DVA", "ERR"} : WaitSpill(resp))
  \/ Fill \/ FillWord \/ FillError
-----------------------------------------------------------------------------
\* The registers have their types; between two operations the words from stackTop to
\* memTop fit into the cache, unless the memory has answered a transfer with ERR.
ScTypeOK ==
  /\ sc.state \in {"idle", "fill", "waitFill", "error", "spill", "holdSpill", "waitSpill"}
  /\ {sc.top, sc.mtop, sc.newmt} \subseteq 0 .. ScBase + ScSize /\ sc.rdAddr \in DOMAIN lines
  /\ lines \in [0 .. ScSize - 1 -> ScAddr \cup {Junk}]
  /\ Operation => sc.mtop - sc.top \in 0 .. ScSize

\* Between two operations every word of the stack is where a load looks for it, in the
\* cache or in the memory, as it was last stored: through spills of a part of a burst,
\* fills of one, frames larger than what is left in the cache and context switches.  Only
\* with a line cache the first word of a spill can be lost, and no other.  And, after errors
\* as well, no response to a transfer is still to come.
StackKept ==
  sc.state = "idle" =>
    /\ port.left = 0
    /\ sc.icache = "method" => ~ port.lost
    /\ ~ port.fault =>
         \A a \in live : IF sc.away = Here /\ a < sc.mtop THEN lines[Line(a)] = a ELSE a \in inMem

\* What an operation on n words costs: never more than n / BURST_LENGTH + 2 bursts.
BurstsBounded == port.bursts <= port.words \div ScBurst + 2
==============================================================================
