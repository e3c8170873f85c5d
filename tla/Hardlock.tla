------------------------------ MODULE Hardlock -------------------------------
(***************************************************************************)
(* The locking unit, hardware/src/main/scala/cmp/Hardlock.scala (Hardlock  *)
(* behind HardlockOCPWrapper), with the cores that use it by lock and      *)
(* unlock of c/apps/hardlock/hardlock.h.  A store to the unit stalls its   *)
(* core until the unit responds.                                           *)
(*                                                                         *)
(* One step is one clock cycle: every register takes the value computed    *)
(* from the registers and the commands of the cycle before.  In a cycle    *)
(* any set of cores that are not stalled may issue a command (handbook,    *)
(* OCPcore: also in the cycle of a response).                              *)
(***************************************************************************)
EXTENDS Integers

CONSTANTS coreCnt, lckCnt

Core == 0 .. coreCnt - 1
Lock == 0 .. lckCnt - 1

ASSUME CountAssumption == coreCnt \in Nat \ {0} /\ lckCnt \in Nat \ {0}

VARIABLES queueReg,  \* per lock and core: wants or has the lock
          curReg,    \* per lock: the core whose turn it is
          reqReg,    \* per core: a command waits for its response
          pc,        \* per core: "out", "locking", "in", "unlocking"
          sel,       \* per core: the lock of its last command
          passed     \* history: cores granted the lock since this core asked for it

lckvars == <<queueReg, curReg, reqReg, pc, sel, passed>>

LckInit ==
  /\ queueReg = [l \in Lock |-> [c \in Core |-> FALSE]]
  /\ curReg = [l \in Lock |-> 0]
  /\ reqReg = [c \in Core |-> FALSE]
  /\ pc = [c \in Core |-> "out"]
  /\ sel = [c \in Core |-> 0]
  /\ passed = [c \in Core |-> {}]

\* Mutant: one past the last core when no bit is set.
PriorityEncoderPastEnd(bits) ==
  IF bits = {} THEN coreCnt ELSE CHOOSE c \in bits : \A d \in bits : c <= d

\* The lowest bit that is set, the last position if none is.
PriorityEncoder(bits) ==
  IF bits = {} THEN coreCnt - 1 ELSE CHOOSE c \in bits : \A d \in bits : c <= d

lo(l) == {c \in Core : queueReg[l][c] /\ curReg[l] > c}
hi(l) == {c \in Core : queueReg[l][c] /\ curReg[l] <= c}

\* Mutants: the turn passes on although the core still has the lock; after a release
\* the lowest core comes first.
TurnAlways(l) ==
  IF hi(l) \ {curReg[l]} # {} THEN PriorityEncoder(hi(l) \ {curReg[l]}) ELSE PriorityEncoder(lo(l) \cup hi(l))
TurnFixedPriority(l) ==
  IF queueReg[l][curReg[l]] THEN curReg[l] ELSE PriorityEncoder(lo(l) \cup hi(l))

\* The circular priority encoder: the next value of curReg.
Turn(l) == IF hi(l) # {} THEN PriorityEncoder(hi(l)) ELSE PriorityEncoder(lo(l))

blck(c) == \E l \in Lock : queueReg[l][c] /\ curReg[l] # c

\* The unit answers core c in this cycle.
Resp(c) == reqReg[c] /\ ~ blck(c)
Granted(c) == pc[c] = "locking" /\ Resp(c)
-----------------------------------------------------------------------------
\* Where the response of this cycle, if there is one, takes core c.
Position(c) ==
  IF ~ Resp(c) THEN pc[c] ELSE IF pc[c] = "locking" THEN "in" ELSE "out"

\* The cores in cmd issue a store in this cycle, at the earliest together with the
\* response to the one before: lock(wanted[c]) outside, unlock inside.
Clock(cmd, wanted) ==
  /\ \A c \in cmd : Position(c) \in {"out", "in"}
  /\ sel' = [c \in Core |-> IF c \in cmd /\ Position(c) = "out" THEN wanted[c] ELSE sel[c]]
  /\ queueReg' = [l \in Lock |-> [c \in Core |->
                    IF c \in cmd /\ sel'[c] = l THEN Position(c) = "out" ELSE queueReg[l][c]]]
  /\ curReg' = [l \in Lock |-> Turn(l)]
  /\ reqReg' = [c \in Core |-> c \in cmd \/ (reqReg[c] /\ blck(c))]
  /\ pc' = [c \in Core |-> IF c \notin cmd THEN Position(c)
                           ELSE IF Position(c) = "out" THEN "locking" ELSE "unlocking"]
  /\ passed' = [c \in Core |->
                  IF Position(c) # "locking" THEN {}
                  ELSE passed[c] \cup {d \in Core : Granted(d) /\ sel[d] = sel[c]}]

Cycle(c) == \E cmd \in SUBSET Core, wanted \in [Core -> Lock] : c \in cmd /\ Clock(cmd, wanted)

LckNext == \E cmd \in SUBSET Core, wanted \in [Core -> Lock] : Clock(cmd, wanted)

LckSpec == LckInit /\ [][LckNext]_lckvars

\* The clock ticks, and a core that has the lock gives it back.
LckFairness == WF_lckvars(LckNext) /\ \A c \in Core : WF_lckvars(pc[c] = "in" /\ Cycle(c))

LckFairSpec == LckSpec /\ LckFairness
-----------------------------------------------------------------------------
\* Every register holds a value of its width.
LckTypeOK ==
  /\ queueReg \in [Lock -> [Core -> BOOLEAN]]
  /\ curReg \in [Lock -> Core]
  /\ reqReg \in [Core -> BOOLEAN]
  /\ pc \in [Core -> {"out", "locking", "in", "unlocking"}]
  /\ sel \in [Core -> Lock]
  /\ passed \in [Core -> SUBSET Core]

\* From the response to lock(l) to the store of unlock(l) on one core, the cycle of the
\* response included, no other core is between those two points for the same lock.
Inside(c) == pc[c] = "in" \/ Granted(c)

OneOwner ==
  \A c, d \in Core : c # d /\ Inside(c) /\ Inside(d) => sel[c] # sel[d]

\* Circular priority: while a core waits for a lock, no other core gets that lock twice.
NoBypassTwice ==
  \A c, d \in Core :
    pc[c] = "locking" /\ c # d /\ Granted(d) /\ sel[d] = sel[c] => d \notin passed[c]

\* A core that asked for a lock gets it if those who have it give it back.
LockGranted == \A c \in Core : pc[c] = "locking" ~> Inside(c)
==============================================================================
