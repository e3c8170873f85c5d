-------------------------------- MODULE Lock ---------------------------------
(***************************************************************************)
(* The lock shared by two cores, c/libmp/lock.c: Lamport's bakery for two  *)
(* processes in which a core never reads the memory of the other one.      *)
(* Each LOCK_T lives in its core's scratchpad memory; the core writes its  *)
(* own local_entering and local_number and pushes them by DMA into the     *)
(* remote_entering and remote_number of the other LOCK_T.  The DMA reads   *)
(* its source when it moves the word, not when it is set up.               *)
(*                                                                         *)
(* One action is one access to scratchpad memory or to the DMA table.      *)
(***************************************************************************)
EXTENDS Naturals, Noc

CONSTANTS Core,         \* the ids (get_cpuid) of the two cores that share the lock
          NumberRange,  \* values of an unsigned int: 2^32 in the build
          MaxNumber     \* bound: no acquire starts while a ticket is above it

ASSUME CoreAssumption ==
  Core \subseteq Nat /\ \E a, b \in Core : a # b /\ Core = {a, b}
ASSUME ChannelAssumption == Channel = Core
ASSUME NumberAssumption ==
  NumberRange \in Nat /\ MaxNumber \in Nat /\ 1 < NumberRange /\ 1 < MaxNumber
ASSUME TransferAssumption == NoTransfer \notin {"entering", "number"}

VARIABLES pc,               \* where each core is in acquire_lock / release_lock
          local_entering,   \* the four words of each core's LOCK_T
          local_number,
          remote_entering,
          remote_number,
          n,                \* acquire_lock's own ticket
          m                 \* acquire_lock's last read of remote_number

vars == <<dma, pc, local_entering, local_number, remote_entering, remote_number, n, m>>

\* lock->remote_cpuid
Remote(c) == CHOOSE r \in Core : r # c

\* initialize_lock on both cores.
Init ==
  /\ NocInit
  /\ pc = [c \in Core |-> "idle"]
  /\ local_entering = [c \in Core |-> 0]
  /\ local_number = [c \in Core |-> 0]
  /\ remote_entering = [c \in Core |-> 0]
  /\ remote_number = [c \in Core |-> 0]
  /\ n = [c \in Core |-> 0]
  /\ m = [c \in Core |-> 0]

Goto(c, from, to) == pc[c] = from /\ pc' = [pc EXCEPT ![c] = to]
-----------------------------------------------------------------------------
\* Bound: both the other core's ticket and the copy of it that has arrived here are
\* below MaxNumber.  It delays calls of acquire_lock, never a core that made one.
TicketsBelowBound(c) == local_number[Remote(c)] < MaxNumber /\ remote_number[c] < MaxNumber

\* acquire_lock up to the first noc_write: announce that a ticket is chosen.
Acquire(c) ==
  /\ TicketsBelowBound(c)
  /\ Goto(c, "idle", "send_entering")
  /\ local_entering' = [local_entering EXCEPT ![c] = 1]
  /\ UNCHANGED <<dma, local_number, remote_entering, remote_number, n, m>>

\* The two noc_write calls of local_entering, with 1 and with 0.
SendEntering(c) ==
  /\ \/ Goto(c, "send_entering", "choose")
     \/ Goto(c, "send_left", "wait_entering")
  /\ noc_write(c, "entering")
  /\ UNCHANGED <<local_entering, local_number, remote_entering, remote_number, n, m>>

\* The DMA is done: take a ticket above the other core's.
ChooseNumber(c) ==
  /\ noc_dma_done(c)
  /\ Goto(c, "choose", "send_number")
  /\ n' = [n EXCEPT ![c] = (remote_number[c] + 1) % NumberRange]
  /\ local_number' = [local_number EXCEPT ![c] = n'[c]]
  /\ UNCHANGED <<dma, local_entering, remote_entering, remote_number, m>>

\* noc_write of local_number in acquire_lock and in release_lock.
SendNumber(c) ==
  /\ \/ Goto(c, "send_number", "leave")
     \/ Goto(c, "send_release", "released")
  /\ noc_write(c, "number")
  /\ UNCHANGED <<local_entering, local_number, remote_entering, remote_number, n, m>>

\* The ticket has arrived: the choice is over.
LeaveDoorway(c) ==
  /\ noc_dma_done(c)
  /\ Goto(c, "leave", "send_left")
  /\ local_entering' = [local_entering EXCEPT ![c] = 0]
  /\ UNCHANGED <<dma, local_number, remote_entering, remote_number, n, m>>

\* Mutant: the ticket of the other core is compared while it may still be choosing.
SeeNotEnteringUnchecked(c) ==
  /\ Goto(c, "wait_entering", "read_number")
  /\ UNCHANGED <<dma, local_entering, local_number, remote_entering, remote_number, n, m>>

\* The spin on remote_entering ends.
SeeNotEntering(c) ==
  /\ remote_entering[c] # 1
  /\ Goto(c, "wait_entering", "read_number")
  /\ UNCHANGED <<dma, local_entering, local_number, remote_entering, remote_number, n, m>>

\* m = lock->remote_number, before and inside the last loop.
ReadNumber(c) ==
  /\ Goto(c, "read_number", "test_number")
  /\ m' = [m EXCEPT ![c] = remote_number[c]]
  /\ UNCHANGED <<dma, local_entering, local_number, remote_entering, remote_number, n>>

\* Mutant: a tie goes to the higher id.
MustWaitTieReversed(c) ==
  /\ m[c] # 0
  /\ m[c] < n[c] \/ (m[c] = n[c] /\ c < Remote(c))

\* The condition of the last loop of acquire_lock.
MustWait(c) ==
  /\ m[c] # 0
  /\ m[c] < n[c] \/ (m[c] = n[c] /\ Remote(c) < c)

\* Mutant: the loop does not read remote_number again.
TestNumberOnce(c) ==
  /\ \/ MustWait(c) /\ Goto(c, "test_number", "test_number")
     \/ ~ MustWait(c) /\ Goto(c, "test_number", "cs")
  /\ UNCHANGED <<dma, local_entering, local_number, remote_entering, remote_number, n, m>>

\* Leave the loop with the lock, or read again.
TestNumber(c) ==
  /\ \/ MustWait(c) /\ Goto(c, "test_number", "read_number")
     \/ ~ MustWait(c) /\ Goto(c, "test_number", "cs")
  /\ UNCHANGED <<dma, local_entering, local_number, remote_entering, remote_number, n, m>>

\* release_lock up to its noc_write.
Release(c) ==
  /\ Goto(c, "cs", "send_release")
  /\ local_number' = [local_number EXCEPT ![c] = 0]
  /\ UNCHANGED <<dma, local_entering, remote_entering, remote_number, n, m>>

\* Mutant: release_lock does not wait for the DMA.
ReleasedEarly(c) ==
  /\ Goto(c, "released", "idle")
  /\ UNCHANGED <<dma, local_entering, local_number, remote_entering, remote_number, n, m>>

\* The DMA is done: release_lock returns.
Released(c) ==
  /\ noc_dma_done(c)
  /\ Goto(c, "released", "idle")
  /\ UNCHANGED <<dma, local_entering, local_number, remote_entering, remote_number, n, m>>

\* The word the entry was set up for arrives in the other core's LOCK_T.
Deliver(c) ==
  /\ \/ /\ dma[c] = "entering"
        /\ remote_entering' = [remote_entering EXCEPT ![Remote(c)] = local_entering[c]]
        /\ UNCHANGED remote_number
     \/ /\ dma[c] = "number"
        /\ remote_number' = [remote_number EXCEPT ![Remote(c)] = local_number[c]]
        /\ UNCHANGED remote_entering
  /\ DmaArrives(c)
  /\ UNCHANGED <<pc, local_entering, local_number, n, m>>
-----------------------------------------------------------------------------
\* What a core does by itself once it has called acquire_lock or release_lock.
CoreStep(c) ==
  \/ SendEntering(c) \/ ChooseNumber(c) \/ SendNumber(c) \/ LeaveDoorway(c)
  \/ SeeNotEntering(c) \/ ReadNumber(c) \/ TestNumber(c) \/ Released(c)

Next == \E c \in Core : Acquire(c) \/ CoreStep(c) \/ Release(c) \/ Deliver(c)

Spec == Init /\ [][Next]_vars

\* Cores keep running, a critical section ends, and the TDM schedule of the
\* network serves every DMA entry.  Nothing obliges a core to call acquire_lock.
Fairness == \A c \in Core : WF_vars(CoreStep(c)) /\ WF_vars(Release(c)) /\ WF_vars(Deliver(c))

FairSpec == Spec /\ Fairness
-----------------------------------------------------------------------------
Number == 0 .. NumberRange - 1

Location == {"idle", "send_entering", "choose", "send_number", "leave", "send_left",
             "wait_entering", "read_number", "test_number", "cs", "send_release", "released"}

\* Every word of both LOCK_Ts and of the DMA table has its type.
TypeOK ==
  /\ dma \in [Core -> {"entering", "number", NoTransfer}]
  /\ pc \in [Core -> Location]
  /\ local_entering \in [Core -> {0, 1}]
  /\ local_number \in [Core -> Number]
  /\ remote_entering \in [Core -> {0, 1}]
  /\ remote_number \in [Core -> Number]
  /\ n \in [Core -> Number]
  /\ m \in [Core -> Number]

Waiting == {"wait_entering", "read_number", "test_number"}

\* (c's ticket, c) comes before (d's ticket, d) in the bakery queue.
Before(c, d) == n[c] < n[d] \/ (n[c] = n[d] /\ c < d)

\* Between the return of acquire_lock and the call of release_lock on one core the
\* other core is not between those two points.
MutualExclusion == \A c, d \in Core : c # d => ~ (pc[c] = "cs" /\ pc[d] = "cs")

\* acquire_lock serves in ticket order: a core that gets the lock while the other one
\* has finished choosing is ahead of it in the queue, although it may have decided on
\* a value of remote_number that is no longer current.
ServedInTicketOrder ==
  [][\A c \in Core :
       /\ pc[c] # "cs" /\ pc'[c] = "cs"
       /\ pc[Remote(c)] \in Waiting
       => Before(c, Remote(c))]_vars

\* The memory barriers of the code: when release_lock has returned its effect is
\* visible at the other core, and a core decides who is first only on tickets that
\* have arrived at the other side.
BarriersHold ==
  \A c \in Core :
    /\ pc[c] = "idle" => remote_number[Remote(c)] = 0
    /\ pc[c] \in Waiting \cup {"cs"} => remote_number[Remote(c)] = n[c]

\* What users of the lock rely on: AbstractLock, with its fairness.
Client(c) ==
  CASE pc[c] = "cs" -> "holding"
    [] pc[c] \in {"idle", "send_release", "released"} -> "idle"
    [] OTHER -> "waiting"

ClientView == [c \in Core |-> Client(c)]

Abstract == INSTANCE AbstractLock WITH client <- ClientView

\* acquire_lock / release_lock behave as atomic lock operations: every step of the
\* bakery is a step of the abstract lock or none.
ImplementsLock == Abstract!Spec

\* Under fair scheduling every acquire_lock returns with the lock.
ImplementsFairLock == Abstract!FairSpec
==============================================================================
