----------------------------- MODULE LibmpProofs -----------------------------
(***************************************************************************)
(* The lock of c/libmp/lock.c and the threads of                           *)
(* c/libcorethread/corethread.c.                                           *)
(*                                                                         *)
(* The two-core lock excludes, for every pair of core ids, every width of  *)
(* the ticket and every bound below that width.                            *)
(*                                                                         *)
(* corethread_join returns the result of the thread that was started last  *)
(* on the core, for any number of workers and threads. The invariant says  *)
(* where the worker can be in each phase of a thread's life: not joined    *)
(* yet, with corethread_create still waiting or not, and joined.           *)
(***************************************************************************)
EXTENDS Lock, CoreThread, TLAPS

\* Locations with a ticket that release_lock has not yet taken back.
Ticketed == {"send_number", "leave", "send_left"} \cup Waiting \cup {"cs"}

\* The ticket is chosen and has not arrived at the other core.
Undelivered(c) == pc[c] = "send_number" \/ (pc[c] = "leave" /\ dma[c] = "number")

\* The entry holds nothing but the transfers the code can have left in it.
DmaInv ==
  \A c \in Core :
    /\ dma[c] = "entering" => pc[c] \in {"choose", "cs", "send_release"} \cup Waiting
    /\ dma[c] = "number" => pc[c] \in {"leave", "released"}

\* local_entering is set from the first statement until the ticket has arrived, and
\* the other core sees it set at least while the ticket is being chosen and sent.
EnteringInv ==
  \A c \in Core :
    /\ local_entering[c] = 1 <=> pc[c] \in {"send_entering", "choose", "send_number", "leave"}
    /\ \/ pc[c] \in {"send_number", "leave", "send_left"}
       \/ pc[c] = "choose" /\ dma[c] = NoTransfer
       => remote_entering[Remote(c)] = 1

\* local_number is the ticket exactly while there is one, and the other core's copy
\* is current except while a DMA of it is outstanding.
NumberInv ==
  \A c \in Core :
    /\ pc[c] \in Ticketed => local_number[c] = n[c] /\ 0 < n[c]
    /\ pc[c] \notin Ticketed => local_number[c] = 0
    /\ pc[c] \in Ticketed /\ ~ Undelivered(c) => remote_number[Remote(c)] = n[c]
    /\ pc[c] \in {"idle", "send_entering", "choose"} \/ Undelivered(c)
       => remote_number[Remote(c)] = 0
    /\ pc[c] = "released" /\ dma[c] = NoTransfer => remote_number[Remote(c)] = 0

\* A core that is about to choose finds a ticket below the bound.
BoundInv ==
  \A c \in Core : pc[c] \in {"send_entering", "choose"} => TicketsBelowBound(c)

\* Once a core has seen the other one not entering, tickets that are still on their
\* way to it are larger than its own.
LateTicketInv ==
  \A c \in Core :
    pc[c] \in {"read_number", "test_number", "cs"} /\ Undelivered(Remote(c))
    => n[c] < n[Remote(c)]

\* A core that has the lock, or whose last read lets it take the lock, is first.
FirstInv ==
  \A c \in Core :
    /\ pc[c] = "cs" \/ (pc[c] = "test_number" /\ ~ MustWait(c))
    /\ pc[Remote(c)] \in Ticketed
    => Before(c, Remote(c))

\* The inductive invariant.
IInv == TypeOK /\ DmaInv /\ EnteringInv /\ NumberInv /\ BoundInv /\ LateTicketInv /\ FirstInv
-----------------------------------------------------------------------------
\* The other core is a core, is another core, and has this one as its other core.
LEMMA RemoteFacts ==
  \A c \in Core : /\ c \in Nat
                  /\ Remote(c) \in Core /\ Remote(c) # c /\ Remote(Remote(c)) = c
                  /\ \A d \in Core : d = c \/ d = Remote(c)
<1>1. PICK a, b \in Core : a # b /\ Core = {a, b}
  BY CoreAssumption, Zenon
<1>2. ASSUME NEW c \in Core
      PROVE  Remote(c) \in Core /\ Remote(c) # c
  BY <1>1, Zenon DEF Remote
<1>3. QED
  BY <1>2, CoreAssumption

\* A ticket below the width of its type is stored as it is.
LEMMA NoWrap == ASSUME NEW x \in Nat, NEW w \in Nat, x < w
                PROVE  x % w = x
  OBVIOUS

\* Every step of the lock keeps the types of its words.
LEMMA TypeStep == TypeOK /\ [Next]_vars => TypeOK'
<1> SUFFICES ASSUME TypeOK, [Next]_vars
             PROVE  TypeOK'
  OBVIOUS
<1> USE RemoteFacts, NumberAssumption DEF TypeOK, Number, Location, Goto, noc_write, noc_dma_done
<1>1. ASSUME NEW c \in Core, Acquire(c)
      PROVE  TypeOK'
  BY <1>1, Zenon DEF Acquire
<1>2. ASSUME NEW c \in Core, SendEntering(c)
      PROVE  TypeOK'
  BY <1>2, Zenon DEF SendEntering
<1>3. ASSUME NEW c \in Core, ChooseNumber(c)
      PROVE  TypeOK'
  BY <1>3 DEF ChooseNumber
<1>4. ASSUME NEW c \in Core, SendNumber(c)
      PROVE  TypeOK'
  BY <1>4, Zenon DEF SendNumber
<1>5. ASSUME NEW c \in Core, LeaveDoorway(c)
      PROVE  TypeOK'
  BY <1>5, Zenon DEF LeaveDoorway
<1>6. ASSUME NEW c \in Core, SeeNotEntering(c)
      PROVE  TypeOK'
  BY <1>6, Zenon DEF SeeNotEntering
<1>7. ASSUME NEW c \in Core, ReadNumber(c)
      PROVE  TypeOK'
  BY <1>7, Zenon DEF ReadNumber
<1>8. ASSUME NEW c \in Core, TestNumber(c)
      PROVE  TypeOK'
  BY <1>8, Zenon DEF TestNumber
<1>9. ASSUME NEW c \in Core, Released(c)
      PROVE  TypeOK'
  BY <1>9, Zenon DEF Released
<1>10. ASSUME NEW c \in Core, Release(c)
      PROVE  TypeOK'
  BY <1>10 DEF Release
<1>11. ASSUME NEW c \in Core, Deliver(c)
      PROVE  TypeOK'
  BY <1>11 DEF Deliver, DmaArrives
<1>12. CASE UNCHANGED vars
  BY <1>12, Zenon DEF vars
<1>13. QED
  BY <1>1, <1>2, <1>3, <1>4, <1>5, <1>6, <1>7, <1>8, <1>9, <1>10, <1>11, <1>12, Zenon DEF Next, CoreStep

\* The invariant is inductive as long as tickets stay below the width of their type.
LEMMA InvariantStep ==
  ASSUME MaxNumber < NumberRange
  PROVE  IInv /\ [Next]_vars => IInv'
<1> SUFFICES ASSUME IInv, [Next]_vars
             PROVE  IInv'
  OBVIOUS
<1>0. TypeOK' 
  BY TypeStep, Zenon DEF IInv
<1> USE <1>0, RemoteFacts, NumberAssumption, TransferAssumption
    DEF IInv, TypeOK, Number, Location, Goto, noc_write, noc_dma_done
<1>1. ASSUME NEW c \in Core, Acquire(c)
      PROVE  IInv'
  <2> USE <1>1 DEF Acquire
  <2>1. DmaInv'
    BY DEF DmaInv, Waiting
  <2>2. EnteringInv'
    BY DEF EnteringInv
  <2>3. NumberInv'
    BY DEF NumberInv, Undelivered, Ticketed, Waiting
  <2>4. BoundInv'
    BY DEF BoundInv, TicketsBelowBound
  <2>5. LateTicketInv'
    BY DEF LateTicketInv, Undelivered
  <2>6. FirstInv'
    BY DEF FirstInv, Ticketed, Waiting
  <2>7. QED
    BY <2>1, <2>2, <2>3, <2>4, <2>5, <2>6, Zenon
<1>2. ASSUME NEW c \in Core, SendEntering(c)
      PROVE  IInv'
  <2> USE <1>2 DEF SendEntering
  <2>1. DmaInv'
    BY DEF DmaInv, Waiting
  <2>2. EnteringInv'
    BY DEF EnteringInv
  <2>3. NumberInv'
    BY DEF NumberInv, Undelivered, Ticketed, Waiting
  <2>4. BoundInv'
    BY DEF BoundInv, TicketsBelowBound
  <2>5. LateTicketInv'
    BY DEF LateTicketInv, Undelivered
  <2>6. FirstInv'
    BY DEF FirstInv, Before, MustWait, Ticketed, Waiting
  <2>7. QED
    BY <2>1, <2>2, <2>3, <2>4, <2>5, <2>6, Zenon
<1>3. ASSUME NEW c \in Core, ChooseNumber(c)
      PROVE  IInv'
  <2> USE <1>3 DEF ChooseNumber
  <2>0. n' = [n EXCEPT ![c] = remote_number[c] + 1]
    <3>1. remote_number[c] + 1 \in Nat /\ remote_number[c] + 1 < NumberRange
      BY DEF BoundInv, TicketsBelowBound
    <3>2. (remote_number[c] + 1) % NumberRange = remote_number[c] + 1
      BY <3>1, NoWrap, Zenon
    <3>3. QED
      BY <3>2, Zenon
  <2>1. DmaInv'
    BY DEF DmaInv
  <2>2. EnteringInv'
    BY DEF EnteringInv
  <2>3. NumberInv'
    BY <2>0 DEF NumberInv, Undelivered, Ticketed
  <2>4. BoundInv'
    BY DEF BoundInv, NumberInv, TicketsBelowBound
  <2>5. LateTicketInv'
    BY <2>0 DEF LateTicketInv, NumberInv, Undelivered, Ticketed, Waiting
  <2>6. FirstInv'
    BY <2>0 DEF FirstInv, NumberInv, Before, Undelivered, Ticketed, Waiting
  <2>7. QED
    BY <2>1, <2>2, <2>3, <2>4, <2>5, <2>6, Zenon
<1>4. ASSUME NEW c \in Core, SendNumber(c)
      PROVE  IInv'
  <2> USE <1>4 DEF SendNumber
  <2>1. DmaInv'
    BY DEF DmaInv
  <2>2. EnteringInv'
    BY DEF EnteringInv
  <2>3. NumberInv'
    BY DEF NumberInv, Undelivered, Ticketed, Waiting
  <2>4. BoundInv'
    BY DEF BoundInv, TicketsBelowBound
  <2>5. LateTicketInv'
    BY DEF LateTicketInv, Undelivered
  <2>6. FirstInv'
    BY DEF FirstInv, Before, MustWait, Ticketed, Waiting
  <2>7. QED
    BY <2>1, <2>2, <2>3, <2>4, <2>5, <2>6, Zenon
<1>5. ASSUME NEW c \in Core, LeaveDoorway(c)
      PROVE  IInv'
  <2> USE <1>5 DEF LeaveDoorway
  <2>1. DmaInv'
    BY DEF DmaInv
  <2>2. EnteringInv'
    BY DEF EnteringInv
  <2>3. NumberInv'
    BY DEF NumberInv, Undelivered, Ticketed
  <2>4. BoundInv'
    BY DEF BoundInv, TicketsBelowBound
  <2>5. LateTicketInv'
    BY DEF LateTicketInv, Undelivered
  <2>6. FirstInv'
    BY DEF FirstInv, Before, MustWait, Ticketed
  <2>7. QED
    BY <2>1, <2>2, <2>3, <2>4, <2>5, <2>6, Zenon
<1>6. ASSUME NEW c \in Core, SeeNotEntering(c)
      PROVE  IInv'
  <2> USE <1>6 DEF SeeNotEntering
  <2>1. DmaInv'
    BY DEF DmaInv, Waiting
  <2>2. EnteringInv'
    BY DEF EnteringInv
  <2>3. NumberInv'
    BY DEF NumberInv, Undelivered, Ticketed, Waiting
  <2>4. BoundInv'
    BY DEF BoundInv, TicketsBelowBound
  <2>5. LateTicketInv'
    BY DEF LateTicketInv, EnteringInv, Undelivered
  <2>6. FirstInv'
    BY DEF FirstInv, Before, MustWait, Ticketed, Waiting
  <2>7. QED
    BY <2>1, <2>2, <2>3, <2>4, <2>5, <2>6, Zenon
<1>7. ASSUME NEW c \in Core, ReadNumber(c)
      PROVE  IInv'
  <2> USE <1>7 DEF ReadNumber
  <2>1. DmaInv'
    BY DEF DmaInv, Waiting
  <2>2. EnteringInv'
    BY DEF EnteringInv
  <2>3. NumberInv'
    BY DEF NumberInv, Undelivered, Ticketed, Waiting
  <2>4. BoundInv'
    BY DEF BoundInv, TicketsBelowBound
  <2>5. LateTicketInv'
    BY DEF LateTicketInv, Undelivered
  <2>6. FirstInv'
    BY DEF FirstInv, LateTicketInv, NumberInv, Before, MustWait, Ticketed, Waiting
  <2>7. QED
    BY <2>1, <2>2, <2>3, <2>4, <2>5, <2>6, Zenon
<1>8. ASSUME NEW c \in Core, TestNumber(c)
      PROVE  IInv'
  <2> USE <1>8 DEF TestNumber
  <2>1. DmaInv'
    BY DEF DmaInv, Waiting
  <2>2. EnteringInv'
    BY DEF EnteringInv
  <2>3. NumberInv'
    BY DEF NumberInv, Undelivered, Ticketed, Waiting
  <2>4. BoundInv'
    BY DEF BoundInv, TicketsBelowBound
  <2>5. LateTicketInv'
    BY DEF LateTicketInv, Undelivered
  <2>6. FirstInv'
    BY DEF FirstInv, Before, MustWait, Ticketed, Waiting
  <2>7. QED
    BY <2>1, <2>2, <2>3, <2>4, <2>5, <2>6, Zenon
<1>9. ASSUME NEW c \in Core, Released(c)
      PROVE  IInv'
  <2> USE <1>9 DEF Released
  <2>1. DmaInv'
    BY DEF DmaInv
  <2>2. EnteringInv'
    BY DEF EnteringInv
  <2>3. NumberInv'
    BY DEF NumberInv, Undelivered, Ticketed, Waiting
  <2>4. BoundInv'
    BY DEF BoundInv, TicketsBelowBound
  <2>5. LateTicketInv'
    BY DEF LateTicketInv, Undelivered
  <2>6. FirstInv'
    BY DEF FirstInv, Ticketed, Waiting
  <2>7. QED
    BY <2>1, <2>2, <2>3, <2>4, <2>5, <2>6, Zenon
<1>10. ASSUME NEW c \in Core, Release(c)
      PROVE  IInv'
  <2> USE <1>10 DEF Release
  <2>1. DmaInv'
    BY DEF DmaInv
  <2>2. EnteringInv'
    BY DEF EnteringInv
  <2>3. NumberInv'
    BY DEF NumberInv, Undelivered, Ticketed, Waiting
  <2>4. BoundInv'
    BY DEF BoundInv, TicketsBelowBound
  <2>5. LateTicketInv'
    BY DEF LateTicketInv, Undelivered
  <2>6. FirstInv'
    BY Zenon DEF FirstInv, Before, Ticketed, Waiting
  <2>7. QED
    BY <2>1, <2>2, <2>3, <2>4, <2>5, <2>6, Zenon
<1>11. ASSUME NEW c \in Core, Deliver(c)
      PROVE  IInv'
  <2> USE <1>11 DEF Deliver, DmaArrives
  <2>1. DmaInv'
    BY DEF DmaInv
  <2>2. EnteringInv'
    BY DEF EnteringInv, DmaInv, Waiting
  <2>3. NumberInv'
    BY DEF NumberInv, DmaInv, Undelivered, Ticketed, Waiting
  <2>4. BoundInv'
    BY DEF BoundInv, TicketsBelowBound
  <2>5. LateTicketInv'
    BY Zenon DEF LateTicketInv, Undelivered
  <2>6. FirstInv'
    BY Zenon DEF FirstInv, Before, MustWait
  <2>7. QED
    BY <2>1, <2>2, <2>3, <2>4, <2>5, <2>6, Zenon
<1>12. CASE UNCHANGED vars
  BY <1>12, Zenon
     DEF vars, DmaInv, EnteringInv, NumberInv, BoundInv, LateTicketInv, FirstInv, Undelivered,
         TicketsBelowBound, MustWait, Before
<1>13. QED
  BY <1>1, <1>2, <1>3, <1>4, <1>5, <1>6, <1>7, <1>8, <1>9, <1>10, <1>11, <1>12, Zenon DEF Next, CoreStep
-----------------------------------------------------------------------------
\* The words of both LOCK_Ts keep their types, whatever the bound on the tickets.
THEOREM TypeCorrect == Spec => []TypeOK
<1>1. Init => TypeOK
  BY NumberAssumption, ChannelAssumption DEF Init, NocInit, TypeOK, Number, Location
<1>2. QED
  BY <1>1, TypeStep, PTL DEF Spec

\* The invariant holds of every behaviour in which no ticket reaches the width of
\* an unsigned int.
LEMMA InvariantHolds ==
  ASSUME MaxNumber < NumberRange
  PROVE  Spec => []IInv
<1>1. Init => IInv
  BY RemoteFacts, NumberAssumption, TransferAssumption, ChannelAssumption
     DEF Init, NocInit, IInv, TypeOK, Number, Location, DmaInv, EnteringInv, NumberInv, BoundInv, LateTicketInv,
         FirstInv, Ticketed, Waiting
<1>2. QED
  BY <1>1, InvariantStep, PTL DEF Spec

\* acquire_lock admits one core at a time as long as no ticket wraps around.
THEOREM MutualExclusionHolds ==
  ASSUME MaxNumber < NumberRange
  PROVE  Spec => []MutualExclusion
<1>1. IInv => MutualExclusion
  BY RemoteFacts DEF IInv, TypeOK, Number, FirstInv, Before, Ticketed, MutualExclusion
<1>2. QED
  BY <1>1, InvariantHolds, PTL

\* The DMA waits of lock.c are the memory barriers its comments say they are.
THEOREM BarriersAreMemoryBarriers ==
  ASSUME MaxNumber < NumberRange
  PROVE  Spec => []BarriersHold
<1>1. IInv => BarriersHold
  BY Zenon DEF IInv, NumberInv, Ticketed, Waiting, Undelivered, BarriersHold
<1>2. QED
  BY <1>1, InvariantHolds, PTL

\* The lock is handed out in ticket order.
THEOREM TicketOrder ==
  ASSUME MaxNumber < NumberRange
  PROVE  Spec => ServedInTicketOrder
<1>1. IInv /\ [Next]_vars =>
        [\A c \in Core :
           /\ pc[c] # "cs" /\ pc'[c] = "cs"
           /\ pc[Remote(c)] \in Waiting
           => Before(c, Remote(c))]_vars
  <2> SUFFICES ASSUME IInv, Next, NEW c \in Core,
                      pc[c] # "cs", pc'[c] = "cs", pc[Remote(c)] \in Waiting
               PROVE  Before(c, Remote(c))
    OBVIOUS
  <2>1. pc[c] = "test_number" /\ ~ MustWait(c)
    BY Zenon
       DEF IInv, TypeOK, Next, CoreStep, Goto, Acquire, SendEntering, ChooseNumber, SendNumber, LeaveDoorway,
           SeeNotEntering, ReadNumber, TestNumber, Released, Release, Deliver
  <2>2. QED
    BY <2>1, Zenon DEF IInv, FirstInv, Ticketed
<1>2. QED
  BY <1>1, InvariantHolds, PTL DEF Spec, ServedInTicketOrder

\* Every step of a core or of its DMA entry is a step of the abstract lock or leaves
\* it as it is.
LEMMA StepSimulates ==
  ASSUME IInv, NEW c \in Core, Acquire(c) \/ CoreStep(c) \/ Release(c) \/ Deliver(c)
  PROVE  [Abstract!Next]_ClientView
<1> USE RemoteFacts DEF IInv, TypeOK, Goto
<1>1. CASE Acquire(c)
  <2>1. Abstract!Request(c)
    BY <1>1, Zenon DEF Acquire, Abstract!Request, Abstract!Move, Client, ClientView
  <2>2. QED
    BY <2>1, Zenon DEF Abstract!Next
<1>2. CASE Release(c)
  <2>1. Abstract!Yield(c)
    BY <1>2, Zenon DEF Release, Abstract!Yield, Abstract!Move, Client, ClientView
  <2>2. QED
    BY <2>1, Zenon DEF Abstract!Next
<1>3. CASE TestNumber(c) /\ ~ MustWait(c)
  <2>1. pc[Remote(c)] # "cs"
    BY <1>3 DEF TestNumber, FirstInv, Before, Ticketed, Waiting, Number
  <2>2. \A d \in Core : ClientView[d] # "holding"
    BY <1>3, <2>1, Zenon DEF TestNumber, Client, ClientView
  <2>3. ClientView[c] = "waiting" /\ ClientView' = [ClientView EXCEPT ![c] = "holding"]
    <3>1. pc[c] = "test_number" /\ pc' = [pc EXCEPT ![c] = "cs"]
      BY <1>3, Zenon DEF TestNumber
    <3>2. QED
      BY <3>1, Zenon DEF Client, ClientView
  <2>4. Abstract!Grant(c)
    BY <2>2, <2>3, Zenon DEF Abstract!Grant, Abstract!Move
  <2>5. QED
    BY <2>4, Zenon DEF Abstract!Next
<1>4. CASE TestNumber(c) /\ MustWait(c)
  BY <1>4 DEF TestNumber, Client, ClientView
<1>5. CASE \/ SendEntering(c) \/ ChooseNumber(c) \/ SendNumber(c) \/ LeaveDoorway(c)
           \/ SeeNotEntering(c) \/ ReadNumber(c) \/ Released(c) \/ Deliver(c)
  BY <1>5
     DEF Client, ClientView, SendEntering, ChooseNumber, SendNumber, LeaveDoorway, SeeNotEntering, ReadNumber,
         Released, Deliver
<1>6. QED
  BY <1>1, <1>2, <1>3, <1>4, <1>5, Zenon DEF CoreStep

\* The bakery over the NoC implements a lock with atomic operations.
THEOREM LockRefinement ==
  ASSUME MaxNumber < NumberRange
  PROVE  Spec => ImplementsLock
<1>1. Init => Abstract!Init
  BY Zenon DEF Init, Abstract!Init, Client, ClientView
<1>2. IInv /\ [Next]_vars => [Abstract!Next]_ClientView
  <2>1. ASSUME IInv, Next
        PROVE  [Abstract!Next]_ClientView
    BY <2>1, StepSimulates, Zenon DEF Next
  <2>2. CASE UNCHANGED vars
    BY <2>2, Zenon DEF vars, Client, ClientView
  <2>3. QED
    BY <2>1, <2>2, Zenon
<1>3. QED
  BY <1>1, <1>2, InvariantHolds, PTL DEF Spec, ImplementsLock, Abstract!Spec
-----------------------------------------------------------------------------
Positions == {"start", "loop", "look", "begin", "call", "run", "exit", "exited", "returned", "spin",
              "end", "done"}
Looking == {"start", "loop", "look"}
After == {"exited", "returned", "spin"}

\* Types, with the history.
ThreadTypes ==
  /\ ThreadTypeOK
  /\ wkpc \in [Worker -> Positions]
  /\ created \in [Worker -> 0 .. MaxThreads] /\ joined \in [Worker -> 0 .. MaxThreads]
  /\ got \in [Worker -> -1 .. MaxThreads] /\ exits \in [Worker -> -1 .. MaxThreads]

\* When main has returned every thread is joined; workers leave their loops only then.
AtEnd ==
  /\ mstatus = "RETURN" <=> mpc = <<"returned", 0>>
  /\ mpc = <<"returned", 0>> => joined = created
  /\ \A w \in Worker : wkpc[w] \in {"end", "done"} => mpc = <<"returned", 0>>

\* The thread that was created last on core w, in the phases of its life.
ThreadLife(w) ==
  /\ joined[w] = created[w] \/ joined[w] + 1 = created[w]
  /\ slave[w].funcpoint = IF joined[w] = created[w] THEN NoThread ELSE created[w]
  /\ mpc \in {<<"create", w>>, <<"join", w>>, <<"clear", w>>} => joined[w] # created[w]
  /\ joined[w] = created[w] => wkpc[w] \in Looking \cup After \cup {"end", "done"}
  /\ mpc = <<"create", w>> =>
       /\ wkpc[w] \notin {"end", "done"}
       /\ slave[w].status = "INITDONE" => wkpc[w] \in {"run", "exit", "returned"}
  /\ joined[w] # created[w] /\ mpc # <<"create", w>> =>
       /\ wkpc[w] \in {"run", "exit"} \cup After
       /\ slave[w].status = "RETURN" => wkpc[w] \in After
  /\ mpc = <<"clear", w>> => wkpc[w] \in After /\ got[w] = exits[w]
  /\ wkpc[w] \in After /\ slave[w].status # "RETURN" =>
       wkpc[w] = "returned" /\ joined[w] # created[w] /\ mpc # <<"clear", w>>

\* What the thread leaves in return_val.
ThreadResult(w) ==
  /\ wkpc[w] \in {"begin", "call", "run", "exit"} => func[w] = created[w]
  /\ wkpc[w] \in After /\ func[w] # created[w] =>
       mpc = <<"create", w>> /\ slave[w].status = "RETURN"
  /\ wkpc[w] \in {"call", "run"} => slave[w].return_val = -1
  /\ wkpc[w] \in {"exit"} \cup After => slave[w].return_val = exits[w] /\ exits[w] \in {func[w], -1}
  /\ joined[w] = created[w] /\ created[w] # 0 => got[w] = exits[w] /\ got[w] \in {created[w], -1}

ThreadInv == ThreadTypes /\ AtEnd /\ \A w \in Worker : ThreadLife(w) /\ ThreadResult(w)

LEMMA ThreadInvInit == ThreadInit => ThreadInv
<1> SUFFICES ASSUME ThreadInit PROVE ThreadInv
  OBVIOUS
<1>1. ThreadTypes
  BY ThreadAssumption DEF ThreadInit, ThreadTypes, ThreadTypeOK, Positions, NoThread
<1>2. AtEnd
  BY Zenon DEF ThreadInit, AtEnd, Main
<1>3. ASSUME NEW w \in Worker PROVE ThreadLife(w) /\ ThreadResult(w)
  BY DEF ThreadInit, ThreadLife, ThreadResult, Main, Looking, After
<1> QED
  BY <1>1, <1>2, <1>3, Zenon DEF ThreadInv

\* A step of the master for core w, or of worker w, does not concern core v.
Same(v) ==
  /\ slave'[v] = slave[v] /\ wkpc'[v] = wkpc[v] /\ func'[v] = func[v]
  /\ created'[v] = created[v] /\ joined'[v] = joined[v] /\ got'[v] = got[v] /\ exits'[v] = exits[v]
  /\ \A op \in {"create", "join", "clear"} : mpc' = <<op, v>> <=> mpc = <<op, v>>

LEMMA OtherCore ==
  ASSUME NEW v \in Worker, ThreadLife(v), ThreadResult(v), Same(v)
  PROVE  ThreadLife(v)' /\ ThreadResult(v)'
<1>1. ThreadLife(v)'
  BY Zenon DEF ThreadLife, Same
<1>2. ThreadResult(v)'
  BY Zenon DEF ThreadResult, Same
<1> QED
  BY <1>1, <1>2, Zenon

\* A step that concerns core w.
StepFor(w) == CreateThread(w) \/ Join(w) \/ Mains(w) \/ Works(w)

\* Types, action by action.
LEMMA TypesKept ==
  ASSUME ThreadInv, NEW w \in Worker, StepFor(w)
  PROVE  ThreadTypes'
<1> USE DEF ThreadInv, ThreadTypes, ThreadTypeOK, Positions
<1>0. 0 \in 0 .. MaxThreads /\ -1 \in -1 .. MaxThreads
  BY ThreadAssumption
<1>1. CASE CreateThread(w)
  BY <1>1, ThreadAssumption DEF CreateThread, Set
<1>2. CASE CreateReturns(w)
  BY <1>2, Zenon DEF CreateReturns
<1>3. CASE Join(w)
  BY <1>3, Zenon DEF Join
<1>4. CASE JoinReads(w)
  BY <1>4, Zenon DEF JoinReads
<1>5. CASE JoinClears(w)
  BY <1>5, <1>0, Zenon DEF JoinClears, NoThread, Set
<1>6. CASE WorkerStarts(w)
  BY <1>6, <1>0, ThreadAssumption, Zenon DEF WorkerStarts, Says, Moves, Set
<1>7. CASE WorkerLoops(w)
  BY <1>7, Zenon DEF WorkerLoops, Sees, Moves
<1>8. CASE WorkerLooks(w)
  BY <1>8, Zenon DEF WorkerLooks, Moves
<1>9. CASE WorkerBegins(w)
  BY <1>9, <1>0, ThreadAssumption, Zenon DEF WorkerBegins, Says, Moves, Set
<1>10. CASE WorkerCalls(w)
  BY <1>10, <1>0, Zenon DEF WorkerCalls, Says, Moves, Set
<1>11. CASE ThreadExits(w)
  BY <1>11 DEF ThreadExits, Moves, Set
<1>12. CASE ExitReturns(w)
  BY <1>12, <1>0, ThreadAssumption, Zenon DEF ExitReturns, Says, Moves, Set
<1>13. CASE ThreadEnds(w)
  BY <1>13, <1>0 DEF ThreadEnds, Moves
<1>14. CASE WorkerReturns(w)
  BY <1>14, Zenon DEF WorkerReturns, Says, Moves, Set
<1>15. CASE WorkerSpins(w)
  BY <1>15, Zenon DEF WorkerSpins, Sees, Moves
<1>16. CASE WorkerEnds(w)
  BY <1>16, <1>0, Zenon DEF WorkerEnds, Says, Moves, Set
<1> QED
  BY Zenon, <1>1, <1>2, <1>3, <1>4, <1>5, <1>6, <1>7, <1>8, <1>9, <1>10,
     <1>11, <1>12, <1>13, <1>14, <1>15, <1>16
     DEF StepFor, Mains, Works

\* Workers leave their loops only when main has returned.
LEMMA AtEndKept ==
  ASSUME ThreadInv, NEW w \in Worker, StepFor(w)
  PROVE  AtEnd'
<1> USE DEF ThreadInv, AtEnd, ThreadTypes, ThreadTypeOK
<1>1. CASE CreateThread(w)
  BY <1>1, Zenon DEF CreateThread, Main
<1>2. CASE CreateReturns(w)
  BY <1>2, Zenon DEF CreateReturns, Main
<1>3. CASE Join(w)
  BY <1>3, Zenon DEF Join, Main
<1>4. CASE JoinReads(w)
  BY <1>4, Zenon DEF JoinReads
<1>5. CASE JoinClears(w)
  BY <1>5, Zenon DEF JoinClears, Main
<1>6. CASE WorkerStarts(w)
  BY <1>6, Zenon DEF WorkerStarts, Says, Moves
<1>7. CASE WorkerLoops(w)
  BY <1>7, Zenon DEF WorkerLoops, Sees, Moves
<1>8. CASE WorkerLooks(w)
  BY <1>8, Zenon DEF WorkerLooks, Moves
<1>9. CASE WorkerBegins(w)
  BY <1>9, Zenon DEF WorkerBegins, Says, Moves
<1>10. CASE WorkerCalls(w)
  BY <1>10, Zenon DEF WorkerCalls, Says, Moves
<1>11. CASE ThreadExits(w)
  BY <1>11, Zenon DEF ThreadExits, Moves
<1>12. CASE ExitReturns(w)
  BY <1>12, Zenon DEF ExitReturns, Says, Moves
<1>13. CASE ThreadEnds(w)
  BY <1>13, Zenon DEF ThreadEnds, Moves
<1>14. CASE WorkerReturns(w)
  BY <1>14, Zenon DEF WorkerReturns, Says, Moves
<1>15. CASE WorkerSpins(w)
  BY <1>15, Zenon DEF WorkerSpins, Sees, Moves
<1>16. CASE WorkerEnds(w)
  BY <1>16, Zenon DEF WorkerEnds, Says, Moves
<1> QED
  BY Zenon, <1>1, <1>2, <1>3, <1>4, <1>5, <1>6, <1>7, <1>8, <1>9, <1>10,
     <1>11, <1>12, <1>13, <1>14, <1>15, <1>16
     DEF StepFor, Mains, Works

\* The life of the thread on the core of the step.
LEMMA LifeKept ==
  ASSUME ThreadInv, NEW w \in Worker, StepFor(w)
  PROVE  ThreadLife(w)' /\ ThreadResult(w)'
<1> USE DEF ThreadInv, ThreadTypes, ThreadTypeOK, AtEnd, ThreadLife, ThreadResult, Looking, After
<1>1. CASE CreateThread(w)
  BY <1>1 DEF CreateThread, Main, NoThread, Set
<1>2. CASE CreateReturns(w)
  BY <1>2, Zenon DEF CreateReturns, Main
<1>3. CASE Join(w)
  BY <1>3 DEF Join, Main
<1>4. CASE JoinReads(w)
  BY <1>4, Zenon DEF JoinReads
<1>5. CASE JoinClears(w)
  BY <1>5 DEF JoinClears, Main, Set
<1>6. CASE WorkerStarts(w)
  BY <1>6 DEF WorkerStarts, Says, Moves, Set
<1>7. CASE WorkerLoops(w)
  BY <1>7, Zenon DEF WorkerLoops, Sees, Moves
<1>8. CASE WorkerLooks(w)
  BY <1>8, Zenon DEF WorkerLooks, Moves
<1>9. CASE WorkerBegins(w)
  BY <1>9 DEF WorkerBegins, Says, Moves, Set
<1>10. CASE WorkerCalls(w)
  BY <1>10, Zenon DEF WorkerCalls, Says, Moves, Set
<1>11. CASE ThreadExits(w)
  BY <1>11 DEF ThreadExits, Moves, Set
<1>12. CASE ExitReturns(w)
  BY <1>12 DEF ExitReturns, Says, Moves, Set
<1>13. CASE ThreadEnds(w)
  BY <1>13, Zenon DEF ThreadEnds, Moves
<1>14. CASE WorkerReturns(w)
  BY <1>14 DEF WorkerReturns, Says, Moves, Set
<1>15. CASE WorkerSpins(w)
  BY <1>15 DEF WorkerSpins, Sees, Moves, NoThread
<1>16. CASE WorkerEnds(w)
  BY <1>16 DEF WorkerEnds, Says, Moves, Set
<1> QED
  BY Zenon, <1>1, <1>2, <1>3, <1>4, <1>5, <1>6, <1>7, <1>8, <1>9, <1>10,
     <1>11, <1>12, <1>13, <1>14, <1>15, <1>16
     DEF StepFor, Mains, Works

\* A step for one core leaves the others as they are.
LEMMA OthersSame ==
  ASSUME ThreadInv, NEW w \in Worker, StepFor(w)
  PROVE  \A v \in Worker \ {w} : Same(v)
<1> USE DEF ThreadInv, ThreadTypes, ThreadTypeOK, Same
<1>1. CASE CreateThread(w)
  BY <1>1, Zenon DEF CreateThread, Main, Set
<1>2. CASE CreateReturns(w)
  BY <1>2, Zenon DEF CreateReturns, Main
<1>3. CASE Join(w)
  BY <1>3, Zenon DEF Join, Main
<1>4. CASE JoinReads(w)
  BY <1>4, Zenon DEF JoinReads
<1>5. CASE JoinClears(w)
  BY <1>5, Zenon DEF JoinClears, Main, Set
<1>6. CASE WorkerStarts(w)
  BY <1>6, Zenon DEF WorkerStarts, Says, Moves, Set
<1>7. CASE WorkerLoops(w)
  BY <1>7, Zenon DEF WorkerLoops, Sees, Moves
<1>8. CASE WorkerLooks(w)
  BY <1>8, Zenon DEF WorkerLooks, Moves
<1>9. CASE WorkerBegins(w)
  BY <1>9, Zenon DEF WorkerBegins, Says, Moves, Set
<1>10. CASE WorkerCalls(w)
  BY <1>10, Zenon DEF WorkerCalls, Says, Moves, Set
<1>11. CASE ThreadExits(w)
  BY <1>11, Zenon DEF ThreadExits, Moves, Set
<1>12. CASE ExitReturns(w)
  BY <1>12, Zenon DEF ExitReturns, Says, Moves, Set
<1>13. CASE ThreadEnds(w)
  BY <1>13, Zenon DEF ThreadEnds, Moves
<1>14. CASE WorkerReturns(w)
  BY <1>14, Zenon DEF WorkerReturns, Says, Moves, Set
<1>15. CASE WorkerSpins(w)
  BY <1>15, Zenon DEF WorkerSpins, Sees, Moves
<1>16. CASE WorkerEnds(w)
  BY <1>16, Zenon DEF WorkerEnds, Says, Moves, Set
<1> QED
  BY Zenon, <1>1, <1>2, <1>3, <1>4, <1>5, <1>6, <1>7, <1>8, <1>9, <1>10,
     <1>11, <1>12, <1>13, <1>14, <1>15, <1>16
     DEF StepFor, Mains, Works

LEMMA ThreadInvNext == ThreadInv /\ [ThreadNext]_threadvars => ThreadInv'
<1> SUFFICES ASSUME ThreadInv, [ThreadNext]_threadvars PROVE ThreadInv'
  OBVIOUS
<1>1. ASSUME NEW w \in Worker, StepFor(w) PROVE ThreadInv'
  <2>1. ASSUME NEW v \in Worker PROVE ThreadLife(v)' /\ ThreadResult(v)'
    BY <1>1, LifeKept, OthersSame, OtherCore, Zenon DEF ThreadInv
  <2> QED
    BY <1>1, <2>1, TypesKept, AtEndKept, Zenon DEF ThreadInv
<1>2. CASE MainReturns
  <2>1. ThreadTypes' /\ AtEnd'
    BY <1>2, Zenon DEF MainReturns, ThreadInv, ThreadTypes, ThreadTypeOK, AtEnd
  <2>2. ASSUME NEW v \in Worker PROVE Same(v)
    BY <1>2, Zenon DEF MainReturns, Main, Same
  <2> QED
    BY <2>1, <2>2, OtherCore, Zenon DEF ThreadInv
<1>3. CASE UNCHANGED threadvars
  <2>1. ThreadTypes' /\ AtEnd'
    BY <1>3, Zenon DEF threadvars, ThreadInv, ThreadTypes, ThreadTypeOK, AtEnd
  <2>2. ASSUME NEW v \in Worker PROVE Same(v)
    BY <1>3, Zenon DEF threadvars, Same
  <2> QED
    BY <2>1, <2>2, OtherCore, Zenon DEF ThreadInv
<1> QED
  BY <1>1, <1>2, <1>3, Zenon DEF ThreadNext, StepFor

LEMMA ThreadInvariant == ThreadSpec => []ThreadInv
  BY ThreadInvInit, ThreadInvNext, PTL DEF ThreadSpec

\* boot_info keeps its types, for any number of workers and threads.
THEOREM ThreadTypeCorrect == ThreadSpec => []ThreadTypeOK
<1>1. ThreadInv => ThreadTypeOK
  BY Zenon DEF ThreadInv, ThreadTypes
<1> QED
  BY <1>1, ThreadInvariant, PTL

\* corethread_join returns what the thread started last by corethread_create exited with.
THEOREM JoinReturnsResult == ThreadSpec => []JoinGetsResult
<1>1. ThreadInv => JoinGetsResult
  BY Zenon DEF ThreadInv, ThreadResult, JoinGetsResult
<1> QED
  BY <1>1, ThreadInvariant, PTL
=============================================================================
