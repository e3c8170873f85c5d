----------------------------- MODULE CoresProofs -----------------------------
(***************************************************************************)
(* How cores wait for each other and pass messages.                        *)
(*                                                                         *)
(* The invariant of the boot loader follows the master, for any number of  *)
(* cores, rounds and applications: for each position of the master it says *)
(* what boot_info holds and where a slave can be.                          *)
(*                                                                         *)
(* The locks of Hardlock exclude and are fair, for any number of cores and *)
(* locks.  The first invariant ties what a core believes (pc, sel) to the  *)
(* registers of the unit: a core inside has its bit in queueReg set and    *)
(* curReg points to it, and curReg does not move while that bit is set.    *)
(* The second counts the turns until a waiting core is reached: curReg     *)
(* only comes nearer to that core, and a core that was granted the lock    *)
(* meanwhile is behind curReg, or has the turn and has not asked again.    *)
(*                                                                         *)
(* The queuing ports of c/libmp/queuing.c lose and overwrite no message,   *)
(* for every number and size of buffers, every width of the counters and   *)
(* any number of messages.  These proofs begin with the facts about        *)
(* counters that wrap and about positions in a ring that the rest needs.   *)
(***************************************************************************)
EXTENDS Boot, Hardlock, Queuing, WellFoundedInduction, TLAPS

\* The master before it writes BOOT, and between INIT and RETURN.
Clearing == {"delay", "clear_status", "clear_entry", "clear_slaves", "boot"}
Starting == {"await_init", "call", "sync", "sync_start"}
Started == {"app", "await_return", "send_return"}

\* A slave before it has seen BOOT; among these, after it has cleared the master's status.
Early == {"delay", "clear_status", "clear_entry", "clear_own", "say_boot", "see_boot"}
Cleared == {"clear_entry", "clear_own", "say_boot", "see_boot"}

Leaving == {"say_return", "see_return"}
Network == entrypoint \in NocRounds /\ entrypoint # NULL

\* Types, and only a core that has time for a round begins it.
BootTypes ==
  /\ BootTypeOK
  /\ \A c \in BootCore : bpc[c] # "delay" => round[c] <= MaxRounds

\* What the master has written when it is at its position, and where its loops begin.
MasterInv ==
  /\ bpc[0] \in Clearing \cup {"download", "send_init"} \cup Starting \cup Started \cup {"see_off"}
  /\ bpc[0] \notin {"clear_slaves", "await_init", "sync", "await_return", "see_off"} => i = 1
  /\ bpc[0] \in {"clear_entry", "clear_slaves", "boot"} => status[0] = "NULL"
  /\ bpc[0] \in {"download", "send_init"} => status[0] = "BOOT"
  /\ bpc[0] \in Starting => status[0] = "INIT"
  /\ bpc[0] \in Started => status[0] = IF Network THEN "INITDONE" ELSE "INIT"
  /\ bpc[0] = "see_off" => status[0] \in {"RETURN", "NULL"}
  /\ bpc[0] \in {"send_init"} \cup Starting \cup Started => entrypoint \in {NULL, round[0]}
  /\ bpc[0] \in {"sync", "sync_start"} => Network
  /\ bpc[0] \in {"sync", "sync_start", "app"} => entrypoint # NULL
  /\ bpc[0] \in {"sync", "sync_start", "app", "await_return"} => ran[0] = entrypoint

\* Where slave d can be, seen from the master; in its loops the master has met the slaves
\* below i.
Whereabouts(d) ==
  /\ bpc[0] # "see_off" => round[d] = round[0]
  /\ bpc[0] \in Clearing => bpc[d] \in Early
  /\ bpc[0] = "download" => bpc[d] \in {"say_boot", "see_boot", "wait_init"}
  /\ bpc[0] = "send_init" => bpc[d] = "wait_init"
  /\ bpc[0] = "await_init" =>
       /\ bpc[d] \in {"wait_init", "ack_init", "call", "sync_say", "sync_wait", "app"} \cup Leaving
       /\ d < i => bpc[d] \notin {"wait_init", "ack_init"}
  /\ bpc[0] = "call" => bpc[d] \in {"call", "sync_say", "sync_wait", "app"} \cup Leaving
  /\ bpc[0] = "sync" => bpc[d] \in {"call", "sync_say", "sync_wait"} /\ (d < i => bpc[d] = "sync_wait")
  /\ bpc[0] = "sync_start" => bpc[d] = "sync_wait"
  /\ bpc[0] \in Started =>
       bpc[d] \in {IF Network THEN "sync_wait" ELSE "call", "app"} \cup Leaving
  /\ bpc[0] = "await_return" /\ d < i => bpc[d] \in Leaving /\ status[d] = "RETURN"
  /\ bpc[0] = "send_return" => bpc[d] \in Leaving /\ status[d] = "RETURN"
  /\ bpc[0] = "see_off" =>
       \/ round[d] = round[0] /\ bpc[d] \in Leaving \cup {"bye"} /\ status[d] = "RETURN" /\ d >= i
       \/ round[d] = round[0] + 1 /\ bpc[d] \in Early

\* What slave d has written, and what it has read.
SlaveInv(d) ==
  /\ bpc[d] \in {"say_boot", "see_boot", "wait_init", "ack_init"} => status[d] \in {"NULL", "BOOT"}
  /\ bpc[d] \in {"call", "sync_say"} => status[d] = "INIT"
  /\ bpc[d] = "sync_wait" => status[d] = "INITDONE"
  /\ bpc[d] = "app" => status[d] \in {"INIT", "INITDONE"}
  /\ bpc[d] \in Leaving => status[d] \in {"INIT", "INITDONE", "RETURN"}
  /\ bpc[d] \in Cleared /\ bpc[0] # "download" => status[0] = "NULL"
  /\ bpc[d] \in {"sync_say", "sync_wait"} => Network
  /\ bpc[d] \in {"sync_say", "sync_wait", "app"} => ran[d] = entrypoint /\ entrypoint # NULL
  /\ bpc[d] = "app" /\ Network => status[0] = "INITDONE"
  /\ bpc[d] \in Leaving /\ bpc[0] # "see_off" =>
       ran[d] = entrypoint /\ (Network => status[0] = "INITDONE")

BootInv == BootTypes /\ MasterInv /\ \A d \in Slave : Whereabouts(d) /\ SlaveInv(d)
-----------------------------------------------------------------------------
LEMMA CoreFacts == 0 \in BootCore /\ 0 \notin Slave /\ Slave \subseteq BootCore /\ 1 \in Slave
  BY BootAssumption DEF BootCore, Slave

LEMMA BootInvInit == BootInit => BootInv
<1> SUFFICES ASSUME BootInit PROVE BootInv
  OBVIOUS
<1> USE CoreFacts
<1>1. BootTypes
  BY BootAssumption DEF BootInit, BootTypes, BootTypeOK, Locations, NULL
<1>2. MasterInv
  BY Zenon DEF BootInit, MasterInv, Clearing, Starting, Started
<1>3. ASSUME NEW d \in Slave PROVE Whereabouts(d) /\ SlaveInv(d)
  BY Zenon DEF BootInit, Whereabouts, SlaveInv, Early, Started, Cleared, Leaving
<1> QED
  BY <1>1, <1>2, <1>3, Zenon DEF BootInv

\* Types are kept, action by action.
LEMMA BootTypesAnyCore ==
  ASSUME BootInv, NEW c \in BootCore, AnyCore(c)
  PROVE  BootTypes'
<1> USE BootAssumption, CoreFacts DEF BootInv, BootTypes, BootTypeOK, Locations, NULL
<1>1. CASE Delay(c)
  BY <1>1, Zenon DEF Delay, Await, Go
<1>2. CASE ClearStatus(c)
  BY <1>2, Zenon DEF ClearStatus, Put, Go
<1>3. CASE ClearEntry(c)
  BY <1>3 DEF ClearEntry, Go
<1>4. CASE Call(c)
  BY <1>4, Zenon DEF Call, Go, Finish
<1>5. CASE Return(c)
  BY <1>5, Zenon DEF Return, Await, Go, Finish
<1> QED
  BY <1>1, <1>2, <1>3, <1>4, <1>5, Zenon DEF AnyCore

LEMMA BootTypesMaster ==
  ASSUME BootInv, Master
  PROVE  BootTypes'
<1> USE BootAssumption, CoreFacts DEF BootInv, BootTypes, BootTypeOK, Locations, NULL
<1>0. i \in Int /\ LastCore \in Int /\ (i # LastCore => i + 1 \in Slave)
  BY DEF Slave
<1>1. CASE AnyCore(0)
  BY <1>1, BootTypesAnyCore, Zenon
<1>2. CASE ClearSlaves
  BY <1>0, <1>2, Zenon DEF ClearSlaves, EachSlave
<1>3. CASE WriteBoot
  BY <1>3, Zenon DEF WriteBoot, Put, Go
<1>4. CASE Download
  BY <1>4 DEF Download, Go
<1>5. CASE SendInit
  BY <1>5, Zenon DEF SendInit, Put, Go
<1>6. CASE AwaitInit
  BY <1>0, <1>6, Zenon DEF AwaitInit, EachSlave
<1>7. CASE Sync
  BY <1>0, <1>7, Zenon DEF Sync, EachSlave
<1>8. CASE SyncStart
  BY <1>8, Zenon DEF SyncStart, Put, Go
<1>9. CASE AwaitReturn
  BY <1>0, <1>9, Zenon DEF AwaitReturn, EachSlave
<1>10. CASE SendReturn
  BY <1>10, Zenon DEF SendReturn, Put, Go
<1>11. CASE SeeOff
  BY <1>0, <1>11 DEF SeeOff, LoopBack
<1> QED
  BY <1>1, <1>2, <1>3, <1>4, <1>5, <1>6, <1>7, <1>8, <1>9, <1>10, <1>11, Zenon DEF Master

LEMMA BootTypesSlave ==
  ASSUME BootInv, NEW c \in Slave, SlaveStep(c)
  PROVE  BootTypes'
<1> USE BootAssumption, CoreFacts DEF BootInv, BootTypes, BootTypeOK, Locations, NULL
<1>1. CASE AnyCore(c)
  BY <1>1, BootTypesAnyCore, Zenon
<1>2. CASE ClearOwn(c)
  BY <1>2, Zenon DEF ClearOwn, Put, Go
<1>3. CASE SayBoot(c)
  BY <1>3, Zenon DEF SayBoot, Put, Go
<1>4. CASE SeeBoot(c)
  BY <1>4, Zenon DEF SeeBoot, Await, Go
<1>5. CASE WaitInit(c)
  BY <1>5, Zenon DEF WaitInit, Await, Go
<1>6. CASE AckInit(c)
  BY <1>6, Zenon DEF AckInit, Put, Go
<1>7. CASE SyncSay(c)
  BY <1>7, Zenon DEF SyncSay, Put, Go
<1>8. CASE SyncWait(c)
  BY <1>8, Zenon DEF SyncWait, Await, Go
<1>9. CASE SayReturn(c)
  BY <1>9, Zenon DEF SayReturn, Put, Go
<1>10. CASE SeeReturn(c)
  BY <1>10, Zenon DEF SeeReturn, Await, Go
<1>11. CASE Bye(c)
  BY <1>11 DEF Bye, Go, LoopBack
<1> QED
  BY <1>1, <1>2, <1>3, <1>4, <1>5, <1>6, <1>7, <1>8, <1>9, <1>10, <1>11, Zenon DEF SlaveStep
-----------------------------------------------------------------------------
\* A step that leaves the master, its words and slave d alone.
Apart(d) ==
  /\ bpc'[0] = bpc[0] /\ bpc'[d] = bpc[d] /\ status'[0] = status[0] /\ status'[d] = status[d]
  /\ round'[0] = round[0] /\ round'[d] = round[d] /\ ran'[d] = ran[d] /\ UNCHANGED <<entrypoint, i>>

LEMMA OtherSlave ==
  ASSUME NEW d \in Slave, Whereabouts(d), SlaveInv(d), Apart(d)
  PROVE  Whereabouts(d)' /\ SlaveInv(d)'
<1>1. Whereabouts(d)'
  BY DEF Whereabouts, Apart, Network
<1>2. SlaveInv(d)'
  BY Zenon DEF SlaveInv, Apart, Network
<1> QED
  BY <1>1, <1>2, Zenon

\* The steps of a slave that write no word of the master.
Own(c) ==
  \/ Delay(c) \/ Call(c) \/ Return(c) \/ ClearOwn(c) \/ SayBoot(c) \/ SeeBoot(c) \/ WaitInit(c)
  \/ AckInit(c) \/ SyncSay(c) \/ SyncWait(c) \/ SayReturn(c) \/ SeeReturn(c) \/ Bye(c)

LEMMA OwnLeavesOthers ==
  ASSUME BootInv, NEW c \in Slave, Own(c)
  PROVE  /\ bpc'[0] = bpc[0] /\ status'[0] = status[0] /\ round'[0] = round[0] /\ ran'[0] = ran[0]
         /\ UNCHANGED <<entrypoint, i>>
         /\ \A d \in Slave \ {c} : Apart(d)
  BY CoreFacts
     DEF BootInv, BootTypes, BootTypeOK, Own, Apart, Delay, Call, Return, ClearOwn, SayBoot, SeeBoot, WaitInit,
         AckInit, SyncSay, SyncWait, SayReturn, SeeReturn, Bye, Await, Put, Go, LoopBack

\* Where the step of a slave takes it is where it may be.
LEMMA OwnWhereabouts ==
  ASSUME BootInv, NEW c \in Slave, Own(c)
  PROVE  Whereabouts(c)'
<1>0. /\ bpc'[0] = bpc[0] /\ status'[0] = status[0] /\ round'[0] = round[0] /\ ran'[0] = ran[0]
      /\ UNCHANGED <<entrypoint, i>>
  BY OwnLeavesOthers, Zenon
<1> USE CoreFacts, <1>0
      DEF BootInv, BootTypes, BootTypeOK, MasterInv, Whereabouts, SlaveInv, Clearing, Starting, Started,
          Early, Cleared, Leaving, Network
<1>1. CASE Delay(c)
  BY <1>1, Zenon DEF Delay, Await, Go
<1>2. CASE Call(c)
  BY <1>2 DEF Call, Go, Finish
<1>3. CASE Return(c)
  BY <1>3, Zenon DEF Return, Await, Go, Finish
<1>4. CASE ClearOwn(c)
  BY <1>4, Zenon DEF ClearOwn, Put, Go
<1>5. CASE SayBoot(c)
  BY <1>5, Zenon DEF SayBoot, Put, Go
<1>6. CASE SeeBoot(c)
  BY <1>6 DEF SeeBoot, Await, Go
<1>7. CASE WaitInit(c)
  BY <1>7 DEF WaitInit, Await, Go
<1>8. CASE AckInit(c)
  BY <1>8, Zenon DEF AckInit, Put, Go
<1>9. CASE SyncSay(c)
  BY <1>9, Zenon DEF SyncSay, Put, Go
<1>10. CASE SyncWait(c)
  BY <1>10, Zenon DEF SyncWait, Await, Go
<1>11. CASE SayReturn(c)
  BY <1>11, Zenon DEF SayReturn, Put, Go
<1>12. CASE SeeReturn(c)
  BY <1>12, Zenon DEF SeeReturn, Await, Go
<1>13. CASE Bye(c)
  BY <1>13, Zenon DEF Bye, Go, LoopBack
<1> HIDE DEF BootInv, BootTypes, BootTypeOK, MasterInv, Whereabouts, SlaveInv, Clearing, Starting, Started,
             Early, Cleared, Leaving, Network
<1> QED
  BY <1>1, <1>2, <1>3, <1>4, <1>5, <1>6, <1>7, <1>8, <1>9, <1>10, <1>11, <1>12, <1>13, Zenon DEF Own

LEMMA OwnSlaveInv ==
  ASSUME BootInv, NEW c \in Slave, Own(c)
  PROVE  SlaveInv(c)'
<1>0. /\ bpc'[0] = bpc[0] /\ status'[0] = status[0] /\ round'[0] = round[0] /\ ran'[0] = ran[0]
      /\ UNCHANGED <<entrypoint, i>>
  BY OwnLeavesOthers, Zenon
<1> USE CoreFacts, <1>0
      DEF BootInv, BootTypes, BootTypeOK, MasterInv, Whereabouts, SlaveInv, Clearing, Starting, Started,
          Early, Cleared, Leaving, Network
<1>1. CASE Delay(c)
  BY <1>1, Zenon DEF Delay, Await, Go
<1>2. CASE Call(c)
  BY <1>2 DEF Call, Go, Finish
<1>3. CASE Return(c)
  BY <1>3 DEF Return, Await, Go, Finish
<1>4. CASE ClearOwn(c)
  BY <1>4 DEF ClearOwn, Put, Go
<1>5. CASE SayBoot(c)
  BY <1>5, Zenon DEF SayBoot, Put, Go
<1>6. CASE SeeBoot(c)
  BY <1>6 DEF SeeBoot, Await, Go
<1>7. CASE WaitInit(c)
  BY <1>7, Zenon DEF WaitInit, Await, Go
<1>8. CASE AckInit(c)
  BY <1>8, Zenon DEF AckInit, Put, Go
<1>9. CASE SyncSay(c)
  BY <1>9, Zenon DEF SyncSay, Put, Go
<1>10. CASE SyncWait(c)
  BY <1>10, Zenon DEF SyncWait, Await, Go
<1>11. CASE SayReturn(c)
  BY <1>11, Zenon DEF SayReturn, Put, Go
<1>12. CASE SeeReturn(c)
  BY <1>12 DEF SeeReturn, Await, Go
<1>13. CASE Bye(c)
  BY <1>13, Zenon DEF Bye, Go
<1> HIDE DEF BootInv, BootTypes, BootTypeOK, MasterInv, Whereabouts, SlaveInv, Clearing, Starting, Started,
             Early, Cleared, Leaving, Network
<1> QED
  BY <1>1, <1>2, <1>3, <1>4, <1>5, <1>6, <1>7, <1>8, <1>9, <1>10, <1>11, <1>12, <1>13, Zenon DEF Own

\* A slave clears words of the master only while all cores clear, or while the master sees
\* the slaves off.
LEMMA SlaveClears ==
  ASSUME BootInv, NEW c \in Slave, ClearStatus(c) \/ ClearEntry(c)
  PROVE  MasterInv' /\ \A d \in Slave : Whereabouts(d)' /\ SlaveInv(d)'
<1> USE CoreFacts
      DEF BootInv, BootTypes, BootTypeOK, MasterInv, Whereabouts, SlaveInv, Clearing, Starting, Started,
          Early, Cleared, Leaving, Network, NULL
<1>1. bpc[0] \in Clearing \cup {"see_off"} /\ bpc'[0] = bpc[0] /\ UNCHANGED <<i, round, ran>>
  BY Zenon DEF ClearStatus, ClearEntry, Put, Go
<1>2. MasterInv'
  BY <1>1, Zenon DEF ClearStatus, ClearEntry, Put
<1>3. ASSUME NEW d \in Slave PROVE Whereabouts(d)'
  BY DEF ClearStatus, ClearEntry, Put, Go
<1>4. ASSUME NEW d \in Slave PROVE SlaveInv(d)'
  BY DEF ClearStatus, ClearEntry, Put, Go
<1> QED
  BY <1>2, <1>3, <1>4

LEMMA SlaveKeepsInv ==
  ASSUME BootInv, NEW c \in Slave, SlaveStep(c)
  PROVE  BootInv'
<1>1. BootTypes'
  BY BootTypesSlave, Zenon
<1>2. CASE Own(c)
  <2>1. MasterInv'
    BY <1>2, OwnLeavesOthers DEF BootInv, MasterInv, Network
  <2>2. ASSUME NEW d \in Slave, d # c PROVE Whereabouts(d)' /\ SlaveInv(d)'
    BY <1>2, <2>2, OwnLeavesOthers, OtherSlave, Zenon DEF BootInv
  <2> QED
    BY <1>1, <1>2, <2>1, <2>2, OwnWhereabouts, OwnSlaveInv, Zenon DEF BootInv
<1>3. CASE ClearStatus(c) \/ ClearEntry(c)
  BY <1>1, <1>3, SlaveClears, Zenon DEF BootInv
<1> QED
  BY <1>2, <1>3, Zenon DEF SlaveStep, AnyCore, Own
LEMMA MasterMaster ==
  ASSUME BootInv, Master
  PROVE  MasterInv'
<1> USE CoreFacts
      DEF BootInv, BootTypes, BootTypeOK, MasterInv, Whereabouts, SlaveInv, Clearing, Starting, Started,
          Early, Cleared, Leaving, Network, NULL
<1>0. i \in Int /\ LastCore \in Int /\ \A s \in Slave : s \in Int /\ 1 <= s /\ s <= LastCore
  BY BootAssumption DEF Slave
<1>1. CASE Delay(0)
  BY <1>1, Zenon DEF Delay, Await, Go
<1>2. CASE ClearStatus(0)
  BY <1>2, Zenon DEF ClearStatus, Put, Go
<1>3. CASE ClearEntry(0)
  BY <1>3, Zenon DEF ClearEntry, Go
<1>4. CASE Call(0)
  BY <1>4, Zenon DEF Call, Go, Finish
<1>5. CASE Return(0)
  BY <1>5, Zenon DEF Return, Await, Go, Finish
<1>6. CASE ClearSlaves
  BY <1>6, Zenon DEF ClearSlaves, EachSlave
<1>7. CASE WriteBoot
  BY <1>7, Zenon DEF WriteBoot, Put, Go
<1>8. CASE Download
  BY <1>8, Zenon DEF Download, Go
<1>9. CASE SendInit
  BY <1>9, Zenon DEF SendInit, Put, Go
<1>10. CASE AwaitInit
  BY <1>10, Zenon DEF AwaitInit, EachSlave
<1>11. CASE Sync
  BY <1>0, <1>11, Zenon DEF Sync, EachSlave
<1>12. CASE SyncStart
  BY <1>12, Zenon DEF SyncStart, Put, Go
<1>13. CASE AwaitReturn
  BY <1>13, Zenon DEF AwaitReturn, EachSlave
<1>14. CASE SendReturn
  BY <1>14, Zenon DEF SendReturn, Put, Go
<1>15. CASE SeeOff
  BY <1>15 DEF SeeOff
<1> HIDE DEF BootInv, BootTypes, BootTypeOK, MasterInv, Whereabouts, SlaveInv, Clearing, Starting, Started,
             Early, Cleared, Leaving, Network, NULL
<1> QED
  BY <1>1, <1>2, <1>3, <1>4, <1>5, <1>6, <1>7, <1>8, <1>9, <1>10, <1>11, <1>12, <1>13, <1>14, <1>15, Zenon
     DEF Master, AnyCore

\* Where the slaves are when the master goes on.
LEMMA MasterWhereabouts ==
  ASSUME BootInv, Master, NEW d \in Slave
  PROVE  Whereabouts(d)'
<1> USE CoreFacts
      DEF BootInv, BootTypes, BootTypeOK, MasterInv, Whereabouts, SlaveInv, Clearing, Starting, Started,
          Early, Cleared, Leaving, Network, NULL
<1>0. i \in Int /\ LastCore \in Int /\ \A s \in Slave : s \in Int /\ 1 <= s /\ s <= LastCore
  BY BootAssumption DEF Slave
<1>1. CASE Delay(0)
  BY <1>1, Zenon DEF Delay, Await, Go
<1>2. CASE ClearStatus(0)
  BY <1>2, Zenon DEF ClearStatus, Put, Go
<1>3. CASE ClearEntry(0)
  BY <1>3, Zenon DEF ClearEntry, Go
<1>4. CASE Call(0)
  BY <1>0, <1>4 DEF Call, Go, Finish
<1>5. CASE Return(0)
  BY <1>0, <1>5 DEF Return, Await, Go, Finish
<1>6. CASE ClearSlaves
  BY <1>6, Zenon DEF ClearSlaves, EachSlave
<1>7. CASE WriteBoot
  BY <1>7, Zenon DEF WriteBoot, InTimeBoot, Put, Go
<1>8. CASE Download
  BY <1>8, Zenon DEF Download, InTimeDownload, Go
<1>9. CASE SendInit
  BY <1>0, <1>9 DEF SendInit, Put, Go
<1>10. CASE AwaitInit
  BY <1>0, <1>10 DEF AwaitInit, EachSlave
<1>11. CASE Sync
  BY <1>0, <1>11 DEF Sync, EachSlave
<1>12. CASE SyncStart
  BY <1>12, Zenon DEF SyncStart, Put, Go
<1>13. CASE AwaitReturn
  BY <1>0, <1>13 DEF AwaitReturn, EachSlave
<1>14. CASE SendReturn
  BY <1>0, <1>14, Zenon DEF SendReturn, Put, Go
<1>15. CASE SeeOff
  BY <1>0, <1>15 DEF SeeOff, LoopBack
<1> HIDE DEF BootInv, BootTypes, BootTypeOK, MasterInv, Whereabouts, SlaveInv, Clearing, Starting, Started,
             Early, Cleared, Leaving, Network, NULL
<1> QED
  BY <1>1, <1>2, <1>3, <1>4, <1>5, <1>6, <1>7, <1>8, <1>9, <1>10, <1>11, <1>12, <1>13, <1>14, <1>15, Zenon
     DEF Master, AnyCore

LEMMA MasterSlaveInv ==
  ASSUME BootInv, Master, NEW d \in Slave
  PROVE  SlaveInv(d)'
<1> USE CoreFacts
      DEF BootInv, BootTypes, BootTypeOK, MasterInv, Whereabouts, SlaveInv, Clearing, Starting, Started,
          Early, Cleared, Leaving, Network, NULL
<1>0. i \in Int /\ LastCore \in Int /\ \A s \in Slave : s \in Int /\ 1 <= s /\ s <= LastCore
  BY BootAssumption DEF Slave
<1>1. CASE Delay(0)
  BY <1>1, Zenon DEF Delay, Await, Go
<1>2. CASE ClearStatus(0)
  BY <1>2, Zenon DEF ClearStatus, Put, Go
<1>3. CASE ClearEntry(0)
  BY <1>3, Zenon DEF ClearEntry, Go
<1>4. CASE Call(0)
  BY <1>4 DEF Call, Go
<1>5. CASE Return(0)
  BY <1>0, <1>5, Zenon DEF Return, Await, Go, Finish
<1>6. CASE ClearSlaves
  BY <1>0, <1>6, Zenon DEF ClearSlaves, EachSlave
<1>7. CASE WriteBoot
  BY <1>0, <1>7, Zenon DEF WriteBoot, Put, Go
<1>8. CASE Download
  BY <1>8, Zenon DEF Download, InTimeDownload, Go
<1>9. CASE SendInit
  BY <1>0, <1>9, Zenon DEF SendInit, Put, Go
<1>10. CASE AwaitInit
  BY <1>0, <1>10, Zenon DEF AwaitInit, EachSlave
<1>11. CASE Sync
  BY <1>0, <1>11, Zenon DEF Sync, EachSlave
<1>12. CASE SyncStart
  BY <1>0, <1>12, Zenon DEF SyncStart, Put, Go
<1>13. CASE AwaitReturn
  BY <1>0, <1>13, Zenon DEF AwaitReturn, EachSlave
<1>14. CASE SendReturn
  BY <1>0, <1>14, Zenon DEF SendReturn, Put, Go
<1>15. CASE SeeOff
  BY <1>0, <1>15 DEF SeeOff
<1> HIDE DEF BootInv, BootTypes, BootTypeOK, MasterInv, Whereabouts, SlaveInv, Clearing, Starting, Started,
             Early, Cleared, Leaving, Network, NULL
<1> QED
  BY <1>1, <1>2, <1>3, <1>4, <1>5, <1>6, <1>7, <1>8, <1>9, <1>10, <1>11, <1>12, <1>13, <1>14, <1>15, Zenon
     DEF Master, AnyCore

LEMMA BootInvariant == BootSpec => []BootInv
<1>1. BootInv /\ [BootNext]_bootvars => BootInv'
  <2> SUFFICES ASSUME BootInv, [BootNext]_bootvars PROVE BootInv'
    OBVIOUS
  <2>1. CASE Master
    BY <2>1, BootTypesMaster, MasterMaster, MasterWhereabouts, MasterSlaveInv, Zenon DEF BootInv
  <2>2. CASE \E c \in Slave : SlaveStep(c)
    BY <2>2, SlaveKeepsInv, Zenon
  <2>3. CASE UNCHANGED bootvars
    BY <2>3 DEF bootvars, BootInv, BootTypes, BootTypeOK, MasterInv, Whereabouts, SlaveInv, Network
  <2> QED
    BY <2>1, <2>2, <2>3, Zenon DEF BootNext
<1> QED
  BY BootInvInit, <1>1, PTL DEF BootSpec

\* Positions and the words of boot_info keep their types, for any number of cores and rounds.
THEOREM BootTypesHold == BootSpec => []BootTypeOK
  BY BootInvariant, PTL DEF BootInv, BootTypes

\* Every core that calls an entry point calls the one of this round, and the cores agree
\* whether there is one.
THEOREM BootSameApplication == BootSpec => []SameApplication
<1>1. BootInv => SameApplication
  <2> SUFFICES ASSUME BootInv PROVE SameApplication
    OBVIOUS
  <2> USE CoreFacts DEF InApplication, NULL
  <2>1. ASSUME NEW c \in BootCore, InApplication(c)
        PROVE  /\ ran[c] = entrypoint /\ round[c] = round[0]
               /\ bpc[0] \in Starting \cup Started /\ ran[c] = round[c]
    <3>1. c = 0 \/ c \in Slave
      BY DEF BootCore, Slave
    <3>2. CASE c = 0
      BY <2>1, <3>2, Zenon DEF BootInv, MasterInv, Starting, Started, Clearing
    <3>3. CASE c \in Slave
      BY <2>1, <3>3, Zenon
         DEF BootInv, MasterInv, Whereabouts, SlaveInv, Starting, Started, Clearing, Early, Leaving
    <3> QED
      BY <3>1, <3>2, <3>3, Zenon
  <2>2. ASSUME NEW c \in BootCore, NEW d \in BootCore, InApplication(c),
               bpc[d] \in {"await_return", "say_return"}
        PROVE  ran[d] = ran[c]
    <3>1. d = 0 \/ d \in Slave
      BY DEF BootCore, Slave
    <3>2. ran[c] = entrypoint /\ bpc[0] \in Starting \cup Started
      BY <2>1, <2>2, Zenon
    <3>3. CASE d = 0
      BY <2>2, <3>2, <3>3, Zenon DEF BootInv, MasterInv, Starting, Started
    <3>4. CASE d \in Slave
      BY <2>2, <3>2, <3>4, Zenon DEF BootInv, Whereabouts, SlaveInv, Starting, Started
    <3> QED
      BY <3>1, <3>3, <3>4, Zenon
  <2> QED
    BY <2>1, <2>2, Zenon DEF SameApplication
<1> QED
  BY BootInvariant, <1>1, PTL

\* While a core runs the application every other core is in the same round and has its code.
THEOREM BootRunsTogether == BootSpec => []RunTogether
<1>1. BootInv => RunTogether
  <2> SUFFICES ASSUME BootInv, NEW c \in BootCore, NEW d \in BootCore, InApplication(c)
               PROVE  /\ round[d] = round[c]
                      /\ bpc[d] \notin {"delay", "clear_status", "clear_entry", "clear_slaves", "clear_own",
                                        "boot", "download", "say_boot", "see_boot"}
                      /\ c = 0 => bpc[d] \notin {"wait_init", "ack_init"}
    BY Zenon DEF RunTogether
  <2> USE CoreFacts DEF InApplication
  <2>1. (c = 0 \/ c \in Slave) /\ (d = 0 \/ d \in Slave)
    BY DEF BootCore, Slave
  <2>2. bpc[0] \in Starting \cup Started /\ round[c] = round[0] /\ (c = 0 => bpc[0] # "await_init")
    BY <2>1, Zenon DEF BootInv, MasterInv, Whereabouts, Clearing, Early, Leaving
  <2>3. round[d] = round[0]
    BY <2>1, <2>2, Zenon DEF BootInv, Whereabouts, Starting, Started
  <2>4. CASE d = 0
    BY <2>2, <2>4, Zenon DEF Starting, Started
  <2>5. CASE d \in Slave
    BY <2>2, <2>5, Zenon DEF BootInv, Whereabouts, Starting, Started, Leaving
  <2> QED
    BY <2>1, <2>4, <2>5, Zenon
<1> QED
  BY BootInvariant, <1>1, PTL

\* noc_sync is a barrier: when one core is past it, every core has configured its interface.
THEOREM BootNetworkReady == BootSpec => []NetworkReady
<1>1. BootInv => NetworkReady
  <2> SUFFICES ASSUME BootInv, NEW c \in BootCore, NEW d \in BootCore, bpc[c] = "app", ran[c] \in NocRounds
               PROVE  bpc[d] \notin {"call", "wait_init", "ack_init", "sync_say"}
    BY Zenon DEF NetworkReady
  <2> USE CoreFacts DEF NULL
  <2>1. (c = 0 \/ c \in Slave) /\ (d = 0 \/ d \in Slave)
    BY DEF BootCore, Slave
  <2>2. Network
    BY <2>1, Zenon DEF BootInv, MasterInv, SlaveInv, Network
  <2>3. status[0] = "INITDONE"
    BY <2>1, <2>2, Zenon DEF BootInv, MasterInv, SlaveInv, Started
  <2>4. bpc[0] \in Started
    BY <2>1, <2>3, Zenon DEF BootInv, MasterInv, Whereabouts, Started, Early
  <2>5. CASE d = 0
    BY <2>4, <2>5, Zenon DEF Started
  <2>6. CASE d \in Slave
    BY <2>2, <2>4, <2>6, Zenon DEF BootInv, Whereabouts, Leaving
  <2> QED
    BY <2>1, <2>5, <2>6, Zenon
<1> QED
  BY BootInvariant, <1>1, PTL
-----------------------------------------------------------------------------
\* A core's bits and its pending request agree with where it is in lock and unlock.
QueueAgrees ==
  \A c \in Core :
    /\ reqReg[c] <=> pc[c] \in {"locking", "unlocking"}
    /\ \A l \in Lock : queueReg[l][c] <=> pc[c] \in {"locking", "in"} /\ sel[c] = l

\* A core inside has the turn.
InsideHasTurn == \A c \in Core : pc[c] = "in" => curReg[sel[c]] = c

Inv == LckTypeOK /\ QueueAgrees /\ InsideHasTurn

\* The encoder returns the least element of a nonempty set of cores.
LEMMA EncoderIsLeast ==
  ASSUME NEW bits \in SUBSET Core, bits # {}
  PROVE  PriorityEncoder(bits) \in bits /\ \A d \in bits : PriorityEncoder(bits) <= d
<1>1. bits \subseteq Nat
  BY DEF Core
<1>2. \E c \in bits : \A d \in bits : ~ (<<d, c>> \in OpToRel(<, Nat))
  BY <1>1, NatLessThanWellFounded, WFMin, Zenon
<1>3. \E c \in bits : \A d \in bits : c <= d
  <2>1. PICK c \in bits : \A d \in bits : ~ (<<d, c>> \in OpToRel(<, Nat))
    BY <1>2, Zenon
  <2>2. ASSUME NEW d \in bits PROVE c <= d
    <3>1. c \in Nat /\ d \in Nat
      BY <1>1, Zenon
    <3>2. d < c => <<d, c>> \in OpToRel(<, Nat)
      BY <3>1, Zenon DEF OpToRel
    <3>3. ~ (d < c)
      BY <2>1, <3>2, Zenon
    <3> QED
      BY <3>1, <3>3
  <2> QED
    BY <2>2, Zenon
<1> QED
  BY <1>3, Zenon DEF PriorityEncoder

\* Whatever is queued, the next value of curReg is a core.
LEMMA TurnIsCore ==
  ASSUME NEW l \in Lock
  PROVE  Turn(l) \in Core
<1>1. hi(l) \in SUBSET Core /\ lo(l) \in SUBSET Core
  BY Zenon DEF hi, lo
<1>2. coreCnt - 1 \in Core
  BY CountAssumption DEF Core
<1>3. CASE hi(l) # {}
  BY <1>1, <1>3, EncoderIsLeast, Zenon DEF Turn
<1>4. CASE hi(l) = {} /\ lo(l) # {}
  BY <1>1, <1>4, EncoderIsLeast, Zenon DEF Turn
<1>5. CASE hi(l) = {} /\ lo(l) = {}
  BY <1>2, <1>5, Zenon DEF Turn, PriorityEncoder
<1> QED
  BY <1>3, <1>4, <1>5, Zenon

\* curReg stays at a core as long as the core's bit is set.
LEMMA TurnStays ==
  ASSUME NEW l \in Lock, LckTypeOK, queueReg[l][curReg[l]]
  PROVE  Turn(l) = curReg[l]
<1>1. curReg[l] \in Core
  BY Zenon DEF LckTypeOK
<1>2. curReg[l] \in hi(l) /\ hi(l) \in SUBSET Core /\ hi(l) # {}
  BY <1>1 DEF hi, Core
<1>3. PriorityEncoder(hi(l)) \in hi(l) /\ PriorityEncoder(hi(l)) <= curReg[l]
  BY <1>2, EncoderIsLeast, Zenon
<1>4. curReg[l] <= PriorityEncoder(hi(l))
  BY <1>3, Zenon DEF hi
<1>5. PriorityEncoder(hi(l)) \in Nat /\ curReg[l] \in Nat
  BY <1>2, <1>3 DEF Core
<1> QED
  BY <1>3, <1>4, <1>5 DEF Turn

LEMMA InvInit == LckInit => Inv
<1> SUFFICES ASSUME LckInit PROVE Inv
  OBVIOUS
<1>1. 0 \in Core /\ 0 \in Lock
  BY CountAssumption DEF Core, Lock
<1> QED
  BY <1>1, Zenon DEF LckInit, Inv, LckTypeOK, QueueAgrees, InsideHasTurn

LEMMA InvClock ==
  ASSUME Inv, NEW cmd \in SUBSET Core, NEW wanted \in [Core -> Lock], Clock(cmd, wanted)
  PROVE  Inv'
<1> USE DEF Inv
<1>1. LckTypeOK'
  <2>1. sel' \in [Core -> Lock] /\ reqReg' \in [Core -> BOOLEAN]
    BY Zenon DEF Clock, LckTypeOK
  <2>2. queueReg' \in [Lock -> [Core -> BOOLEAN]]
    BY Zenon DEF Clock, LckTypeOK
  <2>3. curReg' \in [Lock -> Core]
    BY TurnIsCore, Zenon DEF Clock
  <2>4. pc' \in [Core -> {"out", "locking", "in", "unlocking"}]
    BY Zenon DEF Clock, LckTypeOK, Position
  <2>5. passed' \in [Core -> SUBSET Core]
    BY Zenon DEF Clock, LckTypeOK
  <2> QED
    BY <2>1, <2>2, <2>3, <2>4, <2>5, Zenon DEF LckTypeOK
<1>2. QueueAgrees'
  <2> SUFFICES ASSUME NEW c \in Core
               PROVE  /\ reqReg'[c] <=> pc'[c] \in {"locking", "unlocking"}
                      /\ \A l \in Lock : queueReg'[l][c] <=> pc'[c] \in {"locking", "in"} /\ sel'[c] = l
    BY Zenon DEF QueueAgrees
  <2>1. CASE c \in cmd
    BY Zenon DEF Clock, QueueAgrees, Position, Resp
  <2>2. CASE c \notin cmd /\ Resp(c)
    BY Zenon DEF Clock, QueueAgrees, Position, Resp
  <2>3. CASE c \notin cmd /\ ~ Resp(c)
    BY Zenon DEF Clock, QueueAgrees, Position, Resp
  <2> QED
    BY <2>1, <2>2, <2>3, Zenon
<1>3. InsideHasTurn'
  <2> SUFFICES ASSUME NEW c \in Core, pc'[c] = "in" PROVE curReg'[sel'[c]] = c
    BY Zenon DEF InsideHasTurn
  <2>1. c \notin cmd /\ sel'[c] = sel[c] /\ sel[c] \in Lock
    BY Zenon DEF Clock, LckTypeOK
  <2>2. queueReg[sel[c]][c] /\ curReg[sel[c]] = c
    <3>1. CASE Resp(c)
      <4>1. pc[c] = "locking"
        BY <3>1, Zenon DEF Clock, Position
      <4> QED
        BY <2>1, <3>1, <4>1, Zenon DEF Resp, blck, QueueAgrees
    <3>2. CASE ~ Resp(c)
      <4>1. pc[c] = "in"
        BY <3>2, Zenon DEF Clock, Position
      <4> QED
        BY <2>1, <4>1, Zenon DEF QueueAgrees, InsideHasTurn
    <3> QED
      BY <3>1, <3>2, Zenon
  <2>3. Turn(sel[c]) = c
    BY <2>1, <2>2, TurnStays, Zenon
  <2> QED
    BY <2>1, <2>3, Zenon DEF Clock
<1> QED
  BY <1>1, <1>2, <1>3, Zenon

LEMMA LckInvariant == LckSpec => []Inv
<1>1. Inv /\ [LckNext]_lckvars => Inv'
  <2> SUFFICES ASSUME Inv, [LckNext]_lckvars PROVE Inv'
    OBVIOUS
  <2>1. CASE LckNext
    BY <2>1, InvClock, Zenon DEF LckNext
  <2>2. CASE UNCHANGED lckvars
    BY <2>2, Zenon DEF lckvars, Inv, LckTypeOK, QueueAgrees, InsideHasTurn
  <2> QED
    BY <2>1, <2>2, Zenon
<1> QED
  BY InvInit, <1>1, PTL DEF LckSpec

\* Every register of the unit keeps its type; in particular curReg is always a core,
\* also when the encoder has no bit to encode.
THEOREM LckTypeCorrect == LckSpec => []LckTypeOK
  BY LckInvariant, PTL DEF Inv

\* Two cores are never inside the same lock of the unit, for any number of cores and locks.
THEOREM HardlockExcludes == LckSpec => []OneOwner
<1>1. ASSUME Inv, NEW c \in Core, Inside(c) PROVE curReg[sel[c]] = c
  BY <1>1, Zenon DEF Inv, LckTypeOK, QueueAgrees, InsideHasTurn, Inside, Granted, Resp, blck
<1>2. Inv => OneOwner
  BY <1>1, Zenon DEF OneOwner
<1> QED
  BY LckInvariant, <1>2, PTL
-----------------------------------------------------------------------------
\* How far the circular encoder has come when it is at core d, seen from core c, which
\* comes last: c + 1 is 0 and c is coreCnt - 1.
Rank(c, d) == IF d > c THEN d - c - 1 ELSE d - c - 1 + coreCnt

\* A core that passed the waiting core c is behind curReg, or it has the turn but either
\* is still inside or has just given the lock back.
PassedBehind ==
  \A c \in Core : \A d \in passed[c] :
    /\ pc[c] = "locking"
    /\ Rank(c, d) <= Rank(c, curReg[sel[c]])
    /\ curReg[sel[c]] = d => sel[d] = sel[c] /\ pc[d] \in {"in", "unlocking"}

\* While a core is queued the turn stays or comes nearer to it, and it leaves a core
\* whose bit is not set.
LEMMA TurnApproaches ==
  ASSUME LckTypeOK, NEW l \in Lock, NEW c \in Core, queueReg[l][c]
  PROVE  /\ Turn(l) = curReg[l] \/ Rank(c, curReg[l]) < Rank(c, Turn(l))
         /\ queueReg[l][Turn(l)]
<1>1. curReg[l] \in Core /\ hi(l) \in SUBSET Core /\ lo(l) \in SUBSET Core
  BY Zenon DEF LckTypeOK, hi, lo
<1>2. Core \subseteq Int /\ c \in Int /\ curReg[l] \in Int
  BY <1>1 DEF Core
<1>3. CASE curReg[l] <= c
  <2>1. c \in hi(l)
    BY <1>3, Zenon DEF hi
  <2>2. Turn(l) \in hi(l) /\ Turn(l) <= c
    BY <1>1, <2>1, EncoderIsLeast, Zenon DEF Turn
  <2>3. Turn(l) \in Core /\ curReg[l] <= Turn(l) /\ queueReg[l][Turn(l)]
    BY <2>2, Zenon DEF hi
  <2>4. Turn(l) \in Int
    BY <1>2, <2>3, Zenon
  <2> QED
    BY <1>2, <2>2, <2>3, <2>4, CountAssumption DEF Rank
<1>4. CASE curReg[l] > c /\ hi(l) # {}
  <2>1. Turn(l) \in hi(l)
    BY <1>1, <1>4, EncoderIsLeast, Zenon DEF Turn
  <2>2. Turn(l) \in Core /\ curReg[l] <= Turn(l) /\ queueReg[l][Turn(l)]
    BY <2>1, Zenon DEF hi
  <2>3. Turn(l) \in Int
    BY <1>2, <2>2, Zenon
  <2> QED
    BY <1>2, <1>4, <2>2, <2>3 DEF Rank
<1>5. CASE curReg[l] > c /\ hi(l) = {}
  <2>1. c \in lo(l)
    BY <1>5, Zenon DEF lo
  <2>2. Turn(l) \in lo(l) /\ Turn(l) <= c
    BY <1>1, <1>5, <2>1, EncoderIsLeast, Zenon DEF Turn
  <2>3. Turn(l) \in Core /\ queueReg[l][Turn(l)]
    BY <2>2, Zenon DEF lo
  <2>4. curReg[l] \in Int /\ c \in Int /\ Turn(l) \in Int /\ curReg[l] < coreCnt /\ 0 <= Turn(l)
    BY <1>1, <2>3, CountAssumption DEF Core
  <2>5. Rank(c, curReg[l]) < Rank(c, Turn(l))
    BY <1>5, <2>2, <2>4, CountAssumption DEF Rank
  <2> QED
    BY <2>3, <2>5, Zenon
<1> QED
  BY <1>2, <1>3, <1>4, <1>5

LEMMA PassedClock ==
  ASSUME Inv, PassedBehind,
         NEW cmd \in SUBSET Core, NEW wanted \in [Core -> Lock], Clock(cmd, wanted)
  PROVE  PassedBehind'
<1> SUFFICES ASSUME NEW c \in Core, NEW d \in passed'[c]
             PROVE  /\ pc'[c] = "locking"
                    /\ Rank(c, d) <= Rank(c, curReg'[sel'[c]])
                    /\ curReg'[sel'[c]] = d => sel'[d] = sel'[c] /\ pc'[d] \in {"in", "unlocking"}
  BY Zenon DEF PassedBehind
<1> DEFINE l == sel[c]
<1>1. Position(c) = "locking" /\ (d \in passed[c] \/ (Granted(d) /\ sel[d] = l)) /\ d \in Core
  BY Zenon DEF Clock, Inv, LckTypeOK
<1>2. pc[c] = "locking" /\ ~ Resp(c) /\ c \notin cmd
  BY Zenon DEF Position, Clock
<1>3. pc'[c] = "locking" /\ sel'[c] = l /\ l \in Lock /\ curReg'[l] = Turn(l)
  BY Zenon DEF Clock, Inv, LckTypeOK
<1>4. queueReg[l][c] /\ curReg[l] \in Core /\ Turn(l) \in Core /\ c \in Int /\ Core \subseteq Int
  BY <1>2, <1>3, TurnIsCore DEF Inv, LckTypeOK, QueueAgrees, Core
<1>5. Turn(l) = curReg[l] \/ Rank(c, curReg[l]) < Rank(c, Turn(l))
  BY <1>3, <1>4, TurnApproaches, Zenon DEF Inv
<1>6. CASE d \in passed[c]
  <2>1. /\ Rank(c, d) <= Rank(c, curReg[l])
        /\ curReg[l] = d => sel[d] = l /\ pc[d] \in {"in", "unlocking"}
    BY <1>6, Zenon DEF PassedBehind
  <2>2. Rank(c, d) <= Rank(c, Turn(l)) /\ (Turn(l) = d => curReg[l] = d)
    <3>1. d \in Int /\ curReg[l] \in Int /\ Turn(l) \in Int
      BY <1>1, <1>4, Zenon
    <3> QED
      BY <1>4, <1>5, <2>1, <3>1, CountAssumption DEF Rank
  <2>3. ASSUME Turn(l) = d PROVE sel'[d] = l /\ pc'[d] \in {"in", "unlocking"}
    <3>1. sel[d] = l /\ queueReg[l][d] /\ pc[d] = "in"
      <4>1. queueReg[l][d] /\ sel[d] = l /\ pc[d] \in {"in", "unlocking"}
        BY <1>3, <1>4, <2>1, <2>2, <2>3, TurnApproaches, Zenon DEF Inv
      <4> QED
        BY <1>1, <1>3, <4>1, Zenon DEF Inv, QueueAgrees
    <3>2. ~ Resp(d)
      BY <1>1, <3>1, Zenon DEF Resp, Inv, QueueAgrees
    <3> QED
      BY <3>1, <3>2, Zenon DEF Clock, Position, Inv, LckTypeOK
  <2> QED
    BY <1>3, <2>2, <2>3, Zenon
<1>7. CASE Granted(d) /\ sel[d] = l
  <2>1. pc[d] = "locking" /\ queueReg[l][d] /\ curReg[l] = d
    BY <1>1, <1>3, <1>7, Zenon DEF Granted, Resp, blck, Inv, QueueAgrees
  <2>2. Turn(l) = d
    BY <1>3, <2>1, TurnStays, Zenon DEF Inv
  <2>3. Position(d) = "in"
    BY <1>7, Zenon DEF Granted, Position
  <2>4. sel'[d] = l /\ pc'[d] \in {"in", "unlocking"}
    BY <1>1, <1>7, <2>3, Zenon DEF Clock
  <2>5. c \in Int /\ d \in Int
    BY <1>1, <1>4, Zenon
  <2>6. Rank(c, d) <= Rank(c, d)
    BY <2>5, CountAssumption DEF Rank
  <2> QED
    BY <1>3, <2>2, <2>4, <2>6, Zenon
<1> QED
  BY <1>1, <1>6, <1>7, Zenon

\* Circular priority: while a core waits for a lock, no other core is granted it twice, for
\* any number of cores and locks.
THEOREM HardlockIsFair == LckSpec => []NoBypassTwice
<1>1. LckInit => PassedBehind
  BY Zenon DEF LckInit, PassedBehind
<1>2. Inv /\ PassedBehind /\ [LckNext]_lckvars => PassedBehind'
  <2> SUFFICES ASSUME Inv, PassedBehind, [LckNext]_lckvars PROVE PassedBehind'
    OBVIOUS
  <2>1. CASE LckNext
    BY <2>1, PassedClock, Zenon DEF LckNext
  <2>2. CASE UNCHANGED lckvars
    BY <2>2, Zenon DEF lckvars, PassedBehind
  <2> QED
    BY <2>1, <2>2, Zenon
<1>3. Inv /\ PassedBehind => NoBypassTwice
  <2> SUFFICES ASSUME Inv, PassedBehind, NEW c \in Core, NEW d \in Core,
                      Granted(d), sel[d] = sel[c], d \in passed[c]
               PROVE  FALSE
    BY Zenon DEF NoBypassTwice
  <2>1. pc[d] = "locking" /\ curReg[sel[c]] = d
    BY Zenon DEF Granted, Resp, blck, Inv, LckTypeOK, QueueAgrees
  <2> QED
    BY <2>1, Zenon DEF PassedBehind
<1> QED
  BY LckInvariant, <1>1, <1>2, <1>3, PTL DEF LckSpec
-----------------------------------------------------------------------------
\* The remainder is in range and the division theorem holds.
LEMMA DivMod ==
  ASSUME NEW x \in Int, NEW w \in Nat \ {0}
  PROVE  x % w \in 0 .. w - 1 /\ x \div w \in Int /\ x = w * (x \div w) + (x % w)
  OBVIOUS

\* A remainder is found by exhibiting the quotient.
LEMMA ModIs ==
  ASSUME NEW x \in Int, NEW w \in Nat \ {0}, NEW q \in Int, NEW r \in 0 .. w - 1, x = w * q + r
  PROVE  x % w = r
<1>1. PICK p \in Int, s \in 0 .. w - 1 : x = w * p + s /\ s = x % w
  BY DivMod, Zenon
<1>2. w * (p - q) = r - s
  <2>1. x = w * p + s
    BY <1>1, Zenon
  <2>2. QED
    BY <2>1
<1>3. CASE p - q >= 1
  <2>1. w * (p - q) >= w
    BY <1>3
  <2>2. QED
    OBVIOUS
<1>4. CASE p - q <= -1
  <2>1. w * (p - q) <= -w
    BY <1>4
  <2>2. QED
    OBVIOUS
<1>5. CASE p = q
  <2>1. r = s
    BY <1>2
  <2>2. QED
    BY <1>1, <2>1, Zenon
<1>6. QED
  OBVIOUS

\* Stepping a ring position with a test for the last slot is counting modulo.
LEMMA ModIncrement ==
  ASSUME NEW x \in Int, NEW w \in Nat \ {0}
  PROVE  (x + 1) % w = IF x % w = w - 1 THEN 0 ELSE (x % w) + 1
<1>1. PICK q \in Int, r \in 0 .. w - 1 : x = w * q + r /\ r = x % w
  BY DivMod, Zenon
<1>2. CASE r = w - 1
  <2>1. w * (q + 1) = w * q + w
    OBVIOUS
  <2>2. x + 1 = w * q + w
    BY <1>1, <1>2
  <2>3. x + 1 \in Int /\ x + 1 = w * (q + 1) + 0 /\ q + 1 \in Int /\ 0 \in 0 .. w - 1
    BY <2>2
  <2>4. (x + 1) % w = 0
    BY <2>3, ModIs, Zenon
  <2>5. QED
    BY <1>1, <1>2, <2>4, Zenon
<1>3. CASE r # w - 1
  <2>1. x + 1 \in Int /\ x + 1 = w * q + (r + 1) /\ r + 1 \in 0 .. w - 1
    BY <1>1, <1>3
  <2>2. (x + 1) % w = r + 1
    BY <2>1, ModIs, Zenon
  <2>3. QED
    BY <1>1, <1>3, <2>2, Zenon
<1>4. QED
  BY <1>2, <1>3, Zenon

\* Adding to a wrapped counter is adding, then wrapping.
LEMMA ModAdd ==
  ASSUME NEW x \in Int, NEW k \in Int, NEW w \in Nat \ {0}
  PROVE  ((x % w) + k) % w = (x + k) % w
<1>1. PICK q \in Int, r \in 0 .. w - 1 : x = w * q + r /\ r = x % w
  BY DivMod, Zenon
<1>2. PICK p \in Int, s \in 0 .. w - 1 : r + k = w * p + s /\ s = (r + k) % w
  <2>1. r + k \in Int
    OBVIOUS
  <2>2. QED
    BY <2>1, DivMod, Zenon
<1>3. w * (q + p) = w * q + w * p
  OBVIOUS
<1>4. x + k = w * (q + p) + s /\ q + p \in Int /\ x + k \in Int
  BY <1>1, <1>2
<1>5. (x + k) % w = s
  BY <1>4, ModIs, Zenon
<1>6. QED
  BY <1>1, <1>2, <1>5, Zenon

\* The wrapped difference of two wrapped counters is their distance, if that is
\* below the modulus.
LEMMA ModDifference ==
  ASSUME NEW x \in Int, NEW y \in Int, NEW w \in Nat \ {0}, y <= x, x - y < w
  PROVE  ((x % w) - (y % w)) % w = x - y
<1>1. PICK q \in Int, r \in 0 .. w - 1 : x = w * q + r /\ r = x % w
  BY DivMod, Zenon
<1>2. PICK p \in Int, s \in 0 .. w - 1 : y = w * p + s /\ s = y % w
  BY DivMod, Zenon
<1>3. w * (p - q) = w * p - w * q
  OBVIOUS
<1>4. r - s = w * (p - q) + (x - y) /\ p - q \in Int /\ r - s \in Int /\ x - y \in 0 .. w - 1
  BY <1>1, <1>2
<1>5. (r - s) % w = x - y
  BY <1>4, ModIs, Zenon
<1>6. QED
  BY <1>1, <1>2, <1>5, Zenon

\* Numbers less than a ring apart have different positions in it.
LEMMA ModDistinct ==
  ASSUME NEW x \in Int, NEW y \in Int, NEW w \in Nat \ {0}, x % w = y % w, y <= x, x - y < w
  PROVE  x = y
<1>1. ((x % w) - (y % w)) % w = x - y
  BY ModDifference, Zenon
<1>2. x % w \in Int
  OBVIOUS
<1>3. 0 % w = 0
  OBVIOUS
<1>4. QED
  BY <1>1
-----------------------------------------------------------------------------

\* The counters and ring positions of both descriptors are the history modulo the
\* width of the counter and the length of the ring; recv_count may have an increment that
\* is not sent yet.
CountersInv ==
  /\ send_count = sent % CountRange
  /\ recv_count = (acked + added) % CountRange
  /\ send_recv_count = arrived % CountRange
  /\ send_ptr = sent % num_buf
  /\ recv_ptr = received % num_buf

\* Messages are acknowledged after they are received, received after they are sent,
\* and sent only while the source knows of a free buffer.  No acknowledgement is on its way
\* while the count has an increment that is not sent.
OrderInv ==
  /\ arrived <= acked /\ acked + acking <= received /\ received <= sent
  /\ sent - arrived <= num_buf
  /\ sending = "room" => sent - arrived < num_buf
  /\ added = 0 \/ (added = acking /\ dma["sink"] = NoTransfer)

\* During mp_send the free write buffer holds the next message.
WriteBufferInv ==
  /\ sending # "idle" => \A w \in Word : wbuf[write_buf][w] = sent + 1
  /\ sending = "room" => wbuf[write_buf][Flag] = VALID

\* The message in the DMA is the last one sent, is complete in the other write
\* buffer, and has been copied up to the next word.
TransferInv ==
  MessageInDma =>
    LET t == dma["source"]
    IN  /\ t.from = 1 - write_buf /\ received < sent /\ t.to = SlotOf(sent)
        /\ \A w \in Word : wbuf[t.from][w] = sent
        /\ wbuf[t.from][Flag] = VALID
        /\ \A w \in Word : w < t.next => rbuf[t.to][w] = sent
        /\ rbuf[t.to][Flag] = INVALID

\* Message k is complete in its receive buffer, with the flag.
Arrived(k) == Holds(k) /\ rbuf[SlotOf(k)][Flag] = VALID

\* Messages not yet received are complete, except for the one in the DMA.
PendingInv == \A k \in received + 1 .. sent : Arrived(k) \/ (k = sent /\ MessageInDma)

\* Messages received and not given back are intact; read_buf is the last of them.
HeldInv ==
  /\ \A k \in acked + 1 .. received : Holds(k)
  /\ 0 < received => read_buf = SlotOf(received)

\* No other flag is set.
FlagInv ==
  \A s \in Slot : rbuf[s][Flag] # INVALID => \E k \in received + 1 .. sent : s = SlotOf(k)

\* The inductive invariant.
IInv ==
  /\ TypeOK /\ CountersInv /\ OrderInv /\ WriteBufferInv
  /\ TransferInv /\ PendingInv /\ HeldInv /\ FlagInv
-----------------------------------------------------------------------------
\* Every message has a receive buffer.
LEMMA SlotType == ASSUME NEW k \in Int
                  PROVE  SlotOf(k) \in Slot
  BY BufAssumption DEF SlotOf, Slot

\* Messages less than num_buf apart have different receive buffers.
LEMMA SlotDistinct ==
  ASSUME NEW j \in Int, NEW k \in Int, j <= k, k - j < num_buf, SlotOf(j) = SlotOf(k)
  PROVE  j = k
<1>1. j - 1 \in Int /\ k - 1 \in Int /\ j - 1 <= k - 1 /\ (k - 1) - (j - 1) < num_buf
  OBVIOUS
<1>2. (k - 1) % num_buf = (j - 1) % num_buf /\ num_buf \in Nat \ {0}
  BY BufAssumption, Zenon DEF SlotOf
<1>3. k - 1 = j - 1
  BY <1>1, <1>2, ModDistinct, Zenon
<1>4. QED
  BY <1>3

\* The ring position before message k is sent or received is its buffer, and
\* Advance moves on to the next one.
LEMMA RingPosition ==
  ASSUME NEW k \in Nat
  PROVE  /\ k % num_buf = SlotOf(k + 1)
         /\ Advance(k % num_buf) = (k + 1) % num_buf
<1>1. (k + 1) - 1 = k
  OBVIOUS
<1>2. num_buf \in Nat \ {0} /\ k \in Int
  BY BufAssumption
<1>3. (k + 1) % num_buf = IF k % num_buf = num_buf - 1 THEN 0 ELSE (k % num_buf) + 1
  BY <1>2, ModIncrement, Zenon
<1>4. QED
  BY <1>1, <1>3, Zenon DEF SlotOf, Advance

\* Advance stays within the ring.
LEMMA AdvanceType == ASSUME NEW s \in Slot
                     PROVE  Advance(s) \in Slot
  BY BufAssumption DEF Advance, Slot

\* Writing a word into a receive buffer leaves receive buffers.
LEMMA WordWritten ==
  ASSUME rbuf \in [Slot -> Block], NEW s \in Slot, NEW w \in 1 .. Flag, NEW v \in Nat \cup {VALID}
  PROVE  [rbuf EXCEPT ![s][w] = v] \in [Slot -> Block]
  BY Zenon DEF Block

\* A counter stays within its width.
LEMMA CounterType == ASSUME NEW k \in Int
                     PROVE  k % CountRange \in Counter
  BY BufAssumption DEF Counter

\* Every step of the port keeps the types.
LEMMA TypeStep == TypeOK /\ [Next]_vars => TypeOK'
<1> SUFFICES ASSUME TypeOK, [Next]_vars
             PROVE  TypeOK'
  OBVIOUS
<1> USE BufAssumption, ChannelAssumption, TransferAssumption
    DEF TypeOK, noc_write, noc_dma_done, source, sink, counts
<1>1. CASE Write
  BY <1>1 DEF Write, Block, Flag, Word
<1>2. CASE SendCheck
  BY <1>2, Zenon DEF SendCheck, Block
<1>3. CASE SendWrite
  <2>1. dma' = [ch \in Channel |-> dma'[ch]] /\ dma'["sink"] = dma["sink"] /\ dma'["source"] \in DataTransfer
    BY <1>3 DEF SendWrite, DataTransfer, Flag
  <2>2. send_count' \in Counter /\ send_ptr' \in Slot /\ write_buf' \in {0, 1}
    <3>1. send_count + 1 \in Int
      BY DEF Counter
    <3>2. QED
      BY <1>3, <3>1, CounterType, AdvanceType DEF SendWrite
  <2>3. QED
    BY <1>3, <2>1, <2>2 DEF SendWrite
<1>4. CASE SendBusy
  BY <1>4, Zenon DEF SendBusy
<1>5. CASE SendRetry
  BY <1>5, Zenon DEF SendRetry
<1>6. CASE SendTimeout
  BY <1>6, Zenon DEF SendTimeout
<1>7. CASE Recv
  <2>1. rbuf' \in [Slot -> Block]
    <3>1. Flag \in 1 .. Flag /\ INVALID \in Nat \cup {VALID}
      BY DEF Flag, INVALID
    <3>2. QED
      BY <1>7, <3>1, WordWritten, Zenon DEF Recv
  <2>2. QED
    BY <1>7, <2>1, AdvanceType DEF Recv
<1>8. ASSUME NEW k \in 1 .. num_buf, AckCall(k)
      PROVE  TypeOK'
  BY <1>8 DEF AckCall
<1>9. CASE AckAdd \/ AckTakeBack
  <2>1. recv_count + acking \in Int /\ recv_count - acking \in Int
    BY DEF Counter
  <2>2. QED
    BY <1>9, <2>1, CounterType DEF AckAdd, AckTakeBack
<1>10. CASE AckWrite \/ AckTimeout
  BY <1>10 DEF AckWrite, AckTimeout
<1>11. CASE DeliverWord
  <2> DEFINE t == dma["source"]
  <2>1. t \in DataTransfer
    BY <1>11, Zenon DEF DeliverWord, MessageInDma
  <2>2. t.from \in {0, 1} /\ t.to \in Slot /\ t.next \in 1 .. Flag
    BY <2>1, Zenon DEF DataTransfer
  <2>3. wbuf[t.from][t.next] \in Nat \cup {VALID}
    BY <2>2, Zenon DEF Block
  <2>4. rbuf' \in [Slot -> Block]
    BY <1>11, <2>2, <2>3, WordWritten, Zenon DEF DeliverWord
  <2>5. t.next # Flag => [t EXCEPT !.next = t.next + 1] \in DataTransfer
    BY <2>1 DEF DataTransfer, Flag
  <2>6. /\ dma' = [ch \in Channel |-> dma'[ch]]
        /\ dma'["sink"] = dma["sink"]
        /\ dma'["source"] \in {NoTransfer} \cup DataTransfer
    BY <1>11, <2>5, Zenon DEF DeliverWord, DmaArrives
  <2>7. QED
    BY <1>11, <2>4, <2>6, Zenon DEF DeliverWord
<1>12. CASE DeliverCount
  BY <1>12, Zenon DEF DeliverCount, DmaArrives
<1>13. ASSUME NEW c \in Channel, OtherTransfer(c)
      PROVE  TypeOK'
  BY <1>13, Zenon DEF OtherTransfer
<1>14. ASSUME NEW c \in Channel, OtherArrives(c)
      PROVE  TypeOK'
  BY <1>14, Zenon DEF OtherArrives, DmaArrives
<1>15. CASE UNCHANGED vars
  BY <1>15, Zenon DEF vars
<1>16. QED
  BY <1>1, <1>2, <1>3, <1>4, <1>5, <1>6, <1>7, <1>8, <1>9, <1>10, <1>11, <1>12, <1>13, <1>14, <1>15, Zenon
     DEF Next, Sending, Acking
-----------------------------------------------------------------------------
\* The difference mp_nbsend computes from its two wrapped counters is the number of
\* messages whose acknowledgement has not arrived.
LEMMA RoomKnown ==
  ASSUME TypeOK, CountersInv, OrderInv
  PROVE  Outstanding = sent - arrived
<1>1. /\ sent \in Int /\ arrived \in Int /\ CountRange \in Nat \ {0}
      /\ arrived <= sent /\ sent - arrived < CountRange
  BY BufAssumption DEF TypeOK, OrderInv
<1>2. ((sent % CountRange) - (arrived % CountRange)) % CountRange = sent - arrived
  BY <1>1, ModDifference, Zenon
<1>3. QED
  BY <1>2, Zenon DEF CountersInv, Outstanding

\* Counting on a wrapped counter.
LEMMA CounterAdds ==
  ASSUME NEW x \in Nat, NEW k \in Nat
  PROVE  ((x % CountRange) + k) % CountRange = (x + k) % CountRange
<1>1. x \in Int /\ k \in Int /\ CountRange \in Nat \ {0}
  BY BufAssumption
<1>2. QED
  BY <1>1, ModAdd, Zenon

\* The flag is not a data word.
LEMMA FlagIsLast == Flag \notin Word /\ Flag \in 1 .. Flag /\ (\A w \in 1 .. Flag : w # Flag => w \in Word)
                    /\ \A w \in Word : w < Flag /\ w \in 1 .. Flag
  BY BufAssumption DEF Flag, Word

\* The source's steps preserve the invariant.
LEMMA SourceStep ==
  ASSUME IInv, TypeOK', Write \/ Sending \/ SendTimeout
  PROVE  IInv'
<1> USE BufAssumption, ChannelAssumption, TransferAssumption
    DEF IInv, noc_write, noc_dma_done, sink, counts
<1>1. CASE Write
  <2>1. WriteBufferInv'
    BY <1>1, FlagIsLast, Zenon DEF Write, WriteBufferInv, TypeOK
  <2>2. TransferInv'
    BY <1>1, SMTT(30) DEF Write, TransferInv, MessageInDma, TypeOK
  <2>3. CountersInv' /\ OrderInv' /\ PendingInv' /\ HeldInv' /\ FlagInv'
    BY <1>1, Zenon DEF Write, CountersInv, OrderInv, PendingInv, HeldInv, FlagInv, Arrived, Holds, MessageInDma
  <2>4. QED
    BY <2>1, <2>2, <2>3, Zenon
<1>2. CASE SendCheck
  <2>1. OrderInv'
    BY <1>2, RoomKnown DEF SendCheck, OrderInv, TypeOK
  <2>2. WriteBufferInv'
    BY <1>2, FlagIsLast, Zenon DEF SendCheck, WriteBufferInv, TypeOK, Block
  <2>3. TransferInv'
    BY <1>2 DEF SendCheck, TransferInv, MessageInDma
  <2>4. CountersInv' /\ PendingInv' /\ HeldInv' /\ FlagInv'
    BY <1>2, Zenon DEF SendCheck, CountersInv, PendingInv, HeldInv, FlagInv, Arrived, Holds, MessageInDma
  <2>5. QED
    BY <2>1, <2>2, <2>3, <2>4, Zenon
<1>3. CASE SendWrite
  <2>1. /\ dma["source"] = NoTransfer /\ dma'["source"] = [from |-> write_buf, to |-> send_ptr, next |-> 1]
        /\ ~ MessageInDma /\ MessageInDma'
    BY <1>3 DEF SendWrite, MessageInDma, TypeOK, DataTransfer, Flag
  <2>2. send_ptr = SlotOf(sent + 1) /\ send_ptr \in Slot
    BY RingPosition, Zenon DEF CountersInv, TypeOK
  <2>3. CountersInv'
    BY <1>3, CounterAdds, RingPosition, Zenon DEF SendWrite, CountersInv, TypeOK
  <2>4. OrderInv'
    BY <1>3 DEF SendWrite, OrderInv, TypeOK
  <2>5. rbuf[send_ptr][Flag] = INVALID
    <3>1. ASSUME NEW k \in received + 1 .. sent, send_ptr = SlotOf(k)
          PROVE  FALSE
      BY <1>3, <2>2, <3>1, SlotDistinct DEF SendWrite, OrderInv, TypeOK
    <3>2. QED
      BY <2>2, <3>1, Zenon DEF FlagInv
  <2>6. TransferInv'
    BY <1>3, <2>2, <2>5 DEF SendWrite, TransferInv, WriteBufferInv, OrderInv, Word, TypeOK
  <2>7. PendingInv'
    BY <1>3, <2>1 DEF SendWrite, PendingInv, Arrived, Holds, TypeOK
  <2>8. WriteBufferInv' /\ HeldInv' /\ FlagInv'
    BY <1>3 DEF SendWrite, WriteBufferInv, HeldInv, FlagInv, Holds, TypeOK
  <2>9. QED
    BY <2>3, <2>4, <2>6, <2>7, <2>8, Zenon
<1>4. CASE SendBusy \/ SendRetry \/ SendTimeout
  BY <1>4, Zenon
     DEF SendBusy, SendRetry, SendTimeout, CountersInv, OrderInv, WriteBufferInv, TransferInv, PendingInv,
         HeldInv, FlagInv, Arrived, Holds, SlotOf, MessageInDma
<1>5. QED
  BY <1>1, <1>2, <1>3, <1>4, Zenon DEF Sending

\* mp_nbrecv and the acknowledging calls of the sink preserve the invariant.
LEMMA SinkStep ==
  ASSUME IInv, TypeOK', Recv \/ Acking \/ AckAdd \/ AckWrite \/ AckTimeout \/ AckTakeBack
  PROVE  IInv'
<1> USE BufAssumption, ChannelAssumption, TransferAssumption
    DEF IInv, noc_write, noc_dma_done, source, counts
<1>1. CASE Recv
  <2>1. recv_ptr = SlotOf(received + 1) /\ recv_ptr \in Slot /\ rbuf[recv_ptr][Flag] # INVALID
    BY <1>1, RingPosition, Zenon DEF CountersInv, TypeOK, Recv
  <2>2. received + 1 \in received + 1 .. sent
    BY <2>1 DEF FlagInv, TypeOK
  <2>3. MessageInDma => received + 1 # sent
    BY <2>1, Zenon DEF TransferInv
  <2>4. Arrived(received + 1)
    BY <2>2, <2>3, Zenon DEF PendingInv
  <2>5. \A k \in received + 2 .. sent : SlotOf(k) # recv_ptr
    BY <2>1, SlotDistinct DEF OrderInv, TypeOK
  <2>6. /\ received' = received + 1 /\ read_buf' = recv_ptr /\ UNCHANGED <<dma, sent, acked, arrived, wbuf>>
        /\ MessageInDma' = MessageInDma
        /\ \A s \in Slot, w \in 1 .. Flag :
             rbuf'[s][w] = IF s = recv_ptr /\ w = Flag THEN INVALID ELSE rbuf[s][w]
    BY <1>1, Zenon DEF Recv, TypeOK, Block, MessageInDma
  <2>7. CountersInv'
    BY <1>1, RingPosition, Zenon DEF Recv, CountersInv, TypeOK
  <2>8. OrderInv'
    BY <1>1, <2>2 DEF Recv, OrderInv, TypeOK
  <2>9. TransferInv'
    BY <1>1, <2>3, <2>6, SMTT(30) DEF Recv, TransferInv, TypeOK
  <2>10. PendingInv'
    <3>1. ASSUME NEW k \in received + 2 .. sent, Arrived(k)
          PROVE  Arrived(k)'
      <4>1. SlotOf(k) # recv_ptr /\ SlotOf(k) \in Slot
        BY <2>5, SlotType
      <4>2. QED
        BY <2>6, <3>1, <4>1, FlagIsLast, Zenon DEF Arrived, Holds
    <3>2. \A k \in received + 2 .. sent : Arrived(k) \/ (k = sent /\ MessageInDma)
      BY DEF PendingInv, TypeOK
    <3>3. received' + 1 = received + 2
      BY <2>6 DEF TypeOK
    <3>4. QED
      BY <2>6, <3>1, <3>2, <3>3, Zenon DEF PendingInv
  <2>11. HeldInv'
    <3>1. ASSUME NEW k \in acked + 1 .. received + 1
          PROVE  Holds(k)'
      <4>1. Holds(k) /\ SlotOf(k) \in Slot
        BY <2>4, SlotType DEF HeldInv, Arrived, TypeOK
      <4>2. QED
        BY <2>6, <4>1, FlagIsLast, Zenon DEF Holds
    <3>2. QED
      BY <2>1, <2>6, <3>1, Zenon DEF HeldInv
  <2>12. FlagInv'
    BY <2>1, <2>6, FlagIsLast DEF FlagInv, TypeOK
  <2>13. WriteBufferInv'
    BY <1>1, Zenon DEF Recv, WriteBufferInv
  <2>14. QED
    BY <2>7, <2>8, <2>9, <2>10, <2>11, <2>12, <2>13, Zenon
<1>2. CASE Acking
  <2>1. OrderInv'
    BY <1>2 DEF Acking, AckCall, OrderInv, TypeOK
  <2>2. QED
    BY <1>2, <2>1, Zenon
       DEF Acking, AckCall, CountersInv, WriteBufferInv, TransferInv, PendingInv, HeldInv, FlagInv, Arrived,
           Holds, MessageInDma
<1>3. CASE AckWrite
  <2>1. dma'["source"] = dma["source"]
    BY <1>3, Zenon DEF AckWrite, TypeOK
  <2>2. CountersInv'
    <3>1. added = acking /\ added' = 0 /\ acked' = acked + acking
      BY <1>3, Zenon DEF AckWrite, OrderInv
    <3>2. acked' + added' = acked + added
      BY <3>1 DEF TypeOK
    <3>3. QED
      BY <1>3, <3>2, Zenon DEF AckWrite, CountersInv
  <2>3. OrderInv'
    BY <1>3 DEF AckWrite, OrderInv, TypeOK
  <2>4. HeldInv'
    BY <1>3 DEF AckWrite, HeldInv, Holds, TypeOK
  <2>5. WriteBufferInv' /\ TransferInv' /\ PendingInv' /\ FlagInv'
    BY <1>3, <2>1, Zenon
       DEF AckWrite, WriteBufferInv, TransferInv, PendingInv, FlagInv, Arrived, Holds, MessageInDma
  <2>6. QED
    BY <2>2, <2>3, <2>4, <2>5, Zenon
<1>4. CASE AckTimeout
  BY <1>4
     DEF AckTimeout, CountersInv, OrderInv, WriteBufferInv, TransferInv, PendingInv, HeldInv, FlagInv, Arrived,
         Holds, MessageInDma, TypeOK
<1>5. CASE AckAdd \/ AckTakeBack
  <2>1. CASE AckAdd
    <3>1. ((acked % CountRange) + acking) % CountRange = (acked + acking) % CountRange
      <4>1. acked \in Nat /\ acking \in Nat
        BY DEF TypeOK
      <4>2. QED
        BY <4>1, CounterAdds, Zenon
    <3>2. acked + added = acked
      BY <2>1 DEF AckAdd, TypeOK
    <3>3. CountersInv'
      BY <2>1, <3>1, <3>2, Zenon DEF AckAdd, CountersInv
    <3>5. OrderInv'
      BY <2>1, Zenon DEF AckAdd, OrderInv
    <3>4. QED
      BY <2>1, <3>3, <3>5, Zenon
         DEF AckAdd, WriteBufferInv, TransferInv, PendingInv, HeldInv, FlagInv, Arrived, Holds, MessageInDma
  <2>2. CASE AckTakeBack
    <3>1. (((acked + acking) % CountRange) - acking) % CountRange = acked % CountRange
      <4> DEFINE x == acked + acking  k == -acking
      <4>1. x \in Int /\ k \in Int /\ CountRange \in Nat \ {0} /\ x + k = acked
        BY DEF TypeOK
      <4> HIDE DEF x, k
      <4>2. ((x % CountRange) + k) % CountRange = acked % CountRange
        BY <4>1, ModAdd, Zenon
      <4>3. x % CountRange \in Int /\ acking \in Int
        BY <4>1 DEF TypeOK
      <4>4. (x % CountRange) + k = (x % CountRange) - acking
        BY <4>3 DEF k
      <4>5. QED
        BY <4>2, <4>4, Zenon DEF x
    <3>5. added = acking /\ added' = 0 /\ acked' = acked
      BY <2>2, Zenon DEF AckTakeBack, OrderInv
    <3>6. acked' + added' = acked
      BY <3>5 DEF TypeOK
    <3>2. CountersInv'
      BY <2>2, <3>1, <3>5, <3>6, Zenon DEF AckTakeBack, CountersInv
    <3>3. OrderInv'
      BY <2>2 DEF AckTakeBack, OrderInv, TypeOK
    <3>4. QED
      BY <2>2, <3>2, <3>3, Zenon
         DEF AckTakeBack, WriteBufferInv, TransferInv, PendingInv, HeldInv, FlagInv, Arrived, Holds, MessageInDma
  <2>3. QED
    BY <1>5, <2>1, <2>2, Zenon
<1>6. QED
  BY <1>1, <1>2, <1>3, <1>4, <1>5, Zenon

\* The DMA engines preserve the invariant.
LEMMA NetworkStep ==
  ASSUME IInv, TypeOK', DeliverWord \/ DeliverCount \/ \E core \in Channel : OtherTransfer(core) \/ OtherArrives(core)
  PROVE  IInv'
<1> USE BufAssumption, ChannelAssumption, TransferAssumption
    DEF IInv, noc_write, noc_dma_done, DmaArrives, source, sink, counts
<1>1. CASE DeliverWord
  <2> DEFINE t == dma["source"]
  <2>1. /\ t \in DataTransfer /\ t.to = SlotOf(sent) /\ t.to \in Slot /\ t.next \in 1 .. Flag
        /\ \A w \in Word : wbuf[t.from][w] = sent
        /\ wbuf[t.from][Flag] = VALID /\ received < sent
    BY <1>1, Zenon DEF DeliverWord, TransferInv, TypeOK, MessageInDma, DataTransfer
  <2>2. \A s \in Slot, w \in 1 .. Flag :
          rbuf'[s][w] = IF s = t.to /\ w = t.next THEN wbuf[t.from][w] ELSE rbuf[s][w]
    BY <1>1, Zenon DEF DeliverWord, TypeOK, Block
  <2>3. \A k \in acked + 1 .. sent : k # sent => SlotOf(k) # t.to
    BY <2>1, SlotDistinct DEF OrderInv, TypeOK
  <2>4. UNCHANGED <<source, sink, counts>>
    BY <1>1, Zenon DEF DeliverWord
  <2>10. OrderInv'
    <3>1. dma'["sink"] = dma["sink"]
      BY <1>1, Zenon DEF DeliverWord, TypeOK, DmaArrives
    <3>2. QED
      BY <2>4, <3>1, Zenon DEF OrderInv, sink, source, counts
  <2>5. HeldInv'
    BY <2>1, <2>2, <2>3, <2>4, SlotType, FlagIsLast DEF HeldInv, Holds, TypeOK
  <2>6. \A k \in received + 1 .. sent : k # sent => Arrived(k)'
    <3>1. ASSUME NEW k \in received + 1 .. sent, k # sent
          PROVE  Arrived(k)'
      <4>1. Arrived(k) /\ SlotOf(k) # t.to /\ SlotOf(k) \in Slot
        BY <2>3, <3>1, SlotType DEF PendingInv, OrderInv, TypeOK
      <4>2. QED
        BY <2>2, <4>1, FlagIsLast DEF Arrived, Holds
    <3>2. QED
      BY <3>1, Zenon
  <2>7. CASE t.next # Flag
    <3>1. dma'["source"] = [t EXCEPT !.next = t.next + 1] /\ MessageInDma' /\ t.next \in Word
      <4>1. dma'["source"] = [t EXCEPT !.next = t.next + 1] /\ t.next \in Word
        BY <1>1, <2>1, <2>7, FlagIsLast, Zenon DEF DeliverWord, TypeOK
      <4>2. [t EXCEPT !.next = t.next + 1] \in DataTransfer
        BY <2>1, <4>1 DEF DataTransfer, Flag, Word
      <4>3. QED
        BY <4>1, <4>2, Zenon DEF MessageInDma
    <3>2. TransferInv'
      BY <1>1, <2>1, <2>2, <2>4, <3>1, FlagIsLast, SMTT(30) DEF TransferInv, DeliverWord, SlotOf, DataTransfer, Word
    <3>3. PendingInv'
      BY <2>4, <2>6, <3>1, Zenon DEF PendingInv
    <3>4. FlagInv'
      BY <2>2, <2>4, <2>7, FlagIsLast, Zenon DEF FlagInv
    <3>5. QED
      BY <2>4, <2>5, <2>10, <3>2, <3>3, <3>4, Zenon DEF CountersInv, WriteBufferInv
  <2>8. CASE t.next = Flag
    <3>1. ~ MessageInDma'
      BY <1>1, <2>8, Zenon DEF DeliverWord, MessageInDma, TypeOK
    <3>2. Arrived(sent)'
      BY <1>1, <2>1, <2>2, <2>8, FlagIsLast DEF DeliverWord, TransferInv, Arrived, Holds
    <3>3. PendingInv'
      BY <2>4, <2>6, <3>2, Zenon DEF PendingInv
    <3>4. FlagInv'
      BY <2>1, <2>2, <2>4, FlagIsLast DEF FlagInv, TypeOK
    <3>5. QED
      BY <2>4, <2>5, <2>10, <3>1, <3>3, <3>4, Zenon DEF TransferInv, CountersInv, WriteBufferInv
  <2>9. QED
    BY <2>7, <2>8, Zenon
<1>2. CASE DeliverCount
  <2>1. dma'["source"] = dma["source"]
    BY <1>2, Zenon DEF DeliverCount, TypeOK
  <2>2. CountersInv' /\ OrderInv'
    BY <1>2 DEF DeliverCount, CountersInv, OrderInv, TypeOK
  <2>3. QED
    BY <1>2, <2>1, <2>2, Zenon
       DEF DeliverCount, WriteBufferInv, TransferInv, PendingInv, HeldInv, FlagInv, Arrived, Holds, MessageInDma
<1>3. ASSUME NEW core \in Channel, OtherTransfer(core) \/ OtherArrives(core)
      PROVE  IInv'
  <2>1. /\ UNCHANGED <<source, sink, counts, rbuf>>
        /\ MessageInDma' = MessageInDma /\ (MessageInDma => dma'["source"] = dma["source"])
    BY <1>3 DEF OtherTransfer, OtherArrives, MessageInDma, TypeOK
  <2>2. OrderInv'
    <3>1. added = 0 \/ dma'["sink"] = NoTransfer
      BY <1>3, ChannelAssumption DEF OtherTransfer, OtherArrives, DmaArrives, noc_write, OrderInv, TypeOK
    <3>2. QED
      BY <2>1, <3>1, Zenon DEF OrderInv
  <2>3. QED
    BY <2>1, <2>2, Zenon
       DEF CountersInv, WriteBufferInv, TransferInv, PendingInv, HeldInv, FlagInv, Arrived, Holds
<1>4. QED
  BY <1>1, <1>2, <1>3, Zenon

\* The invariant is inductive.
LEMMA QueuingInvariant == Spec => []IInv
<1>1. Init => IInv
  BY BufAssumption, ChannelAssumption, FlagIsLast
     DEF Init, NocInit, IInv, TypeOK, CountersInv, OrderInv, WriteBufferInv, TransferInv, PendingInv, HeldInv,
         FlagInv, MessageInDma, Counter, Slot, Block, INVALID
<1>2. IInv /\ [Next]_vars => IInv'
  <2> SUFFICES ASSUME IInv, [Next]_vars
               PROVE  IInv'
    OBVIOUS
  <2>1. TypeOK'
    BY TypeStep, Zenon DEF IInv
  <2>2. CASE UNCHANGED vars
    BY <2>2, ZenonT(30) DEF IInv, vars, source, sink, counts, TypeOK, CountersInv, OrderInv, WriteBufferInv, TransferInv,
                PendingInv, HeldInv, FlagInv, Arrived, Holds, SlotOf, MessageInDma
  <2>3. QED
    BY <2>1, <2>2, SourceStep, SinkStep, NetworkStep, Zenon DEF Next
<1>3. QED
  BY <1>1, <1>2, PTL DEF Spec
-----------------------------------------------------------------------------
\* The descriptors and buffers of a queuing port keep their types.
THEOREM QueuingTypeCorrect == Spec => []TypeOK
<1>1. IInv => TypeOK
  BY Zenon DEF IInv
<1>2. QED
  BY <1>1, QueuingInvariant, PTL

\* Received messages are not overwritten before mp_ack gives them back.
THEOREM ReceivedStayIntact == Spec => []ReceivedIntact
<1>1. IInv => ReceivedIntact
  BY DEF IInv, HeldInv, ReceivedIntact, TypeOK
<1>2. QED
  BY <1>1, QueuingInvariant, PTL

\* mp_nbrecv accepts exactly the next message, complete.
THEOREM RecvAcceptsNext == Spec => []FlagMeansNext
<1>1. IInv => FlagMeansNext
  <2> SUFFICES ASSUME IInv, rbuf[recv_ptr][Flag] # INVALID
               PROVE  received < sent /\ recv_ptr = SlotOf(received + 1) /\ Holds(received + 1)
    BY Zenon DEF FlagMeansNext
  <2>1. recv_ptr = SlotOf(received + 1) /\ recv_ptr \in Slot
    BY RingPosition, Zenon DEF IInv, CountersInv, TypeOK
  <2>2. received + 1 \in received + 1 .. sent
    BY DEF IInv, FlagInv, TypeOK
  <2>3. Arrived(received + 1)
    BY <2>1, <2>2, Zenon DEF IInv, PendingInv, TransferInv
  <2>4. QED
    BY <2>1, <2>2, <2>3 DEF Arrived, IInv, TypeOK
<1>2. QED
  BY <1>1, QueuingInvariant, PTL

\* A message for which mp_nbsend returned 1 is never lost.
THEOREM SentIsNotLost == Spec => []NothingLost
<1>1. IInv => NothingLost
  BY Zenon DEF IInv, PendingInv, Arrived, TransferInv, NothingLost
<1>2. QED
  BY <1>1, QueuingInvariant, PTL

\* The flow control of mp_nbsend never overestimates the room in the queue.
THEOREM FlowControl == Spec => []RoomIsReal
<1>1. IInv => RoomIsReal
  BY RoomKnown DEF IInv, RoomIsReal, OrderInv, TypeOK
<1>2. QED
  BY <1>1, QueuingInvariant, PTL

\* The application never writes into the buffer the DMA is reading.
THEOREM WriteBufferIsFree == Spec => []WriteBufferFree
<1>1. IInv => WriteBufferFree
  <2>1. IInv => write_buf \in {0, 1} /\ TransferInv
    BY Zenon DEF IInv, TypeOK
  <2>2. QED
    BY <2>1 DEF TransferInv, WriteBufferFree
<1>2. QED
  BY <1>1, QueuingInvariant, PTL
=============================================================================
