-------------------------------- MODULE Boot ---------------------------------
(***************************************************************************)
(* The start of an application on all cores and the return from it: main   *)
(* of c/bootloader/bootloader.c, with noc_sync of c/libnoc/noc.c, which    *)
(* runs as a constructor of applications that use the network.  The cores  *)
(* meet through boot_info in main memory; one action is one access to it.  *)
(*                                                                         *)
(* The handshake relies on time in four places, where the code has a delay *)
(* or a long operation in its stead.  They are the guards named InTime...  *)
(***************************************************************************)
EXTENDS Integers

CONSTANTS LastCore,   \* cores are 0 .. LastCore, the master is core 0
          MaxRounds,  \* bound: applications run one after the other
          NocRounds   \* the rounds whose application uses the network

BootCore == 0 .. LastCore
Slave == 1 .. LastCore
NULL == 0             \* no entry point; the application of round r has entry point r

ASSUME BootAssumption == LastCore \in Nat \ {0} /\ MaxRounds \in Nat /\ NocRounds \subseteq Nat

VARIABLES bpc,         \* position of each core
          status,     \* boot_info->master.status (core 0) and slave[i].status
          entrypoint, \* boot_info->master.entrypoint
          i,          \* the master's loop variable
          round,      \* how often each core has come to the start of main, from 1
          ran         \* the entry point each core has called in its round

bootvars == <<bpc, status, entrypoint, i, round, ran>>

\* Power up: boot_info holds anything, here what an earlier run left.
BootInit ==
  /\ bpc = [c \in BootCore |-> "delay"]
  /\ status \in {[c \in BootCore |-> s] : s \in {"NULL", "BOOT", "INIT", "RETURN"}}
  /\ entrypoint \in {NULL, MaxRounds + 1}
  /\ i = 1
  /\ round = [c \in BootCore |-> 1]
  /\ ran = [c \in BootCore |-> NULL]

Go(c, from, to) == bpc[c] = from /\ bpc' = [bpc EXCEPT ![c] = to]

\* Core c writes s to the status word of core d.
Put(c, from, to, d, s) ==
  /\ Go(c, from, to)
  /\ status' = [status EXCEPT ![d] = s]
  /\ UNCHANGED <<entrypoint, i, round, ran>>

\* Core c goes on when the condition on what it reads holds.
Await(c, from, to, condition) ==
  /\ condition
  /\ Go(c, from, to)
  /\ UNCHANGED <<status, entrypoint, i, round, ran>>

\* One iteration of a loop of the master over the slaves: leave the loop after the last.
EachSlave(from, to) ==
  /\ bpc[0] = from
  /\ i' = IF i = LastCore THEN 1 ELSE i + 1
  /\ bpc' = [bpc EXCEPT ![0] = IF i = LastCore THEN to ELSE from]
  /\ UNCHANGED <<entrypoint, round, ran>>
-----------------------------------------------------------------------------
\* The delay of 1 ms is longer than it takes the other slaves to see the master's RETURN.
InTimeReturn == \A d \in Slave : bpc[d] \notin {"say_return", "see_return"}

\* All cores leave reset together: when the master has cleared the slaves' entries, each
\* slave has cleared the master's.
InTimeBoot == \A d \in Slave : bpc[d] \in {"say_boot", "see_boot"}

\* The download takes longer than a slave needs to see the master's BOOT.
InTimeDownload == \A d \in Slave : bpc[d] = "wait_init"

\* The start-up code of an application takes longer than the master needs to see the INIT
\* of all slaves.  There is no such code after a failed download.
InTimeStart == bpc[0] # "await_init"

Delay(c) == round[c] <= MaxRounds /\ Await(c, "delay", "clear_status", InTimeReturn)

\* Every core overwrites leftovers in the master's entry.
ClearStatus(c) == Put(c, "clear_status", "clear_entry", 0, "NULL")

ClearEntry(c) ==
  /\ Go(c, "clear_entry", IF c = 0 THEN "clear_slaves" ELSE "clear_own")
  /\ entrypoint' = NULL
  /\ UNCHANGED <<status, i, round, ran>>
-----------------------------------------------------------------------------
ClearSlaves == EachSlave("clear_slaves", "boot") /\ status' = [status EXCEPT ![i] = "NULL"]

WriteBoot == InTimeBoot /\ Put(0, "boot", "download", 0, "BOOT")

\* download returns the entry point, or NULL after a wrong checksum.
Download ==
  /\ InTimeDownload
  /\ Go(0, "download", "send_init")
  /\ entrypoint' \in {NULL, round[0]}
  /\ UNCHANGED <<status, i, round, ran>>

SendInit == Put(0, "send_init", "await_init", 0, "INIT")

\* Mutant: the master does not wait for the slaves.
AwaitInitSkipped == EachSlave("await_init", "call") /\ UNCHANGED status

AwaitInit == EachSlave("await_init", "call") /\ status[i] = "INIT" /\ UNCHANGED status
-----------------------------------------------------------------------------
ClearOwn(c) == Put(c, "clear_own", "say_boot", c, "NULL")

SayBoot(c) == Put(c, "say_boot", "see_boot", c, "BOOT")

SeeBoot(c) ==
  \/ Await(c, "see_boot", "wait_init", status[0] = "BOOT")
  \/ Await(c, "see_boot", "say_boot", status[0] # "BOOT")

WaitInit(c) == Await(c, "wait_init", "ack_init", status[0] = "INIT")

AckInit(c) == Put(c, "ack_init", "call", c, "INIT")
-----------------------------------------------------------------------------
Finish(c) == IF c = 0 THEN "await_return" ELSE "say_return"

\* Call the entry point, unless it is NULL; the first thing an application that uses the
\* network does is noc_sync.
Call(c) ==
  /\ Go(c, "call", IF entrypoint = NULL THEN Finish(c)
                   ELSE IF entrypoint \in NocRounds THEN IF c = 0 THEN "sync" ELSE "sync_say"
                   ELSE "app")
  /\ ran' = [ran EXCEPT ![c] = entrypoint]
  /\ UNCHANGED <<status, entrypoint, i, round>>

Return(c) == Await(c, "app", Finish(c), InTimeStart)

\* Mutant: one pass over the slaves, whatever they say.
SyncOnce == EachSlave("sync", "sync_start") /\ UNCHANGED status

\* noc_sync on the master: pass over the slaves until all are done in one pass.  A pass
\* that has met a slave that is not done is repeated whatever it meets next, so it starts
\* again at once.
Sync ==
  \/ EachSlave("sync", "sync_start") /\ status[i] \in {"NULL", "INITDONE"} /\ UNCHANGED status
  \/ /\ bpc[0] = "sync" /\ status[i] \notin {"NULL", "INITDONE"}
     /\ i' = 1
     /\ UNCHANGED <<bpc, status, entrypoint, round, ran>>

SyncStart == Put(0, "sync_start", "app", 0, "INITDONE")

\* noc_sync on a slave.
SyncSay(c) == InTimeStart /\ Put(c, "sync_say", "sync_wait", c, "INITDONE")
SyncWait(c) == Await(c, "sync_wait", "app", status[0] = "INITDONE")
-----------------------------------------------------------------------------
\* Mutant: the master goes on before the slaves have returned.
AwaitReturnSkipped == EachSlave("await_return", "send_return") /\ UNCHANGED status

AwaitReturn ==
  EachSlave("await_return", "send_return") /\ status[i] \in {"NULL", "RETURN"} /\ UNCHANGED status

SendReturn == Put(0, "send_return", "see_off", 0, "RETURN")

SayReturn(c) == Put(c, "say_return", "see_return", c, "RETURN")

SeeReturn(c) ==
  \/ Await(c, "see_return", "bye", status[0] = "RETURN")
  \/ Await(c, "see_return", "say_return", status[0] # "RETURN")

\* Loop back to the start of main.
LoopBack(c) == round' = [round EXCEPT ![c] = @ + 1] /\ ran' = [ran EXCEPT ![c] = NULL]

\* Mutant: the slave does not reset its status.
ByeSilent(c) == Go(c, "bye", "delay") /\ LoopBack(c) /\ UNCHANGED <<status, entrypoint, i>>

Bye(c) ==
  /\ Go(c, "bye", "delay")
  /\ status' = [status EXCEPT ![c] = "NULL"]
  /\ LoopBack(c)
  /\ UNCHANGED <<entrypoint, i>>

\* The master waits until every slave has seen RETURN.
SeeOff ==
  /\ bpc[0] = "see_off" /\ status[i] # "RETURN"
  /\ i' = IF i = LastCore THEN 1 ELSE i + 1
  /\ IF i = LastCore THEN bpc' = [bpc EXCEPT ![0] = "delay"] /\ LoopBack(0)
     ELSE UNCHANGED <<bpc, round, ran>>
  /\ UNCHANGED <<status, entrypoint>>
-----------------------------------------------------------------------------
AnyCore(c) == Delay(c) \/ ClearStatus(c) \/ ClearEntry(c) \/ Call(c) \/ Return(c)
Master ==
  \/ AnyCore(0) \/ ClearSlaves \/ WriteBoot \/ Download \/ SendInit \/ AwaitInit \/ Sync
  \/ SyncStart \/ AwaitReturn \/ SendReturn \/ SeeOff
SlaveStep(c) ==
  \/ AnyCore(c) \/ ClearOwn(c) \/ SayBoot(c) \/ SeeBoot(c) \/ WaitInit(c) \/ AckInit(c)
  \/ SyncSay(c) \/ SyncWait(c) \/ SayReturn(c) \/ SeeReturn(c) \/ Bye(c)

BootNext == Master \/ \E c \in Slave : SlaveStep(c)

BootSpec == BootInit /\ [][BootNext]_bootvars

\* Every core runs; applications return.
BootFairSpec == BootSpec /\ WF_bootvars(Master) /\ \A c \in Slave : WF_bootvars(SlaveStep(c))
-----------------------------------------------------------------------------
Locations ==
  {"delay", "clear_status", "clear_entry", "clear_slaves", "boot", "download", "send_init",
   "await_init", "clear_own", "say_boot", "see_boot", "wait_init", "ack_init", "call", "app",
   "sync", "sync_start", "sync_say", "sync_wait", "await_return", "send_return", "say_return",
   "see_return", "bye", "see_off"}

\* Positions and the words of boot_info have their types.
BootTypeOK ==
  /\ bpc \in [BootCore -> Locations]
  /\ status \in [BootCore -> {"NULL", "BOOT", "INIT", "INITDONE", "RETURN"}]
  /\ entrypoint \in 0 .. MaxRounds + 1 /\ i \in Slave
  /\ round \in [BootCore -> 1 .. MaxRounds + 1] /\ ran \in [BootCore -> 0 .. MaxRounds + 1]

InApplication(c) == bpc[c] \in {"app", "sync", "sync_start", "sync_say", "sync_wait"}

\* Every core that calls an entry point calls the one downloaded in this round, and the
\* cores agree whether there is one: no core runs a leftover of an earlier round or is
\* left out because another core cleared boot_info under it.
SameApplication ==
  /\ \A c \in BootCore : InApplication(c) => ran[c] = round[c]
  /\ \A c, d \in BootCore :
       InApplication(c) /\ round[c] = round[d] /\ bpc[d] \in {"await_return", "say_return"} => ran[d] = ran[c]

\* While a core runs the application every other core is in the same round and has its
\* code: none is still booting and none has looped back.  The master comes last: it calls
\* the application only when each slave has seen the start signal.
RunTogether ==
  \A c, d \in BootCore :
    InApplication(c) =>
      /\ round[d] = round[c]
      /\ bpc[d] \notin {"delay", "clear_status", "clear_entry", "clear_slaves", "clear_own", "boot",
                        "download", "say_boot", "see_boot"}
      /\ c = 0 => bpc[d] \notin {"wait_init", "ack_init"}

\* noc_sync is a barrier: when one core is past it, every core has configured its
\* network interface.
NetworkReady ==
  \A c, d \in BootCore :
    bpc[c] = "app" /\ ran[c] \in NocRounds =>
      bpc[d] \notin {"call", "wait_init", "ack_init", "sync_say"}

\* The master has told the slaves to start although there is nothing to start.
NoApplication == bpc[0] = "await_init" /\ entrypoint = NULL

\* Unless a download fails, every round ends on every core, and all loop back to download
\* the next application.
RoundsEnd == <>(NoApplication \/ \A c \in BootCore : round[c] = MaxRounds + 1)

\* After a failed download, too, the master comes back to the start of main.
FailedDownloadEnds == NoApplication ~> bpc[0] = "delay"
==============================================================================
