------------------------------ MODULE Sampling -------------------------------
(***************************************************************************)
(* A sampling port after mp_init_ports, c/libmp/sampling.c: mp_write       *)
(* replaces the sample at the reader, mp_read copies the newest one.  The  *)
(* file holds one implementation per value of IMPL; each is a pair of      *)
(* straight-line programs over the same few steps, so a program is a       *)
(* sequence of steps here and every step is an action.                     *)
(*                                                                         *)
(* The writer is core "source", the reader core "sink".  The lock between  *)
(* them is AbstractLock, which Lock implements.  Samples are numbered from *)
(* 1, and every word of a sample holds its number; 0 is memory that was    *)
(* never written.  The DMA and mem_copy move one word per step.            *)
(***************************************************************************)
EXTENDS Integers, Sequences

CONSTANTS Impls,       \* the implementations considered
          SampleWords,       \* words of a sample
          MaxWrites,   \* bound: samples the writer writes
          SmpIdle      \* contents of a DMA entry whose ACTIVE bit is clear

SampleWord == 1 .. SampleWords
End == {"source", "sink"}

VARIABLES
  IMPL,                    \* the implementation that was compiled; never changes
  smp_dma,                 \* the DMA entries of the two cores
  client,                  \* the lock, as AbstractLock describes it
  wpc, rpc,                \* position in mp_write and mp_read, 0 when not called
  next, reading,           \* the writer's spd_t
  newest, next_reading,    \* the reader's spd_t
  reading_seen, newest_seen, \* the local variables reading and newest
  bufs,                    \* memory at the sink: the read buffers and what precedes them
  sample, copied,          \* the reader's destination and how many words of it are copied
  \* history: writes begun and returned; the writes returned before this mp_read was
  \* called and the sample the last mp_read delivered, whichever is larger
  begun, returned, floor

\* mp_write and mp_read for each IMPL.  A "wait" is the spin on noc_dma_done.
mp_write ==
  CASE IMPL = "SINGLE_NOC" -> <<"lock", "send", "wait", "unlock">>
    [] IMPL = "DOUBLE_NOC" -> <<"send", "wait", "lock", "publish", "wait", "unlock", "advance">>
    [] IMPL = "DOUBLE_NOC_WR" -> <<"lock", "choose", "send", "wait", "publish", "wait", "unlock">>
    [] IMPL = "TRIPLE_NOC" -> <<"send", "wait", "lock", "publish", "wait", "look", "unlock", "advance">>
    [] IMPL = "MULTI_NOC_NONBLOCKING" -> <<"choose", "send", "wait", "publish", "wait">>

mp_read ==
  CASE IMPL = "SINGLE_NOC" -> <<"lock", "copy", "unlock">>
    [] IMPL = "DOUBLE_NOC" -> <<"lock", "fetch", "copy", "unlock">>
    [] IMPL \in {"DOUBLE_NOC_WR", "TRIPLE_NOC"} -> <<"lock", "fetch", "announce", "wait", "unlock", "copy">>
    [] IMPL = "MULTI_NOC_NONBLOCKING" -> <<"fetch", "step", "announce", "wait", "follow", "copy">>

\* Read buffers that mp_create_sport allocates at the sink, and the memory in front
\* of them that an index below 0 would reach.
Buffers ==
  CASE IMPL = "SINGLE_NOC" -> 0 .. 0
    [] IMPL \in {"DOUBLE_NOC", "DOUBLE_NOC_WR"} -> 0 .. 1
    [] IMPL \in {"TRIPLE_NOC", "MULTI_NOC_NONBLOCKING"} -> 0 .. 2
Memory == -2 .. 2

\* A transfer: the words of the sample from the next one on, or one index.
Transfer == [what : {"sample"}, to : Memory, next : SampleWord] \cup [what : {"newest", "reading"}]

ASSUME SamplingAssumption ==
  /\ Impls \subseteq {"SINGLE_NOC", "DOUBLE_NOC", "DOUBLE_NOC_WR", "TRIPLE_NOC", "MULTI_NOC_NONBLOCKING"}
  /\ SampleWords \in Nat \ {0} /\ MaxWrites \in Nat
ASSUME SmpTransferAssumption == SmpIdle \notin Transfer

writer == <<wpc, next, reading_seen, begun, returned>>
reader == <<rpc, next_reading, newest_seen, sample, copied, floor>>
others == <<IMPL, reading, newest, bufs>>  \* the build and what the other core's DMA writes
smpvars == <<smp_dma, client, writer, reader, others>>

Dma == INSTANCE Noc WITH Channel <- End, NoTransfer <- SmpIdle, dma <- smp_dma
Locking == INSTANCE AbstractLock WITH Core <- End

\* mp_create_sport on both sides.
SmpInit ==
  /\ Dma!NocInit /\ Locking!Init /\ IMPL \in Impls
  /\ wpc = 0 /\ rpc = 0
  /\ next = 0 /\ next_reading = 0 /\ newest = -1
  /\ reading = CASE IMPL = "DOUBLE_NOC_WR" -> 1 [] IMPL = "TRIPLE_NOC" -> -1 [] OTHER -> 0
  /\ reading_seen = 0 /\ newest_seen = 0
  /\ bufs = [b \in Memory |-> [w \in SampleWord |-> 0]]
  /\ sample = [w \in SampleWord |-> 0] /\ copied = 0
  /\ begun = 0 /\ returned = 0 /\ floor = 0

AtWrite(step) == wpc \in 1 .. Len(mp_write) /\ mp_write[wpc] = step
AtRead(step) == rpc \in 1 .. Len(mp_read) /\ mp_read[rpc] = step
Returning == rpc = Len(mp_read) + 1

\* The writer takes this step of mp_write, the reader this step of mp_read.
WriteStep(step) == AtWrite(step) /\ wpc' = wpc + 1 /\ UNCHANGED <<begun, returned>>
ReadStep(step) == AtRead(step) /\ rpc' = rpc + 1 /\ UNCHANGED floor

\* x ^ 1 in two's complement.
Flip(x) == IF x % 2 = 0 THEN x + 1 ELSE x - 1

\* The cyclic increment of next and next_reading.
Following(x) == IF x + 1 >= 3 THEN 0 ELSE x + 1
-----------------------------------------------------------------------------
\* The application puts a new sample into its sample memory and calls mp_write.
CallWrite ==
  /\ wpc = 0 /\ begun < MaxWrites
  /\ wpc' = 1 /\ begun' = begun + 1
  /\ UNCHANGED <<smp_dma, client, next, reading_seen, returned, reader, others>>

\* acquire_lock: wait for the lock, get it.
WriteLock ==
  /\ AtWrite("lock")
  /\ Locking!Request("source")
  /\ UNCHANGED <<smp_dma, writer, reader, others>>

WriteLocked ==
  /\ WriteStep("lock")
  /\ Locking!Grant("source")
  /\ UNCHANGED <<smp_dma, next, reading_seen, reader, others>>

WriteUnlock ==
  /\ WriteStep("unlock")
  /\ Locking!Yield("source")
  /\ UNCHANGED <<smp_dma, next, reading_seen, reader, others>>

\* The buffer is the one the reader asked for, or the one it is not reading.
WriteChoose ==
  /\ WriteStep("choose")
  /\ next' = IF IMPL = "DOUBLE_NOC_WR" THEN Flip(reading) ELSE reading
  /\ UNCHANGED <<smp_dma, client, reading_seen, reader, others>>

\* noc_write of the sample.
WriteSend ==
  /\ WriteStep("send")
  /\ Dma!noc_write("source", [what |-> "sample", to |-> next, next |-> 1])
  /\ UNCHANGED <<client, next, reading_seen, reader, others>>

\* noc_write of sport->next to the reader's newest.
WritePublish ==
  /\ WriteStep("publish")
  /\ Dma!noc_write("source", [what |-> "newest"])
  /\ UNCHANGED <<client, next, reading_seen, reader, others>>

\* Mutant: the loop on noc_dma_done is left out.
WriteWaitSkipped ==
  /\ WriteStep("wait")
  /\ UNCHANGED <<smp_dma, client, next, reading_seen, reader, others>>

\* The spin until the DMA is done.
WriteWait ==
  /\ WriteStep("wait")
  /\ Dma!noc_dma_done("source")
  /\ UNCHANGED <<smp_dma, client, next, reading_seen, reader, others>>

\* TRIPLE_NOC: which buffer is being read, looked up under the lock.
WriteLook ==
  /\ WriteStep("look")
  /\ reading_seen' = reading
  /\ UNCHANGED <<smp_dma, client, next, reader, others>>

\* Mutant: the buffer being read is not skipped.
WriteAdvanceAlways ==
  /\ WriteStep("advance")
  /\ next' = IF IMPL = "DOUBLE_NOC" THEN Flip(next) ELSE Following(next)
  /\ UNCHANGED <<smp_dma, client, reading_seen, reader, others>>

\* The buffer for the next call.
WriteAdvance ==
  /\ WriteStep("advance")
  /\ next' = IF IMPL = "DOUBLE_NOC" THEN Flip(next)
             ELSE IF Following(next) = reading_seen THEN Following(reading_seen) ELSE Following(next)
  /\ UNCHANGED <<smp_dma, client, reading_seen, reader, others>>

WriteReturn ==
  /\ wpc = Len(mp_write) + 1
  /\ wpc' = 0 /\ returned' = begun
  /\ UNCHANGED <<smp_dma, client, next, reading_seen, begun, reader, others>>
-----------------------------------------------------------------------------
\* The application calls mp_read.
CallRead ==
  /\ rpc = 0
  /\ rpc' = 1 /\ copied' = 0
  /\ floor' = IF floor < returned THEN returned ELSE floor
  /\ UNCHANGED <<smp_dma, client, writer, next_reading, newest_seen, sample, others>>

ReadLock ==
  /\ AtRead("lock")
  /\ Locking!Request("sink")
  /\ UNCHANGED <<smp_dma, writer, reader, others>>

ReadLocked ==
  /\ ReadStep("lock")
  /\ Locking!Grant("sink")
  /\ UNCHANGED <<smp_dma, writer, next_reading, newest_seen, sample, copied, others>>

ReadUnlock ==
  /\ ReadStep("unlock")
  /\ Locking!Yield("sink")
  /\ UNCHANGED <<smp_dma, writer, next_reading, newest_seen, sample, copied, others>>

\* Which buffer holds the newest sample.  Only MULTI_NOC_NONBLOCKING returns 0 when
\* there is none.
ReadFetch ==
  /\ AtRead("fetch")
  /\ newest_seen' = newest
  /\ rpc' = IF IMPL = "MULTI_NOC_NONBLOCKING" /\ newest < 0 THEN 0 ELSE rpc + 1
  /\ UNCHANGED <<smp_dma, client, writer, next_reading, sample, copied, floor, others>>

\* MULTI_NOC_NONBLOCKING: the buffer the writer shall use from now on.
ReadTurn ==
  /\ ReadStep("step")
  /\ next_reading' = Following(next_reading)
  /\ UNCHANGED <<smp_dma, client, writer, newest_seen, sample, copied, others>>

\* noc_write to the writer's reading.
ReadAnnounce ==
  /\ ReadStep("announce")
  /\ Dma!noc_write("sink", [what |-> "reading"])
  /\ UNCHANGED <<client, writer, next_reading, newest_seen, sample, copied, others>>

ReadWait ==
  /\ ReadStep("wait")
  /\ Dma!noc_dma_done("sink")
  /\ UNCHANGED <<smp_dma, client, writer, next_reading, newest_seen, sample, copied, others>>

\* MULTI_NOC_NONBLOCKING: wait until the writer has used that buffer.
ReadFollow ==
  /\ ReadStep("follow")
  /\ newest = next_reading
  /\ UNCHANGED <<smp_dma, client, writer, next_reading, newest_seen, sample, copied, others>>

\* Mutant: the loop variable is not incremented.
ReadCopyForever ==
  /\ AtRead("copy")
  /\ sample' = [sample EXCEPT ![copied + 1] = bufs[newest_seen][copied + 1]]
  /\ UNCHANGED <<smp_dma, client, writer, rpc, next_reading, newest_seen, copied, floor, others>>

\* One iteration of mem_copy.
ReadCopy ==
  /\ AtRead("copy")
  /\ sample' = [sample EXCEPT ![copied + 1] = bufs[newest_seen][copied + 1]]
  /\ copied' = copied + 1
  /\ rpc' = IF copied' = SampleWords THEN rpc + 1 ELSE rpc
  /\ UNCHANGED <<smp_dma, client, writer, next_reading, newest_seen, floor, others>>

\* mp_read returns 1.
ReadReturn ==
  /\ Returning
  /\ rpc' = 0 /\ floor' = sample[1]
  /\ UNCHANGED <<smp_dma, client, writer, next_reading, newest_seen, sample, copied, others>>
-----------------------------------------------------------------------------
\* The writer's DMA writes into the sink's memory, from where its source is at the time.
DeliverSource ==
  /\ ~ Dma!noc_dma_done("source")
  /\ LET t == smp_dma["source"]
     IN  \/ /\ t.what = "sample"
            /\ bufs' = [bufs EXCEPT ![t.to][t.next] = begun]
            /\ \/ t.next # SampleWords /\ smp_dma' = [smp_dma EXCEPT !["source"].next = @ + 1]
               \/ t.next = SampleWords /\ Dma!DmaArrives("source")
            /\ UNCHANGED newest
         \/ /\ t.what = "newest"
            /\ newest' = next
            /\ Dma!DmaArrives("source")
            /\ UNCHANGED bufs
  /\ UNCHANGED <<IMPL, client, writer, reader, reading>>

\* The reader's DMA writes the writer's reading.
DeliverSink ==
  /\ reading' = IF IMPL = "MULTI_NOC_NONBLOCKING" THEN next_reading ELSE newest
  /\ Dma!DmaArrives("sink")
  /\ UNCHANGED <<IMPL, client, writer, reader, newest, bufs>>
-----------------------------------------------------------------------------
Writing ==
  \/ WriteLock \/ WriteUnlock \/ WriteChoose \/ WriteSend \/ WritePublish \/ WriteWait
  \/ WriteLook \/ WriteAdvance \/ WriteReturn
Reading ==
  \/ ReadLock \/ ReadUnlock \/ ReadFetch \/ ReadTurn \/ ReadAnnounce \/ ReadWait
  \/ ReadFollow \/ ReadCopy \/ ReadReturn

SmpNext ==
  \/ CallWrite \/ Writing \/ WriteLocked
  \/ CallRead \/ Reading \/ ReadLocked
  \/ DeliverSource \/ DeliverSink

SmpSpec == SmpInit /\ [][SmpNext]_smpvars

\* The cores run, the network delivers, and the lock is the fair one of AbstractLock.
\* Nothing makes the applications call mp_write or mp_read.
SmpFairness ==
  /\ WF_smpvars(Writing) /\ WF_smpvars(Reading) /\ WF_smpvars(DeliverSource) /\ WF_smpvars(DeliverSink)
  /\ SF_smpvars(WriteLocked) /\ SF_smpvars(ReadLocked)

SmpFairSpec == SmpSpec /\ SmpFairness
-----------------------------------------------------------------------------
\* The fields of both descriptors and the memory have their types, and mp_write sends
\* samples only to the buffers that mp_create_sport allocated.  (In DOUBLE_NOC_WR a reader
\* that came before the first sample announces index -1, and the writer then uses -2.)
SmpTypeOK ==
  /\ smp_dma = [ch \in End |-> smp_dma[ch]]
  /\ \A ch \in End : smp_dma[ch] = SmpIdle \/ smp_dma[ch] \in Transfer
  /\ client \in [End -> {"idle", "waiting", "holding"}]
  /\ wpc \in 0 .. Len(mp_write) + 1 /\ rpc \in 0 .. Len(mp_read) + 1
  /\ next \in Memory /\ newest \in Memory /\ newest_seen \in Memory
  /\ reading \in Memory /\ reading_seen \in Memory /\ next_reading \in 0 .. 2
  /\ bufs \in [Memory -> [SampleWord -> Nat]] /\ sample \in [SampleWord -> Nat] /\ copied \in 0 .. SampleWords
  /\ begun \in Nat /\ returned \in Nat /\ floor \in Nat
  /\ IMPL # "DOUBLE_NOC_WR" /\ smp_dma["source"] # SmpIdle /\ smp_dma["source"].what = "sample"
       => smp_dma["source"].to \in Buffers

\* doc/noc/programming_exercise.tex: sampling message passing implements atomic
\* updates of a sample value.  What mp_read delivers is one sample, not parts of
\* two; it is at least as new as every sample whose mp_write had returned before
\* mp_read was called, and never older than what an earlier mp_read delivered.
\* (0: no mp_write has published a sample yet.)
AtomicSample ==
  Returning => \E k \in floor .. begun : \A w \in SampleWord : sample[w] = k

\* The writer's DMA never writes into the buffer that the reader is copying.
BufferNotShared ==
  AtRead("copy") /\ smp_dma["source"] # SmpIdle /\ smp_dma["source"].what = "sample"
    => smp_dma["source"].to # newest_seen

\* mp_write returns, and so does mp_read, whether or not the writer ever writes again.
\* (In MULTI_NOC_NONBLOCKING mp_read waits for the next mp_write.)
SamplingReturns == (wpc = 1 ~> wpc = 0) /\ (IMPL # "MULTI_NOC_NONBLOCKING" /\ rpc = 1 ~> rpc = 0)
==============================================================================
