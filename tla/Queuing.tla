------------------------------- MODULE Queuing -------------------------------
(***************************************************************************)
(* A queuing port after mp_init_ports, c/libmp/queuing.c: messages flow    *)
(* from the source core to num_buf receive buffers in the sink core's      *)
(* scratchpad memory, acknowledgements flow back as a counter.  Both       *)
(* directions are DMA transfers that proceed while the cores run.          *)
(*                                                                         *)
(* A message is its own sequence number, repeated in every word of the     *)
(* buffer, so that a buffer that was overwritten half way shows it.  The   *)
(* DMA reads and writes one word per step, front to back; the flag is the  *)
(* last.                                                                   *)
(***************************************************************************)
EXTENDS Integers, Noc

CONSTANTS num_buf,      \* receive buffers of the channel
          CountRange,   \* values of an unsigned int counter: 2^32 in the build
          Words,        \* words of a message
          Timeouts,     \* do callers pass a nonzero time_usecs or use the nb calls?
          Other,        \* a transfer of another port that shares the DMA entry
          MaxSent       \* bound: messages the source application writes

Word == 1 .. Words
Flag == Words + 1       \* index of the flag word in a buffer
Slot == 0 .. num_buf - 1
VALID == -1             \* FLAG_VALID
INVALID == 0            \* FLAG_INVALID

\* A message on its way: write buffer, receive buffer, and the word to move next.
DataTransfer == [from : {0, 1}, to : Slot, next : 1 .. Flag]

ASSUME BufAssumption ==
  /\ num_buf \in Nat \ {0} /\ Words \in Nat \ {0} /\ MaxSent \in Nat
  /\ CountRange \in Nat /\ num_buf < CountRange
ASSUME ChannelAssumption == Channel = {"source", "sink"}
ASSUME TransferAssumption ==
  /\ NoTransfer # Other /\ Timeouts \in BOOLEAN
  /\ {NoTransfer, Other} \cap (DataTransfer \cup {"recv_count"}) = {}

VARIABLES
  \* the source core's qpd_t and scratchpad memory
  sending,          \* in mp_send: "idle", "try", "room" or "failed"
  write_buf,        \* 0 or 1: which of the two write buffers is the free one
  wbuf,             \* contents of the two write buffers
  send_count,
  send_ptr,
  send_recv_count,  \* written by the sink's DMA
  \* the sink core's qpd_t and scratchpad memory
  rbuf,             \* contents of the receive buffers, written by the source's DMA
  recv_ptr,
  recv_count,
  read_buf,
  acking,           \* in mp_ack_n: num_acks, else 0
  added,            \* in mp_ack_n: what has been added to recv_count and not been sent
  \* history: messages sent, received and acknowledged since the channel was opened,
  \* and the acknowledgements that have arrived at the source
  sent, received, acked, arrived

source == <<sending, write_buf, wbuf, send_count, send_ptr, sent>>
sink == <<recv_ptr, recv_count, read_buf, acking, added, received, acked>>
counts == <<send_recv_count, arrived>>
vars == <<dma, source, counts, rbuf, sink>>

\* mp_create_qport on both sides.
Init ==
  /\ NocInit
  /\ sending = "idle" /\ acking = 0 /\ added = 0
  /\ wbuf = [b \in {0, 1} |-> [w \in 1 .. Flag |-> 0]]
  /\ rbuf = [s \in Slot |-> [w \in 1 .. Flag |-> INVALID]]
  /\ write_buf = 0 /\ send_count = 0 /\ send_ptr = 0 /\ send_recv_count = 0
  /\ recv_ptr = 0 /\ recv_count = 0 /\ read_buf = 0
  /\ sent = 0 /\ received = 0 /\ acked = 0 /\ arrived = 0

\* The cyclic increment of send_ptr and recv_ptr.
Advance(ptr) == IF ptr = num_buf - 1 THEN 0 ELSE ptr + 1

\* send_count - *send_recv_count as the code computes it.
Outstanding == (send_count - send_recv_count) % CountRange
-----------------------------------------------------------------------------
\* The application puts its next message into the free write buffer and calls
\* mp_send or mp_nbsend.
Write ==
  /\ sending = "idle" /\ sent < MaxSent
  /\ wbuf' = [wbuf EXCEPT ![write_buf] = [w \in 1 .. Flag |-> IF w = Flag THEN @[w] ELSE sent + 1]]
  /\ sending' = "try"
  /\ UNCHANGED <<dma, write_buf, send_count, send_ptr, sent, counts, rbuf, sink>>

\* Mutant: one message too many is let through.
SendCheckOffByOne ==
  /\ sending = "try"
  /\ wbuf' = [wbuf EXCEPT ![write_buf][Flag] = VALID]
  /\ \/ Outstanding > num_buf /\ sending' = "failed"
     \/ Outstanding <= num_buf /\ sending' = "room"
  /\ UNCHANGED <<dma, write_buf, send_count, send_ptr, sent, counts, rbuf, sink>>

\* mp_nbsend sets the flag, then looks for room in the queue.
SendCheck ==
  /\ sending = "try"
  /\ wbuf' = [wbuf EXCEPT ![write_buf][Flag] = VALID]
  /\ \/ Outstanding = num_buf /\ sending' = "failed"
     \/ Outstanding # num_buf /\ sending' = "room"
  /\ UNCHANGED <<dma, write_buf, send_count, send_ptr, sent, counts, rbuf, sink>>

\* Mutant: write_buf and shadow_write_buf are not swapped.
SendWriteNoSwap ==
  /\ sending = "room"
  /\ noc_write("source", [from |-> write_buf, to |-> send_ptr, next |-> 1])
  /\ send_count' = (send_count + 1) % CountRange
  /\ send_ptr' = Advance(send_ptr)
  /\ sent' = sent + 1
  /\ sending' = "idle"
  /\ UNCHANGED <<write_buf, wbuf, counts, rbuf, sink>>

\* mp_nbsend gets the DMA entry and returns 1.
SendWrite ==
  /\ sending = "room"
  /\ noc_write("source", [from |-> write_buf, to |-> send_ptr, next |-> 1])
  /\ send_count' = (send_count + 1) % CountRange
  /\ send_ptr' = Advance(send_ptr)
  /\ write_buf' = 1 - write_buf
  /\ sent' = sent + 1
  /\ sending' = "idle"
  /\ UNCHANGED <<wbuf, counts, rbuf, sink>>

\* mp_nbsend finds the DMA entry busy and returns 0.
SendBusy ==
  /\ sending = "room"
  /\ ~ noc_dma_done("source")
  /\ sending' = "failed"
  /\ UNCHANGED <<dma, write_buf, wbuf, send_count, send_ptr, sent, counts, rbuf, sink>>

\* mp_send calls mp_nbsend again.
SendRetry ==
  /\ sending = "failed"
  /\ sending' = "try"
  /\ UNCHANGED <<dma, write_buf, wbuf, send_count, send_ptr, sent, counts, rbuf, sink>>

\* mp_nbsend returned 0, or mp_send has timed out, possibly before it tried.
SendTimeout ==
  /\ Timeouts
  /\ sending \in {"try", "failed"}
  /\ sending' = "idle"
  /\ UNCHANGED <<dma, write_buf, wbuf, send_count, send_ptr, sent, counts, rbuf, sink>>
-----------------------------------------------------------------------------
\* Mutants of Recv: the flag stays set; recv_ptr advances before the flag is cleared;
\* recv_ptr does not advance.
RecvKeepsFlag ==
  /\ acking = 0
  /\ rbuf[recv_ptr][Flag] # INVALID
  /\ recv_ptr' = Advance(recv_ptr)
  /\ read_buf' = recv_ptr
  /\ received' = received + 1
  /\ UNCHANGED <<dma, source, counts, rbuf, recv_count, acking, added, acked>>
RecvClearsNext ==
  /\ acking = 0
  /\ rbuf[recv_ptr][Flag] # INVALID
  /\ recv_ptr' = Advance(recv_ptr)
  /\ rbuf' = [rbuf EXCEPT ![recv_ptr'][Flag] = INVALID]
  /\ read_buf' = recv_ptr
  /\ received' = received + 1
  /\ UNCHANGED <<dma, source, counts, recv_count, acking, added, acked>>
RecvStays ==
  /\ acking = 0
  /\ rbuf[recv_ptr][Flag] # INVALID
  /\ rbuf' = [rbuf EXCEPT ![recv_ptr][Flag] = INVALID]
  /\ read_buf' = recv_ptr
  /\ received' = received + 1
  /\ UNCHANGED <<dma, source, counts, recv_ptr, recv_count, acking, added, acked>>

\* mp_nbrecv finds the flag of the buffer at recv_ptr set.
Recv ==
  /\ acking = 0
  /\ rbuf[recv_ptr][Flag] # INVALID
  /\ recv_ptr' = Advance(recv_ptr)
  /\ rbuf' = [rbuf EXCEPT ![recv_ptr][Flag] = INVALID]
  /\ read_buf' = recv_ptr
  /\ received' = received + 1
  /\ UNCHANGED <<dma, source, counts, recv_count, acking, added, acked>>

\* The application calls mp_ack_n (mp_ack and mp_nback: num_acks = 1) for messages
\* it has received.
AckCall(num_acks) ==
  /\ acking = 0
  /\ num_acks \in 1 .. received - acked
  /\ acking' = num_acks
  /\ UNCHANGED <<dma, source, counts, rbuf, recv_ptr, recv_count, read_buf, added, received, acked>>

\* Mutant: recv_count is raised without waiting for the acknowledgement before.
AckAddEarly ==
  /\ acking # 0 /\ added = 0
  /\ recv_count' = (recv_count + acking) % CountRange
  /\ added' = acking
  /\ UNCHANGED <<dma, source, counts, rbuf, recv_ptr, read_buf, acking, received, acked>>

\* mp_ack_n (and mp_nback) sees the DMA entry done and adds to recv_count.
AckAdd ==
  /\ acking # 0 /\ added = 0
  /\ noc_dma_done("sink")
  /\ recv_count' = (recv_count + acking) % CountRange
  /\ added' = acking
  /\ UNCHANGED <<dma, source, counts, rbuf, recv_ptr, read_buf, acking, received, acked>>

\* noc_nbwrite takes recv_count.
AckWrite ==
  /\ added # 0
  /\ noc_write("sink", "recv_count")
  /\ acked' = acked + acking
  /\ acking' = 0 /\ added' = 0
  /\ UNCHANGED <<source, counts, rbuf, recv_ptr, recv_count, read_buf, received>>

\* mp_ack_n times out in its first loop, or mp_nback finds the DMA entry busy.
AckTimeout ==
  /\ Timeouts
  /\ acking # 0 /\ added = 0
  /\ acking' = 0
  /\ UNCHANGED <<dma, source, counts, rbuf, recv_ptr, recv_count, read_buf, added, received, acked>>

\* mp_ack_n times out before its second loop, and takes back what it has added.
AckTakeBack ==
  /\ Timeouts
  /\ added # 0
  /\ recv_count' = (recv_count - acking) % CountRange
  /\ acking' = 0 /\ added' = 0
  /\ UNCHANGED <<dma, source, counts, rbuf, recv_ptr, read_buf, received, acked>>
-----------------------------------------------------------------------------
MessageInDma == dma["source"] \notin {NoTransfer, Other}

\* The source's DMA moves one word of the message, and is done after the flag.
DeliverWord ==
  /\ MessageInDma
  /\ LET t == dma["source"]
     IN  /\ rbuf' = [rbuf EXCEPT ![t.to][t.next] = wbuf[t.from][t.next]]
         /\ \/ t.next # Flag /\ dma' = [dma EXCEPT !["source"] = [t EXCEPT !.next = t.next + 1]]
            \/ t.next = Flag /\ DmaArrives("source")
  /\ UNCHANGED <<source, counts, sink>>

\* The sink's DMA delivers the current recv_count.
DeliverCount ==
  /\ dma["sink"] = "recv_count"
  /\ send_recv_count' = recv_count
  /\ arrived' = acked
  /\ DmaArrives("sink")
  /\ UNCHANGED <<source, rbuf, sink>>

\* Between two calls for this port its core uses the DMA entry for another one.
OtherTransfer(core) ==
  /\ IF core = "source" THEN sending = "idle" ELSE acking = 0
  /\ noc_write(core, Other)
  /\ UNCHANGED <<source, counts, rbuf, sink>>

OtherArrives(core) ==
  /\ dma[core] = Other
  /\ DmaArrives(core)
  /\ UNCHANGED <<source, counts, rbuf, sink>>
-----------------------------------------------------------------------------
Sending == SendCheck \/ SendWrite \/ SendBusy \/ SendRetry
Acking == \E k \in 1 .. num_buf : AckCall(k)

Next ==
  \/ Write \/ Sending \/ SendTimeout
  \/ Recv \/ Acking \/ AckAdd \/ AckWrite \/ AckTimeout \/ AckTakeBack
  \/ DeliverWord \/ DeliverCount
  \/ \E core \in Channel : OtherTransfer(core) \/ OtherArrives(core)

Spec == Init /\ [][Next]_vars

\* The cores run, the network serves every entry, and the sink's application keeps
\* receiving and acknowledging.  Nothing makes the source send.
Fairness ==
  /\ WF_vars(Sending) /\ WF_vars(Recv) /\ WF_vars(Acking) /\ WF_vars(AckAdd) /\ WF_vars(AckWrite)
  /\ WF_vars(DeliverWord) /\ WF_vars(DeliverCount)
  /\ \A core \in Channel : WF_vars(OtherArrives(core))

FairSpec == Spec /\ Fairness
-----------------------------------------------------------------------------
Counter == 0 .. CountRange - 1
Block == [1 .. Flag -> Nat \cup {VALID}]

\* Every field of the two descriptors and of the buffers has its type.
TypeOK ==
  /\ dma = [ch \in Channel |-> dma[ch]]
  /\ dma["source"] \in {NoTransfer, Other} \cup DataTransfer
  /\ dma["sink"] \in {NoTransfer, Other, "recv_count"}
  /\ sending \in {"idle", "try", "room", "failed"} /\ {acking, added} \subseteq 0 .. num_buf
  /\ write_buf \in {0, 1} /\ wbuf \in [{0, 1} -> Block] /\ rbuf \in [Slot -> Block]
  /\ send_count \in Counter /\ recv_count \in Counter /\ send_recv_count \in Counter
  /\ send_ptr \in Slot /\ recv_ptr \in Slot /\ read_buf \in Slot
  /\ sent \in Nat /\ received \in Nat /\ acked \in Nat /\ arrived \in Nat

\* The receive buffer of message number k and what it should hold.
SlotOf(k) == (k - 1) % num_buf
Holds(k) == \A w \in Word : rbuf[SlotOf(k)][w] = k

\* mp.h: it is possible to work on 2 or more incoming messages at the same time
\* without them being overwritten.  Until mp_ack gives them back, received messages
\* stay as they were sent, and read_buf is the last of them.
ReceivedIntact ==
  /\ \A k \in acked + 1 .. received : Holds(k)
  /\ acked < received => read_buf = SlotOf(received)

\* What mp_nbrecv accepts is the whole of the next message: nothing torn, stale,
\* twice or out of order.
FlagMeansNext ==
  rbuf[recv_ptr][Flag] # INVALID => received < sent /\ recv_ptr = SlotOf(received + 1) /\ Holds(received + 1)

\* A message for which mp_nbsend returned 1 is in its receive buffer with the flag
\* set, or is the one the DMA is working on, until it is received.
NothingLost ==
  \A k \in received + 1 .. sent :
    \/ Holds(k) /\ rbuf[SlotOf(k)][Flag] = VALID
    \/ /\ k = sent /\ MessageInDma
       /\ dma["source"].to = SlotOf(k)
       /\ \A w \in Word : wbuf[dma["source"].from][w] = k

\* The source never sees more room than there is, although its counters wrap,
\* acknowledgements arrive late, and one that times out is taken back from a word that
\* the DMA reads.
RoomIsReal == sent - acked <= Outstanding /\ Outstanding <= num_buf

\* The write buffer handed to the application is not the one the DMA reads.
WriteBufferFree ==
  MessageInDma => dma["source"].from # write_buf

\* mp_send with an infinite timeout returns: neither a full queue nor a DMA entry that
\* other ports use as well keeps it forever.
SendReturns == sending = "try" ~> sending = "idle"

\* Every message for which mp_send returned 1 is received: the sink never waits on
\* another buffer than the one the message arrived in.
SentIsReceived == \A k \in 1 .. MaxSent : sent >= k ~> received >= k
==============================================================================
