------------------------------- MODULE MCCores -------------------------------
(***************************************************************************)
(* What the cores do together, one part at a time: the initial state says  *)
(* which part is at work, the others rest.                                 *)
(*  - boot: a master and two slaves, of which one may be slow while the    *)
(*    other is fast, and three rounds: without, with and again without the *)
(*    network;                                                             *)
(*  - sampling: five writes of two words each by every implementation;     *)
(*  - queuing: more messages than the counters can count, so that counters *)
(*    and ring wrap at different times; the callers wait without a timeout *)
(*    or, in the part timeouts, may all time out;                          *)
(*  - hardlock: three cores, so that one can be passed by two others, two  *)
(*    locks.                                                               *)
(***************************************************************************)
EXTENDS Boot, Sampling, Queuing, Hardlock

VARIABLE part

MCInit ==
  /\ part \in {"boot", "sampling", "queuing", "timeouts", "hardlock"}
  /\ BootInit /\ SmpInit /\ Init /\ LckInit
  /\ part # "boot" => status[0] = "NULL" /\ entrypoint = NULL
  /\ part # "sampling" => IMPL = "SINGLE_NOC"

On(p, A) == part = p /\ A

\* A step of the queuing port; in one of its two parts nobody's time runs out.
Queue(A) == \/ On("timeouts", A)
            \/ On("queuing", A /\ ~ (SendTimeout \/ AckTimeout \/ AckTakeBack))

MCNext ==
  /\ \/ On("boot", BootNext) /\ UNCHANGED <<smpvars, vars, lckvars>>
     \/ On("sampling", SmpNext) /\ UNCHANGED <<bootvars, vars, lckvars>>
     \/ Queue(Next) /\ UNCHANGED <<bootvars, smpvars, lckvars>>
     \/ On("hardlock", LckNext) /\ UNCHANGED <<bootvars, smpvars, vars>>
  /\ UNCHANGED part

\* The fairness of each part.
MCSpec ==
  /\ MCInit /\ [][MCNext]_<<part, bootvars, smpvars, vars, lckvars>>
  /\ WF_bootvars(On("boot", Master)) /\ \A c \in Slave : WF_bootvars(On("boot", SlaveStep(c)))
  /\ WF_smpvars(On("sampling", Writing)) /\ WF_smpvars(On("sampling", Reading))
  /\ WF_smpvars(On("sampling", DeliverSource)) /\ WF_smpvars(On("sampling", DeliverSink))
  /\ SF_smpvars(On("sampling", WriteLocked)) /\ SF_smpvars(On("sampling", ReadLocked))
  /\ WF_vars(Queue(Sending)) /\ WF_vars(Queue(Recv))
  /\ WF_vars(Queue(Acking)) /\ WF_vars(Queue(AckAdd)) /\ WF_vars(Queue(AckWrite))
  /\ WF_vars(Queue(DeliverWord)) /\ WF_vars(Queue(DeliverCount))
  /\ \A core \in Channel : WF_vars(Queue(OtherArrives(core)))
  /\ WF_lckvars(On("hardlock", LckNext))
  /\ \A c \in Core : WF_lckvars(On("hardlock", pc[c] = "in" /\ Cycle(c)))

\* Boot's words, the ports' descriptors, buffers and transfers and the registers of the
\* locking unit have their types.
CoresTypeOK == BootTypeOK /\ SmpTypeOK /\ TypeOK /\ LckTypeOK

\* RoundsEnd for the boot loader: unless a download fails, every round ends on every core,
\* and all loop back to download the next application.
BootRoundsEnd == part = "boot" => RoundsEnd

\* mp_send and mp_ack_n with time_usecs 0: neither a full queue nor a DMA entry that other
\* ports use as well keeps mp_send for ever, and every message for which mp_send returned 1
\* is received: mp_recv never waits on another buffer than the one it arrived in.
BlockingCallsEnd == part = "queuing" => SendReturns /\ SentIsReceived
==============================================================================
