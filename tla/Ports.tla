------------------------------- MODULE Ports ---------------------------------
(***************************************************************************)
(* Opening the channels of the message passing library: mp_create_qport    *)
(* (c/libmp/queuing.c), mp_create_sport (c/libmp/sampling.c, IMPL          *)
(* DOUBLE_NOC) and mp_init_ports with mp_alloc (c/libmp/mp.c).  Each core  *)
(* creates its ports, publishing them in the uncached array chan_info in   *)
(* main memory, and then calls mp_init_ports, which waits for the other    *)
(* end of each channel and copies what it published.                       *)
(*                                                                         *)
(* The behaviours start after mp_init has cleared chan_info on core 0; the *)
(* other cores enter their code by corethread_create, which core 0 calls   *)
(* after its constructors.                                                 *)
(***************************************************************************)
EXTENDS Integers, Sequences

CONSTANTS PortCore,        \* ids of the cores
          LastChan,    \* the channels are 0 .. LastChan
          src, sink,   \* the core at each end of a channel
          port_type,   \* "QUEUING" or "SAMPLING" for each channel
          Spm          \* possible memory sizes: functions from cores to blocks that fit

Chan == 0 .. LastChan
Dir == {"SOURCE", "SINK"}
Other(dir) == IF dir = "SOURCE" THEN "SINK" ELSE "SOURCE"
None == -1

\* A channel goes through the network from one core to another: mp_init_ports, which
\* tests src_id and else sink_id, connects one end of a channel per core.
ASSUME PortsAssumption ==
  /\ PortCore \subseteq Nat /\ LastChan \in Nat
  /\ src \in [Chan -> PortCore] /\ sink \in [Chan -> PortCore] /\ \A ch \in Chan : src[ch] # sink[ch]
  /\ port_type \in [Chan -> {"QUEUING", "SAMPLING"}]
  /\ Spm \subseteq [PortCore -> Nat]

Owner(ch, dir) == IF dir = "SOURCE" THEN src[ch] ELSE sink[ch]

\* Mutant: a sink publishes its id before its address.
StepsIdFirst(ch, dir) ==
  IF dir = "SOURCE" THEN <<"alloc", "buffers", "check", "address", "id", "init">>
  ELSE <<"alloc", "buffers", "id", "address", "check", "init">>

\* The steps that create a port.  A queuing sink publishes its id before it has
\* checked its memory and before it has initialised it.
Steps(ch, dir) ==
  CASE port_type[ch] = "QUEUING" /\ dir = "SOURCE" ->
         <<"alloc", "buffers", "check", "address", "id", "init">>
    [] port_type[ch] = "QUEUING" /\ dir = "SINK" ->
         <<"alloc", "buffers", "address", "id", "check", "init">>
    [] port_type[ch] = "SAMPLING" /\ dir = "SOURCE" ->
         <<"alloc", "alloc", "init", "address", "id">>
    [] port_type[ch] = "SAMPLING" /\ dir = "SINK" ->
         <<"alloc", "alloc", "buffers", "init", "address", "check", "id">>

VARIABLES
  spm_free,   \* blocks left in each core's scratchpad memory
  chan_info,  \* per channel and end: the published id and whether the address is not NULL
  desc,       \* per channel and end: the port descriptor
  todo,       \* ports a core has still to create
  at,         \* the port a core is creating and the next step of it
  scan,       \* the channel mp_init_ports has come to; LastChan + 1 when it has returned
  failed,     \* the cores on which mp_alloc has returned NULL
  first       \* first message of a queuing channel: "none", "valid", "received", "erased"

portvars == <<spm_free, chan_info, desc, todo, at, scan, failed, first>>

NoPort == [ch |-> None, dir |-> "SOURCE", step |-> 0]
NotCalled == -1      \* mp_init_ports has not been called

PortInit ==
  /\ spm_free \in Spm
  /\ chan_info = [ch \in Chan |-> [dir \in Dir |-> [id |-> None, addr |-> FALSE]]]
  /\ desc = [ch \in Chan |-> [dir \in Dir |->
               [mem |-> FALSE, ready |-> FALSE, remote |-> None, addr |-> FALSE]]]
  /\ todo = [c \in PortCore |-> {port \in Chan \X Dir : Owner(port[1], port[2]) = c}]
  /\ at = [c \in PortCore |-> NoPort]
  /\ scan = [c \in PortCore |-> NotCalled]
  /\ failed = {}
  /\ first = [ch \in Chan |-> "none"]

Creating(c, step) ==
  /\ at[c].ch # None
  /\ Steps(at[c].ch, at[c].dir)[at[c].step] = step

\* The next step of the port, or the end of mp_create_qport / mp_create_sport.
Proceed(c) ==
  at' = [at EXCEPT ![c] = IF at[c].step = Len(Steps(at[c].ch, at[c].dir)) THEN NoPort
                          ELSE [at[c] EXCEPT !.step = at[c].step + 1]]

\* Return NULL.  As in c/cmp/libmp_sport_test.c the application goes on.
GiveUp(c) == at' = [at EXCEPT ![c] = NoPort]
-----------------------------------------------------------------------------
\* The application calls mp_create_qport or mp_create_sport.
Create(c) ==
  /\ scan[c] = NotCalled /\ at[c] = NoPort
  /\ \E port \in todo[c] :
       /\ at' = [at EXCEPT ![c] = [ch |-> port[1], dir |-> port[2], step |-> 1]]
       /\ todo' = [todo EXCEPT ![c] = @ \ {port}]
  /\ UNCHANGED <<failed, spm_free, chan_info, desc, scan, first>>

\* Mutant: mp_alloc does not compare with the end of the memory.
AllocUnchecked(c) ==
  /\ Creating(c, "alloc")
  /\ spm_free' = [spm_free EXCEPT ![c] = @ - 1]
  /\ Proceed(c)
  /\ UNCHANGED <<failed, chan_info, desc, todo, scan, first>>

\* mp_alloc of the descriptor or the lock: NULL makes the creation fail.
Alloc(c) ==
  /\ Creating(c, "alloc")
  /\ \/ spm_free[c] > 0 /\ spm_free' = [spm_free EXCEPT ![c] = @ - 1] /\ UNCHANGED failed /\ Proceed(c)
     \/ spm_free[c] = 0 /\ failed' = failed \cup {c} /\ UNCHANGED spm_free /\ GiveUp(c)
  /\ UNCHANGED <<chan_info, desc, todo, scan, first>>

\* mp_alloc of the buffers.
AllocBuffers(c) ==
  /\ Creating(c, "buffers")
  /\ LET got == spm_free[c] > 0
     IN  /\ spm_free' = [spm_free EXCEPT ![c] = IF got THEN @ - 1 ELSE @]
         /\ failed' = IF got THEN failed ELSE failed \cup {c}
         /\ desc' = [desc EXCEPT ![at[c].ch][at[c].dir].mem = got]
  /\ Proceed(c)
  /\ UNCHANGED <<chan_info, todo, scan, first>>

\* Return NULL if the buffers could not be allocated.
Check(c) ==
  /\ Creating(c, "check")
  /\ IF desc[at[c].ch][at[c].dir].mem THEN Proceed(c) ELSE GiveUp(c)
  /\ UNCHANGED <<failed, spm_free, chan_info, desc, todo, scan, first>>

\* Write the descriptor, the lock and the address of the buffers or of send_recv_count to
\* chan_info: one step, because the other end reads them only after the id.
PublishAddress(c) ==
  /\ Creating(c, "address")
  /\ chan_info' = [chan_info EXCEPT ![at[c].ch][at[c].dir].addr =
       desc[at[c].ch][at[c].dir].mem \/ (port_type[at[c].ch] = "SAMPLING" /\ at[c].dir = "SOURCE")]
  /\ Proceed(c)
  /\ UNCHANGED <<failed, spm_free, desc, todo, scan, first>>

\* Mutant: a source waits for the other end before it publishes its own id.
PublishIdWaiting(c) ==
  /\ Creating(c, "id")
  /\ at[c].dir = "SOURCE" => chan_info[at[c].ch]["SINK"].id # None
  /\ chan_info' = [chan_info EXCEPT ![at[c].ch][at[c].dir].id = c]
  /\ Proceed(c)
  /\ UNCHANGED <<failed, spm_free, desc, todo, scan, first>>

\* Write src_id or sink_id, which is what the other end waits for.
PublishId(c) ==
  /\ Creating(c, "id")
  /\ chan_info' = [chan_info EXCEPT ![at[c].ch][at[c].dir].id = c]
  /\ Proceed(c)
  /\ UNCHANGED <<failed, spm_free, desc, todo, scan, first>>

\* Initialise counters, pointers and flags.  A queuing sink clears the flags of its
\* receive buffers, whatever has arrived there.
InitPort(c) ==
  /\ Creating(c, "init")
  /\ desc' = [desc EXCEPT ![at[c].ch][at[c].dir].ready = TRUE]
  /\ first' = IF at[c].dir = "SINK" /\ first[at[c].ch] = "valid"
              THEN [first EXCEPT ![at[c].ch] = "erased"] ELSE first
  /\ Proceed(c)
  /\ UNCHANGED <<failed, spm_free, chan_info, todo, scan>>
-----------------------------------------------------------------------------
\* The application has created its ports and calls mp_init_ports.
InitPorts(c) ==
  /\ todo[c] = {} /\ at[c] = NoPort /\ scan[c] = NotCalled
  /\ scan' = [scan EXCEPT ![c] = 0]
  /\ UNCHANGED <<failed, spm_free, chan_info, desc, todo, at, first>>

\* The end of the channel that mp_init_ports serves: the source if this core is both.
Side(c, ch) == IF chan_info[ch]["SOURCE"].id = c THEN "SOURCE" ELSE "SINK"

\* The channel is not one of this core's.
SkipChannel(c) ==
  /\ scan[c] \in Chan
  /\ \A dir \in Dir : chan_info[scan[c]][dir].id # c
  /\ scan' = [scan EXCEPT ![c] = @ + 1]
  /\ UNCHANGED <<failed, spm_free, chan_info, desc, todo, at, first>>

\* The spin on the other end's id is over: copy what it published.
ConnectChannel(c) ==
  /\ scan[c] \in Chan
  /\ LET ch == scan[c]
         dir == Side(c, ch)
         there == chan_info[ch][Other(dir)]
     IN  /\ chan_info[ch][dir].id = c
         /\ there.id # None
         /\ desc' = [desc EXCEPT ![ch][dir] = [@ EXCEPT !.remote = there.id, !.addr = there.addr]]
  /\ scan' = [scan EXCEPT ![c] = @ + 1]
  /\ UNCHANGED <<failed, spm_free, chan_info, todo, at, first>>
-----------------------------------------------------------------------------
Running(c) == scan[c] = LastChan + 1

\* After mp_init_ports the source sends its first message; the DMA writes it with its
\* flag into the first receive buffer (nowhere near it if the address is NULL).
SendFirst(ch) ==
  /\ port_type[ch] = "QUEUING" /\ Running(src[ch])
  /\ desc[ch]["SOURCE"].ready /\ desc[ch]["SOURCE"].addr
  /\ first[ch] = "none"
  /\ first' = [first EXCEPT ![ch] = "valid"]
  /\ UNCHANGED <<failed, spm_free, chan_info, desc, todo, at, scan>>

\* mp_recv at the sink.
RecvFirst(ch) ==
  /\ Running(sink[ch]) /\ desc[ch]["SINK"].ready
  /\ first[ch] = "valid"
  /\ first' = [first EXCEPT ![ch] = "received"]
  /\ UNCHANGED <<failed, spm_free, chan_info, desc, todo, at, scan>>

PortStep(c) ==
  \/ Create(c) \/ Alloc(c) \/ AllocBuffers(c) \/ Check(c) \/ PublishAddress(c) \/ PublishId(c)
  \/ InitPort(c) \/ InitPorts(c) \/ SkipChannel(c) \/ ConnectChannel(c)

PortNext ==
  \/ \E c \in PortCore : PortStep(c)
  \/ \E ch \in Chan : SendFirst(ch) \/ RecvFirst(ch)

PortSpec == PortInit /\ [][PortNext]_portvars

\* Every core runs.
PortFairSpec == PortSpec /\ \A c \in PortCore : WF_portvars(PortStep(c))
-----------------------------------------------------------------------------
\* chan_info, the descriptors and the positions in the code have their types.
PortTypeOK ==
  /\ spm_free \in [PortCore -> Nat]
  /\ chan_info \in [Chan -> [Dir -> [id : PortCore \cup {None}, addr : BOOLEAN]]]
  /\ desc \in [Chan -> [Dir -> [mem : BOOLEAN, ready : BOOLEAN,
                                remote : PortCore \cup {None}, addr : BOOLEAN]]]
  /\ todo \in [PortCore -> SUBSET (Chan \X Dir)]
  /\ at \in [PortCore -> [ch : Chan \cup {None}, dir : Dir, step : 0 .. 7]]
  /\ scan \in [PortCore -> -1 .. LastChan + 1]
  /\ failed \subseteq PortCore
  /\ first \in [Chan -> {"none", "valid", "received", "erased"}]

\* An id is never seen before what it stands for.  If the memory was enough so far, then
\* when mp_init_ports has returned on a core each of its ports knows the other core and the
\* other end's memory.  And, with or without enough memory, a sampling port is connected
\* only to a port that is initialised and has its buffers: unlike a queuing sink,
\* mp_create_sport publishes the id as its last step.
Connected ==
  \A ch \in Chan, dir \in Dir :
    LET port == desc[ch][dir]
    IN  /\ failed = {} /\ Running(Owner(ch, dir)) => port.remote = Owner(ch, Other(dir)) /\ port.addr
        /\ port_type[ch] = "SAMPLING" /\ port.remote # None => desc[ch][Other(dir)].ready /\ port.addr

\* A message that mp_send has sent is not destroyed by the sink's initialisation.
FirstMessageKept == \A ch \in Chan : first[ch] # "erased"

\* Unless a core ran out of memory, mp_init_ports returns on every core: no cycle of
\* cores waiting for each other's ids.
StartupFinishes == <>(failed # {} \/ \A c \in PortCore : Running(c))
==============================================================================
