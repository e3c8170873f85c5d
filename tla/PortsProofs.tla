----------------------------- MODULE PortsProofs -----------------------------
(***************************************************************************)
(* The start-up of the ports, for any number of cores and channels, any    *)
(* order in which a core creates its ports, and memory that may run out.   *)
(*                                                                         *)
(* A core waits for nothing but the id that the other end of a channel     *)
(* publishes, so what it reads after the id must have been there before.   *)
(* The invariant says for each step of the creation of a port what has     *)
(* been published and what is true of the descriptor (Progress), that an   *)
(* id stands for all of it (Published), and what mp_init_ports has copied  *)
(* (CopyInv).                                                              *)
(***************************************************************************)
EXTENDS Ports, TLAPS

\* At which step of its creation a port gets its buffers (the sampling source has none),
\* is initialised, publishes its address and publishes its id, and how many steps there are.
Queuing(ch) == port_type[ch] = "QUEUING"
BufferStep(ch, dir) == IF Queuing(ch) THEN 2 ELSE IF dir = "SINK" THEN 3 ELSE 0
InitStep(ch, dir) == IF Queuing(ch) THEN 6 ELSE IF dir = "SINK" THEN 4 ELSE 3
AddressStep(ch, dir) == IF Queuing(ch) THEN IF dir = "SINK" THEN 3 ELSE 4 ELSE IF dir = "SINK" THEN 5 ELSE 4
CheckStep(ch, dir) == IF Queuing(ch) THEN IF dir = "SINK" THEN 5 ELSE 3 ELSE IF dir = "SINK" THEN 6 ELSE 0
IdStep(ch, dir) == IF Queuing(ch) /\ dir = "SINK" THEN 4 ELSE IF Queuing(ch) \/ dir = "SOURCE" THEN 5 ELSE 7
LastStep(ch, dir) == IF Queuing(ch) THEN 6 ELSE IF dir = "SINK" THEN 7 ELSE 5

Descriptor == [mem : BOOLEAN, ready : BOOLEAN, remote : PortCore \cup {None}, addr : BOOLEAN]
Entry == [id : PortCore \cup {None}, addr : BOOLEAN]
AtPort == [ch : Chan \cup {None}, dir : Dir, step : 0 .. 7]
FirstMessage == {"none", "valid", "received", "erased"}

\* PortTypeOK, with names for the records.
Types ==
  /\ spm_free \in [PortCore -> Nat]
  /\ chan_info \in [Chan -> [Dir -> Entry]]
  /\ desc \in [Chan -> [Dir -> Descriptor]]
  /\ todo \in [PortCore -> SUBSET (Chan \X Dir)]
  /\ at \in [PortCore -> AtPort]
  /\ scan \in [PortCore -> -1 .. LastChan + 1]
  /\ failed \subseteq PortCore
  /\ first \in [Chan -> FirstMessage]

\* The core of the port has not begun to create it, or is creating it.
Waiting(ch, dir) == <<ch, dir>> \in todo[Owner(ch, dir)]
Current(ch, dir) == at[Owner(ch, dir)].ch = ch /\ at[Owner(ch, dir)].dir = dir

\* Cores work on their own ports, and call mp_init_ports when they have none left.
CoreInv(c) ==
  /\ \A ch \in Chan, dir \in Dir : <<ch, dir>> \in todo[c] => Owner(ch, dir) = c
  /\ at[c].ch # None =>
       /\ Owner(at[c].ch, at[c].dir) = c /\ <<at[c].ch, at[c].dir>> \notin todo[c]
       /\ at[c].step \in 1 .. LastStep(at[c].ch, at[c].dir)
  /\ at[c].ch = None => at[c] = NoPort
  /\ scan[c] # NotCalled => todo[c] = {} /\ at[c] = NoPort

\* What is true of a port with entry e and descriptor d at the k-th step of its creation.
Progress(ch, dir, k, e, d, broke) ==
  /\ k <= IdStep(ch, dir) => e.id = None
  /\ k > IdStep(ch, dir) => e.id # None
  /\ k > BufferStep(ch, dir) /\ BufferStep(ch, dir) # 0 => d.mem \/ broke # {}
  /\ k > CheckStep(ch, dir) /\ CheckStep(ch, dir) # 0 => d.mem
  /\ k > AddressStep(ch, dir) => (e.addr <=> d.mem \/ BufferStep(ch, dir) = 0)
  /\ k > InitStep(ch, dir) => d.ready

\* What an id that can be seen stands for.
Published(ch, dir, e, d, broke) ==
  e.id # None => /\ e.id = Owner(ch, dir)
                 /\ broke = {} => e.addr
                 /\ ~ Queuing(ch) => d.ready /\ e.addr

PublishInv(ch, dir) ==
  /\ Published(ch, dir, chan_info[ch][dir], desc[ch][dir], failed)
  /\ Waiting(ch, dir) => chan_info[ch][dir].id = None
  /\ Current(ch, dir) =>
       Progress(ch, dir, at[Owner(ch, dir)].step, chan_info[ch][dir], desc[ch][dir], failed)
  /\ ~ Waiting(ch, dir) /\ ~ Current(ch, dir) => failed # {} \/ chan_info[ch][dir].id # None

\* What mp_init_ports has copied.
CopyInv(ch, dir) ==
  /\ failed = {} /\ scan[Owner(ch, dir)] > ch =>
       desc[ch][dir].remote = Owner(ch, Other(dir)) /\ desc[ch][dir].addr
  /\ ~ Queuing(ch) /\ desc[ch][dir].remote # None => desc[ch][Other(dir)].ready /\ desc[ch][dir].addr

PortInv ==
  /\ Types
  /\ \A c \in PortCore : CoreInv(c)
  /\ \A ch \in Chan, dir \in Dir : PublishInv(ch, dir) /\ CopyInv(ch, dir)
-----------------------------------------------------------------------------
\* The numbers above are those of the sequence of steps.
NumberOf(ch, dir, k, step) ==
  /\ step = "buffers" <=> k = BufferStep(ch, dir)
  /\ step = "init" <=> k = InitStep(ch, dir)
  /\ step = "address" <=> k = AddressStep(ch, dir)
  /\ step = "check" <=> k = CheckStep(ch, dir)
  /\ step = "id" <=> k = IdStep(ch, dir)

StepsAt(ch, dir) ==
  /\ Len(Steps(ch, dir)) = LastStep(ch, dir) /\ LastStep(ch, dir) \in 5 .. 7
  /\ \A k \in 1 .. LastStep(ch, dir) : NumberOf(ch, dir, k, Steps(ch, dir)[k])

LEMMA StepTable ==
  ASSUME NEW ch \in Chan, NEW dir \in Dir
  PROVE  StepsAt(ch, dir)
<1> USE DEF StepsAt, NumberOf, LastStep, BufferStep, InitStep, AddressStep, CheckStep, IdStep, Queuing
<1>1. CASE port_type[ch] = "QUEUING" /\ dir = "SOURCE"
  <2>1. Steps(ch, dir) = <<"alloc", "buffers", "check", "address", "id", "init">>
    BY <1>1, Zenon DEF Steps
  <2> QED
    BY <1>1, <2>1
<1>2. CASE port_type[ch] = "QUEUING" /\ dir = "SINK"
  <2>1. Steps(ch, dir) = <<"alloc", "buffers", "address", "id", "check", "init">>
    BY <1>2, Zenon DEF Steps
  <2> QED
    BY <1>2, <2>1
<1>3. CASE port_type[ch] = "SAMPLING" /\ dir = "SOURCE"
  <2>1. Steps(ch, dir) = <<"alloc", "alloc", "init", "address", "id">>
    BY <1>3, Zenon DEF Steps
  <2> QED
    BY <1>3, <2>1
<1>4. CASE port_type[ch] = "SAMPLING" /\ dir = "SINK"
  <2>1. Steps(ch, dir) = <<"alloc", "alloc", "buffers", "init", "address", "check", "id">>
    BY <1>4, Zenon DEF Steps
  <2> QED
    BY <1>4, <2>1
<1> QED
  BY <1>1, <1>2, <1>3, <1>4, PortsAssumption, Zenon DEF Dir

LEMMA OwnerIsCore ==
  ASSUME NEW ch \in Chan, NEW dir \in Dir
  PROVE  /\ Owner(ch, dir) \in PortCore /\ Owner(ch, Other(dir)) # Owner(ch, dir)
         /\ Other(dir) \in Dir /\ Other(dir) # dir /\ Other(Other(dir)) = dir
  BY PortsAssumption, Zenon DEF Owner, Other, Dir

LEMMA ChanFacts == None \notin Chan /\ None \notin PortCore /\ Chan \subseteq Int
  BY PortsAssumption DEF Chan, None

LEMMA PortInvInit == PortInit => PortInv
<1> SUFFICES ASSUME PortInit PROVE PortInv
  OBVIOUS
<1>1. Types
  BY PortsAssumption DEF PortInit, Types, NoPort, NotCalled, Dir, Entry, Descriptor, AtPort, FirstMessage
<1>2. ASSUME NEW c \in PortCore PROVE CoreInv(c)
  BY Zenon DEF PortInit, CoreInv, NoPort
<1>3. ASSUME NEW ch \in Chan, NEW dir \in Dir PROVE PublishInv(ch, dir) /\ CopyInv(ch, dir)
  <2>1. Waiting(ch, dir) /\ ~ Current(ch, dir)
    BY OwnerIsCore, ChanFacts, Zenon DEF PortInit, Waiting, Current, NoPort
  <2>2. scan[Owner(ch, dir)] = -1 /\ ch >= 0 /\ ch \in Int
    BY OwnerIsCore DEF PortInit, NotCalled, Chan
  <2> QED
    BY <2>1, <2>2 DEF PortInit, PublishInv, Published, CopyInv
<1> QED
  BY <1>1, <1>2, <1>3, Zenon DEF PortInv
-----------------------------------------------------------------------------
\* The port a core is creating.
Busy(c, step) ==
  /\ at[c].ch \in Chan /\ at[c].dir \in Dir /\ Owner(at[c].ch, at[c].dir) = c
  /\ <<at[c].ch, at[c].dir>> \notin todo[c]
  /\ at[c].step \in 1 .. LastStep(at[c].ch, at[c].dir)
  /\ LastStep(at[c].ch, at[c].dir) \in 5 .. 7
  /\ Len(Steps(at[c].ch, at[c].dir)) = LastStep(at[c].ch, at[c].dir)
  /\ NumberOf(at[c].ch, at[c].dir, at[c].step, step)
  /\ scan[c] = NotCalled

LEMMA CreatingFacts ==
  ASSUME PortInv, NEW c \in PortCore, NEW step, Creating(c, step)
  PROVE  Busy(c, step)
<1>1. CoreInv(c) /\ at[c] \in AtPort
  BY Zenon DEF PortInv, Types
<1>2. at[c].ch \in Chan /\ at[c].dir \in Dir /\ at[c].ch # None
  BY <1>1, Zenon DEF AtPort, Creating
<1>3. StepsAt(at[c].ch, at[c].dir)
  BY <1>2, StepTable, Zenon
<1>4. /\ Owner(at[c].ch, at[c].dir) = c /\ <<at[c].ch, at[c].dir>> \notin todo[c]
      /\ at[c].step \in 1 .. LastStep(at[c].ch, at[c].dir)
  BY <1>1, <1>2, Zenon DEF CoreInv
<1>5. scan[c] = NotCalled
  BY <1>1, <1>2 DEF CoreInv, NoPort
<1>6. NumberOf(at[c].ch, at[c].dir, at[c].step, step)
  BY <1>3, <1>4, Zenon DEF StepsAt, Creating
<1> QED
  BY <1>2, <1>3, <1>4, <1>5, <1>6, Zenon DEF Busy, StepsAt

\* Core c goes on to the next step, or ends its port; no other core moves.
OthersStay(c) ==
  /\ at' \in [PortCore -> AtPort]
  /\ \A d \in PortCore \ {c} : at'[d] = at[d]
Ends(c) == OthersStay(c) /\ at'[c] = NoPort
NextStep(c) ==
  /\ OthersStay(c)
  /\ IF at[c].step = LastStep(at[c].ch, at[c].dir) THEN at'[c] = NoPort
     ELSE at'[c].ch = at[c].ch /\ at'[c].dir = at[c].dir /\ at'[c].step = at[c].step + 1

LEMMA ProceedIsNext ==
  ASSUME PortInv, NEW c \in PortCore, NEW step, Busy(c, step), Proceed(c)
  PROVE  NextStep(c)
<1> DEFINE last == LastStep(at[c].ch, at[c].dir)
           new == IF at[c].step = last THEN NoPort ELSE [at[c] EXCEPT !.step = at[c].step + 1]
<1>1. at \in [PortCore -> AtPort] /\ at[c] \in AtPort
  BY Zenon DEF PortInv, Types
<1>2. at' = [at EXCEPT ![c] = new]
  BY Zenon DEF Busy, Proceed
<1>3. at[c].step \in 1 .. last /\ last \in 5 .. 7
  BY Zenon DEF Busy
<1>4. CASE at[c].step = last
  <2>1. new = NoPort
    BY <1>4, Zenon
  <2>2. NoPort \in AtPort
    BY DEF NoPort, AtPort, Dir
  <2> QED
    BY <1>1, <1>2, <1>4, <2>2, Zenon DEF NextStep, OthersStay
<1>5. CASE at[c].step # last
  <2>1. at[c].step + 1 \in 0 .. 7
    BY <1>3, <1>5
  <2>2. /\ new \in AtPort /\ new.ch = at[c].ch /\ new.dir = at[c].dir /\ new.step = at[c].step + 1
    BY <1>1, <1>5, <2>1, Zenon DEF AtPort
  <2> HIDE DEF new
  <2> QED
    BY <1>1, <1>2, <1>5, <2>2, Zenon DEF NextStep, OthersStay
<1> QED
  BY <1>4, <1>5, Zenon

LEMMA GiveUpEnds ==
  ASSUME PortInv, NEW c \in PortCore, GiveUp(c)
  PROVE  Ends(c)
<1>1. at \in [PortCore -> AtPort]
  BY Zenon DEF PortInv, Types
<1>2. NoPort \in AtPort
  BY DEF NoPort, AtPort, Dir
<1> QED
  BY <1>1, <1>2, Zenon DEF GiveUp, Ends, OthersStay

\* A core's own state decides about CoreInv.
LEMMA CoreInvSame ==
  ASSUME NEW d \in PortCore, CoreInv(d), at'[d] = at[d], todo'[d] = todo[d],
         scan'[d] = scan[d] \/ (todo[d] = {} /\ at[d] = NoPort)
  PROVE  CoreInv(d)'
  BY Zenon DEF CoreInv

\* A core that goes on with its port, or ends it, keeps to its own ports.
LEMMA CoreInvKept ==
  ASSUME PortInv, NEW c \in PortCore, NEW step, Busy(c, step),
         NextStep(c) \/ Ends(c), UNCHANGED <<todo, scan>>, NEW d \in PortCore
  PROVE  CoreInv(d)'
<1>1. CoreInv(d) /\ CoreInv(c)
  BY Zenon DEF PortInv
<1>2. CASE d # c
  <2>1. at'[d] = at[d]
    BY <1>2, Zenon DEF NextStep, Ends, OthersStay
  <2> QED
    BY <1>1, <2>1, CoreInvSame, Zenon
<1>3. CASE d = c
  <2>1. CASE at'[c] = NoPort
    <3>1. at'[c].ch = None
      BY <2>1 DEF NoPort
    <3> QED
      BY <1>1, <1>3, <2>1, <3>1, Zenon DEF CoreInv
  <2>2. CASE at'[c] # NoPort
    <3>1. /\ at'[c].ch = at[c].ch /\ at'[c].dir = at[c].dir /\ at'[c].step = at[c].step + 1
          /\ at[c].step # LastStep(at[c].ch, at[c].dir)
      BY <2>2, Zenon DEF NextStep, Ends
    <3>2. at[c].step + 1 \in 1 .. LastStep(at[c].ch, at[c].dir)
      BY <3>1 DEF Busy
    <3>3. at[c].ch # None /\ scan[c] = NotCalled
      BY ChanFacts, Zenon DEF Busy
    <3> QED
      BY <1>1, <1>3, <3>1, <3>2, <3>3, Zenon DEF CoreInv
  <2> QED
    BY <2>1, <2>2, Zenon
<1> QED
  BY <1>2, <1>3, Zenon
-----------------------------------------------------------------------------
\* What a creation step of core c may do to a port that is not the one being created.
Spared(ch, dir) ==
  /\ chan_info'[ch][dir] = chan_info[ch][dir]
  /\ desc'[ch][dir].mem = desc[ch][dir].mem /\ desc'[ch][dir].ready = desc[ch][dir].ready
  /\ failed \subseteq failed'

LEMMA PublishKept ==
  ASSUME NEW ch \in Chan, NEW dir \in Dir, PublishInv(ch, dir), Spared(ch, dir),
         Waiting(ch, dir)' <=> Waiting(ch, dir), Current(ch, dir)' <=> Current(ch, dir),
         Current(ch, dir) => at'[Owner(ch, dir)].step = at[Owner(ch, dir)].step
  PROVE  PublishInv(ch, dir)'
<1>1. failed' # {} \/ failed = {}
  BY Zenon DEF Spared
<1>2. Published(ch, dir, chan_info'[ch][dir], desc'[ch][dir], failed')
  BY DEF PublishInv, Published, Spared
<1>3. Current(ch, dir)' =>
        Progress(ch, dir, at'[Owner(ch, dir)].step, chan_info'[ch][dir], desc'[ch][dir], failed')
  BY Zenon DEF PublishInv, Progress, Spared
<1> QED
  BY <1>2, <1>3, Zenon DEF PublishInv, Spared

LEMMA OtherPortKept ==
  ASSUME PortInv, NEW c \in PortCore, NEW step, Busy(c, step), NextStep(c) \/ Ends(c), UNCHANGED todo,
         NEW ch \in Chan, NEW dir \in Dir, ch # at[c].ch \/ dir # at[c].dir, Spared(ch, dir)
  PROVE  PublishInv(ch, dir)'
<1>1. PublishInv(ch, dir) /\ Owner(ch, dir) \in PortCore
  BY OwnerIsCore, Zenon DEF PortInv
<1>2. Waiting(ch, dir)' <=> Waiting(ch, dir)
  BY Zenon DEF Waiting
<1>3. CASE Owner(ch, dir) # c
  <2>1. at'[Owner(ch, dir)] = at[Owner(ch, dir)]
    BY <1>1, <1>3, Zenon DEF NextStep, Ends, OthersStay
  <2>2. Current(ch, dir)' <=> Current(ch, dir)
    BY <2>1, Zenon DEF Current
  <2> QED
    BY <1>1, <1>2, <2>1, <2>2, PublishKept, Zenon
<1>4. CASE Owner(ch, dir) = c
  <2>1. ~ Current(ch, dir)
    BY <1>4, Zenon DEF Current
  <2>2. at'[c].ch = None \/ (at'[c].ch = at[c].ch /\ at'[c].dir = at[c].dir)
    BY DEF NextStep, Ends, NoPort
  <2>3. ~ Current(ch, dir)'
    BY <1>4, <2>2, ChanFacts, Zenon DEF Current
  <2> QED
    BY <1>1, <1>2, <2>1, <2>3, PublishKept, Zenon
<1> QED
  BY <1>3, <1>4, Zenon

\* The copies of mp_init_ports are not disturbed by the creation of ports.
LEMMA CopyKept ==
  ASSUME NEW ch \in Chan, NEW dir \in Dir, CopyInv(ch, dir), UNCHANGED scan, failed \subseteq failed',
         desc'[ch][dir].remote = desc[ch][dir].remote, desc'[ch][dir].addr = desc[ch][dir].addr,
         desc[ch][Other(dir)].ready => desc'[ch][Other(dir)].ready
  PROVE  CopyInv(ch, dir)'
  BY Zenon DEF CopyInv

\* The port of core c itself moves on by one step, or is finished.
Moves(c, step, ch, dir) ==
  /\ PublishInv(ch, dir) /\ Owner(ch, dir) = c /\ Current(ch, dir)
  /\ at[c].step \in 1 .. LastStep(ch, dir) /\ NumberOf(ch, dir, at[c].step, step)
  /\ ~ Waiting(ch, dir)'
  /\ \/ Current(ch, dir)' /\ at'[c].step = at[c].step + 1 /\ at[c].step # LastStep(ch, dir)
     \/ ~ Current(ch, dir)' /\ at[c].step = LastStep(ch, dir)

LEMMA OwnPortMoves ==
  ASSUME PortInv, NEW c \in PortCore, NEW step, Busy(c, step), NextStep(c), UNCHANGED todo,
         NEW ch \in Chan, NEW dir \in Dir, ch = at[c].ch, dir = at[c].dir
  PROVE  Moves(c, step, ch, dir)
<1>1. /\ Owner(ch, dir) = c /\ <<ch, dir>> \notin todo[c]
      /\ at[c].step \in 1 .. LastStep(ch, dir) /\ NumberOf(ch, dir, at[c].step, step)
  BY Zenon DEF Busy
<1>2. PublishInv(ch, dir)
  BY Zenon DEF PortInv
<1>3. Current(ch, dir) /\ ~ Waiting(ch, dir)'
  BY <1>1, Zenon DEF Current, Waiting
<1>4. CASE at[c].step # LastStep(ch, dir)
  <2>1. at'[c].ch = ch /\ at'[c].dir = dir /\ at'[c].step = at[c].step + 1
    BY <1>4, Zenon DEF NextStep
  <2>2. Current(ch, dir)'
    BY <1>1, <2>1, Zenon DEF Current
  <2> QED
    BY <1>1, <1>2, <1>3, <1>4, <2>1, <2>2, Zenon DEF Moves
<1>5. CASE at[c].step = LastStep(ch, dir)
  <2>1. at'[c].ch = None
    BY <1>5 DEF NextStep, NoPort
  <2>2. ~ Current(ch, dir)'
    BY <1>1, <2>1, ChanFacts, Zenon DEF Current
  <2> QED
    BY <1>1, <1>2, <1>3, <1>5, <2>2, Zenon DEF Moves
<1> QED
  BY <1>4, <1>5, Zenon

\* Only the initialisation and the id come last.
LEMMA NotLast ==
  ASSUME NEW ch \in Chan, NEW dir \in Dir, NEW k \in 1 .. LastStep(ch, dir), NEW step, NumberOf(ch, dir, k, step),
         step # "init", step # "id"
  PROVE  k # LastStep(ch, dir)
  BY Zenon DEF NumberOf, LastStep, InitStep, IdStep, Dir

\* Where the step finds its port.
AtStep(c, step, ch, dir, e, d) ==
  /\ at[c].step \in 1 .. LastStep(ch, dir) /\ NumberOf(ch, dir, at[c].step, step)
  /\ Progress(ch, dir, at[c].step, e, d, failed) /\ Published(ch, dir, e, d, failed)

LEMMA MovesFrom ==
  ASSUME NEW c \in PortCore, NEW step, NEW ch \in Chan, NEW dir \in Dir, Moves(c, step, ch, dir)
  PROVE  AtStep(c, step, ch, dir, chan_info[ch][dir], desc[ch][dir])
<1>1. PublishInv(ch, dir) /\ Current(ch, dir) /\ Owner(ch, dir) = c
  BY Zenon DEF Moves
<1>2. at[c].step \in 1 .. LastStep(ch, dir) /\ NumberOf(ch, dir, at[c].step, step)
  BY Zenon DEF Moves
<1> QED
  BY <1>1, <1>2, Zenon DEF PublishInv, AtStep

\* The port goes on, or is finished and has its id published.
LEMMA PublishMoves ==
  ASSUME NEW c \in PortCore, NEW step, NEW ch \in Chan, NEW dir \in Dir, Moves(c, step, ch, dir),
         at[c].step # LastStep(ch, dir) \/ chan_info'[ch][dir].id # None,
         Published(ch, dir, chan_info'[ch][dir], desc'[ch][dir], failed'),
         Progress(ch, dir, at[c].step + 1, chan_info'[ch][dir], desc'[ch][dir], failed')
  PROVE  PublishInv(ch, dir)'
<1>1. Owner(ch, dir) = c /\ ~ Waiting(ch, dir)'
  BY Zenon DEF Moves
<1>2. /\ Current(ch, dir)' => at'[c].step = at[c].step + 1
      /\ ~ Current(ch, dir)' => at[c].step = LastStep(ch, dir)
  BY Zenon DEF Moves
<1> QED
  BY <1>1, <1>2, Zenon DEF PublishInv

\* What a step does to the port it creates, and what it leaves alone.
OwnKept(c) == \A ch \in Chan, dir \in Dir : ch = at[c].ch /\ dir = at[c].dir => PublishInv(ch, dir)'
OthersKept(c) ==
  /\ failed \subseteq failed'
  /\ \A ch \in Chan, dir \in Dir :
       /\ ch # at[c].ch \/ dir # at[c].dir => Spared(ch, dir)
       /\ desc'[ch][dir].remote = desc[ch][dir].remote /\ desc'[ch][dir].addr = desc[ch][dir].addr
       /\ desc[ch][dir].ready => desc'[ch][dir].ready

LEMMA CreationStep ==
  ASSUME PortInv, NEW c \in PortCore, NEW step, Busy(c, step),
         NextStep(c) \/ Ends(c), UNCHANGED <<todo, scan>>, Types', OthersKept(c), OwnKept(c)
  PROVE  PortInv'
<1>1. ASSUME NEW d \in PortCore PROVE CoreInv(d)'
  BY CoreInvKept, Zenon
<1>2. ASSUME NEW ch \in Chan, NEW dir \in Dir PROVE PublishInv(ch, dir)'
  <2>1. CASE ch = at[c].ch /\ dir = at[c].dir
    BY <2>1, Zenon DEF OwnKept
  <2>2. CASE ch # at[c].ch \/ dir # at[c].dir
    <3>1. Spared(ch, dir)
      BY <2>2, Zenon DEF OthersKept
    <3> QED
      BY <2>2, <3>1, OtherPortKept, Zenon
  <2> QED
    BY <2>1, <2>2, Zenon
<1>3. ASSUME NEW ch \in Chan, NEW dir \in Dir PROVE CopyInv(ch, dir)'
  <2>1. CopyInv(ch, dir) /\ Other(dir) \in Dir
    BY OwnerIsCore, Zenon DEF PortInv
  <2>2. /\ desc'[ch][dir].remote = desc[ch][dir].remote /\ desc'[ch][dir].addr = desc[ch][dir].addr
        /\ desc[ch][Other(dir)].ready => desc'[ch][Other(dir)].ready
        /\ failed \subseteq failed'
    BY <2>1, Zenon DEF OthersKept
  <2> QED
    BY <2>1, <2>2, CopyKept, Zenon
<1> QED
  BY <1>1, <1>2, <1>3, Zenon DEF PortInv

\* A port that is given up after an allocation failed.
LEMMA OwnPortEnds ==
  ASSUME PortInv, NEW c \in PortCore, NEW step, Busy(c, step), Ends(c), UNCHANGED <<todo, chan_info, desc>>,
         failed \subseteq failed', failed' # {}
  PROVE  OwnKept(c)
<1> SUFFICES ASSUME NEW ch \in Chan, NEW dir \in Dir, ch = at[c].ch, dir = at[c].dir PROVE PublishInv(ch, dir)'
  BY Zenon DEF OwnKept
<1>1. PublishInv(ch, dir) /\ Owner(ch, dir) = c /\ <<ch, dir>> \notin todo[c]
  BY Zenon DEF PortInv, Busy
<1>2. at'[c].ch = None
  BY DEF Ends, NoPort
<1>3. ~ Waiting(ch, dir)'
  BY <1>1, Zenon DEF Waiting
<1>4. ~ Current(ch, dir)'
  BY <1>1, <1>2, ChanFacts, Zenon DEF Current
<1>5. Published(ch, dir, chan_info[ch][dir], desc[ch][dir], failed')
  BY <1>1, Zenon DEF PublishInv, Published
<1> QED
  BY <1>3, <1>4, <1>5, Zenon DEF PublishInv

LEMMA AllocKeeps ==
  ASSUME PortInv, NEW c \in PortCore, Alloc(c)
  PROVE  PortInv'
<1>1. Creating(c, "alloc") /\ UNCHANGED <<chan_info, desc, todo, scan, first>>
  BY Zenon DEF Alloc
<1>2. Busy(c, "alloc")
  BY <1>1, CreatingFacts, Zenon
<1>3. /\ (NextStep(c) /\ failed' = failed) \/ (Ends(c) /\ failed' = failed \cup {c})
      /\ spm_free' = spm_free \/ (spm_free[c] > 0 /\ spm_free' = [spm_free EXCEPT ![c] = spm_free[c] - 1])
  BY <1>2, ProceedIsNext, GiveUpEnds, Zenon DEF Alloc
<1>4. OthersStay(c) /\ failed \subseteq failed'
  BY <1>3, Zenon DEF NextStep, Ends
<1>5. Types'
  <2>1. Types
    BY Zenon DEF PortInv
  <2>2. spm_free' \in [PortCore -> Nat]
    BY <1>3, <2>1 DEF Types
  <2>3. failed' \subseteq PortCore
    BY <1>3, <2>1, Zenon DEF Types
  <2> QED
    BY <1>1, <1>4, <2>1, <2>2, <2>3, Zenon DEF Types, OthersStay
<1>6. OthersKept(c)
  BY <1>1, <1>4, Zenon DEF OthersKept, Spared
<1>7. CASE NextStep(c) /\ failed' = failed
  <2>1. ASSUME NEW ch \in Chan, NEW dir \in Dir, ch = at[c].ch, dir = at[c].dir PROVE PublishInv(ch, dir)'
    <3>1. Moves(c, "alloc", ch, dir)
      BY <1>1, <1>2, <1>7, <2>1, OwnPortMoves, Zenon
    <3>2. at[c].step # LastStep(ch, dir)
      BY <3>1, NotLast, Zenon DEF Moves
    <3>3. AtStep(c, "alloc", ch, dir, chan_info[ch][dir], desc[ch][dir])
      BY <3>1, MovesFrom, Zenon
    <3>4. Progress(ch, dir, at[c].step + 1, chan_info[ch][dir], desc[ch][dir], failed)
      BY <3>3 DEF AtStep, NumberOf, Progress, IdStep, BufferStep, CheckStep, AddressStep, InitStep
    <3>5. Published(ch, dir, chan_info[ch][dir], desc[ch][dir], failed)
      BY <3>3, Zenon DEF AtStep
    <3> QED
      BY <1>1, <1>7, <3>1, <3>2, <3>4, <3>5, PublishMoves, Zenon
  <2>2. OwnKept(c)
    BY <2>1, Zenon DEF OwnKept
  <2> QED
    BY <1>1, <1>2, <1>5, <1>6, <1>7, <2>2, CreationStep, Zenon
<1>8. CASE Ends(c) /\ failed' = failed \cup {c}
  <2>1. OwnKept(c)
    BY <1>1, <1>2, <1>8, OwnPortEnds, Zenon
  <2> QED
    BY <1>1, <1>2, <1>5, <1>6, <1>8, <2>1, CreationStep, Zenon
<1> QED
  BY <1>3, <1>7, <1>8, Zenon

\* An update of one end of one channel.
Updated(R, F, G, ch, dir, r) ==
  /\ G \in [Chan -> [Dir -> R]]
  /\ G[ch][dir] = r
  /\ \A ch1 \in Chan, dir1 \in Dir : ch1 # ch \/ dir1 # dir => G[ch1][dir1] = F[ch1][dir1]

LEMMA UpdateEnd ==
  ASSUME NEW R, NEW F \in [Chan -> [Dir -> R]], NEW ch \in Chan, NEW dir \in Dir, NEW r \in R, NEW G,
         G = [F EXCEPT ![ch] = [F[ch] EXCEPT ![dir] = r]]
  PROVE  Updated(R, F, G, ch, dir, r)
  BY Zenon DEF Updated

LEMMA AllocBuffersKeeps ==
  ASSUME PortInv, NEW c \in PortCore, AllocBuffers(c)
  PROVE  PortInv'
<1> DEFINE mch == at[c].ch
           mdir == at[c].dir
           got == spm_free[c] > 0
           new == [desc[mch][mdir] EXCEPT !.mem = got]
<1>1. Creating(c, "buffers") /\ UNCHANGED <<chan_info, todo, scan, first>> /\ Proceed(c)
  BY Zenon DEF AllocBuffers
<1>2. Busy(c, "buffers")
  BY <1>1, CreatingFacts, Zenon
<1>3. NextStep(c) /\ mch \in Chan /\ mdir \in Dir
  <2>1. NextStep(c)
    BY <1>1, <1>2, ProceedIsNext, Zenon
  <2> QED
    BY <1>2, <2>1, Zenon DEF Busy
<1>4. /\ spm_free' = [spm_free EXCEPT ![c] = IF got THEN @ - 1 ELSE @]
      /\ failed' = IF got THEN failed ELSE failed \cup {c}
      /\ desc' = [desc EXCEPT ![mch] = [desc[mch] EXCEPT ![mdir] = new]]
  BY Zenon DEF AllocBuffers
<1>5. Types /\ got \in BOOLEAN
  <2>1. Types
    BY Zenon DEF PortInv
  <2>2. got \in BOOLEAN
    OBVIOUS
  <2> QED
    BY <2>1, <2>2, Zenon
<1>6. spm_free' \in [PortCore -> Nat] /\ failed \subseteq failed' /\ failed' \subseteq PortCore /\ (got \/ failed' # {})
  <2>1. spm_free \in [PortCore -> Nat] /\ failed \subseteq PortCore
    BY <1>5, Zenon DEF Types
  <2>2. CASE got
    <3>1. spm_free' = [spm_free EXCEPT ![c] = spm_free[c] - 1] /\ failed' = failed /\ spm_free[c] - 1 \in Nat
      BY <1>4, <2>1, <2>2
    <3> QED
      BY <2>1, <2>2, <3>1, Zenon
  <2>3. CASE ~ got
    <3>1. spm_free' = [spm_free EXCEPT ![c] = spm_free[c]] /\ failed' = failed \cup {c}
      BY <1>4, <2>3, Zenon
    <3> QED
      BY <2>1, <3>1, Zenon
  <2> QED
    BY <2>2, <2>3, Zenon
<1> HIDE DEF got
<1>7. /\ new \in Descriptor /\ new.mem = got /\ new.remote = desc[mch][mdir].remote
      /\ new.addr = desc[mch][mdir].addr /\ new.ready = desc[mch][mdir].ready
  <2>1. desc[mch][mdir] \in Descriptor
    BY <1>3, <1>5 DEF Types
  <2> QED
    BY <1>5, <2>1, Zenon DEF Descriptor
<1> HIDE DEF new
<1>8. Updated(Descriptor, desc, desc', mch, mdir, new)
  <2>1. desc \in [Chan -> [Dir -> Descriptor]]
    BY <1>5, Zenon DEF Types
  <2> QED
    BY <1>3, <1>4, <1>7, <2>1, UpdateEnd, Zenon
<1>9. Types'
  BY <1>1, <1>3, <1>5, <1>6, <1>8, Zenon DEF Types, Updated, NextStep, OthersStay
<1>10. OthersKept(c)
  BY <1>1, <1>6, <1>7, <1>8, Zenon DEF OthersKept, Spared, Updated
<1>11. ASSUME NEW ch \in Chan, NEW dir \in Dir, ch = mch, dir = mdir PROVE PublishInv(ch, dir)'
  <2>1. Moves(c, "buffers", ch, dir)
    BY <1>1, <1>2, <1>3, <1>11, OwnPortMoves, Zenon
  <2>2. at[c].step # LastStep(ch, dir)
    BY <2>1, NotLast, Zenon DEF Moves
  <2>3. AtStep(c, "buffers", ch, dir, chan_info[ch][dir], desc[ch][dir])
    BY <2>1, MovesFrom, Zenon
  <2>4. desc'[ch][dir] = new /\ new.ready = desc[ch][dir].ready
    BY <1>7, <1>8, <1>11, Zenon DEF Updated
  <2>5. Progress(ch, dir, at[c].step + 1, chan_info[ch][dir], new, failed')
    BY <1>6, <1>7, <2>3, SMTT(30)
       DEF AtStep, NumberOf, Progress, IdStep, BufferStep, CheckStep, AddressStep, InitStep
  <2>6. Published(ch, dir, chan_info[ch][dir], new, failed')
    BY <1>6, <2>3, <2>4, Zenon DEF AtStep, Published
  <2> QED
    BY <1>1, <2>1, <2>2, <2>4, <2>5, <2>6, PublishMoves, Zenon
<1>12. OwnKept(c)
  BY <1>11, Zenon DEF OwnKept
<1> QED
  BY <1>1, <1>2, <1>3, <1>9, <1>10, <1>12, CreationStep, Zenon

LEMMA CheckKeeps ==
  ASSUME PortInv, NEW c \in PortCore, Check(c)
  PROVE  PortInv'
<1>1. Creating(c, "check") /\ UNCHANGED <<failed, spm_free, chan_info, desc, todo, scan, first>>
  BY Zenon DEF Check
<1>2. Busy(c, "check")
  BY <1>1, CreatingFacts, Zenon
<1>3. \/ NextStep(c) /\ desc[at[c].ch][at[c].dir].mem
      \/ Ends(c) /\ ~ desc[at[c].ch][at[c].dir].mem
  BY <1>2, ProceedIsNext, GiveUpEnds, Zenon DEF Check
<1>4. Types'
  BY <1>1, <1>3, Zenon DEF PortInv, Types, NextStep, Ends, OthersStay
<1>5. OthersKept(c)
  BY <1>1, Zenon DEF OthersKept, Spared
<1>6. CASE NextStep(c) /\ desc[at[c].ch][at[c].dir].mem
  <2>1. ASSUME NEW ch \in Chan, NEW dir \in Dir, ch = at[c].ch, dir = at[c].dir PROVE PublishInv(ch, dir)'
    <3>1. Moves(c, "check", ch, dir)
      BY <1>1, <1>2, <1>6, <2>1, OwnPortMoves, Zenon
    <3>2. at[c].step # LastStep(ch, dir)
      BY <3>1, NotLast, Zenon DEF Moves
    <3>3. AtStep(c, "check", ch, dir, chan_info[ch][dir], desc[ch][dir])
      BY <3>1, MovesFrom, Zenon
    <3>4. desc[ch][dir].mem
      BY <1>6, <2>1, Zenon
    <3>5. Progress(ch, dir, at[c].step + 1, chan_info[ch][dir], desc[ch][dir], failed)
      BY <3>3, <3>4 DEF AtStep, NumberOf, Progress, IdStep, AddressStep, InitStep
    <3>6. Published(ch, dir, chan_info[ch][dir], desc[ch][dir], failed)
      BY <3>3, Zenon DEF AtStep
    <3> QED
      BY <1>1, <3>1, <3>2, <3>5, <3>6, PublishMoves, Zenon
  <2>2. OwnKept(c)
    BY <2>1, Zenon DEF OwnKept
  <2> QED
    BY <1>1, <1>2, <1>4, <1>5, <1>6, <2>2, CreationStep, Zenon
<1>7. CASE Ends(c) /\ ~ desc[at[c].ch][at[c].dir].mem
  <2> DEFINE mch == at[c].ch
             mdir == at[c].dir
  <2>1. PublishInv(mch, mdir) /\ Current(mch, mdir) /\ Owner(mch, mdir) = c
    BY <1>2, Zenon DEF PortInv, Busy, Current
  <2>2. Progress(mch, mdir, at[c].step, chan_info[mch][mdir], desc[mch][mdir], failed)
    BY <2>1, Zenon DEF PublishInv
  <2>3. at[c].step \in 1 .. LastStep(mch, mdir) /\ NumberOf(mch, mdir, at[c].step, "check")
    BY <1>2, Zenon DEF Busy
  <2>4. failed # {}
    BY <1>7, <2>2, <2>3, SMTT(30) DEF Progress, NumberOf, BufferStep, CheckStep
  <2>5. OwnKept(c)
    BY <1>1, <1>2, <1>7, <2>4, OwnPortEnds, Zenon
  <2> QED
    BY <1>1, <1>2, <1>4, <1>5, <1>7, <2>5, CreationStep, Zenon
<1> QED
  BY <1>3, <1>6, <1>7, Zenon

LEMMA PublishAddressKeeps ==
  ASSUME PortInv, NEW c \in PortCore, PublishAddress(c)
  PROVE  PortInv'
<1> DEFINE mch == at[c].ch
           mdir == at[c].dir
           value == desc[mch][mdir].mem \/ (port_type[mch] = "SAMPLING" /\ mdir = "SOURCE")
           new == [chan_info[mch][mdir] EXCEPT !.addr = value]
<1>1. Creating(c, "address") /\ UNCHANGED <<failed, spm_free, desc, todo, scan, first>> /\ Proceed(c)
  BY Zenon DEF PublishAddress
<1>2. Busy(c, "address")
  BY <1>1, CreatingFacts, Zenon
<1>3. NextStep(c) /\ mch \in Chan /\ mdir \in Dir
  <2>1. NextStep(c)
    BY <1>1, <1>2, ProceedIsNext, Zenon
  <2> QED
    BY <1>2, <2>1, Zenon DEF Busy
<1>4. chan_info' = [chan_info EXCEPT ![mch] = [chan_info[mch] EXCEPT ![mdir] = new]]
  BY Zenon DEF PublishAddress
<1>5. Types
  BY Zenon DEF PortInv
<1>6. /\ value \in BOOLEAN
      /\ value <=> desc[mch][mdir].mem \/ BufferStep(mch, mdir) = 0
  <2>1. port_type[mch] \in {"QUEUING", "SAMPLING"} /\ mdir \in {"SOURCE", "SINK"}
    BY <1>3, PortsAssumption, Zenon DEF Dir
  <2>2. (port_type[mch] = "SAMPLING" /\ mdir = "SOURCE") <=> BufferStep(mch, mdir) = 0
    BY <2>1 DEF BufferStep, Queuing
  <2> QED
    BY <2>2, Zenon
<1> HIDE DEF value
<1>7. new \in Entry /\ (new.addr <=> value) /\ new.id = chan_info[mch][mdir].id
  <2>1. chan_info[mch][mdir] \in Entry
    BY <1>3, <1>5 DEF Types
  <2> QED
    BY <1>6, <2>1, Zenon DEF Entry
<1> HIDE DEF new
<1>8. Updated(Entry, chan_info, chan_info', mch, mdir, new)
  <2>1. chan_info \in [Chan -> [Dir -> Entry]]
    BY <1>5, Zenon DEF Types
  <2> QED
    BY <1>3, <1>4, <1>7, <2>1, UpdateEnd, Zenon
<1>9. Types'
  BY <1>1, <1>3, <1>5, <1>8, Zenon DEF Types, Updated, NextStep, OthersStay
<1>10. OthersKept(c)
  BY <1>1, <1>8, Zenon DEF OthersKept, Spared, Updated
<1>11. ASSUME NEW ch \in Chan, NEW dir \in Dir, ch = mch, dir = mdir PROVE PublishInv(ch, dir)'
  <2>1. Moves(c, "address", ch, dir)
    BY <1>1, <1>2, <1>3, <1>11, OwnPortMoves, Zenon
  <2>2. at[c].step # LastStep(ch, dir)
    BY <2>1, NotLast, Zenon DEF Moves
  <2>3. AtStep(c, "address", ch, dir, chan_info[ch][dir], desc[ch][dir])
    BY <2>1, MovesFrom, Zenon
  <2>4. /\ chan_info'[ch][dir] = new /\ new.id = chan_info[ch][dir].id
        /\ new.addr <=> desc[ch][dir].mem \/ BufferStep(ch, dir) = 0
    BY <1>6, <1>7, <1>8, <1>11, Zenon DEF Updated
  <2>5. new.id = None
    BY <2>3, <2>4, SMTT(30) DEF AtStep, NumberOf, Progress, IdStep, AddressStep
  <2>6. Progress(ch, dir, at[c].step + 1, new, desc[ch][dir], failed)
    BY <2>3, <2>4, SMTT(30) DEF AtStep, NumberOf, Progress, IdStep, BufferStep, CheckStep, InitStep
  <2>7. Published(ch, dir, new, desc[ch][dir], failed)
    BY <2>5, Zenon DEF Published
  <2> QED
    BY <1>1, <2>1, <2>2, <2>4, <2>6, <2>7, PublishMoves, Zenon
<1>12. OwnKept(c)
  BY <1>11, Zenon DEF OwnKept
<1> QED
  BY <1>1, <1>2, <1>3, <1>9, <1>10, <1>12, CreationStep, Zenon

LEMMA PublishIdKeeps ==
  ASSUME PortInv, NEW c \in PortCore, PublishId(c)
  PROVE  PortInv'
<1> DEFINE mch == at[c].ch
           mdir == at[c].dir
           new == [chan_info[mch][mdir] EXCEPT !.id = c]
<1>1. Creating(c, "id") /\ UNCHANGED <<failed, spm_free, desc, todo, scan, first>> /\ Proceed(c)
  BY Zenon DEF PublishId
<1>2. Busy(c, "id")
  BY <1>1, CreatingFacts, Zenon
<1>3. NextStep(c) /\ mch \in Chan /\ mdir \in Dir
  <2>1. NextStep(c)
    BY <1>1, <1>2, ProceedIsNext, Zenon
  <2> QED
    BY <1>2, <2>1, Zenon DEF Busy
<1>4. chan_info' = [chan_info EXCEPT ![mch] = [chan_info[mch] EXCEPT ![mdir] = new]]
  BY Zenon DEF PublishId
<1>5. Types
  BY Zenon DEF PortInv
<1>6. new \in Entry /\ new.id = c /\ new.addr = chan_info[mch][mdir].addr
  <2>1. chan_info[mch][mdir] \in Entry
    BY <1>3, <1>5 DEF Types
  <2> QED
    BY <2>1, Zenon DEF Entry
<1> HIDE DEF new
<1>7. Updated(Entry, chan_info, chan_info', mch, mdir, new)
  <2>1. chan_info \in [Chan -> [Dir -> Entry]]
    BY <1>5, Zenon DEF Types
  <2> QED
    BY <1>3, <1>4, <1>6, <2>1, UpdateEnd, Zenon
<1>8. Types'
  BY <1>1, <1>3, <1>5, <1>7, Zenon DEF Types, Updated, NextStep, OthersStay
<1>9. OthersKept(c)
  BY <1>1, <1>7, Zenon DEF OthersKept, Spared, Updated
<1>10. ASSUME NEW ch \in Chan, NEW dir \in Dir, ch = mch, dir = mdir PROVE PublishInv(ch, dir)'
  <2>1. Moves(c, "id", ch, dir)
    BY <1>1, <1>2, <1>3, <1>10, OwnPortMoves, Zenon
  <2>2. AtStep(c, "id", ch, dir, chan_info[ch][dir], desc[ch][dir])
    BY <2>1, MovesFrom, Zenon
  <2>3. /\ chan_info'[ch][dir] = new /\ new.addr = chan_info[ch][dir].addr
        /\ new.id = Owner(ch, dir) /\ new.id # None
    BY <1>6, <1>7, <1>10, <2>1, ChanFacts, Zenon DEF Updated, Moves
  <2>4. Progress(ch, dir, at[c].step + 1, new, desc[ch][dir], failed)
    BY <2>2, <2>3, SMTT(30) DEF AtStep, NumberOf, Progress, BufferStep, CheckStep, AddressStep, InitStep
  <2>5. Published(ch, dir, new, desc[ch][dir], failed)
    BY <2>2, <2>3, SMTT(30)
       DEF AtStep, NumberOf, Progress, Published, IdStep, BufferStep, CheckStep, AddressStep, InitStep
  <2> QED
    BY <1>1, <2>1, <2>3, <2>4, <2>5, PublishMoves, Zenon
<1>11. OwnKept(c)
  BY <1>10, Zenon DEF OwnKept
<1> QED
  BY <1>1, <1>2, <1>3, <1>8, <1>9, <1>11, CreationStep, Zenon

LEMMA InitPortKeeps ==
  ASSUME PortInv, NEW c \in PortCore, InitPort(c)
  PROVE  PortInv'
<1> DEFINE mch == at[c].ch
           mdir == at[c].dir
           new == [desc[mch][mdir] EXCEPT !.ready = TRUE]
<1>1. Creating(c, "init") /\ UNCHANGED <<failed, spm_free, chan_info, todo, scan>> /\ Proceed(c)
  BY Zenon DEF InitPort
<1>2. Busy(c, "init")
  BY <1>1, CreatingFacts, Zenon
<1>3. NextStep(c) /\ mch \in Chan /\ mdir \in Dir
  <2>1. NextStep(c)
    BY <1>1, <1>2, ProceedIsNext, Zenon
  <2> QED
    BY <1>2, <2>1, Zenon DEF Busy
<1>4. /\ desc' = [desc EXCEPT ![mch] = [desc[mch] EXCEPT ![mdir] = new]]
      /\ first' = [first EXCEPT ![mch] = "erased"] \/ first' = first
  BY Zenon DEF InitPort
<1>5. Types
  BY Zenon DEF PortInv
<1>6. first' \in [Chan -> FirstMessage]
  BY <1>4, <1>5, Zenon DEF Types, FirstMessage
<1>7. /\ new \in Descriptor /\ new.ready = TRUE /\ new.remote = desc[mch][mdir].remote
      /\ new.addr = desc[mch][mdir].addr /\ new.mem = desc[mch][mdir].mem
  <2>1. desc[mch][mdir] \in Descriptor
    BY <1>3, <1>5, Zenon DEF Types
  <2> QED
    BY <2>1, Zenon DEF Descriptor
<1> HIDE DEF new
<1>8. Updated(Descriptor, desc, desc', mch, mdir, new)
  <2>1. desc \in [Chan -> [Dir -> Descriptor]]
    BY <1>5, Zenon DEF Types
  <2> QED
    BY <1>3, <1>4, <1>7, <2>1, UpdateEnd, Zenon
<1>9. Types'
  BY <1>1, <1>3, <1>5, <1>6, <1>8, Zenon DEF Types, Updated, NextStep, OthersStay
<1>10. OthersKept(c)
  BY <1>1, <1>7, <1>8, Zenon DEF OthersKept, Spared, Updated
<1>11. ASSUME NEW ch \in Chan, NEW dir \in Dir, ch = mch, dir = mdir PROVE PublishInv(ch, dir)'
  <2>1. Moves(c, "init", ch, dir)
    BY <1>1, <1>2, <1>3, <1>11, OwnPortMoves, Zenon
  <2>2. AtStep(c, "init", ch, dir, chan_info[ch][dir], desc[ch][dir])
    BY <2>1, MovesFrom, Zenon
  <2>3. desc'[ch][dir] = new /\ new.ready = TRUE /\ new.mem = desc[ch][dir].mem
    BY <1>7, <1>8, <1>11, Zenon DEF Updated
  <2>4. Progress(ch, dir, at[c].step + 1, chan_info[ch][dir], new, failed)
    BY <2>2, <2>3, SMTT(30) DEF AtStep, NumberOf, Progress, IdStep, BufferStep, CheckStep, AddressStep
  <2>5. Published(ch, dir, chan_info[ch][dir], new, failed)
    BY <2>2, <2>3, Zenon DEF AtStep, Published
  <2>6. at[c].step = LastStep(ch, dir) => chan_info[ch][dir].id # None
    BY <2>2, SMTT(30) DEF AtStep, NumberOf, Progress, IdStep, LastStep, Dir
  <2> QED
    BY <1>1, <2>1, <2>3, <2>4, <2>5, <2>6, PublishMoves, Zenon
<1>12. OwnKept(c)
  BY <1>11, Zenon DEF OwnKept
<1> QED
  BY <1>1, <1>2, <1>3, <1>9, <1>10, <1>12, CreationStep, Zenon
-----------------------------------------------------------------------------
LEMMA CreateKeeps ==
  ASSUME PortInv, NEW c \in PortCore, Create(c)
  PROVE  PortInv'
<1>1. PICK port \in todo[c] :
        /\ at' = [at EXCEPT ![c] = [ch |-> port[1], dir |-> port[2], step |-> 1]]
        /\ todo' = [todo EXCEPT ![c] = @ \ {port}]
  BY Zenon DEF Create
<1>2. at[c] = NoPort /\ scan[c] = NotCalled /\ UNCHANGED <<failed, spm_free, chan_info, desc, scan, first>>
  BY Zenon DEF Create
<1>3. Types /\ CoreInv(c)
  BY Zenon DEF PortInv
<1> DEFINE mch == port[1]
           mdir == port[2]
           new == [ch |-> mch, dir |-> mdir, step |-> 1]
<1>4. /\ mch \in Chan /\ mdir \in Dir /\ port = <<mch, mdir>> /\ Owner(mch, mdir) = c
  <2>1. port \in Chan \X Dir
    BY <1>3, Zenon DEF Types
  <2>2. mch \in Chan /\ mdir \in Dir /\ port = <<mch, mdir>>
    BY <2>1
  <2> QED
    BY <1>3, <2>2, Zenon DEF CoreInv
<1>5. new \in AtPort /\ new.ch = mch /\ new.dir = mdir /\ new.step = 1
  BY <1>4 DEF AtPort
<1>6. at' = [at EXCEPT ![c] = new] /\ todo' = [todo EXCEPT ![c] = todo[c] \ {<<mch, mdir>>}]
  BY <1>1, <1>4, Zenon
<1> HIDE DEF new, mch, mdir
<1>7. /\ at' \in [PortCore -> AtPort] /\ at'[c] = new
      /\ \A d \in PortCore \ {c} : at'[d] = at[d] /\ todo'[d] = todo[d]
      /\ todo'[c] = todo[c] \ {<<mch, mdir>>}
  BY <1>3, <1>5, <1>6, Zenon DEF Types
<1>8. Types'
  <2>1. todo' \in [PortCore -> SUBSET (Chan \X Dir)]
    BY <1>3, <1>6, Zenon DEF Types
  <2> QED
    BY <1>2, <1>3, <1>7, <2>1, Zenon DEF Types
<1>9. ASSUME NEW d \in PortCore PROVE CoreInv(d)'
  <2>1. CASE d # c
    <3>1. CoreInv(d) /\ at'[d] = at[d] /\ todo'[d] = todo[d]
      BY <1>7, <2>1, Zenon DEF PortInv
    <3> QED
      BY <1>2, <3>1, CoreInvSame, Zenon
  <2>2. CASE d = c
    <3>1. StepsAt(mch, mdir)
      BY <1>4, StepTable, Zenon
    <3>2. 1 \in 1 .. LastStep(mch, mdir)
      BY <3>1 DEF StepsAt
    <3>3. mch # None
      BY <1>4, ChanFacts, Zenon
    <3> QED
      BY <1>2, <1>3, <1>4, <1>5, <1>7, <2>2, <3>2, <3>3, Zenon DEF CoreInv
  <2> QED
    BY <2>1, <2>2, Zenon
<1>10. ASSUME NEW ch \in Chan, NEW dir \in Dir PROVE PublishInv(ch, dir)'
  <2>1. PublishInv(ch, dir) /\ Owner(ch, dir) \in PortCore /\ Spared(ch, dir)
    BY <1>2, OwnerIsCore, Zenon DEF PortInv, Spared
  <2>2. CASE ch = mch /\ dir = mdir
    <3>1. Waiting(ch, dir)
      BY <1>4, <2>2, Zenon DEF Waiting
    <3>2. ~ Waiting(ch, dir)'
      BY <1>4, <1>7, <2>2, Zenon DEF Waiting
    <3>3. Current(ch, dir)' /\ at'[Owner(ch, dir)].step = 1
      BY <1>4, <1>5, <1>7, <2>2, Zenon DEF Current
    <3>4. Progress(ch, dir, 1, chan_info[ch][dir], desc[ch][dir], failed)
      BY <2>1, <3>1 DEF PublishInv, Progress, IdStep, BufferStep, CheckStep, AddressStep, InitStep
    <3> QED
      BY <1>2, <2>1, <3>2, <3>3, <3>4, Zenon DEF PublishInv
  <2>3. CASE ~ (ch = mch /\ dir = mdir)
    <3>1. Waiting(ch, dir)' <=> Waiting(ch, dir)
      BY <1>7, <2>1, <2>3, Zenon DEF Waiting
    <3>2. CASE Owner(ch, dir) # c
      <4>1. at'[Owner(ch, dir)] = at[Owner(ch, dir)]
        BY <1>7, <2>1, <3>2, Zenon
      <4>2. Current(ch, dir)' <=> Current(ch, dir)
        BY <4>1, Zenon DEF Current
      <4> QED
        BY <2>1, <3>1, <4>1, <4>2, PublishKept, Zenon
    <3>3. CASE Owner(ch, dir) = c
      <4>1. ~ Current(ch, dir)
        BY <1>2, <3>3, ChanFacts DEF Current, NoPort
      <4>2. ~ Current(ch, dir)'
        BY <1>5, <1>7, <2>3, <3>3, Zenon DEF Current
      <4> QED
        BY <2>1, <3>1, <4>1, <4>2, PublishKept, Zenon
    <3> QED
      BY <3>2, <3>3, Zenon
  <2> QED
    BY <2>2, <2>3, Zenon
<1>11. ASSUME NEW ch \in Chan, NEW dir \in Dir PROVE CopyInv(ch, dir)'
  <2>1. CopyInv(ch, dir)
    BY Zenon DEF PortInv
  <2> QED
    BY <1>2, <2>1, CopyKept, Zenon
<1> QED
  BY <1>8, <1>9, <1>10, <1>11, Zenon DEF PortInv

\* Steps of mp_init_ports leave alone what was published.
LEMMA ScanKeepsPublished ==
  ASSUME PortInv, UNCHANGED <<failed, chan_info, todo, at>>, NEW ch \in Chan, NEW dir \in Dir,
         desc'[ch][dir].mem = desc[ch][dir].mem, desc'[ch][dir].ready = desc[ch][dir].ready
  PROVE  PublishInv(ch, dir)'
<1>1. PublishInv(ch, dir) /\ Spared(ch, dir)
  BY Zenon DEF PortInv, Spared
<1>2. Waiting(ch, dir)' <=> Waiting(ch, dir)
  BY Zenon DEF Waiting
<1>3. /\ Current(ch, dir)' <=> Current(ch, dir)
      /\ at'[Owner(ch, dir)].step = at[Owner(ch, dir)].step
  BY Zenon DEF Current
<1> QED
  BY <1>1, <1>2, <1>3, PublishKept, Zenon

\* Such a step moves only core c's scan, by one channel.
Scans(c, from) ==
  /\ scan \in [PortCore -> -1 .. LastChan + 1] /\ LastChan \in Nat /\ from \in -1 .. LastChan /\ scan[c] = from
  /\ scan' \in [PortCore -> -1 .. LastChan + 1] /\ scan'[c] = from + 1
  /\ \A d \in PortCore \ {c} : scan'[d] = scan[d]
  /\ UNCHANGED <<failed, spm_free, chan_info, todo, at, first>>

LEMMA ScanMoves ==
  ASSUME PortInv, NEW c \in PortCore, NEW from \in -1 .. LastChan, scan[c] = from,
         scan' = [scan EXCEPT ![c] = from + 1], UNCHANGED <<failed, spm_free, chan_info, todo, at, first>>
  PROVE  Scans(c, from)
<1>1. scan \in [PortCore -> -1 .. LastChan + 1]
  BY Zenon DEF PortInv, Types
<1>2. LastChan \in Nat
  BY PortsAssumption, Zenon
<1>3. from + 1 \in -1 .. LastChan + 1
  BY <1>2
<1> QED
  BY <1>1, <1>2, <1>3, Zenon DEF Scans

\* What such a step has to show: that the channel it leaves behind is connected.
LEMMA ScanKeeps ==
  ASSUME PortInv, NEW c \in PortCore, NEW from, Scans(c, from), todo[c] = {}, at[c] = NoPort,
         desc' \in [Chan -> [Dir -> Descriptor]],
         \A ch \in Chan, dir \in Dir :
           desc'[ch][dir].mem = desc[ch][dir].mem /\ desc'[ch][dir].ready = desc[ch][dir].ready,
         \A ch \in Chan, dir \in Dir : ch # from \/ Owner(ch, dir) # c => desc'[ch][dir] = desc[ch][dir],
         \A ch \in Chan, dir \in Dir : ch = from /\ Owner(ch, dir) = c => CopyInv(ch, dir)'
  PROVE  PortInv'
<1>1. Types'
  BY Zenon DEF PortInv, Types, Scans
<1>2. ASSUME NEW d \in PortCore PROVE CoreInv(d)'
  <2>1. CoreInv(d) /\ at' = at /\ todo' = todo
    BY Zenon DEF PortInv, Scans
  <2>2. scan'[d] = scan[d] \/ d = c
    BY Zenon DEF Scans
  <2> QED
    BY <2>1, <2>2, CoreInvSame, Zenon
<1>3. ASSUME NEW ch \in Chan, NEW dir \in Dir PROVE PublishInv(ch, dir)'
  BY ScanKeepsPublished, Zenon DEF Scans
<1>4. ASSUME NEW ch \in Chan, NEW dir \in Dir, ch # from \/ Owner(ch, dir) # c PROVE CopyInv(ch, dir)'
  <2>1. Owner(ch, dir) \in PortCore /\ CopyInv(ch, dir) /\ ch \in Int /\ Other(dir) \in Dir
    BY OwnerIsCore, ChanFacts, Zenon DEF PortInv
  <2>2. scan'[Owner(ch, dir)] > ch => scan[Owner(ch, dir)] > ch
    <3>1. CASE Owner(ch, dir) # c
      BY <2>1, <3>1, Zenon DEF Scans
    <3>2. CASE Owner(ch, dir) = c
      <4>1. scan'[c] = from + 1 /\ scan[c] = from
        BY Zenon DEF Scans
      <4>2. from \in Int
        BY DEF Scans
      <4>3. from + 1 > ch => from > ch
        BY <1>4, <2>1, <3>2, <4>2
      <4> QED
        BY <3>2, <4>1, <4>3, Zenon
    <3> QED
      BY <3>1, <3>2, Zenon
  <2>3. /\ failed' = failed /\ desc'[ch][dir] = desc[ch][dir]
        /\ desc'[ch][Other(dir)].ready = desc[ch][Other(dir)].ready
    BY <1>4, <2>1, Zenon DEF Scans
  <2> QED
    BY <2>1, <2>2, <2>3, Zenon DEF CopyInv
<1> QED
  BY <1>1, <1>2, <1>3, <1>4, Zenon DEF PortInv

LEMMA InitPortsKeeps ==
  ASSUME PortInv, NEW c \in PortCore, InitPorts(c)
  PROVE  PortInv'
<1>1. /\ todo[c] = {} /\ at[c] = NoPort /\ scan[c] = -1 /\ scan' = [scan EXCEPT ![c] = 0]
      /\ UNCHANGED <<failed, spm_free, chan_info, desc, todo, at, first>>
  BY Zenon DEF InitPorts, NotCalled
<1>2. -1 \in -1 .. LastChan /\ -1 + 1 = 0
  BY PortsAssumption
<1>3. Scans(c, -1)
  BY <1>1, <1>2, ScanMoves, Zenon
<1>4. desc' \in [Chan -> [Dir -> Descriptor]]
  BY <1>1, Zenon DEF PortInv, Types
<1>5. \A ch \in Chan : ch # -1
  BY DEF Chan
<1> QED
  BY <1>1, <1>3, <1>4, <1>5, ScanKeeps

\* A core that has called mp_init_ports is done with its ports.
LEMMA ScanningFacts ==
  ASSUME PortInv, NEW c \in PortCore, scan[c] \in Chan
  PROVE  todo[c] = {} /\ at[c] = NoPort /\ scan[c] \in -1 .. LastChan
<1>1. CoreInv(c)
  BY Zenon DEF PortInv
<1>2. scan[c] # NotCalled /\ scan[c] \in -1 .. LastChan
  BY DEF Chan, NotCalled
<1> QED
  BY <1>1, <1>2, Zenon DEF CoreInv

\* A core skips only channels of which it has no port, unless memory ran out.
LEMMA SkipKeeps ==
  ASSUME PortInv, NEW c \in PortCore, SkipChannel(c)
  PROVE  PortInv'
<1>1. /\ scan[c] \in Chan /\ scan' = [scan EXCEPT ![c] = scan[c] + 1]
      /\ \A dir \in Dir : chan_info[scan[c]][dir].id # c
      /\ UNCHANGED <<failed, spm_free, chan_info, desc, todo, at, first>>
  BY Zenon DEF SkipChannel
<1>2. todo[c] = {} /\ at[c] = NoPort /\ scan[c] \in -1 .. LastChan
  BY <1>1, ScanningFacts, Zenon
<1>3. Scans(c, scan[c])
  BY <1>1, <1>2, ScanMoves, Zenon
<1>4. desc' \in [Chan -> [Dir -> Descriptor]]
  BY <1>1, Zenon DEF PortInv, Types
<1>5. ASSUME NEW ch \in Chan, NEW dir \in Dir, ch = scan[c], Owner(ch, dir) = c PROVE CopyInv(ch, dir)'
  <2>1. CopyInv(ch, dir) /\ PublishInv(ch, dir)
    BY Zenon DEF PortInv
  <2>2. ~ Waiting(ch, dir) /\ ~ Current(ch, dir)
    BY <1>2, <1>5, ChanFacts DEF Waiting, Current, NoPort
  <2>3. failed # {}
    BY <1>1, <1>5, <2>1, <2>2, Zenon DEF PublishInv, Published
  <2> QED
    BY <1>1, <2>1, <2>3, Zenon DEF CopyInv
<1> HIDE DEF Scans
<1> QED
  BY <1>1, <1>2, <1>3, <1>4, <1>5, ScanKeeps, Zenon

LEMMA ConnectKeeps ==
  ASSUME PortInv, NEW c \in PortCore, ConnectChannel(c)
  PROVE  PortInv'
<1> DEFINE mch == scan[c]
           mdir == Side(c, mch)
           there == chan_info[mch][Other(mdir)]
           new == [desc[mch][mdir] EXCEPT !.remote = there.id, !.addr = there.addr]
<1>1. /\ mch \in Chan /\ chan_info[mch][mdir].id = c /\ there.id # None
      /\ scan' = [scan EXCEPT ![c] = scan[c] + 1]
      /\ UNCHANGED <<failed, spm_free, chan_info, todo, at, first>>
      /\ desc' = [desc EXCEPT ![mch] = [desc[mch] EXCEPT ![mdir] = new]]
  BY Zenon DEF ConnectChannel
<1>2. mdir \in Dir /\ Other(mdir) \in Dir
  BY Zenon DEF Side, Other, Dir
<1>3. todo[c] = {} /\ at[c] = NoPort /\ scan[c] \in -1 .. LastChan
  BY <1>1, ScanningFacts, Zenon
<1>4. Scans(c, scan[c])
  BY <1>1, <1>3, ScanMoves, Zenon
<1>5. Types
  BY Zenon DEF PortInv
<1> HIDE DEF mdir
<1>6. /\ new \in Descriptor /\ new.remote = there.id /\ new.addr = there.addr
      /\ new.mem = desc[mch][mdir].mem /\ new.ready = desc[mch][mdir].ready
  <2>1. there \in Entry /\ desc[mch][mdir] \in Descriptor
    BY <1>1, <1>2, <1>5, Zenon DEF Types
  <2> HIDE DEF there
  <2> QED
    BY <2>1, Zenon DEF Descriptor, Entry
<1> HIDE DEF new
<1>7. Updated(Descriptor, desc, desc', mch, mdir, new)
  <2>1. desc \in [Chan -> [Dir -> Descriptor]]
    BY <1>5, Zenon DEF Types
  <2> QED
    BY <1>1, <1>2, <1>6, <2>1, UpdateEnd, Zenon
<1>8. /\ Owner(mch, mdir) = c /\ there.id = Owner(mch, Other(mdir)) /\ (failed = {} => there.addr)
      /\ ~ Queuing(mch) => desc[mch][Other(mdir)].ready /\ there.addr
  <2>1. PublishInv(mch, mdir) /\ PublishInv(mch, Other(mdir)) /\ c # None
    BY <1>1, <1>2, ChanFacts, Zenon DEF PortInv
  <2> QED
    BY <1>1, <2>1, Zenon DEF PublishInv, Published
<1> HIDE DEF there, mch
<1>9. ASSUME NEW ch \in Chan, NEW dir \in Dir, ch = mch, Owner(ch, dir) = c PROVE dir = mdir
  BY <1>2, <1>8, <1>9, PortsAssumption, Zenon DEF Owner, Dir
<1>10. /\ desc' \in [Chan -> [Dir -> Descriptor]] /\ desc'[mch][mdir] = new
       /\ \A ch \in Chan, dir \in Dir : ch # mch \/ dir # mdir => desc'[ch][dir] = desc[ch][dir]
  BY <1>7, Zenon DEF Updated
<1>11. \A ch \in Chan, dir \in Dir :
         desc'[ch][dir].mem = desc[ch][dir].mem /\ desc'[ch][dir].ready = desc[ch][dir].ready
  BY <1>6, <1>10, Zenon
<1>12. \A ch \in Chan, dir \in Dir : ch # mch \/ Owner(ch, dir) # c => desc'[ch][dir] = desc[ch][dir]
  BY <1>8, <1>10, Zenon
<1>13. ASSUME NEW ch \in Chan, NEW dir \in Dir, ch = mch, Owner(ch, dir) = c PROVE CopyInv(ch, dir)'
  <2>1. dir = mdir /\ Other(dir) \in Dir
    BY <1>2, <1>9, <1>13, Zenon
  <2>2. /\ desc'[ch][dir].remote = Owner(ch, Other(dir)) /\ (failed' = {} => desc'[ch][dir].addr)
        /\ ~ Queuing(ch) => desc'[ch][Other(dir)].ready /\ desc'[ch][dir].addr
    BY <1>1, <1>6, <1>8, <1>10, <1>13, <2>1
  <2> QED
    BY <2>2, Zenon DEF CopyInv
<1> QED
  BY <1>3, <1>4, <1>10, <1>11, <1>12, <1>13, ScanKeeps, Zenon DEF mch

\* The first message does not concern the start-up.
LEMMA FirstKeeps ==
  ASSUME PortInv, UNCHANGED <<spm_free, chan_info, desc, todo, at, scan, failed>>,
         first' \in [Chan -> FirstMessage]
  PROVE  PortInv'
<1>1. Types'
  BY Zenon DEF PortInv, Types
<1>2. ASSUME NEW d \in PortCore PROVE CoreInv(d)'
  BY Zenon DEF PortInv, CoreInv
<1>3. ASSUME NEW ch \in Chan, NEW dir \in Dir PROVE PublishInv(ch, dir)'
  BY ScanKeepsPublished, Zenon
<1>4. ASSUME NEW ch \in Chan, NEW dir \in Dir PROVE CopyInv(ch, dir)'
  BY CopyKept, Zenon DEF PortInv
<1> QED
  BY <1>1, <1>2, <1>3, <1>4, Zenon DEF PortInv

LEMMA PortInvariant == PortSpec => []PortInv
<1>1. PortInv /\ [PortNext]_portvars => PortInv'
  <2> SUFFICES ASSUME PortInv, [PortNext]_portvars PROVE PortInv'
    OBVIOUS
  <2>1. ASSUME NEW c \in PortCore, PortStep(c) PROVE PortInv'
    BY <2>1, CreateKeeps, AllocKeeps, AllocBuffersKeeps, CheckKeeps, PublishAddressKeeps, PublishIdKeeps,
       InitPortKeeps, InitPortsKeeps, SkipKeeps, ConnectKeeps, Zenon
       DEF PortStep
  <2>2. ASSUME NEW ch \in Chan, SendFirst(ch) \/ RecvFirst(ch) PROVE PortInv'
    <3>1. first' \in [Chan -> FirstMessage]
      <4>1. first \in [Chan -> FirstMessage]
        BY Zenon DEF PortInv, Types
      <4> QED
        BY <2>2, <4>1, Zenon DEF SendFirst, RecvFirst, FirstMessage
    <3> QED
      BY <2>2, <3>1, FirstKeeps, Zenon DEF SendFirst, RecvFirst
  <2>3. CASE UNCHANGED portvars
    BY <2>3, FirstKeeps, Zenon DEF portvars, PortInv, Types
  <2> QED
    BY <2>1, <2>2, <2>3, Zenon DEF PortNext
<1> QED
  BY PortInvInit, <1>1, PTL DEF PortSpec

\* The words of chan_info and of the descriptors keep their types.
THEOREM PortTypes == PortSpec => []PortTypeOK
<1>1. PortInv => PortTypeOK
  BY Zenon DEF PortInv, Types, PortTypeOK, Entry, Descriptor, AtPort, FirstMessage
<1> QED
  BY PortInvariant, <1>1, PTL

\* An id is never seen before what it stands for: a core that has returned from
\* mp_init_ports knows the other end of each of its channels, unless memory ran out, and a
\* sampling port is connected only to a port that is initialised; for any number of cores
\* and channels, whatever order each core creates its ports in.
THEOREM PortsAreConnected == PortSpec => []Connected
<1>1. PortInv => Connected
  <2> SUFFICES ASSUME PortInv, NEW ch \in Chan, NEW dir \in Dir
               PROVE  /\ failed = {} /\ Running(Owner(ch, dir)) =>
                           desc[ch][dir].remote = Owner(ch, Other(dir)) /\ desc[ch][dir].addr
                      /\ port_type[ch] = "SAMPLING" /\ desc[ch][dir].remote # None =>
                           desc[ch][Other(dir)].ready /\ desc[ch][dir].addr
    BY Zenon DEF Connected
  <2>1. CopyInv(ch, dir) /\ LastChan + 1 > ch
    BY PortsAssumption DEF PortInv, Chan
  <2> QED
    BY <2>1, Zenon DEF CopyInv, Running, Queuing
<1> QED
  BY PortInvariant, <1>1, PTL
==============================================================================
