-------------------------------- MODULE S4noc --------------------------------
(***************************************************************************)
(* The network on chip hardware/src/main/scala/s4noc: a torus of n x n     *)
(* routers that follow one static schedule, with a network interface per   *)
(* core.  A core sends by storing a word to the number of a slot; the word *)
(* waits in inFifo for that slot and is then passed from register to       *)
(* register until it drops into outFifo of the core where the slot leads.  *)
(*                                                                         *)
(* One step is one clock cycle.  A word is known by its sender, its slot   *)
(* and its number among those the sender sent in that slot.                *)
(***************************************************************************)
EXTENDS Integers, Sequences

LOCAL INSTANCE FiniteSetsExt

CONSTANTS Nets,          \* what is built and used, [n, streams]: a stream is <<core, slot>>
          txFifo, rxFifo,
          MaxWords,      \* bound: words sent in each stream
          NoWord         \* valid is FALSE, or the register of a FIFO is empty

ASSUME FifoAssumption == txFifo \in Nat \ {0} /\ rxFifo \in Nat \ {0}

VARIABLES net,           \* one of Nets
          regCounter, regDelay,  \* the same in all routers and network interfaces
          out,           \* per router and port: the register at its output
          inFifo, outFifo,
          sent, arrived  \* history: words taken into inFifo and arrived, per stream

s4vars == <<net, regCounter, regDelay, out, inFifo, outFifo, sent, arrived>>

Port == {"n", "e", "s", "w", "l"}
Node == 0 .. net.n * net.n - 1
-----------------------------------------------------------------------------
\* ScheduleTable: where a word goes from the slot "at" on.
Row(at, go) == [at |-> at, go |-> go]
FourNodes == <<Row(0, <<"n", "e", "l">>), Row(2, <<"n", "l">>), Row(3, <<"e", "l">>)>>
NineNodes ==
  <<Row(0, <<"n", "e", "l">>), Row(1, <<"n", "w", "l">>), Row(2, <<"e", "s", "l">>),
    Row(3, <<"w", "s", "l">>), Row(5, <<"n", "l">>), Row(6, <<"e", "l">>), Row(7, <<"s", "l">>),
    Row(8, <<"w", "l">>)>>
Split == [n \in 2 .. 3 |-> IF n = 2 THEN FourNodes ELSE NineNodes]

SlotsOf(row) == {row.at + k - 1 : k \in DOMAIN row.go}
ScheduleLength == [n \in 2 .. 3 |-> Max(UNION {SlotsOf(Split[n][i]) : i \in DOMAIN Split[n]}) + 1]

\* The port at which what leaves through a port enters the next router.
nextFrom(port) == CASE port = "n" -> "s" [] port = "e" -> "w" [] port = "s" -> "n" [] port = "w" -> "e"

\* Where the k-th hop of a row comes from.
From(row, k) == IF k = 1 THEN "l" ELSE nextFrom(row.go[k - 1])

\* getSchedule: for a slot and an output the input.  What no row sets is 0, which is NORTH.
getSchedule ==
  [n \in 2 .. 3 |-> [slot \in 0 .. ScheduleLength[n] - 1 |-> [port \in Port |->
    LET split == Split[n]
        rows == {i \in DOMAIN split : slot \in SlotsOf(split[i]) /\ split[i].go[slot - split[i].at + 1] = port}
    IN  IF rows = {} THEN "n" ELSE From(split[Max(rows)], slot - split[Max(rows)].at + 1)]]]

\* Network: the router next to router r.
Neighbour(r, port) ==
  LET n == net.n i == r \div n j == r % n
  IN  CASE port = "n" -> ((i + n - 1) % n) * n + j   [] port = "s" -> ((i + 1) % n) * n + j
        [] port = "w" -> i * n + ((j + n - 1) % n)   [] port = "e" -> i * n + ((j + 1) % n)
-----------------------------------------------------------------------------
S4Init ==
  /\ net \in Nets
  /\ regCounter = 0 /\ regDelay = 0
  /\ out = [r \in Node |-> [port \in Port |-> NoWord]]
  /\ inFifo = [r \in Node |-> [i \in 1 .. rxFifo |-> NoWord]]
  /\ outFifo = [r \in Node |-> [i \in 1 .. txFifo |-> NoWord]]
  /\ sent = [s \in net.streams |-> 0] /\ arrived = [s \in net.streams |-> 0]

\* BubbleFifo: an empty register takes the word of the register before it, a full one is
\* emptied into an empty one behind it.
BubbleFifo(fifo, din, read) ==
  [i \in DOMAIN fifo |->
     IF fifo[i] = NoWord THEN IF i = 1 THEN din ELSE fifo[i - 1]
     ELSE IF IF i = Len(fifo) THEN read ELSE fifo[i + 1] = NoWord THEN NoWord
     ELSE fifo[i]]

\* Status of the FIFOs as the core reads it at TX_FREE and RX_READY, and the word at IN_DATA.
TxFree(r) == inFifo[r][1] = NoWord
RxReady(r) == outFifo[r][txFifo] # NoWord
InData(r) == outFifo[r][txFifo]

\* Mutant: the word at the end of inFifo does not wait for its slot.
LocalAtOnce(r) == inFifo[r][rxFifo]

\* io.local.out: the word at the end of inFifo leaves in its slot.
Local(r) ==
  LET word == inFifo[r][rxFifo]
  IN  IF word # NoWord /\ word.time = regDelay THEN word ELSE NoWord

\* What is at an input of a router.
In(r, port) == IF port = "l" THEN Local(r) ELSE out[Neighbour(r, port)][nextFrom(port)]

Stream(word) == <<word.src, word.time>>
NextWord(s) == [src |-> s[1], time |-> s[2], num |-> sent[s] + 1]

\* The core to which the moves of a slot lead.
Dest(s) ==
  LET row == CHOOSE row \in {Split[net.n][i] : i \in DOMAIN Split[net.n]} : row.at = s[2]
      To[k \in 0 .. Len(row.go) - 1] == IF k = 0 THEN s[1] ELSE Neighbour(To[k - 1], row.go[k])
  IN  To[Len(row.go) - 1]

\* A clock cycle in which the cores store words of the streams S and the cores rd load
\* IN_DATA.  A word that finds the first register of a FIFO full is lost.
S4Cycle(S, rd) ==
  /\ regCounter' = (regCounter + 1) % ScheduleLength[net.n] /\ regDelay' = regCounter
  /\ out' = [r \in Node |-> [port \in Port |-> In(r, getSchedule[net.n][regDelay][port])]]
  /\ inFifo' = [r \in Node |->
       LET mine == {s \in S : s[1] = r}
       IN  BubbleFifo(inFifo[r], IF mine = {} THEN NoWord ELSE NextWord(CHOOSE s \in mine : TRUE),
                      Local(r) # NoWord)]
  /\ outFifo' = [r \in Node |-> BubbleFifo(outFifo[r], out[r]["l"], r \in rd)]
  /\ sent' = [s \in DOMAIN sent |-> IF s \in S /\ TxFree(s[1]) THEN sent[s] + 1 ELSE sent[s]]
  /\ arrived' = [s \in DOMAIN arrived |->
       LET word == out[Dest(s)]["l"]
       IN  IF word # NoWord /\ Stream(word) = s THEN word.num ELSE arrived[s]]
  /\ UNCHANGED net

\* Cores that send at any time, to cores that load every word as soon as they can.
S4Next ==
  \E S \in SUBSET {s \in net.streams : sent[s] < MaxWords} :
    /\ \A s, t \in S : s[1] = t[1] => s = t
    /\ S4Cycle(S, {r \in Node : RxReady(r) /\ \A s \in S : s[1] # r})
-----------------------------------------------------------------------------
\* Rows whose words pass a router again through entries of the schedule that no row sets.
Stray(s) == net.n = 3 /\ s[2] = 7

OnLinks == {out[r][port] : r \in Node, port \in Port} \ {NoWord}
InFifos(fifo) == UNION {{fifo[r][i] : i \in DOMAIN fifo[r]} : r \in Node} \ {NoWord}

\* A word that the network interface has taken comes out at the core to which the moves
\* of its slot lead, and only there, once and in the order of the stores, whatever other
\* cores send; until then it is in inFifo or on its way.
WordsDelivered ==
  /\ \A r \in Node :
       LET word == out[r]["l"]
       IN  word # NoWord /\ ~ Stray(Stream(word)) =>
             r = Dest(Stream(word)) /\ word.num = arrived[Stream(word)] + 1
  /\ \A s \in net.streams : \A k \in arrived[s] + 1 .. sent[s] :
       [src |-> s[1], time |-> s[2], num |-> k] \in OnLinks \cup InFifos(inFifo)

\* What c/apps/s4noc/bm_broadcast_bufferless.c lists for the slots of a core: one receiver
\* for each, SEND_SLOT_FORK_TO_CONSU {0, 1, 5, 6, 8, 7} and CONSUMER_CORE {3, 4, 5, 6, 7, 2}.
OneReceiver ==
  \A r \in Node : out[r]["l"] # NoWord => r = Dest(Stream(out[r]["l"]))
==============================================================================
