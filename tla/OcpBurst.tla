------------------------------ MODULE OcpBurst -------------------------------
(***************************************************************************)
(* The two burst ports of a core, one of the instruction or method cache   *)
(* (left) and one of the data cache (right), and the circuit that joins    *)
(* them into one port to memory,                                           *)
(* hardware/src/main/scala/ocp/OcpBurst.scala: OcpBurstJoin in processors  *)
(* with a method cache, OcpBurstPriorityJoin with an instruction cache     *)
(* (patmos/Patmos.scala).                                                  *)
(*                                                                         *)
(* A word is abstracted to whose burst it belongs to and its place in the  *)
(* burst.  The arbiter between the cores and the memory is in another      *)
(* module; here accept[c] and resp[c] are what it answers core c in this   *)
(* cycle.  waits counts the cycles of a burst, or, of those, the ones that *)
(* matter (tick[c][s]).                                                    *)
(***************************************************************************)
EXTENDS Integers, Sequences, Functions

CONSTANTS arbcnt,     \* number of cores
          burstLength

ASSUME BurstOfWords == burstLength \in Nat \ {0, 1}

ArbCore == 0 .. arbcnt - 1
Side == {"left", "right"}
OtherSide == [left |-> "right", right |-> "left"]
LastWordOf == burstLength - 1

VARIABLES priority,   \* a parameter of the build: OcpBurstPriorityJoin or OcpBurstJoin
          ports,      \* ports[c][s]: the cache behind the port
          join,       \* join[c]: the registers of the join
          met         \* met[c]: both caches were at work since the data cache began to wait

ocpvars == <<priority, ports, join, met>>

NoSignal == [cmd |-> "IDLE", core |-> 0, side |-> "none", word |-> 0]
NoResp == <<>>

\* What the core sees when word k of its burst arrives, and when a write is done.
WordResp(c, s, k) == <<c, s, k>>
DoneResp(c, s) == <<c, s, burstLength>>

\* The signals of a cache.  The first word of a write comes with the command.
M(c, s) ==
  IF ports[c][s].st # "send" THEN NoSignal
  ELSE [cmd |-> IF ports[c][s].word = 0 THEN ports[c][s].cmd ELSE "IDLE", core |-> c, side |-> s,
        word |-> ports[c][s].word]

Selected(c, s) == M(c, s).cmd # "IDLE"
Quiet == [st |-> "idle", cmd |-> "IDLE", word |-> 0, waits |-> 0]

OcpInit ==
  /\ priority \in BOOLEAN
  /\ ports = [c \in ArbCore |-> [s \in Side |-> Quiet]]
  /\ \E selRightReg \in [ArbCore -> BOOLEAN] :   \* the one register without a reset value
       join = [c \in ArbCore |-> [left |-> FALSE, right |-> ~ priority /\ selRightReg[c], pendingResp |-> 0]]
  /\ met = [c \in ArbCore |-> FALSE]
-----------------------------------------------------------------------------
\* OcpBurstPriorityJoin: leftPendingReg and rightPendingReg are join[c].left and .right.
PriorityM(c) ==
  IF Selected(c, "left") /\ ~ join[c].right THEN M(c, "left")
  ELSE IF Selected(c, "right") /\ ~ Selected(c, "left") /\ ~ join[c].left THEN M(c, "right")
  ELSE IF join[c].right THEN M(c, "right") ELSE M(c, "left")

PriorityAccepts(c, s) ==
  /\ ~ join[c][OtherSide[s]]
  /\ s = "right" => ~ (Selected(c, "left") /\ ~ join[c].right)

\* The side whose request is forwarded becomes pending.
PriorityStarts(c, s) ==
  Selected(c, s) /\ ~ join[c][OtherSide[s]] /\ (s = "right" => ~ Selected(c, "left"))

PriorityStep(c, r) ==
  LET started == {s \in Side : PriorityStarts(c, s)}
      last == r # NoResp /\ join[c].pendingResp = 1
      Pending(s) == IF last /\ join[c][s] THEN FALSE ELSE join[c][s] \/ s \in started IN
  [left |-> Pending("left"), right |-> Pending("right"),
   pendingResp |-> IF r # NoResp THEN join[c].pendingResp - 1
                   ELSE IF started = {} THEN join[c].pendingResp
                   ELSE IF \E s \in started : M(c, s).cmd = "WR" THEN 1 ELSE burstLength]

\* OcpBurstJoin: selRightReg is join[c].right.
SelRight(c) == IF Selected(c, "left") THEN FALSE ELSE Selected(c, "right") \/ join[c].right

JoinedM(c) == IF priority THEN PriorityM(c) ELSE IF SelRight(c) THEN M(c, "right") ELSE M(c, "left")
Accepts(c, s) == priority => PriorityAccepts(c, s)

\* The port that gets the response.
Answers(c, s) == IF priority THEN join[c][s] ELSE join[c].right = (s = "right")

JoinStep(c, r) ==
  IF priority THEN PriorityStep(c, r)
  ELSE [left |-> FALSE, right |-> SelRight(c), pendingResp |-> 0]
-----------------------------------------------------------------------------
\* The caches.  With a method cache only one of them is at work.  An instruction cache may
\* miss while the data cache is at work, but once: then the pipeline stands still.  The data
\* cache writes a line back with one burst and fills it with the next.
Working(c, s) == ports[c][s].st # "idle"
PortRequests(c) ==
  {go \in [Side -> {"IDLE", "RD", "WR"}] :
     /\ \A s \in Side : Working(c, s) => go[s] = "IDLE"
     /\ go["left"] # "WR"
     /\ priority => ~ (Working(c, "right") /\ met[c] /\ go["left"] # "IDLE")
     /\ ~ priority => \A s \in Side : go[s] # "IDLE" => ~ Working(c, OtherSide[s]) /\ go[OtherSide[s]] = "IDLE"}

MaxWaits == 100

\* A cache keeps a command until it is accepted, then sends the other words of a write and
\* waits for the responses.  It does not look whether the last word is accepted.
PortStep(c, s, go, accept, r, tick) ==
  LET p == ports[c][s]
      Wait(q) == IF tick /\ q.waits < MaxWaits THEN [q EXCEPT !.waits = @ + 1] ELSE q IN
  CASE p.st = "idle" -> IF go = "IDLE" THEN p ELSE [Quiet EXCEPT !.st = "send", !.cmd = go]
    [] p.st = "send" /\ p.word = LastWordOf -> Wait([p EXCEPT !.st = "resp", !.word = 0])
    [] p.st = "send" /\ p.word # LastWordOf /\ ~ accept -> Wait(p)
    [] p.st = "send" /\ p.word # LastWordOf /\ accept ->
         IF p.cmd = "RD" THEN Wait([p EXCEPT !.st = "resp"]) ELSE Wait([p EXCEPT !.word = @ + 1])
    [] p.st = "resp" /\ r = NoResp -> Wait(p)
    [] p.st = "resp" /\ r # NoResp ->
         IF p.cmd = "WR" \/ p.word = LastWordOf THEN Quiet ELSE Wait([p EXCEPT !.word = @ + 1])

\* A cycle of all ports and joins.
OcpStep(accept, resp, tick) ==
  /\ LET req == [c \in ArbCore |-> PortRequests(c)] IN
     \E go \in [ArbCore -> UNION Range(req)] :
       /\ \A c \in ArbCore : go[c] \in req[c]
       /\ ports' = [c \in ArbCore |-> [s \in Side |->
                      PortStep(c, s, go[c][s], accept[c] /\ Accepts(c, s),
                               IF Answers(c, s) THEN resp[c] ELSE NoResp, tick[c][s])]]
  /\ join' = [c \in ArbCore |-> JoinStep(c, resp[c])]
  /\ met' = [c \in ArbCore |-> ports'[c]["right"].st # "idle" /\ (met[c] \/ Working(c, "left"))]
  /\ UNCHANGED priority
-----------------------------------------------------------------------------
\* A response to core c reaches the one port that waits for it, and is the next word of the
\* burst that this port has asked for.
Exact(c, r) ==
  r # NoResp =>
    \E s \in Side :
      /\ Answers(c, s) /\ ~ Answers(c, OtherSide[s])
      /\ ports[c][s].st = "resp"
      /\ r = IF ports[c][s].cmd = "WR" THEN DoneResp(c, s) ELSE WordResp(c, s, ports[c][s].word)
=============================================================================
