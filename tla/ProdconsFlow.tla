----------------------------- MODULE ProdconsFlow ----------------------------
(***************************************************************************)
(* Flow control with credits over the network on chip,                     *)
(* c/apps/s4noc/prodcons_flow.c, on nine cores.  Core 0 sends a token for  *)
(* every credit it gets; core 7 sends a credit for every token.  Neither   *)
(* looks whether its FIFO is free, except for the first credits.           *)
(*                                                                         *)
(* A load or a store takes at least a cycle; what a core does in between   *)
(* takes any number of cycles.  After the last token main prints, which    *)
(* takes long enough for core 7 to be done; so the loop that would feed    *)
(* more tokens does not run.                                               *)
(***************************************************************************)
EXTENDS S4noc, FiniteSets

CONSTANTS Credits,  \* values of NR_CREDITS
          LEN       \* tokens sent

ASSUME FlowAssumption == Credits \subseteq Nat \ {0} /\ LEN \in Nat \ {0}

VARIABLE flow       \* the two programs: positions and counters

rcv == 7
Token == <<0, 0>>     \* SEND_SLOT
Credit == <<rcv, 3>>  \* CREDIT_SLOT_9
FlowNet == [n |-> 3, streams |-> {Token, Credit}]

FlowInit ==
  flow \in [main : {"start"}, work : {"free"}, NR_CREDITS : Credits,
            inserted : {0}, tokens : {0}, received : {0}]

\* Mutant: a token is sent without a credit.
mainNoWait(f) ==
  CASE f.main = "start" -> IF f.inserted = f.NR_CREDITS THEN [f EXCEPT !.main = "send"] ELSE f
    [] f.main = "send" -> [f EXCEPT !.tokens = @ + 1, !.main = IF f.tokens + 1 = LEN THEN "end" ELSE "send"]
    [] f.main \in {"credit", "consume", "end"} -> f

\* main, from the loop that waits for started on.
main(f) ==
  CASE f.main = "start" -> IF f.inserted = f.NR_CREDITS THEN [f EXCEPT !.main = "credit"] ELSE f
    [] f.main = "credit" -> IF RxReady(0) THEN [f EXCEPT !.main = "consume"] ELSE f
    [] f.main = "consume" -> [f EXCEPT !.main = "send"]
    [] f.main = "send" -> [f EXCEPT !.tokens = @ + 1, !.main = IF f.tokens + 1 = LEN THEN "end" ELSE "credit"]
    [] f.main = "end" -> f

work(f) ==
  CASE f.work = "free" -> IF TxFree(rcv) THEN [f EXCEPT !.work = "insert"] ELSE f
    [] f.work = "insert" ->
         [f EXCEPT !.inserted = @ + 1, !.work = IF f.inserted + 1 = f.NR_CREDITS THEN "wait" ELSE "free"]
    [] f.work = "wait" -> IF RxReady(rcv) THEN [f EXCEPT !.work = "poll"] ELSE f
    [] f.work = "poll" -> IF RxReady(rcv) THEN [f EXCEPT !.work = "read"] ELSE f
    [] f.work = "read" -> [f EXCEPT !.received = @ + 1, !.work = "send"]
    [] f.work = "send" -> [f EXCEPT !.work = IF f.received = LEN THEN "done" ELSE "poll"]
    [] f.work = "done" -> f

\* A clock cycle in which the cores of the set go execute a load or a store.
FlowCycle(go) ==
  /\ flow' = LET f == IF 0 \in go THEN main(flow) ELSE flow IN IF rcv \in go THEN work(f) ELSE f
  /\ S4Cycle({s \in {Token} : 0 \in go /\ flow.main = "send"}
               \cup {s \in {Credit} : rcv \in go /\ flow.work \in {"insert", "send"}},
             {r \in {0} : 0 \in go /\ flow.main = "consume"} \cup {r \in {rcv} : rcv \in go /\ flow.work = "read"})

FlowNext == \E go \in SUBSET {0, rcv} : FlowCycle(go)
-----------------------------------------------------------------------------
\* The tokens and credits in the FIFOs and on their way.
InFlight ==
  InFifos(inFifo) \cup InFifos(outFifo) \cup {word \in OnLinks : word.num > arrived[Stream(word)]}

Held == Cardinality({f \in {"main", "work"} : flow[f] = "send"})

\* With at most as many credits as a FIFO has registers no store and no word that arrives
\* finds its FIFO full, so tokens and credits together always are NR_CREDITS, and tokens
\* are received in the order they were sent: what the comment in main relies on, "we know
\* there will be a free slot for each received credit".
CreditsKept ==
  /\ Cardinality(InFlight) + Held + (flow.NR_CREDITS - flow.inserted) = flow.NR_CREDITS
  /\ flow.work = "read" => InData(rcv) = [src |-> 0, time |-> 0, num |-> flow.received + 1]
==============================================================================
