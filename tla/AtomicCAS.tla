------------------------------ MODULE AtomicCAS ------------------------------
(***************************************************************************)
(* What the compare-and-swap scratchpad promises: a memory on which each   *)
(* compare-and-swap takes effect in one step between its call and its      *)
(* return, and returns the value it found.                                 *)
(***************************************************************************)
EXTENDS Integers

CONSTANTS Core, Addr, Data

VARIABLES mem, call   \* call[c]: what core c has asked for or been told

Idle == [is |-> "idle"]
Pending == [is : {"pending"}, addr : Addr, exp : Data, new : Data]
Done == [is : {"done"}, old : Data]

Init == mem \in [Addr -> Data] /\ call = [c \in Core |-> Idle]

\* A core calls, returns from its call or does neither.
CallOrReturn(c) ==
  call'[c] = call[c] \/ (call[c] \notin Pending /\ call'[c] \in Pending \cup {Idle})

\* The operation of core c takes effect.
Swap(c) ==
  LET p == call[c] IN
  /\ p \in Pending
  /\ mem' = IF mem[p.addr] = p.exp THEN [mem EXCEPT ![p.addr] = p.new] ELSE mem
  /\ call'[c] = [is |-> "done", old |-> mem[p.addr]]

Next ==
  /\ call' \in [Core -> {Idle} \cup Pending \cup Done]
  /\ \/ mem' = mem /\ \A c \in Core : CallOrReturn(c)
     \/ \E c \in Core : Swap(c) /\ \A d \in Core \ {c} : CallOrReturn(d)

Spec == Init /\ [][Next]_<<mem, call>>
==============================================================================
