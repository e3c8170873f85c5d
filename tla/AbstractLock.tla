----------------------------- MODULE AbstractLock ----------------------------
(***************************************************************************)
(* What acquire_lock and release_lock (c/libmp/lock.c) promise their       *)
(* callers, and what c/libmp/sampling.c relies on: a lock whose operations *)
(* are atomic, held by at most one core, granted to everyone who waits.    *)
(***************************************************************************)
CONSTANT Core

VARIABLE client   \* per core: "idle", "waiting" in acquire_lock, or "holding"

Init == client = [c \in Core |-> "idle"]

Move(c, from, to) == client[c] = from /\ client' = [client EXCEPT ![c] = to]

Request(c) == Move(c, "idle", "waiting")

Grant(c) ==
  /\ \A d \in Core : client[d] # "holding"
  /\ Move(c, "waiting", "holding")

Yield(c) == Move(c, "holding", "idle")

Next == \E c \in Core : Request(c) \/ Grant(c) \/ Yield(c)

Spec == Init /\ [][Next]_client

\* Holders give the lock back, and a core that waits is not passed over forever.
FairSpec == Spec /\ \A c \in Core : SF_client(Grant(c)) /\ WF_client(Yield(c))
==============================================================================
