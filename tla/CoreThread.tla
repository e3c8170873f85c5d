------------------------------ MODULE CoreThread -----------------------------
(***************************************************************************)
(* Threads on other cores, c/libcorethread/corethread.c: the master core   *)
(* hands a function to a worker core through boot_info in main memory and  *)
(* collects its result.  The loop of the workers is part of the C library; *)
(* corethread.c shows it as a comment.                                     *)
(*                                                                         *)
(* One action is one access to boot_info; the words of an entry that only  *)
(* its writer has touched since are taken together.  The threads of a core *)
(* are numbered from 1, and thread k exits with value k or, if it does not *)
(* call corethread_exit, with -1.                                          *)
(***************************************************************************)
EXTENDS Integers

CONSTANTS Worker,      \* the cores other than the master
          MaxThreads   \* bound: threads created on each of them

ASSUME ThreadAssumption == MaxThreads \in Nat

NoThread == 0          \* funcpoint NULL

VARIABLES mpc,         \* what the master does: <<operation, core>>
          mstatus,     \* boot_info->master.status
          slave,       \* boot_info->slave[w]: status, funcpoint, return_val
          wkpc,        \* position of each worker in corethread_worker
          func,        \* the worker's variable funcpoint: the thread it runs
          created, joined,  \* history: threads created and joined on each core,
          got, exits        \* what corethread_join returned last, and what the thread exited with

threadvars == <<mpc, mstatus, slave, wkpc, func, created, joined, got, exits>>

Main == <<"main", 0>>

\* The application has started; with the network, noc_sync has left INITDONE.
ThreadInit ==
  /\ mpc = Main /\ mstatus = "INIT"
  /\ slave \in {[w \in Worker |-> [status |-> s, funcpoint |-> NoThread, return_val |-> 0]] :
                  s \in {"INIT", "INITDONE"}}
  /\ wkpc = [w \in Worker |-> "start"] /\ func = [w \in Worker |-> NoThread]
  /\ created = [w \in Worker |-> 0] /\ joined = [w \in Worker |-> 0]
  /\ got = [w \in Worker |-> 0] /\ exits = [w \in Worker |-> 0]

Set(w, field, value) == slave' = [slave EXCEPT ![w][field] = value]
-----------------------------------------------------------------------------
\* corethread_create.  The calls that return EAGAIN change nothing.
CreateThread(w) ==
  /\ mpc = Main
  /\ slave[w].status # "INITDONE" /\ slave[w].funcpoint = NoThread
  /\ created[w] < MaxThreads
  /\ created' = [created EXCEPT ![w] = @ + 1]
  /\ Set(w, "funcpoint", created'[w])
  /\ mpc' = <<"create", w>>
  /\ UNCHANGED <<mstatus, wkpc, func, joined, got, exits>>

\* Mutant: corethread_create does not wait.
CreateReturnsAtOnce(w) ==
  /\ mpc = <<"create", w>>
  /\ mpc' = Main
  /\ UNCHANGED <<mstatus, slave, wkpc, func, created, joined, got, exits>>

CreateReturns(w) ==
  /\ mpc = <<"create", w>> /\ slave[w].status = "INITDONE"
  /\ mpc' = Main
  /\ UNCHANGED <<mstatus, slave, wkpc, func, created, joined, got, exits>>

\* corethread_join for a thread that was created.
Join(w) ==
  /\ mpc = Main /\ joined[w] < created[w]
  /\ mpc' = <<"join", w>>
  /\ UNCHANGED <<mstatus, slave, wkpc, func, created, joined, got, exits>>

JoinReads(w) ==
  /\ mpc = <<"join", w>> /\ slave[w].status = "RETURN"
  /\ got' = [got EXCEPT ![w] = slave[w].return_val]
  /\ mpc' = <<"clear", w>>
  /\ UNCHANGED <<mstatus, slave, wkpc, func, created, joined, exits>>

\* Mutant: funcpoint is left as it is.
JoinClearsNothing(w) ==
  /\ mpc = <<"clear", w>>
  /\ joined' = [joined EXCEPT ![w] = created[w]]
  /\ mpc' = Main
  /\ UNCHANGED <<mstatus, slave, wkpc, func, created, got, exits>>

JoinClears(w) ==
  /\ mpc = <<"clear", w>>
  /\ Set(w, "funcpoint", NoThread)
  /\ joined' = [joined EXCEPT ![w] = created[w]]
  /\ mpc' = Main
  /\ UNCHANGED <<mstatus, wkpc, func, created, got, exits>>

\* main returns after it has joined its threads; the boot loader waits for the slaves.
MainReturns ==
  /\ mpc = Main /\ joined = created /\ \A w \in Worker : slave[w].status = "RETURN"
  /\ mstatus' = "RETURN" /\ mpc' = <<"returned", 0>>
  /\ UNCHANGED <<slave, wkpc, func, created, joined, got, exits>>
-----------------------------------------------------------------------------
Moves(w, from, to) == wkpc[w] = from /\ wkpc' = [wkpc EXCEPT ![w] = to]

Says(w, from, to, field, value) ==
  Moves(w, from, to) /\ Set(w, field, value) /\ UNCHANGED <<mpc, mstatus, func, created, joined, got, exits>>

Sees(w, from, to) ==
  Moves(w, from, to) /\ UNCHANGED <<mpc, mstatus, slave, func, created, joined, got, exits>>

WorkerStarts(w) == Says(w, "start", "loop", "status", "RETURN")
WorkerLoops(w) == Sees(w, "loop", IF mstatus = "RETURN" THEN "end" ELSE "look")
WorkerLooks(w) ==
  /\ Moves(w, "look", IF slave[w].funcpoint = NoThread THEN "loop" ELSE "begin")
  /\ func' = [func EXCEPT ![w] = slave[w].funcpoint]
  /\ UNCHANGED <<mpc, mstatus, slave, created, joined, got, exits>>
WorkerBegins(w) == Says(w, "begin", "call", "return_val", -1)
WorkerCalls(w) == Says(w, "call", "run", "status", "INITDONE")

\* corethread_exit, which returns to the thread; or the thread returns without it.
ThreadExits(w) ==
  /\ Moves(w, "run", "exit") /\ Set(w, "return_val", func[w])
  /\ exits' = [exits EXCEPT ![w] = func[w]]
  /\ UNCHANGED <<mpc, mstatus, func, created, joined, got>>
ExitReturns(w) == Says(w, "exit", "exited", "status", "RETURN")
ThreadEnds(w) ==
  /\ \/ Moves(w, "run", "returned") /\ exits' = [exits EXCEPT ![w] = -1]
     \/ Moves(w, "exited", "returned") /\ UNCHANGED exits
  /\ UNCHANGED <<mpc, mstatus, slave, func, created, joined, got>>
WorkerReturns(w) == Says(w, "returned", "spin", "status", "RETURN")
WorkerSpins(w) == slave[w].funcpoint = NoThread /\ Sees(w, "spin", "loop")
WorkerEnds(w) == Says(w, "end", "done", "status", "RETURN")

Works(w) ==
  \/ WorkerStarts(w) \/ WorkerLoops(w) \/ WorkerLooks(w) \/ WorkerBegins(w) \/ WorkerCalls(w)
  \/ ThreadExits(w) \/ ExitReturns(w) \/ ThreadEnds(w) \/ WorkerReturns(w) \/ WorkerSpins(w) \/ WorkerEnds(w)

Mains(w) == CreateReturns(w) \/ JoinReads(w) \/ JoinClears(w)

ThreadNext == MainReturns \/ \E w \in Worker : CreateThread(w) \/ Join(w) \/ Mains(w) \/ Works(w)

ThreadSpec == ThreadInit /\ [][ThreadNext]_threadvars

\* The cores keep running; main need not create or join threads.
ThreadFairSpec ==
  /\ ThreadSpec
  /\ \A w \in Worker : WF_threadvars(Mains(w)) /\ WF_threadvars(Works(w))
-----------------------------------------------------------------------------
\* The words of boot_info have their types.
ThreadTypeOK ==
  /\ slave \in [Worker -> [status : {"INIT", "INITDONE", "RETURN"}, funcpoint : 0 .. MaxThreads,
                           return_val : -1 .. MaxThreads]]
  /\ mstatus \in {"INIT", "RETURN"} /\ func \in [Worker -> 0 .. MaxThreads]

\* What corethread_join returns is what the thread that corethread_create started last on
\* this core exited with, not what an earlier one left; and a worker that has not exited
\* runs that thread.
JoinGetsResult ==
  \A w \in Worker :
    /\ mpc = Main /\ created[w] # 0 /\ joined[w] = created[w] =>
         got[w] \in {created[w], -1} /\ got[w] = exits[w]
    /\ wkpc[w] \in {"run", "exit"} => func[w] = created[w]

\* corethread_create returns: corethread.h promises 0 or EAGAIN.
CreateEnds == \A w \in Worker : mpc = <<"create", w>> ~> mpc = Main

\* Worker w waits for corethread_join while corethread_create waits for it: it has not seen
\* NULL since its last thread, or the new one was over before INITDONE was seen.
Missed(w) == mpc = <<"create", w>> /\ wkpc[w] = "spin" /\ slave[w].status = "RETURN"

\* A thread that was created is joined, however long it runs and the worker takes; when main
\* has returned every worker leaves its loop; and corethread_create does not return only if
\* the worker waits for the join.
ThreadsEnd ==
  \A w \in Worker :
    /\ mpc = <<"join", w>> ~> mpc = Main
    /\ mpc = <<"returned", 0>> ~> wkpc[w] = "done"
    /\ mpc = <<"create", w>> ~> mpc = Main \/ Missed(w)
==============================================================================
