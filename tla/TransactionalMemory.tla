------------------------- MODULE TransactionalMemory -------------------------
(***************************************************************************)
(* The transactional memory, hardware/src/main/scala/cmp/                  *)
(* TransactionalMemory.scala.  Loads and stores of a core go to a buffer   *)
(* of its own; a load of the address 0x3FFF commits: it writes the buffer  *)
(* to the shared memory and returns 0, or returns -1 and empties the       *)
(* buffer.                                                                 *)
(*                                                                         *)
(* One step is one clock cycle.  corecur passes from core to core and      *)
(* stays with a core while it writes.  A core issues its next command at   *)
(* the earliest when its last one has been answered.  Which word is loaded *)
(* or stored plays no part in the control; a word of the shared memory is  *)
(* abstracted to when it was last written (stale, below).                  *)
(***************************************************************************)
EXTENDS Integers, Sequences

CONSTANTS tmcnt, NoAddr,
          TmUses,           \* programs: the addresses each core loads from and stores to
          Bufsizes          \* the values of bufsize that are built

\* With other sizes the last cycle of a commit can read past the end of the buffer.
ASSUME PowersOfTwo == \A b \in Bufsizes : \E k \in 1 .. b : b = 2 ^ k
ASSUME TmAssumption == tmcnt \in Nat \ {0} /\ Bufsizes \subseteq Nat \ {0}

TmCore == 0 .. tmcnt - 1

VARIABLES bufsize,          \* a parameter of the build
          uses,             \* the program, one of TmUses
          corecur,
          tm,               \* per core: its state machine, buffer and flags
          tmwait            \* history, per core: the cycles since its command was taken

tmvars == <<bufsize, uses, corecur, tm, tmwait>>

\* A buffer entry: bufaddrs, bufrds and bufwrs at one index below bufnxt.
TmAddr == UNION {uses[i] : i \in TmCore}
Entry == [addr : TmAddr, rd : BOOLEAN, wr : BOOLEAN]

\* The bound of TmInTime.
MaxWait == tmcnt * (bufsize + 1)

\* loaded, stale and late are history: the addresses that the running transaction loaded
\* from the shared memory; another core has overwritten one of these words; one was loaded
\* in the very cycle in which another core wrote it, and is the word from before.
Empty == [state |-> "sIdle", addr |-> NoAddr, buf |-> <<>>, index |-> 0, conflict |-> FALSE,
          overflow |-> FALSE, stalled |-> FALSE, loaded |-> {}, stale |-> FALSE, late |-> FALSE]

TmInit ==
  /\ bufsize \in Bufsizes /\ uses \in TmUses
  /\ corecur = 0
  /\ tm = [i \in TmCore |-> Empty] /\ tmwait = [i \in TmCore |-> 0]

\* sharedmemwr: core i is in its turn and its commit meets no conflict.
Committing(i) == corecur = i /\ tm[i].state = "sCommit" /\ ~ tm[i].conflict

\* The addresses, at most one, that core i writes to the shared memory in this cycle
\* (bufwrs is FALSE from bufnxt on).
Written(i) ==
  {tm[i].buf[k].addr : k \in {k \in DOMAIN tm[i].buf : Committing(i) /\ k = tm[i].index + 1 /\ tm[i].buf[k].wr}}

\* Mutant: the counter is compared with the number of entries too late.
FinishedLate(i) == tm[i].index = Len(tm[i].buf) + 1

\* sharedmemwrfin
Finished(i) == tm[i].index = Len(tm[i].buf)

\* Mutant: a word that the core has also stored is not watched.
HitsReadOnly(i) ==
  corecur # i /\ \E k \in DOMAIN tm[i].buf : tm[i].buf[k].rd /\ ~ tm[i].buf[k].wr /\ tm[i].buf[k].addr \in Written(corecur)

\* Another core writes what core i has loaded.
Hits(i) == corecur # i /\ \E k \in DOMAIN tm[i].buf : tm[i].buf[k].rd /\ tm[i].buf[k].addr \in Written(corecur)

\* The same, of the loads themselves.
Overwritten(i) == corecur # i /\ tm[i].loaded \cap Written(corecur) # {}

\* bufmatches
Match(i, a) == {k \in DOMAIN tm[i].buf : tm[i].buf[k].addr = a}
-----------------------------------------------------------------------------
\* A store to an address that has an entry.
Marked(i, b, a) == [k \in DOMAIN b |-> IF k \in Match(i, a) THEN [b[k] EXCEPT !.wr = TRUE] ELSE b[k]]

\* sIdle: a store, a load or a commit.  A load that finds the buffer full gets no response.
Store(i, r, a) ==
  IF Match(i, a) # {} THEN [r EXCEPT !.buf = Marked(i, r.buf, a)]
  ELSE IF Len(r.buf) = bufsize THEN [r EXCEPT !.overflow = TRUE]
  ELSE [r EXCEPT !.buf = Append(@, [addr |-> a, rd |-> FALSE, wr |-> TRUE])]

Load(i, r, a) ==
  IF Match(i, a) # {} THEN [r EXCEPT !.state = "sRead", !.index = (CHOOSE k \in Match(i, a) : TRUE) - 1]
  ELSE IF Len(r.buf) = bufsize THEN [r EXCEPT !.overflow = TRUE, !.stalled = TRUE]
  ELSE [r EXCEPT !.state = "sPreSharedRead", !.addr = a]

Commit(i, r) ==
  IF r.buf = <<>> \/ tm[i].conflict \/ r.overflow THEN Empty ELSE [r EXCEPT !.state = "sCommit"]

\* Mutant: the shared memory is read at once.
MyTurnAlways(i) == TRUE

\* sPreSharedRead: the address can be given to the shared memory.
MyTurn(i) == corecur = i

\* sSharedRead: sharedmemrdaddrReg was set to the core's address in its turn, one cycle
\* ago; the memory is read as it was before this cycle's write.
SharedRead(i, r) ==
  [r EXCEPT !.state = "sIdle", !.addr = NoAddr,
            !.buf = Append(@, [addr |-> r.addr, rd |-> TRUE, wr |-> FALSE]),
            !.loaded = @ \cup {r.addr},
            !.stale = @ \/ r.addr \in Written(corecur),
            !.late = @ \/ r.addr \in Written(corecur)]

\* sCommit: one entry per cycle of the core's turn; bufmemrdaddrReg has log2Up(bufsize) bits.
CommitStep(i, r) ==
  IF ~ (corecur = i \/ tm[i].conflict) THEN r
  ELSE IF Finished(i) \/ tm[i].conflict THEN Empty
  ELSE [r EXCEPT !.index = (tm[i].index + 1) % bufsize]

\* The cores that may put a command on their ports; the others wait for a response.
TmFree == {i \in TmCore : tm[i].state = "sIdle" /\ ~ tm[i].stalled}
TmCmd(i) == [is : {"none", "commit"}] \cup [is : {"RD", "WR"}, addr : uses[i]]

\* The registers of core i after a cycle with command m on its port.
TmStep(i, m) ==
  LET r == [tm[i] EXCEPT !.conflict = @ \/ Hits(i), !.stale = @ \/ Overwritten(i), !.index = 0] IN
  CASE r.state = "sIdle" /\ m.is = "none" -> r
    [] r.state = "sIdle" /\ m.is = "WR" -> Store(i, r, m.addr)
    [] r.state = "sIdle" /\ m.is = "RD" -> Load(i, r, m.addr)
    [] r.state = "sIdle" /\ m.is = "commit" -> Commit(i, r)
    [] r.state = "sRead" -> [r EXCEPT !.state = "sIdle"]
    [] r.state = "sPreSharedRead" -> [r EXCEPT !.state = IF MyTurn(i) THEN "sSharedRead" ELSE @]
    [] r.state = "sSharedRead" -> SharedRead(i, r)
    [] r.state = "sCommit" -> CommitStep(i, r)

\* corecur stays with a core that writes until it has finished.
NextTurn == IF Committing(corecur) /\ ~ Finished(corecur) THEN corecur ELSE (corecur + 1) % tmcnt

\* The history of a transaction that will fail is of no interest.
Known(r) ==
  IF r.conflict \/ r.overflow THEN [r EXCEPT !.loaded = {}, !.stale = FALSE, !.late = FALSE] ELSE r

TmNext ==
  \E m \in [TmFree -> UNION {TmCmd(i) : i \in TmCore}] :
    /\ \A i \in TmFree : m[i] \in TmCmd(i)
    /\ tm' = [i \in TmCore |-> Known(TmStep(i, IF i \in TmFree THEN m[i] ELSE [is |-> "none"]))]
    /\ tmwait' = [i \in TmCore |-> IF tm'[i].state = "sIdle" /\ ~ tm'[i].stalled THEN 0
                                  ELSE IF tmwait[i] > MaxWait THEN tmwait[i] ELSE tmwait[i] + 1]
    /\ corecur' = NextTurn
    /\ UNCHANGED <<bufsize, uses>>
-----------------------------------------------------------------------------
\* The registers have their widths, and a buffer has no two entries for an address.
TmTypeOK ==
  /\ corecur \in TmCore
  /\ \A i \in TmCore :
       /\ tm[i].state \in {"sIdle", "sRead", "sPreSharedRead", "sSharedRead", "sCommit"}
       /\ tm[i].buf \in Seq(Entry) /\ Len(tm[i].buf) <= bufsize
       /\ tm[i].index \in 0 .. bufsize - 1
       /\ \A j, k \in DOMAIN tm[i].buf : tm[i].buf[j].addr = tm[i].buf[k].addr => j = k

\* No core commits words it computed from a load that another core has overwritten since:
\* every transaction that commits could have run alone, at its commit.  It holds of those
\* none of whose loads fell into the cycle of another core's write of the same address.
SerializableUnlessLate == \A i \in TmCore : Committing(i) /\ ~ tm[i].late => ~ tm[i].stale

\* What the comment at the head of the file says of all of them: "Commits are marked as
\* failed in the case of a read/write conflict".
ConflictFails ==
  \A i \in TmCore : Committing(i) /\ (\E k \in DOMAIN tm[i].buf : tm[i].buf[k].wr) => ~ tm[i].stale

\* From the second word of a commit to its end no other core loads from the shared memory,
\* so none sees a part of it.
CommitIsolated ==
  \A i, k \in TmCore : i # k /\ Committing(i) /\ tm[i].index > 0 => tm[k].state # "sSharedRead"

\* The commit of a full buffer: the index of an entry never equals the number of entries, so
\* it writes the buffer again and again, and keeps the turn from all cores.
Endless == \E i \in TmCore : Committing(i) /\ Len(tm[i].buf) = bufsize

\* A command is answered after a turn of every other core, of at most one cycle per buffer
\* entry and one to finish, and its own.  There are two exceptions, both of full buffers: the
\* core's own load of one more word, which is never answered (stalled), and, for every core,
\* a commit of any core that does not end.
TmInTime == \A i \in TmCore : tmwait[i] <= MaxWait \/ tm[i].stalled \/ Endless
==============================================================================
