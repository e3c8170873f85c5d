----------------------------- MODULE MethodCache -----------------------------
(***************************************************************************)
(* The method cache, hardware/src/main/scala/icache/MCache.scala:          *)
(* MCacheCtrl loads whole methods, MCacheReplFifo keeps their tags and the *)
(* space they take in a ring.  One step is one clock cycle; cycles in      *)
(* which nothing changes are stuttering steps.  A word of code is          *)
(* abstracted to the method and the offset it belongs to.  Methods are     *)
(* aligned to bursts, so that the size in front of a method is the last    *)
(* word of its burst.                                                      *)
(***************************************************************************)
EXTENDS Integers

LOCAL INSTANCE FiniteSetsExt

CONSTANTS Method,     \* the methods, known by their addresses
          MethodSize, \* their sizes in words
          McWords,    \* MCACHE_WORD_SIZE, a power of 2
          McCount,    \* METHOD_COUNT
          McBurst,    \* BURST_LENGTH
          McExec,     \* cycles from the fetch of a method to a call in the execute stage
          NoMethod    \* code that is not cached

VARIABLES mc,         \* the registers; exec and left stand for pipeline and memory, early is history
          mtags,      \* addrVec, sizeVec, validVec and posVec
          mcells      \* the on-chip memory: the word a cell holds

mcvars == <<mc, mtags, mcells>>

\* The address and the position of a tag that is not valid are not used; here they are reset.
NoTag(size) == [addr |-> NoMethod, size |-> size, valid |-> FALSE, pos |-> 0]

McInit ==
  /\ mc = [st |-> "idle", m |-> NoMethod, hit |-> TRUE, pos |-> 0, wrPos |-> 0, nextIndex |-> 0,
           nextTag |-> 0, nextPos |-> 0, free |-> McWords, cnt |-> 0, burst |-> 0,
           exec |-> 0, left |-> 0, early |-> FALSE]
  /\ mtags = [i \in 0 .. McCount - 1 |-> NoTag(0)]
  /\ mcells = [c \in 0 .. McWords - 1 |-> <<NoMethod, 0>>]

\* The n bits of a size that asSInt reads as a signed number.
AsSInt(n) == IF n >= McWords THEN n - 2 * McWords ELSE n
\* freeSpaceReg has two bits more than a position.
Wrapped(n) == ((n + 2 * McWords) % (4 * McWords)) - 2 * McWords
Succ(i) == IF i = McCount - 1 THEN 0 ELSE i + 1
\* Size rounded to the next double word.
Rounded(m) == MethodSize[m] + (MethodSize[m] % 2)

\* Mutant: the tag of a method that is freed stays valid.
FreedTagsStay(t) == IF mc.free >= 0 THEN t ELSE [t EXCEPT ![mc.nextTag].size = 0]

\* While space is missing, the oldest method is given up, one in a cycle.
FreedTags(t) ==
  IF mc.free >= 0 THEN t ELSE [t EXCEPT ![mc.nextTag] = NoTag(0)]

Freed(r) ==
  IF mc.free >= 0 THEN r
  ELSE [r EXCEPT !.free = Wrapped(mc.free + AsSInt(mtags[mc.nextTag].size)), !.nextTag = Succ(mc.nextTag)]

\* A cycle in which the control unit and the tag update make r and t of the registers.
Cycle(r, t) == mc' = Freed(r) /\ mtags' = FreedTags(t)

\* hitVec
HitIndex(m) == {i \in DOMAIN mtags : mtags[i].valid /\ mtags[i].addr = m}

\* The registers after a call or return to m.
Looked(m) ==
  [mc EXCEPT !.m = m, !.hit = HitIndex(m) # {}, !.st = "idle",
             !.pos = IF HitIndex(m) # {} THEN mtags[CHOOSE i \in HitIndex(m) : TRUE].pos ELSE mc.nextPos,
             !.exec = IF HitIndex(m) # {} THEN McExec ELSE 0, !.cnt = 0, !.burst = 0, !.wrPos = 0,
             !.early = @ \/ (mc.free < 0 /\ HitIndex(m) # {})]

\* Cells that no tag leads to are not read again; here they are reset.
ReachableCells ==
  [c \in DOMAIN mcells |->
     IF \E i \in DOMAIN mtags : /\ mtags[i].valid /\ mcells[c][1] = mtags[i].addr
                               /\ c = (mtags[i].pos + mcells[c][2]) % McWords
     THEN mcells[c] ELSE <<NoMethod, 0>>]
-----------------------------------------------------------------------------
\* The execute stage reaches a call, a return or a brcf.
CallRet(m) ==
  /\ mc.st = "idle" /\ mc.hit /\ mc.exec = 0
  /\ Cycle(Looked(m), mtags) /\ mcells' = ReachableCells

\* Instructions of the method are executed.
Run ==
  /\ mc.st = "idle" /\ mc.hit /\ (mc.exec > 0 \/ mc.free < 0)
  /\ Cycle([mc EXCEPT !.exec = IF @ = 0 THEN 0 ELSE @ - 1], mtags) /\ UNCHANGED mcells

\* A miss: the burst that ends with the size is read.
StartFetch ==
  /\ mc.st = "idle" /\ ~ mc.hit
  /\ Cycle([mc EXCEPT !.st = "size", !.burst = 0, !.left = 1], mtags) /\ UNCHANGED mcells

\* The first word comes after at least one cycle, the others of a burst follow at once.
WaitForWord ==
  /\ mc.st \in {"size", "transfer"} /\ mc.burst = 0 /\ (mc.left = 1 \/ mc.free < 0)
  /\ Cycle([mc EXCEPT !.left = 0], mtags) /\ UNCHANGED mcells

WordArrives == mc.st \in {"size", "transfer"} /\ mc.left = 0
LastWord == mc.burst = McBurst - 1

SpaceAfter == Wrapped(mc.free - AsSInt(Rounded(mc.m)) + AsSInt(mtags[mc.nextIndex].size))

\* The size is known: the method gets the next tag and the space at nextPos, and its
\* first burst is requested.
NewTag ==
  Cycle([mc EXCEPT !.st = "transfer", !.hit = TRUE, !.wrPos = mc.pos, !.free = SpaceAfter,
                   !.nextPos = (@ + Rounded(mc.m)) % McWords, !.nextIndex = Succ(@),
                   !.nextTag = IF @ = mc.nextIndex THEN Succ(@) ELSE @,
                   !.burst = 0, !.left = 1, !.early = @ \/ mc.free < 0],
        [mtags EXCEPT ![mc.nextIndex] = [addr |-> mc.m, size |-> Rounded(mc.m), valid |-> TRUE, pos |-> mc.nextPos]])

SizeWord ==
  /\ WordArrives /\ mc.st = "size"
  /\ IF LastWord THEN NewTag ELSE Cycle([mc EXCEPT !.burst = @ + 1], mtags)
  /\ UNCHANGED mcells

\* A word of the method, or one behind its end in the last burst.
TransferWord ==
  /\ WordArrives /\ mc.st = "transfer"
  /\ LET last == MethodSize[mc.m] - 1
     IN  /\ mcells' = IF mc.cnt > last THEN mcells
                      ELSE [mcells EXCEPT ![(mc.wrPos + mc.cnt) % McWords] = <<mc.m, mc.cnt>>]
         /\ Cycle(IF mc.cnt >= last /\ LastWord
                  THEN [mc EXCEPT !.st = "idle", !.exec = McExec, !.cnt = 0, !.burst = 0, !.wrPos = 0]
                  ELSE [mc EXCEPT !.cnt = IF @ > last THEN @ ELSE @ + 1,
                                  !.burst = (@ + 1) % McBurst, !.left = IF LastWord THEN 1 ELSE 0],
                  mtags)

\* The memory answers a burst with ERR; the rest of the burst is waited for.
ErrorWord ==
  /\ WordArrives /\ mc.burst = 0
  /\ Cycle([mc EXCEPT !.st = "error", !.burst = 1], mtags) /\ UNCHANGED mcells

\* The tags are invalidated and the exception handler is called.
ErrorEnds ==
  /\ mc.st = "error"
  /\ IF ~ LastWord THEN Cycle([mc EXCEPT !.burst = @ + 1], mtags)
     ELSE Cycle([mc EXCEPT !.st = "errorDec"], [i \in DOMAIN mtags |-> NoTag(mtags[i].size)])
  /\ UNCHANGED mcells

Handler(m) == mc.st = "errorDec" /\ Cycle(Looked(m), mtags) /\ mcells' = ReachableCells

\* A store to the cache control register.
InvalidateMethods ==
  /\ mc.st = "idle" /\ mc.hit
  /\ Cycle(mc, [i \in DOMAIN mtags |-> NoTag(mtags[i].size)]) /\ UNCHANGED mcells

McNext ==
  \/ (\E m \in Method : CallRet(m) \/ Handler(m)) \/ Run \/ StartFetch \/ WaitForWord
  \/ SizeWord \/ TransferWord \/ ErrorWord \/ ErrorEnds \/ InvalidateMethods
-----------------------------------------------------------------------------
\* The state has its type, and no method has two valid tags (posVec is merged by OR).
McTypeOK ==
  /\ mc.free \in -2 * McWords .. 2 * McWords - 1 /\ {mc.pos, mc.nextPos} \subseteq DOMAIN mcells
  /\ {mc.nextIndex, mc.nextTag} \subseteq DOMAIN mtags
  /\ \A i, j \in DOMAIN mtags : mtags[i].valid /\ mtags[j].valid /\ mtags[i].addr = mtags[j].addr => i = j

\* While a method is executed, every word of it is in the cache: a hit never finds a
\* method whose space has been given to another one.
HitIsResident ==
  mc.st = "idle" /\ mc.hit /\ mc.m # NoMethod =>
    \A k \in 0 .. MethodSize[mc.m] - 1 : mcells[(mc.pos + k) % McWords] = <<mc.m, k>>

\* The same, and no space is lost: what the tags hold and what is free is the size of the
\* cache.  Excepted is a cache in which a call has hit, or a new tag was written, while the
\* tags of the methods to give up were still being cleared, one in a cycle ("early").
ResidentUnlessEarly ==
  ~ mc.early =>
    HitIsResident /\ MapThenSumSet(LAMBDA i : mtags[i].size, DOMAIN mtags) + mc.free = McWords
==============================================================================
