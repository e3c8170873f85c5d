------------------------------ MODULE DataCache ------------------------------
(***************************************************************************)
(* The data cache, hardware/src/main/scala/datacache: the direct-mapped    *)
(* write-through and write-back caches, the two-way cache, the bridge for  *)
(* uncached loads (NullCache) and the two ways to write, through a buffer  *)
(* that combines writes or without one.  The build chooses among them      *)
(* (DataCache).                                                            *)
(*                                                                         *)
(* The pipeline issues an access in the cycle of the response to the one   *)
(* before, and the cache reads tags and replacement bits in that cycle,    *)
(* with their values from before the response; it uses them in the next    *)
(* cycle.  A burst is one step, since the core is stalled and the arbiter  *)
(* serves one burst at a time; waiting is stuttering.  Addresses count     *)
(* words, of which one byte lane is modelled: a store of other bytes does  *)
(* not enable it (en).  The content of a lane is abstracted to whether it  *)
(* is the byte last stored.                                                *)
(***************************************************************************)
EXTENDS Integers

CONSTANTS DcBuilds,   \* the builds and what surrounds them, [kind, combine, bad, shared]:
                      \* kind and combine say which cache and which way to write, bad the
                      \* lines the memory answers with ERR, shared what other cores write
          DcSets,     \* lines of a way
          DcBurst,    \* BURST_LENGTH, the words of a line
          DcLines,    \* lines of the main memory
          DcHolds     \* whether the memory may not accept a write burst at once

DcAddr == 0 .. DcLines * DcBurst - 1
Old == -1             \* content: any other byte

\* A cache has a line and a line a word; a build is one that DataCache can choose.
ASSUME DataCacheSizes ==
  /\ DcSets \in Nat \ {0} /\ DcBurst \in Nat \ {0} /\ DcLines \in Nat \ {0}
  /\ DcBuilds \subseteq [kind : {"through", "back", "two"}, combine : BOOLEAN,
                         bad : SUBSET (0 .. DcLines - 1), shared : SUBSET DcAddr]

Ways == 1 .. 2

VARIABLES dc,         \* the build and the registers; out, the response, is history
          tags,       \* tagMem, tagVMem and dirtyMem of each way
          cells,      \* mem of each way: the address whose last byte a cell holds, or Old
          lruMem,
          wc,         \* the write-combine buffer
          mainMem,    \* the addresses whose last byte the main memory holds
          foreign     \* history: the addresses other cores wrote since the invalidation

dcvars == <<dc, tags, cells, lruMem, wc, mainMem, foreign>>

LineOf(a) == a \div DcBurst
Index(a) == LineOf(a) % DcSets
Cell(a) == a % (DcSets * DcBurst)
WordsOf(l) == {a \in DcAddr : LineOf(a) = l}
WriteThrough == dc.build.kind # "back"

NoReq == [cmd |-> "IDLE", a |-> 0, en |-> FALSE, cached |-> TRUE]

DcInit ==
  /\ dc \in [build : DcBuilds, st : {"idle"}, out : {"none"}, val : {Old}, old : {0},
             req : {[r |-> NoReq, way |-> 0, lru |-> FALSE, late |-> FALSE]}]
  /\ tags = [w \in Ways |-> [i \in 0 .. DcSets - 1 |-> [valid |-> FALSE, line |-> 0, dirty |-> FALSE]]]
  /\ cells = [w \in Ways |-> [c \in 0 .. DcSets * DcBurst - 1 |-> Old]]
  /\ lruMem = [c \in 0 .. DcSets * DcBurst - 1 |-> FALSE]
  /\ wc = [line |-> 0, en |-> {}, last |-> {}]
  /\ mainMem = DcAddr /\ foreign = {}
-----------------------------------------------------------------------------
\* What a program may do.  A write-back build is not coherent with uncached accesses:
\* they are to lines the cache does not hold.  A write-through build does not tell
\* cached and uncached stores apart.  What the memory answers with ERR is also tried,
\* but for writes that belong to an earlier store: of the combined words, and of a dirty
\* line whose fill has failed.
Allowed(r) ==
  /\ (~ r.cached /\ ~ WriteThrough) =>
       /\ dc.req.r.cmd \in {"RD", "WR"} /\ dc.req.r.cached => LineOf(dc.req.r.a) # LineOf(r.a)
       /\ \A w \in Ways : LET t == tags[w][Index(r.a)]
                          IN  (t.valid \/ t.dirty) => t.line # LineOf(r.a)
  /\ r.cmd = "WR" /\ WriteThrough => r.cached
  /\ r.cmd = "WR" /\ LineOf(r.a) \in dc.build.bad /\ (WriteThrough \/ ~ r.cached) => ~ dc.build.combine
  /\ r.cmd \in {"RD", "WR"} /\ r.cached =>
       LET t == tags[1][Index(r.a)] IN ~ (t.dirty /\ t.line \in dc.build.bad)

Requests ==
  [cmd : {"RD"}, a : DcAddr, en : {FALSE}, cached : BOOLEAN] \cup
  [cmd : {"WR"}, a : DcAddr, en : BOOLEAN, cached : BOOLEAN] \cup
  {[NoReq EXCEPT !.cmd = c] : c \in {"IDLE", "INVAL"}}

\* tagValid
WayOf(a) ==
  IF \E w \in Ways : tags[w][Index(a)].valid /\ tags[w][Index(a)].line = LineOf(a)
  THEN CHOOSE w \in Ways : tags[w][Index(a)].valid /\ tags[w][Index(a)].line = LineOf(a)
  ELSE 0

\* The core receives the response and issues its next access.
Answer(out, late) ==
  \E r \in Requests :
    /\ Allowed(r)
    /\ dc' = [dc EXCEPT !.st = "idle", !.out = out, !.val = Old, !.old = 0,
                        !.req = [r |-> r, way |-> IF r.cmd = "IDLE" THEN 0 ELSE WayOf(r.a),
                                 lru |-> r.cmd # "IDLE" /\ lruMem[Index(r.a)],
                                 late |-> late /\ r.cmd = "RD"]]

\* What the core makes of a loaded value.
Judge(v) ==
  LET r == dc.req.r
  IN  IF LineOf(r.a) \in dc.build.bad THEN "unreported"
      ELSE IF v = r.a \/ (r.cached /\ r.a \in foreign) THEN "DVA"
      ELSE IF dc.req.late THEN "late" ELSE "stale"

Pending(cmd) == dc.st = "idle" /\ dc.req.r.cmd = cmd
Accessed == dc.req.r.a

\* The cells after a store: where = 0 means that the store does not hit.
StoredCells(a, where, en) ==
  [w \in Ways |-> [c \in DOMAIN cells[w] |->
     IF ~ en THEN cells[w][c]
     ELSE IF w = where /\ c = Cell(a) THEN a
     ELSE IF cells[w][c] = a THEN Old ELSE cells[w][c]]]

\* lruMem is written with the index of a word; line 60 reads it with that of a line.
Touched(a, bit) ==
  lruMem' = IF dc.build.kind = "two" THEN [lruMem EXCEPT ![Cell(a)] = bit] ELSE lruMem
-----------------------------------------------------------------------------
Idle ==
  /\ Pending("IDLE") /\ Answer("none", FALSE)
  /\ UNCHANGED <<tags, cells, lruMem, wc, mainMem, foreign>>

LoadHit ==
  /\ Pending("RD") /\ dc.req.r.cached /\ dc.req.way # 0
  /\ Answer(Judge(cells[dc.req.way][Cell(Accessed)]), FALSE)
  /\ Touched(Accessed, dc.req.way = 1)
  /\ UNCHANGED <<tags, cells, wc, mainMem, foreign>>

\* A store that hits in the write-back cache.
StoreBack ==
  /\ Pending("WR") /\ dc.req.r.cached /\ ~ WriteThrough /\ dc.req.way # 0
  /\ cells' = StoredCells(Accessed, dc.req.way, dc.req.r.en)
  /\ tags' = [tags EXCEPT ![1][Index(Accessed)].dirty = TRUE]
  /\ mainMem' = IF dc.req.r.en THEN mainMem \ {Accessed} ELSE mainMem
  /\ wc' = IF dc.req.r.en THEN [wc EXCEPT !.last = @ \ {Accessed}] ELSE wc
  /\ Answer("DVA", FALSE)
  /\ UNCHANGED <<lruMem, foreign>>

\* A store that goes to the memory; it updates the cache if it hits.  The buffer takes
\* it if it holds the line, otherwise a burst is needed.
StoreThrough ==
  /\ Pending("WR") /\ (WriteThrough \/ ~ dc.req.r.cached)
  /\ LET hit == IF WriteThrough THEN dc.req.way ELSE 0
     IN  /\ cells' = StoredCells(Accessed, hit, dc.req.r.en)
         /\ IF hit # 0 THEN Touched(Accessed, hit = 1) ELSE UNCHANGED lruMem
  /\ mainMem' = IF dc.req.r.en THEN mainMem \ {Accessed} ELSE mainMem
  /\ foreign' = IF dc.req.r.en THEN foreign \ {Accessed} ELSE foreign
  /\ IF dc.build.combine /\ wc.line = LineOf(Accessed)
     THEN /\ wc' = IF dc.req.r.en THEN [wc EXCEPT !.en = @ \cup {Accessed}, !.last = @ \cup {Accessed}] ELSE wc
          /\ Answer("DVA", FALSE)
     ELSE dc' = [dc EXCEPT !.st = "write"] /\ UNCHANGED wc
  /\ UNCHANGED tags

\* The burst that empties the buffer for the store, which replaces its content.
CombinedBurst ==
  /\ dc.st = "write" /\ dc.build.combine
  /\ mainMem' = (mainMem \ wc.en) \cup wc.last
  /\ LET word == IF dc.req.r.en THEN {Accessed} ELSE {}
     IN  wc' = [line |-> LineOf(Accessed), en |-> word, last |-> word]
  /\ Answer("DVA", FALSE)
  /\ UNCHANGED <<tags, cells, lruMem, foreign>>

\* The burst of which the memory takes one word, that of the store.
SingleBurst ==
  /\ dc.st = "write" /\ ~ dc.build.combine
  /\ mainMem' = IF LineOf(Accessed) \in dc.build.bad \/ ~ dc.req.r.en THEN mainMem ELSE mainMem \cup {Accessed}
  /\ Answer(IF LineOf(Accessed) \in dc.build.bad THEN "ERR" ELSE "DVA", FALSE)
  /\ UNCHANGED <<tags, cells, lruMem, wc, foreign>>

\* The way that is replaced.
Victim == IF dc.req.lru THEN 2 ELSE 1

\* A miss: the tag is replaced at once.  A line that is dirty is written back first,
\* even if it has been invalidated.  With two ways the bit of the set is turned only if
\* the memory accepts the command at once.
Miss ==
  /\ dc.st = "idle" /\ dc.req.way = 0 /\ dc.req.r.cached
  /\ dc.req.r.cmd = "RD" \/ (dc.req.r.cmd = "WR" /\ ~ WriteThrough)
  /\ LET t == tags[Victim][Index(Accessed)]
     IN  /\ tags' = [tags EXCEPT ![Victim][Index(Accessed)] =
                       [valid |-> TRUE, line |-> LineOf(Accessed), dirty |-> dc.req.r.cmd = "WR"]]
         /\ dc' = [dc EXCEPT !.st = IF t.dirty THEN "writeBack" ELSE "fill", !.old = t.line, !.req.way = Victim]
  /\ Touched(Accessed, ~ dc.req.lru) \/ UNCHANGED lruMem
  /\ UNCHANGED <<cells, wc, mainMem, foreign>>

\* The cell whose content goes out as word a of the line written back.  The read counter
\* is one word ahead: when the first word is not accepted at once, the second replaces it.
CellSent(a, held) == IF held /\ a % DcBurst = 0 THEN Cell(a) + 1 ELSE Cell(a)

\* The buffer follows a burst that writes the line it holds.
Snooped(sent) ==
  IF dc.build.combine /\ wc.line = dc.old
  THEN [wc EXCEPT !.en = WordsOf(dc.old), !.last = sent] ELSE wc

WriteBack ==
  /\ dc.st = "writeBack"
  /\ \E held \in DcHolds :
       LET sent == {a \in WordsOf(dc.old) : cells[1][CellSent(a, held)] = a}
       IN  /\ mainMem' = (mainMem \ WordsOf(dc.old)) \cup sent
           /\ wc' = Snooped(sent)
  /\ dc' = [dc EXCEPT !.st = "fill"]
  /\ UNCHANGED <<tags, cells, lruMem, foreign>>

\* Mutant: the buffer is not looked at.
ReadWordMemory(a) == IF a \in mainMem THEN a ELSE Old

\* A word that the memory returns, with what is buffered filled in.
ReadWord(a) ==
  IF dc.build.combine /\ wc.line = LineOf(a) /\ a \in wc.en
  THEN IF a \in wc.last THEN a ELSE Old
  ELSE IF a \in mainMem THEN a ELSE Old

\* The fill; the data of a store is inserted.
FillLine ==
  /\ dc.st = "fill" /\ LineOf(Accessed) \notin dc.build.bad
  /\ LET store == dc.req.r.cmd = "WR" /\ dc.req.r.en
         line == WordsOf(LineOf(Accessed))
     IN  /\ cells' = [cells EXCEPT ![dc.req.way] = [c \in DOMAIN @ |->
                        IF \E a \in line : Cell(a) = c
                        THEN LET a == CHOOSE a \in line : Cell(a) = c
                             IN  IF store /\ a = Accessed THEN a ELSE ReadWord(a)
                        ELSE @[c]]]
         /\ mainMem' = IF store THEN mainMem \ {Accessed} ELSE mainMem
         /\ wc' = IF store THEN [wc EXCEPT !.last = @ \ {Accessed}] ELSE wc
         /\ dc' = [dc EXCEPT !.st = "respond", !.val = ReadWord(Accessed)]
  /\ UNCHANGED <<tags, lruMem, foreign>>

\* Mutant: the other way is invalidated.
FailedWayOther(w) == w # dc.req.way

\* The way that is invalidated: with two ways the one lru points to in this cycle,
\* which follows the address of the next access.
FailedWay(w) == w = dc.req.way \/ dc.build.kind = "two"

FillFails ==
  /\ dc.st = "fill" /\ LineOf(Accessed) \in dc.build.bad
  /\ \E w \in Ways :
       /\ FailedWay(w)
       /\ tags' = [tags EXCEPT ![w][Index(Accessed)].valid = FALSE]
  /\ dc' = [dc EXCEPT !.st = "failed"]
  /\ cells' = [cells EXCEPT ![dc.req.way] = [c \in DOMAIN @ |->
                 IF \E a \in WordsOf(LineOf(Accessed)) : Cell(a) = c
                 THEN IF dc.req.r.cmd = "WR" /\ dc.req.r.en /\ Cell(Accessed) = c THEN Accessed ELSE Old
                 ELSE @[c]]]
  /\ UNCHANGED <<lruMem, wc, mainMem, foreign>>

\* An uncached load.
Bypass ==
  /\ Pending("RD") /\ ~ dc.req.r.cached
  /\ dc' = IF LineOf(Accessed) \in dc.build.bad THEN [dc EXCEPT !.st = "failed"]
           ELSE [dc EXCEPT !.st = "respond", !.val = ReadWord(Accessed)]
  /\ UNCHANGED <<tags, cells, lruMem, wc, mainMem, foreign>>

Respond ==
  /\ dc.st \in {"respond", "failed"}
  /\ Answer(IF dc.st = "failed" THEN "ERR" ELSE IF dc.req.r.cmd = "WR" THEN "DVA" ELSE Judge(dc.val), FALSE)
  /\ UNCHANGED <<tags, cells, lruMem, wc, mainMem, foreign>>

\* A store to the cache control register; the exception unit responds in the cycle in
\* which the valid bits are cleared.
Invalidate ==
  /\ Pending("INVAL") /\ Answer("DVA", TRUE)
  /\ tags' = [w \in Ways |-> [i \in DOMAIN tags[w] |-> [tags[w][i] EXCEPT !.valid = FALSE]]]
  /\ foreign' = {}
  /\ UNCHANGED <<cells, lruMem, wc, mainMem>>

\* Another core stores to a word, which this one is not storing to.
Other(a) ==
  /\ WriteThrough /\ ~ dc.build.combine /\ ~ (dc.req.r.cmd = "WR" /\ Accessed = a)
  /\ cells' = StoredCells(a, 0, TRUE)
  /\ mainMem' = mainMem \cup {a} /\ foreign' = foreign \cup {a}
  /\ UNCHANGED <<dc, tags, lruMem, wc>>

DcNext ==
  \/ Idle \/ LoadHit \/ StoreBack \/ StoreThrough \/ CombinedBurst \/ SingleBurst \/ Miss \/ WriteBack
  \/ FillLine \/ FillFails \/ Bypass \/ Respond \/ Invalidate
  \/ \E a \in dc.build.shared : Other(a)
-----------------------------------------------------------------------------
\* The state has its type, and no line is in both ways.
DcTypeOK ==
  /\ dc.st \in {"idle", "write", "writeBack", "fill", "respond", "failed"} /\ dc.req.way \in 0 .. 2
  /\ cells \in [Ways -> [0 .. DcSets * DcBurst - 1 -> DcAddr \cup {Old}]]
  /\ wc.last \subseteq wc.en /\ wc.en \subseteq WordsOf(wc.line)
  /\ \A i \in 0 .. DcSets - 1 :
       tags[1][i].valid /\ tags[2][i].valid => tags[1][i].line # tags[2][i].line

\* A load returns what was stored last, in every build: through hits, fills, replaced
\* and invalidated dirty lines, the buffer and its snooping.  Excepted are words that
\* another core has written since the last invalidation, and loads issued in the very cycle
\* in which the invalidation takes effect, which still see the tags from before it ("late").
LoadsLatest == dc.out # "stale"

\* A load that the memory answers with ERR is reported, every time and after a store that
\* failed as well: a failed fill leaves no valid line behind (not so with two ways, see
\* FailedWay).
ErrorsReported == dc.build.kind # "two" => dc.out # "unreported"
==============================================================================
