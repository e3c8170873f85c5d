------------------------------ MODULE DataProofs ------------------------------
(***************************************************************************)
(* The data cache returns the byte stored last, and the direct-mapped      *)
(* builds report the errors of the memory, for any number of sets, words   *)
(* in a line and lines of the memory, when the memory accepts a write      *)
(* burst at once.                                                          *)
(*                                                                         *)
(* The invariant says where the last byte of every address is: below the   *)
(* cache, in a store on its way there, or in a dirty line.  A line in the  *)
(* cache has the last bytes of its addresses.  The core issues an access   *)
(* in the cycle of the response to the one before, so that the hit it      *)
(* uses was found before that response changed the tags; the invariant     *)
(* says that such a hit is still one when it is used.                      *)
(*                                                                         *)
(* A response, whatever it is to, is shown to keep the invariant once      *)
(* (AnswerKeeps), from what the memories then hold.                        *)
(***************************************************************************)
EXTENDS DataCache, TLAPS

\* Quotient and remainder.
LEMMA DivMod ==
  ASSUME NEW x \in Int, NEW w \in Nat \ {0}
  PROVE  x % w \in 0 .. w - 1 /\ x \div w \in Int /\ x = w * (x \div w) + (x % w)
  OBVIOUS

\* Quotient and remainder are unique.
LEMMA DivModUnique ==
  ASSUME NEW w \in Nat \ {0}, NEW p \in Int, NEW q \in Int, NEW r \in 0 .. w - 1, NEW s \in 0 .. w - 1,
         w * p + r = w * q + s
  PROVE  p = q /\ r = s
<1>1. w * (p - q) = s - r
  OBVIOUS
<1>2. CASE p - q >= 1
  <2>1. w * (p - q) >= w
    BY <1>2
  <2> QED
    BY <1>1, <2>1
<1>3. CASE p - q <= -1
  <2>1. w * (p - q) <= -w
    BY <1>3
  <2> QED
    BY <1>1, <2>1
<1>4. CASE p = q
  BY <1>1, <1>4
<1> QED
  BY <1>2, <1>3, <1>4

DcSpec == DcInit /\ [][DcNext]_dcvars

\* The cell of a word: its place in the line, in the cells of the line's index.
LEMMA CellIs ==
  ASSUME NEW a \in Int
  PROVE  /\ LineOf(a) \in Int /\ Index(a) \in 0 .. DcSets - 1 /\ a % DcBurst \in 0 .. DcBurst - 1
         /\ a = DcBurst * LineOf(a) + (a % DcBurst)
         /\ Cell(a) = DcBurst * Index(a) + (a % DcBurst) /\ Cell(a) \in 0 .. DcSets * DcBurst - 1
<1> DEFINE l == LineOf(a)  o == a % DcBurst  i == Index(a)  k == l \div DcSets
           W == DcSets * DcBurst  q == a \div W  c == a % W
<1>1. DcBurst \in Nat \ {0} /\ DcSets \in Nat \ {0} /\ W \in Nat \ {0}
  <2>1. DcBurst \in Nat \ {0} /\ DcSets \in Nat \ {0}
    BY DataCacheSizes, Zenon
  <2>2. DcSets * DcBurst > 0 /\ DcSets * DcBurst \in Nat
    BY <2>1
  <2> QED
    BY <2>1, <2>2
<1>2. l \in Int /\ o \in 0 .. DcBurst - 1 /\ a = DcBurst * l + o
  BY <1>1, DivMod, Zenon DEF LineOf
<1>3. i \in 0 .. DcSets - 1 /\ k \in Int /\ l = DcSets * k + i
  BY <1>1, <1>2, DivMod, Zenon DEF Index
<1>4. q \in Int /\ c \in 0 .. W - 1 /\ a = W * q + c
  BY <1>1, DivMod, Zenon
<1>5. c = Cell(a)
  BY Zenon DEF Cell
<1>w. W = DcSets * DcBurst
  OBVIOUS
<1> HIDE DEF l, o, i, k, q, c, W
<1>6. DcBurst * (DcSets * k + i) = (DcSets * DcBurst) * k + DcBurst * i
  BY <1>1, <1>3
<1>7. a = W * k + (DcBurst * i + o)
  BY <1>1, <1>2, <1>3, <1>6, <1>w
<1>8. DcBurst * i + o \in 0 .. W - 1
  <2>1. DcBurst * i >= 0 /\ DcBurst * i \in Int
    BY <1>1, <1>3
  <2>2. DcBurst * (DcSets - 1 - i) >= 0
    BY <1>1, <1>3
  <2>3. DcBurst * (DcSets - 1 - i) = DcSets * DcBurst - DcBurst - DcBurst * i
    BY <1>1, <1>3
  <2> QED
    BY <1>1, <1>2, <2>1, <2>2, <2>3, <1>w
<1>r. W \in Nat \ {0}
  BY <1>1, <1>w
<1>9. c = DcBurst * i + o
  BY <1>r, <1>3, <1>4, <1>7, <1>8, DivModUnique, Zenon
<1> QED
  BY <1>2, <1>3, <1>4, <1>5, <1>9, Zenon DEF l, o, i, c, W

\* Only words of lines with the same index share a cell, and no two words of a line do.
LEMMA CellApart ==
  ASSUME NEW a \in Int, NEW b \in Int, Cell(a) = Cell(b)
  PROVE  Index(a) = Index(b) /\ (LineOf(a) = LineOf(b) => a = b)
<1> DEFINE o == a % DcBurst  p == b % DcBurst  i == Index(a)  j == Index(b)
<1>1. DcBurst \in Nat \ {0} /\ DcSets \in Nat \ {0}
  BY DataCacheSizes, Zenon
<1>2. i \in 0 .. DcSets - 1 /\ o \in 0 .. DcBurst - 1 /\ j \in 0 .. DcSets - 1 /\ p \in 0 .. DcBurst - 1
  BY CellIs, Zenon
<1>3. DcBurst * i + o = DcBurst * j + p
  BY CellIs, Zenon
<1>4. a = DcBurst * LineOf(a) + o /\ b = DcBurst * LineOf(b) + p
  BY CellIs, Zenon
<1> HIDE DEF o, p, i, j
<1>5. i \in Int /\ j \in Int
  BY <1>1, <1>2
<1>6. i = j /\ o = p
  BY <1>1, <1>2, <1>3, <1>5, DivModUnique
<1> QED
  BY <1>4, <1>6, Zenon DEF i, j

\* The words of a line share an index.
LEMMA SameIndex ==
  ASSUME NEW a, NEW b, LineOf(a) = LineOf(b) PROVE Index(a) = Index(b)
  BY Zenon DEF Index

\* Addresses are numbers, and Old is none of them.
LEMMA AddrInt == DcAddr \subseteq Int /\ Old \in Int /\ Old \notin DcAddr /\ 0 \in DcAddr
<1>1. DcBurst \in Nat \ {0} /\ DcLines \in Nat \ {0}
  BY DataCacheSizes, Zenon
<1>2. DcLines * DcBurst \in Nat /\ DcLines * DcBurst > 0
  BY <1>1
<1> QED
  BY <1>2 DEF DcAddr, Old
-----------------------------------------------------------------------------
\* The write-through builds, and what the registers say of the access under way.
Thru(b) == b.kind # "back"
Adr(d) == d.req.r.a
Accesses(d) == d.req.r.cmd \in {"RD", "WR"}
InMiss(d) == d.st \in {"writeBack", "fill"}
\* What the entry for an address says: whose line it holds, and whether it is valid or
\* dirty.
Tagged(t, w, a) == t[w][Index(a)].line = LineOf(a)
Valid(t, w, a) == t[w][Index(a)].valid
Dirty(t, w, a) == t[w][Index(a)].dirty
NoneValid(t) == \A w \in Ways, i \in 0 .. DcSets - 1 : ~ t[w][i].valid

\* A read from the memory, or from the buffer of combined writes, gives the last byte.
Readable(b, x, m, a) ==
  IF b.combine /\ x.line = LineOf(a) /\ a \in x.en THEN a \in x.last ELSE a \in m

\* The types of the tags, the memories and the registers.
DcTag == [valid : BOOLEAN, line : Int, dirty : BOOLEAN]
DcTags == [Ways -> [0 .. DcSets - 1 -> DcTag]]
DcCells == [Ways -> [0 .. DcSets * DcBurst - 1 -> DcAddr \cup {Old}]]
DcLru == [0 .. DcSets * DcBurst - 1 -> BOOLEAN]
DcRequest == [cmd : {"RD", "WR", "IDLE", "INVAL"}, a : DcAddr, en : BOOLEAN, cached : BOOLEAN]
DcReq == [r : DcRequest, way : 0 .. 2, lru : BOOLEAN, late : BOOLEAN]
DcRegs == [build : DcBuilds, st : {"idle", "write", "writeBack", "fill", "respond", "failed"},
           out : {"none", "DVA", "ERR", "unreported", "late", "stale"},
           val : DcAddr \cup {Old}, old : Int, req : DcReq]
DcWc == [line : Int, en : SUBSET DcAddr, last : SUBSET DcAddr]

\* Every register and memory has a value of its width; the buffer holds words of one line.
DcTypes(d, t, c, u, x, f) ==
  d \in DcRegs /\ t \in DcTags /\ c \in DcCells /\ u \in DcLru /\ x \in DcWc
  /\ x.last \subseteq x.en /\ \A a \in x.en : LineOf(a) = x.line

\* Only the two-way cache uses its second way and the replacement bits.
Single(d, t, u) ==
  d.build.kind # "two" =>
    /\ \A j \in DOMAIN u : ~ u[j]
    /\ ~ d.req.lru /\ d.req.way \in {0, 1}
    /\ \A i \in 0 .. DcSets - 1 : ~ t[2][i].valid /\ ~ t[2][i].dirty

\* Only the write-back cache has dirty lines; only it must be alone in writing memory.
Through(d, t, f) ==
  IF Thru(d.build) THEN \A w \in Ways, i \in 0 .. DcSets - 1 : ~ t[w][i].dirty ELSE f = {}

\* The last byte stored to an address can be read below the cache, is about to be written,
\* or is in a dirty line.
MemInv(d, t, x, m) ==
  \A a \in DcAddr : LineOf(a) \notin d.build.bad =>
    \/ Readable(d.build, x, m, a)
    \/ d.st = "write" /\ a = Adr(d) /\ d.req.r.en
    \/ d.st = "writeBack" /\ LineOf(a) = d.old
    \/ Tagged(t, 1, a) /\ Dirty(t, 1, a) /\ ~ (InMiss(d) /\ LineOf(a) = LineOf(Adr(d)))

\* A store that was found to hit before an invalidation still writes its line.
Kept(d, w, a) ==
  /\ d.st = "idle" /\ d.req.r.cmd = "WR" /\ d.req.r.cached /\ ~ Thru(d.build)
  /\ d.req.way = w /\ LineOf(Adr(d)) = LineOf(a)

\* A line of the cache has the last bytes stored, or other cores have written since, and
\* a line that is being written back has them too.
CellInv(d, t, c, f) ==
  /\ \A w \in Ways, a \in DcAddr :
       /\ LineOf(a) \notin d.build.bad /\ Tagged(t, w, a)
       /\ Valid(t, w, a) \/ Dirty(t, w, a) \/ Kept(d, w, a)
       /\ ~ (InMiss(d) /\ w = d.req.way /\ Index(a) = Index(Adr(d)))
       => c[w][Cell(a)] = a \/ a \in f
  /\ d.st = "writeBack" => \A a \in DcAddr : LineOf(a) = d.old => c[1][Cell(a)] = a

\* No line is in both ways, and a dirty line is in its own set.
OneWay(t) == \A i \in 0 .. DcSets - 1 : ~ (t[1][i].valid /\ t[2][i].valid /\ t[1][i].line = t[2][i].line)
OwnSet(t) == \A i \in 0 .. DcSets - 1 : t[1][i].dirty => t[1][i].line % DcSets = i

\* What the tags said of the access when it was issued still holds when it is used, unless
\* the cache was invalidated in that cycle.  A miss has claimed its entry.
ReqInv(d, t) ==
  /\ OneWay(t) /\ OwnSet(t)
  /\ d.st = "idle" /\ Accesses(d) =>
       IF d.req.way = 0 THEN \A w \in Ways : ~ (Valid(t, w, Adr(d)) /\ Tagged(t, w, Adr(d)))
       ELSE /\ Tagged(t, d.req.way, Adr(d))
            /\ Valid(t, d.req.way, Adr(d)) \/ (NoneValid(t) /\ (d.req.r.cmd = "RD" => d.req.late))
  /\ d.st \in {"idle", "write"} /\ Accesses(d) /\ ~ d.req.r.cached /\ ~ Thru(d.build) =>
       \A w \in Ways : ~ ((Valid(t, w, Adr(d)) \/ Dirty(t, w, Adr(d))) /\ Tagged(t, w, Adr(d)))
  /\ InMiss(d) => /\ d.req.way # 0 /\ Tagged(t, d.req.way, Adr(d)) /\ Valid(t, d.req.way, Adr(d))
                  /\ (Dirty(t, d.req.way, Adr(d)) <=> d.req.r.cmd = "WR")
                  /\ d.req.r.cached /\ Accesses(d)
  /\ d.st = "writeBack" => ~ Thru(d.build)
  /\ d.st = "write" => d.req.r.cmd = "WR"
  /\ d.st \in {"respond", "failed"} => Accesses(d)

\* Except in the two-way cache, a line that the memory does not answer for is not in the
\* cache, so that a load of it misses.  No access writes such a line back.
BadInv(d, t) ==
  /\ d.build.kind # "two" =>
       \A i \in 0 .. DcSets - 1 : t[1][i].valid /\ ~ (InMiss(d) /\ i = Index(Adr(d))) => t[1][i].line \notin d.build.bad
  /\ d.st = "idle" /\ Accesses(d) /\ d.req.r.cached =>
       ~ (Dirty(t, 1, Adr(d)) /\ t[1][Index(Adr(d))].line \in d.build.bad)
  /\ d.build.kind # "two" /\ d.st = "idle" /\ Accesses(d) /\ d.req.way # 0 => LineOf(Adr(d)) \notin d.build.bad
  /\ d.st = "respond" => LineOf(Adr(d)) \notin d.build.bad

\* No load gave an old byte, and no error was lost except by the two-way cache.
OutInv(d) ==
  /\ d.out # "stale" /\ (d.build.kind # "two" => d.out # "unreported")
  /\ d.st = "respond" /\ d.req.r.cmd = "RD" => d.val = Adr(d)

\* The inductive invariant, as a predicate on the values of the variables.
DcGood(d, t, c, u, x, m, f) ==
  /\ DcTypes(d, t, c, u, x, f) /\ Single(d, t, u) /\ Through(d, t, f) /\ MemInv(d, t, x, m)
  /\ CellInv(d, t, c, f) /\ ReqInv(d, t) /\ BadInv(d, t) /\ OutInv(d)

DcInv == DcGood(dc, tags, cells, lruMem, wc, mainMem, foreign)
-----------------------------------------------------------------------------
\* What a program may ask for is a request.
LEMMA RequestRange ==
  Requests \subseteq DcRequest
<1> SUFFICES ASSUME NEW r \in Requests PROVE r \in DcRequest
  BY Zenon
<1>1. CASE r \in [cmd : {"RD"}, a : DcAddr, en : {FALSE}, cached : BOOLEAN]
  BY <1>1, Zenon DEF DcRequest
<1>2. CASE r \in [cmd : {"WR"}, a : DcAddr, en : BOOLEAN, cached : BOOLEAN]
  BY <1>2, SMT DEF DcRequest
<1>3. CASE r \in {[NoReq EXCEPT !.cmd = c] : c \in {"IDLE", "INVAL"}}
  BY <1>3, AddrInt, Zenon DEF DcRequest, NoReq
<1> QED
  BY <1>1, <1>2, <1>3, Zenon DEF Requests

\* The fields of the registers.
LEMMA Fields ==
  ASSUME NEW d \in DcRegs
  PROVE  /\ d.build \in DcBuilds /\ d.req \in DcReq /\ d.req.r \in DcRequest
         /\ d.st \in {"idle", "write", "writeBack", "fill", "respond", "failed"}
         /\ d.req.way \in 0 .. 2 /\ Adr(d) \in DcAddr /\ Adr(d) \in Int
<1>1. d.build \in DcBuilds /\ d.req \in DcReq /\ d.st \in {"idle", "write", "writeBack", "fill", "respond", "failed"}
  BY SMT DEF DcRegs
<1>2. d.req.r \in DcRequest /\ d.req.way \in 0 .. 2
  BY <1>1, SMT DEF DcReq
<1>3. d.req.r.a \in DcAddr
  BY <1>2, SMT DEF DcRequest
<1> QED
  BY <1>1, <1>2, <1>3, AddrInt, Zenon DEF Adr

\* The way in which an address hits.
LEMMA WayIs ==
  ASSUME NEW a
  PROVE  IF WayOf(a) = 0 THEN \A w \in Ways : ~ (Valid(tags, w, a) /\ Tagged(tags, w, a))
         ELSE WayOf(a) \in Ways /\ Valid(tags, WayOf(a), a) /\ Tagged(tags, WayOf(a), a)
<1> DEFINE P(w) == tags[w][Index(a)].valid /\ tags[w][Index(a)].line = LineOf(a)
<1>1. CASE \E w \in Ways : P(w)
  <2>1. WayOf(a) = CHOOSE w \in Ways : P(w)
    BY <1>1, Zenon DEF WayOf
  <2>2. WayOf(a) \in Ways /\ P(WayOf(a))
    BY <1>1, <2>1, Zenon
  <2>3. WayOf(a) # 0
    BY <2>2 DEF Ways
  <2> QED
    BY <2>2, <2>3, Zenon DEF Valid, Tagged
<1>2. CASE ~ \E w \in Ways : P(w)
  BY <1>2, Zenon DEF WayOf, Valid, Tagged
<1> QED
  BY <1>1, <1>2, Zenon

\* What a response leaves in the registers.
LEMMA Answered ==
  ASSUME dc \in DcRegs, lruMem \in DcLru,
         NEW out \in {"none", "DVA", "ERR", "unreported", "late", "stale"}, NEW late \in BOOLEAN, Answer(out, late)
  PROVE  /\ dc' \in DcRegs /\ Allowed(dc'.req.r)
         /\ dc'.st = "idle" /\ dc'.build = dc.build /\ dc'.out = out
         /\ dc'.req.way = IF dc'.req.r.cmd = "IDLE" THEN 0 ELSE WayOf(Adr(dc'))
         /\ dc'.req.lru => lruMem[Index(Adr(dc'))]
         /\ late /\ dc'.req.r.cmd = "RD" => dc'.req.late
<1>1. PICK r \in Requests :
        /\ Allowed(r)
        /\ dc' = [dc EXCEPT !.st = "idle", !.out = out, !.val = Old, !.old = 0,
                            !.req = [r |-> r, way |-> IF r.cmd = "IDLE" THEN 0 ELSE WayOf(r.a),
                                     lru |-> r.cmd # "IDLE" /\ lruMem[Index(r.a)],
                                     late |-> late /\ r.cmd = "RD"]]
  BY Zenon DEF Answer
<1> DEFINE y == IF r.cmd = "IDLE" THEN 0 ELSE WayOf(r.a)
           l == r.cmd # "IDLE" /\ lruMem[Index(r.a)]
           k == late /\ r.cmd = "RD"
           q == [r |-> r, way |-> y, lru |-> l, late |-> k]
<1>2. r \in DcRequest
  BY RequestRange, Zenon
<1>3. r.a \in DcAddr /\ r.a \in Int
  <2>1. r.a \in DcAddr
    BY <1>2, SMT DEF DcRequest
  <2> QED
    BY <2>1, AddrInt, Zenon
<1>4. y \in 0 .. 2
  <2>1. WayOf(r.a) = 0 \/ WayOf(r.a) \in Ways
    BY WayIs, Zenon
  <2> QED
    BY <2>1, SMT DEF Ways
<1>5. l \in BOOLEAN /\ k \in BOOLEAN
  BY Zenon
<1>6. q \in DcReq
  BY <1>2, <1>4, <1>5, Zenon DEF DcReq
<1>7. dc' = [dc EXCEPT !.st = "idle", !.out = out, !.val = Old, !.old = 0, !.req = q]
  BY <1>1, Zenon
<1>8. q.r = r /\ q.way = y /\ (q.lru <=> l) /\ (q.late <=> k)
  BY Zenon
<1> HIDE DEF q, y, l, k
<1>9. /\ dc' \in DcRegs /\ dc'.st = "idle" /\ dc'.build = dc.build /\ dc'.out = out /\ dc'.req = q
  BY <1>6, <1>7, AddrInt, Zenon DEF DcRegs
<1> QED
  BY <1>1, <1>8, <1>9, Zenon DEF Adr, y, l, k
-----------------------------------------------------------------------------
\* What holds of the memories when a response is given.
TagsGood(b, t) ==
  /\ t \in DcTags /\ OneWay(t) /\ OwnSet(t)
  /\ b.kind # "two" => \A i \in 0 .. DcSets - 1 :
       /\ ~ t[2][i].valid /\ ~ t[2][i].dirty
       /\ t[1][i].valid => t[1][i].line \notin b.bad
  /\ Thru(b) => \A w \in Ways, i \in 0 .. DcSets - 1 : ~ t[w][i].dirty

\* The replacement bits and the write-combine buffer.
LruGood(b, u) == u \in DcLru /\ (b.kind # "two" => \A j \in DOMAIN u : ~ u[j])

WcGood(x) == x \in DcWc /\ x.last \subseteq x.en /\ \A a \in x.en : LineOf(a) = x.line

\* The memory and the cells when no access is under way.
MemRest(b, t, x, m) ==
  \A a \in DcAddr : LineOf(a) \notin b.bad => Readable(b, x, m, a) \/ (Tagged(t, 1, a) /\ Dirty(t, 1, a))

CellRest(b, t, c, f) ==
  \A w \in Ways, a \in DcAddr :
    LineOf(a) \notin b.bad /\ Tagged(t, w, a) /\ (Valid(t, w, a) \/ Dirty(t, w, a)) => c[w][Cell(a)] = a \/ a \in f

\* All memories when no access is under way.
DcRest(b, t, c, u, x, m, f) ==
  /\ TagsGood(b, t) /\ c \in DcCells /\ LruGood(b, u) /\ WcGood(x)
  /\ MemRest(b, t, x, m) /\ CellRest(b, t, c, f) /\ (~ Thru(b) => f = {})

\* An index is one of a replacement bit.
LEMMA IndexRange ==
  ASSUME NEW a \in Int PROVE Index(a) \in 0 .. DcSets * DcBurst - 1
<1>1. DcBurst \in Nat \ {0} /\ DcSets \in Nat \ {0}
  BY DataCacheSizes, Zenon
<1>2. DcSets * (DcBurst - 1) >= 0
  BY <1>1
<1>3. DcSets * (DcBurst - 1) = DcSets * DcBurst - DcSets /\ DcSets * DcBurst \in Int
  BY <1>1
<1>4. Index(a) \in 0 .. DcSets - 1
  BY CellIs, Zenon
<1> QED
  BY <1>1, <1>2, <1>3, <1>4

\* The tags that the next access is checked against, in the cycle of the response.
Read(t, t2, d, late) ==
  /\ \A w \in Ways, i \in 0 .. DcSets - 1 : t2[w][i].line = t[w][i].line
  /\ IF late THEN NoneValid(t2) ELSE \A w \in Ways, i \in 0 .. DcSets - 1 : t2[w][i].valid <=> t[w][i].valid
  /\ \A w \in Ways, i \in 0 .. DcSets - 1 :
       t2[w][i].dirty => t[w][i].dirty \/ (/\ Accesses(d) /\ d.req.r.cached /\ t[w][i].line = LineOf(Adr(d))
                                       /\ LineOf(Adr(d)) \notin d.build.bad)

\* A response keeps the invariant when the memories agree after it: the next access is
\* checked against the tags from before.
LEMMA AnswerKeeps ==
  ASSUME dc \in DcRegs, LruGood(dc.build, lruMem), TagsGood(dc.build, tags),
         NEW out \in {"none", "DVA", "ERR", "unreported", "late", "stale"}, NEW late \in BOOLEAN, Answer(out, late),
         out # "stale", dc.build.kind # "two" => out # "unreported",
         DcRest(dc.build, tags', cells', lruMem', wc', mainMem', foreign'),
         ~ Thru(dc.build) => CellRest(dc.build, tags, cells', foreign'),
         Read(tags, tags', dc, late)
  PROVE  DcInv'
<1> DEFINE a == Adr(dc')  i == Index(a)  y == dc'.req.way
<1>1. /\ dc' \in DcRegs /\ Allowed(dc'.req.r) /\ dc'.st = "idle" /\ dc'.build = dc.build /\ dc'.out = out
      /\ y = IF dc'.req.r.cmd = "IDLE" THEN 0 ELSE WayOf(a)
      /\ dc'.req.lru => lruMem[i]
      /\ late /\ dc'.req.r.cmd = "RD" => dc'.req.late
  BY Answered, Zenon DEF LruGood
<1>2. a \in DcAddr /\ a \in Int /\ i \in 0 .. DcSets - 1 /\ y \in 0 .. 2
  BY <1>1, Fields, CellIs, Zenon
<1>3. Accesses(dc') => IF y = 0 THEN \A w \in Ways : ~ (Valid(tags, w, a) /\ Tagged(tags, w, a))
                       ELSE y \in Ways /\ Valid(tags, y, a) /\ Tagged(tags, y, a)
  <2>1. Accesses(dc') => dc'.req.r.cmd # "IDLE"
    BY Zenon DEF Accesses
  <2> QED
    BY <1>1, <2>1, WayIs, Zenon
<1>4. y # 0 => y \in Ways /\ Valid(tags, y, a) /\ Tagged(tags, y, a)
  BY <1>1, WayIs, Zenon
<1>5. ~ InMiss(dc')
  BY <1>1, Zenon DEF InMiss
<1>6. DcTypes(dc', tags', cells', lruMem', wc', foreign')
  BY <1>1, Zenon DEF DcTypes, DcRest, TagsGood, LruGood, WcGood
<1>7. Single(dc', tags', lruMem')
  <2> SUFFICES ASSUME dc.build.kind # "two"
               PROVE  /\ \A j \in DOMAIN lruMem' : ~ lruMem'[j]
                      /\ ~ dc'.req.lru /\ y \in {0, 1}
                      /\ \A j \in 0 .. DcSets - 1 : ~ tags'[2][j].valid /\ ~ tags'[2][j].dirty
    BY <1>1, Zenon DEF Single
  <2>1. ~ dc'.req.lru
    <3>1. DOMAIN lruMem = 0 .. DcSets * DcBurst - 1
      BY Zenon DEF LruGood, DcLru
    <3> QED
      BY <1>1, <1>2, <3>1, IndexRange, Zenon DEF LruGood
  <2>2. y # 2
    <3>1. 2 # 0
      OBVIOUS
    <3> QED
      BY <1>2, <1>4, <3>1, Zenon DEF TagsGood, Valid
  <2>3. y \in {0, 1}
    BY <1>2, <2>2
  <2> QED
    BY <2>1, <2>3, Zenon DEF DcRest, TagsGood, LruGood
<1>8. Through(dc', tags', foreign')
  BY <1>1, Zenon DEF Through, DcRest, TagsGood
<1>9. MemInv(dc', tags', wc', mainMem')
  BY <1>1, <1>5, Zenon DEF MemInv, DcRest, MemRest
<1>10. CellInv(dc', tags', cells', foreign')
  <2>1. dc'.st # "writeBack"
    BY <1>1, Zenon
  <2> SUFFICES ASSUME NEW w \in Ways, NEW b \in DcAddr, LineOf(b) \notin dc.build.bad, Tagged(tags', w, b),
                      Valid(tags', w, b) \/ Dirty(tags', w, b) \/ Kept(dc', w, b)
               PROVE  cells'[w][Cell(b)] = b \/ b \in foreign'
    BY <1>1, <2>1, Zenon DEF CellInv
  <2>2. CASE Valid(tags', w, b) \/ Dirty(tags', w, b)
    BY <2>2, Zenon DEF DcRest, CellRest
  <2>3. CASE Kept(dc', w, b)
    <3>1. ~ Thru(dc.build) /\ w = y /\ LineOf(a) = LineOf(b) /\ dc'.req.r.cmd = "WR"
      BY <2>3, <1>1, Zenon DEF Kept
    <3>2. w # 0
      BY DEF Ways
    <3>3. Valid(tags, w, b) /\ Tagged(tags, w, b)
      <4>1. Index(a) = Index(b)
        BY <3>1, SameIndex, Zenon
      <4>2. Valid(tags, w, a) /\ Tagged(tags, w, a)
        BY <3>1, <3>2, <1>4, Zenon
      <4> HIDE DEF a
      <4> QED
        BY <3>1, <4>1, <4>2, Zenon DEF Valid, Tagged
    <3> QED
      BY <3>1, <3>3, Zenon DEF CellRest
  <2> QED
    BY <2>2, <2>3, Zenon
<1>11. ReqInv(dc', tags')
  <2>1. OneWay(tags') /\ OwnSet(tags')
    BY Zenon DEF DcRest, TagsGood
  <2>2. \A w \in Ways : Tagged(tags', w, a) <=> Tagged(tags, w, a)
    BY <1>2, Zenon DEF Tagged, Read
  <2>3. ASSUME Accesses(dc')
        PROVE  IF y = 0 THEN \A w \in Ways : ~ (Valid(tags', w, a) /\ Tagged(tags', w, a))
               ELSE /\ Tagged(tags', y, a)
                    /\ Valid(tags', y, a) \/ (NoneValid(tags') /\ (dc'.req.r.cmd = "RD" => dc'.req.late))
    <3>1. CASE late
      <4>1. NoneValid(tags')
        BY <3>1, Zenon DEF Read
      <4>2. \A w \in Ways : ~ Valid(tags', w, a)
        BY <4>1, <1>2, Zenon DEF NoneValid, Valid
      <4>3. y # 0 => Tagged(tags', y, a)
        BY <1>3, <2>2, <2>3, Zenon
      <4> QED
        BY <3>1, <4>1, <4>2, <4>3, <1>1, Zenon
    <3>2. CASE ~ late
      <4>1. \A w \in Ways : Valid(tags', w, a) <=> Valid(tags, w, a)
        BY <3>2, <1>2, Zenon DEF Read, Valid
      <4> QED
        BY <4>1, <1>3, <2>2, <2>3, Zenon
    <3> QED
      BY <3>1, <3>2, Zenon
  <2>4. ASSUME Accesses(dc'), ~ dc'.req.r.cached, ~ Thru(dc'.build), NEW w \in Ways
        PROVE  ~ ((Valid(tags', w, a) \/ Dirty(tags', w, a)) /\ Tagged(tags', w, a))
    <3>1. /\ Accesses(dc) /\ dc.req.r.cached => LineOf(Adr(dc)) # LineOf(a)
          /\ tags[w][i].valid \/ tags[w][i].dirty => tags[w][i].line # LineOf(a)
      BY <1>1, <2>4, Zenon DEF Allowed, Thru, WriteThrough, Accesses, Adr
    <3>2. tags'[w][i].valid => tags[w][i].valid
      BY <1>2, Zenon DEF Read, NoneValid
    <3>3. tags'[w][i].dirty => tags[w][i].dirty \/ (Accesses(dc) /\ dc.req.r.cached /\ tags[w][i].line = LineOf(Adr(dc)))
      BY <1>2, Zenon DEF Read
    <3> QED
      BY <3>1, <3>2, <3>3, <2>2, Zenon DEF Valid, Dirty, Tagged
  <2> QED
    BY <1>1, <1>5, <2>1, <2>3, <2>4, Zenon DEF ReqInv
<1>12. BadInv(dc', tags')
  <2>1. dc.build.kind # "two" => \A j \in 0 .. DcSets - 1 : tags'[1][j].valid => tags'[1][j].line \notin dc.build.bad
    BY Zenon DEF DcRest, TagsGood
  <2>2. ASSUME Accesses(dc'), dc'.req.r.cached, Dirty(tags', 1, a), tags'[1][i].line \in dc.build.bad PROVE FALSE
    <3>1. ~ (tags[1][i].dirty /\ tags[1][i].line \in dc.build.bad)
      BY <1>1, <2>2, Zenon DEF Allowed, Accesses, Adr
    <3>2. 1 \in Ways
      BY DEF Ways
    <3>3. tags'[1][i].dirty /\ tags'[1][i].line = tags[1][i].line
      BY <2>2, <3>2, <1>2, Zenon DEF Read, Dirty
    <3> QED
      BY <2>2, <3>1, <3>2, <3>3, <1>2, Zenon DEF Read
  <2>3. ASSUME dc.build.kind # "two", y # 0 PROVE LineOf(a) \notin dc.build.bad
    <3>1. y \in Ways /\ tags[y][i].valid /\ tags[y][i].line = LineOf(a)
      BY <1>4, <2>3, Zenon DEF Valid, Tagged
    <3>2. y = 1 \/ y = 2
      BY <3>1 DEF Ways
    <3> QED
      BY <3>1, <3>2, <1>2, <2>3, Zenon DEF TagsGood
  <2> QED
    BY <1>1, <1>5, <2>1, <2>2, <2>3, Zenon DEF BadInv
<1>13. OutInv(dc')
  BY <1>1, Zenon DEF OutInv
<1> QED
  BY <1>6, <1>7, <1>8, <1>9, <1>10, <1>11, <1>12, <1>13, Zenon DEF DcInv, DcGood

\* When a response can be given, the memories are at rest.
LEMMA AtRest ==
  ASSUME DcInv, ~ InMiss(dc), ~ (dc.st = "write" /\ dc.req.r.en)
  PROVE  DcRest(dc.build, tags, cells, lruMem, wc, mainMem, foreign)
<1>1. DcGood(dc, tags, cells, lruMem, wc, mainMem, foreign)
  BY Zenon DEF DcInv
<1>2. TagsGood(dc.build, tags)
  BY <1>1, Zenon DEF DcGood, DcTypes, TagsGood, ReqInv, BadInv, Single, Through
<1>3. LruGood(dc.build, lruMem) /\ WcGood(wc) /\ cells \in DcCells /\ (~ Thru(dc.build) => foreign = {})
  BY <1>1, Zenon DEF DcGood, DcTypes, LruGood, WcGood, Single, Through
<1>4. MemRest(dc.build, tags, wc, mainMem)
  <2>1. dc.st # "writeBack"
    BY Zenon DEF InMiss
  <2> QED
    BY <1>1, <2>1, Zenon DEF DcGood, MemInv, MemRest
<1>5. CellRest(dc.build, tags, cells, foreign)
  BY <1>1, Zenon DEF DcGood, CellInv, CellRest
<1> QED
  BY <1>2, <1>3, <1>4, <1>5, Zenon DEF DcRest

\* The tags are the ones that were read.
LEMMA ReadSame ==
  ASSUME tags' = tags PROVE Read(tags, tags', dc, FALSE)
  BY Zenon DEF Read

\* A response that leaves the memories alone, the replacement bits of the two-way cache
\* excepted.
LEMMA AnswerAtRest ==
  ASSUME DcInv, ~ InMiss(dc), ~ (dc.st = "write" /\ dc.req.r.en),
         NEW out \in {"none", "DVA", "ERR", "unreported", "late", "stale"}, Answer(out, FALSE),
         out # "stale", dc.build.kind # "two" => out # "unreported",
         LruGood(dc.build, lruMem'), UNCHANGED <<tags, cells, wc, mainMem, foreign>>
  PROVE  DcInv'
<1>1. DcRest(dc.build, tags, cells, lruMem, wc, mainMem, foreign)
  BY AtRest, Zenon
<1>2. dc \in DcRegs /\ LruGood(dc.build, lruMem) /\ TagsGood(dc.build, tags)
  BY <1>1, Zenon DEF DcInv, DcGood, DcTypes, DcRest
<1>3. DcRest(dc.build, tags', cells', lruMem', wc', mainMem', foreign') /\ CellRest(dc.build, tags, cells', foreign')
  BY <1>1, Zenon DEF DcRest
<1>4. Read(tags, tags', dc, FALSE)
  BY ReadSame, Zenon
<1> QED
  BY <1>2, <1>3, <1>4, AnswerKeeps, Zenon

\* The use of a way is noted only by the two-way cache.
LEMMA TouchedGood ==
  ASSUME LruGood(dc.build, lruMem), NEW a \in Int, NEW bit \in BOOLEAN, Touched(a, bit)
  PROVE  LruGood(dc.build, lruMem')
<1>1. CASE dc.build.kind = "two"
  <2>1. lruMem' = [lruMem EXCEPT ![Cell(a)] = bit]
    BY <1>1, Zenon DEF Touched
  <2> QED
    BY <1>1, <2>1, Zenon DEF LruGood, DcLru
<1>2. CASE dc.build.kind # "two"
  BY <1>2, Zenon DEF Touched, LruGood
<1> QED
  BY <1>1, <1>2, Zenon

\* A cycle without an access keeps the invariant.
LEMMA IdleKeeps ==
  ASSUME DcInv, Idle PROVE DcInv'
<1>1. ~ InMiss(dc) /\ dc.st # "write" /\ LruGood(dc.build, lruMem)
  BY Zenon DEF Idle, Pending, InMiss, DcInv, DcGood, DcTypes, Single, LruGood
<1>2. LruGood(dc.build, lruMem') /\ UNCHANGED <<tags, cells, wc, mainMem, foreign>> /\ Answer("none", FALSE)
  BY <1>1, Zenon DEF Idle
<1> QED
  BY <1>1, <1>2, AnswerAtRest, Zenon

\* A load that hits keeps the invariant: the cell has the last byte stored.
LEMMA LoadHitKeeps ==
  ASSUME DcInv, LoadHit PROVE DcInv'
<1> DEFINE a == Adr(dc)  y == dc.req.way  v == cells[y][Cell(a)]  out == Judge(v)
<1>1. /\ dc.st = "idle" /\ dc.req.r.cmd = "RD" /\ dc.req.r.cached /\ y # 0 /\ Answer(out, FALSE)
      /\ Touched(a, y = 1) /\ UNCHANGED <<tags, cells, wc, mainMem, foreign>>
  BY Zenon DEF LoadHit, Pending, Accessed, Adr
<1>2. ~ InMiss(dc) /\ dc.st # "write" /\ LruGood(dc.build, lruMem) /\ dc \in DcRegs
  BY <1>1, Zenon DEF InMiss, DcInv, DcGood, DcTypes, Single, LruGood
<1>3. a \in DcAddr /\ a \in Int /\ y \in 0 .. 2
  BY <1>2, Fields, Zenon
<1>4. y \in Ways
  BY <1>1, <1>3 DEF Ways
<1>5. Accesses(dc)
  BY <1>1, Zenon DEF Accesses
<1>6. LruGood(dc.build, lruMem')
  BY <1>1, <1>2, <1>3, TouchedGood, Zenon
<1>7. /\ Tagged(tags, y, a) /\ (Valid(tags, y, a) \/ dc.req.late)
      /\ dc.build.kind # "two" => LineOf(a) \notin dc.build.bad
  BY <1>1, <1>5, Zenon DEF DcInv, DcGood, ReqInv, BadInv
<1>8. LineOf(a) \notin dc.build.bad => v = a \/ a \in foreign \/ dc.req.late
  BY <1>2, <1>3, <1>4, <1>7, Zenon DEF DcInv, DcGood, CellInv
<1>9. out \in {"DVA", "unreported", "late"} /\ (out = "unreported" => LineOf(a) \in dc.build.bad)
  BY <1>1, <1>8, Zenon DEF Judge, Adr
<1>10. out \in {"none", "DVA", "ERR", "unreported", "late", "stale"} /\ out # "stale" /\ (dc.build.kind # "two" => out # "unreported")
  BY <1>7, <1>9, Zenon
<1> HIDE DEF out
<1> QED
  BY <1>1, <1>2, <1>6, <1>10, AnswerAtRest, Zenon

\* The response after a miss keeps the invariant.
LEMMA RespondKeeps ==
  ASSUME DcInv, Respond PROVE DcInv'
<1> DEFINE out == IF dc.st = "failed" THEN "ERR" ELSE IF dc.req.r.cmd = "WR" THEN "DVA" ELSE Judge(dc.val)
<1>1. /\ dc.st \in {"respond", "failed"} /\ Answer(out, FALSE)
      /\ UNCHANGED <<tags, cells, lruMem, wc, mainMem, foreign>>
  BY Zenon DEF Respond
<1>2. ~ InMiss(dc) /\ dc.st # "write" /\ LruGood(dc.build, lruMem)
  BY <1>1, Zenon DEF InMiss, DcInv, DcGood, DcTypes, Single, LruGood
<1>3. Accesses(dc)
  BY <1>1, Zenon DEF DcInv, DcGood, ReqInv
<1>4. dc.st = "respond" => LineOf(Adr(dc)) \notin dc.build.bad /\ (dc.req.r.cmd = "RD" => dc.val = Adr(dc))
  BY Zenon DEF DcInv, DcGood, BadInv, OutInv
<1>5. out \in {"ERR", "DVA"}
  BY <1>1, <1>3, <1>4, Zenon DEF Judge, Adr, Accesses
<1>6. out \in {"none", "DVA", "ERR", "unreported", "late", "stale"} /\ out # "stale" /\ out # "unreported"
  BY <1>5, Zenon
<1> HIDE DEF out
<1>7. LruGood(dc.build, lruMem')
  BY <1>1, <1>2, Zenon
<1> QED
  BY <1>1, <1>2, <1>6, <1>7, AnswerAtRest, Zenon
-----------------------------------------------------------------------------
\* What a store does to the cells.
LEMMA StoredIs ==
  ASSUME cells \in DcCells, NEW a \in DcAddr, NEW where, NEW en \in BOOLEAN
  PROVE  StoredCells(a, where, en) \in DcCells
<1> DEFINE D == 0 .. DcSets * DcBurst - 1
           F(w, c) == IF ~ en THEN cells[w][c]
                      ELSE IF w = where /\ c = Cell(a) THEN a
                      ELSE IF cells[w][c] = a THEN Old ELSE cells[w][c]
<1>1. \A w \in Ways : DOMAIN cells[w] = D
  BY Zenon DEF DcCells
<1>2. \A w \in Ways, c \in D : cells[w][c] \in DcAddr \cup {Old}
  BY Zenon DEF DcCells
<1>3. StoredCells(a, where, en) = [w \in Ways |-> [c \in D |-> F(w, c)]]
  BY <1>1, Zenon DEF StoredCells
<1>4. \A w \in Ways, c \in D : F(w, c) \in DcAddr \cup {Old}
  BY <1>2, Zenon
<1> HIDE DEF F
<1>5. \A w \in Ways : [c \in D |-> F(w, c)] \in [D -> DcAddr \cup {Old}]
  BY <1>4, Zenon
<1> QED
  BY <1>3, <1>5, Zenon DEF DcCells

\* After a store to a, the word e in way w is still the last one if way w is where the
\* store goes when it is to e.
StoreKeeps(a, where, en) ==
  \A w \in Ways, e \in DcAddr :
    /\ cells[w][Cell(e)] = e \/ e \in foreign
    /\ en /\ e = a => w = where
    /\ w = where /\ Cell(e) = Cell(a) => e = a
    => StoredCells(a, where, en)[w][Cell(e)] = e \/ (e \in foreign /\ ~ (en /\ e = a))

\* A store leaves no cell of another address changed.
LEMMA StoredWord ==
  ASSUME cells \in DcCells, NEW a \in DcAddr, NEW where, NEW en \in BOOLEAN
  PROVE  StoreKeeps(a, where, en)
<1> DEFINE S == StoredCells(a, where, en)
<1> SUFFICES ASSUME NEW w \in Ways, NEW e \in DcAddr, cells[w][Cell(e)] = e \/ e \in foreign,
                    en /\ e = a => w = where,
                    w = where /\ Cell(e) = Cell(a) => e = a
             PROVE  S[w][Cell(e)] = e \/ (e \in foreign /\ ~ (en /\ e = a))
  BY Zenon DEF StoreKeeps
<1>1. Cell(e) \in 0 .. DcSets * DcBurst - 1
  BY AddrInt, CellIs, Zenon
<1>2. DOMAIN cells[w] = 0 .. DcSets * DcBurst - 1
  BY Zenon DEF DcCells
<1>3. S[w][Cell(e)] = IF ~ en THEN cells[w][Cell(e)]
                      ELSE IF w = where /\ Cell(e) = Cell(a) THEN a
                      ELSE IF cells[w][Cell(e)] = a THEN Old ELSE cells[w][Cell(e)]
  BY <1>1, <1>2, Zenon DEF StoredCells
<1> HIDE DEF S
<1>4. CASE ~ en
  BY <1>3, <1>4, Zenon
<1>5. CASE en /\ e = a
  BY <1>3, <1>5, Zenon
<1>6. CASE en /\ e # a
  BY <1>3, <1>6, Zenon
<1> QED
  BY <1>4, <1>5, <1>6, Zenon

\* A tag that is replaced.
TagPut(t, v, k, n) == [t EXCEPT ![v][k] = n]

\* p is t with the entry n for index k of way v.
PutAt(p, t, v, k, n) ==
  \A w \in Ways, i \in 0 .. DcSets - 1 : p[w][i] = IF w = v /\ i = k THEN n ELSE t[w][i]

\* Writing one entry of the tags.
LEMMA TagPutIs ==
  ASSUME NEW t \in DcTags, NEW v \in Ways, NEW k \in 0 .. DcSets - 1, NEW n \in DcTag
  PROVE  TagPut(t, v, k, n) \in DcTags /\ PutAt(TagPut(t, v, k, n), t, v, k, n)
<1> DEFINE row == [t[v] EXCEPT ![k] = n]  p == TagPut(t, v, k, n)
<1>1. p = [t EXCEPT ![v] = row]
  BY Zenon DEF TagPut
<1>2. t[v] \in [0 .. DcSets - 1 -> DcTag]
  BY Zenon DEF DcTags
<1>3. row \in [0 .. DcSets - 1 -> DcTag] /\ \A i \in 0 .. DcSets - 1 : row[i] = IF i = k THEN n ELSE t[v][i]
  BY <1>2, Zenon
<1> HIDE DEF row, p
<1>4. p \in DcTags
  BY <1>1, <1>3, Zenon DEF DcTags
<1>5. PutAt(p, t, v, k, n)
  BY <1>1, <1>3, Zenon DEF DcTags, PutAt
<1> QED
  BY <1>4, <1>5, Zenon DEF p

\* A tag whose dirty bit is set.
Dirtied(p, t, k) ==
  \A w \in Ways, i \in 0 .. DcSets - 1 :
    /\ p[w][i].line = t[w][i].line /\ (p[w][i].valid <=> t[w][i].valid)
    /\ p[w][i].dirty <=> t[w][i].dirty \/ (w = 1 /\ i = k)

\* Marking an entry dirty.
LEMMA DirtiedIs ==
  ASSUME tags \in DcTags, NEW k \in 0 .. DcSets - 1, tags' = [tags EXCEPT ![1][k].dirty = TRUE]
  PROVE  tags' \in DcTags /\ Dirtied(tags', tags, k)
<1> DEFINE t == tags[1][k]  n == [t EXCEPT !.dirty = TRUE]
<1>1. 1 \in Ways
  BY DEF Ways
<1>2. t \in DcTag
  BY <1>1, Zenon DEF DcTags
<1>3. n \in DcTag /\ n.line = t.line /\ (n.valid <=> t.valid) /\ n.dirty
  BY <1>2, Zenon DEF DcTag
<1>4. tags' = TagPut(tags, 1, k, n)
  BY Zenon DEF TagPut
<1> HIDE DEF n
<1>t. n \in DcTag
  BY <1>3, Zenon
<1>p. TagPut(tags, 1, k, n) \in DcTags /\ PutAt(TagPut(tags, 1, k, n), tags, 1, k, n)
  BY <1>1, <1>t, TagPutIs
<1>5. tags' \in DcTags /\ PutAt(tags', tags, 1, k, n)
  BY <1>4, <1>p, Zenon
<1>6. ASSUME NEW w \in Ways, NEW i \in 0 .. DcSets - 1
      PROVE  /\ tags'[w][i].line = tags[w][i].line /\ (tags'[w][i].valid <=> tags[w][i].valid)
             /\ tags'[w][i].dirty <=> tags[w][i].dirty \/ (w = 1 /\ i = k)
  <2>1. CASE w = 1 /\ i = k
    <3>1. tags'[w][i] = n /\ tags[w][i] = t
      BY <2>1, <1>5, Zenon DEF PutAt
    <3> HIDE DEF t
    <3> QED
      BY <2>1, <3>1, <1>3, Zenon
  <2>2. CASE ~ (w = 1 /\ i = k)
    <3>1. tags'[w][i] = tags[w][i]
      BY <2>2, <1>5, Zenon DEF PutAt
    <3> QED
      BY <2>2, <3>1, Zenon
  <2> QED
    BY <2>1, <2>2, Zenon
<1> QED
  BY <1>5, <1>6, Zenon DEF Dirtied

\* A tag whose valid bit is cleared.
Unset(p, t, v, k) ==
  \A w \in Ways, i \in 0 .. DcSets - 1 :
    /\ p[w][i].line = t[w][i].line /\ (p[w][i].dirty <=> t[w][i].dirty)
    /\ p[w][i].valid <=> t[w][i].valid /\ ~ (w = v /\ i = k)

\* Marking an entry invalid.
LEMMA UnsetIs ==
  ASSUME tags \in DcTags, NEW v \in Ways, NEW k \in 0 .. DcSets - 1, tags' = [tags EXCEPT ![v][k].valid = FALSE]
  PROVE  tags' \in DcTags /\ Unset(tags', tags, v, k)
<1> DEFINE t == tags[v][k]  n == [t EXCEPT !.valid = FALSE]
<1>1. t \in DcTag
  BY Zenon DEF DcTags
<1>2. n \in DcTag /\ n.line = t.line /\ (n.dirty <=> t.dirty) /\ ~ n.valid
  BY <1>1, Zenon DEF DcTag
<1>3. tags' = TagPut(tags, v, k, n)
  BY Zenon DEF TagPut
<1> HIDE DEF n
<1>t. n \in DcTag
  BY <1>2, Zenon
<1>p. TagPut(tags, v, k, n) \in DcTags /\ PutAt(TagPut(tags, v, k, n), tags, v, k, n)
  BY <1>t, TagPutIs
<1>4. tags' \in DcTags /\ PutAt(tags', tags, v, k, n)
  BY <1>3, <1>p, Zenon
<1>5. ASSUME NEW w \in Ways, NEW i \in 0 .. DcSets - 1
      PROVE  /\ tags'[w][i].line = tags[w][i].line /\ (tags'[w][i].dirty <=> tags[w][i].dirty)
             /\ tags'[w][i].valid <=> tags[w][i].valid /\ ~ (w = v /\ i = k)
  <2>1. CASE w = v /\ i = k
    <3>1. tags'[w][i] = n /\ tags[w][i] = t
      BY <2>1, <1>4, Zenon DEF PutAt
    <3> HIDE DEF t
    <3> QED
      BY <2>1, <3>1, <1>2, Zenon
  <2>2. CASE ~ (w = v /\ i = k)
    <3>1. tags'[w][i] = tags[w][i]
      BY <2>2, <1>4, Zenon DEF PutAt
    <3> QED
      BY <2>2, <3>1, Zenon
  <2> QED
    BY <2>1, <2>2, Zenon
<1> QED
  BY <1>4, <1>5, Zenon DEF Unset

\* What the memory and the buffer hold of a word that is not stored to.
LEMMA ReadableKept ==
  ASSUME NEW b, NEW x \in DcWc, NEW m, NEW a, NEW e, e # a,
         Readable(b, x, m, e)
  PROVE  Readable(b, x, m \ {a}, e) /\ Readable(b, [x EXCEPT !.last = @ \ {a}], m \ {a}, e)
<1> DEFINE z == [x EXCEPT !.last = @ \ {a}]
<1>1. z.line = x.line /\ z.en = x.en /\ z.last = x.last \ {a}
  BY Zenon DEF DcWc
<1> HIDE DEF z
<1>2. Readable(b, x, m \ {a}, e) /\ Readable(b, z, m \ {a}, e)
  BY <1>1, Zenon DEF Readable
<1> QED
  BY <1>2, Zenon DEF z

\* A word of the write-combine buffer that is no longer the last.
LEMMA WcWithout ==
  ASSUME WcGood(wc), NEW a PROVE WcGood([wc EXCEPT !.last = @ \ {a}])
<1> DEFINE z == [wc EXCEPT !.last = @ \ {a}]
<1>1. z \in DcWc /\ z.line = wc.line /\ z.en = wc.en /\ z.last = wc.last \ {a}
  BY Zenon DEF DcWc, WcGood
<1> HIDE DEF z
<1>2. WcGood(z)
  BY <1>1, Zenon DEF WcGood
<1> QED
  BY <1>2, Zenon DEF z

\* A store that hits in the write-back cache keeps the invariant.
LEMMA StoreBackKeeps ==
  ASSUME DcInv, StoreBack PROVE DcInv'
<1> DEFINE a == Adr(dc)  y == dc.req.way  en == dc.req.r.en  k == Index(a)
<1>1. /\ dc.st = "idle" /\ dc.req.r.cmd = "WR" /\ dc.req.r.cached /\ ~ Thru(dc.build) /\ y # 0
      /\ cells' = StoredCells(a, y, en) /\ tags' = [tags EXCEPT ![1][k].dirty = TRUE]
      /\ mainMem' = (IF en THEN mainMem \ {a} ELSE mainMem)
      /\ wc' = (IF en THEN [wc EXCEPT !.last = @ \ {a}] ELSE wc)
      /\ Answer("DVA", FALSE) /\ lruMem' = lruMem /\ foreign' = foreign
  BY Zenon DEF StoreBack, Pending, Accessed, Adr, WriteThrough, Thru
<1>2. ~ InMiss(dc) /\ dc.st # "write" /\ Accesses(dc) /\ dc.build.kind # "two"
  BY <1>1, Zenon DEF InMiss, Accesses, Thru
<1>3. DcRest(dc.build, tags, cells, lruMem, wc, mainMem, foreign) /\ dc \in DcRegs
  BY <1>2, AtRest, Zenon DEF DcInv, DcGood, DcTypes
<1>4. a \in DcAddr /\ a \in Int /\ en \in BOOLEAN /\ k \in 0 .. DcSets - 1
  BY <1>3, Fields, CellIs, Zenon DEF DcRequest
<1>5. y = 1 /\ Tagged(tags, 1, a) /\ LineOf(a) \notin dc.build.bad /\ foreign = {} /\ 1 \in Ways
  <2>1. y \in {0, 1} /\ Tagged(tags, y, a) /\ LineOf(a) \notin dc.build.bad /\ foreign = {}
    BY <1>1, <1>2, Zenon DEF DcInv, DcGood, Single, ReqInv, BadInv, Through
  <2>2. 1 \in Ways
    BY DEF Ways
  <2> QED
    BY <1>1, <2>1, <2>2, Zenon
<1>6. /\ tags' \in DcTags
      /\ \A w \in Ways, i \in 0 .. DcSets - 1 :
              /\ tags'[w][i].line = tags[w][i].line
              /\ tags'[w][i].valid <=> tags[w][i].valid
              /\ tags'[w][i].dirty <=> tags[w][i].dirty \/ (w = 1 /\ i = k)
  <2>1. tags \in DcTags
    BY <1>3, Zenon DEF DcRest, TagsGood
  <2> QED
    <3>1. tags' \in DcTags /\ Dirtied(tags', tags, k)
      BY <1>1, <1>4, <2>1, DirtiedIs, Zenon
    <3> QED
      BY <3>1, Zenon DEF Dirtied
<1>7. tags[1][k].line = LineOf(a)
  BY <1>5, Zenon DEF Tagged
<1> HIDE DEF a, y, en, k
<1>8. TagsGood(dc.build, tags')
  <2>1. 2 \in Ways /\ 2 # 1
    BY DEF Ways
  <2>2. TagsGood(dc.build, tags)
    BY <1>3, Zenon DEF DcRest
  <2>3. OneWay(tags')
    <3>1. \A i \in 0 .. DcSets - 1 : ~ tags[2][i].valid
      BY <2>2, <1>2, Zenon DEF TagsGood
    <3> QED
      BY <3>1, <2>1, <1>6, Zenon DEF OneWay
  <2>4. OwnSet(tags')
    <3> SUFFICES ASSUME NEW i \in 0 .. DcSets - 1, tags'[1][i].dirty PROVE tags[1][i].line % DcSets = i
      BY <1>5, <1>6, Zenon DEF OwnSet
    <3>1. CASE i = k
      BY <3>1, <1>7, Zenon DEF Index, k
    <3>2. CASE i # k
      BY <3>2, <2>2, <1>5, <1>6, Zenon DEF TagsGood, OwnSet
    <3> QED
      BY <3>1, <3>2, Zenon
  <2>5. ASSUME NEW i \in 0 .. DcSets - 1
        PROVE  /\ ~ tags'[2][i].valid /\ ~ tags'[2][i].dirty
               /\ tags'[1][i].valid => tags'[1][i].line \notin dc.build.bad
    <3>1. ~ tags'[2][i].valid /\ ~ tags'[2][i].dirty
      BY <1>2, <1>6, <2>1, <2>2, Zenon DEF TagsGood
    <3>2. CASE i = k
      <4>1. tags'[1][i].line = LineOf(a)
        BY <3>2, <1>5, <1>6, <1>7, Zenon
      <4> QED
        BY <3>1, <4>1, <1>5, Zenon
    <3>3. CASE i # k
      BY <3>1, <3>3, <1>2, <1>5, <1>6, <2>2, Zenon DEF TagsGood
    <3> QED
      BY <3>2, <3>3, Zenon
  <2> QED
    BY <1>1, <1>6, <2>3, <2>4, <2>5, Zenon DEF TagsGood
<1>9. WcGood(wc') /\ cells' \in DcCells
  BY <1>1, <1>3, <1>4, WcWithout, StoredIs, Zenon DEF DcRest
<1>10. MemRest(dc.build, tags', wc', mainMem')
  <2> SUFFICES ASSUME NEW e \in DcAddr, LineOf(e) \notin dc.build.bad
               PROVE  Readable(dc.build, wc', mainMem', e) \/ (Tagged(tags', 1, e) /\ Dirty(tags', 1, e))
    BY Zenon DEF MemRest
  <2>1. Index(e) \in 0 .. DcSets - 1
    BY AddrInt, CellIs, Zenon
  <2>2. CASE e = a
    BY <2>1, <2>2, <1>5, <1>6, <1>7, Zenon DEF Tagged, Dirty, k
  <2>3. CASE e # a /\ Tagged(tags, 1, e) /\ Dirty(tags, 1, e)
    BY <2>1, <2>3, <1>5, <1>6, Zenon DEF Tagged, Dirty
  <2>4. CASE e # a /\ Readable(dc.build, wc, mainMem, e)
    BY <2>4, <1>1, <1>3, ReadableKept, Zenon DEF DcRest, WcGood
  <2> QED
    BY <2>2, <2>3, <2>4, <1>3, Zenon DEF DcRest, MemRest
<1>11. CellRest(dc.build, tags', cells', foreign')
  <2> SUFFICES ASSUME NEW w \in Ways, NEW e \in DcAddr, LineOf(e) \notin dc.build.bad, Tagged(tags', w, e),
                      Valid(tags', w, e) \/ Dirty(tags', w, e)
               PROVE  cells'[w][Cell(e)] = e \/ e \in foreign'
    BY Zenon DEF CellRest
  <2>1. Index(e) \in 0 .. DcSets - 1 /\ e \in Int
    BY AddrInt, CellIs, Zenon
  <2>2. Tagged(tags, w, e)
    BY <2>1, <1>6, Zenon DEF Tagged
  <2>3. cells[w][Cell(e)] = e
    <3>1. CASE Valid(tags, w, e) \/ Dirty(tags, w, e)
      BY <3>1, <2>2, <1>3, <1>5, Zenon DEF DcRest, CellRest
    <3>2. CASE ~ (Valid(tags, w, e) \/ Dirty(tags, w, e))
      <4>1. w = 1 /\ Index(e) = k
        BY <3>2, <2>1, <1>6, Zenon DEF Valid, Dirty
      <4>2. LineOf(e) = LineOf(a)
        BY <4>1, <2>2, <1>7, Zenon DEF Tagged
      <4>3. Kept(dc, w, e)
        BY <4>1, <4>2, <1>1, <1>5, Zenon DEF Kept, a, y
      <4> QED
        BY <4>3, <2>2, <1>2, <1>5, Zenon DEF DcInv, DcGood, CellInv
    <3> QED
      BY <3>1, <3>2, Zenon
  <2>4. Valid(tags, w, e) \/ Dirty(tags, w, e) \/ (w = 1 /\ Index(e) = k)
    BY <2>1, <1>6, Zenon DEF Valid, Dirty
  <2>5. w = 1
    <3>1. w = 1 \/ w = 2
      BY DEF Ways
    <3> QED
      BY <3>1, <2>1, <2>4, <1>2, <1>3, Zenon DEF DcRest, TagsGood, Valid, Dirty
  <2>6. Cell(e) = Cell(a) => e = a
    <3>1. ASSUME Cell(e) = Cell(a) PROVE e = a
      <4>1. Index(e) = k
        BY <3>1, <2>1, <1>4, CellApart, Zenon DEF k
      <4>2. LineOf(e) = LineOf(a)
        BY <4>1, <2>2, <2>5, <1>7, Zenon DEF Tagged
      <4> QED
        BY <3>1, <4>2, <2>1, <1>4, CellApart, Zenon
    <3> QED
      BY <3>1, Zenon
  <2>7. StoredCells(a, y, en)[w][Cell(e)] = e \/ (e \in foreign /\ ~ (en /\ e = a))
    <3>1. cells \in DcCells
      BY <1>3, Zenon DEF DcRest
    <3>2. (en /\ e = a => w = y) /\ (w = y /\ Cell(e) = Cell(a) => e = a)
      BY <2>5, <2>6, <1>5, Zenon
    <3>3. StoreKeeps(a, y, en)
      BY <3>1, <1>4, StoredWord, Zenon
    <3> QED
      BY <3>2, <3>3, <2>3, Zenon DEF StoreKeeps
  <2> QED
    BY <2>7, <1>1, <1>5, Zenon
<1>12. CellRest(dc.build, tags, cells', foreign')
  <2> SUFFICES ASSUME NEW w \in Ways, NEW e \in DcAddr, LineOf(e) \notin dc.build.bad, Tagged(tags, w, e),
                      Valid(tags, w, e) \/ Dirty(tags, w, e)
               PROVE  cells'[w][Cell(e)] = e \/ e \in foreign'
    BY Zenon DEF CellRest
  <2>1. Index(e) \in 0 .. DcSets - 1
    BY AddrInt, CellIs, Zenon
  <2>2. Tagged(tags', w, e) /\ (Valid(tags', w, e) \/ Dirty(tags', w, e))
    BY <2>1, <1>6, Zenon DEF Tagged, Valid, Dirty
  <2> QED
    BY <2>2, <1>11, Zenon DEF CellRest
<1>13. Read(tags, tags', dc, FALSE)
  <2>1. \A w \in Ways, i \in 0 .. DcSets - 1 :
          tags'[w][i].dirty => tags[w][i].dirty \/ (/\ Accesses(dc) /\ dc.req.r.cached /\ tags[w][i].line = LineOf(Adr(dc))
                                                    /\ LineOf(Adr(dc)) \notin dc.build.bad)
    BY <1>1, <1>2, <1>5, <1>6, <1>7, Zenon DEF a
  <2> QED
    BY <1>6, <2>1, Zenon DEF Read
<1>14. DcRest(dc.build, tags', cells', lruMem', wc', mainMem', foreign')
  BY <1>1, <1>3, <1>8, <1>9, <1>10, <1>11, Zenon DEF DcRest
<1>15. LruGood(dc.build, lruMem) /\ TagsGood(dc.build, tags)
  BY <1>3, Zenon DEF DcRest
<1>16. "DVA" \in {"none", "DVA", "ERR", "unreported", "late", "stale"} /\ "DVA" # "stale" /\ "DVA" # "unreported" /\ FALSE \in BOOLEAN
  BY Zenon
<1> QED
  BY <1>1, <1>3, <1>12, <1>13, <1>14, <1>15, <1>16, AnswerKeeps, Zenon

\* The cells after a store to the memory: the only valid word it can be to is the one
\* that is updated.
LEMMA ThroughCells ==
  ASSUME DcInv, StoreThrough
  PROVE  cells' \in DcCells /\ CellRest(dc.build, tags, cells', foreign')
<1> DEFINE a == Adr(dc)  y == dc.req.way  en == dc.req.r.en  hit == IF Thru(dc.build) THEN y ELSE 0
<1>1. /\ dc.st = "idle" /\ dc.req.r.cmd = "WR" /\ (Thru(dc.build) \/ ~ dc.req.r.cached)
      /\ cells' = StoredCells(a, hit, en)
      /\ foreign' = IF en THEN foreign \ {a} ELSE foreign
  BY Zenon DEF StoreThrough, Pending, Accessed, Adr, WriteThrough, Thru
<1>2. ~ InMiss(dc) /\ dc.st # "write" /\ Accesses(dc)
  BY <1>1, Zenon DEF InMiss, Accesses
<1>3. DcRest(dc.build, tags, cells, lruMem, wc, mainMem, foreign) /\ dc \in DcRegs
  BY <1>2, AtRest, Zenon DEF DcInv, DcGood, DcTypes
<1>4. a \in DcAddr /\ a \in Int /\ en \in BOOLEAN /\ Index(a) \in 0 .. DcSets - 1 /\ y \in 0 .. 2
  BY <1>3, Fields, CellIs, Zenon DEF DcRequest
<1>5. cells \in DcCells /\ TagsGood(dc.build, tags)
  BY <1>3, Zenon DEF DcRest
<1>6. /\ y = 0 => \A w \in Ways : ~ (Valid(tags, w, a) /\ Tagged(tags, w, a))
      /\ y # 0 => Tagged(tags, y, a) /\ (Valid(tags, y, a) \/ NoneValid(tags))
      /\ ~ Thru(dc.build) => \A w \in Ways : ~ ((Valid(tags, w, a) \/ Dirty(tags, w, a)) /\ Tagged(tags, w, a))
  BY <1>1, <1>2, Zenon DEF DcInv, DcGood, ReqInv
<1> HIDE DEF a, y, en, hit
<1>7. ASSUME NEW w \in Ways, NEW e \in DcAddr, LineOf(e) \notin dc.build.bad, Tagged(tags, w, e),
             Valid(tags, w, e) \/ Dirty(tags, w, e)
      PROVE  cells'[w][Cell(e)] = e \/ e \in foreign'
  <2>1. Index(e) \in 0 .. DcSets - 1 /\ e \in Int
    BY AddrInt, CellIs, Zenon
  <2>2. cells[w][Cell(e)] = e \/ e \in foreign
    BY <1>3, <1>7, Zenon DEF DcRest, CellRest
  <2>3. ASSUME e = a PROVE w = hit
    <3>1. Thru(dc.build)
      BY <2>3, <1>6, <1>7, Zenon
    <3>2. Valid(tags, w, a)
      BY <2>1, <2>3, <3>1, <1>5, <1>7, Zenon DEF TagsGood, Dirty
    <3>3. y # 0 /\ Valid(tags, y, a) /\ Tagged(tags, y, a)
      BY <2>3, <3>2, <1>4, <1>6, <1>7, Zenon DEF NoneValid, Valid
    <3>4. (w = 1 \/ w = 2) /\ (y = 1 \/ y = 2)
      BY <3>3, <1>4 DEF Ways
    <3>5. w = y
      <4>1. tags[w][Index(a)].valid /\ tags[y][Index(a)].valid /\ tags[w][Index(a)].line = tags[y][Index(a)].line
        BY <2>3, <3>2, <3>3, <1>7, Zenon DEF Valid, Tagged
      <4>2. ~ (tags[1][Index(a)].valid /\ tags[2][Index(a)].valid /\ tags[1][Index(a)].line = tags[2][Index(a)].line)
        <5>1. OneWay(tags)
          BY <1>5, Zenon DEF TagsGood
        <5> QED
          BY <1>4, <5>1, Zenon DEF OneWay
      <4>3. ASSUME w = 1, y = 2 PROVE FALSE
        <5>1. tags[1][Index(a)].valid /\ tags[2][Index(a)].valid /\ tags[1][Index(a)].line = tags[2][Index(a)].line
          BY <4>1, <4>3, Zenon
        <5> QED
          BY <5>1, <4>2, Zenon
      <4>4. ASSUME w = 2, y = 1 PROVE FALSE
        <5>1. tags[1][Index(a)].valid /\ tags[2][Index(a)].valid /\ tags[1][Index(a)].line = tags[2][Index(a)].line
          BY <4>1, <4>4, Zenon
        <5> QED
          BY <5>1, <4>2, Zenon
      <4> QED
        BY <3>4, <4>3, <4>4
    <3> QED
      BY <3>1, <3>5, Zenon DEF hit
  <2>4. ASSUME w = hit, Cell(e) = Cell(a) PROVE e = a
    <3>1. w # 0
      BY DEF Ways
    <3>2. Tagged(tags, w, a)
      BY <2>4, <3>1, <1>6, Zenon DEF hit
    <3>3. Index(e) = Index(a)
      BY <2>1, <2>4, <1>4, CellApart, Zenon
    <3>4. LineOf(e) = LineOf(a)
      BY <3>2, <3>3, <1>7, Zenon DEF Tagged
    <3> QED
      BY <3>4, <2>1, <2>4, <1>4, CellApart, Zenon
  <2>5. StoredCells(a, hit, en)[w][Cell(e)] = e \/ (e \in foreign /\ ~ (en /\ e = a))
    <3>1. (en /\ e = a => w = hit) /\ (w = hit /\ Cell(e) = Cell(a) => e = a)
      BY <2>3, <2>4, Zenon
    <3>2. StoreKeeps(a, hit, en)
      BY <1>4, <1>5, StoredWord, Zenon
    <3> QED
      BY <3>1, <3>2, <2>2, Zenon DEF StoreKeeps
  <2> QED
    BY <2>5, <1>1, Zenon
<1>8. cells' \in DcCells
  BY <1>1, <1>4, <1>5, StoredIs, Zenon
<1> QED
  BY <1>7, <1>8, Zenon DEF CellRest

\* A store passed to the memory keeps the invariant: until its burst, the cache and the
\* write-combine buffer know that the memory is behind.
LEMMA StoreThroughKeeps ==
  ASSUME DcInv, StoreThrough PROVE DcInv'
<1> DEFINE a == Adr(dc)  y == dc.req.way  en == dc.req.r.en  b == dc.build
<1>1. /\ dc.st = "idle" /\ dc.req.r.cmd = "WR" /\ (Thru(b) \/ ~ dc.req.r.cached)
      /\ mainMem' = (IF en THEN mainMem \ {a} ELSE mainMem)
      /\ foreign' = (IF en THEN foreign \ {a} ELSE foreign)
      /\ tags' = tags
  BY Zenon DEF StoreThrough, Pending, Accessed, Adr, WriteThrough, Thru
<1>2. ~ InMiss(dc) /\ dc.st # "write" /\ Accesses(dc)
  BY <1>1, Zenon DEF InMiss, Accesses
<1>3. DcRest(b, tags, cells, lruMem, wc, mainMem, foreign) /\ dc \in DcRegs
  BY <1>2, AtRest, Zenon DEF DcInv, DcGood, DcTypes
<1>4. a \in DcAddr /\ a \in Int /\ en \in BOOLEAN
  BY <1>3, Fields, Zenon DEF DcRequest
<1>5. cells' \in DcCells /\ CellRest(b, tags, cells', foreign')
  BY ThroughCells, Zenon
<1>6. LruGood(b, lruMem) /\ TagsGood(b, tags) /\ WcGood(wc) /\ (~ Thru(b) => foreign' = {})
  BY <1>1, <1>3, Zenon DEF DcRest
<1>7. LruGood(b, lruMem')
  <2> DEFINE hit == IF WriteThrough THEN dc.req.way ELSE 0
  <2>1. IF hit # 0 THEN Touched(Accessed, hit = 1) ELSE UNCHANGED lruMem
    BY Zenon DEF StoreThrough
  <2> HIDE DEF hit
  <2>2. CASE hit # 0
    <3>1. Accessed \in Int /\ (hit = 1) \in BOOLEAN
      BY <1>4, Zenon DEF Accessed, Adr
    <3> QED
      BY <2>1, <2>2, <3>1, <1>6, TouchedGood, Zenon
  <2>3. CASE hit = 0
    BY <2>1, <2>3, <1>6, Zenon
  <2> QED
    BY <2>2, <2>3, Zenon
<1>8. \A e \in DcAddr : LineOf(e) \notin b.bad => Readable(b, wc, mainMem, e) \/ (Tagged(tags, 1, e) /\ Dirty(tags, 1, e))
  BY <1>3, Zenon DEF DcRest, MemRest
<1>9. CASE b.combine /\ wc.line = LineOf(a)
  <2>1. /\ wc' = (IF en THEN [wc EXCEPT !.en = @ \cup {a}, !.last = @ \cup {a}] ELSE wc)
        /\ Answer("DVA", FALSE)
    BY <1>9, Zenon DEF StoreThrough, Accessed, Adr
  <2> DEFINE z == [wc EXCEPT !.en = @ \cup {a}, !.last = @ \cup {a}]
  <2>2. z \in DcWc /\ z.line = wc.line /\ z.en = wc.en \cup {a} /\ z.last = wc.last \cup {a}
    BY <1>4, <1>6, Zenon DEF WcGood, DcWc
  <2>3. wc' = IF en THEN z ELSE wc
    BY <2>1, Zenon
  <2> HIDE DEF a, y, en, b, z
  <2>4. WcGood(z)
    BY <2>2, <1>6, <1>9, Zenon DEF WcGood
  <2>5. WcGood(wc')
    BY <2>3, <2>4, <1>6, Zenon
  <2>6. MemRest(b, tags', wc', mainMem')
    <3> SUFFICES ASSUME NEW e \in DcAddr, LineOf(e) \notin b.bad, Readable(b, wc, mainMem, e)
                 PROVE  Readable(b, wc', mainMem', e)
      <4>1. ASSUME NEW e \in DcAddr, LineOf(e) \notin b.bad
            PROVE  Readable(b, wc', mainMem', e) \/ (Tagged(tags', 1, e) /\ Dirty(tags', 1, e))
        BY <4>1, <1>1, <1>8, Zenon
      <4> QED
        BY <4>1, Zenon DEF MemRest
    <3>1. CASE ~ en
      BY <3>1, <1>1, <2>3, Zenon
    <3>2. CASE en /\ e # a
      <4>1. wc' = z /\ mainMem' = mainMem \ {a}
        BY <3>2, <1>1, <2>3, Zenon
      <4> QED
        BY <4>1, <3>2, <2>2, Zenon DEF Readable
    <3>3. CASE en /\ e = a
      <4>1. wc' = z
        BY <3>3, <2>3, Zenon
      <4>2. z.line = LineOf(e) /\ e \in z.en /\ e \in z.last
        BY <3>3, <2>2, <1>9, Zenon
      <4> QED
        BY <4>1, <4>2, <1>9, Zenon DEF Readable
    <3> QED
      BY <3>1, <3>2, <3>3, <1>4, Zenon
  <2>7. DcRest(b, tags', cells', lruMem', wc', mainMem', foreign') /\ (~ Thru(b) => CellRest(b, tags, cells', foreign'))
    BY <1>1, <1>5, <1>6, <1>7, <2>5, <2>6, Zenon DEF DcRest
  <2>8. Read(tags, tags', dc, FALSE)
    BY <1>1, ReadSame, Zenon
  <2>9. "DVA" \in {"none", "DVA", "ERR", "unreported", "late", "stale"} /\ "DVA" # "stale" /\ "DVA" # "unreported" /\ FALSE \in BOOLEAN
    BY Zenon
  <2> QED
    BY <1>3, <1>6, <2>1, <2>7, <2>8, <2>9, AnswerKeeps, Zenon DEF b
<1>10. CASE ~ (b.combine /\ wc.line = LineOf(a))
  <2>1. dc' = [dc EXCEPT !.st = "write"] /\ wc' = wc
    BY <1>10, Zenon DEF StoreThrough, Accessed, Adr
  <2>2. dc' \in DcRegs /\ dc'.st = "write" /\ dc'.build = dc.build /\ dc'.req = dc.req /\ dc'.out = dc.out
    BY <2>1, <1>3, Zenon DEF DcRegs
  <2>3. Adr(dc') = a /\ ~ InMiss(dc') /\ Accesses(dc')
    BY <2>2, <1>2, Zenon DEF Adr, InMiss, Accesses
  <2> HIDE DEF a, y, en, b
  <2>4. DcTypes(dc', tags', cells', lruMem', wc', foreign')
    BY <2>1, <2>2, <1>1, <1>5, <1>6, <1>7, Zenon DEF DcTypes, LruGood, TagsGood, WcGood
  <2>5. Single(dc', tags', lruMem')
    BY <2>2, <1>1, <1>7, Zenon DEF DcInv, DcGood, Single, LruGood, b
  <2>6. Through(dc', tags', foreign')
    BY <2>2, <1>1, <1>6, Zenon DEF Through, TagsGood, b
  <2>7. MemInv(dc', tags', wc', mainMem')
    <3> SUFFICES ASSUME NEW e \in DcAddr, LineOf(e) \notin b.bad, ~ (e = a /\ en)
                 PROVE  Readable(b, wc, mainMem', e) \/ (Tagged(tags, 1, e) /\ Dirty(tags, 1, e))
      BY <2>1, <2>2, <2>3, <1>1, Zenon DEF MemInv, b, en
    <3>1. CASE en /\ Readable(b, wc, mainMem, e)
      BY <3>1, <1>1, <1>6, ReadableKept, Zenon DEF WcGood
    <3>2. CASE ~ en /\ Readable(b, wc, mainMem, e)
      BY <3>2, <1>1, Zenon
    <3> QED
      BY <3>1, <3>2, <1>8, Zenon
  <2>8. CellInv(dc', tags', cells', foreign')
    <3>1. dc'.st # "writeBack" /\ \A w, e : ~ Kept(dc', w, e)
      BY <2>2, Zenon DEF Kept
    <3> QED
      BY <3>1, <2>2, <1>1, <1>5, Zenon DEF CellInv, CellRest, b
  <2>9. ReqInv(dc', tags')
    <3>1. ~ dc.req.r.cached /\ ~ Thru(b) => \A w \in Ways : ~ ((Valid(tags, w, a) \/ Dirty(tags, w, a)) /\ Tagged(tags, w, a))
      BY <1>1, <1>2, Zenon DEF DcInv, DcGood, ReqInv, a, b
    <3> QED
      BY <3>1, <2>2, <2>3, <1>1, <1>6, Zenon DEF ReqInv, TagsGood, b
  <2>10. BadInv(dc', tags')
    <3>1. /\ b.kind # "two" => \A i \in 0 .. DcSets - 1 : tags[1][i].valid => tags[1][i].line \notin b.bad
      BY <1>6, Zenon DEF TagsGood
    <3> QED
      BY <3>1, <2>2, <2>3, <1>1, Zenon DEF BadInv, b
  <2>11. OutInv(dc')
    BY <2>2, Zenon DEF OutInv, DcInv, DcGood
  <2> QED
    BY <2>4, <2>5, <2>6, <2>7, <2>8, <2>9, <2>10, <2>11, Zenon DEF DcInv, DcGood
<1> QED
  BY <1>9, <1>10, Zenon

\* What holds while a store waits for its burst.
LEMMA WriteRest ==
  ASSUME DcInv, ~ InMiss(dc)
  PROVE  /\ TagsGood(dc.build, tags) /\ LruGood(dc.build, lruMem) /\ WcGood(wc) /\ cells \in DcCells
         /\ CellRest(dc.build, tags, cells, foreign) /\ (~ Thru(dc.build) => foreign = {})
<1>1. DcGood(dc, tags, cells, lruMem, wc, mainMem, foreign)
  BY Zenon DEF DcInv
<1>2. TagsGood(dc.build, tags)
  BY <1>1, Zenon DEF DcGood, DcTypes, TagsGood, ReqInv, BadInv, Single, Through
<1>3. LruGood(dc.build, lruMem) /\ WcGood(wc) /\ cells \in DcCells /\ (~ Thru(dc.build) => foreign = {})
  BY <1>1, Zenon DEF DcGood, DcTypes, LruGood, WcGood, Single, Through
<1>4. CellRest(dc.build, tags, cells, foreign)
  BY <1>1, Zenon DEF DcGood, CellInv, CellRest
<1> QED
  BY <1>2, <1>3, <1>4, Zenon

\* A burst that makes room in the write-combine buffer keeps the invariant.
LEMMA CombinedBurstKeeps ==
  ASSUME DcInv, CombinedBurst PROVE DcInv'
<1> DEFINE a == Adr(dc)  en == dc.req.r.en  b == dc.build  word == IF en THEN {a} ELSE {}
<1>1. /\ dc.st = "write" /\ b.combine /\ mainMem' = (mainMem \ wc.en) \cup wc.last
      /\ wc' = [line |-> LineOf(a), en |-> word, last |-> word]
      /\ Answer("DVA", FALSE) /\ UNCHANGED <<tags, cells, lruMem, foreign>>
  BY Zenon DEF CombinedBurst, Accessed, Adr
<1>2. ~ InMiss(dc) /\ dc.st # "writeBack" /\ dc \in DcRegs
  BY <1>1, Zenon DEF InMiss, DcInv, DcGood, DcTypes
<1>3. a \in DcAddr /\ a \in Int /\ en \in BOOLEAN /\ LineOf(a) \in Int
  BY <1>2, Fields, CellIs, Zenon DEF DcRequest
<1>4. /\ TagsGood(b, tags) /\ LruGood(b, lruMem) /\ WcGood(wc) /\ cells \in DcCells
      /\ CellRest(b, tags, cells, foreign) /\ (~ Thru(b) => foreign = {})
  BY <1>2, WriteRest, Zenon
<1>5. wc'.line = LineOf(a) /\ wc'.en = word /\ wc'.last = word
  BY <1>1, Zenon
<1>6. WcGood(wc')
  <2>1. word \in SUBSET DcAddr /\ \A e \in word : LineOf(e) = LineOf(a)
    BY <1>3, Zenon
  <2> HIDE DEF word, a, en
  <2>2. wc' \in DcWc
    BY <1>1, <1>3, <2>1, Zenon DEF DcWc
  <2> QED
    BY <1>5, <2>1, <2>2, Zenon DEF WcGood
<1>7. MemRest(b, tags, wc', mainMem')
  <2> SUFFICES ASSUME NEW e \in DcAddr, LineOf(e) \notin b.bad
               PROVE  Readable(b, wc', mainMem', e) \/ (Tagged(tags, 1, e) /\ Dirty(tags, 1, e))
    BY Zenon DEF MemRest
  <2>1. CASE e = a /\ en
    BY <2>1, <1>1, <1>5, Zenon DEF Readable
  <2>2. CASE ~ (e = a /\ en) /\ Readable(b, wc, mainMem, e)
    <3>1. e \in mainMem'
      <4>1. CASE e \in wc.en
        BY <4>1, <2>2, <1>1, <1>4, Zenon DEF Readable, WcGood
      <4>2. CASE e \notin wc.en
        BY <4>2, <2>2, <1>1, Zenon DEF Readable
      <4> QED
        BY <4>1, <4>2, Zenon
    <3>2. e \notin wc'.en
      BY <2>2, <1>5, Zenon
    <3> QED
      BY <3>1, <3>2, Zenon DEF Readable
  <2>3. Readable(b, wc, mainMem, e) \/ (e = a /\ en) \/ (Tagged(tags, 1, e) /\ Dirty(tags, 1, e))
    BY <1>2, Zenon DEF DcInv, DcGood, MemInv
  <2> QED
    BY <2>1, <2>2, <2>3, Zenon
<1>8. DcRest(b, tags', cells', lruMem', wc', mainMem', foreign') /\ (~ Thru(b) => CellRest(b, tags, cells', foreign'))
  BY <1>1, <1>4, <1>6, <1>7, Zenon DEF DcRest
<1>9. Read(tags, tags', dc, FALSE)
  BY <1>1, ReadSame, Zenon
<1>10. "DVA" \in {"none", "DVA", "ERR", "unreported", "late", "stale"} /\ "DVA" # "stale" /\ "DVA" # "unreported" /\ FALSE \in BOOLEAN
  BY Zenon
<1> QED
  BY <1>1, <1>2, <1>4, <1>8, <1>9, <1>10, AnswerKeeps, Zenon

\* A burst for one store keeps the invariant.
LEMMA SingleBurstKeeps ==
  ASSUME DcInv, SingleBurst PROVE DcInv'
<1> DEFINE a == Adr(dc)  en == dc.req.r.en  b == dc.build  out == IF LineOf(a) \in b.bad THEN "ERR" ELSE "DVA"
<1>1. /\ dc.st = "write" /\ ~ b.combine
      /\ mainMem' = IF LineOf(a) \in b.bad \/ ~ en THEN mainMem ELSE mainMem \cup {a}
      /\ Answer(out, FALSE) /\ UNCHANGED <<tags, cells, lruMem, wc, foreign>>
  BY Zenon DEF SingleBurst, Accessed, Adr
<1>2. ~ InMiss(dc) /\ dc.st # "writeBack" /\ dc \in DcRegs
  BY <1>1, Zenon DEF InMiss, DcInv, DcGood, DcTypes
<1>3. /\ TagsGood(b, tags) /\ LruGood(b, lruMem) /\ WcGood(wc) /\ cells \in DcCells
      /\ CellRest(b, tags, cells, foreign) /\ (~ Thru(b) => foreign = {})
  BY <1>2, WriteRest, Zenon
<1>4. MemRest(b, tags, wc, mainMem')
  <2> SUFFICES ASSUME NEW e \in DcAddr, LineOf(e) \notin b.bad
               PROVE  Readable(b, wc, mainMem', e) \/ (Tagged(tags, 1, e) /\ Dirty(tags, 1, e))
    BY Zenon DEF MemRest
  <2>1. Readable(b, wc, mainMem, e) \/ (e = a /\ en) \/ (Tagged(tags, 1, e) /\ Dirty(tags, 1, e))
    BY <1>2, Zenon DEF DcInv, DcGood, MemInv
  <2>2. Readable(b, wc, mainMem, e) \/ (e = a /\ en) => e \in mainMem'
    BY <1>1, Zenon DEF Readable
  <2> QED
    BY <2>1, <2>2, <1>1, Zenon DEF Readable
<1>5. DcRest(b, tags', cells', lruMem', wc', mainMem', foreign') /\ (~ Thru(b) => CellRest(b, tags, cells', foreign'))
  BY <1>1, <1>3, <1>4, Zenon DEF DcRest
<1>6. Read(tags, tags', dc, FALSE)
  BY <1>1, ReadSame, Zenon
<1>7. out \in {"none", "DVA", "ERR", "unreported", "late", "stale"} /\ out # "stale" /\ out # "unreported" /\ FALSE \in BOOLEAN
  BY Zenon
<1> HIDE DEF out
<1> QED
  BY <1>1, <1>2, <1>3, <1>5, <1>6, <1>7, AnswerKeeps, Zenon

\* The invalidation of the cache keeps the invariant: dirty lines remain dirty.
LEMMA InvalidateKeeps ==
  ASSUME DcInv, Invalidate PROVE DcInv'
<1> DEFINE b == dc.build
<1>1. /\ dc.st = "idle" /\ Answer("DVA", TRUE) /\ foreign' = {} /\ UNCHANGED <<cells, lruMem, wc, mainMem>>
      /\ tags' = [w \in Ways |-> [i \in DOMAIN tags[w] |-> [tags[w][i] EXCEPT !.valid = FALSE]]]
  BY Zenon DEF Invalidate, Pending
<1>2. ~ InMiss(dc) /\ dc.st # "write" /\ dc \in DcRegs
  BY <1>1, Zenon DEF InMiss, DcInv, DcGood, DcTypes
<1>3. DcRest(b, tags, cells, lruMem, wc, mainMem, foreign)
  BY <1>2, AtRest, Zenon
<1>4. /\ tags' \in DcTags
      /\ \A w \in Ways, i \in 0 .. DcSets - 1 :
           tags'[w][i].line = tags[w][i].line /\ ~ tags'[w][i].valid /\ (tags'[w][i].dirty <=> tags[w][i].dirty)
  <2> DEFINE N(w, i) == [tags[w][i] EXCEPT !.valid = FALSE]
  <2>1. \A w \in Ways : DOMAIN tags[w] = 0 .. DcSets - 1
    BY <1>3, Zenon DEF DcRest, TagsGood, DcTags
  <2>2. \A w \in Ways, i \in 0 .. DcSets - 1 : tags[w][i] \in DcTag
    BY <1>3, Zenon DEF DcRest, TagsGood, DcTags
  <2>3. \A w \in Ways, i \in 0 .. DcSets - 1 :
          N(w, i) \in DcTag /\ N(w, i).line = tags[w][i].line /\ ~ N(w, i).valid /\ (N(w, i).dirty <=> tags[w][i].dirty)
    BY <2>2, Zenon DEF DcTag
  <2>4. tags' = [w \in Ways |-> [i \in 0 .. DcSets - 1 |-> N(w, i)]]
    BY <1>1, <2>1, Zenon
  <2> HIDE DEF N
  <2>5. \A w \in Ways : [i \in 0 .. DcSets - 1 |-> N(w, i)] \in [0 .. DcSets - 1 -> DcTag]
    BY <2>3, Zenon
  <2>6. tags' \in DcTags
    BY <2>4, <2>5, Zenon DEF DcTags
  <2>7. \A w \in Ways, i \in 0 .. DcSets - 1 : tags'[w][i] = N(w, i)
    BY <2>4, Zenon
  <2>8. ASSUME NEW w \in Ways, NEW i \in 0 .. DcSets - 1
        PROVE  tags'[w][i].line = tags[w][i].line /\ ~ tags'[w][i].valid /\ (tags'[w][i].dirty <=> tags[w][i].dirty)
    <3>1. tags'[w][i] = N(w, i)
      BY <2>7, Zenon
    <3>2. N(w, i).line = tags[w][i].line /\ ~ N(w, i).valid /\ (N(w, i).dirty <=> tags[w][i].dirty)
      BY <2>3, Zenon
    <3> QED
      BY <3>1, <3>2, Zenon
  <2> QED
    BY <2>6, <2>8, Zenon
<1>5. 1 \in Ways /\ 2 \in Ways
  BY DEF Ways
<1>6. TagsGood(b, tags')
  <2>1. TagsGood(b, tags)
    BY <1>3, Zenon DEF DcRest
  <2>2. OneWay(tags') /\ OwnSet(tags')
    <3>1. OwnSet(tags)
      BY <2>1, Zenon DEF TagsGood
    <3> QED
      BY <3>1, <1>4, <1>5, Zenon DEF OneWay, OwnSet
  <2>3. ASSUME NEW i \in 0 .. DcSets - 1, b.kind # "two"
        PROVE  /\ ~ tags'[2][i].valid /\ ~ tags'[2][i].dirty
               /\ tags'[1][i].valid => tags'[1][i].line \notin b.bad
    <3>1. ~ tags'[2][i].valid /\ ~ tags'[2][i].dirty
      BY <2>1, <2>3, <1>4, <1>5, Zenon DEF TagsGood
    <3>2. tags'[1][i].valid => tags'[1][i].line \notin b.bad
      BY <2>1, <2>3, <1>4, <1>5, Zenon DEF TagsGood
    <3> QED
      BY <3>1, <3>2, Zenon
  <2>4. Thru(b) => \A w \in Ways, i \in 0 .. DcSets - 1 : ~ tags'[w][i].dirty
    BY <2>1, <1>4, Zenon DEF TagsGood
  <2> QED
    BY <1>4, <2>2, <2>3, <2>4, Zenon DEF TagsGood
<1>7. MemRest(b, tags', wc', mainMem')
  <2> SUFFICES ASSUME NEW e \in DcAddr, LineOf(e) \notin b.bad
               PROVE  Readable(b, wc, mainMem, e) \/ (Tagged(tags', 1, e) /\ Dirty(tags', 1, e))
    BY <1>1, Zenon DEF MemRest
  <2>1. Index(e) \in 0 .. DcSets - 1
    BY AddrInt, CellIs, Zenon
  <2> QED
    BY <2>1, <1>3, <1>4, <1>5, Zenon DEF DcRest, MemRest, Tagged, Dirty
<1>8. CellRest(b, tags', cells', foreign')
  <2> SUFFICES ASSUME NEW w \in Ways, NEW e \in DcAddr, LineOf(e) \notin b.bad, Tagged(tags', w, e),
                      Valid(tags', w, e) \/ Dirty(tags', w, e)
               PROVE  cells[w][Cell(e)] = e \/ e \in foreign'
    BY <1>1, Zenon DEF CellRest
  <2>1. Index(e) \in 0 .. DcSets - 1
    BY AddrInt, CellIs, Zenon
  <2>2. Tagged(tags, w, e) /\ Dirty(tags, w, e)
    BY <2>1, <1>4, Zenon DEF Tagged, Valid, Dirty
  <2>3. foreign = {}
    BY <2>1, <2>2, <1>3, Zenon DEF DcRest, TagsGood, Dirty
  <2> QED
    BY <2>2, <2>3, <1>3, Zenon DEF DcRest, CellRest
<1>9. ~ Thru(b) => CellRest(b, tags, cells', foreign')
  BY <1>1, <1>3, Zenon DEF DcRest
<1>10. Read(tags, tags', dc, TRUE)
  BY <1>4, Zenon DEF Read, NoneValid
<1>11. DcRest(b, tags', cells', lruMem', wc', mainMem', foreign')
  BY <1>1, <1>3, <1>6, <1>7, <1>8, Zenon DEF DcRest
<1>12. "DVA" \in {"none", "DVA", "ERR", "unreported", "late", "stale"} /\ "DVA" # "stale" /\ "DVA" # "unreported" /\ TRUE \in BOOLEAN
  BY Zenon
<1>13. LruGood(b, lruMem) /\ TagsGood(b, tags)
  BY <1>3, Zenon DEF DcRest
<1> QED
  BY <1>1, <1>2, <1>9, <1>10, <1>11, <1>12, <1>13, AnswerKeeps, Zenon
-----------------------------------------------------------------------------
\* The end of an access, before the response.
DcRested(d, t, c, u, x, m, f) ==
  /\ d \in DcRegs /\ d.st \in {"respond", "failed"} /\ Accesses(d)
  /\ DcRest(d.build, t, c, u, x, m, f)
  /\ d.build.kind # "two" => ~ d.req.lru /\ d.req.way \in {0, 1}
  /\ d.st = "respond" => LineOf(Adr(d)) \notin d.build.bad /\ (d.req.r.cmd = "RD" => d.val = Adr(d))
  /\ d.out # "stale" /\ (d.build.kind # "two" => d.out # "unreported")

\* What is left when a miss ends.
LEMMA Rested ==
  ASSUME NEW d, NEW t, NEW c, NEW u, NEW x, NEW m, NEW f, DcRested(d, t, c, u, x, m, f)
  PROVE  DcGood(d, t, c, u, x, m, f)
<1>1. d \in DcRegs /\ d.st \in {"respond", "failed"} /\ Accesses(d) /\ DcRest(d.build, t, c, u, x, m, f)
  BY Zenon DEF DcRested
<1>2. ~ InMiss(d) /\ d.st \notin {"idle", "write", "writeBack"}
  BY <1>1, Zenon DEF InMiss
<1>3. TagsGood(d.build, t) /\ LruGood(d.build, u)
  BY <1>1, Zenon DEF DcRest
<1>4. DcTypes(d, t, c, u, x, f)
  BY <1>1, Zenon DEF DcTypes, DcRest, TagsGood, LruGood, WcGood
<1>5. Single(d, t, u)
  BY <1>3, Zenon DEF Single, DcRested, TagsGood, LruGood
<1>6. Through(d, t, f)
  BY <1>1, Zenon DEF Through, DcRest, TagsGood
<1>7. MemInv(d, t, x, m)
  BY <1>1, <1>2, Zenon DEF MemInv, DcRest, MemRest
<1>8. CellInv(d, t, c, f)
  <2>1. \A w, e : ~ Kept(d, w, e)
    BY <1>2, Zenon DEF Kept
  <2> QED
    BY <1>1, <1>2, <2>1, Zenon DEF CellInv, DcRest, CellRest
<1>9. ReqInv(d, t)
  BY <1>1, <1>2, <1>3, Zenon DEF ReqInv, TagsGood
<1>10. BadInv(d, t)
  BY <1>1, <1>2, <1>3, Zenon DEF BadInv, DcRested, TagsGood
<1>11. OutInv(d)
  BY Zenon DEF OutInv, DcRested
<1> QED
  BY <1>4, <1>5, <1>6, <1>7, <1>8, <1>9, <1>10, <1>11, Zenon DEF DcGood

\* An uncached load finds the last byte in the memory or in the buffer.
LEMMA BypassKeeps ==
  ASSUME DcInv, Bypass PROVE DcInv'
<1> DEFINE a == Adr(dc)  b == dc.build
<1>1. /\ dc.st = "idle" /\ dc.req.r.cmd = "RD" /\ ~ dc.req.r.cached
      /\ UNCHANGED <<tags, cells, lruMem, wc, mainMem, foreign>>
  BY Zenon DEF Bypass, Pending
<1>2. ~ InMiss(dc) /\ dc.st # "write" /\ dc.st # "writeBack" /\ Accesses(dc) /\ dc \in DcRegs
  BY <1>1, Zenon DEF InMiss, Accesses, DcInv, DcGood, DcTypes
<1>3. a \in DcAddr /\ a \in Int /\ Index(a) \in 0 .. DcSets - 1 /\ 1 \in Ways
  <2>1. 1 \in Ways
    BY DEF Ways
  <2> QED
    BY <1>2, <2>1, Fields, CellIs, Zenon
<1>4. DcRest(b, tags, cells, lruMem, wc, mainMem, foreign)
  BY <1>2, AtRest, Zenon
<1>5. LineOf(a) \notin b.bad => ReadWord(a) = a
  <2>1. ~ (Tagged(tags, 1, a) /\ Dirty(tags, 1, a))
    <3>1. CASE Thru(b)
      BY <3>1, <1>3, <1>4, Zenon DEF DcRest, TagsGood, Dirty
    <3>2. CASE ~ Thru(b)
      BY <3>2, <1>1, <1>2, <1>3, Zenon DEF DcInv, DcGood, ReqInv
    <3> QED
      BY <3>1, <3>2, Zenon
  <2>2. LineOf(a) \notin b.bad => Readable(b, wc, mainMem, a)
    BY <2>1, <1>3, <1>4, Zenon DEF DcRest, MemRest
  <2> QED
    BY <2>2, Zenon DEF ReadWord, Readable
<1>6. /\ dc' \in DcRegs /\ dc'.build = b /\ dc'.req = dc.req /\ dc'.out = dc.out
      /\ \/ dc'.st = "failed"
         \/ dc'.st = "respond" /\ dc'.val = a /\ LineOf(a) \notin b.bad
  <2>1. CASE LineOf(a) \in b.bad
    <3>1. dc' = [dc EXCEPT !.st = "failed"]
      BY <2>1, Zenon DEF Bypass, Accessed, Adr
    <3> QED
      BY <3>1, <1>2, Zenon DEF DcRegs
  <2>2. CASE LineOf(a) \notin b.bad
    <3>1. dc' = [dc EXCEPT !.st = "respond", !.val = a]
      BY <2>2, <1>5, Zenon DEF Bypass, Accessed, Adr
    <3> QED
      BY <3>1, <2>2, <1>2, <1>3, Zenon DEF DcRegs
  <2> QED
    BY <2>1, <2>2, Zenon
<1>7. Adr(dc') = a /\ ~ InMiss(dc') /\ Accesses(dc') /\ dc'.st \notin {"idle", "write", "writeBack", "fill"}
  BY <1>2, <1>6, Zenon DEF Adr, InMiss, Accesses
<1>8. DcRested(dc', tags', cells', lruMem', wc', mainMem', foreign')
  <2>1. Single(dc, tags, lruMem) /\ BadInv(dc, tags) /\ OutInv(dc)
    BY Zenon DEF DcInv, DcGood
  <2> QED
    BY <1>1, <1>2, <1>4, <1>6, <1>7, <2>1, Zenon DEF DcRested, Single, BadInv, OutInv
<1> QED
  BY <1>8, Rested, Zenon DEF DcInv

\* A store by another core keeps the invariant: what it overwrites is in foreign.
LEMMA OtherKeeps ==
  ASSUME DcInv, NEW a \in DcAddr, Other(a) PROVE DcInv'
<1> DEFINE b == dc.build  en == TRUE  none == 0
<1>1. /\ Thru(b) /\ ~ b.combine /\ ~ (dc.req.r.cmd = "WR" /\ Adr(dc) = a)
      /\ cells' = StoredCells(a, none, en) /\ mainMem' = mainMem \cup {a} /\ foreign' = foreign \cup {a}
      /\ UNCHANGED <<dc, tags, lruMem, wc>>
  BY Zenon DEF Other, WriteThrough, Thru, Accessed, Adr
<1>2. DcGood(dc, tags, cells, lruMem, wc, mainMem, foreign) /\ dc' = dc /\ dc.st # "writeBack"
  BY <1>1, Zenon DEF DcInv, DcGood, ReqInv
<1>3. cells \in DcCells /\ en \in BOOLEAN
  BY <1>2, Zenon DEF DcGood, DcTypes
<1> HIDE DEF en, none
<1>4. cells' \in DcCells
  BY <1>1, <1>3, StoredIs, Zenon
<1>5. DcTypes(dc', tags', cells', lruMem', wc', foreign')
  BY <1>1, <1>2, <1>4, Zenon DEF DcGood, DcTypes
<1>6. Through(dc', tags', foreign')
  BY <1>1, <1>2, Zenon DEF DcGood, Through
<1>7. MemInv(dc', tags', wc', mainMem')
  <2>1. \A e : Readable(b, wc, mainMem, e) => Readable(b, wc, mainMem', e)
    BY <1>1, Zenon DEF Readable
  <2> QED
    BY <1>1, <1>2, <2>1, Zenon DEF DcGood, MemInv
<1>8. CellInv(dc', tags', cells', foreign')
  <2> SUFFICES ASSUME NEW w \in Ways, NEW e \in DcAddr, LineOf(e) \notin b.bad, Tagged(tags, w, e),
                      Valid(tags, w, e) \/ Dirty(tags, w, e) \/ Kept(dc, w, e),
                      ~ (InMiss(dc) /\ w = dc.req.way /\ Index(e) = Index(Adr(dc)))
               PROVE  cells'[w][Cell(e)] = e \/ e \in foreign'
    BY <1>1, <1>2, Zenon DEF CellInv
  <2>1. cells[w][Cell(e)] = e \/ e \in foreign
    BY <1>2, Zenon DEF DcGood, CellInv
  <2>2. CASE e = a
    BY <2>2, <1>1, Zenon
  <2>3. CASE e # a
    <3>1. w # none
      BY DEF Ways, none
    <3>2. StoredCells(a, none, en)[w][Cell(e)] = e \/ (e \in foreign /\ ~ (en /\ e = a))
      <4>1. (en /\ e = a => w = none) /\ (w = none /\ Cell(e) = Cell(a) => e = a)
        BY <2>3, <3>1, Zenon
      <4>2. StoreKeeps(a, none, en)
        BY <1>3, StoredWord, Zenon
      <4> QED
        BY <4>1, <4>2, <2>1, Zenon DEF StoreKeeps
    <3> QED
      BY <3>2, <1>1, Zenon
  <2> QED
    BY <2>2, <2>3, Zenon
<1> QED
  BY <1>1, <1>2, <1>5, <1>6, <1>7, <1>8, Zenon DEF DcInv, DcGood

\* A miss puts the tag in place; a dirty line it replaces is remembered.
LEMMA MissKeeps ==
  ASSUME DcInv, Miss PROVE DcInv'
<1> DEFINE a == Adr(dc)  b == dc.build  k == Index(a)  v == Victim  t == tags[v][k]
           n == [valid |-> TRUE, line |-> LineOf(a), dirty |-> dc.req.r.cmd = "WR"]
<1>1. /\ dc.st = "idle" /\ dc.req.way = 0 /\ dc.req.r.cached
      /\ dc.req.r.cmd = "RD" \/ (dc.req.r.cmd = "WR" /\ ~ Thru(b))
      /\ tags' = [tags EXCEPT ![v][k] = n]
      /\ dc' = [dc EXCEPT !.st = IF t.dirty THEN "writeBack" ELSE "fill", !.old = t.line, !.req.way = v]
      /\ Touched(a, ~ dc.req.lru) \/ UNCHANGED lruMem
      /\ UNCHANGED <<cells, wc, mainMem, foreign>>
  BY Zenon DEF Miss, Accessed, Adr, WriteThrough, Thru
<1>2. ~ InMiss(dc) /\ dc.st # "write" /\ Accesses(dc) /\ dc \in DcRegs
  BY <1>1, Zenon DEF InMiss, Accesses, DcInv, DcGood, DcTypes
<1>3. a \in DcAddr /\ a \in Int /\ k \in 0 .. DcSets - 1 /\ LineOf(a) \in Int
  BY <1>2, Fields, CellIs, Zenon
<1>4. DcRest(b, tags, cells, lruMem, wc, mainMem, foreign)
  BY <1>2, AtRest, Zenon
<1>5. TagsGood(b, tags) /\ LruGood(b, lruMem) /\ cells \in DcCells /\ WcGood(wc) /\ tags \in DcTags
  BY <1>4, Zenon DEF DcRest, TagsGood
<1>6. v \in Ways /\ (b.kind # "two" => v = 1) /\ 1 \in Ways /\ 2 \in Ways /\ (v = 1 \/ v = 2) /\ 1 # 2
  <2>1. b.kind # "two" => ~ dc.req.lru
    BY Zenon DEF DcInv, DcGood, Single
  <2>2. v = IF dc.req.lru THEN 2 ELSE 1
    BY Zenon DEF Victim
  <2>3. 1 \in Ways /\ 2 \in Ways /\ 1 # 2
    BY DEF Ways
  <2> HIDE DEF v
  <2> QED
    BY <2>1, <2>2, <2>3, Zenon
<1>7. n \in DcTag /\ n.valid /\ n.line = LineOf(a) /\ (n.dirty <=> dc.req.r.cmd = "WR")
  BY <1>3, Zenon DEF DcTag
<1>8. t \in DcTag /\ t.line \in Int
  <2>1. t \in DcTag
    BY <1>3, <1>5, <1>6, Zenon DEF DcTags
  <2> QED
    BY <2>1, Zenon DEF DcTag
<1> HIDE DEF n, v, t
<1>9. /\ tags' \in DcTags
      /\ \A w \in Ways, i \in 0 .. DcSets - 1 : tags'[w][i] = IF w = v /\ i = k THEN n ELSE tags[w][i]
  <2> HIDE DEF k
  <2>1. tags' = TagPut(tags, v, k, n)
    BY <1>1, Zenon DEF TagPut
  <2>2. tags' \in DcTags /\ PutAt(tags', tags, v, k, n)
    BY <2>1, <1>3, <1>5, <1>6, <1>7, TagPutIs, Zenon
  <2> QED
    BY <2>2, Zenon DEF PutAt
<1>10. /\ dc' \in DcRegs /\ dc'.build = b /\ dc'.out = dc.out /\ dc'.old = t.line
       /\ dc'.st = (IF t.dirty THEN "writeBack" ELSE "fill")
       /\ dc'.req.way = v /\ dc'.req.r = dc.req.r /\ (dc'.req.lru <=> dc.req.lru)
  <2> DEFINE q == [dc.req EXCEPT !.way = v]  z == IF t.dirty THEN "writeBack" ELSE "fill"
  <2>1. dc.req \in DcReq /\ v \in 0 .. 2
    <3>1. v \in 0 .. 2
      BY <1>6 DEF Ways
    <3> QED
      BY <3>1, <1>2, Fields, Zenon
  <2>2. q \in DcReq /\ q.way = v /\ q.r = dc.req.r /\ (q.lru <=> dc.req.lru)
    BY <2>1, Zenon DEF DcReq
  <2>3. dc' = [dc EXCEPT !.st = z, !.old = t.line, !.req = q]
    BY <1>1, Zenon
  <2>4. z \in {"idle", "write", "writeBack", "fill", "respond", "failed"}
    BY Zenon
  <2>5. z = IF t.dirty THEN "writeBack" ELSE "fill"
    OBVIOUS
  <2> HIDE DEF q, z
  <2>6. dc' \in DcRegs /\ dc'.build = b /\ dc'.out = dc.out /\ dc'.old = t.line /\ dc'.st = z /\ dc'.req = q
    BY <1>2, <1>8, <2>2, <2>3, <2>4, Zenon DEF DcRegs
  <2> QED
    BY <2>2, <2>5, <2>6, Zenon
<1>11. /\ Adr(dc') = a /\ InMiss(dc') /\ Accesses(dc') /\ dc'.st \notin {"idle", "write", "respond", "failed"}
       /\ dc'.st = "writeBack" <=> t.dirty
  BY <1>2, <1>10, Zenon DEF Adr, InMiss, Accesses
<1>12. t.dirty => ~ Thru(b) /\ b.kind # "two" /\ v = 1
  BY <1>3, <1>5, <1>6, Zenon DEF TagsGood, t, Thru
<1>13. LruGood(b, lruMem')
  <2>1. CASE Touched(a, ~ dc.req.lru)
    <3>1. (~ dc.req.lru) \in BOOLEAN
      BY Zenon
    <3> QED
      BY <2>1, <3>1, <1>3, <1>5, TouchedGood, Zenon
  <2>2. CASE lruMem' = lruMem
    BY <2>2, <1>5, Zenon
  <2> QED
    BY <1>1, <2>1, <2>2, Zenon
<1> HIDE DEF a, k, b
<1>14. DcTypes(dc', tags', cells', lruMem', wc', foreign')
  BY <1>1, <1>5, <1>9, <1>10, <1>13, Zenon DEF DcTypes, LruGood, WcGood
<1>15. Single(dc', tags', lruMem')
  <2>1. b.kind # "two" => \A i \in 0 .. DcSets - 1 : tags'[2][i] = tags[2][i]
    BY <1>6, <1>9, Zenon
  <2>2. b.kind # "two" => \A i \in 0 .. DcSets - 1 : ~ tags'[2][i].valid /\ ~ tags'[2][i].dirty
    BY <2>1, <1>5, Zenon DEF TagsGood
  <2>3. b.kind # "two" => ~ dc.req.lru
    BY Zenon DEF DcInv, DcGood, Single, b
  <2> QED
    BY <2>2, <2>3, <1>6, <1>10, <1>13, Zenon DEF Single, LruGood
<1>16. Through(dc', tags', foreign')
  <2>1. ASSUME Thru(b), NEW w \in Ways, NEW i \in 0 .. DcSets - 1 PROVE ~ tags'[w][i].dirty
    <3>1. ~ n.dirty
      BY <2>1, <1>1, <1>7, Zenon
    <3>2. ~ tags[w][i].dirty
      BY <2>1, <1>5, Zenon DEF TagsGood
    <3> QED
      BY <3>1, <3>2, <1>9, Zenon
  <2> QED
    BY <2>1, <1>1, <1>4, <1>10, Zenon DEF Through, DcRest
<1>17. MemInv(dc', tags', wc', mainMem')
  <2> SUFFICES ASSUME NEW e \in DcAddr, LineOf(e) \notin b.bad, ~ Readable(b, wc, mainMem, e)
               PROVE  \/ dc'.st = "writeBack" /\ LineOf(e) = t.line
                      \/ Tagged(tags', 1, e) /\ Dirty(tags', 1, e) /\ LineOf(e) # LineOf(a)
    BY <1>1, <1>10, <1>11, Zenon DEF MemInv
  <2>1. Index(e) \in 0 .. DcSets - 1
    BY AddrInt, CellIs, Zenon
  <2>2. Tagged(tags, 1, e) /\ Dirty(tags, 1, e)
    BY <1>4, Zenon DEF DcRest, MemRest
  <2>3. v = 1
    BY <2>1, <2>2, <1>5, <1>6, Zenon DEF TagsGood, Dirty, Thru
  <2>4. CASE Index(e) = k
    BY <2>2, <2>3, <2>4, <1>11, Zenon DEF Tagged, Dirty, t
  <2>5. CASE Index(e) # k
    <3>1. LineOf(e) # LineOf(a)
      BY <2>5, SameIndex, Zenon DEF k
    <3>2. tags'[1][Index(e)] = tags[1][Index(e)]
      BY <2>1, <2>5, <1>6, <1>9, Zenon
    <3> QED
      BY <3>1, <3>2, <2>2, Zenon DEF Tagged, Dirty
  <2> QED
    BY <2>4, <2>5, Zenon
<1>18. CellInv(dc', tags', cells', foreign')
  <2>1. ASSUME NEW w \in Ways, NEW e \in DcAddr, LineOf(e) \notin b.bad, Tagged(tags', w, e),
               Valid(tags', w, e) \/ Dirty(tags', w, e), ~ (w = v /\ Index(e) = k)
        PROVE  cells[w][Cell(e)] = e \/ e \in foreign
    <3>1. Index(e) \in 0 .. DcSets - 1
      BY AddrInt, CellIs, Zenon
    <3>2. tags'[w][Index(e)] = tags[w][Index(e)]
      BY <2>1, <3>1, <1>9, Zenon
    <3> QED
      BY <2>1, <3>2, <1>4, Zenon DEF DcRest, CellRest, Tagged, Valid, Dirty
  <2>2. ASSUME t.dirty, NEW e \in DcAddr, LineOf(e) = t.line PROVE cells[1][Cell(e)] = e
    <3>1. tags[1][k].dirty /\ tags[1][k].line = LineOf(e)
      BY <2>2, <1>12, Zenon DEF t
    <3>2. OwnSet(tags) /\ foreign = {}
      BY <2>2, <1>4, <1>12, Zenon DEF DcRest, TagsGood
    <3>3. Index(e) = k
      BY <3>1, <3>2, <1>3, Zenon DEF OwnSet, Index
    <3>4. LineOf(e) \notin b.bad
      BY <3>1, <1>1, <1>2, Zenon DEF DcInv, DcGood, BadInv, Accesses, Dirty, a, b, k
    <3> QED
      BY <3>1, <3>2, <3>3, <3>4, <1>4, <1>6, Zenon DEF DcRest, CellRest, Tagged, Dirty
  <2>3. \A w, e : ~ Kept(dc', w, e)
    BY <1>11, Zenon DEF Kept
  <2> QED
    BY <2>1, <2>2, <2>3, <1>1, <1>10, <1>11, Zenon DEF CellInv, k
<1>19. ReqInv(dc', tags')
  <2>1. \A w \in Ways : ~ (tags[w][k].valid /\ tags[w][k].line = LineOf(a))
    BY <1>1, <1>2, Zenon DEF DcInv, DcGood, ReqInv, Valid, Tagged, a, k
  <2>2. OneWay(tags')
    <3> SUFFICES ASSUME NEW i \in 0 .. DcSets - 1, tags'[1][i].valid, tags'[2][i].valid, tags'[1][i].line = tags'[2][i].line
                 PROVE  FALSE
      BY Zenon DEF OneWay
    <3>1. CASE i = k /\ v = 1
      <4>1. tags'[1][i] = n /\ tags'[2][i] = tags[2][k]
        BY <3>1, <1>6, <1>9, Zenon
      <4> QED
        BY <4>1, <2>1, <1>6, <1>7, Zenon
    <3>2. CASE i = k /\ v = 2
      <4>1. tags'[2][i] = n /\ tags'[1][i] = tags[1][k]
        BY <3>2, <1>6, <1>9, Zenon
      <4> QED
        BY <4>1, <2>1, <1>6, <1>7, Zenon
    <3>3. CASE i # k
      <4>1. tags'[2][i] = tags[2][i] /\ tags'[1][i] = tags[1][i]
        BY <3>3, <1>6, <1>9, Zenon
      <4>2. OneWay(tags)
        BY <1>5, Zenon DEF TagsGood
      <4> QED
        BY <4>1, <4>2, Zenon DEF OneWay
    <3> QED
      BY <3>1, <3>2, <3>3, <1>6, Zenon
  <2>3. OwnSet(tags')
    <3> SUFFICES ASSUME NEW i \in 0 .. DcSets - 1, tags'[1][i].dirty PROVE tags'[1][i].line % DcSets = i
      BY Zenon DEF OwnSet
    <3>1. CASE i = k /\ v = 1
      <4>1. tags'[1][i] = n
        BY <3>1, <1>6, <1>9, Zenon
      <4> QED
        BY <3>1, <4>1, <1>7, Zenon DEF k, Index
    <3>2. CASE ~ (i = k /\ v = 1)
      <4>1. tags'[1][i] = tags[1][i]
        BY <3>2, <1>6, <1>9, Zenon
      <4>2. OwnSet(tags)
        BY <1>5, Zenon DEF TagsGood
      <4> QED
        BY <4>1, <4>2, Zenon DEF OwnSet
    <3> QED
      BY <3>1, <3>2, Zenon
  <2>4. tags'[v][k] = n
    BY <1>3, <1>6, <1>9, Zenon
  <2>5. v # 0
    BY <1>6 DEF Ways
  <2>6. Tagged(tags', v, a) /\ Valid(tags', v, a) /\ (Dirty(tags', v, a) <=> dc.req.r.cmd = "WR")
    BY <2>4, <1>7, Zenon DEF Tagged, Valid, Dirty, k
  <2> QED
    BY <2>2, <2>3, <2>5, <2>6, <1>1, <1>10, <1>11, <1>12, Zenon DEF ReqInv
<1>20. BadInv(dc', tags')
  <2>1. ASSUME b.kind # "two", NEW i \in 0 .. DcSets - 1, tags'[1][i].valid, i # k
        PROVE  tags'[1][i].line \notin b.bad
    <3>1. tags'[1][i] = tags[1][i]
      BY <2>1, <1>6, <1>9, Zenon
    <3> QED
      BY <2>1, <3>1, <1>5, Zenon DEF TagsGood
  <2> QED
    BY <2>1, <1>10, <1>11, Zenon DEF BadInv, k
<1>21. OutInv(dc')
  BY <1>10, <1>11, Zenon DEF DcInv, DcGood, OutInv, b
<1> QED
  BY <1>14, <1>15, <1>16, <1>17, <1>18, <1>19, <1>20, <1>21, Zenon DEF DcInv, DcGood

\* A line that is written back is in the memory, and in the buffer if that holds it.
LEMMA WriteBackKeeps ==
  ASSUME DcInv, WriteBack, DcHolds \subseteq {FALSE} PROVE DcInv'
<1> DEFINE b == dc.build  W == WordsOf(dc.old)
<1>1. DcGood(dc, tags, cells, lruMem, wc, mainMem, foreign) /\ dc \in DcRegs /\ WcGood(wc)
  BY Zenon DEF DcInv, DcGood, DcTypes, WcGood
<1>2. dc.st = "writeBack" /\ dc' = [dc EXCEPT !.st = "fill"] /\ UNCHANGED <<tags, cells, lruMem, foreign>>
  BY Zenon DEF WriteBack
<1>3. \A e \in W : cells[1][Cell(e)] = e
  BY <1>1, <1>2, Zenon DEF DcGood, CellInv, WordsOf
<1>4. mainMem' = mainMem \cup W /\ wc' = Snooped(W)
  <2>1. PICK held \in DcHolds :
          LET sent == {e \in WordsOf(dc.old) : cells[1][CellSent(e, held)] = e}
          IN  /\ mainMem' = (mainMem \ WordsOf(dc.old)) \cup sent
              /\ wc' = Snooped(sent)
    BY Zenon DEF WriteBack
  <2> DEFINE sent == {e \in W : cells[1][CellSent(e, held)] = e}
  <2>2. ~ held
    BY Zenon
  <2>3. \A e : CellSent(e, held) = Cell(e)
    BY <2>2, Zenon DEF CellSent
  <2>4. sent = W
    BY <2>3, <1>3, Zenon
  <2>5. mainMem' = (mainMem \ W) \cup sent /\ wc' = Snooped(sent)
    BY <2>1, Zenon
  <2> HIDE DEF sent, W
  <2>6. (mainMem \ W) \cup W = mainMem \cup W
    BY Zenon
  <2> QED
    BY <2>4, <2>5, <2>6, Zenon
<1>5. /\ dc' \in DcRegs /\ dc'.st = "fill" /\ dc'.build = b /\ dc'.req = dc.req /\ dc'.out = dc.out
  BY <1>1, <1>2, Zenon DEF DcRegs
<1>6. Adr(dc') = Adr(dc) /\ InMiss(dc') /\ InMiss(dc) /\ (Accesses(dc') <=> Accesses(dc))
  BY <1>2, <1>5, Zenon DEF Adr, InMiss, Accesses
<1>7. dc.old \in Int /\ W \subseteq DcAddr /\ \A e \in W : LineOf(e) = dc.old
  BY <1>1, Zenon DEF DcRegs, WordsOf
<1> DEFINE z == [wc EXCEPT !.en = W, !.last = W]
<1>8. z \in DcWc /\ z.line = wc.line /\ z.en = W /\ z.last = W
  BY <1>1, <1>7, Zenon DEF WcGood, DcWc
<1>9. wc' = IF b.combine /\ wc.line = dc.old THEN z ELSE wc
  BY <1>4, Zenon DEF Snooped
<1>w. \A e \in DcAddr : e \in W <=> LineOf(e) = dc.old
  BY Zenon DEF WordsOf
<1> HIDE DEF z, W, b
<1>10. WcGood(wc')
  <2>1. CASE b.combine /\ wc.line = dc.old
    BY <2>1, <1>7, <1>8, <1>9, Zenon DEF WcGood
  <2>2. CASE ~ (b.combine /\ wc.line = dc.old)
    BY <2>2, <1>1, <1>9, Zenon
  <2> QED
    BY <2>1, <2>2, Zenon
<1>11. DcTypes(dc', tags', cells', lruMem', wc', foreign')
  BY <1>1, <1>2, <1>5, <1>10, Zenon DEF DcGood, DcTypes, WcGood
<1>12. Single(dc', tags', lruMem') /\ Through(dc', tags', foreign')
  BY <1>1, <1>2, <1>5, Zenon DEF DcGood, Single, Through, b
<1>13. MemInv(dc', tags', wc', mainMem')
  <2> SUFFICES ASSUME NEW e \in DcAddr, LineOf(e) \notin b.bad,
                      ~ (Tagged(tags, 1, e) /\ Dirty(tags, 1, e) /\ LineOf(e) # LineOf(Adr(dc)))
               PROVE  Readable(b, wc', mainMem', e)
    BY <1>2, <1>5, <1>6, Zenon DEF MemInv
  <2>1. Readable(b, wc, mainMem, e) \/ LineOf(e) = dc.old
    BY <1>1, <1>2, <1>6, Zenon DEF DcGood, MemInv, b
  <2>2. CASE LineOf(e) = dc.old
    <3>1. e \in W /\ e \in mainMem'
      BY <2>2, <1>w, <1>4, Zenon
    <3>2. CASE b.combine /\ wc.line = dc.old
      BY <3>1, <3>2, <1>8, <1>9, Zenon DEF Readable
    <3>3. CASE ~ (b.combine /\ wc.line = dc.old)
      BY <3>1, <3>3, <2>2, <1>9, Zenon DEF Readable
    <3> QED
      BY <3>2, <3>3, Zenon
  <2>3. CASE LineOf(e) # dc.old /\ Readable(b, wc, mainMem, e)
    <3>1. CASE b.combine /\ wc.line = dc.old
      <4>1. e \in mainMem'
        BY <2>3, <3>1, <1>4, Zenon DEF Readable
      <4> QED
        BY <4>1, <2>3, <3>1, <1>8, <1>9, Zenon DEF Readable
    <3>2. CASE ~ (b.combine /\ wc.line = dc.old)
      BY <3>2, <2>3, <1>4, <1>9, Zenon DEF Readable
    <3> QED
      BY <3>1, <3>2, Zenon
  <2> QED
    BY <2>1, <2>2, <2>3, Zenon
<1>14. CellInv(dc', tags', cells', foreign')
  <2>1. \A w, e : ~ Kept(dc', w, e)
    BY <1>5, Zenon DEF Kept
  <2>2. dc'.st # "writeBack"
    BY <1>5, Zenon
  <2> QED
    BY <2>1, <2>2, <1>1, <1>2, <1>5, <1>6, Zenon DEF DcGood, CellInv, b
<1>15. ReqInv(dc', tags')
  <2>1. dc'.st \notin {"idle", "write", "writeBack", "respond", "failed"}
    BY <1>5, Zenon
  <2> QED
    BY <2>1, <1>1, <1>2, <1>5, <1>6, Zenon DEF DcGood, ReqInv, b
<1>16. BadInv(dc', tags') /\ OutInv(dc')
  <2>1. dc'.st \notin {"idle", "respond"}
    BY <1>5, Zenon
  <2> QED
    BY <2>1, <1>1, <1>2, <1>5, <1>6, Zenon DEF DcGood, BadInv, OutInv, b
<1> QED
  BY <1>11, <1>12, <1>13, <1>14, <1>15, <1>16, Zenon DEF DcInv, DcGood

\* What holds of the rest of the cache while a line is filled.
LEMMA InFill ==
  ASSUME DcInv, dc.st = "fill"
  PROVE  /\ dc \in DcRegs /\ tags \in DcTags /\ cells \in DcCells /\ WcGood(wc) /\ LruGood(dc.build, lruMem)
         /\ Adr(dc) \in DcAddr /\ Adr(dc) \in Int /\ Index(Adr(dc)) \in 0 .. DcSets - 1 /\ LineOf(Adr(dc)) \in Int
         /\ dc.req.way \in Ways /\ (dc.build.kind # "two" => dc.req.way = 1)
         /\ tags[dc.req.way][Index(Adr(dc))].line = LineOf(Adr(dc))
         /\ tags[dc.req.way][Index(Adr(dc))].dirty <=> dc.req.r.cmd = "WR"
         /\ OneWay(tags) /\ OwnSet(tags) /\ Accesses(dc)
         /\ Thru(dc.build) => \A w \in Ways, i \in 0 .. DcSets - 1 : ~ tags[w][i].dirty
         /\ ~ Thru(dc.build) => foreign = {}
         /\ dc.build.kind # "two" => \A i \in 0 .. DcSets - 1 :
              /\ ~ tags[2][i].valid /\ ~ tags[2][i].dirty
              /\ tags[1][i].valid /\ i # Index(Adr(dc)) => tags[1][i].line \notin dc.build.bad
         /\ dc.build.kind # "two" => ~ dc.req.lru
<1>1. InMiss(dc) /\ DcGood(dc, tags, cells, lruMem, wc, mainMem, foreign)
  BY Zenon DEF InMiss, DcInv
<1>2. dc \in DcRegs /\ tags \in DcTags /\ cells \in DcCells /\ WcGood(wc)
  BY <1>1, Zenon DEF DcGood, DcTypes, WcGood
<1>3. Adr(dc) \in DcAddr /\ Adr(dc) \in Int /\ Index(Adr(dc)) \in 0 .. DcSets - 1 /\ LineOf(Adr(dc)) \in Int
  BY <1>2, Fields, CellIs, Zenon
<1>4. dc.req.way \in 0 .. 2 /\ dc.req.way # 0
  BY <1>1, <1>2, Fields, Zenon DEF DcGood, ReqInv
<1>5. dc.req.way \in Ways
  BY <1>4 DEF Ways
<1>6. /\ tags[dc.req.way][Index(Adr(dc))].line = LineOf(Adr(dc))
      /\ tags[dc.req.way][Index(Adr(dc))].dirty <=> dc.req.r.cmd = "WR"
      /\ OneWay(tags) /\ OwnSet(tags) /\ Accesses(dc)
  BY <1>1, Zenon DEF DcGood, ReqInv, Tagged, Dirty
<1>7. /\ Thru(dc.build) => \A w \in Ways, i \in 0 .. DcSets - 1 : ~ tags[w][i].dirty
      /\ ~ Thru(dc.build) => foreign = {}
  BY <1>1, Zenon DEF DcGood, Through
<1>8. /\ LruGood(dc.build, lruMem)
      /\ dc.build.kind # "two" => ~ dc.req.lru
      /\ dc.build.kind # "two" => dc.req.way \in {0, 1}
      /\ dc.build.kind # "two" => \A i \in 0 .. DcSets - 1 : ~ tags[2][i].valid /\ ~ tags[2][i].dirty
  BY <1>1, Zenon DEF DcGood, DcTypes, Single, LruGood
<1>9. /\ dc.build.kind # "two" => \A i \in 0 .. DcSets - 1 :
           tags[1][i].valid /\ i # Index(Adr(dc)) => tags[1][i].line \notin dc.build.bad
  BY <1>1, <1>6, Zenon DEF DcGood, BadInv
<1> QED
  BY <1>2, <1>3, <1>4, <1>5, <1>6, <1>7, <1>8, <1>9, Zenon

\* The words of lines with another index, and the other way, are not touched by a fill.
LEMMA FillApart ==
  ASSUME DcInv, dc.st = "fill", NEW w \in Ways, NEW e \in DcAddr, LineOf(e) \notin dc.build.bad,
         Tagged(tags, w, e), Valid(tags, w, e) \/ Dirty(tags, w, e), w # dc.req.way \/ LineOf(e) # LineOf(Adr(dc))
  PROVE  /\ cells[w][Cell(e)] = e \/ e \in foreign
         /\ w = dc.req.way => \A l \in WordsOf(LineOf(Adr(dc))) : Cell(l) # Cell(e)
<1> DEFINE a == Adr(dc)
<1>1. DcGood(dc, tags, cells, lruMem, wc, mainMem, foreign)
  BY Zenon DEF DcInv
<1>2. ~ (w = dc.req.way /\ Index(e) = Index(a))
  <2> SUFFICES ASSUME w = dc.req.way, Index(e) = Index(a) PROVE LineOf(e) = LineOf(a)
    BY Zenon
  <2>1. tags[dc.req.way][Index(a)].line = LineOf(a)
    BY InFill, Zenon
  <2> HIDE DEF a
  <2> QED
    BY <2>1, Zenon DEF Tagged
<1>3. cells[w][Cell(e)] = e \/ e \in foreign
  BY <1>1, <1>2, Zenon DEF DcGood, CellInv
<1>4. ASSUME w = dc.req.way, NEW l \in WordsOf(LineOf(a)) PROVE Cell(l) # Cell(e)
  <2>1. l \in Int /\ e \in Int /\ Index(l) = Index(a)
    BY AddrInt, SameIndex, Zenon DEF WordsOf
  <2> QED
    BY <2>1, <1>2, <1>4, CellApart, Zenon
<1> QED
  BY <1>3, <1>4, Zenon

\* A line that arrives keeps the invariant.
LEMMA FillLineKeeps ==
  ASSUME DcInv, FillLine PROVE DcInv'
<1> DEFINE a == Adr(dc)  b == dc.build  y == dc.req.way  k == Index(a)
           store == dc.req.r.cmd = "WR" /\ dc.req.r.en
           line == WordsOf(LineOf(a))
           G(c) == IF \E e \in line : Cell(e) = c
                   THEN LET e == CHOOSE e \in line : Cell(e) = c
                        IN  IF store /\ e = a THEN e ELSE ReadWord(e)
                   ELSE cells[y][c]
<1>1. /\ dc.st = "fill" /\ LineOf(a) \notin b.bad
      /\ cells' = [cells EXCEPT ![y] = [c \in DOMAIN cells[y] |-> G(c)]]
      /\ mainMem' = (IF store THEN mainMem \ {a} ELSE mainMem)
      /\ wc' = (IF store THEN [wc EXCEPT !.last = @ \ {a}] ELSE wc)
      /\ dc' = [dc EXCEPT !.st = "respond", !.val = ReadWord(a)]
      /\ UNCHANGED <<tags, lruMem, foreign>>
  BY Zenon DEF FillLine, Accessed, Adr
<1>2. DcGood(dc, tags, cells, lruMem, wc, mainMem, foreign) /\ InMiss(dc) /\ dc.st \notin {"write", "writeBack"}
  BY <1>1, Zenon DEF DcInv, InMiss
<1>3. /\ dc \in DcRegs /\ tags \in DcTags /\ cells \in DcCells /\ WcGood(wc) /\ LruGood(b, lruMem)
      /\ a \in DcAddr /\ a \in Int /\ k \in 0 .. DcSets - 1
      /\ y \in Ways /\ (b.kind # "two" => y = 1) /\ tags[y][k].line = LineOf(a)
      /\ tags[y][k].dirty <=> dc.req.r.cmd = "WR"
      /\ OneWay(tags) /\ OwnSet(tags) /\ Accesses(dc)
  BY <1>1, InFill, Zenon
<1>4. /\ Thru(b) => \A w \in Ways, i \in 0 .. DcSets - 1 : ~ tags[w][i].dirty
      /\ ~ Thru(b) => foreign = {}
      /\ b.kind # "two" => \A i \in 0 .. DcSets - 1 :
           /\ ~ tags[2][i].valid /\ ~ tags[2][i].dirty
           /\ tags[1][i].valid /\ i # k => tags[1][i].line \notin b.bad
      /\ b.kind # "two" => ~ dc.req.lru
  BY <1>1, InFill, Zenon
<1>5. \A e \in DcAddr : LineOf(e) = LineOf(a) => Readable(b, wc, mainMem, e)
  BY <1>1, <1>2, Zenon DEF DcGood, MemInv
<1>6. \A e \in line : e \in DcAddr /\ e \in Int /\ LineOf(e) = LineOf(a) /\ ReadWord(e) = e
  BY <1>5, AddrInt, Zenon DEF WordsOf, ReadWord, Readable
<1>7. a \in line /\ \A e \in DcAddr : LineOf(e) = LineOf(a) => e \in line
  BY <1>3, Zenon DEF WordsOf
<1>8. \A c : IF \E e \in line : Cell(e) = c THEN G(c) \in line /\ Cell(G(c)) = c ELSE G(c) = cells[y][c]
  <2> SUFFICES ASSUME NEW c, NEW l \in line, Cell(l) = c PROVE G(c) \in line /\ Cell(G(c)) = c
    BY Zenon
  <2> DEFINE o == CHOOSE e \in line : Cell(e) = c
  <2>1. o \in line /\ Cell(o) = c
    BY Zenon
  <2>2. ReadWord(o) = o
    BY <2>1, <1>6, Zenon
  <2>3. G(c) = IF store /\ o = a THEN o ELSE ReadWord(o)
    BY Zenon
  <2> HIDE DEF G, o, line, store
  <2>4. G(c) = o
    BY <2>2, <2>3, Zenon
  <2> QED
    BY <2>1, <2>4, Zenon
<1> HIDE DEF G, line
<1>9. \A e \in line : G(Cell(e)) = e
  <2> SUFFICES ASSUME NEW e \in line PROVE G(Cell(e)) = e
    BY Zenon
  <2> DEFINE g == G(Cell(e))
  <2>1. g \in line /\ Cell(g) = Cell(e)
    BY <1>8, Zenon
  <2> HIDE DEF g
  <2>2. g \in Int /\ e \in Int /\ LineOf(g) = LineOf(e)
    BY <2>1, <1>6, Zenon
  <2>3. g = e
    BY <2>1, <2>2, CellApart, Zenon
  <2> QED
    BY <2>3, Zenon DEF g
<1> DEFINE D == 0 .. DcSets * DcBurst - 1  R == [c \in D |-> G(c)]
<1>10. DOMAIN cells[y] = D /\ cells[y] \in [D -> DcAddr \cup {Old}]
  BY <1>3, Zenon DEF DcCells
<1>11. cells' = [cells EXCEPT ![y] = R]
  BY <1>1, <1>10, Zenon
<1>12. R \in [D -> DcAddr \cup {Old}] /\ \A c \in D : R[c] = G(c)
  <2>1. \A c \in D : G(c) \in DcAddr \cup {Old}
    BY <1>6, <1>8, <1>10, Zenon
  <2> QED
    BY <2>1, Zenon
<1> HIDE DEF R
<1>13. cells' \in DcCells /\ cells'[y] = R /\ \A w \in Ways : w # y => cells'[w] = cells[w]
  BY <1>3, <1>11, <1>12, Zenon DEF DcCells
<1>14. \A e \in DcAddr : Cell(e) \in D
  BY AddrInt, CellIs, Zenon
<1> HIDE DEF D, store, k, y, b, a
<1>15. CellRest(b, tags, cells', foreign)
  <2> SUFFICES ASSUME NEW w \in Ways, NEW e \in DcAddr, LineOf(e) \notin b.bad, Tagged(tags, w, e),
                      Valid(tags, w, e) \/ Dirty(tags, w, e)
               PROVE  cells'[w][Cell(e)] = e \/ e \in foreign
    BY Zenon DEF CellRest
  <2>1. CASE w = y /\ LineOf(e) = LineOf(a)
    BY <2>1, <1>7, <1>9, <1>12, <1>13, <1>14, Zenon
  <2>2. CASE w # y
    <3>1. cells[w][Cell(e)] = e \/ e \in foreign
      BY <2>2, <1>1, FillApart, Zenon DEF y, a, b
    <3> QED
      BY <2>2, <3>1, <1>13, Zenon
  <2>3. CASE w = y /\ LineOf(e) # LineOf(a)
    <3>1. (cells[w][Cell(e)] = e \/ e \in foreign) /\ \A l \in line : Cell(l) # Cell(e)
      BY <2>3, <1>1, FillApart, Zenon DEF y, a, b, line
    <3>2. G(Cell(e)) = cells[y][Cell(e)]
      BY <3>1, <1>8, Zenon
    <3> QED
      BY <2>3, <3>1, <3>2, <1>12, <1>13, <1>14, Zenon
  <2> QED
    BY <2>1, <2>2, <2>3, Zenon
<1>16. MemRest(b, tags, wc', mainMem')
  <2> SUFFICES ASSUME NEW e \in DcAddr, LineOf(e) \notin b.bad, ~ (Tagged(tags, 1, e) /\ Dirty(tags, 1, e))
               PROVE  Readable(b, wc', mainMem', e)
    BY Zenon DEF MemRest
  <2>1. Readable(b, wc, mainMem, e)
    BY <1>1, <1>2, Zenon DEF DcGood, MemInv, b
  <2>2. CASE ~ store
    BY <2>1, <2>2, <1>1, Zenon
  <2>3. CASE store /\ e # a
    BY <2>1, <2>3, <1>1, <1>3, ReadableKept, Zenon DEF WcGood
  <2>4. CASE store /\ e = a
    <3>1. tags[y][k].dirty
      BY <2>4, <1>3, Zenon DEF store
    <3>2. ~ Thru(b)
      BY <3>1, <1>3, <1>4, Zenon
    <3>3. y = 1
      BY <3>2, <1>3, Zenon DEF Thru
    <3> QED
      BY <3>1, <3>3, <2>4, <1>3, Zenon DEF Tagged, Dirty, k
  <2> QED
    BY <2>2, <2>3, <2>4, Zenon
<1>17. WcGood(wc')
  BY <1>1, <1>3, WcWithout, Zenon
<1>18. TagsGood(b, tags)
  <2>1. b.kind # "two" => tags[1][k].line \notin b.bad
    BY <1>1, <1>3, Zenon
  <2> QED
    BY <2>1, <1>3, <1>4, Zenon DEF TagsGood
<1>19. DcRest(b, tags', cells', lruMem', wc', mainMem', foreign')
  BY <1>1, <1>3, <1>4, <1>13, <1>15, <1>16, <1>17, <1>18, Zenon DEF DcRest
<1>20. ReadWord(a) = a
  BY <1>6, <1>7, Zenon
<1>21. /\ dc' \in DcRegs /\ dc'.st = "respond" /\ dc'.val = a /\ dc'.build = dc.build /\ dc'.req = dc.req /\ dc'.out = dc.out
  <2>1. dc' = [dc EXCEPT !.st = "respond", !.val = a]
    BY <1>1, <1>20, Zenon
  <2> QED
    BY <2>1, <1>3, Zenon DEF DcRegs
<1>22. Adr(dc') = a /\ Accesses(dc')
  BY <1>3, <1>21, Zenon DEF Adr, Accesses, a
<1>23. dc.out # "stale" /\ (b.kind # "two" => dc.out # "unreported")
  BY <1>2, Zenon DEF DcGood, OutInv, b
<1>24. b.kind # "two" => ~ dc'.req.lru /\ dc'.req.way \in {0, 1}
  BY <1>3, <1>4, <1>21, Zenon DEF y
<1>25. DcRested(dc', tags', cells', lruMem', wc', mainMem', foreign')
  BY <1>1, <1>19, <1>21, <1>22, <1>23, <1>24, Zenon DEF DcRested, b
<1> QED
  BY <1>25, Rested, Zenon DEF DcInv

\* A line that the memory does not answer for keeps the invariant: a direct-mapped cache
\* takes its entry back.
LEMMA FillFailsKeeps ==
  ASSUME DcInv, FillFails PROVE DcInv'
<1> DEFINE a == Adr(dc)  b == dc.build  y == dc.req.way  k == Index(a)  line == WordsOf(LineOf(a))
           D == 0 .. DcSets * DcBurst - 1
           G(c) == IF \E e \in line : Cell(e) = c
                   THEN IF dc.req.r.cmd = "WR" /\ dc.req.r.en /\ Cell(a) = c THEN a ELSE Old
                   ELSE cells[y][c]
           R == [c \in D |-> G(c)]
<1>1. /\ dc.st = "fill" /\ LineOf(a) \in b.bad
      /\ dc' = [dc EXCEPT !.st = "failed"]
      /\ cells' = [cells EXCEPT ![y] = [c \in DOMAIN cells[y] |-> G(c)]]
      /\ UNCHANGED <<lruMem, wc, mainMem, foreign>>
  BY Zenon DEF FillFails, Accessed, Adr
<1>2. DcGood(dc, tags, cells, lruMem, wc, mainMem, foreign) /\ dc.st \notin {"write", "writeBack"}
  BY <1>1, Zenon DEF DcInv
<1>3. /\ dc \in DcRegs /\ tags \in DcTags /\ cells \in DcCells /\ WcGood(wc) /\ LruGood(b, lruMem)
      /\ a \in DcAddr /\ a \in Int /\ k \in 0 .. DcSets - 1
      /\ y \in Ways /\ (b.kind # "two" => y = 1) /\ tags[y][k].line = LineOf(a)
      /\ OneWay(tags) /\ OwnSet(tags) /\ Accesses(dc)
  BY <1>1, InFill, Zenon
<1>4. /\ Thru(b) => \A w \in Ways, i \in 0 .. DcSets - 1 : ~ tags[w][i].dirty
      /\ ~ Thru(b) => foreign = {}
      /\ b.kind # "two" => \A i \in 0 .. DcSets - 1 :
           /\ ~ tags[2][i].valid /\ ~ tags[2][i].dirty
           /\ tags[1][i].valid /\ i # k => tags[1][i].line \notin b.bad
      /\ b.kind # "two" => ~ dc.req.lru
  BY <1>1, <1>3, InFill, Zenon
<1>5. PICK v \in Ways : FailedWay(v) /\ tags' = [tags EXCEPT ![v][k].valid = FALSE]
  BY Zenon DEF FillFails, Accessed, Adr
<1>6. b.kind # "two" => v = y
  BY <1>5, Zenon DEF FailedWay
<1>7. /\ tags' \in DcTags
      /\ \A w \in Ways, i \in 0 .. DcSets - 1 :
           /\ tags'[w][i].line = tags[w][i].line /\ (tags'[w][i].dirty <=> tags[w][i].dirty)
           /\ tags'[w][i].valid <=> tags[w][i].valid /\ ~ (w = v /\ i = k)
  <2> HIDE DEF k
  <2>1. tags' \in DcTags /\ Unset(tags', tags, v, k)
    BY <1>3, <1>5, UnsetIs, Zenon
  <2> QED
    BY <2>1, Zenon DEF Unset
<1>8. DOMAIN cells[y] = D /\ cells[y] \in [D -> DcAddr \cup {Old}]
  BY <1>3, Zenon DEF DcCells
<1>9. cells' = [cells EXCEPT ![y] = R]
  BY <1>1, <1>8, Zenon
<1>10. R \in [D -> DcAddr \cup {Old}] /\ \A c \in D : R[c] = G(c)
  <2>1. \A c \in D : G(c) \in DcAddr \cup {Old}
    BY <1>3, <1>8, Zenon
  <2> HIDE DEF G
  <2> QED
    BY <2>1, Zenon
<1>11. \A c : (\A e \in line : Cell(e) # c) => G(c) = cells[y][c]
  BY Zenon
<1> HIDE DEF R, G, line
<1>12. cells' \in DcCells /\ cells'[y] = R /\ \A w \in Ways : w # y => cells'[w] = cells[w]
  BY <1>3, <1>9, <1>10, Zenon DEF DcCells
<1>13. \A e \in DcAddr : Cell(e) \in D /\ Index(e) \in 0 .. DcSets - 1
  BY AddrInt, CellIs, Zenon
<1>14. 1 \in Ways /\ 2 \in Ways
  BY DEF Ways
<1> HIDE DEF D, k, y, b, a
<1>15. CellRest(b, tags', cells', foreign)
  <2> SUFFICES ASSUME NEW w \in Ways, NEW e \in DcAddr, LineOf(e) \notin b.bad, Tagged(tags', w, e),
                      Valid(tags', w, e) \/ Dirty(tags', w, e)
               PROVE  cells'[w][Cell(e)] = e \/ e \in foreign
    BY Zenon DEF CellRest
  <2>1. Tagged(tags, w, e) /\ (Valid(tags, w, e) \/ Dirty(tags, w, e))
    BY <1>7, <1>13, Zenon DEF Tagged, Valid, Dirty
  <2>2. LineOf(e) # LineOf(a)
    BY <1>1, Zenon
  <2>3. /\ cells[w][Cell(e)] = e \/ e \in foreign
        /\ w = y => \A l \in line : Cell(l) # Cell(e)
    BY <2>1, <2>2, <1>1, FillApart, Zenon DEF y, a, b, line
  <2>4. CASE w = y
    BY <2>3, <2>4, <1>10, <1>11, <1>12, <1>13, Zenon
  <2>5. CASE w # y
    BY <2>3, <2>5, <1>12, Zenon
  <2> QED
    BY <2>4, <2>5, Zenon
<1>16. MemRest(b, tags', wc', mainMem')
  <2> SUFFICES ASSUME NEW e \in DcAddr, LineOf(e) \notin b.bad
               PROVE  Readable(b, wc, mainMem, e) \/ (Tagged(tags', 1, e) /\ Dirty(tags', 1, e))
    BY <1>1, Zenon DEF MemRest
  <2>1. Readable(b, wc, mainMem, e) \/ (Tagged(tags, 1, e) /\ Dirty(tags, 1, e))
    BY <1>2, Zenon DEF DcGood, MemInv, b
  <2> QED
    BY <2>1, <1>7, <1>13, <1>14, Zenon DEF Tagged, Dirty
<1>17. TagsGood(b, tags')
  <2>1. OneWay(tags')
    <3> SUFFICES ASSUME NEW i \in 0 .. DcSets - 1, tags'[1][i].valid, tags'[2][i].valid, tags'[1][i].line = tags'[2][i].line
                 PROVE  FALSE
      BY Zenon DEF OneWay
    <3>1. tags[1][i].valid /\ tags[2][i].valid
      BY <1>7, <1>14, Zenon
    <3>2. tags[1][i].line = tags[2][i].line
      BY <1>7, <1>14, Zenon
    <3> QED
      BY <3>1, <3>2, <1>3, Zenon DEF OneWay
  <2>2. Thru(b) => \A w \in Ways, i \in 0 .. DcSets - 1 : ~ tags'[w][i].dirty
    BY <1>4, <1>7, Zenon
  <2>3. OwnSet(tags')
    BY <1>3, <1>7, <1>14, Zenon DEF OwnSet
  <2>4. ASSUME b.kind # "two", NEW i \in 0 .. DcSets - 1
        PROVE  /\ ~ tags'[2][i].valid /\ ~ tags'[2][i].dirty
               /\ tags'[1][i].valid => tags'[1][i].line \notin b.bad
    <3>1. ~ tags'[2][i].valid /\ ~ tags'[2][i].dirty
      BY <2>4, <1>4, <1>7, <1>14, Zenon
    <3>2. CASE i = k
      <4>1. ~ tags'[1][i].valid
        BY <3>2, <2>4, <1>3, <1>6, <1>7, <1>14, Zenon
      <4> QED
        BY <3>1, <4>1, Zenon
    <3>3. CASE i # k
      <4>1. tags'[1][i].valid => tags[1][i].valid
        BY <1>7, <1>14, Zenon
      <4>2. tags[1][i].valid => tags[1][i].line \notin b.bad
        BY <3>3, <2>4, <1>4, Zenon
      <4>3. tags'[1][i].line = tags[1][i].line
        BY <1>7, <1>14, Zenon
      <4> QED
        BY <3>1, <4>1, <4>2, <4>3, Zenon
    <3> QED
      BY <3>2, <3>3, Zenon
  <2> QED
    BY <2>1, <2>2, <2>3, <2>4, <1>7, Zenon DEF TagsGood
<1>18. DcRest(b, tags', cells', lruMem', wc', mainMem', foreign')
  BY <1>1, <1>3, <1>4, <1>12, <1>15, <1>16, <1>17, Zenon DEF DcRest
<1>19. /\ dc' \in DcRegs /\ dc'.st = "failed" /\ dc'.build = dc.build /\ dc'.req = dc.req /\ dc'.out = dc.out
  BY <1>1, <1>3, Zenon DEF DcRegs
<1>20. Adr(dc') = a /\ Accesses(dc')
  BY <1>3, <1>19, Zenon DEF Adr, Accesses, a
<1>21. dc.out # "stale" /\ (b.kind # "two" => dc.out # "unreported")
  BY <1>2, Zenon DEF DcGood, OutInv, b
<1>22. b.kind # "two" => ~ dc'.req.lru /\ dc'.req.way \in {0, 1}
  BY <1>3, <1>4, <1>19, Zenon DEF y
<1>23. DcRested(dc', tags', cells', lruMem', wc', mainMem', foreign')
  BY <1>3, <1>18, <1>19, <1>20, <1>21, <1>22, Zenon DEF DcRested, b
<1> QED
  BY <1>23, Rested, Zenon DEF DcInv
-----------------------------------------------------------------------------
LEMMA DcInitGood ==
  ASSUME DcInit PROVE DcInv
<1> DEFINE q == [r |-> NoReq, way |-> 0, lru |-> FALSE, late |-> FALSE]
           n == [valid |-> FALSE, line |-> 0, dirty |-> FALSE]
<1>1. dc \in [build : DcBuilds, st : {"idle"}, out : {"none"}, val : {Old}, old : {0}, req : {q}]
  BY Zenon DEF DcInit
<1>2. /\ tags = [w \in Ways |-> [i \in 0 .. DcSets - 1 |-> n]]
      /\ cells = [w \in Ways |-> [c \in 0 .. DcSets * DcBurst - 1 |-> Old]]
      /\ lruMem = [c \in 0 .. DcSets * DcBurst - 1 |-> FALSE]
      /\ wc = [line |-> 0, en |-> {}, last |-> {}]
      /\ mainMem = DcAddr /\ foreign = {}
  BY Zenon DEF DcInit
<1>3. 0 \in Int /\ 0 \in 0 .. 2 /\ 1 \in Ways /\ 2 \in Ways /\ 0 \in {0, 1}
  BY DEF Ways
<1>4. NoReq \in DcRequest /\ NoReq.cmd = "IDLE" /\ NoReq.a = 0
  BY AddrInt, Zenon DEF NoReq, DcRequest
<1>5. q \in DcReq /\ q.r = NoReq /\ q.way = 0 /\ ~ q.lru
  BY <1>3, <1>4, Zenon DEF DcReq
<1>6. n \in DcTag /\ ~ n.valid /\ ~ n.dirty
  BY <1>3, Zenon DEF DcTag
<1> HIDE DEF q, n
<1>7. dc \in DcRegs /\ dc.build \in DcBuilds /\ dc.st = "idle" /\ dc.out = "none" /\ dc.req = q
  BY <1>1, <1>3, <1>5, Zenon DEF DcRegs
<1>8. tags \in DcTags /\ \A w \in Ways, i \in 0 .. DcSets - 1 : tags[w][i] = n
  BY <1>2, <1>6, Zenon DEF DcTags
<1>9. \A w \in Ways, i \in 0 .. DcSets - 1 : ~ tags[w][i].valid /\ ~ tags[w][i].dirty
  BY <1>6, <1>8, Zenon
<1>10. cells \in DcCells /\ lruMem \in DcLru /\ (\A j \in DOMAIN lruMem : ~ lruMem[j])
  BY <1>2, Zenon DEF DcCells, DcLru
<1>11. wc \in DcWc /\ wc.en = {} /\ wc.last = {}
  BY <1>2, <1>3, Zenon DEF DcWc
<1>12. dc.req.r.cmd = "IDLE" /\ ~ Accesses(dc) /\ ~ InMiss(dc)
  BY <1>4, <1>5, <1>7, Zenon DEF Accesses, InMiss
<1>13. DcTypes(dc, tags, cells, lruMem, wc, foreign)
  BY <1>7, <1>8, <1>10, <1>11, Zenon DEF DcTypes
<1>14. Single(dc, tags, lruMem)
  BY <1>3, <1>5, <1>7, <1>9, <1>10, Zenon DEF Single
<1>15. Through(dc, tags, foreign)
  BY <1>2, <1>9, Zenon DEF Through
<1>16. MemInv(dc, tags, wc, mainMem)
  BY <1>2, <1>11, Zenon DEF MemInv, Readable
<1>17. CellInv(dc, tags, cells, foreign)
  <2>1. \A w, e : ~ Kept(dc, w, e)
    BY <1>12, Zenon DEF Kept
  <2>2. \A w \in Ways, e \in DcAddr : ~ Valid(tags, w, e) /\ ~ Dirty(tags, w, e)
    BY <1>9, AddrInt, CellIs, Zenon DEF Valid, Dirty
  <2> QED
    BY <2>1, <2>2, <1>7, Zenon DEF CellInv
<1>18. ReqInv(dc, tags)
  <2>1. OneWay(tags) /\ OwnSet(tags)
    BY <1>3, <1>9, Zenon DEF OneWay, OwnSet
  <2> QED
    BY <2>1, <1>7, <1>12, Zenon DEF ReqInv
<1>19. BadInv(dc, tags) /\ OutInv(dc)
  BY <1>3, <1>7, <1>9, <1>12, Zenon DEF BadInv, OutInv
<1> QED
  BY <1>13, <1>14, <1>15, <1>16, <1>17, <1>18, <1>19, Zenon DEF DcInv, DcGood

LEMMA DcStepGood ==
  ASSUME DcInv, [DcNext]_dcvars, DcHolds \subseteq {FALSE} PROVE DcInv'
<1>1. CASE Idle
  BY <1>1, IdleKeeps, Zenon
<1>2. CASE LoadHit
  BY <1>2, LoadHitKeeps, Zenon
<1>3. CASE StoreBack
  BY <1>3, StoreBackKeeps, Zenon
<1>4. CASE StoreThrough
  BY <1>4, StoreThroughKeeps, Zenon
<1>5. CASE CombinedBurst
  BY <1>5, CombinedBurstKeeps, Zenon
<1>6. CASE SingleBurst
  BY <1>6, SingleBurstKeeps, Zenon
<1>7. CASE Miss
  BY <1>7, MissKeeps, Zenon
<1>8. CASE WriteBack
  BY <1>8, WriteBackKeeps, Zenon
<1>9. CASE FillLine
  BY <1>9, FillLineKeeps, Zenon
<1>10. CASE FillFails
  BY <1>10, FillFailsKeeps, Zenon
<1>11. CASE Bypass
  BY <1>11, BypassKeeps, Zenon
<1>12. CASE Respond
  BY <1>12, RespondKeeps, Zenon
<1>13. CASE Invalidate
  BY <1>13, InvalidateKeeps, Zenon
<1>14. CASE \E a \in dc.build.shared : Other(a)
  <2>1. PICK a \in dc.build.shared : Other(a)
    BY <1>14, Zenon
  <2>2. dc.build \in DcBuilds
    BY Fields, Zenon DEF DcInv, DcGood, DcTypes
  <2>3. dc.build.shared \in SUBSET DcAddr
    BY <2>2, DataCacheSizes, Zenon
  <2> QED
    BY <2>1, <2>3, OtherKeeps, Zenon
<1>15. CASE UNCHANGED dcvars
  BY <1>15, Zenon DEF DcInv, dcvars
<1> QED
  BY <1>1, <1>2, <1>3, <1>4, <1>5, <1>6, <1>7, <1>8, <1>9, <1>10, <1>11, <1>12, <1>13, <1>14, <1>15, Zenon DEF DcNext

LEMMA DcInvariant ==
  ASSUME DcHolds \subseteq {FALSE} PROVE DcSpec => []DcInv
<1>1. DcInit => DcInv
  BY DcInitGood, Zenon
<1>2. DcInv /\ [DcNext]_dcvars => DcInv'
  BY DcStepGood, Zenon
<1> QED
  BY <1>1, <1>2, PTL DEF DcSpec

\* The state has its type and no line is in both ways (DataCache.scala and the caches it
\* builds), when the memory takes a write burst at once.
THEOREM DataTypeCorrect ==
  ASSUME DcHolds \subseteq {FALSE} PROVE DcSpec => []DcTypeOK
<1>1. DcInv => DcTypeOK
  <2> SUFFICES ASSUME DcInv PROVE DcTypeOK
    OBVIOUS
  <2>1. DcTypes(dc, tags, cells, lruMem, wc, foreign) /\ OneWay(tags)
    BY Zenon DEF DcInv, DcGood, ReqInv
  <2>2. dc.st \in {"idle", "write", "writeBack", "fill", "respond", "failed"} /\ dc.req.way \in 0 .. 2
    BY <2>1, Fields, Zenon DEF DcTypes
  <2>3. cells \in [Ways -> [0 .. DcSets * DcBurst - 1 -> DcAddr \cup {Old}]]
    BY <2>1, Zenon DEF DcTypes, DcCells
  <2>4. wc.last \subseteq wc.en /\ wc.en \subseteq WordsOf(wc.line)
    BY <2>1, Zenon DEF DcTypes, DcWc, WordsOf
  <2>5. \A i \in 0 .. DcSets - 1 : tags[1][i].valid /\ tags[2][i].valid => tags[1][i].line # tags[2][i].line
    BY <2>1, Zenon DEF OneWay
  <2> QED
    BY <2>2, <2>3, <2>4, <2>5, Zenon DEF DcTypeOK
<1> QED
  BY <1>1, DcInvariant, PTL

\* A load returns what was stored last, in every build and for every size of the cache,
\* when the memory takes a write burst at once.
THEOREM DataIsLatest ==
  ASSUME DcHolds \subseteq {FALSE} PROVE DcSpec => []LoadsLatest
<1>1. DcInv => LoadsLatest
  BY Zenon DEF DcInv, DcGood, OutInv, LoadsLatest
<1> QED
  BY <1>1, DcInvariant, PTL

\* The direct-mapped caches report every load of a line that the memory answers with ERR,
\* after stores to it that failed as well, when the memory takes a write burst at once.
THEOREM DataErrorsSeen ==
  ASSUME DcHolds \subseteq {FALSE} PROVE DcSpec => []ErrorsReported
<1>1. DcInv => ErrorsReported
  BY Zenon DEF DcInv, DcGood, OutInv, ErrorsReported
<1> QED
  BY <1>1, DcInvariant, PTL
==============================================================================
