------------------------------ MODULE StackProofs -----------------------------
(***************************************************************************)
(* The stack cache keeps the stack, for any size of the cache, of a burst  *)
(* and of the stack.  The invariant says for each state of the unit up to  *)
(* which address the words are in their lines, from which they are in the  *)
(* memory, and how far the burst under way has come.  That every word has  *)
(* a line of its own follows from the cache holding no more than its size. *)
(***************************************************************************)
EXTENDS StackCache, TLAPS

\* The remainder is in range and the division theorem holds.
LEMMA DivMod ==
  ASSUME NEW x \in Int, NEW w \in Nat \ {0}
  PROVE  x % w \in 0 .. w - 1 /\ x \div w \in Int /\ x = w * (x \div w) + (x % w)
  OBVIOUS

\* Quotient and remainder are unique.
LEMMA DivModUnique ==
  ASSUME NEW w \in Nat \ {0}, NEW p \in Int, NEW q \in Int, NEW r \in 0 .. w - 1, NEW s \in 0 .. w - 1,
         w * p + r = w * q + s
  PROVE  p = q /\ r = s
<1>1. w * (p - q) = s - r
  OBVIOUS
<1>2. CASE p - q >= 1
  <2>1. w * (p - q) >= w
    BY <1>2
  <2> QED
    BY <1>1, <2>1
<1>3. CASE p - q <= -1
  <2>1. w * (p - q) <= -w
    BY <1>3
  <2> QED
    BY <1>1, <2>1
<1>4. CASE p = q
  BY <1>1, <1>4
<1> QED
  BY <1>2, <1>3, <1>4

\* The remainder of the next number.
LEMMA ModNext ==
  ASSUME NEW x \in Int, NEW w \in Nat \ {0}
  PROVE  (x + 1) % w = IF x % w = w - 1 THEN 0 ELSE (x % w) + 1
<1> DEFINE q == x \div w  r == x % w  y == x + 1  p == y \div w  s == y % w
<1>1. q \in Int /\ r \in 0 .. w - 1 /\ x = w * q + r
  BY DivMod, Zenon
<1>2. y \in Int /\ p \in Int /\ s \in 0 .. w - 1 /\ y = w * p + s
  <2>1. y \in Int
    OBVIOUS
  <2> QED
    BY <2>1, DivMod, Zenon
<1> HIDE DEF q, r, p, s
<1>3. CASE r = w - 1
  <2> DEFINE k == q + 1  z == 0
  <2>1. w * (q + 1) = w * q + w
    BY <1>1
  <2>2. w * p + s = w * k + z /\ k \in Int /\ z \in 0 .. w - 1
    BY <1>1, <1>2, <1>3, <2>1
  <2> HIDE DEF k, z
  <2>3. s = z
    BY <1>2, <2>2, DivModUnique, ZenonT(40)
  <2> QED
    BY <1>3, <2>3, Zenon DEF r, s, z
<1>4. CASE r # w - 1
  <2>1. w * p + s = w * q + (r + 1) /\ r + 1 \in 0 .. w - 1
    BY <1>1, <1>2, <1>4
  <2>2. s = r + 1
    BY <1>1, <1>2, <2>1, DivModUnique
  <2> QED
    BY <1>4, <2>2, Zenon DEF r, s
<1> QED
  BY <1>3, <1>4, Zenon

\* Numbers less than w apart have different remainders.
LEMMA ModApart ==
  ASSUME NEW w \in Nat \ {0}, NEW x \in Int, NEW y \in Int, x - y < w, y - x < w, x % w = y % w
  PROVE  x = y
<1> DEFINE q == x \div w  r == x % w  p == y \div w
<1>1. q \in Int /\ r \in 0 .. w - 1 /\ x = w * q + r
  BY DivMod, Zenon
<1>2. p \in Int /\ y = w * p + r
  BY DivMod, Zenon
<1> HIDE DEF q, r, p
<1>3. w * (q - p) = x - y
  BY <1>1, <1>2
<1>4. CASE q - p >= 1
  <2>1. w * (q - p) >= w
    BY <1>1, <1>2, <1>4
  <2> QED
    BY <1>3, <2>1
<1>5. CASE q - p <= -1
  <2>1. w * (q - p) <= -w
    BY <1>1, <1>2, <1>5
  <2> QED
    BY <1>3, <2>1
<1>6. CASE q = p
  BY <1>1, <1>2, <1>6
<1> QED
  BY <1>1, <1>2, <1>4, <1>5, <1>6

\* A word has a line of the cache.
LEMMA LineRange ==
  ASSUME NEW a \in Int PROVE Line(a) \in 0 .. ScSize - 1
  BY StackSizes, DivMod, Zenon DEF Line

\* No two words of a part of the stack that fits into the cache share a line.
LEMMA LineApart ==
  ASSUME NEW a \in Int, NEW b \in Int, a - b < ScSize, b - a < ScSize, Line(a) = Line(b)
  PROVE  a = b
  BY StackSizes, ModApart, Zenon DEF Line

\* The burst of a word begins at it or less than a burst before it.
LEMMA AlignedBelow ==
  ASSUME NEW x \in Int
  PROVE  Aligned(x) \in Int /\ Aligned(x) <= x /\ x < Aligned(x) + ScBurst /\ Aligned(x) % ScBurst = 0
<1> DEFINE q == x \div ScBurst  r == x % ScBurst
<1>1. ScBurst \in Nat \ {0}
  BY StackSizes
<1>2. q \in Int /\ r \in 0 .. ScBurst - 1 /\ x = ScBurst * q + r
  BY <1>1, DivMod, Zenon
<1>3. Aligned(x) = q * ScBurst
  BY DEF Aligned
<1> HIDE DEF q, r
<1>4. q * ScBurst = ScBurst * q /\ q * ScBurst \in Int
  BY <1>1, <1>2
<1> DEFINE y == q * ScBurst  p == y \div ScBurst  s == y % ScBurst
<1>5. p \in Int /\ s \in 0 .. ScBurst - 1 /\ y = ScBurst * p + s
  BY <1>1, <1>4, DivMod, Zenon
<1>6. y = ScBurst * q /\ y \in Int
  BY <1>4
<1> HIDE DEF p, s, y
<1>7. ScBurst * p + s = ScBurst * q + 0 /\ 0 \in 0 .. ScBurst - 1
  BY <1>1, <1>2, <1>5, <1>6
<1>8. s = 0
  BY <1>1, <1>2, <1>5, <1>7, DivModUnique, Zenon
<1>9. y <= x /\ x < y + ScBurst
  BY <1>1, <1>2, <1>6
<1> QED
  BY <1>3, <1>6, <1>8, <1>9, Zenon DEF y, s

\* The place of the next word in its burst.
LEMMA BurstStep ==
  ASSUME NEW x \in Int
  PROVE  /\ x % ScBurst \in 0 .. ScBurst - 1
         /\ (x + 1) % ScBurst = IF x % ScBurst = ScBurst - 1 THEN 0 ELSE (x % ScBurst) + 1
<1>1. ScBurst \in Nat \ {0}
  BY StackSizes
<1> QED
  BY <1>1, DivMod, ModNext, Zenon

\* Bursts that begin before the last of n words.
LEMMA BurstCount ==
  ASSUME NEW b \in Nat, NEW n \in Nat, ScBurst * b < n + ScBurst
  PROVE  b <= n \div ScBurst + 1
<1> DEFINE q == n \div ScBurst  r == n % ScBurst
<1>1. ScBurst \in Nat \ {0} /\ n \in Int
  BY StackSizes
<1>2. q \in Int /\ r \in 0 .. ScBurst - 1 /\ n = ScBurst * q + r
  BY <1>1, DivMod, Zenon
<1> HIDE DEF q, r
<1>3. CASE b >= q + 2
  <2>1. ScBurst * (b - (q + 2)) >= 0
    BY <1>1, <1>2, <1>3
  <2>2. ScBurst * b >= ScBurst * q + 2 * ScBurst
    BY <1>1, <1>2, <2>1
  <2> QED
    BY <1>1, <1>2, <2>2
<1> QED
  BY <1>2, <1>3 DEF q
-----------------------------------------------------------------------------
ScSpec == ScInit /\ [][ScNext]_scvars

\* The states of stateReg, the registers and the port to the memory.
ScStates == {"idle", "fill", "waitFill", "error", "spill", "holdSpill", "waitSpill"}
ScRegs == [state : ScStates, top : 0 .. ScBase, mtop : 0 .. ScBase, ta : Int, newmt : 0 .. ScBase,
           res : BOOLEAN, rdAddr : 0 .. ScSize - 1, away : -1 .. ScBase, icache : {"method", "line"}]
ScPort == [left : Int, err : BOOLEAN, fault : BOOLEAN, words : Nat, bursts : Nat, lost : BOOLEAN]
\* Every register and memory has a value of its width.
ScTypes(r, p, L, M, V) ==
  /\ r \in ScRegs /\ p \in ScPort
  /\ L \in [0 .. ScSize - 1 -> ScAddr \cup {Junk}] /\ M \subseteq ScAddr /\ V \subseteq ScAddr

\* Every word of the stack below to is in the cache, every other one in the memory.
Held(from, to, L, M, V) ==
  \A a \in V : from <= a /\ (IF a < to THEN L[Line(a)] = a ELSE a \in M)

\* The word at which a spill ends: where a reserve leaves room for the whole cache, or
\* where the instruction said.
ScLow(r) == IF r.res THEN r.top + ScSize ELSE r.newmt

\* Between two operations the stack is in the cache up to mtop and in the memory from
\* there on; while another thread runs, all of it is in the memory.
ScIdle(r, p, L, M, V) ==
  r.state = "idle" /\ ~ p.fault =>
    IF r.away = Here THEN r.mtop - r.top \in 0 .. ScSize /\ Held(r.top, r.mtop, L, M, V)
    ELSE Held(r.away, r.away, L, M, V)

\* The thread is switched between two operations.
ScAway(r, p) == r.away # Here => r.state = "idle" /\ ~ p.fault

\* During a spill the words that have been written are in the memory, and all are still
\* in the cache.  The read address is that of the word to send, but for a stalled start.
ScSpilling(r, p, L, M, V) ==
  r.state \in {"holdSpill", "spill", "waitSpill"} =>
    /\ ~ p.fault /\ ScLow(r) - r.top \in 0 .. ScSize /\ ScLow(r) <= r.mtop
    /\ Held(r.top, r.mtop, L, M, V)
    /\ \A a \in V : ScLow(r) <= a /\ a < r.ta => a \in M
    /\ r.rdAddr = Line(r.ta) \/ (r.state = "holdSpill" /\ r.icache = "line")

\* During a fill the words that have arrived are in the cache, and the words below mtop
\* are still there.
ScFilling(r, p, L, M, V) ==
  r.state \in {"fill", "waitFill"} =>
    /\ ~ p.fault /\ r.newmt - r.top \in 0 .. ScSize /\ r.mtop \in r.top .. r.newmt
    /\ Held(r.top, r.mtop, L, M, V)
    /\ \A a \in V : r.mtop <= a /\ a < r.ta /\ a < r.newmt => L[Line(a)] = a

\* Words the memory has still to send of a burst under way.
ScLeft(r, p) ==
  /\ p.left = IF r.state \in {"waitFill", "error"} THEN ScBurst - (r.ta % ScBurst) ELSE 0
  /\ r.state = "fill" => r.ta % ScBurst = 0
  /\ r.state = "waitFill" /\ p.err => r.ta % ScBurst = 0
  /\ r.state = "error" => p.err /\ p.fault

\* The bursts so far are no more than the words passed need, and the first and the last
\* of them may be used in part.
ScBursts(r, p) ==
  /\ p.bursts <= p.words \div ScBurst + 2
  /\ r.state = "holdSpill" => r.ta % ScBurst = 0 /\ r.ta < r.mtop + (IF p.bursts = 0 THEN 1 ELSE 0)
  /\ r.state \in {"holdSpill", "waitSpill"} =>  ScBurst * p.bursts < r.ta - ScLow(r) + ScBurst
  /\ r.state = "spill" => ScBurst * p.bursts < r.ta - (r.ta % ScBurst) - ScLow(r) + 2 * ScBurst
  /\ r.state \in {"holdSpill", "spill", "waitSpill"} => r.mtop <= ScLow(r) + p.words
  /\ r.state = "waitSpill" => r.ta % ScBurst = 0
  /\ r.state = "fill" => r.ta <= r.newmt /\ ScBurst * p.bursts < r.ta - r.newmt + p.words + ScBurst
  /\ r.state = "waitFill" => ScBurst * p.bursts < r.ta - (r.ta % ScBurst) - r.newmt + p.words + 2 * ScBurst

\* The inductive invariant, as a predicate on the values of the variables.
ScGood(r, p, L, M, V) ==
  /\ ScTypes(r, p, L, M, V) /\ ScIdle(r, p, L, M, V) /\ ScAway(r, p) /\ ScSpilling(r, p, L, M, V)
  /\ ScFilling(r, p, L, M, V) /\ ScLeft(r, p) /\ ScBursts(r, p)

\* No burst is counted between two operations.
ScInv == ScGood(sc, port, lines, inMem, live) /\ (sc.state = "idle" => port.bursts = 0)
-----------------------------------------------------------------------------
\* What is reset between two operations is not looked at there.
LEMMA GoKeeps ==
  ASSUME NEW r, NEW p, ScGood(r, p, lines', inMem', live'), ScGo(r, p)
  PROVE  ScInv'
<1> DEFINE x == [r EXCEPT !.ta = 0, !.newmt = 0, !.res = FALSE, !.rdAddr = 0]
           y == [p EXCEPT !.err = FALSE, !.words = 0, !.bursts = 0]
<1>1. CASE r.state # "idle"
  BY <1>1, Zenon DEF ScGo, ScInv
<1>2. CASE r.state = "idle"
  <2>1. sc' = x /\ port' = y
    BY <1>2, Zenon DEF ScGo
  <2>2. r \in ScRegs /\ p \in ScPort
    BY Zenon DEF ScGood, ScTypes
  <2>3. 0 \in 0 .. ScBase /\ 0 \in 0 .. ScSize - 1 /\ 0 \in Int /\ 0 \in Nat /\ 0 <= 0 \div ScBurst + 2
    <3>1. 0 \div ScBurst \in Nat
      BY StackSizes
    <3> QED
      BY <3>1, StackSizes
  <2>4. /\ x \in ScRegs /\ x.state = "idle" /\ x.top = r.top /\ x.mtop = r.mtop /\ x.away = r.away
    BY <1>2, <2>2, <2>3, Zenon DEF ScRegs
  <2>5. y \in ScPort /\ y.left = p.left /\ y.fault = p.fault /\ y.words = 0 /\ y.bursts = 0
    BY <2>2, <2>3, Zenon DEF ScPort
  <2> HIDE DEF x, y
  <2>6. ScTypes(x, y, lines', inMem', live') /\ ScIdle(x, y, lines', inMem', live') /\ ScAway(x, y)
    BY <1>2, <2>4, <2>5, Zenon DEF ScGood, ScTypes, ScIdle, ScAway
  <2>7. ScSpilling(x, y, lines', inMem', live') /\ ScFilling(x, y, lines', inMem', live')
    BY <2>4, Zenon DEF ScSpilling, ScFilling
  <2>8. ScLeft(x, y) /\ ScBursts(x, y)
    BY <1>2, <2>3, <2>4, <2>5, Zenon DEF ScGood, ScLeft, ScBursts
  <2> QED
    BY <2>1, <2>5, <2>6, <2>7, <2>8, Zenon DEF ScGood, ScInv
<1> QED
  BY <1>1, <1>2, Zenon

\* The state of an operation that is complete.
LEMMA IdleGood ==
  ASSUME NEW r, NEW p, NEW L, NEW M, NEW V, ScTypes(r, p, L, M, V), r.state = "idle",
         ScAway(r, p), ScIdle(r, p, L, M, V), p.left = 0, p.bursts <= p.words \div ScBurst + 2
  PROVE  ScGood(r, p, L, M, V)
<1>1. ScSpilling(r, p, L, M, V) /\ ScFilling(r, p, L, M, V)
  BY Zenon DEF ScSpilling, ScFilling
<1>2. ScLeft(r, p) /\ ScBursts(r, p)
  BY Zenon DEF ScLeft, ScBursts
<1> QED
  BY <1>1, <1>2, Zenon DEF ScGood

\* What holds when an instruction begins.
LEMMA AtRest ==
  ASSUME ScInv, Operation
  PROVE  /\ sc \in ScRegs /\ port \in ScPort /\ lines \in [0 .. ScSize - 1 -> ScAddr \cup {Junk}]
         /\ inMem \subseteq ScAddr /\ live \subseteq ScAddr
         /\ sc.mtop - sc.top \in 0 .. ScSize /\ Held(sc.top, sc.mtop, lines, inMem, live)
         /\ sc.state = "idle" /\ sc.away = Here /\ port.left = 0 /\ ~ port.fault
         /\ port.bursts = 0
  BY Zenon DEF ScInv, ScGood, ScTypes, ScIdle, ScLeft, ScBursts, Operation

\* sens keeps the invariant: nothing is filled, or the fill begins at the burst of mtop.
LEMMA EnsureKeeps ==
  ASSUME ScInv, NEW n \in 0 .. ScSize, Ensure(n)
  PROVE  ScInv'
<1> DEFINE st == IF AboveMem(n) THEN "fill" ELSE "idle"
           r == [sc EXCEPT !.ta = Aligned(sc.mtop), !.newmt = sc.top + n, !.state = st]
           p == [port EXCEPT !.words = n]
<1>1. Operation /\ sc.top + n <= ScBase /\ ScGo(r, p) /\ lines' = lines /\ inMem' = inMem /\ live' = live
  BY Zenon DEF Ensure
<1>2. /\ sc \in ScRegs /\ port \in ScPort /\ lines \in [0 .. ScSize - 1 -> ScAddr \cup {Junk}]
      /\ inMem \subseteq ScAddr /\ live \subseteq ScAddr
      /\ sc.mtop - sc.top \in 0 .. ScSize /\ Held(sc.top, sc.mtop, lines, inMem, live)
      /\ sc.away = Here /\ port.left = 0 /\ ~ port.fault /\ port.bursts = 0
  BY <1>1, AtRest, Zenon
<1>3. sc.top \in 0 .. ScBase /\ sc.mtop \in 0 .. ScBase
  BY <1>2, Zenon DEF ScRegs
<1>4. /\ Aligned(sc.mtop) \in Int /\ Aligned(sc.mtop) <= sc.mtop /\ sc.mtop < Aligned(sc.mtop) + ScBurst
      /\ Aligned(sc.mtop) % ScBurst = 0
  <2>1. sc.mtop \in Int
    BY <1>3
  <2> QED
    BY <2>1, AlignedBelow, Zenon
<1>5. sc.top + n \in 0 .. ScBase /\ n \in Nat
  BY <1>1, <1>3
<1>6. st \in ScStates /\ (st = "fill" <=> AboveMem(n)) /\ st \in {"fill", "idle"}
  BY Zenon DEF ScStates
<1> HIDE DEF st
<1>7. /\ r \in ScRegs /\ r.state = st /\ r.top = sc.top /\ r.mtop = sc.mtop /\ r.ta = Aligned(sc.mtop)
      /\ r.newmt = sc.top + n /\ r.away = Here
  BY <1>2, <1>4, <1>5, <1>6, Zenon DEF ScRegs
<1>8. p \in ScPort /\ p.left = 0 /\ ~ p.fault /\ p.words = n /\ p.bursts = 0
  BY <1>2, <1>5, Zenon DEF ScPort
<1> HIDE DEF r, p
<1>9. ScTypes(r, p, lines, inMem, live) /\ ScAway(r, p)
  BY <1>2, <1>7, <1>8, Zenon DEF ScTypes, ScAway
<1>10. ScIdle(r, p, lines, inMem, live) /\ ScSpilling(r, p, lines, inMem, live)
  BY <1>2, <1>6, <1>7, <1>8, Zenon DEF ScIdle, ScSpilling
<1>11. 0 <= n \div ScBurst + 2
  <2>1. n \div ScBurst \in Nat
    BY <1>5, StackSizes
  <2> QED
    BY <2>1
<1>12. CASE st = "idle"
  BY <1>1, <1>7, <1>8, <1>9, <1>10, <1>11, <1>12, IdleGood, GoKeeps, Zenon
<1>13. CASE st = "fill"
  <2>1. sc.mtop < sc.top + n
    BY <1>2, <1>3, <1>6, <1>13 DEF AboveMem
  <2>2. r.newmt - r.top \in 0 .. ScSize /\ r.mtop \in r.top .. r.newmt
    BY <1>2, <1>3, <1>7, <2>1, StackSizes
  <2>3. \A a \in live : ~ (sc.mtop <= a /\ a < Aligned(sc.mtop))
    BY <1>2, <1>3, <1>4, StackSizes DEF ScAddr
  <2>4. ScFilling(r, p, lines, inMem, live)
    BY <1>2, <1>7, <1>8, <2>2, <2>3, Zenon DEF ScFilling
  <2>5. ScLeft(r, p)
    BY <1>4, <1>7, <1>8, <1>13, Zenon DEF ScLeft
  <2>6. Aligned(sc.mtop) <= sc.top + n /\ ScBurst * 0 < Aligned(sc.mtop) - (sc.top + n) + n + ScBurst
    BY <1>2, <1>3, <1>4, <2>1, StackSizes, SMTT(30)
  <2>7. ScBursts(r, p)
    BY <1>7, <1>8, <1>11, <1>13, <2>6, Zenon DEF ScBursts
  <2> QED
    BY <1>1, <1>9, <1>10, <2>4, <2>5, <2>7, GoKeeps, Zenon DEF ScGood
<1> QED
  BY <1>6, <1>12, <1>13, Zenon

\* sfree keeps the invariant: the words it frees are no longer of the stack.
LEMMA FreeKeeps ==
  ASSUME ScInv, NEW n \in 0 .. ScSize, Free(n)
  PROVE  ScInv'
<1> DEFINE t == sc.top + n
           m == FreedMemTop(n)
           r == [sc EXCEPT !.top = t, !.mtop = m]
<1>1. /\ Operation /\ t <= ScBase /\ ScGo(r, port) /\ live' = {a \in live : a >= t} /\ inMem' = inMem \cap live'
      /\ lines' = [l \in DOMAIN lines |-> IF lines[l] \in live' THEN lines[l] ELSE Junk]
  BY Zenon DEF Free
<1>2. /\ sc \in ScRegs /\ port \in ScPort /\ lines \in [0 .. ScSize - 1 -> ScAddr \cup {Junk}]
      /\ inMem \subseteq ScAddr /\ live \subseteq ScAddr
      /\ sc.mtop - sc.top \in 0 .. ScSize /\ Held(sc.top, sc.mtop, lines, inMem, live)
      /\ sc.state = "idle" /\ sc.away = Here /\ port.left = 0 /\ ~ port.fault /\ port.bursts = 0
  BY <1>1, AtRest, Zenon
<1>3. sc.top \in 0 .. ScBase /\ sc.mtop \in 0 .. ScBase /\ port.words \in Nat
  BY <1>2, Zenon DEF ScRegs, ScPort
<1>4. t \in 0 .. ScBase /\ m \in 0 .. ScBase /\ m - t \in 0 .. ScSize /\ (m = sc.mtop \/ (m = t /\ sc.mtop < t))
  BY <1>1, <1>2, <1>3, StackSizes, SMTT(30) DEF FreedMemTop, AboveMem
<1> HIDE DEF t, m
<1>5. r \in ScRegs /\ r.state = "idle" /\ r.top = t /\ r.mtop = m /\ r.away = Here
  BY <1>2, <1>4, Zenon DEF ScRegs
<1> HIDE DEF r
<1>6. /\ lines' \in [0 .. ScSize - 1 -> ScAddr \cup {Junk}] /\ inMem' \subseteq ScAddr /\ live' \subseteq live
  BY <1>1, <1>2, Zenon
<1>7. ASSUME NEW a \in live' PROVE t <= a /\ (IF a < m THEN lines'[Line(a)] = a ELSE a \in inMem')
  <2>1. a \in live /\ a >= t /\ a \in Int /\ Line(a) \in 0 .. ScSize - 1
    BY <1>1, <1>2, <1>7, LineRange DEF ScAddr
  <2>2. IF a < sc.mtop THEN lines[Line(a)] = a ELSE a \in inMem
    BY <1>2, <2>1, Zenon DEF Held
  <2>3. CASE m = sc.mtop
    <3>1. lines[Line(a)] = a => lines'[Line(a)] = a
      BY <1>1, <1>2, <1>7, <2>1, Zenon
    <3> QED
      BY <1>1, <1>7, <2>1, <2>2, <2>3, <3>1
  <2>4. CASE m = t /\ sc.mtop < t
    <3>1. ~ (a < m) /\ ~ (a < sc.mtop)
      BY <1>3, <1>4, <2>1, <2>4
    <3> QED
      BY <1>1, <1>7, <2>1, <2>2, <3>1
  <2> QED
    BY <1>4, <2>3, <2>4, Zenon
<1>8. Held(t, m, lines', inMem', live')
  BY <1>7, Zenon DEF Held
<1>9. ScTypes(r, port, lines', inMem', live') /\ ScAway(r, port) /\ ScIdle(r, port, lines', inMem', live')
  BY <1>2, <1>4, <1>5, <1>6, <1>8, Zenon DEF ScTypes, ScAway, ScIdle
<1>10. port.bursts <= port.words \div ScBurst + 2
  BY Zenon DEF ScInv, ScGood, ScBursts
<1> QED
  BY <1>1, <1>2, <1>5, <1>9, <1>10, IdleGood, GoKeeps, Zenon

\* sres keeps the invariant: what no longer fits is about to be spilled.
LEMMA ReserveKeeps ==
  ASSUME ScInv, NEW n \in 0 .. ScSize, Reserve(n)
  PROVE  ScInv'
<1> DEFINE t == sc.top - n
           start == Aligned(t + ScSize)
           st == IF sc.mtop - t > ScSize THEN "holdSpill" ELSE "idle"
           r == [sc EXCEPT !.res = TRUE, !.top = t, !.ta = start, !.rdAddr = Line(start), !.state = st]
           p == [port EXCEPT !.words = n]
<1>1. Operation /\ t >= 0 /\ ScGo(r, p) /\ lines' = lines /\ inMem' = inMem /\ live' = live
  BY Zenon DEF Reserve
<1>2. /\ sc \in ScRegs /\ port \in ScPort /\ lines \in [0 .. ScSize - 1 -> ScAddr \cup {Junk}]
      /\ inMem \subseteq ScAddr /\ live \subseteq ScAddr
      /\ sc.mtop - sc.top \in 0 .. ScSize /\ Held(sc.top, sc.mtop, lines, inMem, live)
      /\ sc.away = Here /\ port.left = 0 /\ ~ port.fault /\ port.bursts = 0
  BY <1>1, AtRest, Zenon
<1>3. sc.top \in 0 .. ScBase /\ sc.mtop \in 0 .. ScBase
  BY <1>2, Zenon DEF ScRegs
<1>4. /\ t \in 0 .. ScBase /\ t <= sc.top /\ sc.mtop - t >= 0 /\ sc.mtop <= t + ScSize + n
      /\ n \in Nat /\ t + ScSize \in Int
  <2>1. t >= 0 /\ sc.mtop - sc.top \in 0 .. ScSize
    BY <1>1, <1>2, Zenon
  <2> QED
    BY <1>3, <2>1, StackSizes
<1>5. st \in ScStates /\ (st = "holdSpill" <=> sc.mtop - t > ScSize) /\ st \in {"holdSpill", "idle"}
  BY Zenon DEF ScStates
<1> HIDE DEF t, st
<1>6. /\ start \in Int /\ start <= t + ScSize /\ t + ScSize < start + ScBurst /\ start % ScBurst = 0
      /\ Line(start) \in 0 .. ScSize - 1
  BY <1>4, AlignedBelow, LineRange, Zenon
<1> HIDE DEF start
<1>7. /\ r \in ScRegs /\ r.state = st /\ r.top = t /\ r.mtop = sc.mtop /\ r.ta = start /\ r.res
      /\ r.rdAddr = Line(start) /\ r.away = Here
  BY <1>2, <1>4, <1>5, <1>6, Zenon DEF ScRegs
<1>8. p \in ScPort /\ p.left = 0 /\ ~ p.fault /\ p.words = n /\ p.bursts = 0
  BY <1>2, <1>4, Zenon DEF ScPort
<1> HIDE DEF r, p
<1>9. Held(t, sc.mtop, lines, inMem, live)
  <2> SUFFICES ASSUME NEW a \in live PROVE t <= a /\ (IF a < sc.mtop THEN lines[Line(a)] = a ELSE a \in inMem)
    BY Zenon DEF Held
  <2>1. sc.top <= a /\ (IF a < sc.mtop THEN lines[Line(a)] = a ELSE a \in inMem)
    BY <1>2, Zenon DEF Held
  <2>2. t <= a
    BY <1>2, <1>3, <1>4, <2>1 DEF ScAddr
  <2> QED
    BY <2>1, <2>2, Zenon
<1>10. ScTypes(r, p, lines, inMem, live) /\ ScAway(r, p) /\ ScFilling(r, p, lines, inMem, live)
  BY <1>2, <1>5, <1>7, <1>8, Zenon DEF ScTypes, ScAway, ScFilling
<1>11. 0 <= n \div ScBurst + 2
  <2>1. n \div ScBurst \in Nat
    BY <1>4, StackSizes
  <2> QED
    BY <2>1
<1>12. CASE st = "idle"
  <2>1. sc.mtop - t \in 0 .. ScSize
    BY <1>3, <1>4, <1>5, <1>12, StackSizes
  <2>2. ScIdle(r, p, lines, inMem, live)
    BY <1>7, <1>9, <2>1, Zenon DEF ScIdle
  <2> QED
    BY <1>1, <1>7, <1>8, <1>10, <1>11, <1>12, <2>2, IdleGood, GoKeeps, Zenon
<1>13. CASE st = "holdSpill"
  <2>1. ScLow(r) = t + ScSize
    BY <1>7, Zenon DEF ScLow
  <2>2. t + ScSize < sc.mtop /\ ScLow(r) - r.top \in 0 .. ScSize /\ ScLow(r) <= r.mtop
    BY <1>3, <1>4, <1>5, <1>7, <1>13, <2>1, StackSizes
  <2>3. \A a \in live : ~ (t + ScSize <= a /\ a < start)
    BY <1>2, <1>4, <1>6, StackSizes DEF ScAddr
  <2>4. ScSpilling(r, p, lines, inMem, live)
    BY <1>7, <1>8, <1>9, <2>1, <2>2, <2>3, Zenon DEF ScSpilling
  <2>5. ScLeft(r, p) /\ ScIdle(r, p, lines, inMem, live)
    BY <1>7, <1>8, <1>13, Zenon DEF ScLeft, ScIdle
  <2>6. start < sc.mtop + 1 /\ ScBurst * 0 < start - (t + ScSize) + ScBurst
    BY <1>3, <1>4, <1>6, <2>2, StackSizes
  <2>7. ScBursts(r, p)
    BY <1>4, <1>6, <1>7, <1>8, <1>11, <1>13, <2>1, <2>6, Zenon DEF ScBursts
  <2> QED
    BY <1>1, <1>10, <2>4, <2>5, <2>7, GoKeeps, Zenon DEF ScGood
<1> QED
  BY <1>5, <1>12, <1>13, Zenon

\* sspill keeps the invariant.
LEMMA SpillKeeps ==
  ASSUME ScInv, NEW n \in 0 .. ScSize, Spill(n)
  PROVE  ScInv'
<1> DEFINE low == sc.mtop - n
           start == Aligned(low)
           r == [sc EXCEPT !.res = FALSE, !.ta = start, !.rdAddr = Line(start), !.newmt = low,
                           !.state = "holdSpill"]
           p == [port EXCEPT !.words = n]
<1>1. Operation /\ n <= sc.mtop - sc.top /\ ScGo(r, p) /\ lines' = lines /\ inMem' = inMem /\ live' = live
  BY Zenon DEF Spill
<1>2. /\ sc \in ScRegs /\ port \in ScPort /\ lines \in [0 .. ScSize - 1 -> ScAddr \cup {Junk}]
      /\ inMem \subseteq ScAddr /\ live \subseteq ScAddr
      /\ sc.mtop - sc.top \in 0 .. ScSize /\ Held(sc.top, sc.mtop, lines, inMem, live)
      /\ sc.away = Here /\ port.left = 0 /\ ~ port.fault /\ port.bursts = 0
  BY <1>1, AtRest, Zenon
<1>3. sc.top \in 0 .. ScBase /\ sc.mtop \in 0 .. ScBase
  BY <1>2, Zenon DEF ScRegs
<1>4. /\ low \in 0 .. ScBase /\ low - sc.top \in 0 .. ScSize /\ low <= sc.mtop /\ sc.mtop <= low + n
      /\ n \in Nat /\ low \in Int
  BY <1>1, <1>2, <1>3, StackSizes, SMTT(30)
<1> HIDE DEF low
<1>5. /\ start \in Int /\ start <= low /\ low < start + ScBurst /\ start % ScBurst = 0
      /\ Line(start) \in 0 .. ScSize - 1
  BY <1>4, AlignedBelow, LineRange, Zenon
<1> HIDE DEF start
<1>6. /\ r \in ScRegs /\ r.state = "holdSpill" /\ r.top = sc.top /\ r.mtop = sc.mtop /\ r.ta = start
      /\ r.newmt = low /\ ~ r.res /\ r.rdAddr = Line(start) /\ r.away = Here
  BY <1>2, <1>4, <1>5, Zenon DEF ScRegs, ScStates
<1>7. p \in ScPort /\ p.left = 0 /\ ~ p.fault /\ p.words = n /\ p.bursts = 0
  BY <1>2, <1>4, Zenon DEF ScPort
<1> HIDE DEF r, p
<1>8. /\ ScTypes(r, p, lines, inMem, live) /\ ScAway(r, p) /\ ScFilling(r, p, lines, inMem, live)
      /\ ScLeft(r, p) /\ ScIdle(r, p, lines, inMem, live)
  BY <1>2, <1>6, <1>7, Zenon DEF ScTypes, ScAway, ScFilling, ScLeft, ScIdle
<1>9. ScLow(r) = low
  BY <1>6, Zenon DEF ScLow
<1>10. \A a \in live : ~ (low <= a /\ a < start)
  BY <1>2, <1>4, <1>5, StackSizes DEF ScAddr
<1>11. ScSpilling(r, p, lines, inMem, live)
  BY <1>2, <1>4, <1>6, <1>7, <1>9, <1>10 DEF ScSpilling
<1>12. 0 <= n \div ScBurst + 2
  <2>1. n \div ScBurst \in Nat
    BY <1>4, StackSizes
  <2> QED
    BY <2>1
<1>13. start < sc.mtop + 1 /\ ScBurst * 0 < start - low + ScBurst
  BY <1>3, <1>4, <1>5, StackSizes
<1>14. ScBursts(r, p)
  BY <1>4, <1>5, <1>6, <1>7, <1>9, <1>12, <1>13, Zenon DEF ScBursts
<1> QED
  BY <1>1, <1>8, <1>11, <1>14, GoKeeps, Zenon DEF ScGood

\* A step in which the registers of a transfer and the port stay as they are.
LEMMA RestGood ==
  ASSUME ScInv, sc.state = "idle", port' = port, sc' \in ScRegs, sc'.state = "idle",
         lines' \in [0 .. ScSize - 1 -> ScAddr \cup {Junk}], inMem' \subseteq ScAddr, live' \subseteq ScAddr,
         ~ port.fault, ScIdle(sc', port, lines', inMem', live')
  PROVE  ScInv'
<1>1. port \in ScPort /\ port.left = 0 /\ port.bursts = 0 /\ port.bursts <= port.words \div ScBurst + 2
  BY Zenon DEF ScInv, ScGood, ScTypes, ScLeft, ScBursts
<1>2. ScTypes(sc', port, lines', inMem', live') /\ ScAway(sc', port)
  BY <1>1, Zenon DEF ScTypes, ScAway
<1>3. ScGood(sc', port, lines', inMem', live')
  BY <1>1, <1>2, IdleGood, Zenon
<1> QED
  BY <1>1, <1>3, Zenon DEF ScInv

\* A store to the stack keeps the invariant: its word is below mtop.
LEMMA StackStoreKeeps ==
  ASSUME ScInv, NEW a \in ScAddr, StackStore(a)
  PROVE  ScInv'
<1>1. /\ Operation /\ a \in sc.top .. sc.mtop - 1 /\ lines' = [lines EXCEPT ![Line(a)] = a]
      /\ inMem' = inMem \ {a} /\ live' = live \cup {a} /\ sc' = sc /\ port' = port
  BY Zenon DEF StackStore
<1>2. /\ sc \in ScRegs /\ lines \in [0 .. ScSize - 1 -> ScAddr \cup {Junk}]
      /\ inMem \subseteq ScAddr /\ live \subseteq ScAddr
      /\ sc.mtop - sc.top \in 0 .. ScSize /\ Held(sc.top, sc.mtop, lines, inMem, live)
      /\ sc.state = "idle" /\ sc.away = Here /\ ~ port.fault
  BY <1>1, AtRest, Zenon
<1>3. sc.top \in 0 .. ScBase /\ sc.mtop \in 0 .. ScBase /\ a \in Int /\ a < sc.mtop /\ sc.top <= a
  <2>1. sc.top \in 0 .. ScBase /\ sc.mtop \in 0 .. ScBase /\ a \in sc.top .. sc.mtop - 1
    BY <1>1, <1>2, Zenon DEF ScRegs
  <2> QED
    BY <2>1, StackSizes
<1>4. Line(a) \in 0 .. ScSize - 1
  BY <1>3, LineRange, Zenon
<1>5. /\ lines' \in [0 .. ScSize - 1 -> ScAddr \cup {Junk}] /\ inMem' \subseteq ScAddr /\ live' \subseteq ScAddr
  BY <1>1, <1>2, <1>4, Zenon
<1>6. Held(sc.top, sc.mtop, lines', inMem', live')
  <2> SUFFICES ASSUME NEW b \in live'
               PROVE  sc.top <= b /\ (IF b < sc.mtop THEN lines'[Line(b)] = b ELSE b \in inMem')
    BY Zenon DEF Held
  <2>1. CASE b = a
    BY <1>1, <1>2, <1>3, <1>4, <2>1, Zenon
  <2>2. CASE b # a
    <3>1. b \in live /\ b \in ScAddr
      BY <1>1, <1>2, <2>2, Zenon
    <3>2. b \in Int
      BY <3>1, StackSizes DEF ScAddr
    <3>3. sc.top <= b /\ (IF b < sc.mtop THEN lines[Line(b)] = b ELSE b \in inMem)
      BY <1>2, <3>1, Zenon DEF Held
    <3>4. CASE b < sc.mtop
      <4>1. a - b < ScSize /\ b - a < ScSize
        BY <1>2, <1>3, <3>2, <3>3, <3>4, StackSizes
      <4>2. Line(b) # Line(a) /\ Line(b) \in 0 .. ScSize - 1
        BY <1>3, <2>2, <3>2, <4>1, LineApart, LineRange, Zenon
      <4> QED
        BY <1>1, <1>2, <3>3, <3>4, <4>2, Zenon
    <3>5. CASE ~ (b < sc.mtop)
      BY <1>1, <2>2, <3>3, <3>5, Zenon
    <3> QED
      BY <3>4, <3>5, Zenon
  <2> QED
    BY <2>1, <2>2, Zenon
<1>7. ScIdle(sc, port, lines', inMem', live')
  BY <1>2, <1>6, Zenon DEF ScIdle
<1> QED
  BY <1>1, <1>2, <1>5, <1>7, RestGood, Zenon

\* Here is not an address of the stack.
LEMMA HereIsNoAddress ==
  ASSUME NEW a \in 0 .. ScBase PROVE a # Here /\ a \in -1 .. ScBase
  BY StackSizes DEF Here

\* Leaving the thread keeps the invariant: all its words have been spilled.
LEMMA SwitchAwayKeeps ==
  ASSUME ScInv, SwitchAway
  PROVE  ScInv'
<1> DEFINE r == [sc EXCEPT !.away = sc.top, !.top = 0, !.mtop = 0]
<1>1. /\ Operation /\ sc.top = sc.mtop /\ sc' = r /\ lines' = [l \in DOMAIN lines |-> Junk]
      /\ inMem' = inMem /\ live' = live /\ port' = port
  BY Zenon DEF SwitchAway
<1>2. /\ sc \in ScRegs /\ lines \in [0 .. ScSize - 1 -> ScAddr \cup {Junk}]
      /\ inMem \subseteq ScAddr /\ live \subseteq ScAddr
      /\ Held(sc.top, sc.mtop, lines, inMem, live) /\ sc.state = "idle" /\ ~ port.fault
  BY <1>1, AtRest, Zenon
<1>3. sc.top \in 0 .. ScBase /\ 0 \in 0 .. ScBase
  <2>1. sc.top \in 0 .. ScBase
    BY <1>2, Zenon DEF ScRegs
  <2> QED
    BY <2>1, StackSizes
<1>4. sc.top # Here /\ sc.top \in -1 .. ScBase
  BY <1>3, HereIsNoAddress, Zenon
<1>5. r \in ScRegs /\ r.state = "idle" /\ r.away = sc.top
  BY <1>2, <1>3, <1>4, Zenon DEF ScRegs
<1> HIDE DEF r
<1>6. Held(sc.top, sc.top, lines', inMem, live)
  <2> SUFFICES ASSUME NEW a \in live
               PROVE  sc.top <= a /\ (IF a < sc.top THEN lines'[Line(a)] = a ELSE a \in inMem)
    BY Zenon DEF Held
  <2>1. sc.top <= a /\ (IF a < sc.top THEN lines[Line(a)] = a ELSE a \in inMem)
    BY <1>1, <1>2, Zenon DEF Held
  <2>2. ~ (a < sc.top)
    BY <1>2, <1>3, <2>1, StackSizes DEF ScAddr
  <2> QED
    BY <2>1, <2>2, Zenon
<1>7. ScIdle(r, port, lines', inMem, live)
  BY <1>4, <1>5, <1>6, Zenon DEF ScIdle
<1>8. lines' \in [0 .. ScSize - 1 -> ScAddr \cup {Junk}]
  BY <1>1, <1>2, Zenon
<1> QED
  BY <1>1, <1>2, <1>5, <1>7, <1>8, RestGood, Zenon

\* Coming back to the thread keeps the invariant: the cache begins empty.
LEMMA SetTopKeeps ==
  ASSUME ScInv, SetTop \/ SetMemTop
  PROVE  ScInv'
<1>1. /\ sc \in ScRegs /\ lines \in [0 .. ScSize - 1 -> ScAddr \cup {Junk}]
      /\ inMem \subseteq ScAddr /\ live \subseteq ScAddr /\ sc.away # Here
      /\ Held(sc.away, sc.away, lines, inMem, live) /\ sc.state = "idle" /\ ~ port.fault
  BY Zenon DEF ScInv, ScGood, ScTypes, ScIdle, ScAway, SetTop, SetMemTop
<1>2. sc.away \in 0 .. ScBase /\ Here \in -1 .. ScBase /\ sc.away - sc.away \in 0 .. ScSize
  <2>1. sc.away \in -1 .. ScBase
    BY <1>1, Zenon DEF ScRegs
  <2> QED
    BY <1>1, <2>1, StackSizes DEF Here
<1>3. lines' = lines /\ inMem' = inMem /\ live' = live /\ port' = port
  BY Zenon DEF SetTop, SetMemTop
<1>4. CASE SetTop
  <2> DEFINE r == [sc EXCEPT !.top = sc.away]
  <2>1. sc' = r
    BY <1>4, Zenon DEF SetTop
  <2>2. r \in ScRegs /\ r.state = "idle" /\ r.away = sc.away
    BY <1>1, <1>2, Zenon DEF ScRegs
  <2> HIDE DEF r
  <2>3. ScIdle(r, port, lines, inMem, live)
    BY <1>1, <2>2, Zenon DEF ScIdle
  <2> QED
    BY <1>1, <1>3, <2>1, <2>2, <2>3, RestGood, Zenon
<1>5. CASE SetMemTop
  <2> DEFINE r == [sc EXCEPT !.mtop = sc.away, !.away = Here]
  <2>1. sc' = r /\ sc.top = sc.away
    BY <1>5, Zenon DEF SetMemTop
  <2>2. r \in ScRegs /\ r.state = "idle" /\ r.away = Here /\ r.top = sc.away /\ r.mtop = sc.away
    BY <1>1, <1>2, <2>1, Zenon DEF ScRegs
  <2> HIDE DEF r
  <2>3. ScIdle(r, port, lines, inMem, live)
    BY <1>1, <1>2, <2>2, Zenon DEF ScIdle
  <2> QED
    BY <1>1, <1>3, <2>1, <2>2, <2>3, RestGood, Zenon
<1> QED
  BY <1>4, <1>5, Zenon

\* The thread that starts after an exception begins with an empty stack.
LEMMA RestartKeeps ==
  ASSUME ScInv, Restart
  PROVE  ScInv'
<1> DEFINE r == [sc EXCEPT !.top = ScBase, !.mtop = ScBase]
           p == [port EXCEPT !.fault = FALSE, !.lost = FALSE]
<1>1. /\ sc.state = "idle" /\ port.fault /\ ScGo(r, p) /\ lines' = [l \in DOMAIN lines |-> Junk]
      /\ inMem' = {} /\ live' = {}
  BY Zenon DEF Restart
<1>2. /\ sc \in ScRegs /\ port \in ScPort /\ lines \in [0 .. ScSize - 1 -> ScAddr \cup {Junk}]
      /\ sc.away = Here /\ port.left = 0 /\ port.bursts <= port.words \div ScBurst + 2
  BY <1>1, Zenon DEF ScInv, ScGood, ScTypes, ScAway, ScLeft, ScBursts
<1>3. ScBase \in 0 .. ScBase /\ ScBase - ScBase \in 0 .. ScSize
  BY StackSizes
<1>4. r \in ScRegs /\ r.state = "idle" /\ r.away = Here /\ r.top = ScBase /\ r.mtop = ScBase
  BY <1>1, <1>2, <1>3, Zenon DEF ScRegs
<1>5. p \in ScPort /\ p.left = 0 /\ p.words = port.words /\ p.bursts = port.bursts
  BY <1>2, Zenon DEF ScPort
<1> HIDE DEF r, p
<1>6. lines' \in [0 .. ScSize - 1 -> ScAddr \cup {Junk}]
  BY <1>1, <1>2, Zenon
<1>7. ScTypes(r, p, lines', inMem', live') /\ ScAway(r, p)
  BY <1>1, <1>4, <1>5, <1>6, Zenon DEF ScTypes, ScAway
<1>8. ScIdle(r, p, lines', inMem', live')
  BY <1>1, <1>3, <1>4, Zenon DEF ScIdle, Held
<1> QED
  BY <1>1, <1>2, <1>4, <1>5, <1>7, <1>8, IdleGood, GoKeeps, Zenon
-----------------------------------------------------------------------------
\* What holds while words are spilled.
LEMMA InSpill ==
  ASSUME ScInv, sc.state \in {"holdSpill", "spill", "waitSpill"}
  PROVE  /\ sc \in ScRegs /\ port \in ScPort /\ lines \in [0 .. ScSize - 1 -> ScAddr \cup {Junk}]
         /\ inMem \subseteq ScAddr /\ live \subseteq ScAddr
         /\ sc.top \in 0 .. ScBase /\ sc.mtop \in 0 .. ScBase /\ sc.ta \in Int /\ ScLow(sc) \in 0 .. ScBase
         /\ sc.away = Here /\ ~ port.fault /\ port.left = 0
         /\ ScLow(sc) - sc.top \in 0 .. ScSize /\ ScLow(sc) <= sc.mtop
         /\ Held(sc.top, sc.mtop, lines, inMem, live)
         /\ \A a \in live : ScLow(sc) <= a /\ a < sc.ta => a \in inMem
         /\ sc.rdAddr = Line(sc.ta) \/ (sc.state = "holdSpill" /\ sc.icache = "line")
         /\ port.bursts \in Nat /\ port.words \in Nat
         /\ port.bursts <= port.words \div ScBurst + 2 /\ sc.mtop <= ScLow(sc) + port.words
<1>1. /\ sc \in ScRegs /\ port \in ScPort /\ lines \in [0 .. ScSize - 1 -> ScAddr \cup {Junk}]
      /\ inMem \subseteq ScAddr /\ live \subseteq ScAddr
  BY Zenon DEF ScInv, ScGood, ScTypes
<1>2. /\ sc.top \in 0 .. ScBase /\ sc.mtop \in 0 .. ScBase /\ sc.ta \in Int /\ sc.newmt \in 0 .. ScBase
      /\ port.bursts \in Nat /\ port.words \in Nat
  BY <1>1, Zenon DEF ScRegs, ScPort
<1>3. sc.away = Here /\ port.left = 0 /\ port.bursts <= port.words \div ScBurst + 2 /\ sc.mtop <= ScLow(sc) + port.words
  BY Zenon DEF ScInv, ScGood, ScAway, ScLeft, ScBursts
<1>4. /\ ~ port.fault /\ ScLow(sc) - sc.top \in 0 .. ScSize /\ ScLow(sc) <= sc.mtop
      /\ Held(sc.top, sc.mtop, lines, inMem, live)
      /\ \A a \in live : ScLow(sc) <= a /\ a < sc.ta => a \in inMem
      /\ sc.rdAddr = Line(sc.ta) \/ (sc.state = "holdSpill" /\ sc.icache = "line")
  BY Zenon DEF ScInv, ScGood, ScSpilling
<1>5. ScLow(sc) \in 0 .. ScBase
  <2>1. ScLow(sc) \in Int
    BY <1>2, StackSizes DEF ScLow
  <2> QED
    BY <1>2, <1>4, <2>1, StackSizes
<1> QED
  BY <1>1, <1>2, <1>3, <1>4, <1>5, Zenon

\* The end of a spill does not move.
LEMMA LowSame ==
  ASSUME NEW r, NEW s, r.top = s.top, r.newmt = s.newmt, r.res <=> s.res
  PROVE  ScLow(r) = ScLow(s)
<1>1. CASE r.res
  BY <1>1, Zenon DEF ScLow
<1>2. CASE ~ r.res
  BY <1>2, Zenon DEF ScLow
<1> QED
  BY <1>1, <1>2, Zenon

\* The words of the stack after a word of the write burst.
Sent == IF Slips THEN live \ {sc.ta} ELSE live

\* A word of the write burst: one that is spilled is in the memory, the others stay.
LEMMA WriteWordKeeps ==
  ASSUME ScInv, sc.state \in {"holdSpill", "spill"}, WriteWord
  PROVE  /\ inMem' \subseteq ScAddr /\ Held(sc.top, sc.mtop, lines, inMem', Sent)
         /\ \A a \in Sent : ScLow(sc) <= a /\ a < sc.ta + 1 => a \in inMem'
<1>1. /\ lines \in [0 .. ScSize - 1 -> ScAddr \cup {Junk}] /\ inMem \subseteq ScAddr /\ live \subseteq ScAddr
      /\ sc.top \in 0 .. ScBase /\ sc.mtop \in 0 .. ScBase /\ sc.ta \in Int /\ ScLow(sc) \in 0 .. ScBase
      /\ ScLow(sc) <= sc.mtop /\ Held(sc.top, sc.mtop, lines, inMem, live)
      /\ \A a \in live : ScLow(sc) <= a /\ a < sc.ta => a \in inMem
  BY InSpill, Zenon
<1>2. WriteEnable <=> ScLow(sc) <= sc.ta /\ sc.ta < sc.mtop
  BY Zenon DEF WriteEnable, ScLow
<1>3. WriteEnable => sc.ta \in ScAddr
  BY <1>1, <1>2, StackSizes DEF ScAddr
<1>4. inMem' \subseteq ScAddr
  BY <1>1, <1>3, Zenon DEF WriteWord
<1>5. ASSUME NEW a \in live
      PROVE  /\ sc.top <= a /\ (IF a < sc.mtop THEN lines[Line(a)] = a ELSE a \in inMem)
             /\ a \in Int /\ (ScLow(sc) <= a /\ a < sc.ta => a \in inMem)
  <2>1. a \in ScAddr
    BY <1>1, Zenon
  <2>2. a \in Int
    BY <2>1, StackSizes DEF ScAddr
  <2> QED
    BY <1>1, <2>2, Zenon DEF Held
<1>6. ASSUME NEW a \in Sent, a = sc.ta, WriteEnable PROVE a \in inMem'
  <2>1. sc.rdAddr = Line(sc.ta) /\ a \in live
    BY <1>6, Zenon DEF Sent, Slips
  <2> QED
    BY <1>2, <1>5, <1>6, <2>1, Zenon DEF WriteWord
<1>7. ASSUME NEW a \in live, a # sc.ta \/ ~ WriteEnable, a \in inMem PROVE a \in inMem'
  BY <1>7, Zenon DEF WriteWord
<1>8. ASSUME NEW a \in live, ~ (a < sc.mtop) PROVE a \in inMem'
  <2>1. a # sc.ta \/ ~ WriteEnable
    BY <1>2, <1>8, Zenon
  <2> QED
    BY <1>5, <1>7, <1>8, <2>1, Zenon
<1>0. ASSUME NEW a \in Sent PROVE a \in live
  BY <1>0, Zenon DEF Sent
<1>9. ASSUME NEW a \in Sent, ScLow(sc) <= a, a < sc.ta + 1 PROVE a \in inMem'
  <2>1. CASE a = sc.ta /\ WriteEnable
    BY <1>6, <2>1, Zenon
  <2>2. CASE a = sc.ta /\ ~ WriteEnable
    <3>1. ~ (a < sc.mtop)
      BY <1>2, <1>9, <2>2, Zenon
    <3> QED
      BY <1>0, <1>8, <3>1, Zenon
  <2>3. CASE a # sc.ta
    <3>1. a < sc.ta
      BY <1>0, <1>1, <1>5, <1>9, <2>3
    <3> QED
      BY <1>0, <1>5, <1>7, <1>9, <2>3, <3>1, Zenon
  <2> QED
    BY <2>1, <2>2, <2>3, Zenon
<1>10. Held(sc.top, sc.mtop, lines, inMem', Sent)
  BY <1>0, <1>5, <1>8, Zenon DEF Held
<1> QED
  BY <1>4, <1>9, <1>10, Zenon

\* The registers and the memory after a word of a burst.
LEMMA SpilledGood ==
  ASSUME ScInv, sc.state \in {"holdSpill", "spill"}, WriteWord, NEW st \in {"spill", "waitSpill"},
         NEW r, r = [sc EXCEPT !.state = st, !.ta = sc.ta + 1, !.rdAddr = Line(sc.ta + 1)],
         NEW p \in ScPort, p.left = 0, ~ p.fault, ScBursts(r, p)
  PROVE  ScGood(r, p, lines, inMem', Sent)
<1>1. /\ sc \in ScRegs /\ lines \in [0 .. ScSize - 1 -> ScAddr \cup {Junk}] /\ Sent \subseteq ScAddr
      /\ sc.ta \in Int /\ sc.away = Here
      /\ ScLow(sc) - sc.top \in 0 .. ScSize /\ ScLow(sc) <= sc.mtop
  BY InSpill, Zenon DEF Sent
<1>2. sc.ta + 1 \in Int
  BY <1>1
<1>3. Line(sc.ta + 1) \in 0 .. ScSize - 1
  BY <1>2, LineRange, Zenon
<1>4. /\ r \in ScRegs /\ r.state = st /\ r.top = sc.top /\ r.mtop = sc.mtop /\ r.ta = sc.ta + 1 /\ (r.res <=> sc.res)
      /\ r.newmt = sc.newmt /\ r.rdAddr = Line(sc.ta + 1) /\ r.away = Here
  BY <1>1, <1>2, <1>3, Zenon DEF ScRegs, ScStates
<1>5. ScLow(r) = ScLow(sc)
  BY <1>4, LowSame, Zenon
<1>6. /\ inMem' \subseteq ScAddr /\ Held(sc.top, sc.mtop, lines, inMem', Sent)
      /\ \A a \in Sent : ScLow(sc) <= a /\ a < sc.ta + 1 => a \in inMem'
  BY WriteWordKeeps, Zenon
<1>7. ScTypes(r, p, lines, inMem', Sent) /\ ScAway(r, p) /\ ScIdle(r, p, lines, inMem', Sent)
  BY <1>1, <1>4, <1>6, Zenon DEF ScTypes, ScAway, ScIdle
<1>8. ScFilling(r, p, lines, inMem', Sent) /\ ScLeft(r, p)
  BY <1>4, Zenon DEF ScFilling, ScLeft
<1>9. ScSpilling(r, p, lines, inMem', Sent)
  BY <1>1, <1>4, <1>5, <1>6, Zenon DEF ScSpilling
<1> QED
  BY <1>7, <1>8, <1>9, Zenon DEF ScGood

\* A stalled start keeps the invariant.
LEMMA StallAcceptKeeps ==
  ASSUME ScInv, StallAccept
  PROVE  ScInv'
<1>1. /\ sc.state = "holdSpill" /\ sc.icache = "line" /\ sc' = [sc EXCEPT !.rdAddr = Line(sc.ta + 1)]
      /\ lines' = lines /\ inMem' = inMem /\ live' = live /\ port' = port
  BY Zenon DEF StallAccept
<1>2. sc \in ScRegs /\ sc.ta \in Int
  BY <1>1, InSpill, Zenon
<1>3. Line(sc.ta + 1) \in 0 .. ScSize - 1
  <2>1. sc.ta + 1 \in Int
    BY <1>2
  <2> QED
    BY <2>1, LineRange, Zenon
<1>4. /\ sc' \in ScRegs /\ sc'.state = "holdSpill" /\ sc'.top = sc.top /\ sc'.mtop = sc.mtop /\ sc'.ta = sc.ta
      /\ (sc'.res <=> sc.res) /\ sc'.newmt = sc.newmt /\ sc'.away = sc.away /\ sc'.icache = "line"
  BY <1>1, <1>2, <1>3, Zenon DEF ScRegs
<1>5. ScLow(sc') = ScLow(sc)
  BY <1>4, LowSame, Zenon
<1>6. ScTypes(sc', port, lines, inMem, live) /\ ScAway(sc', port) /\ ScIdle(sc', port, lines, inMem, live)
  BY <1>1, <1>4, Zenon DEF ScInv, ScGood, ScTypes, ScAway, ScIdle
<1>7. ScFilling(sc', port, lines, inMem, live) /\ ScLeft(sc', port)
  BY <1>1, <1>4, Zenon DEF ScInv, ScGood, ScFilling, ScLeft
<1>8. ScSpilling(sc', port, lines, inMem, live)
  BY <1>1, <1>4, <1>5, Zenon DEF ScInv, ScGood, ScSpilling
<1>9. ScBursts(sc', port)
  BY <1>1, <1>4, <1>5, Zenon DEF ScInv, ScGood, ScBursts
<1>10. ScGood(sc', port, lines, inMem, live)
  BY <1>6, <1>7, <1>8, <1>9, Zenon DEF ScGood
<1> QED
  BY <1>1, <1>4, <1>10, Zenon DEF ScInv

\* The start of a burst of a spill keeps the invariant.
LEMMA HoldSpillKeeps ==
  ASSUME ScInv, HoldSpill
  PROVE  ScInv'
<1> DEFINE r == [sc EXCEPT !.state = "spill", !.ta = sc.ta + 1, !.rdAddr = Line(sc.ta + 1)]
           p == [port EXCEPT !.bursts = @ + 1, !.lost = @ \/ Slips]
<1>1. sc.state = "holdSpill" /\ ScGo(r, p) /\ WriteWord /\ lines' = lines /\ live' = Sent
  BY Zenon DEF HoldSpill, Sent
<1>2. /\ sc \in ScRegs /\ port \in ScPort /\ sc.mtop \in 0 .. ScBase /\ sc.ta \in Int /\ ScLow(sc) \in 0 .. ScBase
      /\ ~ port.fault /\ port.left = 0 /\ port.bursts \in Nat /\ port.words \in Nat
      /\ sc.mtop <= ScLow(sc) + port.words
  BY <1>1, InSpill, Zenon
<1>3. /\ sc.ta % ScBurst = 0 /\ sc.ta < sc.mtop + (IF port.bursts = 0 THEN 1 ELSE 0)
      /\ ScBurst * port.bursts < sc.ta - ScLow(sc) + ScBurst
  BY <1>1, Zenon DEF ScInv, ScGood, ScBursts
<1>4. port.bursts + 1 \in Nat
  BY <1>2
<1>5. p \in ScPort /\ p.left = 0 /\ ~ p.fault /\ p.words = port.words /\ p.bursts = port.bursts + 1
  BY <1>2, <1>4, Zenon DEF ScPort
<1>6. r.state = "spill" /\ r.mtop = sc.mtop /\ r.ta = sc.ta + 1 /\ ScLow(r) = ScLow(sc)
  <2>1. /\ r.state = "spill" /\ r.mtop = sc.mtop /\ r.ta = sc.ta + 1 /\ r.top = sc.top /\ r.newmt = sc.newmt
        /\ (r.res <=> sc.res)
    BY <1>2, Zenon DEF ScRegs
  <2> QED
    BY <2>1, LowSame, Zenon
<1> HIDE DEF p
<1>7. port.bursts + 1 <= port.words \div ScBurst + 2
  <2>1. CASE port.bursts = 0
    <3>1. port.words \div ScBurst \in Nat
      BY <1>2, StackSizes
    <3> QED
      BY <2>1, <3>1
  <2>2. CASE port.bursts # 0
    <3>1. ScBurst * port.bursts \in Int
      BY <1>2, StackSizes
    <3> DEFINE k == ScBurst * port.bursts
    <3>2. k \in Int /\ k < sc.ta - ScLow(sc) + ScBurst
      BY <1>3, <3>1, Zenon
    <3> HIDE DEF k
    <3>3. sc.ta < sc.mtop + 0
      BY <1>3, <2>2, Zenon
    <3>4. k < port.words + ScBurst
      BY <1>2, <3>2, <3>3, StackSizes
    <3>5. port.bursts <= port.words \div ScBurst + 1
      BY <1>2, <3>4, BurstCount, Zenon DEF k
    <3>6. port.words \div ScBurst \in Int
      BY <1>2, StackSizes
    <3> QED
      BY <1>2, <3>5, <3>6
  <2> QED
    BY <2>1, <2>2, Zenon
<1>8. (sc.ta + 1) % ScBurst = 1
  <2>1. 0 # ScBurst - 1 /\ 0 + 1 = 1
    BY StackSizes
  <2> QED
    BY <1>2, <1>3, <2>1, BurstStep, Zenon
<1>9. ScBurst * (port.bursts + 1) < (sc.ta + 1) - 1 - ScLow(sc) + 2 * ScBurst
  <2>1. ScBurst * (port.bursts + 1) = ScBurst * port.bursts + ScBurst /\ ScBurst * port.bursts \in Int
    BY <1>2, StackSizes
  <2> QED
    BY <1>2, <1>3, <2>1, StackSizes
<1>10. ScBursts(r, p)
  <2> HIDE DEF r
  <2> QED
    BY <1>2, <1>5, <1>6, <1>7, <1>8, <1>9, Zenon DEF ScBursts
<1>11. ScGood(r, p, lines, inMem', Sent)
  BY <1>1, <1>5, <1>10, SpilledGood, Zenon
<1> QED
  BY <1>1, <1>11, GoKeeps, Zenon

\* A word written to the memory keeps the invariant.
LEMMA SpillWordKeeps ==
  ASSUME ScInv, SpillWord
  PROVE  ScInv'
<1> DEFINE st == IF LastOfBurst THEN "waitSpill" ELSE "spill"
           r == [sc EXCEPT !.state = st, !.ta = sc.ta + 1, !.rdAddr = Line(sc.ta + 1)]
<1>1. sc.state = "spill" /\ ScGo(r, port) /\ WriteWord /\ lines' = lines /\ live' = live
  BY Zenon DEF SpillWord
<1>2. /\ sc \in ScRegs /\ port \in ScPort /\ sc.ta \in Int /\ ScLow(sc) \in 0 .. ScBase
      /\ ~ port.fault /\ port.left = 0 /\ port.bursts \in Nat /\ port.words \in Nat
      /\ port.bursts <= port.words \div ScBurst + 2 /\ sc.mtop <= ScLow(sc) + port.words
  BY <1>1, InSpill, Zenon
<1>3. ScBurst * port.bursts < sc.ta - (sc.ta % ScBurst) - ScLow(sc) + 2 * ScBurst
  BY <1>1, Zenon DEF ScInv, ScGood, ScBursts
<1>4. st \in {"spill", "waitSpill"} /\ (st = "waitSpill" <=> sc.ta % ScBurst = ScBurst - 1)
  BY Zenon DEF LastOfBurst
<1> HIDE DEF st
<1>5. r.state = st /\ r.mtop = sc.mtop /\ r.ta = sc.ta + 1 /\ ScLow(r) = ScLow(sc)
  <2>1. /\ r.state = st /\ r.mtop = sc.mtop /\ r.ta = sc.ta + 1 /\ r.top = sc.top /\ r.newmt = sc.newmt
        /\ (r.res <=> sc.res)
    BY <1>2, Zenon DEF ScRegs
  <2> QED
    BY <2>1, LowSame, Zenon
<1>6. /\ sc.ta % ScBurst \in 0 .. ScBurst - 1
      /\ (sc.ta + 1) % ScBurst = IF sc.ta % ScBurst = ScBurst - 1 THEN 0 ELSE (sc.ta % ScBurst) + 1
  BY <1>2, BurstStep, Zenon
<1>7. ScBursts(r, port)
  <2> DEFINE k == ScBurst * port.bursts  m == sc.ta % ScBurst
  <2>1. k \in Int
    BY <1>2, StackSizes
  <2>2. m \in 0 .. ScBurst - 1 /\ k < sc.ta - m - ScLow(sc) + 2 * ScBurst
    BY <1>3, <1>6, Zenon
  <2> HIDE DEF k, m, r
  <2>3. CASE st = "waitSpill"
    <3>1. m = ScBurst - 1 /\ (sc.ta + 1) % ScBurst = 0
      BY <1>4, <1>6, <2>3, Zenon DEF m
    <3>2. k < (sc.ta + 1) - ScLow(sc) + ScBurst
      BY <1>2, <2>1, <2>2, <3>1, StackSizes
    <3> QED
      BY <1>2, <1>5, <2>3, <3>1, <3>2, Zenon DEF ScBursts, k
  <2>4. CASE st = "spill"
    <3>1. (sc.ta + 1) % ScBurst = m + 1
      BY <1>4, <1>6, <2>4, Zenon DEF m
    <3>2. k < (sc.ta + 1) - (m + 1) - ScLow(sc) + 2 * ScBurst
      BY <1>2, <2>1, <2>2, StackSizes
    <3> QED
      BY <1>2, <1>5, <2>4, <3>1, <3>2, Zenon DEF ScBursts, k
  <2> QED
    BY <1>4, <2>3, <2>4, Zenon
<1>8. ScGood(r, port, lines, inMem', Sent)
  BY <1>1, <1>2, <1>4, <1>7, SpilledGood, Zenon
<1>9. Sent = live
  BY <1>1, InSpill, Zenon DEF Sent, Slips
<1> QED
  BY <1>1, <1>8, <1>9, GoKeeps, Zenon

\* With the last response memTop comes down to the words that stay; all above are written.
LEMMA WaitSpillKeeps ==
  ASSUME ScInv, NEW resp \in {"NULL", "DVA", "ERR"}, WaitSpill(resp)
  PROVE  ScInv'
<1> DEFINE done == sc.mtop <= sc.ta
           m == IF ~ done THEN sc.mtop ELSE IF sc.res THEN sc.top + ScSize ELSE sc.newmt
           st == CASE resp = "NULL" -> "waitSpill"
                   [] resp = "DVA" -> IF done THEN "idle" ELSE "holdSpill"
                   [] resp = "ERR" -> "idle"
           r == [sc EXCEPT !.mtop = m, !.state = st]
           p == [port EXCEPT !.fault = @ \/ resp = "ERR"]
<1>1. sc.state = "waitSpill" /\ ScGo(r, p) /\ lines' = lines /\ inMem' = inMem /\ live' = live
  BY Zenon DEF WaitSpill
<1>2. /\ sc \in ScRegs /\ port \in ScPort /\ lines \in [0 .. ScSize - 1 -> ScAddr \cup {Junk}]
      /\ inMem \subseteq ScAddr /\ live \subseteq ScAddr
      /\ sc.top \in 0 .. ScBase /\ sc.mtop \in 0 .. ScBase /\ sc.ta \in Int /\ ScLow(sc) \in 0 .. ScBase
      /\ sc.away = Here /\ ~ port.fault /\ port.left = 0
      /\ ScLow(sc) - sc.top \in 0 .. ScSize /\ ScLow(sc) <= sc.mtop
      /\ Held(sc.top, sc.mtop, lines, inMem, live)
      /\ \A a \in live : ScLow(sc) <= a /\ a < sc.ta => a \in inMem
      /\ sc.rdAddr = Line(sc.ta) /\ port.words \in Nat
      /\ port.bursts <= port.words \div ScBurst + 2 /\ sc.mtop <= ScLow(sc) + port.words
  BY <1>1, InSpill, Zenon
<1>3. ScBurst * port.bursts < sc.ta - ScLow(sc) + ScBurst /\ sc.ta % ScBurst = 0
  BY <1>1, Zenon DEF ScInv, ScGood, ScBursts
<1>4. (~ done /\ m = sc.mtop) \/ (done /\ m = ScLow(sc))
  BY Zenon DEF ScLow
<1>5. /\ st \in {"waitSpill", "idle", "holdSpill"} /\ st \in ScStates
      /\ (st = "holdSpill" => ~ done) /\ (st = "idle" /\ resp # "ERR" => done)
  BY Zenon DEF ScStates
<1> HIDE DEF m, st
<1>6. m \in 0 .. ScBase /\ ScLow(sc) <= m /\ m <= sc.mtop /\ m <= ScLow(sc) + port.words
  BY <1>2, <1>4
<1>7. /\ r \in ScRegs /\ r.state = st /\ r.mtop = m /\ r.top = sc.top /\ r.ta = sc.ta /\ r.newmt = sc.newmt
      /\ (r.res <=> sc.res) /\ r.rdAddr = sc.rdAddr /\ r.away = Here
  BY <1>2, <1>5, <1>6, Zenon DEF ScRegs
<1>8. /\ p \in ScPort /\ p.left = 0 /\ (p.fault <=> resp = "ERR") /\ p.words = port.words
      /\ p.bursts = port.bursts
  BY <1>2, Zenon DEF ScPort
<1>9. ScLow(r) = ScLow(sc)
  BY <1>7, LowSame, Zenon
<1> HIDE DEF r, p
<1>10. Held(sc.top, m, lines, inMem, live)
  <2> SUFFICES ASSUME NEW a \in live
               PROVE  sc.top <= a /\ (IF a < m THEN lines[Line(a)] = a ELSE a \in inMem)
    BY Zenon DEF Held
  <2>1. /\ sc.top <= a /\ (IF a < sc.mtop THEN lines[Line(a)] = a ELSE a \in inMem)
        /\ (ScLow(sc) <= a /\ a < sc.ta => a \in inMem) /\ a \in ScAddr
    BY <1>2, Zenon DEF Held
  <2>2. a \in Int
    BY <2>1, StackSizes DEF ScAddr
  <2>3. CASE a < m
    <3>1. a < sc.mtop
      BY <1>2, <1>6, <2>2, <2>3
    <3> QED
      BY <2>1, <2>3, <3>1, Zenon
  <2>4. CASE ~ (a < m)
    <3>1. ~ (a < sc.mtop) \/ (ScLow(sc) <= a /\ a < sc.ta)
      BY <1>2, <1>4, <2>2, <2>4
    <3> QED
      BY <2>1, <2>4, <3>1, Zenon
  <2> QED
    BY <2>3, <2>4, Zenon
<1>11. ScTypes(r, p, lines, inMem, live) /\ ScAway(r, p) /\ ScFilling(r, p, lines, inMem, live) /\ ScLeft(r, p)
  BY <1>2, <1>5, <1>7, <1>8, Zenon DEF ScTypes, ScAway, ScFilling, ScLeft
<1>12. ScIdle(r, p, lines, inMem, live)
  <2> SUFFICES ASSUME st = "idle", resp # "ERR" PROVE m - sc.top \in 0 .. ScSize /\ Held(sc.top, m, lines, inMem, live)
    BY <1>7, <1>8, Zenon DEF ScIdle
  <2>1. m = ScLow(sc)
    BY <1>4, <1>5, Zenon
  <2> QED
    BY <1>2, <1>10, <2>1, Zenon
<1>13. CASE resp = "ERR"
  <2>1. st = "idle"
    BY <1>13, Zenon DEF st
  <2> QED
    BY <1>1, <1>2, <1>7, <1>8, <1>11, <1>12, <2>1, IdleGood, GoKeeps, Zenon
<1>14. CASE resp # "ERR"
  <2>1. ScSpilling(r, p, lines, inMem, live)
    BY <1>2, <1>6, <1>7, <1>8, <1>9, <1>10, <1>14, Zenon DEF ScSpilling
  <2>2. st = "holdSpill" => sc.ta < m + (IF port.bursts = 0 THEN 1 ELSE 0)
    BY <1>2, <1>4, <1>5
  <2>3. ScBursts(r, p)
    BY <1>2, <1>3, <1>5, <1>6, <1>7, <1>8, <1>9, <2>2, Zenon DEF ScBursts
  <2> QED
    BY <1>1, <1>11, <1>12, <2>1, <2>3, GoKeeps, Zenon DEF ScGood
<1> QED
  BY <1>13, <1>14, Zenon
-----------------------------------------------------------------------------
\* What holds while words are filled.
LEMMA InFill ==
  ASSUME ScInv, sc.state \in {"fill", "waitFill"}
  PROVE  /\ sc \in ScRegs /\ port \in ScPort /\ lines \in [0 .. ScSize - 1 -> ScAddr \cup {Junk}]
         /\ inMem \subseteq ScAddr /\ live \subseteq ScAddr
         /\ sc.top \in 0 .. ScBase /\ sc.mtop \in 0 .. ScBase /\ sc.ta \in Int /\ sc.newmt \in 0 .. ScBase
         /\ sc.away = Here /\ ~ port.fault /\ port.left \in Int /\ port.bursts \in Nat /\ port.words \in Nat
         /\ sc.newmt - sc.top \in 0 .. ScSize /\ sc.mtop \in sc.top .. sc.newmt
         /\ Held(sc.top, sc.mtop, lines, inMem, live)
         /\ \A a \in live : sc.mtop <= a /\ a < sc.ta /\ a < sc.newmt => lines[Line(a)] = a
         /\ port.bursts <= port.words \div ScBurst + 2
<1>1. /\ sc \in ScRegs /\ port \in ScPort /\ lines \in [0 .. ScSize - 1 -> ScAddr \cup {Junk}]
      /\ inMem \subseteq ScAddr /\ live \subseteq ScAddr
  BY Zenon DEF ScInv, ScGood, ScTypes
<1>2. /\ sc.top \in 0 .. ScBase /\ sc.mtop \in 0 .. ScBase /\ sc.ta \in Int /\ sc.newmt \in 0 .. ScBase
      /\ port.left \in Int /\ port.bursts \in Nat /\ port.words \in Nat
  BY <1>1, Zenon DEF ScRegs, ScPort
<1>3. sc.away = Here /\ port.bursts <= port.words \div ScBurst + 2
  BY Zenon DEF ScInv, ScGood, ScAway, ScBursts
<1>4. /\ ~ port.fault /\ sc.newmt - sc.top \in 0 .. ScSize /\ sc.mtop \in sc.top .. sc.newmt
      /\ Held(sc.top, sc.mtop, lines, inMem, live)
      /\ \A a \in live : sc.mtop <= a /\ a < sc.ta /\ a < sc.newmt => lines[Line(a)] = a
  BY Zenon DEF ScInv, ScGood, ScFilling
<1> QED
  BY <1>1, <1>2, <1>3, <1>4, Zenon

\* The request of a burst of a fill keeps the invariant.
LEMMA FillKeeps ==
  ASSUME ScInv, Fill
  PROVE  ScInv'
<1> DEFINE r == [sc EXCEPT !.state = "waitFill"]
<1>1. PICK err \in BOOLEAN : ScGo(r, [port EXCEPT !.bursts = @ + 1, !.left = ScBurst, !.err = err])
  BY Zenon DEF Fill
<1> DEFINE p == [port EXCEPT !.bursts = @ + 1, !.left = ScBurst, !.err = err]
<1>2. sc.state = "fill" /\ ScGo(r, p) /\ lines' = lines /\ inMem' = inMem /\ live' = live
  BY <1>1, Zenon DEF Fill
<1>3. /\ sc \in ScRegs /\ port \in ScPort /\ lines \in [0 .. ScSize - 1 -> ScAddr \cup {Junk}]
      /\ inMem \subseteq ScAddr /\ live \subseteq ScAddr
      /\ sc.ta \in Int /\ sc.newmt \in 0 .. ScBase
      /\ sc.away = Here /\ ~ port.fault /\ port.bursts \in Nat /\ port.words \in Nat
      /\ sc.newmt - sc.top \in 0 .. ScSize /\ sc.mtop \in sc.top .. sc.newmt
      /\ Held(sc.top, sc.mtop, lines, inMem, live)
      /\ \A a \in live : sc.mtop <= a /\ a < sc.ta /\ a < sc.newmt => lines[Line(a)] = a
  BY <1>2, InFill, Zenon
<1>4. /\ sc.ta % ScBurst = 0 /\ sc.ta <= sc.newmt
      /\ ScBurst * port.bursts < sc.ta - sc.newmt + port.words + ScBurst
  BY <1>2, Zenon DEF ScInv, ScGood, ScLeft, ScBursts
<1>5. port.bursts + 1 \in Nat /\ ScBurst \in Int /\ ScBurst - 0 = ScBurst
  BY <1>3, StackSizes
<1>6. /\ r \in ScRegs /\ r.state = "waitFill" /\ r.top = sc.top /\ r.mtop = sc.mtop /\ r.ta = sc.ta
      /\ r.newmt = sc.newmt /\ r.away = Here
  BY <1>3, Zenon DEF ScRegs, ScStates
<1>7. /\ p \in ScPort /\ p.left = ScBurst /\ ~ p.fault /\ p.words = port.words
      /\ p.bursts = port.bursts + 1
  BY <1>3, <1>5, Zenon DEF ScPort
<1> HIDE DEF r, p
<1>8. ScTypes(r, p, lines, inMem, live) /\ ScAway(r, p) /\ ScIdle(r, p, lines, inMem, live)
  BY <1>3, <1>6, <1>7, Zenon DEF ScTypes, ScAway, ScIdle
<1>9. ScSpilling(r, p, lines, inMem, live) /\ ScFilling(r, p, lines, inMem, live)
  BY <1>3, <1>6, <1>7, Zenon DEF ScSpilling, ScFilling
<1>10. ScLeft(r, p)
  BY <1>4, <1>5, <1>6, <1>7, Zenon DEF ScLeft
<1>11. /\ port.bursts + 1 <= port.words \div ScBurst + 2
       /\ ScBurst * (port.bursts + 1) < sc.ta - 0 - sc.newmt + port.words + 2 * ScBurst
  <2> DEFINE k == ScBurst * port.bursts
  <2>1. k \in Int /\ ScBurst * (port.bursts + 1) = k + ScBurst
    BY <1>3, StackSizes
  <2>2. k < sc.ta - sc.newmt + port.words + ScBurst
    BY <1>4, Zenon
  <2> HIDE DEF k
  <2>3. sc.ta \in Int /\ sc.newmt \in 0 .. ScBase /\ port.words \in Nat /\ port.bursts \in Nat /\ sc.ta <= sc.newmt
    BY <1>3, <1>4, Zenon
  <2>4. k < port.words + ScBurst
    BY <2>1, <2>2, <2>3, StackSizes
  <2>5. port.bursts <= port.words \div ScBurst + 1
    BY <2>3, <2>4, BurstCount, Zenon DEF k
  <2>6. port.words \div ScBurst \in Int
    BY <2>3, StackSizes
  <2>7. port.bursts + 1 <= port.words \div ScBurst + 2
    BY <2>3, <2>5, <2>6
  <2>8. k + ScBurst < sc.ta - 0 - sc.newmt + port.words + 2 * ScBurst
    BY <2>1, <2>2, <2>3, StackSizes
  <2> QED
    BY <2>1, <2>7, <2>8, Zenon
<1>12. ScBursts(r, p)
  BY <1>4, <1>6, <1>7, <1>11, Zenon DEF ScBursts
<1> QED
  BY <1>2, <1>8, <1>9, <1>10, <1>12, GoKeeps, Zenon DEF ScGood

\* A word that arrives from the memory keeps the invariant: its line holds no other word
\* of the stack.
LEMMA FillWordKeeps ==
  ASSUME ScInv, FillWord
  PROVE  ScInv'
<1> DEFINE m == IF FillingDone THEN sc.newmt ELSE sc.mtop
           st == IF ~ LastOfBurst THEN sc.state ELSE IF FillingDone THEN "idle" ELSE "fill"
           r == [sc EXCEPT !.ta = sc.ta + 1, !.mtop = m, !.state = st]
           p == [port EXCEPT !.left = @ - 1]
           word == IF sc.ta \in inMem THEN sc.ta ELSE Junk
<1>1. /\ sc.state = "waitFill" /\ ~ port.err /\ ScGo(r, p) /\ inMem' = inMem /\ live' = live
      /\ lines' = IF FillingDone \/ sc.mtop > sc.ta THEN lines ELSE [lines EXCEPT ![Line(sc.ta)] = word]
  BY Zenon DEF FillWord
<1>2. /\ sc \in ScRegs /\ port \in ScPort /\ lines \in [0 .. ScSize - 1 -> ScAddr \cup {Junk}]
      /\ inMem \subseteq ScAddr /\ live \subseteq ScAddr
      /\ sc.top \in 0 .. ScBase /\ sc.mtop \in 0 .. ScBase /\ sc.ta \in Int /\ sc.newmt \in 0 .. ScBase
      /\ sc.away = Here /\ ~ port.fault /\ port.left \in Int /\ port.bursts \in Nat /\ port.words \in Nat
      /\ sc.newmt - sc.top \in 0 .. ScSize /\ sc.mtop \in sc.top .. sc.newmt
      /\ Held(sc.top, sc.mtop, lines, inMem, live)
      /\ \A a \in live : sc.mtop <= a /\ a < sc.ta /\ a < sc.newmt => lines[Line(a)] = a
      /\ port.bursts <= port.words \div ScBurst + 2
  BY <1>1, InFill, Zenon
<1>3. /\ port.left = ScBurst - (sc.ta % ScBurst)
      /\ ScBurst * port.bursts < sc.ta - (sc.ta % ScBurst) - sc.newmt + port.words + 2 * ScBurst
  BY <1>1, Zenon DEF ScInv, ScGood, ScLeft, ScBursts
<1>4. /\ sc.ta % ScBurst \in 0 .. ScBurst - 1
      /\ (sc.ta + 1) % ScBurst = IF sc.ta % ScBurst = ScBurst - 1 THEN 0 ELSE (sc.ta % ScBurst) + 1
  BY <1>2, BurstStep, Zenon
<1>5. /\ st \in {"waitFill", "idle", "fill"} /\ st \in ScStates /\ (st = "waitFill" <=> sc.ta % ScBurst # ScBurst - 1)
      /\ (st = "idle" => FillingDone) /\ (st = "fill" => ~ FillingDone)
  BY <1>1, Zenon DEF LastOfBurst, ScStates
<1>6. (FillingDone /\ m = sc.newmt /\ sc.newmt <= sc.ta) \/ (~ FillingDone /\ m = sc.mtop /\ ~ (sc.newmt <= sc.ta))
  BY Zenon DEF FillingDone
<1>7. m \in 0 .. ScBase /\ m \in sc.top .. sc.newmt /\ sc.ta + 1 \in Int /\ port.left - 1 \in Int
  BY <1>2, <1>6
<1> HIDE DEF m, st
<1>8. /\ r \in ScRegs /\ r.state = st /\ r.top = sc.top /\ r.mtop = m /\ r.ta = sc.ta + 1
      /\ r.newmt = sc.newmt /\ r.away = Here
  BY <1>2, <1>5, <1>7, Zenon DEF ScRegs
<1>9. /\ p \in ScPort /\ p.left = port.left - 1 /\ ~ p.fault /\ ~ p.err /\ p.words = port.words
      /\ p.bursts = port.bursts
  BY <1>1, <1>2, <1>7, Zenon DEF ScPort
<1> HIDE DEF r, p
<1>10. ASSUME NEW a \in live
       PROVE  /\ a \in Int /\ Line(a) \in 0 .. ScSize - 1 /\ sc.top <= a
              /\ (IF a < sc.mtop THEN lines[Line(a)] = a ELSE a \in inMem)
              /\ (sc.mtop <= a /\ a < sc.ta /\ a < sc.newmt => lines[Line(a)] = a)
  <2>1. a \in ScAddr
    BY <1>2, Zenon
  <2>2. a \in Int
    BY <2>1, StackSizes DEF ScAddr
  <2> QED
    BY <1>2, <2>2, LineRange, Zenon DEF Held
<1>11. ASSUME NEW a \in live, a < sc.ta + 1, a < sc.newmt PROVE lines'[Line(a)] = a
  <2> USE StackSizes
  <2>1. sc.top \in 0 .. ScBase /\ sc.mtop \in 0 .. ScBase /\ sc.ta \in Int /\ sc.newmt \in 0 .. ScBase
        /\ sc.newmt - sc.top \in 0 .. ScSize /\ sc.mtop \in sc.top .. sc.newmt
    BY <1>2, Zenon
  <2>2. a \in Int /\ sc.top <= a
    BY <1>10, <1>11, Zenon
  <2>3. CASE FillingDone \/ sc.mtop > sc.ta
    <3>1. a < sc.mtop \/ (sc.mtop <= a /\ a < sc.ta)
      BY <1>11, <2>1, <2>2, <2>3 DEF FillingDone
    <3> QED
      BY <1>1, <1>10, <1>11, <2>3, <3>1, Zenon
  <2>4. CASE ~ (FillingDone \/ sc.mtop > sc.ta) /\ a = sc.ta
    <3>1. ~ (a < sc.mtop)
      BY <2>1, <2>2, <2>4
    <3> QED
      BY <1>1, <1>2, <1>10, <1>11, <2>4, <3>1, Zenon
  <2>5. CASE ~ (FillingDone \/ sc.mtop > sc.ta) /\ a # sc.ta
    <3>1. ~ (sc.newmt <= sc.ta) /\ ~ (sc.mtop > sc.ta) /\ a < sc.ta + 1
      BY <1>11, <2>5, Zenon DEF FillingDone
    <3>2. (a < sc.mtop \/ (sc.mtop <= a /\ a < sc.ta)) /\ a - sc.ta < ScSize /\ sc.ta - a < ScSize
      BY <2>1, <2>2, <2>5, <3>1
    <3>3. Line(a) # Line(sc.ta)
      BY <2>1, <2>2, <2>5, <3>2, LineApart, Zenon
    <3> QED
      BY <1>1, <1>2, <1>10, <1>11, <2>5, <3>2, <3>3, Zenon
  <2> QED
    BY <2>3, <2>4, <2>5, Zenon
<1>12. ASSUME NEW a \in live PROVE sc.top <= a /\ (IF a < m THEN lines'[Line(a)] = a ELSE a \in inMem)
  <2>1. sc.mtop \in 0 .. ScBase /\ sc.ta \in Int /\ sc.newmt \in 0 .. ScBase /\ sc.mtop \in sc.top .. sc.newmt
    BY <1>2, Zenon
  <2>2. a \in Int /\ sc.top <= a
    BY <1>10, <1>12, Zenon
  <2>3. CASE a < m
    <3>1. (a < sc.ta + 1 /\ a < sc.newmt) \/ (a < sc.mtop /\ sc.mtop > sc.ta)
      BY <1>6, <2>1, <2>2, <2>3
    <3>2. CASE a < sc.mtop /\ sc.mtop > sc.ta
      BY <1>1, <1>10, <1>12, <2>3, <3>2, Zenon
    <3> QED
      BY <1>11, <1>12, <2>2, <2>3, <3>1, <3>2, Zenon
  <2>4. CASE ~ (a < m)
    <3>1. ~ (a < sc.mtop)
      BY <1>6, <2>1, <2>2, <2>4
    <3> QED
      BY <1>10, <1>12, <2>4, <3>1, Zenon
  <2> QED
    BY <2>3, <2>4, Zenon
<1>13. lines' \in [0 .. ScSize - 1 -> ScAddr \cup {Junk}] /\ Held(sc.top, m, lines', inMem, live)
  <2>1. word \in ScAddr \cup {Junk}
    BY <1>2, Zenon
  <2> HIDE DEF word
  <2> QED
    BY <1>1, <1>2, <1>12, <2>1, Zenon DEF Held
<1>14. ScTypes(r, p, lines', inMem, live) /\ ScAway(r, p) /\ ScSpilling(r, p, lines', inMem, live)
  BY <1>2, <1>5, <1>8, <1>9, <1>13, Zenon DEF ScTypes, ScAway, ScSpilling
<1>15. ScFilling(r, p, lines', inMem, live)
  BY <1>2, <1>7, <1>8, <1>9, <1>11, <1>13, Zenon DEF ScFilling
<1>16. ScIdle(r, p, lines', inMem, live)
  <2> SUFFICES ASSUME st = "idle" PROVE m - sc.top \in 0 .. ScSize
    BY <1>8, <1>13, Zenon DEF ScIdle
  <2> QED
    BY <1>2, <1>5, <1>6, Zenon
<1>17. ScLeft(r, p)
  <2>1. CASE st = "waitFill"
    <3>1. port.left - 1 = ScBurst - ((sc.ta + 1) % ScBurst)
      BY <1>2, <1>3, <1>4, <1>5, <2>1, StackSizes
    <3> QED
      BY <1>8, <1>9, <2>1, <3>1, Zenon DEF ScLeft
  <2>2. CASE st # "waitFill"
    <3>1. port.left - 1 = 0 /\ (sc.ta + 1) % ScBurst = 0
      BY <1>2, <1>3, <1>4, <1>5, <2>2, StackSizes
    <3> QED
      BY <1>5, <1>8, <1>9, <2>2, <3>1, Zenon DEF ScLeft
  <2> QED
    BY <2>1, <2>2, Zenon
<1>18. ScBursts(r, p)
  <2> DEFINE k == ScBurst * port.bursts  q == sc.ta % ScBurst
  <2>1. k \in Int
    BY <1>2, StackSizes
  <2>2. /\ q \in 0 .. ScBurst - 1 /\ k < sc.ta - q - sc.newmt + port.words + 2 * ScBurst
        /\ sc.ta \in Int /\ sc.newmt \in 0 .. ScBase /\ port.words \in Nat
        /\ port.bursts <= port.words \div ScBurst + 2
    BY <1>2, <1>3, <1>4, Zenon
  <2> HIDE DEF k, q
  <2>3. CASE st = "waitFill"
    <3>1. (sc.ta + 1) % ScBurst = q + 1
      BY <1>4, <1>5, <2>3, Zenon DEF q
    <3>2. k < (sc.ta + 1) - (q + 1) - sc.newmt + port.words + 2 * ScBurst
      BY <2>1, <2>2, StackSizes
    <3> QED
      BY <1>8, <1>9, <2>2, <2>3, <3>1, <3>2, Zenon DEF ScBursts, k
  <2>4. CASE st = "fill"
    <3>1. q = ScBurst - 1 /\ ~ (sc.newmt <= sc.ta)
      BY <1>5, <1>6, <2>4, Zenon DEF q
    <3>2. sc.ta + 1 <= sc.newmt /\ k < (sc.ta + 1) - sc.newmt + port.words + ScBurst
      BY <2>1, <2>2, <3>1, StackSizes
    <3> QED
      BY <1>8, <1>9, <2>2, <2>4, <3>2, Zenon DEF ScBursts, k
  <2>5. CASE st = "idle"
    BY <1>8, <1>9, <2>2, <2>5, Zenon DEF ScBursts
  <2> QED
    BY <1>5, <2>3, <2>4, <2>5, Zenon
<1> QED
  BY <1>1, <1>14, <1>15, <1>16, <1>17, <1>18, GoKeeps, Zenon DEF ScGood

\* The responses of a burst that fails are all waited for.
LEMMA FillErrorKeeps ==
  ASSUME ScInv, FillError
  PROVE  ScInv'
<1> DEFINE st == ErrorState
           r == [sc EXCEPT !.ta = sc.ta + 1, !.state = st]
           p == [port EXCEPT !.left = @ - 1, !.fault = TRUE]
<1>1. /\ sc.state \in {"waitFill", "error"} /\ port.err /\ ScGo(r, p)
      /\ lines' = lines /\ inMem' = inMem /\ live' = live
  BY Zenon DEF FillError
<1>2. /\ sc \in ScRegs /\ port \in ScPort /\ lines \in [0 .. ScSize - 1 -> ScAddr \cup {Junk}]
      /\ inMem \subseteq ScAddr /\ live \subseteq ScAddr
  BY Zenon DEF ScInv, ScGood, ScTypes
<1>3. /\ sc.away = Here /\ port.left = ScBurst - (sc.ta % ScBurst)
      /\ (sc.state = "waitFill" => sc.ta % ScBurst = 0) /\ port.bursts <= port.words \div ScBurst + 2
  BY <1>1, Zenon DEF ScInv, ScGood, ScAway, ScLeft, ScBursts
<1>4. sc.ta \in Int /\ port.left \in Int
  BY <1>2, Zenon DEF ScRegs, ScPort
<1>5. /\ sc.ta % ScBurst \in 0 .. ScBurst - 1
      /\ (sc.ta + 1) % ScBurst = IF sc.ta % ScBurst = ScBurst - 1 THEN 0 ELSE (sc.ta % ScBurst) + 1
  BY <1>4, BurstStep, Zenon
<1>6. sc.ta + 1 \in Int /\ port.left - 1 \in Int /\ 0 # ScBurst - 1
  BY <1>4, StackSizes
<1>7. st \in {"idle", "error"} /\ (st = "idle" <=> sc.ta % ScBurst = ScBurst - 1)
  BY <1>1, <1>3, <1>6, Zenon DEF ErrorState, LastOfBurst
<1> HIDE DEF st
<1>8. r \in ScRegs /\ r.state = st /\ r.ta = sc.ta + 1 /\ r.away = Here
  BY <1>2, <1>3, <1>6, <1>7, Zenon DEF ScRegs, ScStates
<1>9. p \in ScPort /\ p.left = port.left - 1 /\ p.fault /\ p.err /\ p.words = port.words /\ p.bursts = port.bursts
  BY <1>1, <1>2, <1>6, Zenon DEF ScPort
<1> HIDE DEF r, p
<1>10. /\ ScTypes(r, p, lines, inMem, live) /\ ScAway(r, p) /\ ScIdle(r, p, lines, inMem, live)
       /\ ScSpilling(r, p, lines, inMem, live) /\ ScFilling(r, p, lines, inMem, live)
  BY <1>2, <1>7, <1>8, <1>9, Zenon DEF ScTypes, ScAway, ScIdle, ScSpilling, ScFilling
<1>11. port.left - 1 = IF st = "error" THEN ScBurst - ((sc.ta + 1) % ScBurst) ELSE 0
  BY <1>3, <1>4, <1>5, <1>7, StackSizes
<1>12. ScLeft(r, p)
  BY <1>7, <1>8, <1>9, <1>11, Zenon DEF ScLeft
<1>13. ScBursts(r, p)
  BY <1>3, <1>7, <1>8, <1>9, Zenon DEF ScBursts
<1> QED
  BY <1>1, <1>10, <1>12, <1>13, GoKeeps, Zenon DEF ScGood
-----------------------------------------------------------------------------
LEMMA ScInitGood == ScInit => ScInv
<1> SUFFICES ASSUME ScInit PROVE ScInv
  OBVIOUS
<1>1. /\ 0 \in 0 .. ScBase /\ ScBase \in 0 .. ScBase /\ ScBase - ScBase \in 0 .. ScSize
      /\ 0 \in 0 .. ScSize - 1 /\ Here \in -1 .. ScBase /\ 0 <= 0 \div ScBurst + 2
      /\ 0 \in Int /\ 0 \in Nat
  <2>1. 0 \div ScBurst \in Nat
    BY StackSizes
  <2> QED
    BY <2>1, StackSizes DEF Here
<1>2. /\ sc \in ScRegs /\ sc.state = "idle" /\ sc.top = ScBase /\ sc.mtop = ScBase /\ sc.away = Here
  <2>1. PICK type \in {"method", "line"} :
          sc = [state |-> "idle", top |-> ScBase, mtop |-> ScBase, ta |-> 0, newmt |-> 0,
                res |-> FALSE, rdAddr |-> 0, away |-> Here, icache |-> type]
    BY Zenon DEF ScInit
  <2> QED
    BY <1>1, <2>1, Zenon DEF ScRegs, ScStates
<1>3. port \in ScPort /\ port.left = 0 /\ port.words = 0 /\ port.bursts = 0 /\ ~ port.fault
  BY <1>1, Zenon DEF ScInit, ScPort
<1>4. /\ lines \in [0 .. ScSize - 1 -> ScAddr \cup {Junk}] /\ inMem = {} /\ live = {}
  BY Zenon DEF ScInit
<1>5. ScTypes(sc, port, lines, inMem, live) /\ ScAway(sc, port) /\ ScIdle(sc, port, lines, inMem, live)
  BY <1>1, <1>2, <1>3, <1>4, Zenon DEF ScTypes, ScAway, ScIdle, Held
<1> QED
  BY <1>1, <1>2, <1>3, <1>5, IdleGood, Zenon DEF ScInv

LEMMA ScStepGood == ScInv /\ [ScNext]_scvars => ScInv'
<1> SUFFICES ASSUME ScInv, [ScNext]_scvars PROVE ScInv'
  OBVIOUS
<1>1. ASSUME NEW n \in 0 .. ScSize, Ensure(n) \/ Free(n) \/ Reserve(n) \/ Spill(n) PROVE ScInv'
  BY <1>1, EnsureKeeps, FreeKeeps, ReserveKeeps, SpillKeeps, Zenon
<1>2. ASSUME NEW a \in ScAddr, StackStore(a) PROVE ScInv'
  BY <1>2, StackStoreKeeps, Zenon
<1>3. CASE SwitchAway \/ SetTop \/ SetMemTop \/ Restart
  BY <1>3, SwitchAwayKeeps, SetTopKeeps, RestartKeeps, Zenon
<1>4. CASE StallAccept \/ HoldSpill \/ SpillWord
  BY <1>4, StallAcceptKeeps, HoldSpillKeeps, SpillWordKeeps, Zenon
<1>5. ASSUME NEW resp \in {"NULL", "DVA", "ERR"}, WaitSpill(resp) PROVE ScInv'
  BY <1>5, WaitSpillKeeps, Zenon
<1>6. CASE Fill \/ FillWord \/ FillError
  BY <1>6, FillKeeps, FillWordKeeps, FillErrorKeeps, Zenon
<1>7. CASE UNCHANGED scvars
  BY <1>7, Zenon DEF scvars, ScInv, ScGood
<1> QED
  BY <1>1, <1>2, <1>3, <1>4, <1>5, <1>6, <1>7, Zenon DEF ScNext

LEMMA ScInvariant == ScSpec => []ScInv
  BY ScInitGood, ScStepGood, PTL DEF ScSpec

\* A word is lost only with a line cache.
ScLost == port.lost => sc.icache = "line"

\* No operation changes the build, and only the start of a burst loses a word.
LEMMA ScLostStep == ScInv /\ ScLost /\ [ScNext]_scvars => ScLost'
<1> SUFFICES ASSUME ScInv, ScLost, [ScNext]_scvars PROVE ScLost'
  OBVIOUS
<1>0. sc \in ScRegs /\ port \in ScPort
  BY Zenon DEF ScInv, ScGood, ScTypes
<1>1. ASSUME NEW n \in 0 .. ScSize, Ensure(n) \/ Free(n) \/ Reserve(n) \/ Spill(n) PROVE ScLost'
  BY <1>0, <1>1 DEF Ensure, Free, Reserve, Spill, ScGo, ScLost, ScRegs, ScPort
<1>2. ASSUME NEW a \in ScAddr, StackStore(a) PROVE ScLost'
  BY <1>2, Zenon DEF StackStore, ScLost
<1>3. CASE SwitchAway \/ SetTop \/ SetMemTop \/ Restart
  BY <1>0, <1>3 DEF SwitchAway, SetTop, SetMemTop, Restart, ScGo, ScLost, ScRegs, ScPort
<1>4. CASE StallAccept \/ SpillWord
  BY <1>0, <1>4 DEF StallAccept, SpillWord, ScGo, ScLost, ScRegs, ScPort
<1>5. CASE HoldSpill
  <2>1. sc'.icache = sc.icache /\ (port'.lost => port.lost \/ Slips)
    BY <1>0, <1>5 DEF HoldSpill, ScGo, ScRegs, ScPort
  <2>2. Slips => sc.icache = "line"
    BY <1>5, InSpill, Zenon DEF HoldSpill, Slips
  <2> QED
    BY <2>1, <2>2, Zenon DEF ScLost
<1>6. ASSUME NEW resp \in {"NULL", "DVA", "ERR"}, WaitSpill(resp) PROVE ScLost'
  BY <1>0, <1>6 DEF WaitSpill, ScGo, ScLost, ScRegs, ScPort
<1>7. CASE Fill \/ FillWord \/ FillError
  BY <1>0, <1>7 DEF Fill, FillWord, FillError, ScGo, ScLost, ScRegs, ScPort
<1>8. CASE UNCHANGED scvars
  BY <1>8, Zenon DEF scvars, ScLost
<1> QED
  BY <1>1, <1>2, <1>3, <1>4, <1>5, <1>6, <1>7, <1>8, Zenon DEF ScNext

LEMMA ScLostInvariant == ScSpec => []ScLost
<1>1. ScInit => ScLost
  BY DEF ScInit, ScLost
<1> QED
  BY <1>1, ScLostStep, ScInvariant, PTL DEF ScSpec

\* The registers of the stack cache keep their ranges, and between two operations the words
\* from stackTop to memTop fit into the cache.
THEOREM StackTypeCorrect == ScSpec => []ScTypeOK
<1>1. ScInv => ScTypeOK
  <2> SUFFICES ASSUME ScInv PROVE ScTypeOK
    OBVIOUS
  <2>1. sc \in ScRegs /\ lines \in [0 .. ScSize - 1 -> ScAddr \cup {Junk}]
    BY Zenon DEF ScInv, ScGood, ScTypes
  <2>2. /\ sc.state \in ScStates /\ sc.top \in 0 .. ScBase /\ sc.mtop \in 0 .. ScBase /\ sc.newmt \in 0 .. ScBase
        /\ sc.rdAddr \in DOMAIN lines
    BY <2>1, Zenon DEF ScRegs
  <2>3. \A a \in 0 .. ScBase : a \in 0 .. ScBase + ScSize
    BY StackSizes
  <2>4. Operation => sc.mtop - sc.top \in 0 .. ScSize
    BY AtRest, Zenon
  <2> QED
    BY <2>1, <2>2, <2>3, <2>4, Zenon DEF ScTypeOK, ScStates
<1> QED
  BY <1>1, ScInvariant, PTL

\* For every size of the cache, the bursts and the stack: no word of the stack is lost by
\* spills and fills of parts of bursts, by context switches or by frees, but for the first
\* word of a spill in a build with a line cache, and no response is left over, after errors
\* as well.
THEOREM StackIsKept == ScSpec => []StackKept
<1>1. ScInv /\ ScLost => StackKept
  <2> SUFFICES ASSUME ScInv, ScLost, sc.state = "idle"
               PROVE  /\ port.left = 0 /\ (sc.icache = "method" => ~ port.lost)
                      /\ ~ port.fault =>
                           \A a \in live : IF sc.away = Here /\ a < sc.mtop THEN lines[Line(a)] = a ELSE a \in inMem
    BY Zenon DEF StackKept
  <2>1. port.left = 0 /\ (sc.icache = "method" => ~ port.lost)
    BY Zenon DEF ScInv, ScGood, ScLeft, ScLost
  <2>2. ASSUME ~ port.fault, sc.away = Here, NEW a \in live
        PROVE  IF a < sc.mtop THEN lines[Line(a)] = a ELSE a \in inMem
    BY <2>2, Zenon DEF ScInv, ScGood, ScIdle, Held
  <2>3. ASSUME ~ port.fault, sc.away # Here, NEW a \in live PROVE a \in inMem
    <3>1. sc.away <= a /\ (IF a < sc.away THEN lines[Line(a)] = a ELSE a \in inMem)
      BY <2>3, Zenon DEF ScInv, ScGood, ScIdle, Held
    <3>2. sc.away \in -1 .. ScBase /\ a \in ScAddr
      BY Zenon DEF ScInv, ScGood, ScTypes, ScRegs
    <3>3. ~ (a < sc.away)
      BY <3>1, <3>2, StackSizes DEF ScAddr
    <3> QED
      BY <3>1, <3>3, Zenon
  <2> QED
    BY <2>1, <2>2, <2>3, Zenon
<1> QED
  BY <1>1, ScInvariant, ScLostInvariant, PTL

\* An operation on n words never takes more than n / BURST_LENGTH + 2 bursts.
THEOREM StackBursts == ScSpec => []BurstsBounded
<1>1. ScInv => BurstsBounded
  BY Zenon DEF ScInv, ScGood, ScBursts, BurstsBounded
<1> QED
  BY <1>1, ScInvariant, PTL
==============================================================================
