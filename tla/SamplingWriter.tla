--------------------------- MODULE SamplingWriter ----------------------------
(***************************************************************************)
(* The sampling port of c/libmp/sampling.c, for each of its five           *)
(* implementations, samples of any size and any number of writes: the      *)
(* invariant, and the steps of mp_write.                                   *)
(*                                                                         *)
(* What the implementations have in common is stated and proved once, over *)
(* the positions of their steps; where the samples are is stated for each  *)
(* of them.                                                                *)
(***************************************************************************)
EXTENDS Sampling, TLAPS

Single == "SINGLE_NOC"
Double == "DOUBLE_NOC"
DoubleWr == "DOUBLE_NOC_WR"
Triple == "TRIPLE_NOC"
Multi == "MULTI_NOC_NONBLOCKING"
Implementation == {Single, Double, DoubleWr, Triple, Multi}

\* The positions of the steps in mp_write and mp_read of implementation I, 0 where it
\* does not have the step.
Of(I, s, d, w, t, m) ==
  CASE I = Single -> s [] I = Double -> d [] I = DoubleWr -> w [] I = Triple -> t [] I = Multi -> m

LastW(I) == Of(I, 4, 7, 7, 8, 5)
LockW(I) == Of(I, 1, 3, 1, 3, 0)
UnlockW(I) == Of(I, 4, 6, 7, 7, 0)
ChooseW(I) == Of(I, 0, 0, 2, 0, 1)
SendW(I) == Of(I, 2, 1, 3, 1, 2)
PublishW(I) == Of(I, 0, 4, 5, 4, 4)
LookW(I) == Of(I, 0, 0, 0, 6, 0)
AdvanceW(I) == Of(I, 0, 7, 0, 8, 0)

LastR(I) == Of(I, 3, 4, 6, 6, 6)
LockR(I) == Of(I, 1, 1, 1, 1, 0)
UnlockR(I) == Of(I, 3, 4, 5, 5, 0)
FetchR(I) == Of(I, 0, 2, 2, 2, 1)
StepR(I) == Of(I, 0, 0, 0, 0, 2)
AnnounceR(I) == Of(I, 0, 0, 3, 3, 3)
FollowR(I) == Of(I, 0, 0, 0, 0, 5)
CopyR(I) == Of(I, 2, 3, 6, 6, 6)

\* The step of mp_write whose DMA makes a sample the latest: the one of the sample, or
\* the one of its index where mp_read looks for the newest.
CommitW(I) == Of(I, 2, 4, 5, 4, 2)

\* At these positions the lock is held.
LockedW(I, k) == k \in LockW(I) + 1 .. UnlockW(I)
LockedR(I, k) == k \in LockR(I) + 1 .. UnlockR(I)

\* The step of mp_read after which newest_seen is the buffer it will copy.
BindR(I) == Of(I, 1, 2, 2, 2, 5)
-----------------------------------------------------------------------------
\* The DMA entries of writer and reader are done.
Sent == smp_dma["source"] = SmpIdle
Told == smp_dma["sink"] = SmpIdle

\* A buffer of these contents holds sample k.
Holds(contents, k) == \A w \in SampleWord : contents[w] = k

\* It holds one sample, at least as new as lo and no newer than hi.
Valid(contents, lo, hi) == Holds(contents, contents[1]) /\ lo <= contents[1] /\ contents[1] <= hi

\* The sample that is being written cannot be found by mp_read yet.
Pending(I) == wpc \in 1 .. CommitW(I) \/ (wpc = CommitW(I) + 1 /\ ~ Sent)

\* The latest sample that mp_read can find.
Latest(I) == IF Pending(I) THEN begun - 1 ELSE begun

Types(I) ==
  /\ smp_dma \in [End -> Transfer \cup {SmpIdle}]
  /\ client \in [End -> {"idle", "waiting", "holding"}]
  /\ wpc \in 0 .. LastW(I) + 1 /\ rpc \in 0 .. LastR(I) + 1
  /\ next \in Memory /\ newest \in Memory /\ newest_seen \in Memory
  /\ reading \in Memory /\ reading_seen \in Memory /\ next_reading \in 0 .. 2
  /\ bufs \in [Memory -> [SampleWord -> Nat]] /\ sample \in [SampleWord -> Nat] /\ copied \in 0 .. SampleWords
  /\ begun \in Nat /\ returned \in Nat /\ floor \in Nat

\* mp_write holds the lock from "lock" to "unlock".  Its DMA is busy only until the
\* "wait" that follows: with words of the sample, into the buffer next, or with next.
\* Once it is sent, the sample is in that buffer until its index is delivered.
WriterInv(I) ==
  /\ returned = IF wpc = 0 THEN begun ELSE begun - 1
  /\ client["source"] = "holding" <=> LockedW(I, wpc)
  /\ client["source"] = "waiting" => wpc = LockW(I) /\ wpc # 0
  /\ ~ Sent =>
       \/ /\ wpc = SendW(I) + 1
          /\ smp_dma["source"] \in [what : {"sample"}, to : {next}, next : SampleWord]
          /\ \A w \in SampleWord : w < smp_dma["source"].next => bufs[next][w] = begun
       \/ /\ PublishW(I) # 0 /\ wpc = PublishW(I) + 1
          /\ smp_dma["source"] = [what |-> "newest"]
  /\ \/ wpc = SendW(I) + 1 /\ Sent
     \/ wpc \in SendW(I) + 2 .. PublishW(I)
     \/ PublishW(I) # 0 /\ wpc = PublishW(I) + 1
     => Holds(bufs[next], begun)

\* mp_read holds the lock from "lock" to "unlock"; while it copies the buffer
\* newest_seen, and from the moment it has decided to, that buffer holds one sample, and
\* what it has copied is that sample.
ReaderInv(I) ==
  /\ client["sink"] = "holding" <=> LockedR(I, rpc)
  /\ client["sink"] = "waiting" => rpc = LockR(I) /\ rpc # 0
  /\ ~ Told => AnnounceR(I) # 0 /\ rpc = AnnounceR(I) + 1 /\ smp_dma["sink"] = [what |-> "reading"]
  /\ rpc \in 1 .. CopyR(I) - 1 => copied = 0
  /\ rpc = CopyR(I) => copied < SampleWords
  /\ floor <= Latest(I)
  /\ rpc \in BindR(I) + 1 .. CopyR(I) =>
       /\ Valid(bufs[newest_seen], floor, Latest(I))
       /\ \A w \in 1 .. copied : sample[w] = bufs[newest_seen][1]
  /\ rpc > CopyR(I) =>
       /\ floor <= sample[1] /\ sample[1] <= Latest(I)
       /\ \A w \in SampleWord : sample[w] = sample[1]

\* Not both hold the lock.
Exclusion(I) == ~ (LockedW(I, wpc) /\ LockedR(I, rpc))
-----------------------------------------------------------------------------
\* One buffer: it holds the latest sample, except while the next one is being sent.
PlaceSingle ==
  /\ next = 0 /\ newest_seen = 0
  /\ ~ (wpc = 3 /\ ~ Sent) => Holds(bufs[0], Latest(Single))

\* Two buffers: the latest sample is in newest, the writer uses the other one.
PlaceDouble ==
  /\ next \in 0 .. 1 /\ newest \in -1 .. 1
  /\ Holds(bufs[newest], Latest(Double))
  /\ wpc \in 6 .. 7 \/ (wpc = 5 /\ Sent) => newest = next
  /\ wpc \in {8, 0, 1, 2, 3, 4} \/ (wpc = 5 /\ ~ Sent) => newest # next
  /\ rpc \in 3 .. 4 => newest_seen = newest

\* Two buffers, the writer uses the one that is not being read: it may overwrite the
\* latest sample, but then holds the lock until the next one is published.
PlaceDoubleWr ==
  /\ next \in -2 .. 1 /\ newest \in -2 .. 1 /\ reading \in -2 .. 1
  /\ wpc \in 3 .. 7 => next = Flip(reading)
  /\ ~ (wpc \in 4 .. 5 \/ (wpc = 6 /\ ~ Sent)) => Holds(bufs[newest], Latest(DoubleWr))
  /\ rpc \in 3 .. 5 => newest_seen = newest
  /\ rpc \in 5 .. 6 \/ (rpc = 4 /\ Told) => newest_seen = reading

\* Three buffers: the writer uses one that is neither the newest nor being read.
PlaceTriple ==
  /\ next \in 0 .. 2 /\ newest \in -1 .. 2 /\ reading \in -1 .. 2 /\ reading_seen \in -1 .. 2
  /\ Holds(bufs[newest], Latest(Triple))
  /\ wpc \in 6 .. 8 \/ (wpc = 5 /\ Sent) => newest = next
  /\ wpc = 7 => reading = reading_seen
  /\ wpc = 8 => reading \in {reading_seen, newest}
  /\ wpc \in {9, 0, 1, 2, 3, 4} \/ (wpc = 5 /\ ~ Sent) => next # newest /\ next # reading
  /\ rpc \in 3 .. 5 => newest_seen = newest
  /\ rpc \in 5 .. 6 \/ (rpc = 4 /\ Told) => newest_seen = reading

\* Three buffers and no lock: the reader turns to the next buffer, tells the writer, and
\* reads the previous one when the writer has followed.
PlaceMulti ==
  /\ next \in 0 .. 2 /\ newest \in -1 .. 2 /\ reading \in 0 .. 2
  /\ rpc \in {6, 7, 0, 1, 2} =>
       reading = next_reading /\ next = next_reading /\ newest \in {next_reading, -1}
  /\ rpc = 2 => newest_seen = next_reading /\ newest = next_reading
  /\ rpc \in 3 .. 5 => newest_seen \in 0 .. 2 /\ next_reading = Following(newest_seen)
  /\ rpc = 3 \/ (rpc = 4 /\ ~ Told) =>
       reading = newest_seen /\ next = newest_seen /\ newest = newest_seen
  /\ rpc = 5 \/ (rpc = 4 /\ Told) =>
       /\ reading = next_reading
       /\ next \in {newest_seen, next_reading} /\ newest \in {newest_seen, next_reading}
       /\ newest = next_reading => next = next_reading
  /\ rpc = 6 => newest = next_reading /\ newest_seen # next_reading
  /\ ~ (wpc = 3 /\ ~ Sent) /\ (wpc # 2 \/ newest = next) => Holds(bufs[next], Latest(Multi))
  /\ rpc \in 4 .. 6 /\ next # newest_seen => Valid(bufs[newest_seen], floor, Latest(Multi))

Place(I) ==
  /\ I = Single => PlaceSingle
  /\ I = Double => PlaceDouble
  /\ I = DoubleWr => PlaceDoubleWr
  /\ I = Triple => PlaceTriple
  /\ I = Multi => PlaceMulti

InvOf(I) == IMPL = I /\ Types(I) /\ WriterInv(I) /\ ReaderInv(I) /\ Exclusion(I) /\ Place(I)

\* The inductive invariant.
SmpInv == \E I \in Implementation : InvOf(I)
-----------------------------------------------------------------------------
\* The positions, row by row.
WriteRow(I) ==
  \/ /\ I = Single
     /\ LastW(I) = 4 /\ LockW(I) = 1 /\ UnlockW(I) = 4 /\ ChooseW(I) = 0 /\ SendW(I) = 2
     /\ PublishW(I) = 0 /\ LookW(I) = 0 /\ AdvanceW(I) = 0 /\ CommitW(I) = 2
  \/ /\ I = Double
     /\ LastW(I) = 7 /\ LockW(I) = 3 /\ UnlockW(I) = 6 /\ ChooseW(I) = 0 /\ SendW(I) = 1
     /\ PublishW(I) = 4 /\ LookW(I) = 0 /\ AdvanceW(I) = 7 /\ CommitW(I) = 4
  \/ /\ I = DoubleWr
     /\ LastW(I) = 7 /\ LockW(I) = 1 /\ UnlockW(I) = 7 /\ ChooseW(I) = 2 /\ SendW(I) = 3
     /\ PublishW(I) = 5 /\ LookW(I) = 0 /\ AdvanceW(I) = 0 /\ CommitW(I) = 5
  \/ /\ I = Triple
     /\ LastW(I) = 8 /\ LockW(I) = 3 /\ UnlockW(I) = 7 /\ ChooseW(I) = 0 /\ SendW(I) = 1
     /\ PublishW(I) = 4 /\ LookW(I) = 6 /\ AdvanceW(I) = 8 /\ CommitW(I) = 4
  \/ /\ I = Multi
     /\ LastW(I) = 5 /\ LockW(I) = 0 /\ UnlockW(I) = 0 /\ ChooseW(I) = 1 /\ SendW(I) = 2
     /\ PublishW(I) = 4 /\ LookW(I) = 0 /\ AdvanceW(I) = 0 /\ CommitW(I) = 2

ReadRow(I) ==
  \/ /\ I = Single
     /\ LastR(I) = 3 /\ LockR(I) = 1 /\ UnlockR(I) = 3 /\ FetchR(I) = 0 /\ StepR(I) = 0
     /\ AnnounceR(I) = 0 /\ FollowR(I) = 0 /\ CopyR(I) = 2 /\ BindR(I) = 1
  \/ /\ I = Double
     /\ LastR(I) = 4 /\ LockR(I) = 1 /\ UnlockR(I) = 4 /\ FetchR(I) = 2 /\ StepR(I) = 0
     /\ AnnounceR(I) = 0 /\ FollowR(I) = 0 /\ CopyR(I) = 3 /\ BindR(I) = 2
  \/ /\ I = DoubleWr
     /\ LastR(I) = 6 /\ LockR(I) = 1 /\ UnlockR(I) = 5 /\ FetchR(I) = 2 /\ StepR(I) = 0
     /\ AnnounceR(I) = 3 /\ FollowR(I) = 0 /\ CopyR(I) = 6 /\ BindR(I) = 2
  \/ /\ I = Triple
     /\ LastR(I) = 6 /\ LockR(I) = 1 /\ UnlockR(I) = 5 /\ FetchR(I) = 2 /\ StepR(I) = 0
     /\ AnnounceR(I) = 3 /\ FollowR(I) = 0 /\ CopyR(I) = 6 /\ BindR(I) = 2
  \/ /\ I = Multi
     /\ LastR(I) = 6 /\ LockR(I) = 0 /\ UnlockR(I) = 0 /\ FetchR(I) = 1 /\ StepR(I) = 2
     /\ AnnounceR(I) = 3 /\ FollowR(I) = 5 /\ CopyR(I) = 6 /\ BindR(I) = 5

LEMMA Rows == \A I \in Implementation : WriteRow(I) /\ ReadRow(I)
<1> USE DEF WriteRow, ReadRow, Of, LastW, LockW, UnlockW, ChooseW, SendW, PublishW, LookW, AdvanceW, CommitW,
            LastR, LockR, UnlockR, FetchR, StepR, AnnounceR, FollowR, CopyR, BindR,
            Single, Double, DoubleWr, Triple, Multi
<1>1. WriteRow(Single) /\ ReadRow(Single)
  OBVIOUS
<1>2. WriteRow(Double) /\ ReadRow(Double)
  OBVIOUS
<1>3. WriteRow(DoubleWr) /\ ReadRow(DoubleWr)
  OBVIOUS
<1>4. WriteRow(Triple) /\ ReadRow(Triple)
  OBVIOUS
<1>5. WriteRow(Multi) /\ ReadRow(Multi)
  OBVIOUS
<1> HIDE DEF WriteRow, ReadRow, Single, Double, DoubleWr, Triple, Multi
<1> QED
  BY <1>1, <1>2, <1>3, <1>4, <1>5, Zenon DEF Implementation

\* Where a step of mp_write, of mp_read is, given its name.
WriteAt(I, k, step) ==
  /\ step = "lock" => k = LockW(I)
  /\ step = "unlock" => k = UnlockW(I)
  /\ step = "choose" => k = ChooseW(I)
  /\ step = "send" => k = SendW(I)
  /\ step = "publish" => k = PublishW(I)
  /\ step = "wait" => k = SendW(I) + 1 \/ (PublishW(I) # 0 /\ k = PublishW(I) + 1)
  /\ step = "look" => k = LookW(I)
  /\ step = "advance" => k = AdvanceW(I)

ReadAt(I, k, step) ==
  /\ step = "lock" => k = LockR(I)
  /\ step = "unlock" => k = UnlockR(I)
  /\ step = "fetch" => k = FetchR(I)
  /\ step = "step" => k = StepR(I)
  /\ step = "announce" => k = AnnounceR(I)
  /\ step = "wait" => AnnounceR(I) # 0 /\ k = AnnounceR(I) + 1
  /\ step = "follow" => k = FollowR(I)
  /\ step = "copy" => k = CopyR(I)

LEMMA WriteTable ==
  ASSUME NEW I \in Implementation, IMPL = I
  PROVE  Len(mp_write) = LastW(I) /\ \A k \in 1 .. LastW(I) : WriteAt(I, k, mp_write[k])
<1>t. WriteRow(I)
  BY Rows, Zenon
<1>1. CASE I = Single
  <2>1. mp_write = <<"lock", "send", "wait", "unlock">>
    BY <1>1, Zenon DEF mp_write, Single
  <2>2. LastW(I) = 4 /\ LockW(I) = 1 /\ UnlockW(I) = 4 /\ SendW(I) = 2
    BY <1>1, <1>t, Zenon DEF WriteRow, Single, Double, DoubleWr, Triple, Multi
  <2> QED
    BY <2>1, <2>2 DEF WriteAt
<1>2. CASE I = Double
  <2>1. mp_write = <<"send", "wait", "lock", "publish", "wait", "unlock", "advance">>
    BY <1>2, Zenon DEF mp_write, Double
  <2>2. LastW(I) = 7 /\ LockW(I) = 3 /\ UnlockW(I) = 6 /\ SendW(I) = 1 /\ PublishW(I) = 4 /\ AdvanceW(I) = 7
    BY <1>2, <1>t, Zenon DEF WriteRow, Single, Double, DoubleWr, Triple, Multi
  <2> QED
    BY <2>1, <2>2 DEF WriteAt
<1>3. CASE I = DoubleWr
  <2>1. mp_write = <<"lock", "choose", "send", "wait", "publish", "wait", "unlock">>
    BY <1>3, Zenon DEF mp_write, DoubleWr
  <2>2. LastW(I) = 7 /\ LockW(I) = 1 /\ UnlockW(I) = 7 /\ ChooseW(I) = 2 /\ SendW(I) = 3 /\ PublishW(I) = 5
    BY <1>3, <1>t, Zenon DEF WriteRow, Single, Double, DoubleWr, Triple, Multi
  <2> QED
    BY <2>1, <2>2 DEF WriteAt
<1>4. CASE I = Triple
  <2>1. mp_write = <<"send", "wait", "lock", "publish", "wait", "look", "unlock", "advance">>
    BY <1>4, Zenon DEF mp_write, Triple
  <2>2. LastW(I) = 8 /\ LockW(I) = 3 /\ UnlockW(I) = 7 /\ SendW(I) = 1 /\ PublishW(I) = 4 /\ LookW(I) = 6
        /\ AdvanceW(I) = 8
    BY <1>4, <1>t, Zenon DEF WriteRow, Single, Double, DoubleWr, Triple, Multi
  <2> QED
    BY <2>1, <2>2 DEF WriteAt
<1>5. CASE I = Multi
  <2>1. mp_write = <<"choose", "send", "wait", "publish", "wait">>
    BY <1>5, Zenon DEF mp_write, Multi
  <2>2. LastW(I) = 5 /\ ChooseW(I) = 1 /\ SendW(I) = 2 /\ PublishW(I) = 4
    BY <1>5, <1>t, Zenon DEF WriteRow, Single, Double, DoubleWr, Triple, Multi
  <2> QED
    BY <2>1, <2>2 DEF WriteAt
<1> QED
  BY <1>1, <1>2, <1>3, <1>4, <1>5, Zenon DEF Implementation

LEMMA ReadTable ==
  ASSUME NEW I \in Implementation, IMPL = I
  PROVE  Len(mp_read) = LastR(I) /\ \A k \in 1 .. LastR(I) : ReadAt(I, k, mp_read[k])
<1>t. ReadRow(I)
  BY Rows, Zenon
<1>1. CASE I = Single
  <2>1. mp_read = <<"lock", "copy", "unlock">>
    BY <1>1, Zenon DEF mp_read, Single
  <2>2. LastR(I) = 3 /\ LockR(I) = 1 /\ UnlockR(I) = 3 /\ CopyR(I) = 2
    BY <1>1, <1>t, Zenon DEF ReadRow, Single, Double, DoubleWr, Triple, Multi
  <2> QED
    BY <2>1, <2>2 DEF ReadAt
<1>2. CASE I = Double
  <2>1. mp_read = <<"lock", "fetch", "copy", "unlock">>
    BY <1>2, Zenon DEF mp_read, Double
  <2>2. LastR(I) = 4 /\ LockR(I) = 1 /\ UnlockR(I) = 4 /\ FetchR(I) = 2 /\ CopyR(I) = 3
    BY <1>2, <1>t, Zenon DEF ReadRow, Single, Double, DoubleWr, Triple, Multi
  <2> QED
    BY <2>1, <2>2 DEF ReadAt
<1>3. CASE I = DoubleWr \/ I = Triple
  <2>1. mp_read = <<"lock", "fetch", "announce", "wait", "unlock", "copy">>
    BY <1>3, Zenon DEF mp_read, DoubleWr, Triple
  <2>2. LastR(I) = 6 /\ LockR(I) = 1 /\ UnlockR(I) = 5 /\ FetchR(I) = 2 /\ AnnounceR(I) = 3 /\ CopyR(I) = 6
    BY <1>3, <1>t, Zenon DEF ReadRow, Single, Double, DoubleWr, Triple, Multi
  <2> QED
    BY <2>1, <2>2 DEF ReadAt
<1>4. CASE I = Multi
  <2>1. mp_read = <<"fetch", "step", "announce", "wait", "follow", "copy">>
    BY <1>4, Zenon DEF mp_read, Multi
  <2>2. LastR(I) = 6 /\ FetchR(I) = 1 /\ StepR(I) = 2 /\ AnnounceR(I) = 3 /\ FollowR(I) = 5 /\ CopyR(I) = 6
    BY <1>4, <1>t, Zenon DEF ReadRow, Single, Double, DoubleWr, Triple, Multi
  <2> QED
    BY <2>1, <2>2 DEF ReadAt
<1> QED
  BY <1>1, <1>2, <1>3, <1>4, Zenon DEF Implementation

\* What a program at a step knows of its position.
LEMMA AtWritePosition ==
  ASSUME NEW I \in Implementation, IMPL = I, NEW step, AtWrite(step)
  PROVE  wpc \in 1 .. LastW(I) /\ WriteAt(I, wpc, step)
  BY WriteTable, Zenon DEF AtWrite

LEMMA AtReadPosition ==
  ASSUME NEW I \in Implementation, IMPL = I, NEW step, AtRead(step)
  PROVE  rpc \in 1 .. LastR(I) /\ ReadAt(I, rpc, step)
  BY ReadTable, Zenon DEF AtRead
-----------------------------------------------------------------------------
Transfers == [End -> Transfer \cup {SmpIdle}]
Clients == [End -> {"idle", "waiting", "holding"}]

\* mp_write takes a step that picks no buffer, is called, or returns.
WriterGoes(I) ==
  /\ wpc = 0 \/ wpc \notin {ChooseW(I), LookW(I), AdvanceW(I)}
  /\ wpc = LockW(I) /\ wpc # 0 => client["sink"] # "holding"
  /\ wpc' = IF wpc = LastW(I) + 1 THEN 0 ELSE wpc + 1
  /\ begun' = IF wpc = 0 THEN begun + 1 ELSE begun
  /\ returned' = IF wpc = LastW(I) + 1 THEN begun ELSE returned
  /\ smp_dma' \in Transfers /\ client' \in Clients
  /\ Sent /\ smp_dma'["sink"] = smp_dma["sink"]
  /\ smp_dma'["source"] = IF wpc = SendW(I) THEN [what |-> "sample", to |-> next, next |-> 1]
                          ELSE IF wpc # 0 /\ wpc = PublishW(I) THEN [what |-> "newest"]
                          ELSE SmpIdle
  /\ client'["sink"] = client["sink"]
  /\ client'["source"] = IF LockedW(I, wpc') THEN "holding" ELSE "idle"
  /\ UNCHANGED <<next, reading_seen, reader, others>>

\* The transfers that the code starts are transfers.
LEMMA TransferFacts ==
  /\ "source" \in End /\ "sink" \in End /\ "source" # "sink"
  /\ [what |-> "newest"] \in Transfer /\ [what |-> "reading"] \in Transfer
  /\ \A b \in Memory, w \in SampleWord : [what |-> "sample", to |-> b, next |-> w] \in Transfer
  /\ \A t \in Transfer : t # SmpIdle
  /\ 1 \in SampleWord
  BY SamplingAssumption, SmpTransferAssumption DEF Transfer, End, SampleWord

LEMMA CallWriteGoes ==
  ASSUME NEW I \in Implementation, InvOf(I), CallWrite
  PROVE  WriterGoes(I)
<1>1. WriteRow(I)
  BY Rows, Zenon
<1>2. Types(I) /\ WriterInv(I)
  BY Zenon DEF InvOf
<1>3. Sent /\ client["source"] = "idle"
  BY <1>1, <1>2 DEF CallWrite, WriterInv, LockedW, Types, WriteRow, End
<1>4. wpc # SendW(I) /\ wpc # LastW(I) + 1 /\ ~ LockedW(I, 1)
  BY <1>1 DEF CallWrite, LockedW, WriteRow
<1>5. smp_dma \in Transfers /\ client \in Clients
  BY <1>2, Zenon DEF Types, Transfers, Clients
<1> QED
  BY <1>3, <1>4, <1>5 DEF CallWrite, WriterGoes, Sent

LEMMA WriteLockedGoes ==
  ASSUME NEW I \in Implementation, InvOf(I), WriteLocked
  PROVE  WriterGoes(I)
<1>1. WriteRow(I)
  BY Rows, Zenon
<1>2. Types(I) /\ WriterInv(I)
  BY Zenon DEF InvOf
<1>3. wpc = LockW(I) /\ wpc \in 1 .. LastW(I)
  BY AtWritePosition, Zenon DEF WriteLocked, WriteStep, WriteAt, InvOf
<1>4. Sent
  BY <1>1, <1>2, <1>3 DEF WriterInv, WriteRow
<1>5. client["sink"] # "holding" /\ client' = [client EXCEPT !["source"] = "holding"]
  BY Zenon DEF WriteLocked, Locking!Grant, Locking!Move, End
<1>6. client' \in Clients /\ client'["sink"] = client["sink"] /\ client'["source"] = "holding"
  BY <1>2, <1>5, Zenon DEF Types, Clients, End
<1>7. smp_dma' = smp_dma /\ wpc' = wpc + 1 /\ UNCHANGED <<begun, returned, next, reading_seen, reader, others>>
  BY Zenon DEF WriteLocked, WriteStep
<1> QED
  BY <1>1, <1>2, <1>3, <1>4, <1>5, <1>6, <1>7 DEF WriterGoes, LockedW, Types, Transfers, Sent, WriteRow

LEMMA WriteUnlockGoes ==
  ASSUME NEW I \in Implementation, InvOf(I), WriteUnlock
  PROVE  WriterGoes(I)
<1>1. WriteRow(I)
  BY Rows, Zenon
<1>2. Types(I) /\ WriterInv(I)
  BY Zenon DEF InvOf
<1>3. wpc = UnlockW(I) /\ wpc \in 1 .. LastW(I)
  BY AtWritePosition, Zenon DEF WriteUnlock, WriteStep, WriteAt, InvOf
<1>4. Sent
  BY <1>1, <1>2, <1>3 DEF WriterInv, WriteRow
<1>5. client' = [client EXCEPT !["source"] = "idle"]
  BY Zenon DEF WriteUnlock, Locking!Yield, Locking!Move
<1>6. client' \in Clients /\ client'["sink"] = client["sink"] /\ client'["source"] = "idle"
  BY <1>2, <1>5, Zenon DEF Types, Clients, End
<1>7. smp_dma' = smp_dma /\ wpc' = wpc + 1 /\ UNCHANGED <<begun, returned, next, reading_seen, reader, others>>
  BY Zenon DEF WriteUnlock, WriteStep
<1> QED
  BY <1>1, <1>2, <1>3, <1>4, <1>6, <1>7 DEF WriterGoes, LockedW, Types, Transfers, Sent, WriteRow

\* While the lock's state is not changed: it is what the position says.
LEMMA WriterClient ==
  ASSUME NEW I \in Implementation, Types(I), WriterInv(I), wpc = 0 \/ wpc \notin {LockW(I), UnlockW(I)},
         client' = client, wpc' = wpc + 1
  PROVE  /\ client' \in Clients /\ client'["sink"] = client["sink"]
         /\ client'["source"] = IF LockedW(I, wpc') THEN "holding" ELSE "idle"
<1>1. WriteRow(I)
  BY Rows, Zenon
<1>2. client["source"] = IF LockedW(I, wpc) THEN "holding" ELSE "idle"
  BY Zenon DEF Types, WriterInv, End
<1>3. wpc \in Nat
  BY DEF Types
<1>4. LockedW(I, wpc') <=> LockedW(I, wpc)
  BY <1>1, <1>3 DEF LockedW, WriteRow
<1> QED
  BY <1>2, <1>4, Zenon DEF Types, Clients

LEMMA WriteSendGoes ==
  ASSUME NEW I \in Implementation, InvOf(I), WriteSend
  PROVE  WriterGoes(I)
<1>1. WriteRow(I)
  BY Rows, Zenon
<1>2. Types(I) /\ WriterInv(I)
  BY Zenon DEF InvOf
<1>3. wpc = SendW(I) /\ wpc \in 1 .. LastW(I)
  BY AtWritePosition, Zenon DEF WriteSend, WriteStep, WriteAt, InvOf
<1>4. wpc # LockW(I) /\ wpc \notin {LockW(I), UnlockW(I), ChooseW(I), LookW(I), AdvanceW(I)} /\ wpc # LastW(I) + 1
      /\ wpc # 0
  BY <1>1, <1>3 DEF WriteRow
<1>5. wpc' = wpc + 1 /\ client' = client /\ UNCHANGED <<begun, returned, next, reading_seen, reader, others>>
  BY Zenon DEF WriteSend, WriteStep
<1>6. smp_dma["source"] = SmpIdle
      /\ smp_dma' = [smp_dma EXCEPT !["source"] = [what |-> "sample", to |-> next, next |-> 1]]
  BY Zenon DEF WriteSend, Dma!noc_write, Dma!noc_dma_done
<1>7. smp_dma' \in Transfers /\ smp_dma'["sink"] = smp_dma["sink"]
      /\ smp_dma'["source"] = [what |-> "sample", to |-> next, next |-> 1]
  <2>1. [what |-> "sample", to |-> next, next |-> 1] \in Transfer
    BY <1>2, TransferFacts, Zenon DEF Types
  <2>2. smp_dma \in Transfers
    BY <1>2, Zenon DEF Types, Transfers
  <2> QED
    BY <1>6, <2>1, <2>2, TransferFacts, Zenon DEF Transfers
<1>8. /\ client' \in Clients /\ client'["sink"] = client["sink"]
      /\ client'["source"] = IF LockedW(I, wpc') THEN "holding" ELSE "idle"
  BY <1>2, <1>4, <1>5, WriterClient, Zenon
<1> QED
  BY <1>3, <1>4, <1>5, <1>6, <1>7, <1>8, Zenon DEF WriterGoes, Sent

LEMMA WritePublishGoes ==
  ASSUME NEW I \in Implementation, InvOf(I), WritePublish
  PROVE  WriterGoes(I)
<1>1. WriteRow(I)
  BY Rows, Zenon
<1>2. Types(I) /\ WriterInv(I)
  BY Zenon DEF InvOf
<1>3. wpc = PublishW(I) /\ wpc \in 1 .. LastW(I)
  BY AtWritePosition, Zenon DEF WritePublish, WriteStep, WriteAt, InvOf
<1>4. wpc \notin {LockW(I), UnlockW(I), ChooseW(I), LookW(I), AdvanceW(I), SendW(I)} /\ wpc # LastW(I) + 1
      /\ wpc # 0
  BY <1>1, <1>3 DEF WriteRow
<1>5. wpc' = wpc + 1 /\ client' = client /\ UNCHANGED <<begun, returned, next, reading_seen, reader, others>>
  BY Zenon DEF WritePublish, WriteStep
<1>6. smp_dma["source"] = SmpIdle /\ smp_dma' = [smp_dma EXCEPT !["source"] = [what |-> "newest"]]
  BY Zenon DEF WritePublish, Dma!noc_write, Dma!noc_dma_done
<1>7. smp_dma' \in Transfers /\ smp_dma'["sink"] = smp_dma["sink"] /\ smp_dma'["source"] = [what |-> "newest"]
  <2>1. smp_dma \in Transfers
    BY <1>2, Zenon DEF Types, Transfers
  <2> QED
    BY <1>6, <2>1, TransferFacts, Zenon DEF Transfers
<1>8. /\ client' \in Clients /\ client'["sink"] = client["sink"]
      /\ client'["source"] = IF LockedW(I, wpc') THEN "holding" ELSE "idle"
  BY <1>2, <1>4, <1>5, WriterClient, Zenon
<1> QED
  BY <1>3, <1>4, <1>5, <1>6, <1>7, <1>8, Zenon DEF WriterGoes, Sent

LEMMA WriteWaitGoes ==
  ASSUME NEW I \in Implementation, InvOf(I), WriteWait
  PROVE  WriterGoes(I)
<1>1. WriteRow(I)
  BY Rows, Zenon
<1>2. Types(I) /\ WriterInv(I)
  BY Zenon DEF InvOf
<1>3. wpc = SendW(I) + 1 \/ (PublishW(I) # 0 /\ wpc = PublishW(I) + 1)
  BY AtWritePosition, Zenon DEF WriteWait, WriteStep, WriteAt, InvOf
<1>4. wpc \notin {LockW(I), UnlockW(I), ChooseW(I), LookW(I), AdvanceW(I), SendW(I), PublishW(I)}
      /\ wpc # LastW(I) + 1 /\ wpc # 0
  BY <1>1, <1>3 DEF WriteRow
<1>5. wpc' = wpc + 1 /\ client' = client /\ UNCHANGED <<begun, returned, next, reading_seen, reader, others>>
  BY Zenon DEF WriteWait, WriteStep
<1>6. smp_dma["source"] = SmpIdle /\ smp_dma' = smp_dma /\ smp_dma \in Transfers
  BY <1>2, Zenon DEF WriteWait, Dma!noc_dma_done, Types, Transfers
<1>8. /\ client' \in Clients /\ client'["sink"] = client["sink"]
      /\ client'["source"] = IF LockedW(I, wpc') THEN "holding" ELSE "idle"
  BY <1>2, <1>4, <1>5, WriterClient, Zenon
<1> QED
  BY <1>4, <1>5, <1>6, <1>8, Zenon DEF WriterGoes, Sent

LEMMA WriteReturnGoes ==
  ASSUME NEW I \in Implementation, InvOf(I), WriteReturn
  PROVE  WriterGoes(I)
<1>1. WriteRow(I)
  BY Rows, Zenon
<1>2. Types(I) /\ WriterInv(I)
  BY Zenon DEF InvOf
<1>3. wpc = LastW(I) + 1
  BY WriteTable, Zenon DEF WriteReturn, InvOf
<1>4. wpc \notin {LockW(I), UnlockW(I), ChooseW(I), LookW(I), AdvanceW(I), SendW(I), PublishW(I)}
      /\ wpc # 0 /\ ~ LockedW(I, wpc) /\ ~ LockedW(I, 0)
      /\ wpc # SendW(I) + 1 /\ wpc # PublishW(I) + 1
  BY <1>1, <1>3 DEF LockedW, WriteRow
<1>5. wpc' = 0 /\ returned' = begun /\ client' = client /\ smp_dma' = smp_dma
      /\ UNCHANGED <<begun, next, reading_seen, reader, others>>
  BY Zenon DEF WriteReturn
<1>6. smp_dma \in Transfers /\ client \in Clients
  BY <1>2, Zenon DEF Types, Transfers, Clients
<1>7. Sent /\ client["source"] = "idle"
  BY <1>2, <1>4, <1>6, Zenon DEF WriterInv, Clients, End
<1> QED
  BY <1>3, <1>4, <1>5, <1>6, <1>7, Zenon DEF WriterGoes, Sent
-----------------------------------------------------------------------------
\* The latest sample has a number, and is among those whose mp_write has begun.
LEMMA LatestType ==
  ASSUME NEW I \in Implementation, Types(I), WriterInv(I)
  PROVE  Latest(I) \in Nat /\ Latest(I) <= begun /\ returned <= Latest(I)
<1>1. WriteRow(I)
  BY Rows, Zenon
<1>2. begun \in Nat /\ returned \in Nat /\ returned = IF wpc = 0 THEN begun ELSE begun - 1
  BY Zenon DEF Types, WriterInv
<1>3. Pending(I) => wpc # 0
  BY <1>1 DEF Pending, WriteRow
<1> QED
  BY <1>2, <1>3 DEF Latest

\* What a step that picks no buffer changes of what matters for the place of the samples.
WriterMoves(I) ==
  /\ wpc \in 0 .. LastW(I) + 1 /\ (wpc = 0 \/ wpc \notin {ChooseW(I), LookW(I), AdvanceW(I)})
  /\ wpc' = IF wpc = LastW(I) + 1 THEN 0 ELSE wpc + 1
  /\ begun \in Nat /\ begun' = IF wpc = 0 THEN begun + 1 ELSE begun
  /\ Sent /\ (Sent' <=> wpc = 0 \/ wpc \notin {SendW(I), PublishW(I)}) /\ (Told' <=> Told)

LEMMA WriterGoesMoves ==
  ASSUME NEW I \in Implementation, Types(I), WriterGoes(I)
  PROVE  WriterMoves(I)
<1>1. SendW(I) # 0
  BY Rows DEF WriteRow
<1>2. /\ wpc = 0 \/ wpc \notin {ChooseW(I), LookW(I), AdvanceW(I)}
      /\ wpc' = IF wpc = LastW(I) + 1 THEN 0 ELSE wpc + 1
      /\ begun' = IF wpc = 0 THEN begun + 1 ELSE begun
      /\ Sent /\ (Told' <=> Told)
  BY Zenon DEF WriterGoes, Told
<1>3. smp_dma'["source"] = IF wpc = SendW(I) THEN [what |-> "sample", to |-> next, next |-> 1]
                          ELSE IF wpc # 0 /\ wpc = PublishW(I) THEN [what |-> "newest"]
                          ELSE SmpIdle
  BY Zenon DEF WriterGoes
<1>4. [what |-> "sample", to |-> next, next |-> 1] # SmpIdle /\ [what |-> "newest"] # SmpIdle
  BY TransferFacts, Zenon DEF Types
<1>5. Sent' <=> wpc = 0 \/ wpc \notin {SendW(I), PublishW(I)}
  BY <1>1, <1>3, <1>4, Zenon DEF Sent
<1>6. wpc \in 0 .. LastW(I) + 1 /\ begun \in Nat
  BY Zenon DEF Types
<1> QED
  BY <1>2, <1>5, <1>6, Zenon DEF WriterMoves

\* What the writer does before its DMA has delivered does not change it.
LEMMA LatestStays ==
  ASSUME NEW I \in Implementation, WriterMoves(I)
  PROVE  Latest(I)' = Latest(I)
<1>1. WriteRow(I)
  BY Rows, Zenon
<1>2. CASE wpc = 0
  <2>1. ~ Pending(I) /\ Pending(I)'
    BY <1>1, <1>2 DEF WriterMoves, Pending, WriteRow
  <2> QED
    BY <2>1, <1>2 DEF Latest, WriterMoves
<1>3. CASE wpc # 0
  <2>1. Pending(I)' <=> Pending(I)
    BY <1>1, <1>3 DEF WriterMoves, Pending, WriteRow
  <2> QED
    BY <2>1, <1>3, Zenon DEF Latest, WriterMoves
<1> QED
  BY <1>2, <1>3, Zenon

\* The writer's part of the invariant does not mention what the reader changes, nor the
\* reader's part what the writer changes, except the buffer that is being copied.
LEMMA WriterKept ==
  ASSUME NEW I \in Implementation, WriterInv(I),
         UNCHANGED <<writer, bufs>>, smp_dma'["source"] = smp_dma["source"], client'["source"] = client["source"]
  PROVE  WriterInv(I)' /\ Latest(I)' = Latest(I)
  BY Zenon DEF WriterInv, writer, Sent, Latest, Pending

LEMMA ReaderKept ==
  ASSUME NEW I \in Implementation, Types(I), WriterInv(I), ReaderInv(I),
         UNCHANGED reader, smp_dma'["sink"] = smp_dma["sink"], client'["sink"] = client["sink"],
         Latest(I)' \in Nat, Latest(I) <= Latest(I)',
         rpc \in BindR(I) + 1 .. CopyR(I) => bufs'[newest_seen] = bufs[newest_seen]
  PROVE  ReaderInv(I)'
<1>1. floor \in Nat /\ sample \in [SampleWord -> Nat] /\ bufs \in [Memory -> [SampleWord -> Nat]] /\ newest_seen \in Memory
      /\ 1 \in SampleWord
  BY TransferFacts, Zenon DEF Types
<1>2. bufs[newest_seen][1] \in Nat /\ sample[1] \in Nat
  BY <1>1, Zenon
<1>3. Latest(I) \in Nat
  BY LatestType, Zenon
<1>4. UNCHANGED <<rpc, newest_seen, sample, copied, floor>> /\ (Told' <=> Told)
  BY Zenon DEF reader, Told
<1>5. rpc \in BindR(I) + 1 .. CopyR(I) =>
        /\ Valid(bufs'[newest_seen], floor, Latest(I)')
        /\ \A w \in 1 .. copied : sample[w] = bufs'[newest_seen][1]
  BY <1>2, <1>3 DEF ReaderInv, Valid
<1>6. rpc > CopyR(I) =>
       /\ floor <= sample[1] /\ sample[1] <= Latest(I)'
       /\ \A w \in SampleWord : sample[w] = sample[1]
  <2>1. rpc > CopyR(I) =>
         /\ floor <= sample[1] /\ sample[1] <= Latest(I)
         /\ \A w \in SampleWord : sample[w] = sample[1]
    BY Zenon DEF ReaderInv
  <2> QED
    BY <2>1, <1>2, <1>3
<1>7. floor <= Latest(I)'
  BY <1>1, <1>3 DEF ReaderInv
<1>8. /\ client'["sink"] = "holding" <=> LockedR(I, rpc)
      /\ client'["sink"] = "waiting" => rpc = LockR(I) /\ rpc # 0
      /\ ~ Told => AnnounceR(I) # 0 /\ rpc = AnnounceR(I) + 1 /\ smp_dma'["sink"] = [what |-> "reading"]
      /\ rpc \in 1 .. CopyR(I) - 1 => copied = 0
      /\ rpc = CopyR(I) => copied < SampleWords
  BY Zenon DEF ReaderInv
<1> QED
  BY <1>4, <1>5, <1>6, <1>7, Zenon DEF ReaderInv
-----------------------------------------------------------------------------
\* A step of mp_write that picks no buffer: types, the writer's part, exclusion.
LEMMA WriterGoesTypes ==
  ASSUME NEW I \in Implementation, Types(I), WriterInv(I), WriterGoes(I)
  PROVE  Types(I)'
<1>1. WriteRow(I)
  BY Rows, Zenon
<1>2. wpc' \in 0 .. LastW(I) + 1 /\ begun' \in Nat
  BY <1>1, WriterGoesMoves DEF WriterMoves, WriteRow
<1>3. returned' \in Nat
  BY Zenon DEF Types, WriterGoes
<1>4. smp_dma' \in Transfers /\ client' \in Clients /\ UNCHANGED <<next, reading_seen, reader, others>>
  BY Zenon DEF WriterGoes
<1> QED
  BY <1>2, <1>3, <1>4, Zenon DEF Types, reader, others, Transfers, Clients

LEMMA WriterGoesInv ==
  ASSUME NEW I \in Implementation, Types(I), WriterInv(I), WriterGoes(I)
  PROVE  WriterInv(I)'
<1>1. WriteRow(I)
  BY Rows, Zenon
<1>2. WriterMoves(I)
  BY WriterGoesMoves, Zenon
<1>3. bufs' = bufs /\ next' = next
  BY Zenon DEF WriterGoes, others
<1>4. returned' = (IF wpc = LastW(I) + 1 THEN begun ELSE returned) /\ returned = IF wpc = 0 THEN begun ELSE begun - 1
  BY Zenon DEF WriterInv, WriterGoes
<1>5. returned' = IF wpc' = 0 THEN begun' ELSE begun' - 1
  BY <1>1, <1>2, <1>4 DEF WriterMoves, WriteRow
<1>6. /\ client'["source"] = "holding" <=> LockedW(I, wpc')
      /\ client'["source"] # "waiting"
  BY Zenon DEF WriterGoes
<1>7. ASSUME ~ Sent'
      PROVE  \/ /\ wpc' = SendW(I) + 1
                /\ smp_dma'["source"] \in [what : {"sample"}, to : {next'}, next : SampleWord]
                /\ \A w \in SampleWord : w < smp_dma'["source"].next => bufs'[next'][w] = begun'
             \/ /\ PublishW(I) # 0 /\ wpc' = PublishW(I) + 1
                /\ smp_dma'["source"] = [what |-> "newest"]
  <2>1. CASE wpc = SendW(I)
    <3>1. smp_dma'["source"] = [what |-> "sample", to |-> next, next |-> 1]
      BY <2>1, Zenon DEF WriterGoes
    <3>2. wpc' = SendW(I) + 1
      BY <2>1, <1>1, <1>2 DEF WriterMoves, WriteRow
    <3>3. \A w \in SampleWord : ~ (w < 1)
      BY DEF SampleWord
    <3> QED
      BY <3>1, <3>2, <3>3, <1>3, TransferFacts
  <2>2. CASE wpc = PublishW(I) /\ wpc # 0 /\ wpc # SendW(I)
    <3>1. smp_dma'["source"] = [what |-> "newest"]
      BY <2>2, Zenon DEF WriterGoes
    <3>2. wpc' = PublishW(I) + 1
      BY <2>2, <1>1, <1>2 DEF WriterMoves, WriteRow
    <3> QED
      BY <3>1, <3>2, <2>2, Zenon
  <2> QED
    BY <2>1, <2>2, <1>2, <1>7, Zenon DEF WriterMoves
<1>8. ASSUME \/ wpc' = SendW(I) + 1 /\ Sent'
             \/ wpc' \in SendW(I) + 2 .. PublishW(I)
             \/ PublishW(I) # 0 /\ wpc' = PublishW(I) + 1
      PROVE  Holds(bufs'[next'], begun')
  <2>1. wpc = SendW(I) + 1 \/ wpc \in SendW(I) + 2 .. PublishW(I)
    BY <1>1, <1>2, <1>8 DEF WriterMoves, WriteRow
  <2>2. wpc # 0
    BY <2>1, <1>1 DEF WriteRow
  <2>3. Holds(bufs[next], begun)
    BY <2>1, <1>2, Zenon DEF WriterInv, WriterMoves
  <2> QED
    BY <2>2, <2>3, <1>2, <1>3, Zenon DEF WriterMoves
<1> QED
  BY <1>5, <1>6, <1>7, <1>8, Zenon DEF WriterInv

LEMMA WriterGoesExclusion ==
  ASSUME NEW I \in Implementation, Types(I), ReaderInv(I), Exclusion(I), WriterGoes(I)
  PROVE  Exclusion(I)'
<1>1. WriteRow(I)
  BY Rows, Zenon
<1>2. rpc' = rpc
  BY Zenon DEF WriterGoes, reader
<1>3. wpc = LockW(I) /\ wpc # 0 => ~ LockedR(I, rpc)
  BY Zenon DEF WriterGoes, ReaderInv
<1>4. LockedW(I, wpc') => LockedW(I, wpc) \/ (wpc = LockW(I) /\ wpc # 0)
  <2>1. WriterMoves(I)
    BY WriterGoesMoves, Zenon
  <2> QED
    BY <1>1, <2>1 DEF WriterMoves, LockedW, WriteRow
<1> QED
  BY <1>2, <1>3, <1>4, Zenon DEF Exclusion

LEMMA WriterGoesPlace ==
  ASSUME NEW I \in Implementation, Types(I), Place(I), WriterGoes(I)
  PROVE  Place(I)'
<1>1. WriterMoves(I) /\ WriteRow(I)
  BY WriterGoesMoves, Rows, Zenon
<1>2. UNCHANGED <<rpc, next, newest, reading, newest_seen, reading_seen, next_reading, bufs, floor>>
  BY Zenon DEF WriterGoes, reader, others
<1>3. Latest(I)' = Latest(I)
  BY <1>1, LatestStays, Zenon
<1>4. ASSUME I = Single PROVE PlaceSingle'
  <2>1. PlaceSingle /\ Latest(Single)' = Latest(Single)
    BY <1>3, <1>4, Zenon DEF Place
  <2>2. ~ (wpc' = 3 /\ ~ Sent') => ~ (wpc = 3 /\ ~ Sent)
    BY <1>1, Zenon DEF WriterMoves
  <2> QED
    BY <1>2, <2>1, <2>2, Zenon DEF PlaceSingle
<1>5. ASSUME I = Double PROVE PlaceDouble'
  <2>1. PlaceDouble /\ Latest(Double)' = Latest(Double)
    BY <1>3, <1>5, Zenon DEF Place
  <2>2. /\ wpc' \in 6 .. 7 \/ (wpc' = 5 /\ Sent') => wpc \in 6 .. 7 \/ (wpc = 5 /\ Sent)
        /\ wpc' \in {8, 0, 1, 2, 3, 4} \/ (wpc' = 5 /\ ~ Sent') => wpc \in {8, 0, 1, 2, 3, 4} \/ (wpc = 5 /\ ~ Sent)
    BY <1>1, <1>5 DEF WriterMoves, WriteRow, Single, Double, DoubleWr, Triple, Multi
  <2> QED
    BY <1>2, <2>1, <2>2, Zenon DEF PlaceDouble
<1>6. ASSUME I = DoubleWr PROVE PlaceDoubleWr'
  <2>1. PlaceDoubleWr /\ Latest(DoubleWr)' = Latest(DoubleWr)
    BY <1>3, <1>6, Zenon DEF Place
  <2>2. /\ wpc' \in 3 .. 7 => wpc \in 3 .. 7
        /\ ~ (wpc' \in 4 .. 5 \/ (wpc' = 6 /\ ~ Sent')) => ~ (wpc \in 4 .. 5 \/ (wpc = 6 /\ ~ Sent))
    BY <1>1, <1>6 DEF WriterMoves, WriteRow, Single, Double, DoubleWr, Triple, Multi
  <2>3. Told' <=> Told
    BY <1>1, Zenon DEF WriterMoves
  <2> QED
    BY <1>2, <2>1, <2>2, <2>3, Zenon DEF PlaceDoubleWr
<1>7. ASSUME I = Triple PROVE PlaceTriple'
  <2>1. PlaceTriple /\ Latest(Triple)' = Latest(Triple)
    BY <1>3, <1>7, Zenon DEF Place
  <2>2. /\ wpc' \in 6 .. 8 \/ (wpc' = 5 /\ Sent') => wpc \in 6 .. 8 \/ (wpc = 5 /\ Sent)
        /\ wpc' # 7
        /\ wpc' = 8 => wpc = 7
        /\ wpc' \in {9, 0, 1, 2, 3, 4} \/ (wpc' = 5 /\ ~ Sent') => wpc \in {9, 0, 1, 2, 3, 4} \/ (wpc = 5 /\ ~ Sent)
    BY <1>1, <1>7 DEF WriterMoves, WriteRow, Single, Double, DoubleWr, Triple, Multi
  <2>3. Told' <=> Told
    BY <1>1, Zenon DEF WriterMoves
  <2> QED
    BY <1>2, <2>1, <2>2, <2>3, Zenon DEF PlaceTriple
<1>8. ASSUME I = Multi PROVE PlaceMulti'
  <2>1. PlaceMulti /\ Latest(Multi)' = Latest(Multi)
    BY <1>3, <1>8, Zenon DEF Place
  <2>2. ~ (wpc' = 3 /\ ~ Sent') /\ (wpc' # 2 \/ newest = next) => ~ (wpc = 3 /\ ~ Sent) /\ (wpc # 2 \/ newest = next)
    BY <1>1, <1>8 DEF WriterMoves, WriteRow, Double, Triple, Multi
  <2>3. Told' <=> Told
    BY <1>1, Zenon DEF WriterMoves
  <2> QED
    BY <1>2, <2>1, <2>2, <2>3, Zenon DEF PlaceMulti
<1> QED
  BY <1>4, <1>5, <1>6, <1>7, <1>8, Zenon DEF Place

LEMMA WriterGoesKeeps ==
  ASSUME NEW I \in Implementation, InvOf(I), WriterGoes(I)
  PROVE  InvOf(I)'
<1>1. Types(I) /\ WriterInv(I) /\ ReaderInv(I) /\ Exclusion(I) /\ Place(I) /\ IMPL = I
  BY Zenon DEF InvOf
<1>2. Types(I)' /\ WriterInv(I)' /\ Exclusion(I)' /\ Place(I)'
  BY <1>1, WriterGoesTypes, WriterGoesInv, WriterGoesExclusion, WriterGoesPlace, Zenon
<1>3. Latest(I)' = Latest(I) /\ Latest(I) \in Nat
  BY <1>1, WriterGoesMoves, LatestStays, LatestType, Zenon
<1>4. /\ UNCHANGED reader /\ IMPL' = IMPL /\ bufs' = bufs
      /\ smp_dma'["sink"] = smp_dma["sink"] /\ client'["sink"] = client["sink"]
  BY Zenon DEF WriterGoes, others
<1>5. ReaderInv(I)'
  BY <1>1, <1>3, <1>4, ReaderKept
<1> QED
  BY <1>2, <1>4, <1>5, Zenon DEF InvOf
-----------------------------------------------------------------------------
\* Nothing of what the place of the samples depends on changes.
LEMMA PlaceSame ==
  ASSUME NEW I \in Implementation, Place(I),
         UNCHANGED <<smp_dma, writer, reader, others>>
  PROVE  Place(I)'
<1>1. UNCHANGED <<wpc, rpc, next, newest, reading, newest_seen, reading_seen, next_reading, bufs, floor, begun>>
      /\ (Sent' <=> Sent) /\ (Told' <=> Told)
  BY Zenon DEF writer, reader, others, Sent, Told
<1>2. Latest(I)' = Latest(I)
  BY <1>1, Zenon DEF Latest, Pending
<1>3. ASSUME I = Single PROVE PlaceSingle'
  BY <1>1, <1>2, <1>3, Zenon DEF Place, PlaceSingle
<1>4. ASSUME I = Double PROVE PlaceDouble'
  BY <1>1, <1>2, <1>4, Zenon DEF Place, PlaceDouble
<1>5. ASSUME I = DoubleWr PROVE PlaceDoubleWr'
  BY <1>1, <1>2, <1>5, Zenon DEF Place, PlaceDoubleWr
<1>6. ASSUME I = Triple PROVE PlaceTriple'
  BY <1>1, <1>2, <1>6, Zenon DEF Place, PlaceTriple
<1>7. ASSUME I = Multi PROVE PlaceMulti'
  <2>1. PlaceMulti /\ Latest(Multi)' = Latest(Multi)
    BY <1>2, <1>7, Zenon DEF Place
  <2> QED
    BY <2>1, <1>1, Zenon DEF PlaceMulti
<1> QED
  BY <1>3, <1>4, <1>5, <1>6, <1>7, Zenon DEF Place

\* A core that begins to wait for the lock, and steps that change nothing.
LEMMA WriteLockKeeps ==
  ASSUME NEW I \in Implementation, InvOf(I), WriteLock
  PROVE  InvOf(I)'
<1>1. Types(I) /\ WriterInv(I) /\ ReaderInv(I) /\ Exclusion(I) /\ Place(I) /\ IMPL = I
  BY Zenon DEF InvOf
<1>2. wpc = LockW(I) /\ wpc # 0
  BY <1>1, AtWritePosition DEF WriteLock, WriteAt
<1>3. client["source"] = "idle" /\ client' = [client EXCEPT !["source"] = "waiting"]
      /\ UNCHANGED <<smp_dma, writer, reader, others>>
  BY Zenon DEF WriteLock, Locking!Request, Locking!Move
<1>4. client' \in Clients /\ client'["sink"] = client["sink"] /\ client'["source"] = "waiting"
  BY <1>1, <1>3, Zenon DEF Types, Clients, End
<1>5. Types(I)'
  BY <1>1, <1>3, Zenon DEF Types, writer, reader, others
<1>6. UNCHANGED <<wpc, rpc, next, begun, returned, bufs>> /\ (Sent' <=> Sent)
  BY <1>3, Zenon DEF writer, reader, others, Sent
<1>7. WriterInv(I)'
  BY <1>1, <1>2, <1>3, <1>4, <1>6, Zenon DEF WriterInv
<1>8. Latest(I)' = Latest(I) /\ Latest(I) \in Nat
  <2>1. Latest(I)' = Latest(I)
    BY <1>6, Zenon DEF Latest, Pending
  <2> QED
    BY <2>1, <1>1, LatestType, Zenon
<1>9. ReaderInv(I)'
  BY <1>1, <1>3, <1>6, <1>8, ReaderKept
<1>10. Exclusion(I)' /\ IMPL' = I
  BY <1>1, <1>3, <1>6, Zenon DEF Exclusion, others
<1>11. Place(I)'
  BY <1>1, <1>3, PlaceSame, Zenon
<1> QED
  BY <1>5, <1>7, <1>9, <1>10, <1>11, Zenon DEF InvOf

-----------------------------------------------------------------------------
\* mp_write picks a buffer, or looks which one is being read.
WriterPicks(I) ==
  /\ wpc # 0 /\ wpc \in {ChooseW(I), LookW(I), AdvanceW(I)} /\ wpc' = wpc + 1
  /\ next' \in Memory /\ reading_seen' \in Memory
  /\ UNCHANGED <<smp_dma, client, begun, returned, reader, others>>

\* It picks none while a sample is on its way or not published.
LEMMA WriterPicksInv ==
  ASSUME NEW I \in Implementation, InvOf(I), WriterPicks(I)
  PROVE  /\ Types(I)' /\ WriterInv(I)' /\ ReaderInv(I)' /\ Exclusion(I)' /\ IMPL' = I
         /\ Latest(I)' = Latest(I) /\ Sent /\ Sent'
<1>1. Types(I) /\ WriterInv(I) /\ ReaderInv(I) /\ Exclusion(I) /\ IMPL = I
  BY Zenon DEF InvOf
<1>2. WriteRow(I)
  BY Rows, Zenon
<1>3. wpc # 0 /\ wpc \in {ChooseW(I), LookW(I), AdvanceW(I)} /\ wpc' = wpc + 1
      /\ next' \in Memory /\ reading_seen' \in Memory
      /\ UNCHANGED <<smp_dma, client, begun, returned, reader, others>>
  BY Zenon DEF WriterPicks
<1>4. /\ wpc' # 0 /\ wpc' \in 0 .. LastW(I) + 1
      /\ wpc \notin {LockW(I), UnlockW(I)}
      /\ wpc # SendW(I) + 1 /\ wpc # PublishW(I) + 1
      /\ wpc' # SendW(I) + 1 /\ wpc' # PublishW(I) + 1
      /\ wpc' \notin SendW(I) + 2 .. PublishW(I)
  BY <1>2, <1>3 DEF WriteRow
<1>5. Sent /\ Sent'
  BY <1>1, <1>3, <1>4, Zenon DEF WriterInv, Sent
<1>6. Types(I)'
  BY <1>1, <1>3, <1>4, Zenon DEF Types, reader, others
<1>7. /\ client'["source"] = IF LockedW(I, wpc') THEN "holding" ELSE "idle"
  BY <1>1, <1>3, <1>4, WriterClient, Zenon
<1>8. WriterInv(I)'
  <2>1. returned' = IF wpc' = 0 THEN begun' ELSE begun' - 1
    BY <1>1, <1>3, <1>4, Zenon DEF WriterInv
  <2> QED
    BY <2>1, <1>4, <1>5, <1>7, Zenon DEF WriterInv
<1>9. Latest(I)' = Latest(I) /\ Latest(I) \in Nat
  <2>1. Pending(I)' <=> Pending(I)
    BY <1>2, <1>3 DEF Pending, WriteRow
  <2> QED
    BY <2>1, <1>1, <1>3, LatestType, Zenon DEF Latest
<1>10. ReaderInv(I)'
  BY <1>1, <1>3, <1>9, ReaderKept DEF others
<1>11. Exclusion(I)'
  <2>1. LockedW(I, wpc') => LockedW(I, wpc)
    BY <1>2, <1>3 DEF LockedW, WriteRow
  <2> QED
    BY <2>1, <1>1, <1>3, Zenon DEF Exclusion, reader
<1> QED
  BY <1>1, <1>3, <1>5, <1>6, <1>8, <1>9, <1>10, <1>11, Zenon DEF others

\* DOUBLE_NOC_WR and MULTI_NOC_NONBLOCKING choose the buffer first.
LEMMA WriteChooseKeeps ==
  ASSUME NEW I \in Implementation, InvOf(I), WriteChoose
  PROVE  InvOf(I)'
<1>1. Types(I) /\ WriterInv(I) /\ ReaderInv(I) /\ Place(I) /\ IMPL = I
  BY Zenon DEF InvOf
<1>2. WriteRow(I)
  BY Rows, Zenon
<1>3. wpc = ChooseW(I) /\ wpc \in 1 .. LastW(I)
  BY <1>1, AtWritePosition, Zenon DEF WriteChoose, WriteStep, WriteAt
<1>4. (I = DoubleWr /\ wpc = 2) \/ (I = Multi /\ wpc = 1)
  BY <1>2, <1>3 DEF WriteRow
<1>5. /\ wpc' = wpc + 1 /\ next' = IF IMPL = "DOUBLE_NOC_WR" THEN Flip(reading) ELSE reading
      /\ UNCHANGED <<smp_dma, client, begun, returned, reading_seen, reader, others>>
  BY Zenon DEF WriteChoose, WriteStep
<1>6. UNCHANGED <<rpc, newest, reading, newest_seen, reading_seen, next_reading, bufs, floor>> /\ (Told' <=> Told)
  BY <1>5, Zenon DEF reader, others, Told
<1>7. CASE I = DoubleWr /\ wpc = 2
  <2>1. PlaceDoubleWr
    BY <1>1, <1>7, Zenon DEF Place
  <2>2. next' = Flip(reading) /\ wpc' = 3
    BY <1>1, <1>5, <1>7 DEF DoubleWr
  <2>3. next' \in -2 .. 1 /\ reading \in -2 .. 1
    BY <2>1, <2>2 DEF PlaceDoubleWr, Flip
  <2>4. WriterPicks(I)
    BY <1>1, <1>3, <1>5, <2>3 DEF WriterPicks, Types, Memory
  <2>5. Latest(I)' = Latest(I)
    BY <2>4, WriterPicksInv, Zenon
  <2>6. PlaceDoubleWr'
    BY <1>6, <1>7, <2>1, <2>2, <2>3, <2>5 DEF PlaceDoubleWr
  <2> QED
    BY <1>7, <2>4, <2>6, WriterPicksInv, Zenon DEF InvOf, Place, Single, Double, DoubleWr, Triple, Multi
<1>8. CASE I = Multi /\ wpc = 1
  <2>1. PlaceMulti
    BY <1>1, <1>8, Zenon DEF Place
  <2>2. next' = reading /\ wpc' = 2 /\ wpc = 1
    BY <1>1, <1>5, <1>8 DEF Multi
  <2>3. WriterPicks(I)
    BY <1>1, <1>3, <1>5, <2>2 DEF WriterPicks, Types
  <2>4. Latest(I)' = Latest(I) /\ Sent'
    BY <2>3, WriterPicksInv, Zenon
  <2>5. Holds(bufs[next], Latest(I))
    BY <2>1, <1>8 DEF PlaceMulti
  <2>6. Valid(bufs[next], floor, Latest(I))
    <3>1. bufs[next][1] = Latest(I) /\ Latest(I) \in Nat /\ floor <= Latest(I)
      BY <2>5, <1>1, TransferFacts, LatestType, Zenon DEF Holds, ReaderInv
    <3> QED
      BY <3>1, <2>5 DEF Valid
  <2>7. next # reading => newest # reading
    <3>1. rpc \in 0 .. 7
      BY <1>1, Rows DEF Types, ReadRow
    <3> QED
      BY <2>1, <3>1 DEF PlaceMulti
  <2>8. PlaceMulti'
    <3>1. ~ (wpc' = 3 /\ ~ Sent') /\ (wpc' # 2 \/ newest = next') => Holds(bufs[next'], Latest(Multi))
      BY <2>2, <2>5, <2>7, <1>8, Zenon
    <3>2. rpc \in 4 .. 6 /\ next' # newest_seen => Valid(bufs[newest_seen], floor, Latest(Multi))
      BY <2>1, <2>6, <1>8, Zenon DEF PlaceMulti
    <3>3. Latest(Multi)' = Latest(Multi)
      BY <2>4, <1>8, Zenon
    <3>4. /\ next' \in 0 .. 2
          /\ rpc \in {6, 7, 0, 1, 2} => next' = next_reading
          /\ rpc = 3 \/ (rpc = 4 /\ ~ Told) => next' = newest_seen
          /\ rpc = 5 \/ (rpc = 4 /\ Told) => next' = next_reading
      BY <2>1, <2>2, Zenon DEF PlaceMulti
    <3> QED
      BY <1>6, <2>1, <3>1, <3>2, <3>3, <3>4, Zenon DEF PlaceMulti
  <2> QED
    BY <1>8, <2>3, <2>8, WriterPicksInv, Zenon DEF InvOf, Place, Single, Double, DoubleWr, Triple, Multi
<1> QED
  BY <1>4, <1>7, <1>8, Zenon

\* TRIPLE_NOC looks which buffer is being read.
LEMMA WriteLookKeeps ==
  ASSUME NEW I \in Implementation, InvOf(I), WriteLook
  PROVE  InvOf(I)'
<1>1. Types(I) /\ WriterInv(I) /\ ReaderInv(I) /\ Place(I) /\ IMPL = I
  BY Zenon DEF InvOf
<1>2. WriteRow(I)
  BY Rows, Zenon
<1>3. wpc = LookW(I) /\ wpc \in 1 .. LastW(I)
  BY <1>1, AtWritePosition, Zenon DEF WriteLook, WriteStep, WriteAt
<1>4. I = Triple /\ wpc = 6
  BY <1>2, <1>3 DEF WriteRow
<1>5. /\ wpc' = wpc + 1 /\ reading_seen' = reading
      /\ UNCHANGED <<smp_dma, client, begun, returned, next, reader, others>>
  BY Zenon DEF WriteLook, WriteStep
<1>6. UNCHANGED <<rpc, next, newest, reading, newest_seen, next_reading, bufs, floor>> /\ (Told' <=> Told) /\ wpc' = 7
  BY <1>4, <1>5 DEF reader, others, Told
<1>7. WriterPicks(I)
  BY <1>1, <1>3, <1>5 DEF WriterPicks, Types
<1>8. PlaceTriple /\ Latest(Triple)' = Latest(Triple)
  BY <1>1, <1>4, <1>7, WriterPicksInv, Zenon DEF Place
<1>9. PlaceTriple'
  BY <1>4, <1>5, <1>6, <1>8 DEF PlaceTriple
<1> QED
  BY <1>4, <1>7, <1>9, WriterPicksInv, Zenon DEF InvOf, Place, Single, Double, DoubleWr, Triple, Multi

\* DOUBLE_NOC and TRIPLE_NOC pick the next buffer after they have published this one.
LEMMA WriteAdvanceKeeps ==
  ASSUME NEW I \in Implementation, InvOf(I), WriteAdvance
  PROVE  InvOf(I)'
<1>1. Types(I) /\ WriterInv(I) /\ ReaderInv(I) /\ Place(I) /\ IMPL = I
  BY Zenon DEF InvOf
<1>2. WriteRow(I)
  BY Rows, Zenon
<1>3. wpc = AdvanceW(I) /\ wpc \in 1 .. LastW(I)
  BY <1>1, AtWritePosition, Zenon DEF WriteAdvance, WriteStep, WriteAt
<1>4. (I = Double /\ wpc = 7) \/ (I = Triple /\ wpc = 8)
  BY <1>2, <1>3 DEF WriteRow
<1>5. /\ wpc' = wpc + 1
      /\ next' = IF IMPL = "DOUBLE_NOC" THEN Flip(next)
                 ELSE IF Following(next) = reading_seen THEN Following(reading_seen) ELSE Following(next)
      /\ UNCHANGED <<smp_dma, client, begun, returned, reading_seen, reader, others>>
  BY Zenon DEF WriteAdvance, WriteStep
<1>6. UNCHANGED <<rpc, newest, reading, newest_seen, reading_seen, next_reading, bufs, floor>> /\ (Told' <=> Told)
  BY <1>5, Zenon DEF reader, others, Told
<1>7. CASE I = Double /\ wpc = 7
  <2>1. PlaceDouble
    BY <1>1, <1>7, Zenon DEF Place
  <2>2. next' = Flip(next) /\ wpc' = 8
    BY <1>1, <1>5, <1>7 DEF Double
  <2>3. next' \in 0 .. 1 /\ next' # newest
    BY <2>1, <2>2, <1>7 DEF PlaceDouble, Flip
  <2>4. WriterPicks(I)
    BY <1>1, <1>3, <1>5, <2>3 DEF WriterPicks, Types, Memory
  <2>5. Latest(Double)' = Latest(Double)
    BY <1>7, <2>4, WriterPicksInv, Zenon
  <2>6. PlaceDouble'
    BY <1>6, <2>1, <2>2, <2>3, <2>5 DEF PlaceDouble
  <2> QED
    BY <1>7, <2>4, <2>6, WriterPicksInv, Zenon DEF InvOf, Place, Single, Double, DoubleWr, Triple, Multi
<1>8. CASE I = Triple /\ wpc = 8
  <2>1. PlaceTriple
    BY <1>1, <1>8, Zenon DEF Place
  <2>2. wpc' = 9 /\ next' = IF Following(next) = reading_seen THEN Following(reading_seen) ELSE Following(next)
    BY <1>1, <1>5, <1>8 DEF Triple
  <2>3. next \in 0 .. 2 /\ newest = next /\ reading \in {reading_seen, newest} /\ reading_seen \in -1 .. 2
    BY <2>1, <1>8 DEF PlaceTriple
  <2>4. next' \in 0 .. 2 /\ next' # newest /\ next' # reading
    BY <2>2, <2>3 DEF Following
  <2>5. WriterPicks(I)
    BY <1>1, <1>3, <1>5, <2>4 DEF WriterPicks, Types, Memory
  <2>6. Latest(Triple)' = Latest(Triple)
    BY <1>8, <2>5, WriterPicksInv, Zenon
  <2>7. PlaceTriple'
    BY <1>6, <2>1, <2>2, <2>4, <2>6 DEF PlaceTriple
  <2> QED
    BY <1>8, <2>5, <2>7, WriterPicksInv, Zenon DEF InvOf, Place, Single, Double, DoubleWr, Triple, Multi
<1> QED
  BY <1>4, <1>7, <1>8, Zenon
=============================================================================
