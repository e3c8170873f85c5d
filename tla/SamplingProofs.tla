--------------------------- MODULE SamplingProofs ----------------------------
(***************************************************************************)
(* The steps of mp_read, for each implementation of the sampling port, and *)
(* the arrival of a word or of an index keep the invariant of              *)
(* SamplingWriter too. So the DMA never writes into the buffer that        *)
(* mp_read is copying, and mp_read delivers one sample, recent enough.     *)
(***************************************************************************)
EXTENDS SamplingWriter

\* mp_read takes a step that neither looks for a buffer nor copies one, is called, or returns.
ReaderGoes(I) ==
  /\ rpc = 0 \/ rpc \notin {FetchR(I), StepR(I), CopyR(I)}
  /\ rpc = LockR(I) /\ rpc # 0 => client["source"] # "holding"
  /\ rpc = FollowR(I) /\ rpc # 0 => newest = next_reading
  /\ rpc' = IF rpc = LastR(I) + 1 THEN 0 ELSE rpc + 1
  /\ copied' = IF rpc = 0 THEN 0 ELSE copied
  /\ floor' = IF rpc = 0 /\ floor < returned THEN returned
              ELSE IF rpc = LastR(I) + 1 THEN sample[1] ELSE floor
  /\ smp_dma' \in Transfers /\ client' \in Clients
  /\ Told /\ smp_dma'["source"] = smp_dma["source"]
  /\ smp_dma'["sink"] = IF rpc # 0 /\ rpc = AnnounceR(I) THEN [what |-> "reading"] ELSE SmpIdle
  /\ client'["source"] = client["source"]
  /\ client'["sink"] = IF LockedR(I, rpc') THEN "holding" ELSE "idle"
  /\ UNCHANGED <<writer, next_reading, newest_seen, sample, others>>

\* The same for the steps of mp_read.
LEMMA ReaderClient ==
  ASSUME NEW I \in Implementation, Types(I), ReaderInv(I), rpc = 0 \/ rpc \notin {LockR(I), UnlockR(I)},
         client' = client, rpc' = rpc + 1
  PROVE  /\ client' \in Clients /\ client'["source"] = client["source"]
         /\ client'["sink"] = IF LockedR(I, rpc') THEN "holding" ELSE "idle"
<1>1. ReadRow(I)
  BY Rows, Zenon
<1>2. client["sink"] = IF LockedR(I, rpc) THEN "holding" ELSE "idle"
  BY Zenon DEF Types, ReaderInv, End
<1>3. rpc \in Nat
  BY DEF Types
<1>4. LockedR(I, rpc') <=> LockedR(I, rpc)
  BY <1>1, <1>3 DEF LockedR, ReadRow
<1> QED
  BY <1>2, <1>4, Zenon DEF Types, Clients

LEMMA CallReadGoes ==
  ASSUME NEW I \in Implementation, InvOf(I), CallRead
  PROVE  ReaderGoes(I)
<1>1. ReadRow(I)
  BY Rows, Zenon
<1>2. Types(I) /\ ReaderInv(I)
  BY Zenon DEF InvOf
<1>3. rpc = 0 /\ rpc' = rpc + 1 /\ copied' = 0 /\ floor' = (IF floor < returned THEN returned ELSE floor)
      /\ client' = client /\ smp_dma' = smp_dma
      /\ UNCHANGED <<writer, next_reading, newest_seen, sample, others>>
  BY DEF CallRead
<1>4. rpc # LastR(I) + 1 /\ rpc # AnnounceR(I) + 1
  BY <1>1, <1>3 DEF ReadRow
<1>5. Told
  BY <1>2, <1>4, Zenon DEF ReaderInv
<1>6. smp_dma \in Transfers
  BY <1>2, Zenon DEF Types, Transfers
<1>8. /\ client' \in Clients /\ client'["source"] = client["source"]
      /\ client'["sink"] = IF LockedR(I, rpc') THEN "holding" ELSE "idle"
  BY <1>2, <1>3, ReaderClient, Zenon
<1> QED
  BY <1>3, <1>4, <1>5, <1>6, <1>8, Zenon DEF ReaderGoes, Told

LEMMA ReadLockedGoes ==
  ASSUME NEW I \in Implementation, InvOf(I), ReadLocked
  PROVE  ReaderGoes(I)
<1>1. ReadRow(I)
  BY Rows, Zenon
<1>2. Types(I) /\ ReaderInv(I)
  BY Zenon DEF InvOf
<1>3. rpc = LockR(I) /\ rpc \in 1 .. LastR(I)
  BY AtReadPosition, Zenon DEF ReadLocked, ReadStep, ReadAt, InvOf
<1>4. rpc # 0 /\ rpc \notin {FetchR(I), StepR(I), CopyR(I), AnnounceR(I), FollowR(I)} /\ rpc # LastR(I) + 1
      /\ LockedR(I, rpc + 1)
  BY <1>1, <1>3 DEF LockedR, ReadRow
<1>5. Told
  BY <1>1, <1>2, <1>3 DEF ReaderInv, ReadRow
<1>6. client["source"] # "holding" /\ client' = [client EXCEPT !["sink"] = "holding"]
  BY Zenon DEF ReadLocked, Locking!Grant, Locking!Move, End
<1>7. client' \in Clients /\ client'["source"] = client["source"] /\ client'["sink"] = "holding"
  BY <1>2, <1>6, Zenon DEF Types, Clients, End
<1>8. smp_dma' = smp_dma /\ rpc' = rpc + 1 /\ UNCHANGED <<floor, copied, writer, next_reading, newest_seen, sample, others>>
  BY Zenon DEF ReadLocked, ReadStep
<1>9. smp_dma \in Transfers
  BY <1>2, Zenon DEF Types, Transfers
<1> QED
  BY <1>4, <1>5, <1>6, <1>7, <1>8, <1>9, Zenon DEF ReaderGoes, Told

LEMMA ReadUnlockGoes ==
  ASSUME NEW I \in Implementation, InvOf(I), ReadUnlock
  PROVE  ReaderGoes(I)
<1>1. ReadRow(I)
  BY Rows, Zenon
<1>2. Types(I) /\ ReaderInv(I)
  BY Zenon DEF InvOf
<1>3. rpc = UnlockR(I) /\ rpc \in 1 .. LastR(I)
  BY AtReadPosition, Zenon DEF ReadUnlock, ReadStep, ReadAt, InvOf
<1>4. rpc # 0 /\ rpc \notin {LockR(I), FetchR(I), StepR(I), CopyR(I), AnnounceR(I), FollowR(I)} /\ rpc # LastR(I) + 1
      /\ ~ LockedR(I, rpc + 1)
  BY <1>1, <1>3 DEF LockedR, ReadRow
<1>5. Told
  BY <1>1, <1>2, <1>3 DEF ReaderInv, ReadRow
<1>6. client' = [client EXCEPT !["sink"] = "idle"]
  BY Zenon DEF ReadUnlock, Locking!Yield, Locking!Move
<1>7. client' \in Clients /\ client'["source"] = client["source"] /\ client'["sink"] = "idle"
  BY <1>2, <1>6, Zenon DEF Types, Clients, End
<1>8. smp_dma' = smp_dma /\ rpc' = rpc + 1 /\ UNCHANGED <<floor, copied, writer, next_reading, newest_seen, sample, others>>
  BY Zenon DEF ReadUnlock, ReadStep
<1>9. smp_dma \in Transfers
  BY <1>2, Zenon DEF Types, Transfers
<1> QED
  BY <1>4, <1>5, <1>7, <1>8, <1>9, Zenon DEF ReaderGoes, Told

LEMMA ReadAnnounceGoes ==
  ASSUME NEW I \in Implementation, InvOf(I), ReadAnnounce
  PROVE  ReaderGoes(I)
<1>1. ReadRow(I)
  BY Rows, Zenon
<1>2. Types(I) /\ ReaderInv(I)
  BY Zenon DEF InvOf
<1>3. rpc = AnnounceR(I) /\ rpc \in 1 .. LastR(I)
  BY AtReadPosition, Zenon DEF ReadAnnounce, ReadStep, ReadAt, InvOf
<1>4. rpc # 0 /\ rpc \notin {LockR(I), UnlockR(I), FetchR(I), StepR(I), CopyR(I), FollowR(I)} /\ rpc # LastR(I) + 1
  BY <1>1, <1>3 DEF ReadRow
<1>5. rpc' = rpc + 1 /\ client' = client /\ UNCHANGED <<floor, copied, writer, next_reading, newest_seen, sample, others>>
  BY Zenon DEF ReadAnnounce, ReadStep
<1>6. smp_dma["sink"] = SmpIdle /\ smp_dma' = [smp_dma EXCEPT !["sink"] = [what |-> "reading"]]
  BY Zenon DEF ReadAnnounce, Dma!noc_write, Dma!noc_dma_done
<1>7. smp_dma' \in Transfers /\ smp_dma'["source"] = smp_dma["source"] /\ smp_dma'["sink"] = [what |-> "reading"]
  <2>1. smp_dma \in Transfers
    BY <1>2, Zenon DEF Types, Transfers
  <2> QED
    BY <1>6, <2>1, TransferFacts, Zenon DEF Transfers
<1>8. /\ client' \in Clients /\ client'["source"] = client["source"]
      /\ client'["sink"] = IF LockedR(I, rpc') THEN "holding" ELSE "idle"
  BY <1>2, <1>4, <1>5, ReaderClient, Zenon
<1> QED
  BY <1>3, <1>4, <1>5, <1>6, <1>7, <1>8, Zenon DEF ReaderGoes, Told

LEMMA ReadWaitGoes ==
  ASSUME NEW I \in Implementation, InvOf(I), ReadWait
  PROVE  ReaderGoes(I)
<1>1. ReadRow(I)
  BY Rows, Zenon
<1>2. Types(I) /\ ReaderInv(I)
  BY Zenon DEF InvOf
<1>3. AnnounceR(I) # 0 /\ rpc = AnnounceR(I) + 1
  BY AtReadPosition, Zenon DEF ReadWait, ReadStep, ReadAt, InvOf
<1>4. rpc # 0 /\ rpc # LastR(I) + 1
      /\ rpc \notin {LockR(I), UnlockR(I), FetchR(I), StepR(I), AnnounceR(I), CopyR(I), FollowR(I)}
  BY <1>1, <1>3 DEF ReadRow
<1>5. rpc' = rpc + 1 /\ client' = client /\ UNCHANGED <<floor, copied, writer, next_reading, newest_seen, sample, others>>
  BY Zenon DEF ReadWait, ReadStep
<1>6. smp_dma["sink"] = SmpIdle /\ smp_dma' = smp_dma /\ smp_dma \in Transfers
  BY <1>2, Zenon DEF ReadWait, Dma!noc_dma_done, Types, Transfers
<1>8. /\ client' \in Clients /\ client'["source"] = client["source"]
      /\ client'["sink"] = IF LockedR(I, rpc') THEN "holding" ELSE "idle"
  BY <1>2, <1>4, <1>5, ReaderClient, Zenon
<1> QED
  BY <1>4, <1>5, <1>6, <1>8, Zenon DEF ReaderGoes, Told

LEMMA ReadFollowGoes ==
  ASSUME NEW I \in Implementation, InvOf(I), ReadFollow
  PROVE  ReaderGoes(I)
<1>1. ReadRow(I)
  BY Rows, Zenon
<1>2. Types(I) /\ ReaderInv(I)
  BY Zenon DEF InvOf
<1>3. rpc = FollowR(I) /\ rpc \in 1 .. LastR(I)
  BY AtReadPosition, Zenon DEF ReadFollow, ReadStep, ReadAt, InvOf
<1>4. rpc # 0 /\ rpc \notin {LockR(I), UnlockR(I), FetchR(I), StepR(I), CopyR(I), AnnounceR(I)} /\ rpc # LastR(I) + 1
      /\ rpc # AnnounceR(I) + 1
  BY <1>1, <1>3 DEF ReadRow
<1>5. rpc' = rpc + 1 /\ client' = client /\ smp_dma' = smp_dma /\ newest = next_reading
      /\ UNCHANGED <<floor, copied, writer, next_reading, newest_seen, sample, others>>
  BY Zenon DEF ReadFollow, ReadStep
<1>6. Told /\ smp_dma \in Transfers
  BY <1>2, <1>4, Zenon DEF ReaderInv, Types, Transfers
<1>8. /\ client' \in Clients /\ client'["source"] = client["source"]
      /\ client'["sink"] = IF LockedR(I, rpc') THEN "holding" ELSE "idle"
  BY <1>2, <1>4, <1>5, ReaderClient, Zenon
<1> QED
  BY <1>4, <1>5, <1>6, <1>8, Zenon DEF ReaderGoes, Told

LEMMA ReadReturnGoes ==
  ASSUME NEW I \in Implementation, InvOf(I), ReadReturn
  PROVE  ReaderGoes(I)
<1>1. ReadRow(I)
  BY Rows, Zenon
<1>2. Types(I) /\ ReaderInv(I)
  BY Zenon DEF InvOf
<1>3. rpc = LastR(I) + 1
  BY ReadTable, Zenon DEF ReadReturn, Returning, InvOf
<1>4. rpc # 0 /\ rpc \notin {LockR(I), FetchR(I), StepR(I), CopyR(I), AnnounceR(I), FollowR(I)}
      /\ rpc # AnnounceR(I) + 1 /\ ~ LockedR(I, rpc) /\ ~ LockedR(I, 0)
  BY <1>1, <1>3 DEF LockedR, ReadRow
<1>5. rpc' = 0 /\ floor' = sample[1] /\ client' = client /\ smp_dma' = smp_dma
      /\ UNCHANGED <<copied, writer, next_reading, newest_seen, sample, others>>
  BY Zenon DEF ReadReturn
<1>6. smp_dma \in Transfers /\ client \in Clients
  BY <1>2, Zenon DEF Types, Transfers, Clients
<1>7. Told /\ client["sink"] = "idle"
  BY <1>2, <1>4, <1>6, Zenon DEF ReaderInv, Clients, End
<1> QED
  BY <1>3, <1>4, <1>5, <1>6, <1>7, Zenon DEF ReaderGoes, Told
-----------------------------------------------------------------------------
\* A step of mp_read that neither looks for a buffer nor copies one.
ReaderMoves(I) ==
  /\ rpc \in 0 .. LastR(I) + 1 /\ (rpc = 0 \/ rpc \notin {FetchR(I), StepR(I), CopyR(I)})
  /\ rpc' = IF rpc = LastR(I) + 1 THEN 0 ELSE rpc + 1
  /\ Told /\ (Told' <=> rpc = 0 \/ rpc # AnnounceR(I)) /\ (Sent' <=> Sent)

LEMMA ReaderGoesMoves ==
  ASSUME NEW I \in Implementation, Types(I), ReaderGoes(I)
  PROVE  ReaderMoves(I)
<1>1. /\ rpc = 0 \/ rpc \notin {FetchR(I), StepR(I), CopyR(I)}
      /\ rpc' = IF rpc = LastR(I) + 1 THEN 0 ELSE rpc + 1
      /\ Told /\ (Sent' <=> Sent)
  BY Zenon DEF ReaderGoes, Sent
<1>2. smp_dma'["sink"] = IF rpc # 0 /\ rpc = AnnounceR(I) THEN [what |-> "reading"] ELSE SmpIdle
  BY Zenon DEF ReaderGoes
<1>3. [what |-> "reading"] # SmpIdle
  BY TransferFacts, Zenon
<1>4. Told' <=> rpc = 0 \/ rpc # AnnounceR(I)
  BY <1>2, <1>3, Zenon DEF Told
<1>5. rpc \in 0 .. LastR(I) + 1
  BY Zenon DEF Types
<1> QED
  BY <1>1, <1>4, <1>5, Zenon DEF ReaderMoves

LEMMA ReaderGoesTypes ==
  ASSUME NEW I \in Implementation, Types(I), ReaderGoes(I)
  PROVE  Types(I)'
<1>1. rpc' \in 0 .. LastR(I) + 1
  BY ReaderGoesMoves, Rows DEF ReaderMoves, ReadRow
<1>2. smp_dma' \in Transfers /\ client' \in Clients
      /\ UNCHANGED <<writer, next_reading, newest_seen, sample, others>>
  BY Zenon DEF ReaderGoes
<1>3. floor' \in Nat /\ copied' \in 0 .. SampleWords
  <2>1. sample[1] \in Nat /\ floor \in Nat /\ returned \in Nat /\ copied \in 0 .. SampleWords
        /\ 0 \in 0 .. SampleWords
    BY TransferFacts, SamplingAssumption DEF Types
  <2> QED
    BY <2>1, Zenon DEF ReaderGoes
<1> QED
  BY <1>1, <1>2, <1>3, Zenon DEF Types, writer, others, Transfers, Clients

LEMMA ReaderGoesExclusion ==
  ASSUME NEW I \in Implementation, Types(I), WriterInv(I), Exclusion(I), ReaderGoes(I)
  PROVE  Exclusion(I)'
<1>1. wpc' = wpc
  BY Zenon DEF ReaderGoes, writer
<1>2. rpc = LockR(I) /\ rpc # 0 => ~ LockedW(I, wpc)
  BY Zenon DEF ReaderGoes, WriterInv
<1>3. LockedR(I, rpc') => LockedR(I, rpc) \/ (rpc = LockR(I) /\ rpc # 0)
  BY Rows, ReaderGoesMoves DEF ReaderMoves, LockedR, ReadRow
<1> QED
  BY <1>1, <1>2, <1>3, Zenon DEF Exclusion

\* Where mp_read decides without looking for the newest sample.
LEMMA ReaderBinds ==
  ASSUME NEW I \in Implementation, InvOf(I), ReaderGoes(I), rpc = BindR(I)
  PROVE  Valid(bufs[newest_seen], floor, Latest(I))
<1>1. Types(I) /\ WriterInv(I) /\ ReaderInv(I) /\ Place(I)
  BY Zenon DEF InvOf
<1>2. ReaderMoves(I) /\ ReadRow(I) /\ WriteRow(I)
  BY <1>1, ReaderGoesMoves, Rows, Zenon
<1>3. I = Single \/ I = Multi
  BY <1>2 DEF ReadRow, ReaderMoves
<1>4. CASE I = Single
  <2>1. rpc = LockR(I) /\ rpc # 0
    BY <1>2, <1>4 DEF ReadRow, Single, Double, DoubleWr, Triple, Multi
  <2>2. ~ LockedW(I, wpc)
    BY <2>1, <1>1, Zenon DEF ReaderGoes, WriterInv
  <2>3. wpc # 3
    BY <2>2, <1>2, <1>4 DEF LockedW, WriteRow, Single, Double, Triple, Multi
  <2>4. newest_seen = 0 /\ Holds(bufs[newest_seen], Latest(I))
    BY <2>3, <1>1, <1>4, Zenon DEF Place, PlaceSingle
  <2>5. bufs[newest_seen][1] = Latest(I) /\ Latest(I) \in Nat /\ floor <= Latest(I)
    BY <2>4, <1>1, TransferFacts, LatestType, Zenon DEF Holds, ReaderInv
  <2> QED
    BY <2>4, <2>5 DEF Valid
<1>5. CASE I = Multi
  <2>1. rpc = FollowR(I) /\ rpc = 5
    BY <1>2, <1>5, Zenon DEF ReadRow, Single, Double, DoubleWr, Triple, Multi
  <2>2. newest = next_reading
    BY <2>1 DEF ReaderGoes
  <2>3. PlaceMulti
    BY <1>1, <1>5, Zenon DEF Place
  <2>4. next = next_reading /\ newest_seen \in 0 .. 2 /\ next_reading = Following(newest_seen)
    BY <2>1, <2>2, <2>3 DEF PlaceMulti
  <2>5. next # newest_seen
    BY <2>4 DEF Following
  <2> QED
    BY <2>1, <2>3, <2>5, <1>5 DEF PlaceMulti
<1> QED
  BY <1>3, <1>4, <1>5, Zenon

LEMMA ReaderGoesInv ==
  ASSUME NEW I \in Implementation, InvOf(I), ReaderGoes(I)
  PROVE  ReaderInv(I)'
<1>1. Types(I) /\ WriterInv(I) /\ ReaderInv(I)
  BY Zenon DEF InvOf
<1>2. ReaderMoves(I) /\ ReadRow(I)
  BY <1>1, ReaderGoesMoves, Rows, Zenon
<1>3. /\ copied' = (IF rpc = 0 THEN 0 ELSE copied)
      /\ floor' = IF rpc = 0 /\ floor < returned THEN returned
                  ELSE IF rpc = LastR(I) + 1 THEN sample[1] ELSE floor
      /\ UNCHANGED <<newest_seen, sample, bufs>>
  BY Zenon DEF ReaderGoes, others
<1>4. Latest(I)' = Latest(I) /\ Latest(I) \in Nat /\ returned <= Latest(I)
  <2>1. UNCHANGED <<writer, bufs>> /\ smp_dma'["source"] = smp_dma["source"] /\ client'["source"] = client["source"]
    BY Zenon DEF ReaderGoes, others
  <2> QED
    BY <2>1, <1>1, WriterKept, LatestType, Zenon
<1>5. /\ client'["sink"] = "holding" <=> LockedR(I, rpc')
      /\ client'["sink"] # "waiting"
  BY Zenon DEF ReaderGoes
<1>6. ASSUME ~ Told'
      PROVE  AnnounceR(I) # 0 /\ rpc' = AnnounceR(I) + 1 /\ smp_dma'["sink"] = [what |-> "reading"]
  <2>1. rpc = AnnounceR(I) /\ rpc # 0
    BY <1>2, <1>6, Zenon DEF ReaderMoves
  <2>2. smp_dma'["sink"] = [what |-> "reading"]
    BY <2>1, Zenon DEF ReaderGoes
  <2>3. rpc' = AnnounceR(I) + 1
    BY <2>1, <1>2 DEF ReaderMoves, ReadRow
  <2> QED
    BY <2>1, <2>2, <2>3, Zenon
<1>7. rpc' \in 1 .. CopyR(I) => copied' = 0
  <2>1. rpc' \in 1 .. CopyR(I) => rpc = 0 \/ rpc \in 1 .. CopyR(I) - 1
    BY <1>2 DEF ReaderMoves, ReadRow
  <2> QED
    BY <2>1, <1>1, <1>3, Zenon DEF ReaderInv
<1>8. rpc' = CopyR(I) => copied' < SampleWords
  BY <1>2, <1>7, SamplingAssumption DEF ReadRow
<1>9. rpc' > CopyR(I) => rpc > CopyR(I) /\ rpc # 0 /\ rpc # LastR(I) + 1
  BY <1>2 DEF ReaderMoves, ReadRow
<1>10. rpc = LastR(I) + 1 => rpc > CopyR(I) /\ rpc # 0
  BY <1>2 DEF ReadRow
<1>11. rpc' > CopyR(I) =>
        /\ floor' <= sample[1] /\ sample[1] <= Latest(I)
        /\ \A w \in SampleWord : sample[w] = sample[1]
  BY <1>1, <1>3, <1>9, Zenon DEF ReaderInv
<1>12. floor' <= Latest(I)
  <2>1. floor <= Latest(I) /\ (rpc > CopyR(I) => sample[1] <= Latest(I))
    BY <1>1, Zenon DEF ReaderInv
  <2> QED
    BY <2>1, <1>3, <1>4, <1>10, Zenon
<1>13. ASSUME rpc' \in BindR(I) + 1 .. CopyR(I)
       PROVE  Valid(bufs[newest_seen], floor', Latest(I)) /\ \A w \in 1 .. copied' : sample[w] = bufs[newest_seen][1]
  <2>1. rpc = BindR(I) \/ rpc \in BindR(I) + 1 .. CopyR(I)
    BY <1>2, <1>13 DEF ReaderMoves, ReadRow
  <2>2. rpc # 0 /\ rpc # LastR(I) + 1 /\ rpc' \in 1 .. CopyR(I)
    BY <1>2, <1>13 DEF ReaderMoves, ReadRow
  <2>3. Valid(bufs[newest_seen], floor, Latest(I))
    BY <2>1, <1>1, ReaderBinds, Zenon DEF ReaderInv
  <2>4. floor' = floor /\ copied' = 0
    BY <2>2, <1>3, <1>7, Zenon
  <2> QED
    BY <2>3, <2>4
<1>14. rpc' \in 1 .. CopyR(I) - 1 => rpc' \in 1 .. CopyR(I)
  BY <1>2 DEF ReadRow
<1> QED
  BY <1>3, <1>4, <1>5, <1>6, <1>7, <1>8, <1>11, <1>12, <1>13, <1>14, Zenon DEF ReaderInv

LEMMA ReaderGoesPlace ==
  ASSUME NEW I \in Implementation, InvOf(I), ReaderGoes(I)
  PROVE  Place(I)'
<1>1. Types(I) /\ WriterInv(I) /\ Place(I)
  BY Zenon DEF InvOf
<1>2. ReaderMoves(I) /\ ReadRow(I)
  BY <1>1, ReaderGoesMoves, Rows, Zenon
<1>3. UNCHANGED <<wpc, next, newest, reading, newest_seen, reading_seen, next_reading, bufs>> /\ (Sent' <=> Sent)
  BY <1>2, Zenon DEF ReaderGoes, ReaderMoves, writer, others
<1>4. Latest(I)' = Latest(I)
  <2>1. UNCHANGED <<writer, bufs>> /\ smp_dma'["source"] = smp_dma["source"] /\ client'["source"] = client["source"]
    BY Zenon DEF ReaderGoes, others
  <2> QED
    BY <2>1, <1>1, WriterKept, Zenon
<1>5. ASSUME I = Single PROVE PlaceSingle'
  BY <1>1, <1>3, <1>4, <1>5, Zenon DEF Place, PlaceSingle
<1>6. ASSUME I = Double PROVE PlaceDouble'
  <2>1. rpc' \in 3 .. 4 => rpc \in 3 .. 4
    BY <1>2 DEF ReaderMoves, ReadRow
  <2> QED
    BY <2>1, <1>1, <1>3, <1>4, <1>6, Zenon DEF Place, PlaceDouble
<1>7. ASSUME I = DoubleWr \/ I = Triple
      PROVE  /\ rpc' \in 3 .. 5 => rpc \in 3 .. 5
             /\ rpc' \in 5 .. 6 \/ (rpc' = 4 /\ Told') => rpc \in 5 .. 6 \/ (rpc = 4 /\ Told)
  BY <1>2, <1>7 DEF ReaderMoves, ReadRow, Single, DoubleWr, Triple
<1>8. ASSUME I = DoubleWr PROVE PlaceDoubleWr'
  BY <1>1, <1>3, <1>4, <1>7, <1>8, Zenon DEF Place, PlaceDoubleWr
<1>9. ASSUME I = Triple PROVE PlaceTriple'
  BY <1>1, <1>3, <1>4, <1>7, <1>9, Zenon DEF Place, PlaceTriple
<1>10. ASSUME I = Multi PROVE PlaceMulti'
  <2>1. PlaceMulti /\ Latest(Multi)' = Latest(Multi)
    BY <1>1, <1>4, <1>10, Zenon DEF Place
  <2>2. FollowR(I) = 5 /\ LastR(I) = 6
    BY <1>2, <1>10, Zenon DEF ReadRow, Single, Double, DoubleWr, Triple, Multi
  <2>3. rpc \in 0 .. 7 /\ (rpc = 0 \/ rpc \notin {1, 2, 6}) /\ (rpc' = IF rpc = 7 THEN 0 ELSE rpc + 1)
        /\ Told /\ (Told' <=> rpc # 3)
    BY <1>2, <1>10 DEF ReaderMoves, ReadRow, Single, Double, DoubleWr, Triple, Multi
  <2>4. rpc = 5 => newest = next_reading
    BY <2>2 DEF ReaderGoes
  <2>5. rpc \notin {0, 7} => floor' = floor
    BY <2>2 DEF ReaderGoes
  <2>6. CASE rpc = 0
    <3>1. rpc' = 1
      BY <2>3, <2>6
    <3> QED
      BY <3>1, <2>1, <2>6, <1>3 DEF PlaceMulti
  <2>7. CASE rpc = 3
    <3>1. rpc' = 4 /\ ~ Told'
      BY <2>3, <2>7
    <3> QED
      BY <3>1, <2>1, <2>7, <1>3 DEF PlaceMulti
  <2>8. CASE rpc = 4
    <3>1. rpc' = 5 /\ Told
      BY <2>3, <2>8
    <3> QED
      BY <3>1, <2>1, <2>5, <2>8, <1>3 DEF PlaceMulti
  <2>9. CASE rpc = 5
    <3>1. rpc' = 6
      BY <2>3, <2>9
    <3>2. next = next_reading /\ reading = next_reading /\ newest_seen \in 0 .. 2
          /\ next_reading = Following(newest_seen)
      BY <2>1, <2>4, <2>9 DEF PlaceMulti
    <3>3. newest_seen # next_reading
      BY <3>2 DEF Following
    <3> QED
      BY <3>1, <3>3, <2>1, <2>4, <2>5, <2>9, <1>3 DEF PlaceMulti
  <2>10. CASE rpc = 7
    <3>1. rpc' = 0
      BY <2>3, <2>10, Zenon
    <3> QED
      BY <3>1, <2>1, <2>10, <1>3 DEF PlaceMulti
  <2> QED
    BY <2>3, <2>6, <2>7, <2>8, <2>9, <2>10
<1> QED
  BY <1>5, <1>6, <1>8, <1>9, <1>10, Zenon DEF Place

LEMMA ReaderGoesKeeps ==
  ASSUME NEW I \in Implementation, InvOf(I), ReaderGoes(I)
  PROVE  InvOf(I)'
<1>1. Types(I) /\ WriterInv(I) /\ ReaderInv(I) /\ Exclusion(I) /\ Place(I) /\ IMPL = I
  BY Zenon DEF InvOf
<1>2. Types(I)' /\ ReaderInv(I)' /\ Exclusion(I)' /\ Place(I)'
  BY <1>1, ReaderGoesTypes, ReaderGoesInv, ReaderGoesExclusion, ReaderGoesPlace, Zenon
<1>3. /\ UNCHANGED <<writer, bufs>> /\ IMPL' = IMPL
      /\ smp_dma'["source"] = smp_dma["source"] /\ client'["source"] = client["source"]
  BY Zenon DEF ReaderGoes, others
<1>4. WriterInv(I)'
  BY <1>1, <1>3, WriterKept, Zenon
<1> QED
  BY <1>2, <1>3, <1>4, Zenon DEF InvOf
LEMMA ReadLockKeeps ==
  ASSUME NEW I \in Implementation, InvOf(I), ReadLock
  PROVE  InvOf(I)'
<1>1. Types(I) /\ WriterInv(I) /\ ReaderInv(I) /\ Exclusion(I) /\ Place(I) /\ IMPL = I
  BY Zenon DEF InvOf
<1>2. rpc = LockR(I) /\ rpc # 0
  BY <1>1, AtReadPosition DEF ReadLock, ReadAt
<1>3. client["sink"] = "idle" /\ client' = [client EXCEPT !["sink"] = "waiting"]
      /\ UNCHANGED <<smp_dma, writer, reader, others>>
  BY Zenon DEF ReadLock, Locking!Request, Locking!Move
<1>4. client' \in Clients /\ client'["source"] = client["source"] /\ client'["sink"] = "waiting"
  BY <1>1, <1>3, Zenon DEF Types, Clients, End
<1>5. Types(I)'
  BY <1>1, <1>3, Zenon DEF Types, writer, reader, others
<1>6. UNCHANGED <<wpc, rpc, newest_seen, sample, copied, floor, bufs>> /\ (Told' <=> Told)
  BY <1>3, Zenon DEF writer, reader, others, Told
<1>7. WriterInv(I)' /\ Latest(I)' = Latest(I)
  BY <1>1, <1>3, <1>4, <1>6, WriterKept, Zenon
<1>8. ReaderInv(I)'
  BY <1>1, <1>2, <1>3, <1>4, <1>6, <1>7, Zenon DEF ReaderInv
<1>9. Exclusion(I)' /\ IMPL' = I
  BY <1>1, <1>3, <1>6, Zenon DEF Exclusion, others
<1>10. Place(I)'
  BY <1>1, <1>3, PlaceSame, Zenon
<1> QED
  BY <1>5, <1>7, <1>8, <1>9, <1>10, Zenon DEF InvOf

LEMMA StutterKeeps ==
  ASSUME NEW I \in Implementation, InvOf(I), UNCHANGED smpvars
  PROVE  InvOf(I)'
<1>1. Types(I) /\ WriterInv(I) /\ ReaderInv(I) /\ Exclusion(I) /\ Place(I) /\ IMPL = I
  BY Zenon DEF InvOf
<1>2. UNCHANGED <<smp_dma, client, writer, reader, others>>
  BY Zenon DEF smpvars
<1>3. Types(I)'
  BY <1>1, <1>2, Zenon DEF Types, writer, reader, others
<1>4. UNCHANGED <<wpc, rpc, bufs>> /\ IMPL' = I
  BY <1>1, <1>2, Zenon DEF writer, reader, others
<1>5. WriterInv(I)' /\ Latest(I)' = Latest(I)
  BY <1>1, <1>2, <1>4, WriterKept, Zenon
<1>6. ReaderInv(I)'
  <2>1. Latest(I) \in Nat
    BY <1>1, LatestType, Zenon
  <2> QED
    BY <2>1, <1>1, <1>2, <1>4, <1>5, ReaderKept
<1>7. Exclusion(I)' /\ Place(I)'
  BY <1>1, <1>2, <1>4, PlaceSame, Zenon DEF Exclusion
<1> QED
  BY <1>3, <1>4, <1>5, <1>6, <1>7, Zenon DEF InvOf
-----------------------------------------------------------------------------
\* The newest sample, when mp_read looks for it.
LEMMA NewestIsLatest ==
  ASSUME NEW I \in Implementation, InvOf(I), rpc = FetchR(I), rpc # 0, I # Multi
  PROVE  Valid(bufs[newest], floor, Latest(I))
<1>1. Types(I) /\ WriterInv(I) /\ ReaderInv(I) /\ Exclusion(I) /\ Place(I)
  BY Zenon DEF InvOf
<1>2. WriteRow(I) /\ ReadRow(I)
  BY Rows, Zenon
<1>3. I \in {Double, DoubleWr, Triple} /\ LockedR(I, rpc)
  BY <1>2 DEF ReadRow, LockedR
<1>4. Holds(bufs[newest], Latest(I))
  <2>1. CASE I = Double
    BY <1>1, <2>1, Zenon DEF Place, PlaceDouble
  <2>2. CASE I = DoubleWr
    <3>1. wpc \notin 4 .. 5 /\ wpc # 6
      BY <1>1, <1>2, <1>3 DEF Exclusion, LockedW, WriteRow, Single, Double, DoubleWr, Triple
    <3> QED
      BY <3>1, <1>1, <2>2, Zenon DEF Place, PlaceDoubleWr
  <2>3. CASE I = Triple
    BY <1>1, <2>3, Zenon DEF Place, PlaceTriple
  <2> QED
    BY <1>3, <2>1, <2>2, <2>3, Zenon
<1>5. bufs[newest][1] = Latest(I) /\ Latest(I) \in Nat /\ floor <= Latest(I)
  BY <1>4, <1>1, TransferFacts, LatestType, Zenon DEF Holds, ReaderInv
<1> QED
  BY <1>4, <1>5 DEF Valid

LEMMA ReadFetchKeeps ==
  ASSUME NEW I \in Implementation, InvOf(I), ReadFetch
  PROVE  InvOf(I)'
<1>1. Types(I) /\ WriterInv(I) /\ ReaderInv(I) /\ Exclusion(I) /\ Place(I) /\ IMPL = I
  BY Zenon DEF InvOf
<1>2. WriteRow(I) /\ ReadRow(I)
  BY Rows, Zenon
<1>3. rpc = FetchR(I) /\ rpc \in 1 .. LastR(I)
  BY <1>1, AtReadPosition, Zenon DEF ReadFetch, ReadAt
<1>4. /\ newest_seen' = newest
      /\ rpc' = IF IMPL = "MULTI_NOC_NONBLOCKING" /\ newest < 0 THEN 0 ELSE rpc + 1
      /\ UNCHANGED <<smp_dma, client, writer, next_reading, sample, copied, floor, others>>
  BY Zenon DEF ReadFetch
<1>5. UNCHANGED <<wpc, next, newest, reading, reading_seen, next_reading, bufs, floor, IMPL>>
      /\ (Told' <=> Told) /\ (Sent' <=> Sent)
  BY <1>4, Zenon DEF writer, others, Told, Sent
<1>6. \/ I \in {Double, DoubleWr, Triple} /\ rpc = 2 /\ rpc' = 3
      \/ I = Multi /\ rpc = 1 /\ rpc' \in {0, 2}
  <2>1. I = Multi => IMPL = "MULTI_NOC_NONBLOCKING"
    BY <1>1, Zenon DEF Multi
  <2>2. I # Multi => IMPL # "MULTI_NOC_NONBLOCKING"
    BY <1>1, Zenon DEF Multi
  <2> QED
    BY <1>2, <1>3, <1>4, <2>2 DEF ReadRow, Double, DoubleWr, Triple, Multi
<1>7. rpc' \in 0 .. LastR(I) + 1 /\ (LockedR(I, rpc') <=> LockedR(I, rpc)) /\ rpc # AnnounceR(I) + 1
      /\ rpc # LockR(I) /\ rpc \in 1 .. CopyR(I) - 1 /\ ~ (rpc' > CopyR(I))
      /\ (rpc' \in BindR(I) + 1 .. CopyR(I) => I # Multi)
  BY <1>2, <1>6 DEF LockedR, ReadRow, Single, Double, DoubleWr, Triple, Multi
<1>8. Types(I)'
  BY <1>1, <1>4, <1>7, Zenon DEF Types, writer, others
<1>9. WriterInv(I)' /\ Latest(I)' = Latest(I)
  BY <1>1, <1>4, <1>5, WriterKept, Zenon
<1>10. ReaderInv(I)'
  <2>1. copied = 0 /\ copied < SampleWords
    <3>1. copied = 0
      BY <1>1, <1>7, Zenon DEF ReaderInv
    <3> QED
      BY <3>1, SamplingAssumption
  <2>2. rpc' \in BindR(I) + 1 .. CopyR(I) => Valid(bufs[newest], floor, Latest(I))
    BY <1>3, <1>7, NewestIsLatest
  <2>3. \A w \in 1 .. copied : FALSE
    BY <2>1
  <2>4. /\ client["sink"] = "holding" <=> LockedR(I, rpc)
        /\ client["sink"] # "waiting"
        /\ Told /\ floor <= Latest(I)
    BY <1>1, <1>7, Zenon DEF ReaderInv
  <2> QED
    BY <1>4, <1>5, <1>7, <1>9, <2>1, <2>2, <2>3, <2>4, Zenon DEF ReaderInv
<1>11. Exclusion(I)' /\ IMPL' = I
  BY <1>1, <1>5, <1>7, Zenon DEF Exclusion
<1>12. Place(I)'
  <2>1. ASSUME I = Single PROVE PlaceSingle'
    BY <1>6, <2>1, Zenon DEF Single, Double, DoubleWr, Triple, Multi
  <2>2. ASSUME I \in {Double, DoubleWr, Triple} PROVE rpc' = 3
    BY <1>6, <2>2, Zenon DEF Double, DoubleWr, Triple, Multi
  <2>3. ASSUME I = Double PROVE PlaceDouble'
    <3>1. PlaceDouble /\ Latest(Double)' = Latest(Double)
      BY <1>1, <1>9, <2>3, Zenon DEF Place
    <3> QED
      BY <3>1, <1>4, <1>5, Zenon DEF PlaceDouble
  <2>4. ASSUME I = DoubleWr PROVE PlaceDoubleWr'
    <3>1. PlaceDoubleWr /\ Latest(DoubleWr)' = Latest(DoubleWr)
      BY <1>1, <1>9, <2>4, Zenon DEF Place
    <3> QED
      BY <3>1, <1>4, <1>5, <2>2, <2>4 DEF PlaceDoubleWr
  <2>5. ASSUME I = Triple PROVE PlaceTriple'
    <3>1. PlaceTriple /\ Latest(Triple)' = Latest(Triple)
      BY <1>1, <1>9, <2>5, Zenon DEF Place
    <3> QED
      BY <3>1, <1>4, <1>5, <2>2, <2>5 DEF PlaceTriple
  <2>6. ASSUME I = Multi PROVE PlaceMulti'
    <3>1. PlaceMulti /\ Latest(Multi)' = Latest(Multi)
      BY <1>1, <1>9, <2>6, Zenon DEF Place
    <3>2. rpc = 1 /\ rpc' = IF newest < 0 THEN 0 ELSE 2
      BY <1>1, <1>4, <1>6, <2>6 DEF Double, DoubleWr, Triple, Multi
    <3>3. rpc' = 2 => newest = next_reading
      BY <3>1, <3>2 DEF PlaceMulti
    <3> QED
      BY <3>1, <3>2, <1>4, <1>5 DEF PlaceMulti
  <2> QED
    BY <2>1, <2>3, <2>4, <2>5, <2>6, Zenon DEF Place
<1> QED
  BY <1>8, <1>9, <1>10, <1>11, <1>12, Zenon DEF InvOf

\* MULTI_NOC_NONBLOCKING turns to the next buffer.
LEMMA ReadTurnKeeps ==
  ASSUME NEW I \in Implementation, InvOf(I), ReadTurn
  PROVE  InvOf(I)'
<1>1. Types(I) /\ WriterInv(I) /\ ReaderInv(I) /\ Exclusion(I) /\ Place(I) /\ IMPL = I
  BY Zenon DEF InvOf
<1>2. ReadRow(I)
  BY Rows, Zenon
<1>3. rpc = StepR(I) /\ rpc \in 1 .. LastR(I)
  BY <1>1, AtReadPosition, Zenon DEF ReadTurn, ReadStep, ReadAt
<1>4. I = Multi /\ rpc = 2
  BY <1>2, <1>3 DEF ReadRow
<1>5. /\ next_reading' = Following(next_reading) /\ rpc' = 3
      /\ UNCHANGED <<smp_dma, client, writer, newest_seen, sample, copied, floor, others>>
  BY <1>4 DEF ReadTurn, ReadStep
<1>6. UNCHANGED <<wpc, next, newest, reading, newest_seen, bufs, floor, IMPL>> /\ (Told' <=> Told) /\ (Sent' <=> Sent)
  BY <1>5, Zenon DEF writer, others, Told, Sent
<1>7. rpc' \in 0 .. LastR(I) + 1 /\ ~ LockedR(I, rpc') /\ ~ LockedR(I, rpc) /\ rpc # AnnounceR(I) + 1
      /\ rpc # LockR(I) /\ rpc \in 1 .. CopyR(I) - 1 /\ ~ (rpc' > CopyR(I)) /\ rpc' # CopyR(I)
      /\ rpc' \notin BindR(I) + 1 .. CopyR(I)
  BY <1>2, <1>4, <1>5 DEF LockedR, ReadRow, Single, Double, DoubleWr, Triple, Multi
<1>8. Types(I)'
  <2>1. next_reading' \in 0 .. 2
    BY <1>1, <1>5 DEF Types, Following
  <2> QED
    BY <2>1, <1>1, <1>5, <1>7, Zenon DEF Types, writer, others
<1>9. WriterInv(I)' /\ Latest(I)' = Latest(I)
  BY <1>1, <1>5, <1>6, WriterKept, Zenon
<1>10. ReaderInv(I)'
  BY <1>1, <1>5, <1>6, <1>7, <1>9, Zenon DEF ReaderInv
<1>11. Exclusion(I)' /\ IMPL' = I
  BY <1>1, <1>6, <1>7, Zenon DEF Exclusion
<1>12. PlaceMulti'
  <2>1. PlaceMulti /\ Latest(Multi)' = Latest(Multi)
    BY <1>1, <1>4, <1>9, Zenon DEF Place
  <2>2. newest_seen = next_reading /\ next_reading \in 0 .. 2
    BY <2>1, <1>4, Zenon DEF PlaceMulti
  <2> QED
    BY <2>1, <1>4, <1>5, <1>6 DEF PlaceMulti
<1> QED
  BY <1>4, <1>8, <1>9, <1>10, <1>11, <1>12, Zenon DEF InvOf, Place, Single, Double, DoubleWr, Triple, Multi

\* One word is copied.
LEMMA ReadCopyKeeps ==
  ASSUME NEW I \in Implementation, InvOf(I), ReadCopy
  PROVE  InvOf(I)'
<1>1. Types(I) /\ WriterInv(I) /\ ReaderInv(I) /\ Exclusion(I) /\ Place(I) /\ IMPL = I
  BY Zenon DEF InvOf
<1>2. ReadRow(I)
  BY Rows, Zenon
<1>3. rpc = CopyR(I) /\ rpc \in 1 .. LastR(I)
  BY <1>1, AtReadPosition, Zenon DEF ReadCopy, ReadAt
<1>4. /\ sample' = [sample EXCEPT ![copied + 1] = bufs[newest_seen][copied + 1]]
      /\ copied' = copied + 1
      /\ rpc' = IF copied' = SampleWords THEN rpc + 1 ELSE rpc
      /\ UNCHANGED <<smp_dma, client, writer, next_reading, newest_seen, floor, others>>
  BY Zenon DEF ReadCopy
<1>5. UNCHANGED <<wpc, next, newest, reading, reading_seen, next_reading, newest_seen, bufs, floor, IMPL>>
      /\ (Told' <=> Told) /\ (Sent' <=> Sent)
  BY <1>4, Zenon DEF writer, others, Told, Sent
<1>6. /\ rpc' \in {CopyR(I), CopyR(I) + 1} /\ rpc' \in 0 .. LastR(I) + 1
      /\ LockedR(I, rpc') <=> LockedR(I, rpc)
      /\ rpc # LockR(I) /\ rpc # AnnounceR(I) + 1 /\ rpc \in BindR(I) + 1 .. CopyR(I)
      /\ rpc' \notin 1 .. CopyR(I) - 1
  BY <1>2, <1>3, <1>4 DEF LockedR, ReadRow
<1>7. copied \in Nat /\ copied < SampleWords /\ copied + 1 \in SampleWord /\ SampleWords \in Nat
  <2>1. copied < SampleWords
    BY <1>1, <1>3, Zenon DEF ReaderInv
  <2> QED
    BY <2>1, <1>1, SamplingAssumption DEF Types, SampleWord
<1>8. bufs[newest_seen] \in [SampleWord -> Nat] /\ sample \in [SampleWord -> Nat]
  BY <1>1, Zenon DEF Types
<1>9. Types(I)'
  <2>1. sample' \in [SampleWord -> Nat] /\ copied' \in 0 .. SampleWords
    BY <1>4, <1>7, <1>8
  <2> QED
    BY <2>1, <1>1, <1>4, <1>6, Zenon DEF Types, writer, others
<1>10. WriterInv(I)' /\ Latest(I)' = Latest(I)
  BY <1>1, <1>4, <1>5, WriterKept, Zenon
<1>11. ReaderInv(I)'
  <2>1. Valid(bufs[newest_seen], floor, Latest(I)) /\ \A w \in 1 .. copied : sample[w] = bufs[newest_seen][1]
    BY <1>1, <1>6, Zenon DEF ReaderInv
  <2>2. bufs[newest_seen][copied + 1] = bufs[newest_seen][1]
    BY <2>1, <1>7, Zenon DEF Valid, Holds
  <2>3. \A w \in 1 .. copied' : sample'[w] = bufs[newest_seen][1]
    BY <2>1, <2>2, <1>4, <1>7, <1>8
  <2>4. rpc' > CopyR(I) => copied' = SampleWords
    BY <1>3, <1>4
  <2>5. rpc' > CopyR(I) =>
          /\ sample'[1] = bufs[newest_seen][1]
          /\ \A w \in SampleWord : sample'[w] = sample'[1]
    <3>1. 1 \in 1 .. SampleWords
      BY TransferFacts, Zenon DEF SampleWord
    <3> QED
      BY <3>1, <2>3, <2>4, Zenon DEF SampleWord
  <2>6. floor <= bufs[newest_seen][1] /\ bufs[newest_seen][1] <= Latest(I)
    BY <2>1, Zenon DEF Valid
  <2>7. rpc' = CopyR(I) => copied' < SampleWords
    BY <1>3, <1>4, <1>7
  <2>8. /\ client["sink"] = "holding" <=> LockedR(I, rpc)
        /\ client["sink"] # "waiting"
        /\ Told /\ floor <= Latest(I)
    BY <1>1, <1>6, Zenon DEF ReaderInv
  <2> QED
    BY <1>4, <1>5, <1>6, <1>10, <2>1, <2>3, <2>5, <2>6, <2>7, <2>8, Zenon DEF ReaderInv
<1>12. Exclusion(I)' /\ IMPL' = I
  BY <1>1, <1>5, <1>6, Zenon DEF Exclusion
<1>13. Place(I)'
  <2>1. ASSUME I = Single PROVE PlaceSingle'
    BY <1>1, <1>5, <1>10, <2>1, Zenon DEF Place, PlaceSingle
  <2>2. ASSUME I = Double PROVE PlaceDouble'
    <3>1. PlaceDouble /\ Latest(Double)' = Latest(Double)
      BY <1>1, <1>10, <2>2, Zenon DEF Place
    <3>2. rpc = 3
      BY <1>2, <1>3, <2>2, Zenon DEF ReadRow, Single, Double, DoubleWr, Triple, Multi
    <3> QED
      BY <3>1, <3>2, <1>5 DEF PlaceDouble
  <2>3. ASSUME I \in {DoubleWr, Triple, Multi} PROVE rpc = 6 /\ rpc' \in {6, 7}
    BY <1>2, <1>3, <1>6, <2>3 DEF ReadRow, Single, Double, DoubleWr, Triple, Multi
  <2>4. ASSUME I = DoubleWr PROVE PlaceDoubleWr'
    <3>1. PlaceDoubleWr /\ Latest(DoubleWr)' = Latest(DoubleWr)
      BY <1>1, <1>10, <2>4, Zenon DEF Place
    <3> QED
      BY <3>1, <1>5, <2>3, <2>4 DEF PlaceDoubleWr
  <2>5. ASSUME I = Triple PROVE PlaceTriple'
    <3>1. PlaceTriple /\ Latest(Triple)' = Latest(Triple)
      BY <1>1, <1>10, <2>5, Zenon DEF Place
    <3> QED
      BY <3>1, <1>5, <2>3, <2>5 DEF PlaceTriple
  <2>6. ASSUME I = Multi PROVE PlaceMulti'
    <3>1. PlaceMulti /\ Latest(Multi)' = Latest(Multi)
      BY <1>1, <1>10, <2>6, Zenon DEF Place
    <3> QED
      BY <3>1, <1>5, <2>3, <2>6 DEF PlaceMulti
  <2> QED
    BY <2>1, <2>2, <2>4, <2>5, <2>6, Zenon DEF Place
<1> QED
  BY <1>9, <1>10, <1>11, <1>12, <1>13, Zenon DEF InvOf
-----------------------------------------------------------------------------
\* The writer's DMA does not write into the buffer that mp_read is going to copy.
LEMMA Apart ==
  ASSUME NEW I \in Implementation, InvOf(I), wpc = SendW(I) + 1, rpc \in BindR(I) + 1 .. CopyR(I)
  PROVE  next # newest_seen
<1>1. Types(I) /\ Exclusion(I) /\ Place(I)
  BY Zenon DEF InvOf
<1>2. WriteRow(I) /\ ReadRow(I)
  BY Rows, Zenon
<1>3. CASE I = Single
  <2>1. wpc = 3 /\ rpc = 2 /\ LockW(I) = 1 /\ UnlockW(I) = 4 /\ LockR(I) = 1 /\ UnlockR(I) = 3
    BY <1>2, <1>3 DEF WriteRow, ReadRow, Single, Double, DoubleWr, Triple, Multi
  <2> QED
    BY <2>1, <1>1 DEF Exclusion, LockedW, LockedR
<1>4. CASE I = Double
  <2>1. wpc = 2 /\ rpc = 3
    BY <1>2, <1>4 DEF WriteRow, ReadRow, Single, Double, DoubleWr, Triple, Multi
  <2> QED
    BY <2>1, <1>1, <1>4 DEF Place, PlaceDouble
<1>5. CASE I = DoubleWr
  <2>1. wpc = 4 /\ rpc \in 3 .. 6 /\ LockW(I) = 1 /\ UnlockW(I) = 7 /\ LockR(I) = 1 /\ UnlockR(I) = 5
    BY <1>2, <1>5 DEF WriteRow, ReadRow, Single, Double, DoubleWr, Triple, Multi
  <2>2. rpc = 6
    BY <2>1, <1>1 DEF Exclusion, LockedW, LockedR
  <2>3. next = Flip(reading) /\ newest_seen = reading /\ reading \in -2 .. 1
    BY <2>1, <2>2, <1>1, <1>5 DEF Place, PlaceDoubleWr
  <2> QED
    BY <2>3 DEF Flip
<1>6. CASE I = Triple
  <2>1. wpc = 2 /\ rpc \in 3 .. 6
    BY <1>2, <1>6 DEF WriteRow, ReadRow, Single, DoubleWr, Triple, Multi
  <2> QED
    BY <2>1, <1>1, <1>6 DEF Place, PlaceTriple
<1>7. CASE I = Multi
  <2>1. rpc = 6
    BY <1>2, <1>7 DEF ReadRow, Single, Double, DoubleWr, Triple, Multi
  <2> QED
    BY <2>1, <1>1, <1>7, Zenon DEF Place, PlaceMulti
<1> QED
  BY <1>3, <1>4, <1>5, <1>6, <1>7, Zenon DEF Implementation

\* The DMA delivers one word of the sample.
WordArrives(I) ==
  /\ wpc = SendW(I) + 1 /\ ~ Sent
  /\ smp_dma["source"] \in [what : {"sample"}, to : {next}, next : SampleWord]
  /\ bufs' = [bufs EXCEPT ![next] = [bufs[next] EXCEPT ![smp_dma["source"].next] = begun]]
  /\ smp_dma' \in Transfers /\ smp_dma'["sink"] = smp_dma["sink"]
  /\ smp_dma'["source"] = IF smp_dma["source"].next = SampleWords THEN SmpIdle
                          ELSE [what |-> "sample", to |-> next, next |-> smp_dma["source"].next + 1]
  /\ UNCHANGED <<IMPL, client, writer, reader, reading, newest>>

\* It delivers the index of the newest sample.
IndexArrives(I) ==
  /\ PublishW(I) # 0 /\ wpc = PublishW(I) + 1 /\ ~ Sent
  /\ newest' = next
  /\ smp_dma' \in Transfers /\ smp_dma'["sink"] = smp_dma["sink"] /\ Sent'
  /\ UNCHANGED <<IMPL, client, writer, reader, reading, bufs>>

LEMMA DeliverSourceCases ==
  ASSUME NEW I \in Implementation, InvOf(I), DeliverSource
  PROVE  WordArrives(I) \/ IndexArrives(I)
<1>1. Types(I) /\ WriterInv(I)
  BY Zenon DEF InvOf
<1>2. ~ Sent /\ UNCHANGED <<IMPL, client, writer, reader, reading>> /\ smp_dma \in Transfers
  BY <1>1, Zenon DEF DeliverSource, Dma!noc_dma_done, Sent, Types, Transfers
<1>3. ASSUME smp_dma["source"].what = "sample"
      PROVE  WordArrives(I)
  <2>1. wpc = SendW(I) + 1 /\ smp_dma["source"] \in [what : {"sample"}, to : {next}, next : SampleWord]
    <3>1. smp_dma["source"] # [what |-> "newest"]
      BY <1>3
    <3> QED
      BY <3>1, <1>1, <1>2, Zenon DEF WriterInv
  <2>2. smp_dma["source"].to = next /\ smp_dma["source"].next \in SampleWord
    BY <2>1, Zenon
  <2>3. /\ bufs' = [bufs EXCEPT ![smp_dma["source"].to][smp_dma["source"].next] = begun]
        /\ \/ /\ smp_dma["source"].next # SampleWords
              /\ smp_dma' = [smp_dma EXCEPT !["source"].next = smp_dma["source"].next + 1]
           \/ /\ smp_dma["source"].next = SampleWords
              /\ smp_dma' = [smp_dma EXCEPT !["source"] = SmpIdle]
        /\ UNCHANGED newest
    BY <1>3, Zenon DEF DeliverSource, Dma!DmaArrives
  <2>4. bufs' = [bufs EXCEPT ![next] = [bufs[next] EXCEPT ![smp_dma["source"].next] = begun]]
    BY <2>2, <2>3, Zenon
  <2>5. CASE smp_dma["source"].next # SampleWords
    <3>1. smp_dma' = [smp_dma EXCEPT !["source"] =
                        [what |-> "sample", to |-> next, next |-> smp_dma["source"].next + 1]]
      <4>1. [smp_dma["source"] EXCEPT !.next = smp_dma["source"].next + 1]
              = [what |-> "sample", to |-> next, next |-> smp_dma["source"].next + 1]
        BY <2>1
      <4>2. smp_dma' = [smp_dma EXCEPT !["source"] = [smp_dma["source"] EXCEPT !.next = smp_dma["source"].next + 1]]
        BY <2>3, <2>5, Zenon
      <4> QED
        BY <4>1, <4>2, Zenon
    <3>2. smp_dma["source"].next + 1 \in SampleWord
      BY <2>2, <2>5, SamplingAssumption DEF SampleWord
    <3>3. [what |-> "sample", to |-> next, next |-> smp_dma["source"].next + 1] \in Transfer
      BY <3>2, <1>1, TransferFacts, Zenon DEF Types
    <3>4. smp_dma' \in Transfers /\ smp_dma'["sink"] = smp_dma["sink"]
          /\ smp_dma'["source"] = [what |-> "sample", to |-> next, next |-> smp_dma["source"].next + 1]
      BY <3>1, <3>3, <1>2, TransferFacts, Zenon DEF Transfers
    <3> QED
      BY <1>2, <2>1, <2>3, <2>5, <3>4, Zenon DEF WordArrives
  <2>6. CASE smp_dma["source"].next = SampleWords
    <3>1. smp_dma' \in Transfers /\ smp_dma'["sink"] = smp_dma["sink"] /\ smp_dma'["source"] = SmpIdle
      BY <2>3, <2>6, <1>2, TransferFacts, Zenon DEF Transfers
    <3> QED
      BY <1>2, <2>1, <2>3, <2>6, <3>1, Zenon DEF WordArrives
  <2> QED
    BY <2>5, <2>6, Zenon
<1>4. ASSUME smp_dma["source"].what # "sample"
      PROVE  IndexArrives(I)
  <2>1. PublishW(I) # 0 /\ wpc = PublishW(I) + 1
    <3>1. smp_dma["source"] \notin [what : {"sample"}, to : {next}, next : SampleWord]
      BY <1>4, Zenon
    <3> QED
      BY <3>1, <1>1, <1>2, Zenon DEF WriterInv
  <2>2. newest' = next /\ smp_dma' = [smp_dma EXCEPT !["source"] = SmpIdle] /\ UNCHANGED bufs
    BY <1>4, Zenon DEF DeliverSource, Dma!DmaArrives
  <2>3. smp_dma' \in Transfers /\ smp_dma'["sink"] = smp_dma["sink"] /\ Sent'
    BY <2>2, <1>2, TransferFacts, Zenon DEF Transfers, Sent
  <2> QED
    BY <1>2, <2>1, <2>2, <2>3, Zenon DEF IndexArrives
<1> QED
  BY <1>3, <1>4, Zenon

LEMMA WordKeepsCommon ==
  ASSUME NEW I \in Implementation, InvOf(I), WordArrives(I)
  PROVE  /\ Types(I)' /\ WriterInv(I)' /\ ReaderInv(I)' /\ Exclusion(I)' /\ IMPL' = I
         /\ \A b \in Memory \ {next} : bufs'[b] = bufs[b]
         /\ Sent' => Holds(bufs'[next], begun)
         /\ Latest(I)' \in Nat /\ Latest(I) <= Latest(I)' /\ Latest(I) \in Nat
         /\ Latest(I)' = IF Sent' /\ CommitW(I) = SendW(I) THEN begun ELSE Latest(I)
<1>1. Types(I) /\ WriterInv(I) /\ ReaderInv(I) /\ Exclusion(I) /\ IMPL = I
  BY Zenon DEF InvOf
<1>2. WriteRow(I)
  BY Rows, Zenon
<1>3. /\ wpc = SendW(I) + 1 /\ ~ Sent
      /\ smp_dma' \in Transfers /\ smp_dma'["sink"] = smp_dma["sink"]
      /\ UNCHANGED <<IMPL, client, writer, reader, reading, newest>>
  BY Zenon DEF WordArrives
<1> DEFINE n == smp_dma["source"].next
<1>4. /\ bufs' = [bufs EXCEPT ![next] = [bufs[next] EXCEPT ![n] = begun]]
      /\ smp_dma'["source"] = IF n = SampleWords THEN SmpIdle ELSE [what |-> "sample", to |-> next, next |-> n + 1]
      /\ n \in SampleWord
  BY Zenon DEF WordArrives
<1>5. \A w \in SampleWord : w < n => bufs[next][w] = begun
  <2>1. wpc # PublishW(I) + 1 \/ PublishW(I) = 0
    BY <1>2, <1>3 DEF WriteRow
  <2> QED
    BY <2>1, <1>1, <1>3, Zenon DEF WriterInv
<1> HIDE DEF n
<1>6. next \in Memory /\ bufs \in [Memory -> [SampleWord -> Nat]] /\ begun \in Nat /\ SampleWords \in Nat
  BY <1>1, SamplingAssumption, Zenon DEF Types
<1>7. bufs' \in [Memory -> [SampleWord -> Nat]] /\ \A b \in Memory \ {next} : bufs'[b] = bufs[b]
  BY <1>4, <1>6, Zenon
<1>8. bufs'[next] = [bufs[next] EXCEPT ![n] = begun] /\ bufs[next] \in [SampleWord -> Nat]
  BY <1>4, <1>6, Zenon
<1>9. \A w \in SampleWord : w < n + 1 => bufs'[next][w] = begun
  <2>1. \A w \in SampleWord : bufs'[next][w] = IF w = n THEN begun ELSE bufs[next][w]
    BY <1>8, Zenon
  <2>2. n \in SampleWord
    BY <1>4, Zenon
  <2>3. \A w \in SampleWord : w < n + 1 => w < n \/ w = n
    BY <2>2 DEF SampleWord
  <2> QED
    BY <2>1, <2>3, <1>5, Zenon
<1>10. Sent' <=> n = SampleWords
  <2>1. n # SampleWords => [what |-> "sample", to |-> next, next |-> n + 1] # SmpIdle
    <3>1. n # SampleWords => n + 1 \in SampleWord
      BY <1>4, <1>6 DEF SampleWord
    <3> QED
      BY <3>1, <1>6, TransferFacts, Zenon
  <2> QED
    BY <2>1, <1>4, Zenon DEF Sent
<1>11. Sent' => Holds(bufs'[next], begun)
  BY <1>6, <1>9, <1>10 DEF Holds, SampleWord
<1>12. Types(I)'
  BY <1>1, <1>3, <1>7, Zenon DEF Types, writer, reader, Transfers
<1>13. UNCHANGED <<wpc, rpc, next, begun, returned>>
  BY <1>3, Zenon DEF writer, reader
<1>14. WriterInv(I)'
  <2>1. ASSUME ~ Sent'
        PROVE  /\ smp_dma'["source"] \in [what : {"sample"}, to : {next}, next : SampleWord]
               /\ \A w \in SampleWord : w < smp_dma'["source"].next => bufs'[next][w] = begun
    <3>1. n + 1 \in SampleWord /\ smp_dma'["source"] = [what |-> "sample", to |-> next, next |-> n + 1]
      BY <2>1, <1>4, <1>6, <1>10 DEF SampleWord
    <3> QED
      BY <3>1, <1>9
  <2>2. \/ wpc = SendW(I) + 1 /\ Sent'
        \/ wpc \in SendW(I) + 2 .. PublishW(I)
        \/ PublishW(I) # 0 /\ wpc = PublishW(I) + 1
        => Sent'
    BY <1>2, <1>3 DEF WriteRow
  <2>3. /\ returned = IF wpc = 0 THEN begun ELSE begun - 1
        /\ client["source"] = "holding" <=> LockedW(I, wpc)
        /\ client["source"] = "waiting" => wpc = LockW(I) /\ wpc # 0
    BY <1>1, Zenon DEF WriterInv
  <2> QED
    BY <1>3, <1>11, <1>13, <2>1, <2>2, <2>3, Zenon DEF WriterInv
<1>15. Latest(I)' = IF Sent' /\ CommitW(I) = SendW(I) THEN begun ELSE Latest(I)
  <2>1. Pending(I)
    BY <1>2, <1>3 DEF Pending, WriteRow
  <2>2. Pending(I)' <=> ~ (Sent' /\ CommitW(I) = SendW(I))
    BY <1>2, <1>3, <1>13 DEF Pending, WriteRow
  <2> QED
    BY <2>1, <2>2, <1>13, Zenon DEF Latest
<1>16. Latest(I) \in Nat /\ Latest(I) <= begun
  BY <1>1, LatestType, Zenon
<1>17. Latest(I)' \in Nat /\ Latest(I) <= Latest(I)'
  BY <1>6, <1>15, <1>16
<1>18. ReaderInv(I)'
  <2>1. rpc \in BindR(I) + 1 .. CopyR(I) => bufs'[newest_seen] = bufs[newest_seen]
    BY <1>1, <1>3, <1>7, Apart, Zenon DEF Types
  <2> QED
    BY <2>1, <1>1, <1>3, <1>17, ReaderKept, Zenon
<1>19. Exclusion(I)' /\ IMPL' = I
  BY <1>1, <1>3, <1>13, Zenon DEF Exclusion
<1> QED
  BY <1>7, <1>11, <1>12, <1>14, <1>15, <1>16, <1>17, <1>18, <1>19, Zenon

LEMMA WordKeeps ==
  ASSUME NEW I \in Implementation, InvOf(I), WordArrives(I)
  PROVE  InvOf(I)'
<1>1. Types(I) /\ Place(I)
  BY Zenon DEF InvOf
<1>2. WriteRow(I)
  BY Rows, Zenon
<1>3. /\ Types(I)' /\ WriterInv(I)' /\ ReaderInv(I)' /\ Exclusion(I)' /\ IMPL' = I
      /\ \A b \in Memory \ {next} : bufs'[b] = bufs[b]
      /\ Sent' => Holds(bufs'[next], begun)
      /\ Latest(I)' \in Nat /\ Latest(I) <= Latest(I)' /\ Latest(I) \in Nat
      /\ Latest(I)' = IF Sent' /\ CommitW(I) = SendW(I) THEN begun ELSE Latest(I)
  BY WordKeepsCommon, Zenon
<1>4. /\ wpc = SendW(I) + 1
      /\ UNCHANGED <<wpc, rpc, next, newest, reading, newest_seen, reading_seen, next_reading, floor>>
      /\ (Told' <=> Told)
  BY Zenon DEF WordArrives, writer, reader, Told
<1>5. newest \in Memory /\ newest_seen \in Memory /\ bufs \in [Memory -> [SampleWord -> Nat]]
  BY <1>1, Zenon DEF Types
<1>6. ASSUME I = Single PROVE PlaceSingle'
  <2>1. PlaceSingle /\ wpc = 3 /\ CommitW(I) = SendW(I)
    BY <1>1, <1>2, <1>4, <1>6 DEF Place, WriteRow, Single, Double, DoubleWr, Triple
  <2>2. next = 0
    BY <2>1, Zenon DEF PlaceSingle
  <2>3. Sent' => Holds(bufs'[0], Latest(Single)')
    BY <2>1, <2>2, <1>3, <1>6, Zenon
  <2> QED
    BY <2>1, <2>3, <1>4, Zenon DEF PlaceSingle
<1>7. ASSUME I \in {Double, Triple} PROVE wpc = 2 /\ Latest(I)' = Latest(I)
  BY <1>2, <1>3, <1>4, <1>7 DEF WriteRow, Single, Double, DoubleWr, Triple, Multi
<1>8. ASSUME I = Double PROVE PlaceDouble'
  <2>1. PlaceDouble /\ wpc = 2 /\ Latest(Double)' = Latest(Double)
    BY <1>1, <1>7, <1>8, Zenon DEF Place
  <2>2. newest # next
    BY <2>1, Zenon DEF PlaceDouble
  <2>3. bufs'[newest] = bufs[newest]
    BY <2>2, <1>3, <1>5, Zenon
  <2> QED
    BY <2>1, <2>3, <1>4 DEF PlaceDouble
<1>9. ASSUME I = Triple PROVE PlaceTriple'
  <2>1. PlaceTriple /\ wpc = 2 /\ Latest(Triple)' = Latest(Triple)
    BY <1>1, <1>7, <1>9, Zenon DEF Place
  <2>2. newest # next
    BY <2>1, Zenon DEF PlaceTriple
  <2>3. bufs'[newest] = bufs[newest]
    BY <2>2, <1>3, <1>5, Zenon
  <2> QED
    BY <2>1, <2>3, <1>4 DEF PlaceTriple
<1>10. ASSUME I = DoubleWr PROVE PlaceDoubleWr'
  <2>1. PlaceDoubleWr /\ wpc = 4
    BY <1>1, <1>2, <1>4, <1>10 DEF Place, WriteRow, Single, Double, DoubleWr, Triple, Multi
  <2> QED
    BY <2>1, <1>4 DEF PlaceDoubleWr
<1>11. ASSUME I = Multi PROVE PlaceMulti'
  <2>1. PlaceMulti /\ wpc = 3 /\ CommitW(I) = SendW(I)
    BY <1>1, <1>2, <1>4, <1>11 DEF Place, WriteRow, Double, DoubleWr, Triple, Multi
  <2>2. Sent' => Holds(bufs'[next], Latest(Multi)')
    BY <2>1, <1>3, <1>11, Zenon
  <2>3. rpc \in 4 .. 6 /\ next # newest_seen => Valid(bufs'[newest_seen], floor, Latest(Multi)')
    <3>1. SUFFICES ASSUME rpc \in 4 .. 6, next # newest_seen
                   PROVE  Valid(bufs'[newest_seen], floor, Latest(Multi)')
      OBVIOUS
    <3>2. Valid(bufs[newest_seen], floor, Latest(Multi)) /\ bufs'[newest_seen] = bufs[newest_seen]
      BY <3>1, <2>1, <1>3, <1>5, Zenon DEF PlaceMulti
    <3>3. bufs[newest_seen][1] \in Nat
      BY <1>5, TransferFacts, Zenon
    <3> QED
      BY <3>2, <3>3, <1>3, <1>11 DEF Valid
  <2> QED
    BY <2>1, <2>2, <2>3, <1>4, Zenon DEF PlaceMulti
<1> QED
  BY <1>3, <1>6, <1>8, <1>9, <1>10, <1>11, Zenon DEF InvOf, Place

LEMMA IndexKeeps ==
  ASSUME NEW I \in Implementation, InvOf(I), IndexArrives(I)
  PROVE  InvOf(I)'
<1>1. Types(I) /\ WriterInv(I) /\ ReaderInv(I) /\ Exclusion(I) /\ Place(I) /\ IMPL = I
  BY Zenon DEF InvOf
<1>2. WriteRow(I) /\ ReadRow(I)
  BY Rows, Zenon
<1>3. /\ PublishW(I) # 0 /\ wpc = PublishW(I) + 1 /\ ~ Sent
      /\ newest' = next
      /\ smp_dma' \in Transfers /\ smp_dma'["sink"] = smp_dma["sink"] /\ Sent'
      /\ UNCHANGED <<IMPL, client, writer, reader, reading, bufs>>
  BY Zenon DEF IndexArrives
<1>4. UNCHANGED <<wpc, rpc, next, newest_seen, reading_seen, next_reading, floor, begun, returned>> /\ (Told' <=> Told)
  BY <1>3, Zenon DEF writer, reader, Told
<1>5. Types(I)'
  BY <1>1, <1>3, Zenon DEF Types, writer, reader, Transfers
<1>6. Holds(bufs[next], begun)
  BY <1>1, <1>3, Zenon DEF WriterInv
<1>7. WriterInv(I)'
  <2>1. /\ returned = IF wpc = 0 THEN begun ELSE begun - 1
        /\ client["source"] = "holding" <=> LockedW(I, wpc)
        /\ client["source"] = "waiting" => wpc = LockW(I) /\ wpc # 0
    BY <1>1, Zenon DEF WriterInv
  <2> QED
    BY <2>1, <1>3, <1>4, <1>6, Zenon DEF WriterInv
<1>8. Latest(I)' = begun
  <2>1. ~ Pending(I)'
    BY <1>2, <1>3, <1>4 DEF Pending, WriteRow
  <2> QED
    BY <2>1, <1>4, Zenon DEF Latest
<1>9. ReaderInv(I)'
  <2>1. begun \in Nat /\ Latest(I) <= begun
    BY <1>1, LatestType, Zenon DEF Types
  <2> QED
    BY <2>1, <1>1, <1>3, <1>8, ReaderKept, Zenon
<1>10. Exclusion(I)' /\ IMPL' = I
  BY <1>1, <1>3, <1>4, Zenon DEF Exclusion
<1>11. ASSUME I \in {Double, DoubleWr, Triple} PROVE ~ LockedR(I, rpc)
  BY <1>1, <1>2, <1>3, <1>11 DEF Exclusion, LockedW, WriteRow, Double, DoubleWr, Triple, Multi
<1>12. ASSUME I = Single PROVE FALSE
  BY <1>2, <1>3, <1>12, Zenon DEF WriteRow, Single, Double, DoubleWr, Triple, Multi
<1>13. ASSUME I = Double PROVE PlaceDouble'
  <2>1. PlaceDouble /\ wpc = 5 /\ Holds(bufs[next], Latest(Double)')
    BY <1>1, <1>2, <1>3, <1>6, <1>8, <1>13 DEF Place, WriteRow, Double, DoubleWr, Multi
  <2>2. rpc \notin 3 .. 4
    BY <1>2, <1>11, <1>13 DEF LockedR, ReadRow, Single, Double, Multi
  <2>3. newest' = next /\ bufs' = bufs /\ Sent' /\ ~ Sent
    BY <1>3, Zenon
  <2> QED
    BY <2>1, <2>2, <2>3, <1>4 DEF PlaceDouble
<1>14. ASSUME I = DoubleWr PROVE PlaceDoubleWr'
  <2>1. PlaceDoubleWr /\ Holds(bufs[next], Latest(DoubleWr)')
    BY <1>1, <1>6, <1>8, <1>14, Zenon DEF Place
  <2>2. rpc \notin 3 .. 5
    BY <1>2, <1>11, <1>14 DEF LockedR, ReadRow, Single, Double, DoubleWr, Multi
  <2> QED
    BY <2>1, <2>2, <1>3, <1>4, Zenon DEF PlaceDoubleWr
<1>15. ASSUME I = Triple PROVE PlaceTriple'
  <2>1. PlaceTriple /\ wpc = 5 /\ Holds(bufs[next], Latest(Triple)')
    BY <1>1, <1>2, <1>3, <1>6, <1>8, <1>15 DEF Place, WriteRow, Single, Double, DoubleWr, Triple
  <2>2. rpc \notin 3 .. 5
    BY <1>2, <1>11, <1>15 DEF LockedR, ReadRow, Single, Double, Triple, Multi
  <2> QED
    BY <2>1, <2>2, <1>3, <1>4 DEF PlaceTriple
<1>16. ASSUME I = Multi PROVE PlaceMulti'
  <2>1. PlaceMulti /\ wpc = 5 /\ Holds(bufs[next], Latest(Multi)')
    BY <1>1, <1>2, <1>3, <1>6, <1>8, <1>16 DEF Place, WriteRow, Single, Double, DoubleWr, Triple, Multi
  <2>2. ~ Pending(I)
    BY <1>2, <1>3, <1>16 DEF Pending, WriteRow, Double, DoubleWr, Triple, Multi
  <2>3. Latest(Multi)' = Latest(Multi)
    BY <2>2, <1>8, <1>16, Zenon DEF Latest
  <2> QED
    BY <2>1, <2>3, <1>3, <1>4 DEF PlaceMulti
<1> QED
  BY <1>5, <1>7, <1>9, <1>10, <1>12, <1>13, <1>14, <1>15, <1>16, Zenon DEF InvOf, Place

\* The reader's DMA delivers the index of the buffer that is being read, or shall be used.
LEMMA DeliverSinkKeeps ==
  ASSUME NEW I \in Implementation, InvOf(I), DeliverSink
  PROVE  InvOf(I)'
<1>1. Types(I) /\ WriterInv(I) /\ ReaderInv(I) /\ Exclusion(I) /\ Place(I) /\ IMPL = I
  BY Zenon DEF InvOf
<1>2. WriteRow(I) /\ ReadRow(I)
  BY Rows, Zenon
<1>3. /\ reading' = IF IMPL = "MULTI_NOC_NONBLOCKING" THEN next_reading ELSE newest
      /\ ~ Told /\ smp_dma' = [smp_dma EXCEPT !["sink"] = SmpIdle]
      /\ UNCHANGED <<IMPL, client, writer, reader, newest, bufs>>
  BY Zenon DEF DeliverSink, Dma!DmaArrives, Dma!noc_dma_done, Told
<1>4. smp_dma' \in Transfers /\ smp_dma'["source"] = smp_dma["source"] /\ smp_dma'["sink"] = SmpIdle
  <2>1. smp_dma \in Transfers
    BY <1>1, Zenon DEF Types, Transfers
  <2> QED
    BY <2>1, <1>3, TransferFacts, Zenon DEF Transfers
<1>5. UNCHANGED <<wpc, rpc, next, newest, newest_seen, reading_seen, next_reading, sample, copied, floor>>
      /\ Told' /\ (Sent' <=> Sent)
  BY <1>3, <1>4, Zenon DEF writer, reader, Told, Sent
<1>6. AnnounceR(I) # 0 /\ rpc = AnnounceR(I) + 1
  BY <1>1, <1>3, Zenon DEF ReaderInv
<1>7. rpc = 4 /\ I \in {DoubleWr, Triple, Multi}
  BY <1>2, <1>6 DEF ReadRow
<1>8. Types(I)'
  <2>1. reading' \in Memory
    BY <1>1, <1>3 DEF Types, Memory
  <2> QED
    BY <2>1, <1>1, <1>3, Zenon DEF Types, writer, reader
<1>9. WriterInv(I)' /\ Latest(I)' = Latest(I)
  BY <1>1, <1>3, <1>4, WriterKept, Zenon
<1>10. ReaderInv(I)'
  BY <1>1, <1>3, <1>5, <1>9, Zenon DEF ReaderInv
<1>11. Exclusion(I)' /\ IMPL' = I
  BY <1>1, <1>3, <1>5, Zenon DEF Exclusion
<1>12. ASSUME I \in {DoubleWr, Triple} PROVE ~ LockedW(I, wpc) /\ reading' = newest
  <2>1. LockedR(I, rpc)
    BY <1>2, <1>7, <1>12 DEF LockedR, ReadRow, Single, DoubleWr, Triple, Multi
  <2>2. ~ LockedW(I, wpc)
    BY <2>1, <1>1, Zenon DEF Exclusion
  <2>3. IMPL # "MULTI_NOC_NONBLOCKING"
    BY <1>1, <1>12, Zenon DEF DoubleWr, Triple
  <2> QED
    BY <2>2, <2>3, <1>3, Zenon
<1>13. ASSUME I = DoubleWr PROVE PlaceDoubleWr'
  <2>1. PlaceDoubleWr /\ Latest(DoubleWr)' = Latest(DoubleWr)
    BY <1>1, <1>9, <1>13, Zenon DEF Place
  <2>2. wpc \notin 3 .. 7
    BY <1>2, <1>12, <1>13 DEF LockedW, WriteRow, Single, Double, DoubleWr, Triple, Multi
  <2> QED
    BY <2>1, <2>2, <1>3, <1>5, <1>7, <1>12, <1>13 DEF PlaceDoubleWr
<1>14. ASSUME I = Triple PROVE PlaceTriple'
  <2>1. PlaceTriple /\ Latest(Triple)' = Latest(Triple)
    BY <1>1, <1>9, <1>14, Zenon DEF Place
  <2>2. wpc # 7
    BY <1>2, <1>12, <1>14 DEF LockedW, WriteRow, Single, Double, Triple, Multi
  <2> QED
    BY <2>1, <2>2, <1>3, <1>5, <1>7, <1>12, <1>14 DEF PlaceTriple
<1>15. ASSUME I = Multi PROVE PlaceMulti'
  <2>1. PlaceMulti /\ Latest(Multi)' = Latest(Multi) /\ reading' = next_reading /\ next_reading \in 0 .. 2
    BY <1>1, <1>3, <1>9, <1>15, Zenon DEF Place, Multi, Types
  <2> QED
    BY <2>1, <1>3, <1>5, <1>7, Zenon DEF PlaceMulti
<1>16. Place(I)'
  BY <1>7, <1>13, <1>14, <1>15, Zenon DEF Place, Single, Double, DoubleWr, Triple, Multi
<1> QED
  BY <1>8, <1>9, <1>10, <1>11, <1>16, Zenon DEF InvOf
-----------------------------------------------------------------------------
\* mp_create_sport establishes the invariant for each implementation.
LEMMA SmpInvInit == SmpInit => SmpInv
<1> SUFFICES ASSUME SmpInit PROVE SmpInv
  OBVIOUS
<1>1. PICK I \in Implementation : IMPL = I
  BY SamplingAssumption, Zenon DEF SmpInit, Implementation, Single, Double, DoubleWr, Triple, Multi
<1>2. WriteRow(I) /\ ReadRow(I)
  BY Rows, Zenon
<1>3. smp_dma["source"] = SmpIdle /\ smp_dma["sink"] = SmpIdle /\ smp_dma \in Transfers
  BY TransferFacts, Zenon DEF SmpInit, Dma!NocInit, Transfers
<1>4. client["source"] = "idle" /\ client["sink"] = "idle" /\ client \in Clients
  BY TransferFacts, Zenon DEF SmpInit, Locking!Init, Clients
<1>5. /\ wpc = 0 /\ rpc = 0 /\ next = 0 /\ next_reading = 0 /\ newest = -1
      /\ reading_seen = 0 /\ newest_seen = 0 /\ copied = 0
      /\ begun = 0 /\ returned = 0 /\ floor = 0
      /\ bufs = [b \in Memory |-> [w \in SampleWord |-> 0]] /\ sample = [w \in SampleWord |-> 0]
  BY Zenon DEF SmpInit
<1>6. /\ I = DoubleWr => reading = 1
      /\ I = Triple => reading = -1
      /\ I \notin {DoubleWr, Triple} => reading = 0
  BY <1>1, Zenon DEF SmpInit, DoubleWr, Triple
<1>7. reading \in -2 .. 1
  BY <1>6
<1>8. bufs \in [Memory -> [SampleWord -> Nat]] /\ sample \in [SampleWord -> Nat]
      /\ \A b \in Memory : Holds(bufs[b], 0)
  BY <1>5, Zenon DEF Holds
<1>9. Types(I)
  <2>1. 0 \in 0 .. LastW(I) + 1 /\ 0 \in 0 .. LastR(I) + 1 /\ 0 \in 0 .. SampleWords
    BY <1>2, SamplingAssumption DEF WriteRow, ReadRow
  <2>2. reading \in Memory /\ 0 \in Memory /\ -1 \in Memory /\ 0 \in 0 .. 2
    BY <1>7 DEF Memory
  <2> QED
    BY <2>1, <2>2, <1>3, <1>4, <1>5, Zenon DEF Types, Transfers, Clients
<1>10. ~ LockedW(I, 0) /\ ~ LockedR(I, 0) /\ SendW(I) # 0 /\ BindR(I) > 0 /\ CopyR(I) > 0
       /\ 0 \notin 1 .. CopyR(I) - 1 /\ 0 \notin BindR(I) + 1 .. CopyR(I) /\ ~ (0 > CopyR(I)) /\ 0 # CopyR(I)
       /\ 0 # SendW(I) + 1 /\ 0 \notin SendW(I) + 2 .. PublishW(I) /\ 0 # PublishW(I) + 1
  BY <1>2 DEF LockedW, LockedR, WriteRow, ReadRow
<1>11. Sent /\ Told
  BY <1>3, Zenon DEF Sent, Told
<1>12. WriterInv(I)
  BY <1>4, <1>5, <1>10, <1>11, Zenon DEF WriterInv
<1>13. Latest(I) = 0
  BY <1>5, <1>2 DEF Latest, Pending, WriteRow
<1>14. ReaderInv(I)
  <2>1. floor <= Latest(I)
    BY <1>5, <1>13
  <2> QED
    BY <2>1, <1>4, <1>5, <1>10, <1>11, Zenon DEF ReaderInv
<1>15. Exclusion(I)
  BY <1>5, <1>10, Zenon DEF Exclusion
<1>16. Place(I)
  <2>1. Holds(bufs[0], Latest(I)) /\ Holds(bufs[-1], Latest(I))
    BY <1>8, <1>13 DEF Memory
  <2>2. I = Single => PlaceSingle
    BY <2>1, <1>5, Zenon DEF PlaceSingle
  <2>3. I = Double => PlaceDouble
    BY <2>1, <1>5 DEF PlaceDouble
  <2>4. I = DoubleWr => PlaceDoubleWr
    BY <2>1, <1>5, <1>7 DEF PlaceDoubleWr
  <2>5. I = Triple => PlaceTriple
    BY <2>1, <1>5, <1>6 DEF PlaceTriple
  <2>6. I = Multi => PlaceMulti
    <3>1. I = Multi => reading = 0
      BY <1>6, Zenon DEF DoubleWr, Triple, Multi
    <3> QED
      BY <2>1, <3>1, <1>5 DEF PlaceMulti
  <2> QED
    BY <2>2, <2>3, <2>4, <2>5, <2>6, Zenon DEF Place
<1> QED
  BY <1>1, <1>9, <1>12, <1>14, <1>15, <1>16, Zenon DEF SmpInv, InvOf

\* Every step keeps it.
LEMMA SmpInvStep == SmpInv /\ [SmpNext]_smpvars => SmpInv'
<1> SUFFICES ASSUME NEW I \in Implementation, InvOf(I), [SmpNext]_smpvars
             PROVE  InvOf(I)'
  BY Zenon DEF SmpInv
<1>1. CASE CallWrite
  BY <1>1, CallWriteGoes, WriterGoesKeeps, Zenon
<1>2. CASE WriteLock
  BY <1>2, WriteLockKeeps, Zenon
<1>3. CASE WriteLocked
  BY <1>3, WriteLockedGoes, WriterGoesKeeps, Zenon
<1>4. CASE WriteUnlock
  BY <1>4, WriteUnlockGoes, WriterGoesKeeps, Zenon
<1>5. CASE WriteChoose
  BY <1>5, WriteChooseKeeps, Zenon
<1>6. CASE WriteSend
  BY <1>6, WriteSendGoes, WriterGoesKeeps, Zenon
<1>7. CASE WritePublish
  BY <1>7, WritePublishGoes, WriterGoesKeeps, Zenon
<1>8. CASE WriteWait
  BY <1>8, WriteWaitGoes, WriterGoesKeeps, Zenon
<1>9. CASE WriteLook
  BY <1>9, WriteLookKeeps, Zenon
<1>10. CASE WriteAdvance
  BY <1>10, WriteAdvanceKeeps, Zenon
<1>11. CASE WriteReturn
  BY <1>11, WriteReturnGoes, WriterGoesKeeps, Zenon
<1>12. CASE CallRead
  BY <1>12, CallReadGoes, ReaderGoesKeeps, Zenon
<1>13. CASE ReadLock
  BY <1>13, ReadLockKeeps, Zenon
<1>14. CASE ReadLocked
  BY <1>14, ReadLockedGoes, ReaderGoesKeeps, Zenon
<1>15. CASE ReadUnlock
  BY <1>15, ReadUnlockGoes, ReaderGoesKeeps, Zenon
<1>16. CASE ReadFetch
  BY <1>16, ReadFetchKeeps, Zenon
<1>17. CASE ReadTurn
  BY <1>17, ReadTurnKeeps, Zenon
<1>18. CASE ReadAnnounce
  BY <1>18, ReadAnnounceGoes, ReaderGoesKeeps, Zenon
<1>19. CASE ReadWait
  BY <1>19, ReadWaitGoes, ReaderGoesKeeps, Zenon
<1>20. CASE ReadFollow
  BY <1>20, ReadFollowGoes, ReaderGoesKeeps, Zenon
<1>21. CASE ReadCopy
  BY <1>21, ReadCopyKeeps, Zenon
<1>22. CASE ReadReturn
  BY <1>22, ReadReturnGoes, ReaderGoesKeeps, Zenon
<1>23. CASE DeliverSource
  BY <1>23, DeliverSourceCases, WordKeeps, IndexKeeps, Zenon
<1>24. CASE DeliverSink
  BY <1>24, DeliverSinkKeeps, Zenon
<1>25. CASE UNCHANGED smpvars
  BY <1>25, StutterKeeps, Zenon
<1> QED
  BY <1>1, <1>2, <1>3, <1>4, <1>5, <1>6, <1>7, <1>8, <1>9, <1>10, <1>11, <1>12, <1>13, <1>14, <1>15, <1>16,
     <1>17, <1>18, <1>19, <1>20, <1>21, <1>22, <1>23, <1>24, <1>25, Zenon DEF SmpNext, Writing, Reading

LEMMA SmpInvariant == SmpSpec => []SmpInv
  BY SmpInvInit, SmpInvStep, PTL DEF SmpSpec

\* The fields of both descriptors, the transfers and the memory have their types, and
\* mp_write sends samples only to the buffers that mp_create_sport allocated, except in
\* DOUBLE_NOC_WR (c/libmp/sampling.c), where an index below 0 is possible.
THEOREM SamplingTypes == SmpSpec => []SmpTypeOK
<1>1. SmpInv => SmpTypeOK
  <2> SUFFICES ASSUME NEW I \in Implementation, InvOf(I)
               PROVE  SmpTypeOK
    BY Zenon DEF SmpInv
  <2>1. Types(I) /\ WriterInv(I) /\ Place(I) /\ IMPL = I
    BY Zenon DEF InvOf
  <2>2. Len(mp_write) = LastW(I) /\ Len(mp_read) = LastR(I)
    BY <2>1, WriteTable, ReadTable, Zenon
  <2>3. smp_dma = [ch \in End |-> smp_dma[ch]] /\ \A ch \in End : smp_dma[ch] = SmpIdle \/ smp_dma[ch] \in Transfer
    BY <2>1, Zenon DEF Types
  <2>4. ASSUME IMPL # "DOUBLE_NOC_WR", smp_dma["source"] # SmpIdle, smp_dma["source"].what = "sample"
        PROVE  smp_dma["source"].to \in Buffers
    <3>1. smp_dma["source"].to = next
      <4>1. smp_dma["source"] # [what |-> "newest"]
        BY <2>4
      <4>2. smp_dma["source"] \in [what : {"sample"}, to : {next}, next : SampleWord]
        BY <4>1, <2>1, <2>4, Zenon DEF WriterInv, Sent
      <4> QED
        BY <4>2, Zenon
    <3>2. CASE I = Single
      BY <3>1, <3>2, <2>1 DEF Place, PlaceSingle, Buffers, Single
    <3>3. CASE I = Double
      BY <3>1, <3>3, <2>1, Zenon DEF Place, PlaceDouble, Buffers, Double
    <3>4. CASE I = Triple
      BY <3>1, <3>4, <2>1, Zenon DEF Place, PlaceTriple, Buffers, Triple
    <3>5. CASE I = Multi
      BY <3>1, <3>5, <2>1, Zenon DEF Place, PlaceMulti, Buffers, Multi
    <3> QED
      BY <3>2, <3>3, <3>4, <3>5, <2>1, <2>4, Zenon DEF Implementation, DoubleWr
  <2> QED
    BY <2>1, <2>2, <2>4, Zenon DEF Types, SmpTypeOK
<1> QED
  BY <1>1, SmpInvariant, PTL

\* mp_read of c/libmp/sampling.c delivers one sample, in each implementation: none of its
\* words is of another mp_write, it is at least as new as every sample whose mp_write had
\* returned when mp_read was called, and no older than what mp_read delivered before.
THEOREM SamplesAreAtomic == SmpSpec => []AtomicSample
<1>1. SmpInv => AtomicSample
  <2> SUFFICES ASSUME NEW I \in Implementation, InvOf(I), Returning
               PROVE  \E k \in floor .. begun : \A w \in SampleWord : sample[w] = k
    BY Zenon DEF SmpInv, AtomicSample
  <2>1. Types(I) /\ WriterInv(I) /\ ReaderInv(I) /\ IMPL = I
    BY Zenon DEF InvOf
  <2>2. rpc > CopyR(I)
    BY <2>1, ReadTable, Rows DEF Returning, ReadRow
  <2>3. /\ floor <= sample[1] /\ sample[1] <= Latest(I)
        /\ \A w \in SampleWord : sample[w] = sample[1]
    BY <2>1, <2>2, Zenon DEF ReaderInv
  <2>4. floor \in Nat /\ begun \in Nat /\ sample[1] \in Nat /\ Latest(I) \in Nat /\ Latest(I) <= begun
    BY <2>1, TransferFacts, LatestType, Zenon DEF Types
  <2>5. sample[1] \in floor .. begun
    BY <2>3, <2>4
  <2> QED
    BY <2>3, <2>5, Zenon
<1> QED
  BY <1>1, SmpInvariant, PTL

\* The DMA of mp_write never writes into the buffer that mp_read is copying, under the
\* lock of the first four implementations and without one in MULTI_NOC_NONBLOCKING.
THEOREM BuffersAreNotShared == SmpSpec => []BufferNotShared
<1>1. SmpInv => BufferNotShared
  <2> SUFFICES ASSUME NEW I \in Implementation, InvOf(I), AtRead("copy"),
                      smp_dma["source"] # SmpIdle, smp_dma["source"].what = "sample"
               PROVE  smp_dma["source"].to # newest_seen
    BY Zenon DEF SmpInv, BufferNotShared
  <2>1. WriterInv(I) /\ IMPL = I
    BY Zenon DEF InvOf
  <2>2. rpc = CopyR(I)
    BY <2>1, AtReadPosition, Zenon DEF ReadAt
  <2>3. rpc \in BindR(I) + 1 .. CopyR(I)
    BY <2>2, Rows DEF ReadRow
  <2>4. smp_dma["source"] # [what |-> "newest"]
    OBVIOUS
  <2>5. wpc = SendW(I) + 1 /\ smp_dma["source"] \in [what : {"sample"}, to : {next}, next : SampleWord]
    BY <2>1, <2>4, Zenon DEF WriterInv, Sent
  <2>6. next # newest_seen
    BY <2>3, <2>5, Apart, Zenon
  <2> QED
    BY <2>5, <2>6, Zenon
<1> QED
  BY <1>1, SmpInvariant, PTL
==============================================================================
