------------------------- MODULE VtxPipelineProofs -------------------------
(***************************************************************************)
(* Proofs about VtxPipeline for every number of buffers and every ring     *)
(* that has a slot for each of them: the ring agrees with the encoder in   *)
(* every reachable state and the transmit thread returns the buffer it has *)
(* sent; no thread uses what is released; sessions leave nothing to the    *)
(* next; and all of it implements the buffer pool.                         *)
(***************************************************************************)
EXTENDS VtxPipeline, FiniteSetTheorems, TLAPS

\* Indices into the ring: arithmetic modulo its size stays inside it.
LEMMA IndexInSlot == ASSUME NEW n \in Nat PROVE Index(n) \in Slot
BY SizeAssumption DEF Slot, Index

\* Only the last step of start_pipeline has no successor.
LEMMA NextStep ==
    ASSUME NEW s \in 1 .. Len(StartSteps), StartSteps[s] # "threads"
    PROVE  s + 1 \in 1 .. Len(StartSteps)
BY DEF StartSteps

LEMMA AcquiresType == \A s : Acquires(s) \subseteq Resource
BY DEF Acquires, Resource

LEMMA InitType == Init => TypeOK
<1> SUFFICES ASSUME Init PROVE TypeOK
  OBVIOUS
<1>1. 0 \in Buffer /\ 0 \in Slot
  BY SizeAssumption DEF Buffer, Slot
<1>2. fifo \in [Slot -> Buffer] /\ where \in [Buffer -> Place]
  BY <1>1 DEF Init, Place
<1>3. 1 \in 1 .. Len(StartSteps)
  BY DEF StartSteps
<1> QED
  BY <1>1, <1>2, <1>3 DEF Init, TypeOK, CapPC, TxPC, MainPC

LEMMA CaptureType == TypeOK /\ Capture => TypeOK'
<1> SUFFICES ASSUME TypeOK, Capture PROVE TypeOK'
  OBVIOUS
<1> USE DEF TypeOK, mainVars, txVars, ringVars
<1>1. CASE CapCheck
  BY <1>1 DEF CapCheck, CapPC
<1>2. CASE CapIdle
  BY <1>2 DEF CapIdle, CapPC
<1>3. CASE CapDequeue
  BY <1>3 DEF CapDequeue, CapPC, Place
<1>4. CASE CapPush
  <2>1. head' \in Slot
    <3>1. head + 1 \in Nat
      BY SizeAssumption DEF Slot
    <3> QED
      BY <1>4, <3>1, IndexInSlot DEF CapPush
  <2>2. fifo' \in [Slot -> Buffer]
    BY <1>4 DEF CapPush
  <2> QED
    BY <1>4, <2>1, <2>2 DEF CapPush, CapPC
<1>5. CASE CapPutOk
  BY <1>5 DEF CapPutOk, CapPC, Place
<1>6. CASE CapPutRejected
  BY <1>6 DEF CapPutRejected, CapPC
<1>7. CASE CapRollback
  <2>1. head' \in Slot
    <3>1. head + FifoSize - 1 \in Nat
      BY SizeAssumption DEF Slot
    <3> QED
      BY <1>7, <3>1, IndexInSlot DEF CapRollback
  <2> QED
    BY <1>7, <2>1 DEF CapRollback, CapPC
<1>8. CASE CapRequeue
  BY <1>8 DEF CapRequeue, CapPC, Place
<1> QED
  BY <1>1, <1>2, <1>3, <1>4, <1>5, <1>6, <1>7, <1>8 DEF Capture

LEMMA TransmitType == TypeOK /\ (Transmit \/ HostRead) => TypeOK'
<1> SUFFICES ASSUME TypeOK, Transmit \/ HostRead PROVE TypeOK'
  OBVIOUS
<1> USE DEF TypeOK, mainVars, capVars, ringVars
<1>1. CASE TxCheck
  BY <1>1 DEF TxCheck, TxPC
<1>2. CASE TxIdle
  BY <1>2 DEF TxIdle, TxPC
<1>3. ASSUME NEW last \in BOOLEAN, TxGet(last) PROVE TypeOK'
  <2>1. Head(enc) \in Buffer /\ Tail(enc) \in Seq(Buffer)
    BY <1>3 DEF TxGet
  <2>2. where' \in [Buffer -> Place] /\ enc' \in Seq(Buffer) /\ pkt' \in Buffer
    BY <1>3, <2>1 DEF TxGet, Place
  <2> QED
    BY <1>3, <2>2 DEF TxGet, TxPC
<1>4. CASE TxWriteCheck
  BY <1>4 DEF TxWriteCheck, TxPC
<1>5. CASE TxWriteMore \/ TxWriteEnds
  BY <1>5 DEF TxWriteMore, TxWriteEnds, TxPC
<1>6. CASE TxBlock \/ HostRead
  BY <1>6 DEF TxBlock, HostRead, TxPC
<1>7. CASE TxFinish
  <2>1. fifo[tail] \in Buffer
    OBVIOUS
  <2>2. Index(tail + 1) \in Slot
    <3>1. tail + 1 \in Nat
      BY SizeAssumption DEF Slot
    <3> QED
      BY <3>1, IndexInSlot
  <2>3. CASE complete
    BY <1>7, <2>1, <2>2, <2>3 DEF TxFinish, TxPC
  <2>4. CASE ~complete
    BY <1>7, <2>4 DEF TxFinish, TxPC
  <2> QED
    BY <2>3, <2>4
<1>8. CASE TxRequeue
  BY <1>8 DEF TxRequeue, TxPC, Place
<1> QED
  BY <1>1, <1>2, <1>3, <1>4, <1>5, <1>6, <1>7, <1>8 DEF Transmit

LEMMA StartType == TypeOK /\ Start => TypeOK'
<1> SUFFICES ASSUME TypeOK, Start PROVE TypeOK'
  OBVIOUS
<1> USE DEF TypeOK, txVars, capVars, ringVars, MainPC
<1>0. StartSteps[step] # "threads" => step + 1 \in 1 .. Len(StartSteps)
  BY NextStep
<1>1. CASE StartOpen
  BY <1>0, <1>1 DEF StartOpen, Resource
<1>2. CASE StartReqbufs
  BY <1>0, <1>2 DEF StartReqbufs
<1>3. CASE StartQbuf
  <2>1. where' \in [Buffer -> Place]
    BY <1>3 DEF StartQbuf, Place
  <2>2. step' \in 1 .. Len(StartSteps)
    BY <1>0, <1>3 DEF StartQbuf
  <2> QED
    BY <1>3, <2>1, <2>2 DEF StartQbuf
<1>4. CASE StartCall
  BY <1>0, <1>4, AcquiresType DEF StartCall
<1>5. CASE StartThreads
  BY <1>5 DEF StartThreads, TxPC, CapPC
<1> QED
  BY <1>1, <1>2, <1>3, <1>4, <1>5 DEF Start

LEMMA StopType == TypeOK /\ (StopBegin \/ Stop) => TypeOK'
<1> SUFFICES ASSUME TypeOK, StopBegin \/ Stop PROVE TypeOK'
  OBVIOUS
<1> USE DEF TypeOK, txVars, capVars, ringVars, MainPC
<1>1. CASE StopBegin
  BY <1>1 DEF StopBegin
<1>2. CASE StopKill
  BY <1>2 DEF StopKill, TxPC
<1>3. CASE StopJoin
  BY <1>3 DEF StopJoin
<1>4. CASE StopCamera
  BY <1>4 DEF StopCamera, Place
<1>5. CASE StopEncoder
  BY <1>5 DEF StopEncoder, Place
<1>6. CASE StopRelease
  BY <1>6 DEF StopRelease
<1>7. CASE StopReset
  BY <1>7, SizeAssumption DEF StopReset, Slot
<1> QED
  BY <1>1, <1>2, <1>3, <1>4, <1>5, <1>6, <1>7 DEF Stop

LEMMA NextType == TypeOK /\ [Next]_vars => TypeOK'
<1> SUFFICES ASSUME TypeOK, [Next]_vars PROVE TypeOK'
  OBVIOUS
<1>1. ASSUME NEW b \in Buffer, CamFill(b) PROVE TypeOK'
  BY <1>1 DEF CamFill, TypeOK, Place, mainVars, txVars, capVars, ringVars
<1>2. CASE MainLoop \/ NoTrigger \/ StartBegin \/ Exit
  <2>1. 1 \in 1 .. Len(StartSteps)
    BY DEF StartSteps
  <2> QED
    BY <1>2, <2>1 DEF MainLoop, NoTrigger, StartBegin, Exit, TypeOK, MainPC,
                      txVars, capVars, ringVars
<1>3. CASE Sigterm
  BY <1>3 DEF Sigterm, TypeOK, TxPC, mainVars, capVars, ringVars
<1>4. CASE Exited \/ UNCHANGED vars
  BY <1>4 DEF Exited, TypeOK, vars, mainVars, txVars, capVars, ringVars
<1> QED
  BY <1>1, <1>2, <1>3, <1>4, CaptureType, TransmitType, StartType, StopType DEF Next, Main

\* Whatever the threads, the camera, the encoder and the signals do, every
\* variable of the pipeline keeps its type: in particular both ring indices stay
\* inside the ring and every index in it names a buffer.
THEOREM TypeCorrect == Spec => []TypeOK
<1> QED
  BY InitType, NextType, PTL DEF Spec

----------------------------------------------------------------------------
(* Arithmetic of the ring                                                  *)

\* One subtraction brings an index up to twice the ring's size back into it.
LEMMA Wrap ==
    ASSUME NEW n \in Nat, n < 2 * FifoSize
    PROVE  Index(n) = IF n < FifoSize THEN n ELSE n - FifoSize
<1>1. FifoSize \in Nat \ {0}
  BY SizeAssumption
<1>2. CASE n < FifoSize
  BY <1>1, <1>2 DEF Index
<1>3. CASE n >= FifoSize
  BY <1>1, <1>3 DEF Index
<1> QED
  BY <1>1, <1>2, <1>3

LEMMA IntervalCardinality == \A n \in Nat : Cardinality(1 .. n) = n
BY FS_Interval

\* A sequence of distinct buffers is no longer than there are buffers.
LEMMA DistinctLen ==
    ASSUME NEW q \in Seq(Buffer), \A i, j \in 1 .. Len(q) : q[i] = q[j] => i = j
    PROVE  Len(q) <= NumBuffers
<1>1. IsFiniteSet(Buffer) /\ Cardinality(Buffer) = NumBuffers
  BY FS_Interval, SizeAssumption DEF Buffer
<1>2. q \in Injection(1 .. Len(q), Buffer)
  BY DEF Injection, IsInjective
<1>3. Cardinality(1 .. Len(q)) <= Cardinality(Buffer)
  BY <1>1, <1>2, FS_Injection
<1>4. Cardinality(1 .. Len(q)) = Len(q)
  BY IntervalCardinality
<1> QED
  BY <1>1, <1>3, <1>4

\* Writing the slot at the head appends, when a slot is free.
LEMMA PushRing ==
    ASSUME NEW f \in [Slot -> Buffer], NEW h \in Slot, NEW t \in Slot,
           NEW q \in Seq(Buffer), NEW b \in Buffer,
           Len(q) < FifoSize, RingHolds(f, h, t, q)
    PROVE  RingHolds([f EXCEPT ![h] = b], Index(h + 1), t, Append(q, b))
<1> DEFINE g == [f EXCEPT ![h] = b]
           r == Append(q, b)
<1>1. FifoSize \in Nat \ {0} /\ Len(q) \in Nat /\ h \in Nat /\ t \in Nat
      /\ h < FifoSize /\ t < FifoSize
  BY SizeAssumption DEF Slot
<1>2. h = IF t + Len(q) < FifoSize THEN t + Len(q) ELSE t + Len(q) - FifoSize
  BY <1>1, Wrap DEF RingHolds
<1>3. ASSUME NEW k \in 1 .. Len(r) PROVE g[Index(t + k - 1)] = r[k]
  <2>1. t + k - 1 \in Nat /\ t + k - 1 < 2 * FifoSize
    BY <1>1
  <2>2. Index(t + k - 1) = IF t + k - 1 < FifoSize THEN t + k - 1
                                                        ELSE t + k - 1 - FifoSize
    BY <1>1, <2>1, Wrap
  <2>3. CASE k = Len(q) + 1
    BY <1>1, <1>2, <2>2, <2>3
  <2>4. CASE k # Len(q) + 1
    <3>1. k \in 1 .. Len(q) /\ r[k] = q[k]
      BY <2>4
    <3>2. Index(t + k - 1) # h
      BY <1>1, <1>2, <2>2, <3>1
    <3> QED
      BY <3>1, <3>2 DEF RingHolds
  <2> QED
    BY <2>3, <2>4
<1>4. Index(h + 1) = Index(t + Len(r))
  <2>1. h + 1 \in Nat /\ h + 1 < 2 * FifoSize
    BY <1>1
  <2>2. t + Len(r) \in Nat /\ t + Len(r) < 2 * FifoSize
    BY <1>1
  <2>3. Index(h + 1) = IF h + 1 < FifoSize THEN h + 1 ELSE h + 1 - FifoSize
    BY <1>1, <2>1, Wrap
  <2>4. Index(t + Len(r)) = IF t + Len(r) < FifoSize THEN t + Len(r)
                                                       ELSE t + Len(r) - FifoSize
    BY <1>1, <2>2, Wrap
  <2>5. Len(r) = Len(q) + 1
    OBVIOUS
  <2> QED
    BY <1>1, <1>2, <2>3, <2>4, <2>5
<1> QED
  BY <1>3, <1>4 DEF RingHolds

\* Moving the head back by one undoes the last push.
LEMMA UnpushRing ==
    ASSUME NEW f \in [Slot -> Buffer], NEW h \in Slot, NEW t \in Slot,
           NEW q \in Seq(Buffer), NEW b \in Buffer,
           Len(q) < FifoSize, RingHolds(f, h, t, Append(q, b))
    PROVE  RingHolds(f, Index(h + FifoSize - 1), t, q)
<1> DEFINE r == Append(q, b)
<1>1. FifoSize \in Nat \ {0} /\ Len(q) \in Nat /\ h \in Nat /\ t \in Nat
      /\ h < FifoSize /\ t < FifoSize /\ Len(r) = Len(q) + 1
  BY SizeAssumption DEF Slot
<1>2. ASSUME NEW k \in 1 .. Len(q) PROVE f[Index(t + k - 1)] = q[k]
  <2>1. k \in 1 .. Len(r) /\ r[k] = q[k]
    BY <1>1
  <2> QED
    BY <2>1 DEF RingHolds
<1>3. Index(h + FifoSize - 1) = Index(t + Len(q))
  <2>1. t + Len(r) \in Nat /\ t + Len(r) < 2 * FifoSize
        /\ t + Len(q) \in Nat /\ t + Len(q) < 2 * FifoSize
        /\ h + FifoSize - 1 \in Nat /\ h + FifoSize - 1 < 2 * FifoSize
    BY <1>1
  <2>2. h = IF t + Len(r) < FifoSize THEN t + Len(r) ELSE t + Len(r) - FifoSize
    BY <1>1, <2>1, Wrap DEF RingHolds
  <2>3. Index(t + Len(q)) = IF t + Len(q) < FifoSize THEN t + Len(q)
                                                       ELSE t + Len(q) - FifoSize
    BY <1>1, <2>1, Wrap
  <2>4. Index(h + FifoSize - 1) =
            IF h + FifoSize - 1 < FifoSize THEN h + FifoSize - 1
                                          ELSE h + FifoSize - 1 - FifoSize
    BY <1>1, <2>1, Wrap
  <2> QED
    BY <1>1, <2>2, <2>3, <2>4
<1> QED
  BY <1>2, <1>3 DEF RingHolds

\* The slot at the tail holds the oldest; moving the tail on removes it.
LEMMA PopRing ==
    ASSUME NEW f \in [Slot -> Buffer], NEW h \in Slot, NEW t \in Slot,
           NEW q \in Seq(Buffer), q # <<>>,
           Len(q) <= FifoSize, RingHolds(f, h, t, q)
    PROVE  f[t] = Head(q) /\ RingHolds(f, h, Index(t + 1), Tail(q))
<1> DEFINE r == Tail(q)
           u == Index(t + 1)
<1>1. FifoSize \in Nat \ {0} /\ Len(q) \in Nat \ {0} /\ h \in Nat /\ t \in Nat
      /\ h < FifoSize /\ t < FifoSize /\ Len(r) = Len(q) - 1
  BY SizeAssumption DEF Slot
<1>2. u = IF t + 1 < FifoSize THEN t + 1 ELSE t + 1 - FifoSize
  <2>1. t + 1 \in Nat /\ t + 1 < 2 * FifoSize
    BY <1>1
  <2> QED
    BY <1>1, <2>1, Wrap
<1>3. f[t] = Head(q)
  <2>1. Index(t + 1 - 1) = t
    <3>1. t + 1 - 1 = t
      BY <1>1
    <3> QED
      BY <1>1, <3>1, Wrap
  <2> QED
    BY <1>1, <2>1 DEF RingHolds
<1>4. ASSUME NEW k \in 1 .. Len(r) PROVE f[Index(u + k - 1)] = r[k]
  <2>1. k + 1 \in 1 .. Len(q) /\ r[k] = q[k + 1]
    BY <1>1
  <2>2. u + k - 1 \in Nat /\ u + k - 1 < 2 * FifoSize
        /\ t + (k + 1) - 1 \in Nat /\ t + (k + 1) - 1 < 2 * FifoSize
    BY <1>1, <1>2
  <2>3. Index(u + k - 1) = Index(t + (k + 1) - 1)
    <3>1. Index(u + k - 1) =
            IF u + k - 1 < FifoSize THEN u + k - 1 ELSE u + k - 1 - FifoSize
      BY <1>1, <2>2, Wrap
    <3>2. Index(t + (k + 1) - 1) =
            IF t + (k + 1) - 1 < FifoSize THEN t + (k + 1) - 1
                                          ELSE t + (k + 1) - 1 - FifoSize
      BY <1>1, <2>2, Wrap
    <3> HIDE DEF u
    <3> QED
      BY <1>1, <1>2, <2>1, <3>1, <3>2
  <2> QED
    BY <2>1, <2>3 DEF RingHolds
<1>5. h = Index(u + Len(r))
  <2>1. u + Len(r) \in Nat /\ u + Len(r) < 2 * FifoSize
        /\ t + Len(q) \in Nat /\ t + Len(q) < 2 * FifoSize
    BY <1>1, <1>2
  <2>2. Index(u + Len(r)) =
            IF u + Len(r) < FifoSize THEN u + Len(r) ELSE u + Len(r) - FifoSize
    BY <1>1, <2>1, Wrap
  <2>3. Index(t + Len(q)) =
            IF t + Len(q) < FifoSize THEN t + Len(q) ELSE t + Len(q) - FifoSize
    BY <1>1, <2>1, Wrap
  <2>4. h = Index(t + Len(q))
    BY DEF RingHolds
  <2> HIDE DEF u, r
  <2> QED
    BY <1>1, <1>2, <2>2, <2>3, <2>4
<1> QED
  BY <1>3, <1>4, <1>5 DEF RingHolds

----------------------------------------------------------------------------
(* The ring's sequence                                                     *)

LEMMA PutMoves ==
    ASSUME NEW s \in Seq(Buffer), NEW e \in Seq(Buffer), NEW c \in Buffer
    PROVE  s \o e \o <<c>> = s \o Append(e, c) \o <<>>
BY SMTT(30)

LEMMA HeadMoves ==
    ASSUME NEW e \in Seq(Buffer), NEW p \in Seq(Buffer), e # <<>>
    PROVE  <<>> \o e \o p = <<Head(e)>> \o Tail(e) \o p
OBVIOUS

LEMMA PushAppends ==
    ASSUME NEW s \in Seq(Buffer), NEW e \in Seq(Buffer), NEW c \in Buffer
    PROVE  s \o e \o <<c>> = Append(s \o e \o <<>>, c)
OBVIOUS

LEMMA PopTail ==
    ASSUME NEW b \in Buffer, NEW e \in Seq(Buffer), NEW p \in Seq(Buffer)
    PROVE  /\ Tail(<<b>> \o e \o p) = <<>> \o e \o p
           /\ Head(<<b>> \o e \o p) = b
           /\ <<b>> \o e \o p # <<>>
OBVIOUS

LEMMA InRingType == TypeOK => Sent \in Seq(Buffer) /\ Put \in Seq(Buffer) /\ InRing \in Seq(Buffer)
BY DEF TypeOK, Sent, Put, InRing

\* A buffer owned by capture, one by transmit and those in the encoder are all
\* different, so the ring never needs more slots than there are buffers.
LEMMA Distinct ==
    ASSUME NEW s \in Seq(Buffer), NEW e \in Seq(Buffer), NEW p \in Seq(Buffer),
           NEW w \in [Buffer -> Place],
           Len(s) <= 1, Len(p) <= 1,
           \A i \in 1 .. Len(s) : w[s[i]] = "tx",
           \A i \in 1 .. Len(p) : w[p[i]] = "cap",
           \A i \in 1 .. Len(e) : w[e[i]] = "enc",
           \A i, j \in 1 .. Len(e) : e[i] = e[j] => i = j
    PROVE  Len(s \o e \o p) <= NumBuffers
<1> DEFINE q == s \o e \o p
<1>1. /\ q \in Seq(Buffer)
      /\ Len(q) = Len(s) + Len(e) + Len(p)
      /\ Len(s) \in Nat /\ Len(e) \in Nat /\ Len(p) \in Nat
  OBVIOUS
<1>2. ASSUME NEW i \in 1 .. Len(q)
      PROVE  q[i] = IF i <= Len(s) THEN s[i]
                    ELSE IF i <= Len(s) + Len(e) THEN e[i - Len(s)]
                    ELSE p[i - Len(s) - Len(e)]
  OBVIOUS
<1>3. ASSUME NEW i \in 1 .. Len(q), NEW j \in 1 .. Len(q), q[i] = q[j]
      PROVE  i = j
  <2> DEFINE class(k) == IF k <= Len(s) THEN "tx"
                         ELSE IF k <= Len(s) + Len(e) THEN "enc" ELSE "cap"
  <2>1. ASSUME NEW k \in 1 .. Len(q) PROVE w[q[k]] = class(k)
    <3>1. CASE k <= Len(s)
      BY <1>1, <1>2, <3>1
    <3>2. CASE k > Len(s) /\ k <= Len(s) + Len(e)
      <4>1. k - Len(s) \in 1 .. Len(e) /\ q[k] = e[k - Len(s)]
        BY <1>1, <1>2, <3>2
      <4> QED
        BY <1>1, <3>2, <4>1
    <3>3. CASE k > Len(s) + Len(e)
      <4>1. k - Len(s) - Len(e) \in 1 .. Len(p) /\ q[k] = p[k - Len(s) - Len(e)]
        BY <1>1, <1>2, <3>3
      <4> QED
        BY <1>1, <3>3, <4>1
    <3> QED
      BY <1>1, <3>1, <3>2, <3>3
  <2>2. class(i) = class(j)
    BY <1>3, <2>1
  <2>3. CASE i <= Len(s)
    BY <1>1, <2>2, <2>3
  <2>4. CASE i > Len(s) /\ i <= Len(s) + Len(e)
    <3>1. j > Len(s) /\ j <= Len(s) + Len(e)
      BY <1>1, <2>2, <2>4
    <3>2. i - Len(s) \in 1 .. Len(e) /\ j - Len(s) \in 1 .. Len(e)
          /\ e[i - Len(s)] = e[j - Len(s)]
      BY <1>1, <1>2, <1>3, <2>4, <3>1
    <3>3. i - Len(s) = j - Len(s)
      BY <3>2
    <3> QED
      BY <1>1, <3>3
  <2>5. CASE i > Len(s) + Len(e)
    BY <1>1, <2>2, <2>5
  <2> QED
    BY <1>1, <2>3, <2>4, <2>5
<1> HIDE DEF q
<1>4. Len(q) <= NumBuffers
  BY <1>1, <1>3, DistinctLen
<1> QED
  BY <1>4 DEF q

LEMMA RingFits ==
    ASSUME TypeOK, OwnershipInv
    PROVE  Len(InRing) <= FifoSize
<1>1. Sent \in Seq(Buffer) /\ Put \in Seq(Buffer)
  BY InRingType
<1>2. Len(Sent) <= 1 /\ Len(Put) <= 1
  BY DEF Sent, Put
<1>3. /\ \A i \in 1 .. Len(Sent) : where[Sent[i]] = "tx"
      /\ \A i \in 1 .. Len(Put) : where[Put[i]] = "cap"
  BY DEF OwnershipInv, Sent, Put, Pushed
<1>4. Len(InRing) <= NumBuffers
  BY <1>1, <1>2, <1>3, Distinct DEF TypeOK, OwnershipInv, InRing
<1> QED
  BY <1>1, <1>4, InRingType, SizeAssumption

\* While capture holds a buffer it has not pushed, a slot is free for it.
LEMMA RoomToPush ==
    ASSUME TypeOK, OwnershipInv, cpc \in {"push", "put", "rollback"}
    PROVE  Len(Sent \o enc \o <<>>) < FifoSize
<1>1. Sent \in Seq(Buffer) /\ enc \in Seq(Buffer) /\ <<cidx>> \in Seq(Buffer)
  BY InRingType DEF TypeOK
<1>2. Len(Sent) <= 1 /\ Len(<<cidx>>) <= 1
  BY DEF Sent
<1>3. /\ \A i \in 1 .. Len(Sent) : where[Sent[i]] = "tx"
      /\ \A i \in 1 .. Len(<<cidx>>) : where[<<cidx>>[i]] = "cap"
  BY DEF OwnershipInv, Sent
<1>4. Len(Sent \o enc \o <<cidx>>) <= NumBuffers
  BY <1>1, <1>2, <1>3, Distinct DEF TypeOK, OwnershipInv
<1>5. Len(Sent \o enc \o <<cidx>>) = Len(Sent \o enc \o <<>>) + 1
      /\ Len(Sent \o enc \o <<>>) \in Nat
  BY <1>1
<1> QED
  BY <1>4, <1>5, SizeAssumption

----------------------------------------------------------------------------
(* Control and ownership                                                   *)

LEMMA ControlStep == TypeOK /\ ControlInv /\ [Next]_vars => ControlInv'
<1> SUFFICES ASSUME TypeOK, ControlInv, [Next]_vars PROVE ControlInv'
  OBVIOUS
<1> USE DEF ControlInv, mainVars, txVars, capVars, ringVars
<1>1. ASSUME NEW b \in Buffer, CamFill(b) PROVE ControlInv'
  BY <1>1 DEF CamFill
<1>2. CASE Capture
  BY <1>2 DEF Capture, CapCheck, CapIdle, CapDequeue, CapPush, CapPutOk,
              CapPutRejected, CapRollback, CapRequeue
<1>3. CASE Transmit \/ HostRead
  BY <1>3 DEF Transmit, HostRead, TxCheck, TxIdle, TxGet, TxWriteCheck, TxWriteMore,
              TxWriteEnds, TxBlock, TxFinish, TxRequeue
<1>4. CASE Start
  BY <1>4 DEF Start, StartOpen, StartReqbufs, StartQbuf, StartCall, StartThreads
<1>5. CASE StopBegin \/ Stop
  BY <1>5 DEF StopBegin, Stop, StopKill, StopJoin, StopCamera, StopEncoder,
              StopRelease, StopReset
<1>6. CASE MainLoop \/ NoTrigger \/ StartBegin \/ Exit \/ Sigterm
  BY <1>6 DEF MainLoop, NoTrigger, StartBegin, Exit, Sigterm
<1>7. CASE Exited \/ UNCHANGED vars
  BY <1>7 DEF Exited, vars
<1> QED
  BY <1>1, <1>2, <1>3, <1>4, <1>5, <1>6, <1>7 DEF Next, Main

\* The steps that move no buffer between the owners, and no thread in or out of
\* holding one, preserve OwnershipInv.
LEMMA OwnershipFrame ==
    ASSUME OwnershipInv,
           UNCHANGED <<where, enc, cidx, pkt>>,
           cpc' \in {"push", "put", "rollback", "requeue"}
                => cpc \in {"push", "put", "rollback", "requeue"},
           complete' /\ (Sending' \/ tpc' = "requeue")
                => complete /\ (Sending \/ tpc = "requeue"),
           tpc' = "requeue" => complete'
    PROVE  OwnershipInv'
BY DEF OwnershipInv

LEMMA OwnershipStep ==
    TypeOK /\ ControlInv /\ OwnershipInv /\ (tpc = "requeue" => ridx = pkt) /\ [Next]_vars
        => OwnershipInv'
<1> SUFFICES ASSUME TypeOK, ControlInv, OwnershipInv, tpc = "requeue" => ridx = pkt, [Next]_vars
             PROVE  OwnershipInv'
  OBVIOUS
<1> USE DEF mainVars, txVars, capVars, ringVars
<1>1. ASSUME NEW b \in Buffer, CamFill(b) PROVE OwnershipInv'
  BY <1>1 DEF CamFill, OwnershipInv, TypeOK, Sending
<1>2. CASE Capture
  <2>1. CASE CapCheck \/ CapIdle \/ CapPush \/ CapPutRejected \/ CapRollback
    BY <2>1, OwnershipFrame DEF CapCheck, CapIdle, CapPush, CapPutRejected, CapRollback,
                                Sending, OwnershipInv
  <2>2. CASE CapDequeue
    BY <2>2 DEF CapDequeue, OwnershipInv, TypeOK, Sending
  <2>3. CASE CapPutOk
    <3>1. where[cidx] = "cap" /\ \A i \in 1 .. Len(enc) : enc[i] # cidx
      BY <2>3 DEF CapPutOk, OwnershipInv
    <3>2. /\ \A i \in 1 .. Len(enc') : where'[enc'[i]] = "enc"
          /\ \A i, j \in 1 .. Len(enc') : enc'[i] = enc'[j] => i = j
      BY <2>3, <3>1 DEF CapPutOk, OwnershipInv, TypeOK
    <3> QED
      BY <2>3, <3>1, <3>2 DEF CapPutOk, OwnershipInv, TypeOK, Sending
  <2>4. CASE CapRequeue
    BY <2>4 DEF CapRequeue, OwnershipInv, TypeOK, Sending
  <2> QED
    BY <1>2, <2>1, <2>2, <2>3, <2>4 DEF Capture
<1>3. CASE Transmit \/ HostRead
  <2>1. CASE TxCheck \/ TxIdle \/ TxWriteCheck \/ TxWriteMore \/ TxWriteEnds
             \/ TxBlock \/ HostRead \/ TxFinish
    BY <2>1, OwnershipFrame DEF TxCheck, TxIdle, TxWriteCheck, TxWriteMore, TxWriteEnds,
                                TxBlock, HostRead, TxFinish, Sending, OwnershipInv
  <2>2. CASE TxGet(FALSE)
    BY <2>2 DEF TxGet, OwnershipInv
  <2>3. CASE TxGet(TRUE)
    <3>1. /\ enc # <<>> /\ enc' = Tail(enc) /\ pkt' = Head(enc)
          /\ where' = [where EXCEPT ![Head(enc)] = "tx"]
          /\ tpc' # "requeue" /\ UNCHANGED <<cpc, cidx>>
      BY <2>3 DEF TxGet
    <3>2. Head(enc) \in Buffer /\ where[Head(enc)] = "enc" /\ where'[pkt'] = "tx"
      BY <3>1 DEF OwnershipInv, TypeOK
    <3>3. /\ \A i \in 1 .. Len(enc') : enc'[i] = enc[i + 1] /\ i + 1 \in 1 .. Len(enc)
          /\ Head(enc) = enc[1] /\ 1 \in 1 .. Len(enc)
      BY <3>1 DEF TypeOK
    <3>4. \A i \in 1 .. Len(enc') : where'[enc'[i]] = "enc"
      BY <3>1, <3>2, <3>3 DEF OwnershipInv, TypeOK
    <3>5. \A i, j \in 1 .. Len(enc') : enc'[i] = enc'[j] => i = j
      BY <3>3 DEF OwnershipInv
    <3> QED
      BY <3>1, <3>2, <3>4, <3>5 DEF OwnershipInv, TypeOK
  <2>4. CASE TxRequeue
    BY <2>4 DEF TxRequeue, OwnershipInv, TypeOK, Sending
  <2> QED
    BY <1>3, <2>1, <2>2, <2>3, <2>4 DEF Transmit
<1>4. CASE Start
  <2>1. CASE StartOpen \/ StartReqbufs \/ StartCall
    BY <2>1, OwnershipFrame DEF StartOpen, StartReqbufs, StartCall, Sending, OwnershipInv
  <2>2. CASE StartQbuf
    BY <2>2 DEF StartQbuf, OwnershipInv, ControlInv, Sending
  <2>3. CASE StartThreads
    BY <2>3 DEF StartThreads, OwnershipInv, Sending
  <2> QED
    BY <1>4, <2>1, <2>2, <2>3 DEF Start
<1>5. CASE StopBegin \/ Stop
  <2>1. CASE StopBegin \/ StopKill \/ StopJoin \/ StopRelease \/ StopReset
    BY <2>1, OwnershipFrame DEF StopBegin, StopKill, StopJoin, StopRelease, StopReset,
                                Sending, OwnershipInv
  <2>2. CASE StopCamera
    BY <2>2 DEF StopCamera, OwnershipInv, ControlInv, TypeOK, Sending
  <2>3. CASE StopEncoder
    BY <2>3 DEF StopEncoder, OwnershipInv, ControlInv, Sending
  <2> QED
    BY <1>5, <2>1, <2>2, <2>3 DEF Stop
<1>6. CASE MainLoop \/ NoTrigger \/ StartBegin \/ Exit \/ Sigterm
  BY <1>6, OwnershipFrame DEF MainLoop, NoTrigger, StartBegin, Exit, Sigterm, Sending, OwnershipInv
<1>7. CASE Exited \/ UNCHANGED vars
  BY <1>7, OwnershipFrame DEF Exited, vars, Sending, OwnershipInv
<1> QED
  BY <1>1, <1>2, <1>3, <1>4, <1>5, <1>6, <1>7 DEF Next, Main

----------------------------------------------------------------------------
(* The ring                                                                *)

\* The steps that leave the ring and the sequence it must hold as they are.
LEMMA RingFrame ==
    ASSUME RingMatches, UNCHANGED ringVars, InRing' = InRing,
           mpc' \notin {"release", "reset"} => mpc \notin {"release", "reset"}
    PROVE  RingMatches'
BY DEF RingMatches, RingHolds, ringVars, Index

\* Of the values a step leaves alone the sequence stays the same.
LEMMA InRingFrame ==
    ASSUME UNCHANGED enc,
           complete' /\ Sending' <=> complete /\ Sending,
           complete /\ Sending => pkt' = pkt,
           Pushed' <=> Pushed,
           Pushed => cidx' = cidx
    PROVE  InRing' = InRing
<1>1. Sent' = Sent
  BY DEF Sent
<1>2. Put' = Put
  BY DEF Put
<1> QED
  BY <1>1, <1>2 DEF InRing

LEMMA CaptureRing ==
    ASSUME TypeOK, ControlInv, OwnershipInv, RingMatches, Capture
    PROVE  RingMatches'
<1> USE DEF mainVars, txVars, ringVars
<1>1. CASE CapCheck \/ CapIdle \/ CapDequeue \/ CapPutRejected \/ CapRequeue
  <2>1. InRing' = InRing
    BY <1>1, InRingFrame DEF CapCheck, CapIdle, CapDequeue, CapPutRejected, CapRequeue,
                             Sending, Pushed
  <2> QED
    BY <1>1, <2>1, RingFrame DEF CapCheck, CapIdle, CapDequeue, CapPutRejected, CapRequeue
<1>2. CASE CapPush
  <2> DEFINE q == Sent \o enc \o <<>>
  <2>1. mpc \notin {"release", "reset"}
    BY <1>2 DEF CapPush, ControlInv
  <2>2. InRing = q /\ InRing' = Append(q, cidx)
    <3>1. Put = <<>> /\ Put' = <<cidx>> /\ Sent' = Sent /\ enc' = enc
      BY <1>2 DEF CapPush, Put, Pushed, Sent, Sending
    <3> QED
      BY <3>1, PushAppends, InRingType DEF InRing, TypeOK
  <2>3. q \in Seq(Buffer) /\ Len(q) < FifoSize
    BY <1>2, <2>2, InRingType, RoomToPush DEF CapPush
  <2>4. RingHolds(fifo, head, tail, q)
    BY <2>1, <2>2 DEF RingMatches
  <2> HIDE DEF q
  <2>5. RingHolds([fifo EXCEPT ![head] = cidx], Index(head + 1), tail, Append(q, cidx))
    BY <2>3, <2>4, PushRing DEF TypeOK
  <2> QED
    BY <1>2, <2>2, <2>5 DEF CapPush, RingMatches
<1>3. CASE CapPutOk
  <2>1. InRing' = InRing
    <3>1. Put = <<cidx>> /\ Put' = <<>> /\ Sent' = Sent /\ enc' = Append(enc, cidx)
      BY <1>3 DEF CapPutOk, Put, Pushed, Sent, Sending
    <3> QED
      BY <3>1, PutMoves, InRingType DEF InRing, TypeOK
  <2> QED
    BY <1>3, <2>1, RingFrame DEF CapPutOk
<1>4. CASE CapRollback
  <2> DEFINE q == Sent \o enc \o <<>>
  <2>1. mpc \notin {"release", "reset"}
    BY <1>4 DEF CapRollback, ControlInv
  <2>2. InRing = Append(q, cidx) /\ InRing' = q
    <3>1. Put = <<cidx>> /\ Put' = <<>> /\ Sent' = Sent /\ enc' = enc
      BY <1>4 DEF CapRollback, Put, Pushed, Sent, Sending
    <3> QED
      BY <3>1, PushAppends, InRingType DEF InRing, TypeOK
  <2>3. q \in Seq(Buffer) /\ Len(q) < FifoSize
    <3>1. q \in Seq(Buffer)
      BY InRingType DEF TypeOK
    <3> QED
      BY <1>4, <3>1, RoomToPush DEF CapRollback
  <2>4. RingHolds(fifo, head, tail, Append(q, cidx))
    BY <2>1, <2>2 DEF RingMatches
  <2> HIDE DEF q
  <2>5. RingHolds(fifo, Index(head + FifoSize - 1), tail, q)
    BY <2>3, <2>4, UnpushRing DEF TypeOK
  <2> QED
    BY <1>4, <2>2, <2>5 DEF CapRollback, RingMatches
<1> QED
  BY <1>1, <1>2, <1>3, <1>4 DEF Capture

\* TxFinish finds its own frame's buffer at the tail.
LEMMA FinishRing ==
    ASSUME TypeOK, ControlInv, OwnershipInv, RingMatches, TxFinish
    PROVE  RingMatches' /\ (tpc' = "requeue" => ridx' = pkt')
<1> USE DEF mainVars, capVars
<1>1. CASE ~complete
  <2>1. InRing' = InRing
    BY <1>1, InRingFrame DEF TxFinish, Sending, Pushed
  <2> QED
    BY <1>1, <2>1, RingFrame DEF TxFinish, ringVars
<1>2. CASE complete
  <2>1. mpc \notin {"release", "reset"} /\ mpc' = mpc
    BY DEF TxFinish, ControlInv
  <2>2. Sent = <<pkt>> /\ Sent' = <<>> /\ enc' = enc /\ Put' = Put
    BY <1>2 DEF TxFinish, Sent, Sending, Put, Pushed
  <2>3. pkt \in Buffer /\ Put \in Seq(Buffer) /\ InRing \in Seq(Buffer) /\ enc \in Seq(Buffer)
    BY InRingType DEF TypeOK
  <2>4. InRing' = Tail(InRing) /\ Head(InRing) = pkt /\ InRing # <<>>
    BY <2>2, <2>3, PopTail DEF InRing
  <2>5. RingHolds(fifo, head, tail, InRing) /\ Len(InRing) <= FifoSize
    BY <2>1, RingFits DEF RingMatches
  <2>6. fifo[tail] = pkt /\ RingHolds(fifo, head, Index(tail + 1), Tail(InRing))
    BY <2>3, <2>4, <2>5, PopRing DEF TypeOK
  <2> QED
    BY <1>2, <2>4, <2>6 DEF TxFinish, RingMatches
<1> QED
  BY <1>1, <1>2

LEMMA TransmitRing ==
    ASSUME TypeOK, ControlInv, OwnershipInv, RingMatches, tpc = "requeue" => ridx = pkt,
           Transmit \/ HostRead
    PROVE  RingMatches' /\ (tpc' = "requeue" => ridx' = pkt')
<1> USE DEF mainVars, capVars, ringVars
<1>1. CASE TxCheck \/ TxIdle \/ TxWriteCheck \/ TxWriteMore \/ TxWriteEnds \/ TxBlock
           \/ HostRead \/ TxRequeue \/ TxGet(FALSE)
  <2>1. InRing' = InRing
    BY <1>1, InRingFrame DEF TxCheck, TxIdle, TxWriteCheck, TxWriteMore, TxWriteEnds,
                             TxBlock, HostRead, TxRequeue, TxGet, Sending, Pushed
  <2>2. UNCHANGED ringVars /\ mpc' = mpc /\ tpc' # "requeue"
    BY <1>1 DEF TxCheck, TxIdle, TxWriteCheck, TxWriteMore, TxWriteEnds,
                TxBlock, HostRead, TxRequeue, TxGet
  <2> QED
    BY <2>1, <2>2, RingFrame
<1>2. CASE TxGet(TRUE)
  <2>1. InRing' = InRing
    <3>1. /\ Sent = <<>> /\ Sent' = <<Head(enc)>> /\ enc' = Tail(enc) /\ Put' = Put
          /\ enc # <<>>
      <4>1. Sent = <<>>
        BY <1>2 DEF TxGet, Sent, Sending
      <4>2. Sent' = <<Head(enc)>> \/ (tpc' = "finish" /\ Sent' = <<Head(enc)>>)
        BY <1>2 DEF TxGet, Sent, Sending
      <4> QED
        BY <1>2, <4>1, <4>2 DEF TxGet, Put, Pushed
    <3> QED
      BY <3>1, HeadMoves, InRingType DEF InRing, TypeOK
  <2> QED
    BY <1>2, <2>1, RingFrame DEF TxGet
<1>3. CASE TxFinish
  BY <1>3, FinishRing
<1> QED
  BY <1>1, <1>2, <1>3 DEF Transmit

LEMMA MainRing ==
    ASSUME TypeOK, ControlInv, RingMatches, Main \/ Sigterm
    PROVE  RingMatches'
<1> USE DEF txVars, capVars, ringVars, mainVars
<1>1. CASE StartOpen \/ StartReqbufs \/ StartQbuf \/ StartCall \/ StopBegin \/ StopKill
           \/ StopJoin \/ StopCamera \/ MainLoop \/ NoTrigger \/ StartBegin \/ Exit \/ Sigterm
  <2>1. InRing' = InRing
    BY <1>1, InRingFrame DEF StartOpen, StartReqbufs, StartQbuf, StartCall, StopBegin, StopKill,
         StopJoin, StopCamera, MainLoop, NoTrigger, StartBegin, Exit, Sigterm, Sending, Pushed
  <2> QED
    BY <1>1, <2>1, RingFrame DEF StartOpen, StartReqbufs, StartQbuf, StartCall, StopBegin,
         StopKill, StopJoin, StopCamera, MainLoop, NoTrigger, StartBegin, Exit, Sigterm
<1>2. CASE StartThreads
  <2>1. cpc \in {"none", "done"} /\ tpc \in {"none", "done"}
    BY <1>2 DEF StartThreads, ControlInv, TypeOK
  <2>2. InRing' = InRing
    BY <1>2, <2>1, InRingFrame DEF StartThreads, Sending, Pushed
  <2> QED
    BY <1>2, <2>2, RingFrame DEF StartThreads
<1>3. CASE StopEncoder \/ StopRelease
  BY <1>3 DEF StopEncoder, StopRelease, RingMatches
<1>4. CASE StopReset
  <2>1. cpc = cpc' /\ tpc = tpc' /\ enc' = enc /\ enc = <<>>
        /\ cpc \in {"none", "done"} /\ tpc \in {"none", "done"}
    BY <1>4 DEF StopReset, ControlInv
  <2>2. InRing' = <<>>
    BY <2>1 DEF InRing, Sent, Put, Sending, Pushed
  <2>3. Index(0 + 0) = 0
    BY SizeAssumption, Wrap
  <2>4. RingHolds(fifo', 0, 0, <<>>)
    BY <2>3 DEF RingHolds
  <2> QED
    BY <1>4, <2>2, <2>4 DEF StopReset, RingMatches
<1> QED
  BY <1>1, <1>2, <1>3, <1>4 DEF Main, Start, Stop

LEMMA RingInit == Init => RingIInv
<1> SUFFICES ASSUME Init PROVE RingIInv
  OBVIOUS
<1>1. TypeOK
  BY InitType
<1>2. ControlInv /\ OwnershipInv
  BY DEF Init, ControlInv, OwnershipInv, Sending
<1>3. InRing = <<>>
  BY DEF Init, InRing, Sent, Put, Sending, Pushed
<1>4. Index(0 + 0) = 0
  BY SizeAssumption, Wrap
<1>5. RingMatches
  BY <1>3, <1>4 DEF Init, RingMatches, RingHolds
<1> QED
  BY <1>1, <1>2, <1>5 DEF RingIInv, Init

LEMMA RingStep == RingIInv /\ [Next]_vars => RingIInv'
<1> SUFFICES ASSUME RingIInv, [Next]_vars PROVE RingIInv'
  OBVIOUS
<1> USE DEF RingIInv
<1>1. TypeOK' /\ ControlInv' /\ OwnershipInv'
  BY NextType, ControlStep, OwnershipStep
<1>2. RingMatches' /\ (tpc' = "requeue" => ridx' = pkt')
  <2>1. ASSUME NEW b \in Buffer, CamFill(b)
        PROVE  RingMatches' /\ (tpc' = "requeue" => ridx' = pkt')
    <3>1. InRing' = InRing /\ mpc' = mpc
      BY <2>1, InRingFrame DEF CamFill, capVars, txVars, mainVars, Sending, Pushed
    <3> QED
      BY <2>1, <3>1, RingFrame DEF CamFill, txVars
  <2>2. CASE Capture
    BY <2>2, CaptureRing DEF Capture, CapCheck, CapIdle, CapDequeue, CapPush, CapPutOk,
                             CapPutRejected, CapRollback, CapRequeue, txVars
  <2>3. CASE Transmit \/ HostRead
    BY <2>3, TransmitRing
  <2>4. CASE Main \/ Sigterm
    <3>1. tpc' = "requeue" => tpc = "requeue"
      BY <2>4 DEF Main, Sigterm, MainLoop, NoTrigger, StartBegin, Start, StartOpen, StartReqbufs,
                  StartQbuf, StartCall, StartThreads, StopBegin, Stop, StopKill, StopJoin,
                  StopCamera, StopEncoder, StopRelease, StopReset, Exit, txVars
    <3>2. ridx' = ridx /\ pkt' = pkt
      BY <2>4 DEF Main, Sigterm, MainLoop, NoTrigger, StartBegin, Start, StartOpen, StartReqbufs,
                  StartQbuf, StartCall, StartThreads, StopBegin, Stop, StopKill, StopJoin,
                  StopCamera, StopEncoder, StopRelease, StopReset, Exit, txVars
    <3> QED
      BY <2>4, <3>1, <3>2, MainRing
  <2>5. CASE Exited \/ UNCHANGED vars
    <3>1. UNCHANGED vars
      BY <2>5 DEF Exited
    <3> QED
      BY <3>1, InRingFrame, RingFrame DEF vars, capVars, txVars, mainVars, Sending, Pushed
  <2> QED
    BY <2>1, <2>2, <2>3, <2>4, <2>5 DEF Next
<1> QED
  BY <1>1, <1>2

\* Types, control, ownership and the ring hold together in every reachable state,
\* for any number of buffers and any ring of at least as many slots.
THEOREM RingInvariant == Spec => []RingIInv
  BY RingInit, RingStep, PTL DEF Spec

\* In every reachable state, with any number of buffers, the ring holds exactly the
\* frames in flight in the order the encoder finishes them.
THEOREM RingCorrect == Spec => []RingMatches
<1>1. RingIInv => RingMatches
  BY DEF RingIInv
<1> QED
  BY <1>1, RingInit, RingStep, PTL DEF Spec

\* The buffer index venc_tx_thread pops is that of the frame it has just sent, and
\* nobody else owns that buffer: the camera never overwrites a frame being encoded.
THEOREM ReturnCorrect == Spec => []ReturnsFinishedBuffer
<1>1. RingIInv => ReturnsFinishedBuffer
  BY DEF RingIInv, ReturnsFinishedBuffer, OwnershipInv, Sending
<1> QED
  BY <1>1, RingInit, RingStep, PTL DEF Spec

----------------------------------------------------------------------------
(* The resources                                                           *)

\* The fields that the first steps of start_pipeline, up to the n-th, have assigned.
Acquired(n) ==
    /\ n > 1 => "v4l2_fd" \in held
    /\ n > 4 => "buf_group" \in held
    /\ n > 5 => "buffers" \in held
    /\ n > 9 => "mpp_ctx" \in held
    /\ n > 12 => "enc_cfg" \in held
    /\ n > 14 => "ref_cfg" \in held

\* Which fields are live, by where main is.
HeldInv ==
    /\ mpc = "start" => Acquired(step)
    /\ streaming \/ mpc \in {"kill", "join", "camera"} => held = Resource
    /\ mpc \in {"encoder", "release"} => "buffers" \in held
    /\ (\E b \in Buffer : where[b] # "user") => "buffers" \in held

\* A buffer marked as a thread's is the one that thread handles; as main stops, first
\* the camera and then the encoder give theirs back.
WhereInv ==
    /\ \A b \in Buffer : where[b] = "cap" =>
        cpc \in {"push", "put", "rollback", "requeue"} /\ cidx = b
    /\ \A b \in Buffer : where[b] = "tx" =>
        complete /\ (Sending \/ tpc = "requeue") /\ pkt = b
    /\ ~streaming /\ mpc \notin {"kill", "join", "camera", "encoder"} =>
        \A b \in Buffer : where[b] # "enc"
    /\ mpc = "encoder" => \A b \in Buffer : where[b] \in {"user", "enc"}
    /\ mpc \in {"release", "reset"} => \A b \in Buffer : where[b] = "user"

\* Where each call that assigns a field is in the order.
LEMMA StepOf ==
    ASSUME NEW s \in 1 .. Len(StartSteps)
    PROVE  /\ StartSteps[s] = "open" <=> s = 1
           /\ StartSteps[s] = "group" <=> s = 4
           /\ StartSteps[s] = "buffers" <=> s = 5
           /\ StartSteps[s] = "reqbufs" <=> s = 6
           /\ StartSteps[s] = "qbuf" <=> s = 7
           /\ StartSteps[s] = "mpp_create" <=> s = 9
           /\ StartSteps[s] = "enc_cfg" <=> s = 12
           /\ StartSteps[s] = "ref_check" <=> s = 14
           /\ StartSteps[s] = "threads" <=> s = 17
BY DEF StartSteps

\* What each of them assigns.
LEMMA AcquiresOf ==
    /\ "buf_group" \in Acquires("group") /\ "buffers" \in Acquires("buffers")
    /\ "mpp_ctx" \in Acquires("mpp_create") /\ "enc_cfg" \in Acquires("enc_cfg")
    /\ "ref_cfg" \in Acquires("ref_check")
BY DEF Acquires

\* The steps that move no buffer and no program counter WhereInv speaks of.
LEMMA WhereFrame ==
    ASSUME WhereInv, UNCHANGED <<where, cidx, pkt>>,
           cpc \in {"push", "put", "rollback", "requeue"}
                => cpc' \in {"push", "put", "rollback", "requeue"},
           complete /\ (Sending \/ tpc = "requeue")
                => complete' /\ (Sending' \/ tpc' = "requeue"),
           mpc' \in {"encoder", "release", "reset"} => mpc' = mpc,
           ~streaming' /\ mpc' \notin {"kill", "join", "camera", "encoder"} =>
                ~streaming /\ mpc \notin {"kill", "join", "camera", "encoder"}
    PROVE  WhereInv'
BY DEF WhereInv

\* Whoever takes a buffer marks it, and main takes back all but those of the threads,
\* which have ended by then.
LEMMA WhereStep == RingIInv /\ WhereInv /\ [Next]_vars => WhereInv'
<1> SUFFICES ASSUME RingIInv, WhereInv, [Next]_vars
             PROVE  WhereInv'
  OBVIOUS
<1> USE DEF mainVars, txVars, capVars, ringVars
<1>0. TypeOK /\ ControlInv /\ OwnershipInv /\ (tpc = "requeue" => ridx = pkt)
  BY DEF RingIInv
<1>1. ASSUME NEW b \in Buffer, CamFill(b) PROVE WhereInv'
  BY <1>0, <1>1 DEF CamFill, WhereInv, TypeOK, Sending
<1>2. CASE Capture
  <2>1. CASE CapCheck \/ CapIdle \/ CapPush \/ CapPutRejected \/ CapRollback
    BY <2>1, WhereFrame DEF CapCheck, CapIdle, CapPush, CapPutRejected, CapRollback, Sending
  <2>2. /\ mpc \notin {"encoder", "release", "reset"} \/ cpc \in {"none", "done"}
        /\ streaming \/ mpc \in {"kill", "join"} \/ cpc \in {"none", "done"}
    BY <1>0 DEF ControlInv
  <2>3. CASE CapDequeue
    BY <1>0, <2>2, <2>3 DEF CapDequeue, WhereInv, TypeOK, Sending
  <2>4. CASE CapPutOk
    BY <1>0, <2>2, <2>4 DEF CapPutOk, WhereInv, TypeOK, Sending
  <2>5. CASE CapRequeue
    BY <1>0, <2>2, <2>5 DEF CapRequeue, WhereInv, TypeOK, Sending
  <2> QED
    BY <1>2, <2>1, <2>3, <2>4, <2>5 DEF Capture
<1>3. CASE Transmit \/ HostRead
  <2>1. mpc \notin {"encoder", "release", "reset"} \/ tpc \in {"none", "done"}
    BY <1>0 DEF ControlInv
  <2>2. CASE TxCheck \/ TxIdle \/ TxWriteCheck \/ TxWriteMore \/ TxWriteEnds
             \/ TxBlock \/ HostRead \/ TxFinish
    BY <2>2, WhereFrame DEF TxCheck, TxIdle, TxWriteCheck, TxWriteMore, TxWriteEnds,
                            TxBlock, HostRead, TxFinish, Sending
  <2>3. ASSUME NEW last \in BOOLEAN, TxGet(last) PROVE WhereInv'
    <3>1. \A b \in Buffer : where[b] # "tx"
      BY <2>3 DEF TxGet, WhereInv, Sending
    <3>2. Head(enc) \in Buffer
      BY <1>0, <2>3 DEF TxGet, TypeOK
    <3>3. CASE last
      BY <1>0, <2>1, <2>3, <3>1, <3>2, <3>3 DEF TxGet, WhereInv, TypeOK, Sending
    <3>4. CASE ~last
      BY <2>1, <2>3, <3>1, <3>4 DEF TxGet, WhereInv, Sending
    <3> QED
      BY <3>3, <3>4
  <2>4. CASE TxRequeue
    BY <1>0, <2>1, <2>4 DEF TxRequeue, WhereInv, TypeOK, Sending
  <2> QED
    BY <1>3, <2>2, <2>3, <2>4 DEF Transmit
<1>4. CASE Start
  <2>1. CASE StartOpen \/ StartReqbufs \/ StartCall
    BY <2>1, WhereFrame DEF StartOpen, StartReqbufs, StartCall, Sending
  <2>2. CASE StartQbuf
    BY <2>2 DEF StartQbuf, WhereInv, Sending
  <2>3. CASE StartThreads
    BY <1>0, <2>3 DEF StartThreads, WhereInv, ControlInv, Sending
  <2> QED
    BY <1>4, <2>1, <2>2, <2>3 DEF Start
<1>5. CASE StopBegin \/ Stop
  <2>1. CASE StopBegin \/ StopKill \/ StopJoin
    BY <2>1, WhereFrame DEF StopBegin, StopKill, StopJoin, Sending
  <2>2. CASE StopCamera
    <3>1. \A b \in Buffer : where[b] \notin {"cap", "tx"}
      BY <1>0, <2>2 DEF StopCamera, WhereInv, ControlInv, Sending
    <3> QED
      BY <1>0, <2>2, <3>1 DEF StopCamera, WhereInv, TypeOK, Place
  <2>3. CASE StopEncoder
    BY <2>3 DEF StopEncoder, WhereInv
  <2>4. CASE StopRelease \/ StopReset
    BY <2>4 DEF StopRelease, StopReset, WhereInv
  <2> QED
    BY <1>5, <2>1, <2>2, <2>3, <2>4 DEF Stop
<1>6. CASE MainLoop \/ NoTrigger \/ StartBegin \/ Exit \/ Sigterm
  BY <1>6, WhereFrame DEF MainLoop, NoTrigger, StartBegin, Exit, Sigterm, Sending
<1>7. CASE Exited \/ UNCHANGED vars
  BY <1>7, WhereFrame DEF Exited, vars, Sending
<1> QED
  BY <1>1, <1>2, <1>3, <1>4, <1>5, <1>6, <1>7 DEF Next, Main

\* The steps of start_pipeline: what is assigned stays so until the threads run.
LEMMA StartHeld ==
    ASSUME TypeOK, ControlInv, HeldInv, Start
    PROVE  HeldInv'
<1> USE DEF txVars, capVars, ringVars
<1>1. mpc = "start" /\ ~streaming /\ Acquired(step) /\ held \subseteq Resource
      /\ step \in 1 .. Len(StartSteps) /\ step \in Int
  BY DEF TypeOK, ControlInv, HeldInv, Start, StartOpen, StartReqbufs, StartQbuf, StartCall, StartThreads
<1>2. CASE StartOpen
  BY <1>1, <1>2, StepOf DEF StartOpen, HeldInv, Acquired
<1>3. CASE StartReqbufs
  BY <1>1, <1>3, StepOf DEF StartReqbufs, HeldInv, Acquired
<1>4. CASE StartQbuf
  BY <1>1, <1>4, StepOf DEF StartQbuf, HeldInv, Acquired
<1>5. CASE StartCall
  <2>1. held \subseteq held'
    BY <1>5 DEF StartCall
  <2>2. CASE mpc' = "start"
    <3>1. held' = held \cup Acquires(StartSteps[step]) /\ step' = step + 1
      BY <1>5, <2>2 DEF StartCall
    <3>2. step # 1
      BY <1>1, <1>5, StepOf DEF StartCall
    <3>3. /\ (step = 4 => "buf_group" \in held') /\ (step = 5 => "buffers" \in held')
          /\ (step = 9 => "mpp_ctx" \in held') /\ (step = 12 => "enc_cfg" \in held')
          /\ (step = 14 => "ref_cfg" \in held')
      <4>1. Acquires(StartSteps[step]) \subseteq held'
        BY <3>1
      <4>2. /\ (step = 4 => StartSteps[step] = "group") /\ (step = 5 => StartSteps[step] = "buffers")
            /\ (step = 9 => StartSteps[step] = "mpp_create")
            /\ (step = 12 => StartSteps[step] = "enc_cfg")
            /\ (step = 14 => StartSteps[step] = "ref_check")
        BY <1>1, StepOf
      <4> QED
        BY <4>1, <4>2, AcquiresOf
    <3>4. Acquired(step)'
      BY <1>1, <2>1, <3>1, <3>2, <3>3 DEF Acquired
    <3> QED
      BY <1>1, <1>5, <2>1, <2>2, <3>4 DEF StartCall, HeldInv
  <2>3. CASE mpc' # "start"
    <3>1. mpc' = "idle"
      BY <1>1, <1>5, <2>3 DEF StartCall
    <3> QED
      BY <1>1, <1>5, <2>1, <3>1 DEF StartCall, HeldInv
  <2> QED
    BY <2>2, <2>3
<1>6. CASE StartThreads
  <2>1. held = Resource
    <3>1. step = 17
      BY <1>1, <1>6, StepOf DEF StartThreads
    <3>2. Resource \subseteq held
      BY <1>1, <3>1 DEF Acquired, Resource
    <3> QED
      BY <1>1, <3>2
  <2> QED
    BY <1>6, <2>1 DEF StartThreads, HeldInv, Resource
<1> QED
  BY <1>2, <1>3, <1>4, <1>5, <1>6 DEF Start

\* The threads run only while all is held, and stop_pipeline drops the buffers last.
LEMMA HeldStep == RingIInv /\ WhereInv /\ HeldInv /\ [Next]_vars => HeldInv'
<1> SUFFICES ASSUME RingIInv, WhereInv, HeldInv, [Next]_vars
             PROVE  HeldInv'
  OBVIOUS
<1> USE DEF mainVars, txVars, capVars, ringVars
<1>0. TypeOK /\ ControlInv
  BY DEF RingIInv
<1>1. ASSUME NEW b \in Buffer, CamFill(b) PROVE HeldInv'
  BY <1>0, <1>1 DEF CamFill, HeldInv, Acquired, TypeOK
<1>2. CASE Capture \/ Transmit \/ HostRead
  <2>1. UNCHANGED mainVars /\ streaming' = streaming
    BY <1>2 DEF Capture, CapCheck, CapIdle, CapDequeue, CapPush, CapPutOk, CapPutRejected,
                CapRollback, CapRequeue, Transmit, TxCheck, TxIdle, TxGet, TxWriteCheck,
                TxWriteMore, TxWriteEnds, TxBlock, TxFinish, TxRequeue, HostRead
  <2>2. CASE UNCHANGED where
    BY <2>1, <2>2 DEF HeldInv, Acquired
  <2>3. CASE where' # where
    <3>1. streaming \/ mpc \in {"kill", "join"}
      BY <1>0, <1>2, <2>3 DEF ControlInv, Capture, CapCheck, CapIdle, CapDequeue, CapPush, CapPutOk,
           CapPutRejected, CapRollback, CapRequeue, Transmit, TxCheck, TxIdle, TxGet, TxWriteCheck,
           TxWriteMore, TxWriteEnds, TxBlock, TxFinish, TxRequeue, HostRead
    <3> QED
      BY <1>0, <2>1, <3>1 DEF HeldInv, ControlInv, Resource
  <2> QED
    BY <2>2, <2>3
<1>3. CASE Start
  BY <1>0, <1>3, StartHeld
<1>4. CASE StopBegin \/ Stop
  <2>1. CASE StopBegin \/ StopKill \/ StopJoin \/ StopReset
    BY <2>1 DEF StopBegin, StopKill, StopJoin, StopReset, HeldInv, Acquired
  <2>2. CASE StopCamera
    BY <1>0, <2>2 DEF StopCamera, HeldInv, ControlInv, Resource
  <2>3. CASE StopEncoder
    BY <1>0, <2>3 DEF StopEncoder, HeldInv, ControlInv
  <2>4. CASE StopRelease
    BY <1>0, <2>4 DEF StopRelease, HeldInv, ControlInv, WhereInv
  <2> QED
    BY <1>4, <2>1, <2>2, <2>3, <2>4 DEF Stop
<1>5. CASE MainLoop \/ NoTrigger \/ StartBegin \/ Exit \/ Sigterm \/ Exited \/ UNCHANGED vars
  BY <1>0, <1>5 DEF MainLoop, NoTrigger, StartBegin, Exit, Sigterm, Exited, vars, HeldInv, Acquired,
                    ControlInv
<1> QED
  BY <1>1, <1>2, <1>3, <1>4, <1>5 DEF Next, Main

----------------------------------------------------------------------------
(* Sessions                                                                *)

\* What the steps of start_pipeline before the n-th have assigned, and nothing else.
AcquiredBefore(n) == UNION {Acquires(StartSteps[i]) : i \in 1 .. n - 1}

\* What is left where main is, when the session before went well.
SessionInv ==
    /\ ~streaming /\ mpc \in {"idle", "trigger", "leave", "start", "exited"} => head = 0 /\ tail = 0
    /\ streaming \/ mpc \in {"kill", "join", "camera"} \/ (mpc = "start" /\ step > 6) =>
        queueOwner = "ctx"
    /\ mpc \in {"encoder", "release", "reset"} => queueOwner = "none"
    /\ mpc = "encoder" => held = Resource \ {"v4l2_fd"}
    /\ mpc = "release" => held = {"buffers", "buf_group"}
    /\ mpc = "reset" => held = {}
    /\ result = "ok" /\ ~streaming /\ mpc \in {"idle", "trigger", "leave", "exited"} =>
        held = {} /\ queueOwner = "none" /\ \A b \in Buffer : where[b] = "user"
    /\ result = "ok" /\ mpc = "start" => held = AcquiredBefore(step)

\* The invariant of a session: the ring, the owners, the fields and what is left.
SessionIInv == RingIInv /\ WhereInv /\ HeldInv /\ SessionInv

\* One step assigns what it assigns.
LEMMA AcquiredNext ==
    ASSUME NEW n \in Nat \ {0}
    PROVE  AcquiredBefore(n + 1) = AcquiredBefore(n) \cup Acquires(StartSteps[n])
<1>1. 1 .. (n + 1) - 1 = (1 .. n - 1) \cup {n}
  OBVIOUS
<1> QED
  BY <1>1 DEF AcquiredBefore

\* At the start nothing.
LEMMA AcquiredFirst == AcquiredBefore(1) = {}
<1>1. 1 .. 1 - 1 = {}
  OBVIOUS
<1> QED
  BY <1>1 DEF AcquiredBefore

\* Steps that leave a session's end as it is: those of the threads and most of main's.
LEMMA SessionFrame ==
    ASSUME SessionInv, UNCHANGED <<streaming, mpc, step, held, queueOwner, result>>,
           streaming \/ mpc \in {"kill", "join"} \/ UNCHANGED <<where, head, tail>>
    PROVE  SessionInv'
BY DEF SessionInv, AcquiredBefore

\* A start that goes well has assigned just what its steps assign.
LEMMA StartSession ==
    ASSUME TypeOK, ControlInv, HeldInv, SessionInv, Start
    PROVE  SessionInv'
<1> USE DEF txVars, capVars, ringVars
<1>1. mpc = "start" /\ ~streaming /\ step \in 1 .. Len(StartSteps) /\ step \in Nat \ {0}
      /\ head = 0 /\ tail = 0 /\ head' = 0 /\ tail' = 0
  BY DEF TypeOK, ControlInv, SessionInv, Start, StartOpen, StartReqbufs, StartQbuf, StartCall, StartThreads
<1>2. CASE mpc' = "idle" /\ ~streaming'
  <2>1. result' \in {"fault", "busy"}
    BY <1>1, <1>2 DEF Start, StartOpen, StartReqbufs, StartQbuf, StartCall, StartThreads
  <2> QED
    BY <1>1, <1>2, <2>1 DEF SessionInv
<1>3. CASE mpc' = "start"
  <2>1. /\ step' = step + 1 /\ streaming' = streaming /\ result' = result
        /\ step > 6 => queueOwner' = queueOwner
        /\ step = 6 => queueOwner' = "ctx"
    BY <1>1, <1>3, StepOf DEF Start, StartOpen, StartReqbufs, StartQbuf, StartCall, StartThreads
  <2>2. step + 1 > 6 => queueOwner' = "ctx"
    BY <1>1, <2>1 DEF SessionInv
  <2>3. held' = held \cup Acquires(StartSteps[step])
    BY <1>1, <1>3 DEF Start, StartOpen, StartReqbufs, StartQbuf, StartCall, StartThreads, Acquires
  <2>4. result' = "ok" => held' = AcquiredBefore(step')
    BY <1>1, <2>1, <2>3, AcquiredNext DEF SessionInv
  <2> QED
    BY <1>1, <1>3, <2>1, <2>2, <2>4 DEF SessionInv, AcquiredBefore
<1>4. CASE mpc' = "idle" /\ streaming'
  <2>1. StartThreads /\ step = 17
    BY <1>1, <1>4, StepOf DEF Start, StartOpen, StartReqbufs, StartQbuf, StartCall, StartThreads
  <2> QED
    BY <1>1, <1>4, <2>1 DEF StartThreads, SessionInv
<1> QED
  BY <1>1, <1>2, <1>3, <1>4 DEF Start, StartOpen, StartReqbufs, StartQbuf, StartCall, StartThreads

\* Threads change nothing of it, and stop_pipeline takes it down field by field.
LEMMA SessionStep == SessionIInv /\ [Next]_vars => SessionInv'
<1> SUFFICES ASSUME SessionIInv, [Next]_vars
             PROVE  SessionInv'
  OBVIOUS
<1> USE DEF mainVars, txVars, capVars, ringVars
<1>0. TypeOK /\ ControlInv /\ WhereInv /\ HeldInv /\ SessionInv
  BY DEF SessionIInv, RingIInv
<1>1. ASSUME NEW b \in Buffer, CamFill(b) PROVE SessionInv'
  BY <1>0, <1>1 DEF CamFill, SessionInv, AcquiredBefore, TypeOK
<1>2. CASE Capture \/ Transmit \/ HostRead
  <2>1. UNCHANGED mainVars /\ streaming' = streaming
    BY <1>2 DEF Capture, CapCheck, CapIdle, CapDequeue, CapPush, CapPutOk, CapPutRejected,
                CapRollback, CapRequeue, Transmit, TxCheck, TxIdle, TxGet, TxWriteCheck,
                TxWriteMore, TxWriteEnds, TxBlock, TxFinish, TxRequeue, HostRead
  <2>2. streaming \/ mpc \in {"kill", "join"}
    BY <1>0, <1>2 DEF ControlInv, Capture, CapCheck, CapIdle, CapDequeue, CapPush, CapPutOk,
         CapPutRejected, CapRollback, CapRequeue, Transmit, TxCheck, TxIdle, TxGet, TxWriteCheck,
         TxWriteMore, TxWriteEnds, TxBlock, TxFinish, TxRequeue, HostRead
  <2> QED
    BY <1>0, <2>1, <2>2, SessionFrame
<1>3. CASE Start
  BY <1>0, <1>3, StartSession
<1>4. CASE StopBegin \/ Stop
  <2>1. CASE StopBegin \/ StopKill \/ StopJoin
    BY <1>0, <2>1 DEF StopBegin, StopKill, StopJoin, SessionInv, ControlInv
  <2>2. CASE StopCamera
    BY <1>0, <2>2 DEF StopCamera, SessionInv, HeldInv, ControlInv
  <2>3. CASE StopEncoder
    BY <1>0, <2>3 DEF StopEncoder, SessionInv, ControlInv, Resource
  <2>4. CASE StopRelease \/ StopReset
    BY <1>0, <2>4 DEF StopRelease, StopReset, SessionInv, ControlInv, WhereInv
  <2> QED
    BY <1>4, <2>1, <2>2, <2>3, <2>4 DEF Stop
<1>5. CASE MainLoop \/ NoTrigger \/ Exit
  BY <1>0, <1>5 DEF MainLoop, NoTrigger, Exit, SessionInv
<1>6. CASE StartBegin
  BY <1>0, <1>6, AcquiredFirst DEF StartBegin, SessionInv, AcquiredBefore
<1>7. CASE Sigterm \/ Exited \/ UNCHANGED vars
  BY <1>0, <1>7, SessionFrame DEF Sigterm, Exited, vars
<1> QED
  BY <1>1, <1>2, <1>3, <1>4, <1>5, <1>6, <1>7 DEF Next, Main

\* Only a start takes the queue from an orphan or streams, and neither gets that far.
LEMMA OrphanStep == SessionIInv /\ [Next]_vars => OrphanIsFinal
<1> SUFFICES ASSUME SessionIInv, [Next]_vars, queueOwner = "orphan"
             PROVE  queueOwner' = "orphan" /\ ~streaming'
  BY DEF OrphanIsFinal
<1> USE DEF mainVars, txVars, capVars, ringVars
<1>0. /\ ~streaming /\ step \in 1 .. Len(StartSteps) /\ step \in Nat
      /\ mpc = "start" => ~(step > 6)
  BY DEF SessionIInv, SessionInv, RingIInv, TypeOK
<1>1. CASE Start
  <2>1. ~StartThreads
    BY <1>0, StepOf DEF StartThreads
  <2> QED
    BY <1>0, <1>1, <2>1 DEF Start, StartOpen, StartReqbufs, StartQbuf, StartCall
<1>2. CASE ~Start
  BY <1>0, <1>2 DEF Next, Main, CamFill, Sigterm, MainLoop, NoTrigger, StartBegin, StopBegin, Stop,
       StopKill, StopJoin, StopCamera, StopEncoder, StopRelease, StopReset, Exit, Exited, vars,
       Capture, CapCheck, CapIdle, CapDequeue, CapPush, CapPutOk, CapPutRejected,
       CapRollback, CapRequeue, Transmit, TxCheck, TxIdle, TxGet, TxWriteCheck,
       TxWriteMore, TxWriteEnds, TxBlock, TxFinish, TxRequeue, HostRead
<1> QED
  BY <1>1, <1>2

\* The invariant is strong enough.
LEMMA SessionClean == SessionIInv => CleanStart
<1> SUFFICES ASSUME SessionIInv PROVE CleanStart
  OBVIOUS
<1>1. ~streaming /\ mpc \in {"idle", "trigger", "leave", "start", "exited"} =>
        enc = <<>> /\ head = 0 /\ tail = 0
  BY DEF SessionIInv, RingIInv, ControlInv, SessionInv
<1> QED
  BY <1>1 DEF SessionIInv, SessionInv, CleanStart, AcquiredBefore

\* The invariant of sessions always holds.
LEMMA SessionAlways == Spec => []SessionIInv
<1>1. Init => SessionIInv
  <2>1. Init => WhereInv /\ HeldInv /\ SessionInv
    BY DEF Init, WhereInv, HeldInv, Acquired, SessionInv
  <2> QED
    BY <2>1, RingInit DEF SessionIInv
<1>2. SessionIInv /\ [Next]_vars => SessionIInv'
  BY RingStep, WhereStep, HeldStep, SessionStep DEF SessionIInv
<1> QED
  BY <1>1, <1>2, PTL DEF Spec

\* In every reachable state, for any number of buffers, a running thread finds every
\* field of ctx live, and the buffers are released after camera and encoder let go.
THEOREM NothingUsedAfterRelease == Spec => []NoUseAfterRelease
<1>1. SessionIInv => NoUseAfterRelease
  <2> SUFFICES ASSUME SessionIInv PROVE NoUseAfterRelease
    OBVIOUS
  <2>1. cpc \notin {"none", "done"} \/ tpc \notin {"none", "done"} => held = Resource
    BY DEF SessionIInv, RingIInv, ControlInv, HeldInv
  <2> QED
    BY <2>1 DEF SessionIInv, HeldInv, NoUseAfterRelease
<1> QED
  BY <1>1, SessionAlways, PTL

\* For any number of buffers, a session that went well leaves nothing to the next, and
\* after a failed start that holds on to the camera nothing ever streams again.
THEOREM SessionsStayApart == Spec => SessionsApart
<1>1. Spec => []SessionIInv /\ [][Next]_vars
  BY SessionAlways, PTL DEF Spec
<1>2. []SessionIInv => []CleanStart
  BY SessionClean, PTL
<1>3. []SessionIInv /\ [][Next]_vars /\ []CleanStart => [][CleanStart' /\ OrphanIsFinal]_vars
  BY OrphanStep, PTL
<1> QED
  BY <1>1, <1>2, <1>3, PTL DEF SessionsApart

----------------------------------------------------------------------------
(* The buffer pool                                                         *)

\* The pool's view of a place.
LEMMA StageOf ==
    /\ Stage("user") = "idle" /\ Stage("queued") = "camera" /\ Stage("filled") = "camera"
    /\ Stage("cap") = "captured" /\ Stage("enc") = "encoding" /\ Stage("tx") = "sent"
BY DEF Stage

\* A step that changes no buffer's stage and nothing in the encoder is none of the pool's.
PoolStands == UNCHANGED <<[b \in Buffer |-> Stage(where[b])], enc>>

\* One buffer moves on: the pool sees it change its stage.
LEMMA StageMoves ==
    ASSUME TypeOK, NEW b \in Buffer, NEW p \in Place, where' = [where EXCEPT ![b] = p]
    PROVE  [c \in Buffer |-> Stage(where'[c])] =
           [[c \in Buffer |-> Stage(where[c])] EXCEPT ![b] = Stage(p)]
BY DEF TypeOK

\* The capture thread's steps are those of the pool that take a buffer to the encoder.
LEMMA CapturePool ==
    ASSUME TypeOK, OwnershipInv, Capture
    PROVE  Pool!Next \/ PoolStands
<1> USE DEF PoolStands
<1>1. CASE CapCheck \/ CapIdle \/ CapPush \/ CapPutRejected \/ CapRollback
  BY <1>1 DEF CapCheck, CapIdle, CapPush, CapPutRejected, CapRollback
<1>2. CASE CapDequeue
  <2>1. PICK b \in Buffer : where[b] = "filled" /\ where' = [where EXCEPT ![b] = "cap"] /\ enc' = enc
    BY <1>2 DEF CapDequeue
  <2>2. Pool!Captured(b)
    BY <2>1, StageMoves, StageOf DEF Pool!Captured, Place
  <2> QED
    BY <2>2 DEF Pool!Next
<1>3. CASE CapPutOk
  <2>1. Pool!Submit(cidx)
    BY <1>3, StageMoves, StageOf DEF CapPutOk, OwnershipInv, Pool!Submit, Place, TypeOK
  <2> QED
    BY <2>1 DEF Pool!Next, TypeOK
<1>4. CASE CapRequeue
  <2>1. Pool!GiveBack(cidx)
    BY <1>4, StageMoves, StageOf, ZenonT(60) DEF CapRequeue, OwnershipInv, Pool!GiveBack, Place, TypeOK
  <2> QED
    BY <2>1 DEF Pool!Next, TypeOK
<1> QED
  BY <1>1, <1>2, <1>3, <1>4 DEF Capture

\* The transmit thread's are those that take the oldest buffer from the encoder.
LEMMA TransmitPool ==
    ASSUME TypeOK, OwnershipInv, tpc = "requeue" => ridx = pkt, Transmit \/ HostRead
    PROVE  Pool!Next \/ PoolStands
<1> USE DEF PoolStands
<1>1. CASE TxCheck \/ TxIdle \/ TxWriteCheck \/ TxWriteMore \/ TxWriteEnds
           \/ TxBlock \/ HostRead \/ TxFinish \/ TxGet(FALSE)
  BY <1>1 DEF TxCheck, TxIdle, TxWriteCheck, TxWriteMore, TxWriteEnds, TxBlock, HostRead,
              TxFinish, TxGet
<1>2. CASE TxGet(TRUE)
  <2>1. enc # <<>> /\ enc' = Tail(enc) /\ where' = [where EXCEPT ![Head(enc)] = "tx"]
    BY <1>2 DEF TxGet
  <2>2. Head(enc) \in Buffer
    BY <2>1 DEF TypeOK
  <2>3. Pool!Encoded
    BY <2>1, <2>2, StageMoves, StageOf DEF Pool!Encoded, Place
  <2> QED
    BY <2>3 DEF Pool!Next
<1>3. CASE TxRequeue
  <2>1. ridx \in Buffer /\ where[ridx] = "tx"
    BY <1>3 DEF TxRequeue, OwnershipInv, TypeOK
  <2>2. Pool!GiveBack(ridx)
    BY <1>3, <2>1, StageMoves, StageOf DEF TxRequeue, Pool!GiveBack, Place
  <2> QED
    BY <2>1, <2>2 DEF Pool!Next
<1> QED
  BY <1>1, <1>2, <1>3 DEF Transmit

\* Main lends buffers, and ends with camera and encoder giving theirs back.
LEMMA MainPool ==
    ASSUME TypeOK, ControlInv, WhereInv, Main \/ Sigterm
    PROVE  Pool!Next \/ PoolStands
<1> USE DEF PoolStands
<1>1. CASE StartOpen \/ StartReqbufs \/ StartCall \/ StartThreads \/ StopBegin \/ StopKill
           \/ StopJoin \/ StopRelease \/ StopReset \/ MainLoop \/ NoTrigger \/ StartBegin
           \/ Exit \/ Sigterm
  BY <1>1 DEF StartOpen, StartReqbufs, StartCall, StartThreads, StopBegin, StopKill, StopJoin,
              StopRelease, StopReset, MainLoop, NoTrigger, StartBegin, Exit, Sigterm
<1>2. CASE StartQbuf
  <2>1. PICK n \in 0 .. NumBuffers :
          where' = [b \in Buffer |-> IF b < n THEN "queued" ELSE where[b]] /\ enc' = enc
    BY <1>2 DEF StartQbuf
  <2> DEFINE S == {b \in Buffer : b < n /\ where[b] = "user"}
  <2>2. \A b \in Buffer : where[b] \in {"user", "queued", "filled"}
    BY <1>2 DEF StartQbuf, ControlInv, WhereInv, TypeOK, Place, Sending
  <2>3. \A b \in Buffer : Stage(where'[b]) = IF b \in S THEN "camera" ELSE Stage(where[b])
    BY <2>1, <2>2, StageOf
  <2>4. CASE S = {}
    BY <2>1, <2>3, <2>4
  <2>5. CASE S # {}
    <3>1. Pool!Lend(S)
      BY <2>1, <2>3, <2>5, StageOf DEF Pool!Lend
    <3> QED
      BY <3>1 DEF Pool!Next
  <2> QED
    BY <2>4, <2>5
<1>3. CASE StopCamera
  <2>1. \A b \in Buffer : where'[b] = IF where[b] \in {"queued", "filled"} THEN "user" ELSE where[b]
    BY <1>3 DEF StopCamera
  <2>2. \A b \in Buffer : Stage(where'[b]) =
          IF Stage(where[b]) = "camera" THEN "idle" ELSE Stage(where[b])
    BY <2>1, StageOf DEF TypeOK, Place
  <2>3. Pool!Withdraw
    BY <1>3, <2>2 DEF StopCamera, Pool!Withdraw
  <2> QED
    BY <2>3 DEF Pool!Next
<1>4. CASE StopEncoder
  <2>1. \A b \in Buffer : where[b] \in {"user", "enc"} /\ where'[b] = "user"
    BY <1>4 DEF StopEncoder, WhereInv
  <2>2. Pool!Abandon
    BY <1>4, <2>1, StageOf DEF StopEncoder, Pool!Abandon
  <2> QED
    BY <2>2 DEF Pool!Next
<1> QED
  BY <1>1, <1>2, <1>3, <1>4 DEF Main, Start, Stop

\* Ring, threads and ioctls together do what the buffer pool promises, with any number
\* of buffers: what goes back to the camera is the buffer of the oldest frame, once.
THEOREM PipelineIsPool == Spec => ImplementsPool
<1>1. Init => Pool!Init
  BY StageOf DEF Init, Pool!Init
<1>2. SessionIInv /\ [Next]_vars => Pool!Next \/ PoolStands
  <2> SUFFICES ASSUME SessionIInv, [Next]_vars PROVE Pool!Next \/ PoolStands
    OBVIOUS
  <2>1. TypeOK /\ ControlInv /\ OwnershipInv /\ WhereInv /\ (tpc = "requeue" => ridx = pkt)
    BY DEF SessionIInv, RingIInv
  <2>2. ASSUME NEW b \in Buffer, CamFill(b) PROVE PoolStands
    <3>1. enc' = enc /\ \A c \in Buffer : Stage(where'[c]) = Stage(where[c])
      BY <2>1, <2>2, StageOf DEF CamFill, TypeOK
    <3> QED
      BY <3>1 DEF PoolStands
  <2>3. CASE Exited \/ UNCHANGED vars
    BY <2>3 DEF Exited, vars, PoolStands
  <2> QED
    BY <2>1, <2>2, <2>3, CapturePool, TransmitPool, MainPool DEF Next
<1>3. SessionIInv /\ [Next]_vars => [Pool!Next]_<<[b \in Buffer |-> Stage(where[b])], enc>>
  BY <1>2 DEF PoolStands
<1> QED
  BY <1>1, <1>3, SessionAlways, PTL DEF Spec, ImplementsPool, Pool!Spec

=============================================================================
