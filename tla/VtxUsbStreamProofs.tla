------------------------- MODULE VtxUsbStreamProofs -------------------------
(***************************************************************************)
(* Proofs about the bulk stream for every packet size, buffer, frame size, *)
(* number of frames and stops: a frame sent in full ends its transfer, and *)
(* no byte goes out twice, wherever signals, stalls and stops strike.      *)
(***************************************************************************)
EXTENDS VtxUsbStream, TLAPS

----------------------------------------------------------------------------
(* Packets                                                                 *)

\* A positive multiple is no less.
LEMMA Times == ASSUME NEW k \in Int, k >= 1, NEW p \in Nat, p > 0 PROVE p * k >= p
<1>1. p * k = p * (k - 1) + p
  OBVIOUS
<1>2. p * (k - 1) >= 0
  OBVIOUS
<1> QED
  BY <1>1, <1>2

\* Quotient and remainder.
LEMMA DivMod ==
  ASSUME NEW p \in Nat \ {0}, NEW a \in Nat
  PROVE  a = p * (a \div p) + (a % p) /\ a % p \in 0 .. p - 1 /\ a \div p \in Int
OBVIOUS

\* The remainder is unique.
LEMMA Remainder ==
  ASSUME NEW p \in Nat \ {0}, NEW q \in Int, NEW r \in 0 .. p - 1, p * q + r \in Nat
  PROVE  (p * q + r) % p = r
<1> DEFINE x == p * q + r
           d == x \div p
           s == x % p
<1>1. x = p * d + s /\ s \in 0 .. p - 1 /\ d \in Int
  BY DivMod
<1>2. p * (q - d) = s - r /\ p * (d - q) = r - s
  BY <1>1
<1>3. ~(q - d >= 1) /\ ~(d - q >= 1)
  BY <1>1, <1>2, Times
<1> QED
  BY <1>1, <1>2, <1>3

\* A count one on: the next remainder, or zero.
LEMMA ModNext ==
  ASSUME NEW p \in Nat \ {0}, NEW a \in Nat
  PROVE  (a + 1) % p = IF a % p = p - 1 THEN 0 ELSE (a % p) + 1
<1> DEFINE d == a \div p
           r == a % p
<1>1. a = p * d + r /\ r \in 0 .. p - 1 /\ d \in Int
  BY DivMod
<1> HIDE DEF d, r
<1>2. CASE r = p - 1
  <2>1. a + 1 = p * (d + 1) + 0 /\ d + 1 \in Int /\ 0 \in 0 .. p - 1
    BY <1>1, <1>2
  <2>2. PICK z \in 0 .. p - 1 : z = 0 /\ p * (d + 1) + z \in Nat
    BY <2>1
  <2>3. (p * (d + 1) + z) % p = z
    BY <2>1, <2>2, Remainder
  <2>4. (a + 1) % p = 0
    BY <2>1, <2>2, <2>3
  <2> QED
    BY <1>2, <2>4 DEF r
<1>3. CASE r # p - 1
  <2>1. a + 1 = p * d + (r + 1) /\ r + 1 \in 0 .. p - 1
    BY <1>1, <1>3
  <2>2. a + 1 \in Nat /\ p * d + (r + 1) \in Nat
    BY <2>1
  <2>3. (p * d + (r + 1)) % p = r + 1
    BY <1>1, <2>1, <2>2, Remainder
  <2>4. (a + 1) % p = r + 1
    BY <2>1, <2>3
  <2> QED
    BY <1>3, <2>4 DEF r
<1> QED
  BY <1>2, <1>3

\* Whole packets do not change a remainder.
LEMMA ModAdd ==
  ASSUME NEW a \in Nat, NEW b \in Nat, a % PacketSize = 0
  PROVE  (a + b) % PacketSize = b % PacketSize
<1> DEFINE c == a \div PacketSize
           d == b \div PacketSize
<1>1. a = PacketSize * c /\ c \in Int /\ b = PacketSize * d + (b % PacketSize) /\ d \in Int
      /\ b % PacketSize \in 0 .. PacketSize - 1
      /\ PacketSize \in Nat \ {0}
  BY DivMod, StreamAssumption
<1>2. PacketSize * c + PacketSize * d = PacketSize * (c + d)
  BY <1>1
<1> HIDE DEF c, d
<1>3. a + b = PacketSize * (c + d) + (b % PacketSize) /\ c + d \in Int
      /\ PacketSize * (c + d) + (b % PacketSize) \in Nat
  BY <1>1, <1>2
<1>4. (PacketSize * (c + d) + (b % PacketSize)) % PacketSize = b % PacketSize
  <2>1. PICK q \in Int : q = c + d
    BY <1>3
  <2>2. PICK r \in 0 .. PacketSize - 1 : r = b % PacketSize
    BY <1>1
  <2>3. (PacketSize * q + r) % PacketSize = r
    BY <1>1, <1>3, <2>1, <2>2, Remainder
  <2> QED
    BY <2>1, <2>2, <2>3
<1> QED
  BY <1>3, <1>4

\* A padded frame fills no packet exactly.
LEMMA PaddedShort ==
  ASSUME NEW n \in Nat
  PROVE  Padded(n) % PacketSize # 0 /\ Padded(n) \in Nat /\ Padded(n) \in n .. n + 1
<1>1. CASE n % PacketSize = 0
  <2>1. 1 % PacketSize = 1
    BY StreamAssumption
  <2> QED
    BY <1>1, <2>1, ModAdd DEF Padded
<1>2. CASE n % PacketSize # 0
  BY <1>2 DEF Padded
<1> QED
  BY <1>1, <1>2

----------------------------------------------------------------------------
(* The invariant                                                           *)

LastOf(t) == t[Len(t)]
LastId == IF transfers = <<>> THEN 0 ELSE LastOf(LastOf(transfers)).frame.id

\* The frame being sent is in the open transfer up to its byte e, and last in it.
At(e) ==
  \/ e = 0 /\ \A i \in 1 .. Len(open) : open[i].frame.id < frame.id
  \/ open # <<>> /\ LastOf(open).frame = frame /\ LastOf(open).to = e

\* In the open transfer is the beginning of frames given up, and of the one being sent.
OpenInv ==
  /\ \A i \in 1 .. Len(open) :
        open[i].from = 0 /\ open[i].to < open[i].frame.total /\ open[i].frame.id <= frame.id
  /\ \A i, j \in 1 .. Len(open) : i < j => open[i].frame.id < open[j].frame.id

\* A transfer the host has: the beginnings of frames given up, then a frame in full.
Ended(t) ==
  /\ t # <<>>
  /\ \A i \in 1 .. Len(t) : t[i].from = 0 /\ (Whole(t[i]) <=> i = Len(t))
  /\ \A i, j \in 1 .. Len(t) : i < j => t[i].frame.id < t[j].frame.id

TransferInv ==
  /\ \A t \in 1 .. Len(transfers) : Ended(transfers[t])
  /\ \A t \in 2 .. Len(transfers) : LastOf(transfers[t - 1]).frame.id < transfers[t][1].frame.id
  /\ LastId <= frame.id
  /\ open # <<>> => LastId < open[1].frame.id

\* Where bulk_write_frame is: all packets but a frame's last are full, and written counts
\* what went out, except after a signal, when the call is about to return.
SendInv ==
  /\ tpc = "write" => written < frame.total
  /\ tpc = "write" \/ (tpc = "loop" /\ written < frame.total) =>
       frame.total % PacketSize # 0 /\ written % PacketSize = 0 /\ LastId < frame.id
  /\ tpc = "write" \/ (tpc = "loop" /\ written < frame.total /\ ~quit /\ streaming) => At(written)

\* main signals only when streaming is false, and the frames of a session are numbered.
ControlInv ==
  /\ mpc \in {"kill", "join"} => ~streaming
  /\ frame_cnt <= frame.id
  /\ tpc \in {"loop", "write", "next"} => frame_cnt < frame.id

IInv == TypeOK /\ ControlInv /\ OpenInv /\ TransferInv /\ SendInv

----------------------------------------------------------------------------
(* Pieces                                                                  *)

\* What Extend makes of the open transfer: the frame being sent, from its start, is its
\* last piece, and the pieces before it stay.
Extended(e, to) ==
  /\ e \in Seq(Piece) /\ e # <<>>
  /\ e[Len(e)] = [frame |-> frame, from |-> 0, to |-> to]
  /\ \A i \in 1 .. Len(e) - 1 :
       i \in 1 .. Len(open) /\ e[i] = open[i] /\ open[i].frame.id < frame.id
  /\ open # <<>> => e[1].frame.id = open[1].frame.id

LEMMA ExtendPieces ==
  ASSUME TypeOK, OpenInv, frame.total < BufSize,
         NEW w \in Nat, NEW to \in Nat, w < to, to <= frame.total, At(w),
         NEW e, e = Extend(open, w, to)
  PROVE  Extended(e, to)
<1> DEFINE p == [frame |-> frame, from |-> 0, to |-> to]
           n == Len(open)
<1>1. p \in Piece /\ n \in Nat /\ open \in Seq(Piece)
  BY StreamAssumption DEF TypeOK, Piece, FrameRecord
<1>2. CASE open # <<>> /\ LastOf(open).frame = frame /\ LastOf(open).to = w
  <2>1. e = [open EXCEPT ![n].to = to]
    BY <1>2 DEF Extend, LastOf
  <2>2. n \in 1 .. n /\ open[n] \in Piece /\ open[n].from = 0 /\ open[n].frame = frame
    BY <1>1, <1>2 DEF OpenInv, LastOf
  <2>3. [open[n] EXCEPT !.to = to] = p
    BY <2>2 DEF Piece
  <2>4. e = [open EXCEPT ![n] = p]
    BY <2>1, <2>3
  <2>5. e \in Seq(Piece) /\ Len(e) = n /\ e[n] = p /\ \A i \in 1 .. n - 1 : e[i] = open[i]
    BY <1>1, <2>2, <2>4
  <2>6. \A i \in 1 .. n - 1 : i \in 1 .. n /\ open[i].frame.id < frame.id
    BY <1>1, <2>2 DEF OpenInv
  <2>7. e[1].frame.id = open[1].frame.id
    BY <1>1, <2>2, <2>5
  <2> QED
    BY <1>2, <2>5, <2>6, <2>7 DEF Extended
<1>3. CASE ~(open # <<>> /\ LastOf(open).frame = frame /\ LastOf(open).to = w)
  <2>1. w = 0 /\ \A i \in 1 .. n : open[i].frame.id < frame.id
    BY <1>3 DEF At
  <2>2. e = Append(open, p)
    BY <1>3, <2>1 DEF Extend, LastOf
  <2>3. /\ e \in Seq(Piece) /\ Len(e) = n + 1 /\ e[n + 1] = p
        /\ \A i \in 1 .. n : e[i] = open[i]
    BY <1>1, <2>2
  <2>4. open # <<>> => 1 \in 1 .. n
    BY <1>1
  <2> QED
    BY <1>1, <2>1, <2>3, <2>4 DEF Extended
<1> QED
  BY <1>2, <1>3

\* The order of the frames is that of the open transfer, the one being sent last.
LEMMA ExtendOrder ==
  ASSUME OpenInv, TypeOK, NEW to \in Nat, NEW e, Extended(e, to),
         NEW i \in 1 .. Len(e), NEW j \in 1 .. Len(e), i < j
  PROVE  e[i].frame.id < e[j].frame.id
<1>1. Len(e) \in Nat
  BY DEF Extended
<1>2. i \in 1 .. Len(e) - 1 /\ (j \in 1 .. Len(e) - 1 \/ j = Len(e))
  BY <1>1
<1>3. e[i] = open[i] /\ i \in 1 .. Len(open) /\ open[i].frame.id < frame.id
  BY <1>2 DEF Extended
<1>4. CASE j = Len(e)
  BY <1>3, <1>4 DEF Extended
<1>5. CASE j \in 1 .. Len(e) - 1
  <2>1. e[j] = open[j] /\ j \in 1 .. Len(open)
    BY <1>5 DEF Extended
  <2> QED
    BY <1>3, <2>1 DEF OpenInv
<1> QED
  BY <1>2, <1>4, <1>5

\* The last transfer is of earlier frames.
LEMMA ExtendFirst ==
  ASSUME TypeOK, TransferInv, LastId < frame.id, NEW to, NEW e, Extended(e, to)
  PROVE  LastId < e[1].frame.id
<1>1. CASE open = <<>>
  <2>1. Len(e) \in Nat /\ Len(e) >= 1
    BY DEF Extended
  <2>2. ~(Len(e) >= 2)
    <3> SUFFICES ASSUME Len(e) >= 2 PROVE FALSE
      OBVIOUS
    <3>1. 1 \in 1 .. Len(e) - 1
      BY <2>1
    <3>2. 1 \in 1 .. Len(open)
      BY <3>1 DEF Extended
    <3> QED
      BY <1>1, <3>2
  <2>3. Len(e) = 1
    <3>1. \A x \in Nat : x >= 1 /\ ~(x >= 2) => x = 1
      OBVIOUS
    <3> QED
      BY <2>1, <2>2, <3>1
  <2> QED
    BY <2>3 DEF Extended
<1>2. CASE open # <<>>
  BY <1>2 DEF TransferInv, Extended
<1> QED
  BY <1>1, <1>2

\* Some more of the frame, all in full packets: the transfer stays open.
LEMMA OpenGrows ==
  ASSUME TypeOK, OpenInv, TransferInv, LastId < frame.id, frame.total < BufSize,
         NEW w \in Nat, NEW to \in Nat, w < to, to < frame.total, At(w),
         open' = Extend(open, w, to), UNCHANGED <<transfers, frame>>
  PROVE  OpenInv' /\ TransferInv' /\ At(to)' /\ LastId' = LastId /\ open' \in Seq(Piece)
<1> DEFINE e == open'
<1> HIDE DEF e
<1>0. Extended(e, to)
  <2>1. frame.total \in Nat /\ e = Extend(open, w, to)
    BY DEF e, TypeOK, FrameRecord
  <2>2. to \in Nat /\ w < to /\ to <= frame.total
    BY <2>1
  <2> QED
    BY <2>1, <2>2, ExtendPieces
<1>1. /\ e \in Seq(Piece) /\ e # <<>>
      /\ e[Len(e)] = [frame |-> frame, from |-> 0, to |-> to]
      /\ \A i \in 1 .. Len(e) - 1 :
           i \in 1 .. Len(open) /\ e[i] = open[i] /\ open[i].frame.id < frame.id
      /\ open # <<>> => e[1].frame.id = open[1].frame.id
  BY <1>0 DEF Extended
<1>2. Len(e) \in Nat /\ Len(e) >= 1 /\ frame.id \in Nat
  <2>1. Len(e) \in Nat /\ Len(e) >= 1
    BY <1>1
  <2>2. frame.id \in Nat
    BY DEF TypeOK, FrameRecord
  <2> QED
    BY <2>1, <2>2
<1>3. \A i \in 1 .. Len(e) : e[i].from = 0 /\ e[i].to < e[i].frame.total /\ e[i].frame.id <= frame.id
  BY <1>1, <1>2 DEF OpenInv
<1>4. \A i, j \in 1 .. Len(e) : i < j => e[i].frame.id < e[j].frame.id
  BY <1>0, ExtendOrder
<1>5. LastId < e[1].frame.id
  BY <1>0, ExtendFirst
<1>6. LastId' = LastId
  BY DEF LastId
<1> QED
  BY <1>1, <1>3, <1>4, <1>5, <1>6 DEF OpenInv, TransferInv, At, LastOf, e

\* The rest of the frame: it ends the transfer.
LEMMA TransferEnds ==
  ASSUME TypeOK, OpenInv, TransferInv, LastId < frame.id, frame.total < BufSize,
         NEW w \in Nat, w < frame.total, At(w),
         transfers' = Append(transfers, Extend(open, w, frame.total)), open' = <<>>, frame' = frame
  PROVE  OpenInv' /\ TransferInv' /\ transfers' \in Seq(Seq(Piece))
<1> DEFINE e == Extend(open, w, frame.total)
           n == Len(transfers)
<1> HIDE DEF e
<1>0. Extended(e, frame.total)
  <2>1. frame.total \in Nat /\ e = Extend(open, w, frame.total)
    BY DEF e, TypeOK, FrameRecord
  <2>2. frame.total \in Nat /\ w < frame.total /\ frame.total <= frame.total
    BY <2>1
  <2> QED
    BY <2>1, <2>2, ExtendPieces
<1>1. /\ e \in Seq(Piece) /\ e # <<>>
      /\ e[Len(e)] = [frame |-> frame, from |-> 0, to |-> frame.total]
      /\ \A i \in 1 .. Len(e) - 1 :
           i \in 1 .. Len(open) /\ e[i] = open[i] /\ open[i].frame.id < frame.id
      /\ open # <<>> => e[1].frame.id = open[1].frame.id
  BY <1>0 DEF Extended
<1>2. Len(e) \in Nat /\ Len(e) >= 1 /\ frame.id \in Nat
  <2>1. Len(e) \in Nat /\ Len(e) >= 1
    BY <1>1
  <2>2. frame.id \in Nat
    BY DEF TypeOK, FrameRecord
  <2> QED
    BY <2>1, <2>2
<1>3. Ended(e)
  <2>0. ASSUME NEW i \in 1 .. Len(open) PROVE open[i].from = 0 /\ ~Whole(open[i])
    <3>1. open[i] \in Piece
      BY DEF TypeOK
    <3>2. open[i].to \in Nat /\ open[i].frame.total \in Nat
      BY <3>1, StreamAssumption DEF Piece, FrameRecord
    <3> QED
      BY <3>2 DEF OpenInv, Whole
  <2>1. \A i \in 1 .. Len(e) : e[i].from = 0 /\ (Whole(e[i]) <=> i = Len(e))
    <3>1. e[Len(e)].from = 0 /\ Whole(e[Len(e)])
      BY <1>1 DEF Whole
    <3>2. \A i \in 1 .. Len(e) - 1 : e[i].from = 0 /\ ~Whole(e[i])
      BY <1>1, <2>0
    <3> QED
      BY <1>2, <3>1, <3>2
  <2>2. \A i, j \in 1 .. Len(e) : i < j => e[i].frame.id < e[j].frame.id
    <3>1. frame.total \in Nat
      BY DEF TypeOK, FrameRecord
    <3> QED
      BY <1>0, <3>1, ExtendOrder
  <2> QED
    BY <1>1, <2>1, <2>2 DEF Ended
<1>4. LastId < e[1].frame.id
  BY <1>0, ExtendFirst
<1>5. /\ transfers' \in Seq(Seq(Piece)) /\ n \in Nat /\ Len(transfers') = n + 1
      /\ transfers'[n + 1] = e /\ \A t \in 1 .. n : transfers'[t] = transfers[t]
  BY <1>1 DEF TypeOK, e
<1>6. \A t \in 1 .. n + 1 : Ended(transfers'[t])
  BY <1>3, <1>5 DEF TransferInv
<1>7. \A t \in 2 .. n + 1 : LastOf(transfers'[t - 1]).frame.id < transfers'[t][1].frame.id
  <2>1. n >= 1 => transfers'[n] = LastOf(transfers) /\ LastId = LastOf(LastOf(transfers)).frame.id
    BY <1>5 DEF LastOf, LastId
  <2> QED
    BY <1>4, <1>5, <2>1 DEF TransferInv
<1>8. LastId' = frame.id
  <2>1. transfers' # <<>> /\ transfers'[Len(transfers')] = e
    BY <1>5
  <2> QED
    BY <1>1, <2>1 DEF LastId, LastOf
<1>9. OpenInv'
  BY DEF OpenInv
<1>10. TransferInv'
  <2>1. LastId' <= frame'.id /\ open' = <<>>
    BY <1>2, <1>8
  <2> QED
    <3>1. \A t \in 1 .. Len(transfers') : Ended(transfers'[t])
      BY <1>5, <1>6
    <3>2. \A t \in 2 .. Len(transfers') : LastOf(transfers'[t - 1]).frame.id < transfers'[t][1].frame.id
      BY <1>5, <1>7
    <3>3. open' # <<>> => LastId' < open'[1].frame.id
      BY <2>1
    <3> QED
      BY <2>1, <3>1, <3>2, <3>3 DEF TransferInv
<1> QED
  BY <1>5, <1>9, <1>10

----------------------------------------------------------------------------
(* Steps                                                                   *)

\* What is known of a frame in the midst of a write().
LEMMA Writing ==
  ASSUME IInv, tpc = "write"
  PROVE  /\ written \in Nat /\ frame.total \in Nat /\ frame.id \in Nat
         /\ written < frame.total /\ frame.total < BufSize
         /\ frame.total % PacketSize # 0 /\ written % PacketSize = 0
         /\ LastId < frame.id /\ At(written)
BY DEF IInv, TypeOK, FrameRecord, SendInv

\* write() takes some full packets, or the rest.
LEMMA WriteStep ==
  ASSUME IInv, NEW n \in 1 .. BufSize, WriteSome(n)
  PROVE  IInv'
<1>1. /\ tpc = "write" /\ n \in 1 .. frame.total - written /\ Send(n) /\ tpc' = "loop"
      /\ n = frame.total - written \/ n % PacketSize = 0
      /\ written' = written + n
      /\ UNCHANGED <<quit, streaming, frame_cnt, frame, aborted, mpc, stops>>
  BY DEF WriteSome
<1>0. PICK w \in Nat : w = written
  BY <1>1, Writing
<1> DEFINE to == w + n
<1>2. /\ w = written /\ written' = to /\ frame.total \in Nat /\ frame.id \in Nat /\ n \in Nat \ {0}
      /\ w < frame.total /\ frame.total < BufSize
      /\ frame.total % PacketSize # 0 /\ w % PacketSize = 0
      /\ LastId < frame.id /\ At(w)
  BY <1>0, <1>1, Writing
<1>3. TypeOK /\ OpenInv /\ TransferInv /\ ControlInv
  BY DEF IInv
<1>4. ControlInv'
  BY <1>1, <1>3 DEF ControlInv
<1>5. CASE n % PacketSize = 0
  <2>1. n # frame.total - w
    <3>1. (w + (frame.total - w)) % PacketSize = (frame.total - w) % PacketSize
      BY <1>2, ModAdd
    <3>2. w + (frame.total - w) = frame.total
      BY <1>2
    <3> QED
      BY <1>2, <1>5, <3>1, <3>2
  <2>2. to \in Nat /\ w < to /\ to < frame.total
    BY <1>1, <1>2, <2>1
  <2>3. open' = Extend(open, w, to) /\ transfers' = transfers
    BY <1>1, <1>2, <1>5 DEF Send
  <2> HIDE DEF to
  <2>4. OpenInv' /\ TransferInv' /\ At(to)' /\ LastId' = LastId /\ open' \in Seq(Piece)
    BY <1>1, <1>2, <1>3, <2>2, <2>3, OpenGrows
  <2>5. to % PacketSize = 0
    BY <1>2, <1>5, ModAdd DEF to
  <2>6. SendInv'
    <3>1. At(written)'
      BY <1>2, <2>4 DEF At
    <3> QED
      BY <1>1, <1>2, <2>4, <2>5, <3>1 DEF SendInv
  <2>7. TypeOK'
    BY <1>1, <1>2, <1>3, <2>2, <2>3, <2>4 DEF TypeOK
  <2> QED
    BY <1>4, <2>4, <2>6, <2>7 DEF IInv
<1>6. CASE n % PacketSize # 0
  <2>1. n = frame.total - w /\ to = frame.total
    BY <1>1, <1>2, <1>6
  <2>2. open' = <<>> /\ transfers' = Append(transfers, Extend(open, w, frame.total))
    BY <1>1, <1>2, <1>6, <2>1 DEF Send
  <2>3. OpenInv' /\ TransferInv' /\ transfers' \in Seq(Seq(Piece))
    BY <1>1, <1>2, <1>3, <2>2, TransferEnds
  <2>4. SendInv'
    BY <1>1, <1>2, <2>1 DEF SendInv
  <2>5. TypeOK'
    BY <1>1, <1>2, <1>3, <2>1, <2>2, <2>3 DEF TypeOK
  <2> QED
    BY <1>4, <2>3, <2>4, <2>5 DEF IInv
<1> QED
  BY <1>5, <1>6

\* A signal: some full packets may be out that written will never count.
LEMMA InterruptStep ==
  ASSUME IInv, Interrupt, UNCHANGED <<frame, written>>, quit' = TRUE \/ streaming' = FALSE
  PROVE  /\ OpenInv' /\ TransferInv' /\ SendInv'
         /\ open' \in Seq(Piece) /\ transfers' \in Seq(Seq(Piece))
         /\ tpc' = tpc \/ (tpc = "write" /\ tpc' = "loop")
<1>1. TypeOK /\ OpenInv /\ TransferInv /\ SendInv
  BY DEF IInv
<1>2. CASE tpc # "write"
  <2>1. UNCHANGED <<tpc, open, transfers>>
    BY <1>2 DEF Interrupt
  <2> QED
    BY <1>1, <1>2, <2>1 DEF OpenInv, TransferInv, SendInv, LastId, TypeOK
<1>3. CASE tpc = "write"
  <2>1. PICK n \in 0 .. frame.total - written - 1 : n % PacketSize = 0 /\ Send(n)
    BY <1>3 DEF Interrupt
  <2>2. tpc' = "loop" /\ transfers' = transfers
    BY <1>3, <2>1 DEF Interrupt, Send
  <2>3. /\ written \in Nat /\ frame.total \in Nat /\ frame.id \in Nat /\ n \in Nat
        /\ written < frame.total /\ frame.total < BufSize
        /\ frame.total % PacketSize # 0 /\ written % PacketSize = 0
        /\ LastId < frame.id /\ At(written)
    BY <1>3, <2>1, Writing
  <2>4. OpenInv' /\ TransferInv' /\ LastId' = LastId /\ open' \in Seq(Piece)
    <3>1. CASE n = 0
      <4>1. open' = open
        BY <2>1, <3>1 DEF Send
      <4> QED
        BY <1>1, <2>2, <4>1 DEF OpenInv, TransferInv, LastId, TypeOK
    <3>2. CASE n # 0
      <4>1. open' = Extend(open, written, written + n)
        BY <2>1, <3>2 DEF Send
      <4>2. written + n \in Nat /\ written < written + n /\ written + n < frame.total
        BY <2>1, <2>3, <3>2
      <4> QED
        BY <1>1, <2>2, <2>3, <4>1, <4>2, OpenGrows
    <3> QED
      BY <3>1, <3>2
  <2>5. SendInv'
    BY <2>2, <2>3, <2>4 DEF SendInv
  <2> QED
    BY <1>1, <1>3, <2>2, <2>4, <2>5 DEF TypeOK
<1> QED
  BY <1>2, <1>3

\* A new frame has a number no piece has.
LEMMA GetStep ==
  ASSUME IInv, NEW len \in SliceLens, TxGet(len)
  PROVE  IInv'
<1> DEFINE hdr == NeedsHeader(frame_cnt)
           total == len + (IF hdr THEN HdrLen ELSE 0)
<1>1. TypeOK /\ OpenInv /\ TransferInv /\ ControlInv
  BY DEF IInv
<1>2. /\ len \in Nat \ {0} /\ total \in Nat /\ BufSize \in Nat /\ hdr \in BOOLEAN
      /\ frame.id \in Nat /\ frame_cnt \in Nat /\ MaxFrames \in Nat
  BY <1>1, StreamAssumption DEF TypeOK, FrameRecord, NeedsHeader
<1>3. Padded(total) % PacketSize # 0 /\ Padded(total) \in Nat /\ Padded(total) \in total .. total + 1
  BY <1>2, PaddedShort
<1>4. /\ tpc = "get" /\ frame.id < MaxFrames /\ written' = 0
      /\ frame' = [id |-> frame.id + 1, cnt |-> frame_cnt, hdr |-> hdr,
                   total |-> IF total > Limit THEN total ELSE Padded(total)]
      /\ tpc' = IF total > Limit THEN "next" ELSE "loop"
      /\ aborted' = IF total > Limit THEN aborted \cup {frame.id + 1} ELSE aborted
      /\ UNCHANGED <<quit, streaming, frame_cnt, mpc, stops, open, transfers>>
  BY DEF TxGet, busVars
<1> HIDE DEF hdr, total
<1>5. frame'.id = frame.id + 1 /\ frame'.total \in Nat /\ frame' \in FrameRecord
  BY <1>1, <1>2, <1>3, <1>4 DEF TypeOK, FrameRecord
<1>6. tpc' = "loop" => frame'.total % PacketSize # 0 /\ frame'.total < BufSize
  BY <1>2, <1>3, <1>4 DEF Limit
<1>7. TypeOK'
  <2>1. aborted' \subseteq 1 .. MaxFrames
    <3>1. frame.id + 1 \in 1 .. MaxFrames /\ aborted \subseteq 1 .. MaxFrames
      BY <1>1, <1>2, <1>4 DEF TypeOK
    <3>2. aborted' \subseteq aborted \cup {frame.id + 1}
      BY <1>4
    <3> QED
      BY <3>1, <3>2
  <2>2. written' \in 0 .. frame'.total /\ tpc' \in {"next", "loop"}
    BY <1>4, <1>5
  <2> QED
    BY <1>1, <1>4, <1>5, <1>6, <2>1, <2>2 DEF TypeOK
<1>8. ControlInv'
  BY <1>1, <1>2, <1>4, <1>5 DEF ControlInv
<1>9. \A i \in 1 .. Len(open) : open[i].frame.id \in Nat /\ open[i].frame.id < frame'.id
  <2>1. \A i \in 1 .. Len(open) : open[i] \in Piece
    BY <1>1 DEF TypeOK
  <2>2. \A i \in 1 .. Len(open) : open[i].frame.id \in Nat
    BY <2>1 DEF Piece, FrameRecord
  <2> QED
    BY <1>1, <1>2, <1>5, <2>2 DEF OpenInv
<1>10. LastId' = LastId /\ LastId <= frame'.id /\ LastId < frame'.id
  <2>1. LastId \in Int
    <3>1. CASE transfers = <<>>
      BY <3>1 DEF LastId
    <3>2. CASE transfers # <<>>
      <4>1. Len(transfers) \in 1 .. Len(transfers) /\ LastOf(transfers) \in Seq(Piece)
        BY <1>1, <3>2 DEF TypeOK, LastOf
      <4>2. LastOf(transfers) # <<>>
        BY <1>1, <4>1 DEF TransferInv, Ended, LastOf
      <4>3. LastOf(LastOf(transfers)) \in Piece
        BY <4>1, <4>2 DEF LastOf
      <4> QED
        BY <3>2, <4>3 DEF LastId, Piece, FrameRecord
    <3> QED
      BY <3>1, <3>2
  <2> QED
    BY <1>1, <1>2, <1>4, <1>5, <2>1 DEF TransferInv, LastId
<1>11. OpenInv'
  BY <1>1, <1>2, <1>4, <1>5, <1>9 DEF OpenInv
<1>12. TransferInv'
  <2>1. LastId' <= frame'.id
    BY <1>10
  <2> QED
    BY <1>1, <1>4, <1>10, <2>1 DEF TransferInv
<1>13. SendInv'
  <2>1. At(0)'
    BY <1>4, <1>9 DEF At
  <2>2. 0 % PacketSize = 0
    BY StreamAssumption
  <2> QED
    BY <1>4, <1>6, <1>10, <2>1, <2>2 DEF SendInv, At
<1> QED
  BY <1>7, <1>8, <1>11, <1>12, <1>13 DEF IInv

\* The steps that put nothing on the bus and have no new frame.
LEMMA OtherStep ==
  ASSUME IInv,
         TxCheck \/ TxIdle \/ WriteLoop \/ WriteAgain \/ WriteGivesUp \/ TxNext
           \/ StopStream \/ Restart \/ Finished \/ UNCHANGED vars
  PROVE  IInv'
<1> USE DEF txVars, busVars
<1>1. TypeOK /\ OpenInv /\ TransferInv /\ ControlInv /\ SendInv
  BY DEF IInv
<1>2. UNCHANGED <<open, transfers, frame, written>>
  BY DEF TxCheck, TxIdle, WriteLoop, WriteAgain, WriteGivesUp, TxNext, StopStream, Restart, Finished, vars
<1>3. OpenInv' /\ TransferInv' /\ LastId' = LastId
  BY <1>1, <1>2 DEF OpenInv, TransferInv, LastId
<1>4. frame_cnt \in Nat /\ frame.id \in Nat /\ frame.id <= MaxFrames /\ MaxFrames \in Nat
      /\ written \in Nat /\ frame.total \in Nat
  BY <1>1, StreamAssumption DEF TypeOK, FrameRecord
<1>5. TypeOK'
  <2>1. frame_cnt' \in 0 .. MaxFrames
    BY <1>1, <1>4 DEF TypeOK, ControlInv, TxCheck, TxIdle, WriteLoop, WriteAgain, WriteGivesUp,
                      TxNext, StopStream, Restart, Finished, vars
  <2>2. tpc \in {"loop", "write"} => frame.id \in 1 .. MaxFrames
    BY <1>1, <1>4 DEF TypeOK, ControlInv
  <2>3. aborted' \subseteq 1 .. MaxFrames
    BY <1>1, <2>2 DEF TypeOK, TxCheck, TxIdle, WriteLoop, WriteAgain, WriteGivesUp,
                      TxNext, StopStream, Restart, Finished, vars
  <2>4. stops' \in 0 .. MaxStops
    BY <1>1, StreamAssumption DEF TypeOK, TxCheck, TxIdle, WriteLoop, WriteAgain, WriteGivesUp,
                      TxNext, StopStream, Restart, Finished, vars
  <2>5. tpc' \in {"loop", "write"} => tpc \in {"loop", "write"}
    BY <1>1 DEF TypeOK, TxCheck, TxIdle, WriteLoop, WriteAgain, WriteGivesUp,
                      TxNext, StopStream, Restart, Finished, vars
  <2>6. /\ quit' \in BOOLEAN /\ streaming' \in BOOLEAN
        /\ tpc' \in {"check", "get", "loop", "write", "next", "done"}
        /\ mpc' \in {"run", "kill", "join"}
    BY <1>1 DEF TypeOK, TxCheck, TxIdle, WriteLoop, WriteAgain, WriteGivesUp,
                TxNext, StopStream, Restart, Finished, vars
  <2> QED
    BY <1>1, <1>2, <2>1, <2>3, <2>4, <2>5, <2>6 DEF TypeOK
<1>6. ControlInv'
  BY <1>1, <1>2, <1>4 DEF ControlInv, TxCheck, TxIdle, WriteLoop, WriteAgain, WriteGivesUp,
                          TxNext, StopStream, Restart, Finished, vars
<1>7. SendInv'
  BY <1>1, <1>2, <1>3, <1>4 DEF SendInv, At, ControlInv, TxCheck, TxIdle, WriteLoop, WriteAgain,
       WriteGivesUp, TxNext, StopStream, Restart, Finished, vars
<1> QED
  BY <1>3, <1>5, <1>6, <1>7 DEF IInv

\* A signal comes with quit set, or from main once streaming is false.
LEMMA SignalStep ==
  ASSUME IInv, Sigterm \/ StopKill
  PROVE  IInv'
<1>0. TypeOK /\ ControlInv
  BY DEF IInv
<1>1. /\ Interrupt /\ (quit' = TRUE \/ streaming' = FALSE)
      /\ UNCHANGED <<streaming, frame_cnt, frame, written, aborted, stops>>
      /\ quit' \in BOOLEAN /\ mpc' \in {mpc, "join"} /\ (mpc' # mpc => mpc = "kill")
  <2>1. CASE Sigterm
    BY <1>0, <2>1 DEF Sigterm
  <2>2. CASE StopKill
    <3>1. streaming = FALSE
      BY <1>0, <2>2 DEF StopKill, ControlInv, TypeOK
    <3> QED
      BY <1>0, <2>2, <3>1 DEF StopKill, TypeOK
  <2> QED
    BY <2>1, <2>2
<1>2. /\ OpenInv' /\ TransferInv' /\ SendInv'
      /\ open' \in Seq(Piece) /\ transfers' \in Seq(Seq(Piece))
      /\ tpc' = tpc \/ (tpc = "write" /\ tpc' = "loop")
  BY <1>1, InterruptStep
<1>3. TypeOK' /\ ControlInv'
  BY <1>1, <1>2 DEF IInv, TypeOK, ControlInv
<1> QED
  BY <1>2, <1>3 DEF IInv

\* The initial state satisfies the invariant.
LEMMA InvInit == Init => IInv
<1> SUFFICES ASSUME Init PROVE IInv
  OBVIOUS
<1>1. TypeOK
  <2>1. frame \in FrameRecord /\ 0 \in 0 .. MaxFrames /\ 0 \in 0 .. MaxStops /\ 0 \in 0 .. frame.total
    BY StreamAssumption DEF Init, FrameRecord
  <2>2. open \in Seq(Piece) /\ transfers \in Seq(Seq(Piece))
    BY DEF Init
  <2> QED
    BY <2>1, <2>2 DEF Init, TypeOK
<1>2. OpenInv /\ TransferInv
  BY DEF Init, OpenInv, TransferInv, LastId
<1> QED
  BY <1>1, <1>2 DEF Init, IInv, ControlInv, SendInv

\* Every step preserves it, so that it always holds.
LEMMA InvStep == IInv /\ [Next]_vars => IInv'
BY WriteStep, GetStep, OtherStep, SignalStep DEF Next

LEMMA InvAlways == Spec => []IInv
BY InvInit, InvStep, PTL DEF Spec

\* However the host stalls and whenever the stream is stopped, for every packet size and
\* every frame size: a frame sent in full ends its transfer, and only such a frame does.
THEOREM FramesEndTransfers == Spec => []FrameEndsTransfer
<1>1. IInv => FrameEndsTransfer
  <2> SUFFICES ASSUME IInv PROVE FrameEndsTransfer
    OBVIOUS
  <2>1. ASSUME NEW i \in 1 .. Len(open) PROVE ~Whole(open[i])
    <3>1. open[i] \in Piece
      BY DEF IInv, TypeOK
    <3>2. open[i].to \in Nat /\ open[i].frame.total \in Nat
      BY <3>1, StreamAssumption DEF Piece, FrameRecord
    <3> QED
      BY <3>2 DEF IInv, OpenInv, Whole
  <2> QED
    BY <2>1 DEF IInv, TransferInv, Ended, FrameEndsTransfer
<1> QED
  BY <1>1, InvAlways, PTL

\* No byte is sent twice and no frame after a later one, though a signal may strike when
\* some packets of a write() are out that written does not count.
THEOREM NothingTwice == Spec => []NothingSentTwice
<1>1. IInv => NothingSentTwice
  <2> SUFFICES ASSUME IInv PROVE NothingSentTwice
    OBVIOUS
  <2>1. TypeOK /\ OpenInv /\ TransferInv
    BY DEF IInv
  <2>2. ASSUME NEW t \in Pieces, NEW i \in 1 .. Len(t)
        PROVE  t[i].from = 0 /\ (i > 1 => t[i-1].frame.id < t[i].frame.id)
    <3>1. CASE t = open
      BY <2>1, <3>1 DEF OpenInv, TypeOK
    <3>2. CASE t # open
      <4>1. Ended(t) /\ t \in Seq(Piece)
        BY <2>1, <3>2 DEF TransferInv, Pieces, TypeOK
      <4> QED
        BY <4>1 DEF Ended
    <3> QED
      BY <3>1, <3>2
  <2>3. transfers # <<>> /\ open # <<>> =>
          transfers[Len(transfers)][Len(transfers[Len(transfers)])].frame.id < open[1].frame.id
    BY <2>1 DEF TransferInv, LastId, LastOf
  <2>4. \A t \in 2 .. Len(transfers) :
          transfers[t-1][Len(transfers[t-1])].frame.id < transfers[t][1].frame.id
    BY <2>1 DEF TransferInv, LastOf
  <2> QED
    BY <2>2, <2>3, <2>4 DEF NothingSentTwice
<1> QED
  BY <1>1, InvAlways, PTL

----------------------------------------------------------------------------
(* A stream of which no frame was given up                                 *)

\* bulk_write_frame has bytes left to write.
InWrite == tpc = "write" \/ (tpc = "loop" /\ written < frame.total)

\* Until a frame is given up: the transfers are the frames up to the one being sent,
\* and of no other is anything out.
FramedInv == aborted = {} =>
  /\ \A t \in 1 .. Len(transfers) : Len(transfers[t]) = 1 /\ transfers[t][1].frame.id = t
  /\ Len(transfers) = IF InWrite THEN frame.id - 1 ELSE frame.id
  /\ open # <<>> => InWrite /\ Len(open) = 1 /\ open[1].frame = frame
  /\ tpc \in {"loop", "next"} /\ ~InWrite => transfers[frame.id][1].frame = frame

\* The number of the frame that frame_cnt is the count of, sent or to come.
Counted == IF tpc \in {"loop", "write", "next"} THEN frame.id ELSE frame.id + 1

\* Frame k has count c: as many frames before it as c is past a multiple of HeaderPeriod,
\* a frame went out with a header.
HeaderAt(k, c) ==
  /\ k - (c % HeaderPeriod) >= 1
  /\ c % HeaderPeriod # 0 => transfers[k - (c % HeaderPeriod)][1].frame.hdr

\* The frame being sent has the count and the header the session's count says.
CountInv == tpc \in {"loop", "write", "next"} =>
  frame.cnt = frame_cnt /\ frame.hdr = NeedsHeader(frame.cnt)

HeaderInv == aborted = {} =>
  /\ \A t \in 1 .. Len(transfers) :
       /\ transfers[t][1].frame.hdr = NeedsHeader(transfers[t][1].frame.cnt)
       /\ HeaderAt(t, transfers[t][1].frame.cnt)
  /\ HeaderAt(Counted, frame_cnt)

StreamIInv == IInv /\ FramedInv /\ CountInv /\ HeaderInv

\* What is known of the numbers.
LEMMA Numbers ==
  ASSUME TypeOK
  PROVE  /\ frame.id \in Nat /\ frame.cnt \in Nat /\ frame.total \in Nat /\ frame_cnt \in Nat
         /\ written \in Nat /\ Len(transfers) \in Nat /\ Len(open) \in Nat
         /\ HeaderPeriod \in Nat \ {0} /\ frame_cnt % HeaderPeriod \in 0 .. HeaderPeriod - 1
<1>1. HeaderPeriod \in Nat \ {0} /\ MaxFrames \in Nat
  BY StreamAssumption
<1>2. frame.id \in Nat /\ frame.cnt \in Nat /\ frame.total \in Nat /\ frame_cnt \in Nat
  BY <1>1 DEF TypeOK, FrameRecord
<1>3. frame_cnt % HeaderPeriod \in 0 .. HeaderPeriod - 1
  BY <1>1, <1>2, DivMod
<1>4. written \in Nat /\ Len(transfers) \in Nat /\ Len(open) \in Nat
  BY <1>2 DEF TypeOK
<1> QED
  BY <1>1, <1>2, <1>3, <1>4

\* As long as no frame is given up, what a write() makes of the open transfer is one piece.
LEMMA OnePiece ==
  ASSUME IInv, FramedInv, aborted = {}, frame.total < BufSize,
         NEW w \in Nat, NEW to \in Nat, w < to, to <= frame.total, At(w),
         NEW e, e = Extend(open, w, to)
  PROVE  Len(e) = 1 /\ e[1].frame = frame
<1>1. TypeOK /\ OpenInv
  BY DEF IInv
<1>2. /\ e \in Seq(Piece) /\ e # <<>>
      /\ e[Len(e)] = [frame |-> frame, from |-> 0, to |-> to]
      /\ \A i \in 1 .. Len(e) - 1 :
           i \in 1 .. Len(open) /\ e[i] = open[i] /\ open[i].frame.id < frame.id
  <2>1. Extended(e, to)
    BY <1>1, ExtendPieces
  <2> QED
    BY <2>1 DEF Extended
<1>3. Len(e) \in Nat /\ Len(e) >= 1
  BY <1>2
<1>4. ~(Len(e) >= 2)
  <2> SUFFICES ASSUME Len(e) >= 2 PROVE FALSE
    OBVIOUS
  <2>0. 1 \in 1 .. Len(e) - 1
    BY <1>3
  <2>1. 1 \in 1 .. Len(open) /\ open[1].frame.id < frame.id
    BY <1>2, <2>0
  <2>2. open # <<>>
    BY <2>1
  <2>3. open[1].frame = frame /\ frame.id \in Nat
    BY <1>1, <2>2, Numbers DEF FramedInv
  <2> QED
    BY <2>1, <2>3
<1>5. Len(e) = 1
  <2>1. \A x \in Nat : x >= 1 /\ ~(x >= 2) => x = 1
    OBVIOUS
  <2> QED
    BY <1>3, <1>4, <2>1
<1>6. e[1] = [frame |-> frame, from |-> 0, to |-> to]
  BY <1>2, <1>5
<1> QED
  BY <1>5, <1>6

\* The steps that put nothing on the bus, and neither begin nor end a frame.
LEMMA FramedStays ==
  ASSUME FramedInv, aborted' = {} => aborted = {}, UNCHANGED <<open, transfers, frame>>,
         InWrite' = InWrite,
         tpc' \in {"loop", "next"} /\ ~InWrite' => tpc \in {"loop", "next"}
  PROVE  FramedInv'
BY DEF FramedInv

LEMMA HeaderStays ==
  ASSUME HeaderInv, aborted' = {} => aborted = {}, UNCHANGED <<transfers, frame_cnt>>,
         Counted' = Counted
  PROVE  HeaderInv'
BY DEF HeaderInv, HeaderAt

\* The count of a piece the host has.
LEMMA CountOf ==
  ASSUME TypeOK, FramedInv, aborted = {}, NEW t \in 1 .. Len(transfers)
  PROVE  transfers[t][1].frame.cnt \in Nat
<1>1. transfers[t] \in Seq(Piece) /\ Len(transfers[t]) = 1
  BY DEF TypeOK, FramedInv
<1>2. transfers[t][1] \in Piece
  BY <1>1
<1> QED
  BY <1>2, StreamAssumption DEF Piece, FrameRecord

\* write() takes some full packets, or the rest.
LEMMA StreamWrite ==
  ASSUME HdrLen > 0, StreamIInv, NEW n \in 1 .. BufSize, WriteSome(n)
  PROVE  FramedInv' /\ CountInv' /\ HeaderInv'
<1>0. IInv /\ FramedInv /\ CountInv /\ HeaderInv /\ TypeOK
  BY DEF StreamIInv, IInv
<1>1. /\ tpc = "write" /\ n \in 1 .. frame.total - written /\ Send(n) /\ tpc' = "loop"
      /\ n = frame.total - written \/ n % PacketSize = 0
      /\ written' = written + n
      /\ UNCHANGED <<quit, streaming, frame_cnt, frame, aborted, mpc, stops>>
  BY DEF WriteSome
<1>2. /\ written \in Nat /\ frame.total \in Nat /\ frame.id \in Nat /\ n \in Nat \ {0}
      /\ written < frame.total /\ frame.total < BufSize
      /\ frame.total % PacketSize # 0 /\ written % PacketSize = 0
      /\ LastId < frame.id /\ At(written)
  BY <1>0, <1>1, Writing
<1>3. CountInv'
  BY <1>0, <1>1 DEF CountInv
<1>4. CASE aborted # {}
  BY <1>1, <1>3, <1>4 DEF FramedInv, HeaderInv
<1>5. CASE aborted = {} /\ n % PacketSize = 0
  <2>1. n # frame.total - written
    <3>1. (written + (frame.total - written)) % PacketSize = (frame.total - written) % PacketSize
      BY <1>2, ModAdd
    <3>2. written + (frame.total - written) = frame.total
      BY <1>2
    <3> QED
      BY <1>2, <1>5, <3>1, <3>2
  <2>2. open' = Extend(open, written, written + n) /\ transfers' = transfers
    BY <1>2, <1>1, <1>5 DEF Send
  <2>3. written + n \in Nat /\ written < written + n /\ written + n <= frame.total
    BY <1>1, <1>2
  <2>4. Len(open') = 1 /\ open'[1].frame = frame
    BY <1>0, <1>2, <1>5, <2>2, <2>3, OnePiece
  <2>5. InWrite /\ InWrite'
    BY <1>1, <1>2, <2>1, <2>3 DEF InWrite
  <2>6. FramedInv'
    BY <1>0, <1>1, <1>5, <2>2, <2>4, <2>5 DEF FramedInv
  <2>7. HeaderInv'
    BY <1>0, <1>1, <2>2, HeaderStays DEF Counted
  <2> QED
    BY <1>3, <2>6, <2>7
<1>6. CASE aborted = {} /\ n % PacketSize # 0
  <2> DEFINE e == Extend(open, written, written + n)
             k == frame.id
  <2>1. n = frame.total - written /\ written + n = frame.total
    BY <1>1, <1>2, <1>6
  <2>2. open' = <<>> /\ transfers' = Append(transfers, e)
    BY <1>2, <1>1, <1>6 DEF Send
  <2>3. e \in Seq(Piece) /\ Len(e) = 1 /\ e[1].frame = frame
    <3>1. written + n \in Nat /\ written < written + n /\ written + n <= frame.total
      BY <1>2, <2>1
    <3>2. Len(e) = 1 /\ e[1].frame = frame
      BY <1>0, <1>2, <1>6, <3>1, OnePiece
    <3>3. e \in Seq(Piece)
      <4>1. Extended(e, written + n)
        BY <1>0, <1>2, <3>1, ExtendPieces DEF IInv
      <4> QED
        BY <4>1 DEF Extended
    <3> QED
      BY <3>2, <3>3
  <2> HIDE DEF e
  <2>4. InWrite /\ ~InWrite'
    BY <1>1, <1>2, <2>1 DEF InWrite
  <2>5. Len(transfers) = k - 1 /\ Len(transfers') = k /\ transfers'[k] = e
        /\ \A t \in 1 .. k - 1 : transfers'[t] = transfers[t]
    <3>1. Len(transfers) = k - 1 /\ k \in Nat
      BY <1>0, <1>2, <1>6, <2>4 DEF FramedInv
    <3>2. transfers \in Seq(Seq(Piece)) /\ Len(transfers) \in Nat
      BY <1>0 DEF TypeOK
    <3>3. /\ Len(transfers') = Len(transfers) + 1 /\ transfers'[Len(transfers) + 1] = e
          /\ \A t \in 1 .. Len(transfers) : transfers'[t] = transfers[t]
      BY <2>2, <2>3, <3>2
    <3>4. Len(transfers) + 1 = k
      BY <3>1
    <3> QED
      BY <3>1, <3>3, <3>4
  <2>6. FramedInv'
    <3>1. \A t \in 1 .. k - 1 : Len(transfers[t]) = 1 /\ transfers[t][1].frame.id = t
      BY <1>0, <1>6, <2>5 DEF FramedInv
    <3>2. \A t \in 1 .. k : Len(transfers'[t]) = 1 /\ transfers'[t][1].frame.id = t
      <4>1. Len(transfers'[k]) = 1 /\ transfers'[k][1].frame.id = k
        BY <2>3, <2>5
      <4>2. \A t \in 1 .. k : t \in 1 .. k - 1 \/ t = k
        BY <1>2
      <4> QED
        BY <2>5, <3>1, <4>1, <4>2
    <3> QED
      BY <1>1, <2>2, <2>3, <2>4, <2>5, <3>2 DEF FramedInv
  <2>7. HeaderInv'
    <3>1. frame.cnt = frame_cnt /\ frame.hdr = NeedsHeader(frame.cnt) /\ Counted = k /\ Counted' = k
      BY <1>0, <1>1 DEF CountInv, Counted
    <3>2. frame_cnt % HeaderPeriod \in 0 .. HeaderPeriod - 1 /\ HeaderPeriod \in Nat \ {0}
      BY <1>0, Numbers
    <3>3. HeaderAt(k, frame_cnt)
      BY <1>0, <1>6, <3>1 DEF HeaderInv
    <3>4. HeaderAt(k, frame_cnt)'
      <4>1. frame_cnt % HeaderPeriod # 0 => k - (frame_cnt % HeaderPeriod) \in 1 .. k - 1
        BY <1>2, <3>2, <3>3 DEF HeaderAt
      <4> QED
        BY <1>1, <2>5, <3>3, <4>1 DEF HeaderAt
    <3>5. ASSUME NEW t \in 1 .. k - 1
          PROVE  /\ transfers'[t][1].frame.hdr = NeedsHeader(transfers'[t][1].frame.cnt)
                 /\ HeaderAt(t, transfers[t][1].frame.cnt)'
      <4> DEFINE c == transfers[t][1].frame.cnt
      <4>1. c \in Nat
        BY <1>0, <1>6, <2>5, CountOf DEF IInv
      <4>2. transfers[t][1].frame.hdr = NeedsHeader(c) /\ HeaderAt(t, c)
        BY <1>0, <1>6, <2>5 DEF HeaderInv
      <4>3. c % HeaderPeriod \in 0 .. HeaderPeriod - 1
        BY <3>2, <4>1, DivMod
      <4>4. c % HeaderPeriod # 0 => t - (c % HeaderPeriod) \in 1 .. k - 1
        <5>1. t - (c % HeaderPeriod) >= 1
          BY <4>2 DEF HeaderAt
        <5>2. k \in Nat
          BY <1>2
        <5> HIDE DEF c, k
        <5>3. t \in Nat /\ t <= k - 1
          BY <5>2
        <5> QED
          BY <3>2, <4>3, <5>1, <5>2, <5>3
      <4>5. transfers'[t] = transfers[t]
        BY <2>5
      <4> QED
        BY <2>5, <4>2, <4>4, <4>5 DEF HeaderAt
    <3> QED
      BY <1>1, <1>2, <2>3, <2>5, <3>1, <3>4, <3>5 DEF HeaderInv
  <2> QED
    BY <1>3, <2>6, <2>7
<1> QED
  BY <1>4, <1>5, <1>6

\* A signal, likewise; the call has bytes left and returns.
LEMMA StreamSignal ==
  ASSUME StreamIInv, Interrupt, UNCHANGED <<frame_cnt, frame, written, aborted>>
  PROVE  FramedInv' /\ CountInv' /\ HeaderInv'
<1>0. IInv /\ FramedInv /\ CountInv /\ HeaderInv /\ TypeOK
  BY DEF StreamIInv, IInv
<1>1. CASE tpc # "write"
  <2>1. UNCHANGED <<tpc, open, transfers>>
    BY <1>1 DEF Interrupt
  <2> QED
    BY <1>0, <2>1, FramedStays, HeaderStays DEF InWrite, Counted, CountInv
<1>2. CASE tpc = "write"
  <2>1. PICK n \in 0 .. frame.total - written - 1 : n % PacketSize = 0 /\ Send(n)
    BY <1>2 DEF Interrupt
  <2>2. tpc' = "loop" /\ transfers' = transfers
    BY <1>2, <2>1 DEF Interrupt, Send
  <2>3. /\ written \in Nat /\ frame.total \in Nat /\ frame.id \in Nat /\ n \in Nat
        /\ written < frame.total /\ frame.total < BufSize /\ At(written)
    BY <1>0, <1>2, <2>1, Writing
  <2>4. CountInv' /\ HeaderInv'
    BY <1>0, <1>2, <2>2, HeaderStays DEF Counted, CountInv
  <2>5. InWrite /\ InWrite'
    BY <1>2, <2>2, <2>3 DEF InWrite
  <2>6. FramedInv'
    <3>1. CASE n = 0
      <4>1. open' = open
        BY <2>1, <3>1 DEF Send
      <4> QED
        BY <1>0, <1>2, <2>2, <2>5, <4>1, FramedStays
    <3>2. CASE n # 0 /\ aborted = {}
      <4>1. open' = Extend(open, written, written + n)
        BY <2>1, <3>2 DEF Send
      <4>2. written + n \in Nat /\ written < written + n /\ written + n <= frame.total
        BY <2>1, <2>3, <3>2
      <4>3. Len(open') = 1 /\ open'[1].frame = frame
        BY <1>0, <2>3, <3>2, <4>1, <4>2, OnePiece
      <4> QED
        BY <1>0, <2>2, <2>5, <3>2, <4>3 DEF FramedInv
    <3>3. CASE aborted # {}
      BY <3>3 DEF FramedInv
    <3> QED
      BY <3>1, <3>2, <3>3
  <2> QED
    BY <2>4, <2>6
<1> QED
  BY <1>1, <1>2

\* A frame begins.
LEMMA StreamGet ==
  ASSUME StreamIInv, NEW len \in SliceLens, TxGet(len)
  PROVE  FramedInv' /\ CountInv' /\ HeaderInv'
<1> DEFINE hdr == NeedsHeader(frame_cnt)
           total == len + (IF hdr THEN HdrLen ELSE 0)
<1>0. IInv /\ FramedInv /\ CountInv /\ HeaderInv /\ TypeOK
  BY DEF StreamIInv, IInv
<1>1. /\ len \in Nat \ {0} /\ total \in Nat \ {0} /\ frame.id \in Nat /\ frame_cnt \in Nat
  BY <1>0, Numbers, StreamAssumption
<1>2. Padded(total) \in Nat \ {0}
  BY <1>1, PaddedShort
<1>3. /\ tpc = "get" /\ written' = 0
      /\ frame' = [id |-> frame.id + 1, cnt |-> frame_cnt, hdr |-> hdr,
                   total |-> IF total > Limit THEN total ELSE Padded(total)]
      /\ tpc' = IF total > Limit THEN "next" ELSE "loop"
      /\ aborted' = IF total > Limit THEN aborted \cup {frame.id + 1} ELSE aborted
      /\ UNCHANGED <<frame_cnt, open, transfers>>
  BY DEF TxGet, busVars
<1> HIDE DEF total
<1>4. frame'.id = frame.id + 1 /\ frame'.cnt = frame_cnt /\ frame'.hdr = hdr /\ frame'.total \in Nat \ {0}
  BY <1>1, <1>2, <1>3
<1>5. CountInv'
  BY <1>3, <1>4 DEF CountInv
<1>6. Counted' = Counted /\ HeaderInv'
  <2>1. Counted' = Counted
    BY <1>3, <1>4 DEF Counted
  <2>2. aborted' = {} => aborted = {}
    BY <1>3
  <2> QED
    BY <1>0, <1>3, <2>1, <2>2, HeaderStays
<1>7. FramedInv'
  <2> SUFFICES ASSUME aborted' = {} PROVE FramedInv'
    BY DEF FramedInv
  <2>1. aborted = {} /\ tpc' = "loop"
    BY <1>3
  <2>2. ~InWrite /\ InWrite'
    BY <1>3, <1>4, <2>1 DEF InWrite
  <2>3. open = <<>> /\ Len(transfers) = frame'.id - 1
    BY <1>0, <1>1, <1>4, <2>1, <2>2 DEF FramedInv
  <2> QED
    BY <1>0, <1>3, <2>1, <2>2, <2>3 DEF FramedInv
<1> QED
  BY <1>5, <1>6, <1>7

\* A frame ends; the next has the next count.
LEMMA StreamNext ==
  ASSUME HdrLen > 0, StreamIInv, TxNext
  PROVE  FramedInv' /\ CountInv' /\ HeaderInv'
<1> DEFINE k == frame.id
           c == frame_cnt
           p == HeaderPeriod
<1>0. IInv /\ FramedInv /\ CountInv /\ HeaderInv /\ TypeOK
  BY DEF StreamIInv, IInv
<1>1. /\ tpc = "next" /\ tpc' = "check" /\ frame_cnt' = c + 1
      /\ UNCHANGED <<frame, written, aborted, open, transfers>>
  BY DEF TxNext, busVars
<1>2. ~InWrite /\ InWrite' = InWrite
  BY <1>1 DEF InWrite
<1>3. FramedInv' /\ CountInv'
  BY <1>0, <1>1, <1>2, FramedStays DEF CountInv
<1>4. HeaderInv'
  <2> SUFFICES ASSUME aborted = {} PROVE HeaderInv'
    BY <1>1 DEF HeaderInv
  <2>1. Counted = k /\ Counted' = k + 1
    BY <1>1 DEF Counted
  <2>2. k \in Nat /\ c \in Nat /\ p \in Nat \ {0} /\ c % p \in 0 .. p - 1
    BY <1>0, Numbers
  <2>3. HeaderAt(k, c)
    BY <1>0, <2>1 DEF HeaderInv
  <2>4. Len(transfers) = k /\ transfers[k][1].frame = frame /\ frame.hdr = NeedsHeader(c)
    BY <1>0, <1>1, <1>2 DEF FramedInv, CountInv
  <2>5. c % p = 0 => transfers[k][1].frame.hdr
    BY <2>2, <2>4 DEF NeedsHeader
  <2>6. transfers[k - (c % p)][1].frame.hdr /\ k - (c % p) >= 1
    <3>1. CASE c % p = 0
      <4>1. k - (c % p) = k
        BY <2>2, <3>1
      <4> QED
        BY <2>3, <2>5, <3>1, <4>1 DEF HeaderAt
    <3>2. CASE c % p # 0
      BY <2>3, <3>2 DEF HeaderAt
    <3> QED
      BY <3>1, <3>2
  <2>7. HeaderAt(k + 1, c + 1)
    <3>1. (c + 1) % p = IF c % p = p - 1 THEN 0 ELSE (c % p) + 1
      BY <2>2, ModNext
    <3>2. CASE c % p = p - 1
      BY <2>2, <3>1, <3>2 DEF HeaderAt
    <3>3. CASE c % p # p - 1
      <4>1. (c + 1) % p = (c % p) + 1
        BY <3>1, <3>3
      <4>2. (k + 1) - ((c + 1) % p) = k - (c % p)
        BY <2>2, <4>1
      <4> QED
        BY <2>6, <4>2 DEF HeaderAt
    <3> QED
      BY <3>2, <3>3
  <2>8. HeaderAt(Counted, frame_cnt)'
    BY <1>1, <2>1, <2>7 DEF HeaderAt
  <2>9. \A t \in 1 .. Len(transfers) :
           /\ transfers[t][1].frame.hdr = NeedsHeader(transfers[t][1].frame.cnt)
           /\ HeaderAt(t, transfers[t][1].frame.cnt)
    BY <1>0 DEF HeaderInv
  <2> QED
    BY <1>1, <2>8, <2>9 DEF HeaderInv, HeaderAt
<1> QED
  BY <1>3, <1>4

\* A session begins with count 0, which needs no frame before it.
LEMMA StreamRestart ==
  ASSUME StreamIInv, Restart
  PROVE  FramedInv' /\ CountInv' /\ HeaderInv'
<1>0. IInv /\ FramedInv /\ CountInv /\ HeaderInv /\ TypeOK
  BY DEF StreamIInv, IInv
<1>1. /\ tpc = "done" /\ tpc' = "check" /\ frame_cnt' = 0
      /\ UNCHANGED <<frame, written, aborted, open, transfers>>
  BY DEF Restart, busVars
<1>2. FramedInv' /\ CountInv'
  BY <1>0, <1>1, FramedStays DEF CountInv, InWrite
<1>3. HeaderAt(Counted, frame_cnt)'
  <2>1. 0 % HeaderPeriod = 0 /\ frame.id \in Nat
    BY <1>0, Numbers
  <2>2. Counted' = frame.id + 1
    BY <1>1 DEF Counted
  <2>3. frame_cnt' % HeaderPeriod = 0
    BY <1>1, <2>1
  <2> QED
    BY <2>1, <2>2, <2>3 DEF HeaderAt
<1>4. HeaderInv'
  BY <1>0, <1>1, <1>3 DEF HeaderInv, HeaderAt
<1> QED
  BY <1>2, <1>4

\* The steps that neither put anything on the bus nor begin or end a frame or a session.
LEMMA StreamOther ==
  ASSUME StreamIInv,
         TxCheck \/ TxIdle \/ WriteLoop \/ WriteAgain \/ WriteGivesUp
           \/ StopStream \/ Finished \/ UNCHANGED vars
  PROVE  FramedInv' /\ CountInv' /\ HeaderInv'
<1> USE DEF txVars, busVars
<1>0. IInv /\ FramedInv /\ CountInv /\ HeaderInv /\ TypeOK /\ SendInv
  BY DEF StreamIInv, IInv
<1>1. UNCHANGED <<open, transfers, frame, frame_cnt, written>>
  BY DEF TxCheck, TxIdle, WriteLoop, WriteAgain, WriteGivesUp, StopStream, Finished, vars
<1>2. CASE TxCheck \/ TxIdle
  <2>1. InWrite' = InWrite /\ Counted' = Counted /\ aborted' = aborted
        /\ tpc' \notin {"loop", "write", "next"}
    BY <1>1, <1>2 DEF TxCheck, TxIdle, InWrite, Counted
  <2> QED
    BY <1>0, <1>1, <2>1, FramedStays, HeaderStays DEF CountInv
<1>3. CASE WriteLoop
  <2>1. aborted' = {} => InWrite' = InWrite /\ aborted = {}
    BY <1>1, <1>3 DEF WriteLoop, InWrite
  <2>2. Counted' = Counted /\ tpc = "loop" /\ CountInv'
    BY <1>0, <1>1, <1>3 DEF WriteLoop, Counted, CountInv
  <2>3. HeaderInv'
    BY <1>0, <1>1, <2>1, <2>2, HeaderStays
  <2>4. FramedInv'
    BY <1>0, <1>1, <2>1, <2>2 DEF FramedInv
  <2> QED
    BY <2>2, <2>3, <2>4
<1>4. CASE WriteAgain
  <2>1. InWrite' /\ InWrite /\ Counted' = Counted /\ aborted' = aborted /\ CountInv'
    BY <1>0, <1>1, <1>4 DEF WriteAgain, InWrite, Counted, CountInv, SendInv
  <2> QED
    BY <1>0, <1>1, <2>1, FramedStays, HeaderStays
<1>5. CASE WriteGivesUp
  <2>1. aborted' # {} /\ CountInv'
    BY <1>0, <1>1, <1>5 DEF WriteGivesUp, CountInv
  <2> QED
    BY <2>1 DEF FramedInv, HeaderInv
<1>6. CASE StopStream \/ Finished \/ UNCHANGED vars
  <2>1. InWrite' = InWrite /\ Counted' = Counted /\ aborted' = aborted /\ tpc' = tpc /\ CountInv'
    BY <1>0, <1>1, <1>6 DEF StopStream, Finished, vars, InWrite, Counted, CountInv
  <2> QED
    BY <1>0, <1>1, <2>1, FramedStays, HeaderStays
<1> QED
  BY <1>2, <1>3, <1>4, <1>5, <1>6

\* The invariant of a faithful stream always holds.
LEMMA StreamAlways == ASSUME HdrLen > 0 PROVE Spec => []StreamIInv
<1>1. Init => StreamIInv
  <2> SUFFICES ASSUME Init PROVE StreamIInv
    OBVIOUS
  <2>1. FramedInv /\ CountInv
    BY DEF Init, FramedInv, CountInv, InWrite
  <2>2. 0 % HeaderPeriod = 0
    BY StreamAssumption
  <2>3. HeaderInv
    BY <2>2 DEF Init, HeaderInv, HeaderAt, Counted
  <2> QED
    BY <2>1, <2>3, InvInit DEF StreamIInv
<1>2. StreamIInv /\ [Next]_vars => StreamIInv'
  <2> SUFFICES ASSUME StreamIInv, [Next]_vars PROVE StreamIInv'
    OBVIOUS
  <2>1. IInv'
    BY InvStep DEF StreamIInv
  <2>2. CASE Sigterm \/ StopKill
    <3>1. Interrupt /\ UNCHANGED <<frame_cnt, frame, written, aborted>>
      BY <2>2 DEF Sigterm, StopKill
    <3> QED
      BY <2>1, <3>1, StreamSignal DEF StreamIInv
  <2>3. CASE ~(Sigterm \/ StopKill)
    BY <2>1, <2>3, StreamWrite, StreamGet, StreamNext, StreamRestart, StreamOther
       DEF Next, StreamIInv
  <2> QED
    BY <2>2, <2>3
<1> QED
  BY <1>1, <1>2, PTL DEF Spec

\* As long as no frame is given up, with any packet size, buffer, frame sizes and period and a
\* header that is not empty, whatever signals and stops do: what the host reads is what the
\* encoder made, frame by frame, and of any HeaderPeriod frames one brings the header.
THEOREM StreamIsFaithful == ASSUME HdrLen > 0 PROVE Spec => []StreamInv
<1>1. StreamIInv => StreamInv
  <2> SUFFICES ASSUME StreamIInv PROVE StreamInv
    OBVIOUS
  <2>0. IInv /\ FramedInv /\ HeaderInv /\ TypeOK
    BY DEF StreamIInv, IInv
  <2>1. TransferIsFrame
    BY <2>0 DEF FramedInv, TransferIsFrame
  <2>2. HeaderEveryPeriod
    <3> DEFINE p == HeaderPeriod
    <3> SUFFICES ASSUME aborted = {}, NEW t \in 1 .. Len(transfers) - p + 1
                 PROVE  \E i \in t .. t + p - 1 : transfers[i][Len(transfers[i])].frame.hdr
      BY DEF HeaderEveryPeriod
    <3>1. Len(transfers) \in Nat /\ p \in Nat \ {0}
      BY <2>0, Numbers
    <3> DEFINE e == t + p - 1
               c == transfers[e][1].frame.cnt
               b == e - (c % p)
    <3>2. e \in 1 .. Len(transfers)
      BY <3>1
    <3>3. c \in Nat /\ c % p \in 0 .. p - 1
      BY <2>0, <3>1, <3>2, CountOf, DivMod
    <3>4. transfers[e][1].frame.hdr = NeedsHeader(c) /\ HeaderAt(e, c)
      BY <2>0, <3>2 DEF HeaderInv
    <3> HIDE DEF c
    <3>5. b \in t .. e /\ b \in 1 .. Len(transfers)
      BY <3>1, <3>2, <3>3
    <3>6. transfers[b][1].frame.hdr
      <4>1. CASE c % p = 0
        <5>1. b = e
          BY <3>2, <4>1
        <5> QED
          BY <3>1, <3>3, <3>4, <4>1, <5>1 DEF NeedsHeader
      <4>2. CASE c % p # 0
        BY <3>4, <4>2 DEF HeaderAt
      <4> QED
        BY <4>1, <4>2
    <3>7. Len(transfers[b]) = 1
      BY <2>0, <3>5 DEF FramedInv
    <3> QED
      BY <3>5, <3>6, <3>7
  <2> QED
    BY <2>0, <2>1, <2>2 DEF StreamInv
<1> QED
  BY <1>1, StreamAlways, PTL

=============================================================================
