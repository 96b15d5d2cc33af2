---------------------------- MODULE VtxUsbStream ----------------------------
(***************************************************************************)
(* bulk_write_frame of apps/vtx.c and what reaches the host: how frames    *)
(* are padded and cut into writes, how writes become USB transfers, and    *)
(* where stalls, signals and stops leave the bulk stream.  Bytes are       *)
(* counted, their contents are not modelled.  Frames leave the encoder     *)
(* whole: split:mode is MPP_ENC_SPLIT_NONE (vtx.c:581).                    *)
(***************************************************************************)
EXTENDS Integers, Sequences

CONSTANTS
    PacketSize,     \* 512, the bulk endpoint's maximum packet size
    BufSize,        \* sizeof(s_tx_buf)
    HdrLen,         \* ctx->hdr_len
    SliceLens,      \* the frame sizes the encoder may produce
    HeaderPeriod,   \* 60, frames between two headers
    Gop,            \* rc:gop, frames between two IDR frames
    HostFaults,     \* may the host stall for 25 ms or disconnect?
    MaxFrames,      \* bound on the frames encoded
    MaxStops        \* bound on the stops of the stream

ASSUME StreamAssumption ==
    /\ PacketSize \in Nat /\ PacketSize > 1
    /\ BufSize \in Nat /\ HdrLen \in Nat
    /\ SliceLens \subseteq Nat \ {0}
    /\ HeaderPeriod \in Nat \ {0} /\ Gop \in Nat \ {0}
    /\ HostFaults \in BOOLEAN
    /\ MaxFrames \in Nat /\ MaxStops \in Nat

VARIABLES
    quit, streaming,
    frame_cnt,      \* frames of this session, the transmit thread's frame_cnt
    tpc,            \* transmit thread: "check", "get", "loop", "write", "next", "done"
    frame,          \* the frame being sent: its number, frame_cnt, header, total
    written,
    aborted,        \* frames of which the host did not get every byte
    mpc, stops,     \* main thread: "run" or "kill"; stops so far
    open,           \* the pieces of the transfer the host is receiving
    transfers       \* the transfers the host has received

txVars == <<frame_cnt, tpc, frame, written, aborted>>
busVars == <<open, transfers>>
vars == <<quit, streaming, txVars, mpc, stops, busVars>>

Limit == BufSize - 2

\* Mutant: no padding.
Unpadded(total) == total

\* A frame that fills its last packet gets one zero byte.
Padded(total) == IF total % PacketSize = 0 THEN total + 1 ELSE total

\* Mutant: the header comes with the first frame only.
NeedsHeaderOnce(cnt) == HdrLen > 0 /\ cnt = 0
\* Headers are due with the first frame and every HeaderPeriod frames after it.
NeedsHeader(cnt) == HdrLen > 0 /\ (cnt = 0 \/ cnt % HeaderPeriod = 0)

Init ==
    /\ quit = FALSE /\ streaming = TRUE
    /\ frame_cnt = 0 /\ tpc = "check"
    /\ frame = [id |-> 0, cnt |-> 0, hdr |-> FALSE, total |-> 0]
    /\ written = 0 /\ aborted = {}
    /\ mpc = "run" /\ stops = 0
    /\ open = <<>> /\ transfers = <<>>

(***************************************************************************)
(* The bus (external).  n bytes of s_tx_buf from offset `written' leave in *)
(* packets of PacketSize, the last one short unless n is a multiple; a     *)
(* short packet ends the host's transfer.  A piece is a run of consecutive *)
(* bytes of one frame.                                                     *)
(***************************************************************************)
Extend(pieces, from, to) ==
    LET last == pieces[Len(pieces)] IN
    IF pieces # <<>> /\ last.frame = frame /\ last.to = from
    THEN [pieces EXCEPT ![Len(pieces)].to = to]
    ELSE Append(pieces, [frame |-> frame, from |-> from, to |-> to])

Send(n) ==
    LET pieces == IF n = 0 THEN open ELSE Extend(open, written, written + n) IN
    IF n % PacketSize = 0
    THEN open' = pieces /\ UNCHANGED transfers
    ELSE open' = <<>> /\ transfers' = Append(transfers, pieces)

----------------------------------------------------------------------------
(* venc_tx_thread and bulk_write_frame                                     *)

TxCheck ==
    /\ tpc = "check"
    /\ tpc' = IF ~quit /\ streaming THEN "get" ELSE "done"
    /\ UNCHANGED <<quit, streaming, frame_cnt, frame, written, aborted, mpc, stops, busVars>>

\* encode_get_packet times out.
TxIdle ==
    /\ tpc = "get"
    /\ tpc' = "check"
    /\ UNCHANGED <<quit, streaming, frame_cnt, frame, written, aborted, mpc, stops, busVars>>

\* A packet (an empty one is not written; SliceLens has none): the header is put in
\* front when one is due, and a frame that does not fit s_tx_buf is given up as a whole.
TxGet(len) ==
    /\ tpc = "get" /\ frame.id < MaxFrames
    /\ LET hdr   == NeedsHeader(frame_cnt)
           total == len + (IF hdr THEN HdrLen ELSE 0)
       IN
        /\ frame' = [id |-> frame.id + 1, cnt |-> frame_cnt, hdr |-> hdr,
                     total |-> IF total > Limit THEN total ELSE Padded(total)]
        /\ tpc' = IF total > Limit THEN "next" ELSE "loop"
        /\ aborted' = IF total > Limit THEN aborted \cup {frame.id + 1} ELSE aborted
    /\ written' = 0
    /\ UNCHANGED <<quit, streaming, frame_cnt, mpc, stops, busVars>>

\* The test of the write loop.  Leaving it early the call returns what it has
\* written, which its caller ignores.
WriteLoop ==
    /\ tpc = "loop"
    /\ IF written < frame.total /\ ~quit /\ streaming
       THEN tpc' = "write" /\ UNCHANGED aborted
       ELSE /\ tpc' = "next"
            /\ aborted' = IF written < frame.total THEN aborted \cup {frame.id} ELSE aborted
    /\ UNCHANGED <<quit, streaming, frame_cnt, frame, written, mpc, stops, busVars>>

\* write() takes all that is left, or some whole packets of it.
WriteSome(n) ==
    /\ tpc = "write"
    /\ n \in 1 .. frame.total - written
    /\ n = frame.total - written \/ n % PacketSize = 0
    /\ Send(n)
    /\ written' = written + n
    /\ tpc' = "loop"
    /\ UNCHANGED <<quit, streaming, frame_cnt, frame, aborted, mpc, stops>>

\* EAGAIN, and the endpoint is writable again within 25 ms.
WriteAgain ==
    /\ tpc = "write"
    /\ tpc' = "loop"
    /\ UNCHANGED <<quit, streaming, frame_cnt, frame, written, aborted, mpc, stops, busVars>>

\* The poll times out, or write() fails because the host is gone.
WriteGivesUp ==
    /\ tpc = "write" /\ HostFaults
    /\ tpc' = "next"
    /\ aborted' = aborted \cup {frame.id}
    /\ UNCHANGED <<quit, streaming, frame_cnt, frame, written, mpc, stops, busVars>>

\* The buffer goes back to the camera and the frame counts, delivered or not.
TxNext ==
    /\ tpc = "next"
    /\ frame_cnt' = frame_cnt + 1
    /\ tpc' = "check"
    /\ UNCHANGED <<quit, streaming, frame, written, aborted, mpc, stops, busVars>>

----------------------------------------------------------------------------
(* Signals, stops and restarts                                             *)

\* A signal finds write() waiting: it returns EINTR, though the controller may
\* have sent some packets of the request by then.  Elsewhere it changes nothing.
Interrupt ==
    IF tpc = "write"
    THEN /\ tpc' = "loop"
         /\ \E n \in 0 .. frame.total - written - 1 : n % PacketSize = 0 /\ Send(n)
    ELSE UNCHANGED <<tpc, open, transfers>>

Sigterm ==
    /\ ~quit
    /\ quit' = TRUE
    /\ Interrupt
    /\ UNCHANGED <<streaming, frame_cnt, frame, written, aborted, mpc, stops>>

\* Mutant: the threads are signalled while they may still go on streaming.
StopSignalsFirst ==
    /\ mpc = "run" /\ stops < MaxStops
    /\ mpc' = "kill" /\ stops' = stops + 1
    /\ Interrupt
    /\ UNCHANGED <<quit, streaming, frame_cnt, frame, written, aborted>>

StopStream ==
    /\ mpc = "run" /\ stops < MaxStops
    /\ streaming' = FALSE
    /\ mpc' = "kill" /\ stops' = stops + 1
    /\ UNCHANGED <<quit, txVars, busVars>>

\* pthread_kill(ctx->tx_thd, SIGUSR1).
StopKill ==
    /\ mpc = "kill"
    /\ mpc' = "join"
    /\ Interrupt
    /\ UNCHANGED <<quit, streaming, frame_cnt, frame, written, aborted, stops>>

\* The thread is joined and a later trigger starts a new one; the endpoint stays
\* open and the host keeps the transfer it was receiving.
Restart ==
    /\ mpc = "join" /\ tpc = "done" /\ ~quit
    /\ mpc' = "run" /\ streaming' = TRUE
    /\ tpc' = "check" /\ frame_cnt' = 0
    /\ UNCHANGED <<quit, frame, written, aborted, stops, busVars>>

Finished == tpc = "done" /\ quit /\ UNCHANGED vars

Next ==
    \/ TxCheck \/ TxIdle \/ WriteLoop \/ WriteAgain \/ WriteGivesUp \/ TxNext
    \/ \E len \in SliceLens : TxGet(len)
    \/ \E n \in 1 .. BufSize : WriteSome(n)
    \/ Sigterm \/ StopStream \/ StopKill \/ Restart \/ Finished

Spec == Init /\ [][Next]_vars

----------------------------------------------------------------------------
(* Properties                                                              *)

Whole(p) == p.from = 0 /\ p.to = p.frame.total
Pieces == {transfers[i] : i \in 1 .. Len(transfers)} \cup {open}

FrameRecord == [id : 0 .. MaxFrames, cnt : 0 .. MaxFrames, hdr : BOOLEAN, total : Nat]
Piece == [frame : FrameRecord, from : 0 .. BufSize, to : 1 .. BufSize]

\* Every variable has its type; written never passes the end of the frame, nor the
\* frame the end of s_tx_buf while it is being sent.
TypeOK ==
    /\ quit \in BOOLEAN /\ streaming \in BOOLEAN
    /\ frame_cnt \in 0 .. MaxFrames /\ frame \in FrameRecord
    /\ tpc \in {"check", "get", "loop", "write", "next", "done"}
    /\ tpc \in {"loop", "write"} => frame.total < BufSize
    /\ written \in 0 .. frame.total
    /\ aborted \subseteq 1 .. MaxFrames
    /\ mpc \in {"run", "kill", "join"} /\ stops \in 0 .. MaxStops
    /\ open \in Seq(Piece) /\ transfers \in Seq(Seq(Piece))

\* Whatever stalls, signals and stops do, a frame sent in full ends its transfer
\* with a short packet, so that at worst the rest of frames given up before it are
\* in front of it: the damage of an abort ends with the next frame sent in full.
FrameEndsTransfer ==
    /\ \A i \in 1 .. Len(open) : ~Whole(open[i])
    /\ \A t \in 1 .. Len(transfers) : \A i \in 1 .. Len(transfers[t]) :
        Whole(transfers[t][i]) <=> i = Len(transfers[t])

\* No byte of a frame is sent twice and frames are never reordered, not even when
\* a signal interrupts a write of which some packets were already sent.
NothingSentTwice ==
    /\ \A t \in Pieces : \A i \in 1 .. Len(t) :
        t[i].from = 0 /\ (i > 1 => t[i-1].frame.id < t[i].frame.id)
    /\ \A t \in 2 .. Len(transfers) :
        transfers[t-1][Len(transfers[t-1])].frame.id < transfers[t][1].frame.id
    /\ transfers # <<>> /\ open # <<>> =>
        transfers[Len(transfers)][Len(transfers[Len(transfers)])].frame.id < open[1].frame.id

\* Until the first frame is given up, the host receives every frame as one transfer
\* of its own, in order: a faithful framing of the stream.
TransferIsFrame ==
    aborted = {} => \A t \in 1 .. Len(transfers) :
        Len(transfers[t]) = 1 /\ transfers[t][1].frame.id = t

\* Until then, of any HeaderPeriod consecutive transfers one brings the parameter
\* sets, in the same transfer as the frame they precede.
HeaderEveryPeriod ==
    aborted = {} => \A t \in 1 .. Len(transfers) - HeaderPeriod + 1 :
        \E i \in t .. t + HeaderPeriod - 1 :
            transfers[i][Len(transfers[i])].frame.hdr

\* Until a frame is given up the stream the host reads is the stream the encoder made,
\* frame by frame and with its parameter sets, and the counts stay in their bounds.
StreamInv == TypeOK /\ TransferIsFrame /\ HeaderEveryPeriod

\* "Prevent USB transfer merging ... the transfer ALWAYS ends with a short packet"
\* (vtx.c:163-165): no transfer holds pieces of two frames.
NoTransferMerged == \A t \in Pieces : Len(t) <= 1

\* The only frames that need no earlier one: rc:refresh_en is 0.
Intra(p) == p.frame.cnt % Gop = 0

\* A decoder that sees the transfers from the j-th on can show the i-th: it has an
\* intra frame, the parameter sets before it, and every frame since.
Decodable(j, i) ==
    LET last(t) == transfers[t][Len(transfers[t])] IN
    \E r \in j .. i :
        /\ Intra(last(r))
        /\ \E h \in j .. r : last(h).frame.hdr
        /\ last(i).frame.id - last(r).frame.id = i - r

\* "Pure N-1 ... with GIR", "Infinite GOP with periodic header resync for mid-stream
\* decoders" (vtx.c:4-5): a decoder that joins shows a picture within two periods.
MidStreamResync ==
    \A j, i \in 1 .. Len(transfers) : i - j >= 2 * HeaderPeriod => Decodable(j, i)

=============================================================================
