------------------------------- MODULE Xmodem -------------------------------
(***************************************************************************)
(* The XMODEM receiver of modules/common/src/xmodem.c, with the sender it  *)
(* talks to (external: sends a block until it is acknowledged, then EOT)   *)
(* over a line that loses, cuts and corrupts blocks and replies.  A block  *)
(* is one message; Good tells whether the checksum or CRC that is compared *)
(* matches.  A one-second silence is noticed only when nothing is on its   *)
(* way, and the caller has set a flush and a clock.                        *)
(***************************************************************************)
EXTENDS Integers, Sequences

CONSTANTS
    NBlocks,     \* blocks of the file; block i carries the data i
    SeqMod,      \* sequence numbers wrap at SeqMod (256 in the code)
    MaxFaults,   \* bound on what the line loses or corrupts
    None

ASSUME XmodemAssumption ==
    /\ NBlocks \in Nat
    /\ SeqMod \in Nat /\ SeqMod > 1
    /\ None \notin {"ACK", "NAK", "CAN", "IDL"}

VARIABLES
    rx,          \* the receiver: [state, expected, nr, err]
    late,        \* timeout_ms has passed since xmodem_receive was called
    toRecv,      \* what is on its way to the receiver
    toSend,      \* and to the sender
    sendPos,     \* the sender's block; NBlocks + 1 stands for EOT
    got,         \* ghost: what on_recv was called with
    cuts,        \* ghost: blocks the line cut where what was read looked right
    lineFaults   \* ghost

vars == <<rx, late, toRecv, toSend, sendPos, got, cuts, lineFaults>>

Block(i) ==
    IF i > NBlocks THEN [kind |-> "EOT", seq |-> 0, data |-> 0, good |-> TRUE]
    ELSE [kind |-> "SOH", seq |-> i % SeqMod, data |-> i, good |-> TRUE]

\* The data of a block of which only the first bytes came: the rest of the
\* buffer is the block before.
Stump(i) == -i
IsStump(data) == data < 0

Init ==
    /\ rx = [state |-> "sync", expected |-> 1, nr |-> 0, err |-> "NONE"]
    /\ late = FALSE
    /\ toRecv = None
    /\ toSend = "IDL"
    /\ sendPos = 1
    /\ got = <<>>
    /\ cuts = {}
    /\ lineFaults = 0

-----------------------------------------------------------------------------
(* The sender and the line.                                                *)

\* The sender answers a reply, or repeats what it sent when there was none.
SenderStep ==
    /\ toRecv = None
    /\ toSend \notin {"CAN", None} \/ (toSend = None /\ rx.state # "sync")
    /\ sendPos' = IF toSend = "ACK" THEN sendPos + 1 ELSE sendPos
    /\ sendPos' <= NBlocks + 1
    /\ toRecv' = Block(sendPos')
    /\ toSend' = None
    /\ UNCHANGED <<rx, late, got, cuts, lineFaults>>

SenderCancels ==
    /\ toRecv = None
    /\ lineFaults < MaxFaults
    /\ lineFaults' = lineFaults + 1
    /\ toRecv' = [kind |-> "CAN", seq |-> 0, data |-> 0, good |-> TRUE]
    /\ UNCHANGED <<rx, late, toSend, sendPos, got, cuts>>

\* A block is lost, its data corrupted, or its header or sequence number.
Corrupt ==
    \/ toRecv' = None
    \/ toRecv.kind = "SOH" /\ toRecv' = [toRecv EXCEPT !.good = FALSE]
    \/ toRecv' = [toRecv EXCEPT !.kind = "noise"]

\* The line goes silent within the data.  The checksum is then the one of an
\* earlier block, or zero, and what was read so far may happen to fit it.
CutShort(fits) ==
    /\ toRecv.kind = "SOH" /\ ~IsStump(toRecv.data)
    /\ toRecv' = [toRecv EXCEPT !.data = Stump(@), !.good = fits]
    /\ cuts' = IF fits THEN cuts \cup {toRecv.data} ELSE cuts

LineFault ==
    /\ lineFaults < MaxFaults
    /\ lineFaults' = lineFaults + 1
    /\ \/ toRecv # None /\ Corrupt /\ UNCHANGED <<toSend, cuts>>
       \/ toRecv # None /\ (\E fits \in BOOLEAN : CutShort(fits)) /\ UNCHANGED toSend
       \/ toSend # None /\ toSend' = None /\ UNCHANGED <<toRecv, cuts>>
    /\ UNCHANGED <<rx, late, sendPos, got>>

Elapse == ~late /\ late' = TRUE /\ UNCHANGED <<rx, toRecv, toSend, sendPos, got, cuts, lineFaults>>

-----------------------------------------------------------------------------
(* The receiver.                                                           *)

IsLastPacket(p) == p.kind \in {"EOT", "CAN"}

\* sync_sender repeats the initiator every second until its timeout.
SyncSender ==
    /\ rx.state = "sync"
    /\ toRecv = None
    /\ \/ ~late /\ toSend = None /\ toSend' = "IDL" /\ UNCHANGED rx
       \/ late /\ rx' = [rx EXCEPT !.state = "done", !.err = "NO_RESPONSE"] /\ UNCHANGED toSend
    /\ UNCHANGED <<late, toRecv, sendPos, got, cuts, lineFaults>>

\* send_can, send_nak, send_ack; the initiator goes the same way.
Send(reply) == toSend' = reply

\* A bug the runs must notice: the overall timeout is not looked at.
LoopEndForever(r, err, reply) == rx' = [r EXCEPT !.state = "read"] /\ Send(reply)

\* After a packet that does not end the transfer: go on, or give up when late.
LoopEnd(r, err, reply) ==
    IF late
    THEN rx' = [r EXCEPT !.state = "done", !.err = IF err = "NONE" THEN "TIMEOUT" ELSE err] /\ Send("CAN")
    ELSE rx' = [r EXCEPT !.state = "read"] /\ Send(reply)

\* Nothing, or less than a header and a byte, for a second: read_packet returns, NAK.
NoInput ==
    /\ rx.state = "read"
    /\ toRecv = None
    /\ toSend = None \/ late
    /\ LoopEnd(rx, "NO_INPUT", "NAK")
    /\ UNCHANGED <<late, toRecv, sendPos, got, cuts, lineFaults>>

\* check_buffer on the header and the inverted sequence number: flush and NAK.
Receiving == rx.state \in {"sync", "read"} /\ toRecv # None /\ toRecv' = None

BadHeader ==
    /\ Receiving
    /\ toRecv.kind = "noise"
    /\ LoopEnd(rx, "RETRY", "NAK")
    /\ UNCHANGED <<late, sendPos, got, cuts, lineFaults>>

CanceledByRemote ==
    /\ Receiving
    /\ toRecv.kind = "CAN"
    /\ rx' = [rx EXCEPT !.state = "done",
                        !.err = IF rx.state = "sync" THEN "NO_INPUT" ELSE "CANCELED_BY_REMOTE"]
    /\ toSend' = IF rx.state = "sync" THEN "ACK" ELSE toSend
    /\ UNCHANGED <<late, sendPos, got, cuts, lineFaults>>

\* Of a packet that was cut short, what is read is compared with the checksum
\* that is left from an earlier one.
IsPacketValid(p) == p.good

\* What read_packet returned for it; process_packet looks at it all the same.
ReadError(p) == IF IsStump(p.data) THEN "NO_INPUT" ELSE "NONE"

\* Bug the runs must notice: a repeated block is handed on again.
IsExpectedAny(p) == TRUE

IsExpected(p) == p.seq = rx.expected

\* A packet, or what came of one: deliver, acknowledge or refuse.
ProcessPacket(accepted) ==
    /\ Receiving
    /\ toRecv.kind = "SOH"
    /\ IF ~IsPacketValid(toRecv) THEN LoopEnd(rx, ReadError(toRecv), "NAK") /\ UNCHANGED got
       ELSE IF ~IsExpected(toRecv) THEN LoopEnd(rx, ReadError(toRecv), "ACK") /\ UNCHANGED got
       ELSE LET r == [rx EXCEPT !.expected = (toRecv.seq + 1) % SeqMod, !.nr = @ + 1] IN
            /\ got' = Append(got, toRecv.data)
            /\ IF accepted THEN LoopEnd(r, "NONE", "ACK")
               ELSE rx' = [r EXCEPT !.state = "done", !.err = "APP"] /\ Send("CAN")
    /\ UNCHANGED <<late, sendPos, cuts, lineFaults>>

\* The last packet is acknowledged and announced with the sequence number zero.
EndOfTransfer ==
    /\ Receiving
    /\ toRecv.kind = "EOT"
    /\ rx' = [rx EXCEPT !.state = "done", !.nr = @ + 1,
                        !.err = IF rx.state = "sync" THEN "NO_INPUT" ELSE "NONE"]
    /\ Send("ACK")
    /\ UNCHANGED <<late, sendPos, got, cuts, lineFaults>>

Done == rx.state = "done" /\ UNCHANGED vars

Receiver ==
    \/ SyncSender
    \/ NoInput
    \/ BadHeader
    \/ CanceledByRemote
    \/ \E accepted \in BOOLEAN : ProcessPacket(accepted)
    \/ EndOfTransfer

Next == Receiver \/ SenderStep \/ SenderCancels \/ LineFault \/ Elapse \/ Done

Spec == Init /\ [][Next]_vars /\ WF_vars(Receiver) /\ WF_vars(Elapse)

-----------------------------------------------------------------------------
\* What on_recv gets are the blocks of the file, each once and in order, whole
\* unless the line cut the block where what was read fitted the old checksum,
\* and a transfer that ends without an error has handed on every block: through
\* lost, cut and corrupted blocks, lost replies, repeated blocks and the wrap of
\* the sequence number.
FileInOrder ==
    /\ \A i \in DOMAIN got : got[i] = i \/ (i \in cuts /\ got[i] = Stump(i))
    /\ rx.state = "done" /\ rx.err = "NONE" => Len(got) = NBlocks

\* Not so (xmodem.c:175-197, 247-250, 331): a block of which one byte came is handed
\* on with 127 bytes of the block before and acknowledged, and the transfer ends
\* without an error.
BlocksWhole == rx.state = "done" /\ rx.err = "NONE" => got = [i \in 1..NBlocks |-> i]

\* xmodem_receive returns, whatever the line does.
ReceiverEnds == <>(rx.state = "done")
=============================================================================
