----------------------------- MODULE PortProofs -----------------------------
(***************************************************************************)
(* Proofs of the safety properties of the modules that drive hardware or a *)
(* peer: Xmodem, MgmtPool, BleNrf, BleEsp, Wifi and EspDrivers.            *)
(***************************************************************************)
EXTENDS Xmodem, MgmtPool, BleNrf, BleEsp, Wifi, EspDrivers, FiniteSetTheorems, WellFoundedInduction,
    TLAPS

-----------------------------------------------------------------------------
(* The file arrives in order, for a file of any length, any number of      *)
(* faults and any size of the sequence number.                             *)

\* The sequence number after the one of n, and that they differ.
LEMMA SeqSuccessor ==
    ASSUME NEW M \in Nat, M > 1, NEW n \in Nat
    PROVE  /\ ((n % M) + 1) % M = (n + 1) % M
           /\ n % M # (n + 1) % M
<1>0. ASSUME NEW q \in Nat, NEW r \in Nat, r < M
      PROVE  (M * q + r) % M = r
  BY <1>0
<1>1. PICK q \in Nat, r \in Nat : q = n \div M /\ r = n % M
  OBVIOUS
<1>4. n = M * q + r /\ r < M
  BY <1>1
<1>2. CASE r + 1 < M
  <2>1. n + 1 = M * q + (r + 1)
    BY <1>4
  <2>2. (n + 1) % M = r + 1
    BY <1>0, <1>2, <2>1
  <2>3. (r + 1) % M = r + 1
    BY <1>2
  <2> QED
    BY <1>1, <2>2, <2>3
<1>3. CASE r + 1 = M
  <2>p. PICK p \in Nat : p = q + 1
    OBVIOUS
  <2>1. n + 1 = M * p + 0
    BY <1>4, <1>3, <2>p
  <2>5. (M * p + 0) % M = 0
    BY <1>0
  <2>2. (n + 1) % M = 0
    BY <2>5, <2>1
  <2>3. (r + 1) % M = 0
    BY <1>3
  <2>4. r # 0
    BY <1>3
  <2> QED
    BY <1>1, <2>2, <2>3, <2>4
<1> QED
  BY <1>4, <1>2, <1>3

Errors == {"NONE", "NO_RESPONSE", "NO_INPUT", "RETRY", "TIMEOUT", "APP",
           "CANCELED_BY_REMOTE"}
Receivers == [state : {"sync", "read", "done"}, expected : Nat, nr : Nat, err : Errors]
Packets == [kind : {"SOH", "EOT", "CAN", "noise"}, seq : Nat, data : Int, good : BOOLEAN]

\* The sender is at the block the receiver has last handed on, whose
\* acknowledgement may be lost, or at the next one.
InStep ==
    /\ rx.expected = (Len(got) + 1) % SeqMod
    /\ sendPos \in {Len(got), Len(got) + 1}
    /\ toSend = "ACK" => sendPos = Len(got)
    /\ toRecv # None =>
        /\ toRecv.kind = "SOH" =>
            /\ toRecv.seq = sendPos % SeqMod /\ sendPos <= NBlocks
            /\ \/ toRecv.data = sendPos
               \/ toRecv.data = Stump(sendPos) /\ (toRecv.good => sendPos \in cuts)
        /\ toRecv.kind = "EOT" => sendPos = NBlocks + 1

TransferInv ==
    /\ rx \in Receivers /\ sendPos \in Nat /\ got \in Seq(Int)
    /\ toRecv = None \/ toRecv \in Packets
    /\ Len(got) <= NBlocks
    /\ FileInOrder
    /\ rx.state # "done" => InStep

LEMMA LoopEndFacts ==
    ASSUME NEW r \in Receivers, NEW err \in Errors, NEW reply, LoopEnd(r, err, reply)
    PROVE  /\ rx' \in Receivers /\ rx'.expected = r.expected
           /\ \/ rx'.state = "read" /\ toSend' = reply
              \/ rx'.state = "done" /\ rx'.err # "NONE"
<1>1. CASE late
  BY <1>1 DEF LoopEnd, Receivers, Errors
<1>2. CASE ~late
  BY <1>2 DEF LoopEnd, Send, Receivers
<1> QED
  BY <1>1, <1>2

LEMMA TransferInit == Init => TransferInv
<1> SUFFICES ASSUME Init PROVE TransferInv
  OBVIOUS
<1>1. Len(got) = 0 /\ got \in Seq(Int) /\ DOMAIN got = {}
  BY DEF Init
<1>2. rx \in Receivers /\ rx.state = "sync" /\ rx.expected = 1
  BY DEF Init, Receivers, Errors
<1>3. 1 % SeqMod = 1
  BY XmodemAssumption
<1>4. InStep
  BY <1>1, <1>2, <1>3, XmodemAssumption DEF Init, InStep
<1>5. FileInOrder
  BY <1>1, <1>2 DEF FileInOrder
<1> QED
  BY <1>1, <1>2, <1>4, <1>5, XmodemAssumption DEF Init, TransferInv

\* Steps that hand nothing on and leave the receiver with an error or in step.
LEMMA TransferFrame ==
    ASSUME TransferInv, UNCHANGED got, cuts \subseteq cuts', rx' \in Receivers, sendPos' \in Nat,
           toRecv' = None \/ toRecv' \in Packets,
           rx'.state = "done" => rx'.err # "NONE" \/ Len(got) = NBlocks,
           rx'.state # "done" => InStep'
    PROVE  TransferInv'
  BY DEF TransferInv, FileInOrder

LEMMA TransferStep == TransferInv /\ [Next]_vars => TransferInv'
<1> SUFFICES ASSUME TransferInv, [Next]_vars PROVE TransferInv'
  OBVIOUS
<1>0. /\ rx \in Receivers /\ sendPos \in Nat /\ got \in Seq(Int) /\ Len(got) <= NBlocks
      /\ toRecv = None \/ toRecv \in Packets
      /\ rx.state # "done" => InStep
      /\ rx.state = "done" => rx.err # "NONE" \/ Len(got) = NBlocks
  BY DEF TransferInv, FileInOrder
<1>n. PICK n \in Nat : n = Len(got)
  BY <1>0
<1>1. CASE SenderStep
  <2>1. UNCHANGED <<got, cuts, rx>> /\ sendPos' \in Nat /\ toSend' = None
        /\ toRecv' = Block(sendPos') /\ sendPos' <= NBlocks + 1
        /\ sendPos' = IF toSend = "ACK" THEN sendPos + 1 ELSE sendPos
    BY <1>0, <1>1 DEF SenderStep
  <2>2. PICK k \in Nat : k = sendPos'
    BY <2>1
  <2>3. k % SeqMod \in Nat
    BY XmodemAssumption
  <2>4. toRecv' = Block(k) /\ Block(k) \in Packets
        /\ (Block(k).kind = "SOH" => Block(k).seq = k % SeqMod /\ Block(k).data = k
                                     /\ k <= NBlocks)
        /\ (Block(k).kind = "EOT" => k > NBlocks)
    BY <2>1, <2>2, <2>3, XmodemAssumption DEF Block, Packets
  <2>5. ASSUME rx.state # "done" PROVE InStep'
    <3>1. k \in {n, n + 1} /\ k <= NBlocks + 1
      BY <1>0, <1>n, <2>1, <2>2, <2>5 DEF InStep
    <3>2. Len(got') = n /\ rx'.expected = (n + 1) % SeqMod
      BY <1>0, <1>n, <2>1, <2>5 DEF InStep
    <3>3. Block(k).kind = "EOT" => k = NBlocks + 1
      BY <2>4, <3>1, XmodemAssumption
    <3> QED
      BY <2>1, <2>2, <2>4, <3>1, <3>2, <3>3, XmodemAssumption DEF InStep
  <2> QED
    BY <1>0, <2>1, <2>2, <2>4, <2>5, TransferFrame
<1>2. CASE SenderCancels
  <2>1. /\ UNCHANGED <<rx, toSend, sendPos, got, cuts>> /\ toRecv' \in Packets
        /\ toRecv'.kind = "CAN"
    BY <1>2 DEF SenderCancels, Packets
  <2>2. rx.state # "done" => InStep'
    BY <1>0, <2>1 DEF InStep
  <2> QED
    BY <1>0, <2>1, <2>2, TransferFrame
<1>3. CASE LineFault
  <2>1. UNCHANGED <<rx, sendPos, got>> /\ (toSend' = toSend \/ toSend' = None)
    BY <1>3 DEF LineFault
  <2>2. CASE toRecv' = None /\ UNCHANGED cuts
    <3>1. rx.state # "done" => InStep'
      BY <1>0, <2>1, <2>2, XmodemAssumption DEF InStep
    <3> QED
      BY <1>0, <2>1, <2>2, <3>1, TransferFrame
  <2>3. ASSUME toRecv # None, cuts' = cuts, toRecv' \in Packets, toRecv'.seq = toRecv.seq,
               toRecv'.data = toRecv.data, toRecv'.good => toRecv.good,
               toRecv'.kind = toRecv.kind \/ toRecv'.kind = "noise"
        PROVE  TransferInv'
    <3>1. rx.state # "done" => InStep'
      BY <1>0, <2>1, <2>3, XmodemAssumption DEF InStep
    <3> QED
      BY <1>0, <2>1, <2>3, <3>1, TransferFrame
  <2>4. CASE toRecv' = toRecv /\ UNCHANGED cuts
    <3>1. rx.state # "done" => InStep'
      BY <1>0, <2>1, <2>4, XmodemAssumption DEF InStep
    <3> QED
      BY <1>0, <2>1, <2>4, <3>1, TransferFrame
  <2>5. CASE toRecv # None /\ toRecv' = [toRecv EXCEPT !.good = FALSE] /\ UNCHANGED cuts
    <3>1. /\ toRecv' \in Packets /\ toRecv'.seq = toRecv.seq /\ toRecv'.data = toRecv.data
          /\ toRecv'.good = FALSE /\ toRecv'.kind = toRecv.kind
      BY <1>0, <2>5 DEF Packets
    <3> QED
      BY <2>3, <2>5, <3>1
  <2>6. CASE toRecv # None /\ toRecv' = [toRecv EXCEPT !.kind = "noise"] /\ UNCHANGED cuts
    <3>1. /\ toRecv' \in Packets /\ toRecv'.seq = toRecv.seq /\ toRecv'.data = toRecv.data
          /\ toRecv'.good = toRecv.good /\ toRecv'.kind = "noise"
      BY <1>0, <2>6 DEF Packets
    <3> QED
      BY <2>3, <2>6, <3>1
  <2>7. ASSUME toRecv # None, NEW fits \in BOOLEAN, CutShort(fits) PROVE TransferInv'
    <3>1. PICK d \in Int : d = toRecv.data /\ d >= 0
      BY <1>0, <2>7 DEF CutShort, IsStump, Packets
    <3>2. toRecv' = [toRecv EXCEPT !.data = Stump(d), !.good = fits] /\ toRecv.kind = "SOH"
      BY <2>7, <3>1 DEF CutShort
    <3>3. /\ toRecv' \in Packets /\ toRecv'.seq = toRecv.seq /\ toRecv'.data = Stump(d)
          /\ toRecv'.good = fits /\ toRecv'.kind = "SOH"
      <4>1. Stump(d) \in Int
        BY DEF Stump
      <4> QED
        BY <1>0, <2>7, <3>2, <4>1 DEF Packets
    <3>4. cuts \subseteq cuts' /\ (fits => d \in cuts')
      BY <2>7, <3>1 DEF CutShort
    <3>5. ASSUME rx.state # "done" PROVE InStep'
      <4>1. /\ InStep /\ sendPos \in Nat
            /\ d = sendPos \/ d = Stump(sendPos)
        BY <1>0, <2>7, <3>1, <3>2, <3>5 DEF InStep
      <4>2. d = sendPos
        BY <3>1, <4>1 DEF Stump
      <4> QED
        BY <2>1, <2>7, <3>2, <3>3, <3>4, <4>1, <4>2, XmodemAssumption DEF InStep
    <3> QED
      BY <1>0, <2>1, <3>3, <3>4, <3>5, TransferFrame
  <2> QED
    BY <1>3, <2>2, <2>4, <2>5, <2>6, <2>7 DEF LineFault, Corrupt
<1>4. CASE SyncSender
  <2>1. UNCHANGED <<toRecv, sendPos, got, cuts>> /\ toRecv = None
    BY <1>4 DEF SyncSender
  <2>2. CASE UNCHANGED rx /\ toSend' = "IDL"
    <3>1. rx.state # "done" => InStep'
      BY <1>0, <2>1, <2>2 DEF InStep
    <3> QED
      BY <1>0, <2>1, <2>2, <3>1, TransferFrame
  <2>3. CASE rx' = [rx EXCEPT !.state = "done", !.err = "NO_RESPONSE"]
    <3>1. rx' \in Receivers /\ rx'.state = "done" /\ rx'.err # "NONE"
      BY <1>0, <2>3 DEF Receivers, Errors
    <3> QED
      BY <1>0, <2>1, <3>1, TransferFrame
  <2> QED
    BY <1>4, <2>2, <2>3 DEF SyncSender
<1>5. CASE NoInput \/ BadHeader
  <2>1. /\ UNCHANGED <<sendPos, got, cuts>> /\ rx.state # "done"
        /\ toRecv' = None
        /\ \E err \in Errors : LoopEnd(rx, err, "NAK")
    BY <1>5 DEF NoInput, BadHeader, Receiving, Errors
  <2>2. /\ rx' \in Receivers /\ rx'.expected = rx.expected
        /\ \/ rx'.state = "read" /\ toSend' = "NAK"
           \/ rx'.state = "done" /\ rx'.err # "NONE"
    BY <1>0, <2>1, LoopEndFacts
  <2>3. rx'.state # "done" => InStep'
    BY <1>0, <2>1, <2>2 DEF InStep
  <2> QED
    BY <1>0, <2>1, <2>2, <2>3, TransferFrame
<1>6. CASE CanceledByRemote
  <2>1. UNCHANGED <<sendPos, got, cuts>> /\ toRecv' = None
    BY <1>6 DEF CanceledByRemote, Receiving
  <2>2. rx' \in Receivers /\ rx'.state = "done" /\ rx'.err # "NONE"
    BY <1>0, <1>6 DEF CanceledByRemote, Receivers, Errors
  <2> QED
    BY <1>0, <2>1, <2>2, TransferFrame
<1>7. ASSUME NEW accepted \in BOOLEAN, ProcessPacket(accepted)
      PROVE  TransferInv'
  <2>1. /\ UNCHANGED <<sendPos, cuts>> /\ rx.state # "done" /\ toRecv # None /\ toRecv' = None
        /\ toRecv.kind = "SOH" /\ toRecv \in Packets
    BY <1>0, <1>7 DEF ProcessPacket, Receiving
  <2>2. /\ InStep /\ toRecv.seq = sendPos % SeqMod /\ sendPos <= NBlocks
        /\ toRecv.data = sendPos \/ (toRecv.data = Stump(sendPos) /\ (toRecv.good => sendPos \in cuts))
    BY <1>0, <2>1 DEF InStep
  <2>e. ReadError(toRecv) \in Errors
    BY DEF ReadError, Errors
  <2>3. CASE ~IsPacketValid(toRecv)
    <3>1. LoopEnd(rx, ReadError(toRecv), "NAK") /\ UNCHANGED got
      BY <1>7, <2>3 DEF ProcessPacket
    <3>2. /\ rx' \in Receivers /\ rx'.expected = rx.expected
          /\ \/ rx'.state = "read" /\ toSend' = "NAK"
             \/ rx'.state = "done" /\ rx'.err # "NONE"
      BY <1>0, <2>e, <3>1, LoopEndFacts
    <3>3. rx'.state # "done" => InStep'
      BY <2>1, <2>2, <3>1, <3>2 DEF InStep
    <3> QED
      BY <1>0, <2>1, <3>1, <3>2, <3>3, TransferFrame
  <2>4. CASE IsPacketValid(toRecv) /\ ~IsExpected(toRecv)
    <3>1. LoopEnd(rx, ReadError(toRecv), "ACK") /\ UNCHANGED got
      BY <1>7, <2>4 DEF ProcessPacket
    <3>2. /\ rx' \in Receivers /\ rx'.expected = rx.expected
          /\ \/ rx'.state = "read" /\ toSend' = "ACK"
             \/ rx'.state = "done" /\ rx'.err # "NONE"
      BY <1>0, <2>e, <3>1, LoopEndFacts
    <3>3. sendPos = Len(got)
      BY <2>2, <2>4 DEF InStep, IsExpected
    <3>4. rx'.state # "done" => InStep'
      BY <2>1, <2>2, <3>1, <3>2, <3>3 DEF InStep
    <3> QED
      BY <1>0, <2>1, <3>1, <3>2, <3>4, TransferFrame
  <2>5. CASE IsPacketValid(toRecv) /\ IsExpected(toRecv)
    <3>1. sendPos = n + 1 /\ n < NBlocks /\ rx.expected = (n + 1) % SeqMod
      <4>1. sendPos % SeqMod = (n + 1) % SeqMod /\ sendPos \in {n, n + 1}
        BY <1>n, <2>2, <2>5 DEF InStep, IsExpected
      <4>2. n % SeqMod # (n + 1) % SeqMod
        BY SeqSuccessor, XmodemAssumption
      <4>3. sendPos = n + 1
        BY <4>1, <4>2
      <4> QED
        BY <1>n, <2>2, <4>3, XmodemAssumption DEF InStep
    <3>2. PICK e \in Nat : e = (n + 2) % SeqMod
      BY XmodemAssumption
    <3>3. (toRecv.seq + 1) % SeqMod = e
      <4>1. PICK m \in Nat : m = n + 1
        OBVIOUS
      <4>2. toRecv.seq = m % SeqMod
        BY <2>2, <3>1, <4>1
      <4>3. ((m % SeqMod) + 1) % SeqMod = (m + 1) % SeqMod
        BY SeqSuccessor, XmodemAssumption
      <4>4. m + 1 = n + 2
        BY <4>1
      <4> QED
        BY <3>2, <4>2, <4>3, <4>4
    <3>4. PICK r \in Receivers : /\ r = [rx EXCEPT !.expected = e, !.nr = @ + 1]
                                 /\ r.expected = e
      <4>1. PICK k \in Nat : k = rx.nr + 1
        BY <1>0 DEF Receivers
      <4>2. /\ [rx EXCEPT !.expected = e, !.nr = k] \in Receivers
            /\ [rx EXCEPT !.expected = e, !.nr = k].expected = e
        BY <1>0 DEF Receivers
      <4> QED
        BY <4>1, <4>2
    <3>5. /\ got' = Append(got, toRecv.data)
          /\ IF accepted THEN LoopEnd(r, "NONE", "ACK")
             ELSE rx' = [r EXCEPT !.state = "done", !.err = "APP"] /\ Send("CAN")
      BY <1>7, <2>5, <3>3, <3>4 DEF ProcessPacket
    <3>6. /\ rx' \in Receivers
          /\ \/ rx'.state = "read" /\ toSend' = "ACK" /\ rx'.expected = e
             \/ rx'.state = "done" /\ rx'.err # "NONE"
      <4>1. CASE accepted
        BY <3>4, <3>5, <4>1, LoopEndFacts DEF Errors
      <4>2. CASE ~accepted
        <5>1. rx' = [r EXCEPT !.state = "done", !.err = "APP"]
          BY <3>5, <4>2
        <5> QED
          BY <5>1 DEF Receivers, Errors
      <4> QED
        BY <4>1, <4>2
    <3>7. PICK d \in Int : /\ d = n + 1 \/ (n + 1 \in cuts /\ d = Stump(n + 1))
                           /\ got' = Append(got, d)
      <4>1. toRecv.data \in Int /\ toRecv.good
        BY <2>1, <2>5 DEF Packets, IsPacketValid
      <4> QED
        BY <2>2, <3>1, <3>5, <4>1
    <3>11. Len(got') = n + 1 /\ got' \in Seq(Int)
      BY <1>0, <1>n, <3>7
    <3>8. \A i \in DOMAIN got' : got'[i] = i \/ (i \in cuts' /\ got'[i] = Stump(i))
      <4>1. \A i \in 1 .. n : got[i] = i \/ (i \in cuts /\ got[i] = Stump(i))
        BY <1>0, <1>n DEF TransferInv, FileInOrder
      <4>2. /\ DOMAIN got' = 1 .. n + 1 /\ got'[n + 1] = d
            /\ \A i \in 1 .. n : got'[i] = got[i]
        BY <1>0, <1>n, <3>7
      <4>3. \A i \in 1 .. n + 1 : i \in 1 .. n \/ i = n + 1
        OBVIOUS
      <4> QED
        BY <2>1, <3>7, <4>1, <4>2, <4>3
    <3>9. Len(got') <= NBlocks
      BY <3>1, <3>11, XmodemAssumption
    <3>10. rx'.state # "done" => InStep'
      <4>1. sendPos' = n + 1
        BY <2>1, <3>1
      <4>2. (n + 1) + 1 = n + 2
        OBVIOUS
      <4> QED
        BY <2>1, <3>2, <3>6, <3>11, <4>1, <4>2 DEF InStep
    <3> QED
      BY <1>0, <2>1, <3>6, <3>11, <3>8, <3>9, <3>10 DEF TransferInv, FileInOrder
  <2> QED
    BY <2>3, <2>4, <2>5
<1>8. CASE EndOfTransfer
  <2>1. /\ UNCHANGED <<sendPos, got, cuts>> /\ rx.state # "done" /\ toRecv' = None
        /\ toRecv # None /\ toRecv.kind = "EOT"
    BY <1>8 DEF EndOfTransfer, Receiving
  <2>2. Len(got) = NBlocks
    BY <1>0, <2>1, XmodemAssumption DEF InStep
  <2>3. rx' \in Receivers /\ rx'.state = "done"
    <3>1. rx.nr + 1 \in Nat
      BY <1>0 DEF Receivers
    <3> QED
      BY <1>0, <1>8, <3>1 DEF EndOfTransfer, Receivers, Errors
  <2> QED
    BY <1>0, <2>1, <2>2, <2>3, TransferFrame
<1>9. CASE Elapse \/ Done \/ UNCHANGED vars
  <2>1. UNCHANGED <<rx, toRecv, toSend, sendPos, got, cuts>>
    BY <1>9 DEF Elapse, Done, vars
  <2>2. rx.state # "done" => InStep'
    BY <1>0, <2>1 DEF InStep
  <2> QED
    BY <1>0, <2>1, <2>2, TransferFrame
<1> QED
  BY <1>1, <1>2, <1>3, <1>4, <1>5, <1>6, <1>7, <1>8, <1>9 DEF Next, Receiver

\* What on_recv gets are the blocks of the file, each once and in order, whole
\* unless the line cut the block where what was read fitted an old checksum, and
\* a transfer that ends without an error has handed on every block: for a file
\* of any length, whatever the line loses, cuts or corrupts (process_packet,
\* is_packet_valid and the acknowledgements of xmodem_receive).
THEOREM FileArrivesInOrder == Spec => []FileInOrder
<1>1. TransferInv => FileInOrder
  BY DEF TransferInv
<1> QED
  BY <1>1, TransferInit, TransferStep, PTL DEF Spec

-----------------------------------------------------------------------------
(* The buffers of the management server come back, for any number of       *)
(* buffers and of packets.                                                 *)

MgmtTypeOK ==
    /\ mgmt_pool \subseteq Bufs
    /\ mgmt_in_use \in [Bufs -> BOOLEAN]
    /\ {mgmt_req, mgmt_rsp, rsp_buf} \subseteq Bufs \cup {NoBuf}

\* Which buffers the server holds, and which one is being written, at each step
\* of a request: an error finds the answer's buffer only if it is the one that
\* the writer was set up with.
MgmtHolds ==
    \/ mgmt_pc = "idle" /\ mgmt_req = NoBuf /\ mgmt_rsp = NoBuf /\ rsp_buf = NoBuf
    \/ mgmt_pc \in {"read", "alloc", "trim"} /\ mgmt_req # NoBuf /\ mgmt_rsp = NoBuf /\ rsp_buf = NoBuf
    \/ mgmt_pc = "write" /\ mgmt_req # NoBuf /\ mgmt_rsp # NoBuf /\ rsp_buf = NoBuf
    \/ mgmt_pc \in {"encode", "send"} /\ mgmt_req # NoBuf /\ mgmt_rsp # NoBuf /\ rsp_buf = mgmt_rsp
    \/ mgmt_pc = "error" /\ mgmt_req # NoBuf /\ rsp_buf = mgmt_rsp
    \/ mgmt_pc \in {"error_encode", "send_error"} /\ mgmt_rsp # NoBuf /\ rsp_buf = mgmt_rsp
    \/ mgmt_pc = "free" /\ mgmt_rsp = NoBuf /\ rsp_buf = NoBuf

MgmtUsed ==
    /\ \A b \in Bufs : mgmt_in_use[b] <=> b \in {mgmt_req, mgmt_rsp}
    /\ mgmt_req # NoBuf => mgmt_req # mgmt_rsp

MgmtInv == MgmtTypeOK /\ MgmtHolds /\ MgmtUsed

LEMMA MgmtInvImplies == MgmtInv => MgmtBuffersReturn
<1> SUFFICES ASSUME MgmtInv PROVE MgmtBuffersReturn
  OBVIOUS
<1>1. mgmt_pc = "idle" => FreeBufs = mgmt_pool /\ rsp_buf = NoBuf
  BY MgmtAssumption DEF MgmtInv, MgmtTypeOK, MgmtHolds, MgmtUsed, FreeBufs
<1>2. rsp_buf # NoBuf => mgmt_in_use[rsp_buf]
  BY DEF MgmtInv, MgmtTypeOK, MgmtHolds, MgmtUsed
<1> QED
  BY <1>1, <1>2 DEF MgmtInv, MgmtUsed, MgmtBuffersReturn

LEMMA MgmtInitInv == MgmtInit => MgmtInv
BY MgmtAssumption DEF MgmtInit, MgmtInv, MgmtTypeOK, MgmtHolds, MgmtUsed

LEMMA MgmtStep == MgmtInv /\ [MgmtNext]_mgmtVars => MgmtInv'
<1> SUFFICES ASSUME MgmtInv, [MgmtNext]_mgmtVars PROVE MgmtInv'
  OBVIOUS
<1> USE MgmtAssumption DEF MgmtInv, MgmtTypeOK, MgmtHolds, MgmtUsed
<1>1. ASSUME NEW n \in 0 .. BufSize + 1, OnPacketReceived(n) PROVE MgmtInv'
  <2>1. CASE UNCHANGED <<mgmt_in_use, mgmt_len, mgmt_pc, mgmt_req>>
    BY <1>1, <2>1 DEF OnPacketReceived
  <2>2. ASSUME NEW b \in FreeBufs, mgmt_in_use' = [mgmt_in_use EXCEPT ![b] = TRUE],
               mgmt_req' = b, mgmt_pc' = "read"
        PROVE MgmtInv'
    BY <1>1, <2>2 DEF OnPacketReceived, FreeBufs
  <2> QED
    BY <1>1, <2>1, <2>2 DEF OnPacketReceived
<1>2. ASSUME NEW n \in 0 .. BufSize + 1, WriteAt(n) PROVE MgmtInv'
  BY <1>2 DEF WriteAt
<1>3. CASE InitReader
  BY <1>3 DEF InitReader
<1>4. CASE AllocRsp
  <2>1. CASE mgmt_pc' = "error" /\ UNCHANGED <<mgmt_in_use, mgmt_rsp>>
    BY <1>4, <2>1 DEF AllocRsp
  <2>2. ASSUME NEW b \in FreeBufs, mgmt_in_use' = [mgmt_in_use EXCEPT ![b] = TRUE],
               mgmt_rsp' = b, mgmt_pc' = "write"
        PROVE MgmtInv'
    BY <1>4, <2>2 DEF AllocRsp, FreeBufs
  <2> QED
    BY <1>4, <2>1, <2>2 DEF AllocRsp
<1>5. CASE Handle
  BY <1>5 DEF Handle, InitWriter
<1>6. CASE TrimFront
  BY <1>6 DEF TrimFront
<1>7. CASE OnError
  BY <1>7 DEF OnError, InitWriter
<1>8. CASE WriteError
  BY <1>8 DEF WriteError
<1>9. CASE FreeReq
  BY <1>9 DEF FreeReq, streamer_free_buf
<1>10. ASSUME NEW ok \in BOOLEAN, TxRsp(ok) PROVE MgmtInv'
  BY <1>10 DEF TxRsp, streamer_free_buf
<1>11. CASE UNCHANGED mgmtVars
  BY <1>11 DEF mgmtVars
<1> QED
  BY <1>1, <1>2, <1>3, <1>4, <1>5, <1>6, <1>7, <1>8, <1>9, <1>10, <1>11 DEF MgmtNext

\* Once a packet is dealt with every buffer of the pool is back in it, on each of
\* the error paths of the server, for a pool of any size (pool_alloc, pool_free
\* and the streamer callbacks of mgmt_esp.c).
THEOREM BuffersReturn == MgmtSpec => []MgmtBuffersReturn
BY MgmtInvImplies, MgmtInitInv, MgmtStep, PTL DEF MgmtSpec

-----------------------------------------------------------------------------
(* A request reaches the handler of its characteristic, for any number of  *)
(* services and characteristics.                                           *)

NrfPlace == Services \X (1..Capacity)
NrfHandler == [handle : Nat, func : NrfPlace \cup {NoHandler}]
NrfService == [created : BOOLEAN, index : 0..Capacity, handlers : [1..Capacity -> NrfHandler]]

NrfTypeOK ==
    /\ nrfSvc \in [Services -> NrfService]
    /\ svcList \in Seq(Services)
    /\ nrfGiven \in Seq(NrfPlace)

\* A handle in a slot is the attribute of that slot, and an attribute's handle
\* is in the slot of its characteristic; a slot that was not taken holds none.
HandlesMatch ==
    /\ \A s \in Services, i \in 1..Capacity :
          LET h == nrfSvc[s].handlers[i].handle IN
          h # 0 => /\ h \in DOMAIN nrfGiven /\ nrfGiven[h] = <<s, i>>
                   /\ nrfSvc[s].handlers[i].func = <<s, i>>
                   /\ nrfSvc[s].created /\ i <= nrfSvc[s].index
    /\ \A h \in DOMAIN nrfGiven :
          nrfSvc[nrfGiven[h][1]].handlers[nrfGiven[h][2]].handle = h

RegisteredOnce == \A k, l \in DOMAIN svcList : svcList[k] = svcList[l] => k = l

NrfInv == NrfTypeOK /\ HandlesMatch /\ RegisteredOnce /\ RequestReachesItsHandler

LEMMA NrfInitInv == NrfInit => NrfInv
<1> SUFFICES ASSUME NrfInit PROVE NrfInv
  OBVIOUS
<1>1. NoSvc \in NrfService
  BY NrfAssumption DEF NoSvc, NrfService, NrfHandler, NrfEmpty
<1>2. NrfTypeOK
  BY <1>1 DEF NrfInit, NrfTypeOK
<1>3. HandlesMatch
  <2>1. \A s \in Services, i \in 1..Capacity : nrfSvc[s].handlers[i].handle = 0
    BY DEF NrfInit, NoSvc, NrfEmpty
  <2>2. DOMAIN nrfGiven = {}
    BY DEF NrfInit
  <2> QED
    BY <2>1, <2>2 DEF HandlesMatch
<1> QED
  BY <1>2, <1>3 DEF NrfInit, NrfInv, RegisteredOnce, RequestReachesItsHandler

\* Most steps leave the services alone.
LEMMA NrfFrame ==
    NrfInv /\ UNCHANGED <<nrfSvc, svcList, nrfGiven, nrfServed>> => NrfInv'
BY DEF NrfInv, NrfTypeOK, HandlesMatch, RegisteredOnce, RequestReachesItsHandler

LEMMA NrfCreateInv ==
    ASSUME NrfInv, NEW s \in Services, NEW ok \in BOOLEAN, NrfCreateService(s, ok)
    PROVE  NrfInv'
<1> DEFINE new == [NoSvc EXCEPT !.created = ok]
<1>1. new \in NrfService /\ \A i \in 1..Capacity : new.handlers[i].handle = 0
  BY NrfAssumption DEF NoSvc, NrfService, NrfHandler, NrfEmpty
<1>2. nrfSvc' = [nrfSvc EXCEPT ![s] = new] /\ UNCHANGED <<svcList, nrfGiven, nrfServed>>
  BY DEF NrfCreateService
<1> HIDE DEF new
<1>3. NrfTypeOK'
  BY <1>1, <1>2 DEF NrfInv, NrfTypeOK
<1>4. \A h \in DOMAIN nrfGiven : nrfGiven[h] \in NrfPlace
  BY DEF NrfInv, NrfTypeOK
<1>5. \A h \in DOMAIN nrfGiven : h # 0
  BY DEF NrfInv, NrfTypeOK
<1>6. \A h \in DOMAIN nrfGiven : nrfGiven[h][1] # s
  BY <1>4, <1>5 DEF NrfInv, HandlesMatch, NrfCreateService, NrfPlace
<1>7. HandlesMatch'
  BY <1>1, <1>2, <1>4, <1>6 DEF NrfInv, NrfTypeOK, HandlesMatch, NrfPlace
<1> QED
  BY <1>2, <1>3, <1>7 DEF NrfInv, RegisteredOnce, RequestReachesItsHandler

LEMMA NrfAddInv ==
    ASSUME NrfInv, NEW s \in Services, NEW ok \in BOOLEAN, NrfAddCharacteristic(s, ok)
    PROVE  NrfInv'
<1>1. PICK k \in 1..Capacity : k = nrfSvc[s].index + 1
  BY NrfAssumption DEF NrfInv, NrfTypeOK, NrfService, NrfAddCharacteristic
<1>2. PICK n \in Nat : n = Len(nrfGiven)
  BY DEF NrfInv, NrfTypeOK
<1> DEFINE h == IF ok THEN n + 1 ELSE 0
           entry == [handle |-> h, func |-> <<s, k>>]
           slots == [nrfSvc[s].handlers EXCEPT ![k] = entry]
           new == [nrfSvc[s] EXCEPT !.index = k, !.handlers = slots]
<1>3. nrfSvc[s] \in NrfService /\ nrfSvc[s].created /\ nrfSvc[s].index < Capacity
  BY DEF NrfInv, NrfTypeOK, NrfAddCharacteristic
<1>4. nrfSvc' = [nrfSvc EXCEPT ![s] = new]
  BY <1>1, <1>2, <1>3 DEF NrfAddCharacteristic, SvcChrAlloc, NrfService
<1>5. nrfGiven' = IF ok THEN Append(nrfGiven, <<s, k>>) ELSE nrfGiven
  BY <1>1 DEF NrfAddCharacteristic
<1>6. UNCHANGED <<svcList, nrfServed>>
  BY DEF NrfAddCharacteristic
<1>7. h \in Nat /\ <<s, k>> \in NrfPlace /\ entry \in NrfHandler
  BY <1>1, <1>2 DEF NrfPlace, NrfHandler
<1>8. /\ new \in NrfService /\ new.created /\ new.index = k
      /\ \A i \in 1..Capacity : new.handlers[i] = IF i = k THEN entry ELSE nrfSvc[s].handlers[i]
  <2>1. nrfSvc[s].handlers \in [1..Capacity -> NrfHandler]
    BY <1>3 DEF NrfService
  <2> HIDE DEF entry
  <2>2. /\ slots \in [1..Capacity -> NrfHandler]
        /\ \A i \in 1..Capacity : slots[i] = IF i = k THEN entry ELSE nrfSvc[s].handlers[i]
    BY <1>1, <1>7, <2>1
  <2> HIDE DEF slots
  <2>4. k \in 0..Capacity
    BY <1>1
  <2>5. ASSUME NEW r \in NrfService, NEW g \in [1..Capacity -> NrfHandler], NEW j \in 0..Capacity
        PROVE  [r EXCEPT !.index = j, !.handlers = g] \in NrfService
    BY DEF NrfService
  <2>6. new \in NrfService
    BY <1>3, <2>2, <2>4, <2>5
  <2>7. new.created = nrfSvc[s].created /\ new.index = k /\ new.handlers = slots
    BY <1>3 DEF NrfService
  <2> HIDE DEF new
  <2> QED
    BY <1>3, <2>2, <2>6, <2>7
<1>e. entry.handle = h /\ entry.func = <<s, k>>
  OBVIOUS
<1> HIDE DEF h, new, slots, entry
<1>9. NrfTypeOK'
  BY <1>4, <1>5, <1>6, <1>7, <1>8 DEF NrfInv, NrfTypeOK
<1>10. /\ DOMAIN nrfGiven' = IF ok THEN 1..(n + 1) ELSE 1..n
       /\ DOMAIN nrfGiven = 1..n
       /\ \A i \in 1..n : nrfGiven'[i] = nrfGiven[i] /\ nrfGiven[i] \in NrfPlace
       /\ ok => nrfGiven'[n + 1] = <<s, k>>
  BY <1>2, <1>5, <1>7 DEF NrfInv, NrfTypeOK
<1>11. \A t \in Services : nrfSvc'[t] = IF t = s THEN new ELSE nrfSvc[t]
  BY <1>4 DEF NrfInv, NrfTypeOK
<1>12. nrfSvc[s].handlers[k].handle = 0
  BY <1>1, <1>3 DEF NrfInv, HandlesMatch, NrfService
<1>13. ASSUME NEW t \in Services, NEW i \in 1..Capacity, nrfSvc'[t].handlers[i].handle # 0
       PROVE  LET g == nrfSvc'[t].handlers[i].handle IN
              /\ g \in DOMAIN nrfGiven' /\ nrfGiven'[g] = <<t, i>>
              /\ nrfSvc'[t].handlers[i].func = <<t, i>>
              /\ nrfSvc'[t].created /\ i <= nrfSvc'[t].index
  <2>1. CASE t = s /\ i = k
    <3>1. nrfSvc'[t].handlers[i] = entry /\ nrfSvc'[t].created /\ nrfSvc'[t].index = k
      BY <1>8, <1>11, <2>1
    <3>2. ok /\ h = n + 1
      BY <1>13, <1>e, <3>1 DEF h
    <3> QED
      BY <1>1, <1>2, <1>10, <1>e, <2>1, <3>1, <3>2
  <2>2. CASE ~(t = s /\ i = k)
    <3>1. nrfSvc'[t].handlers[i] = nrfSvc[t].handlers[i]
      BY <1>8, <1>11, <2>2
    <3>2. /\ nrfSvc[t].handlers[i].handle \in 1..n
          /\ nrfGiven[nrfSvc[t].handlers[i].handle] = <<t, i>>
          /\ nrfSvc[t].handlers[i].func = <<t, i>>
          /\ nrfSvc[t].created /\ i <= nrfSvc[t].index
      BY <1>13, <1>10, <3>1 DEF NrfInv, HandlesMatch
    <3>3. nrfSvc'[t].created /\ i <= nrfSvc'[t].index
      BY <1>1, <1>3, <1>8, <1>11, <3>2 DEF NrfService
    <3> QED
      BY <1>2, <1>10, <3>1, <3>2, <3>3
  <2> QED
    BY <2>1, <2>2
<1>14. ASSUME NEW g \in DOMAIN nrfGiven'
       PROVE  nrfSvc'[nrfGiven'[g][1]].handlers[nrfGiven'[g][2]].handle = g
  <2>1. CASE g \in 1..n
    <3>1. PICK t \in Services, i \in 1..Capacity : nrfGiven[g] = <<t, i>>
      BY <1>10, <2>1 DEF NrfPlace
    <3>2. nrfSvc[t].handlers[i].handle = g /\ g # 0
      BY <1>10, <2>1, <3>1 DEF NrfInv, HandlesMatch
    <3>3. ~(t = s /\ i = k)
      BY <1>12, <3>2
    <3> QED
      BY <1>8, <1>10, <1>11, <2>1, <3>1, <3>2, <3>3
  <2>2. CASE ok /\ g = n + 1
    BY <1>1, <1>8, <1>10, <1>11, <1>e, <2>2 DEF h
  <2> QED
    BY <1>2, <1>10, <1>14, <2>1, <2>2
<1>15. HandlesMatch'
  BY <1>13, <1>14 DEF HandlesMatch
<1> QED
  BY <1>6, <1>9, <1>15 DEF NrfInv, RegisteredOnce, RequestReachesItsHandler

LEMMA NrfRegisterInv ==
    ASSUME NrfInv, NEW s \in Services, NrfRegisterService(s)
    PROVE  NrfInv'
<1>1. svcList' = <<s>> \o svcList /\ UNCHANGED <<nrfSvc, nrfGiven, nrfServed>>
  BY DEF NrfRegisterService
<1>2. svcList \in Seq(Services) /\ \A i \in DOMAIN svcList : svcList[i] # s
  BY DEF NrfInv, NrfTypeOK, NrfRegisterService
<1>3. PICK n \in Nat : n = Len(svcList)
  BY <1>2
<1>4. /\ svcList' \in Seq(Services) /\ DOMAIN svcList' = 1..(n + 1) /\ DOMAIN svcList = 1..n
      /\ svcList'[1] = s /\ \A i \in 2..(n + 1) : svcList'[i] = svcList[i - 1]
  BY <1>1, <1>2, <1>3
<1>5. ASSUME NEW k \in DOMAIN svcList', NEW l \in DOMAIN svcList', svcList'[k] = svcList'[l]
      PROVE  k = l
  <2>1. CASE k = 1 /\ l # 1
    BY <1>2, <1>3, <1>4, <1>5, <2>1
  <2>2. CASE l = 1 /\ k # 1
    BY <1>2, <1>3, <1>4, <1>5, <2>2
  <2>3. CASE k # 1 /\ l # 1
    <3>1. k - 1 \in DOMAIN svcList /\ l - 1 \in DOMAIN svcList /\ svcList[k - 1] = svcList[l - 1]
      BY <1>3, <1>4, <1>5, <2>3
    <3>2. k - 1 = l - 1
      BY <3>1 DEF NrfInv, RegisteredOnce
    <3> QED
      BY <1>3, <1>4, <3>2
  <2> QED
    BY <2>1, <2>2, <2>3
<1>6. RegisteredOnce'
  BY <1>5 DEF RegisteredOnce
<1> QED
  BY <1>1, <1>4, <1>6 DEF NrfInv, NrfTypeOK, HandlesMatch, RequestReachesItsHandler

\* find_chr_by_handle finds the characteristic of an attribute whose service is
\* registered: its slot is the only one with that handle.
LEMMA FindChrExact ==
    ASSUME NrfInv, NEW h \in DOMAIN nrfGiven,
           \E i \in DOMAIN svcList : svcList[i] = nrfGiven[h][1]
    PROVE  FindChr(h) = nrfGiven[h]
<1>1. PICK s \in Services, i \in 1..Capacity : nrfGiven[h] = <<s, i>>
  BY DEF NrfInv, NrfTypeOK, NrfPlace
<1>2. PICK k \in DOMAIN svcList : svcList[k] = s
  BY <1>1
<1>3. h # 0 /\ nrfSvc[s].handlers[i].handle = h /\ nrfSvc[s].handlers[i].func = <<s, i>>
  BY <1>1 DEF NrfInv, NrfTypeOK, HandlesMatch
<1> DEFINE hits == {p \in (DOMAIN svcList) \X (1..Capacity) :
                      nrfSvc[svcList[p[1]]].handlers[p[2]].handle = h}
<1>4. <<k, i>> \in hits
  BY <1>2, <1>3
<1>5. ASSUME NEW p \in hits PROVE p = <<k, i>>
  <2>1. PICK l \in DOMAIN svcList, j \in 1..Capacity : p = <<l, j>>
    BY <1>5
  <2>2. svcList[l] \in Services /\ nrfSvc[svcList[l]].handlers[j].handle = h
    BY <1>5, <2>1 DEF NrfInv, NrfTypeOK
  <2>3. nrfGiven[h] = <<svcList[l], j>>
    BY <1>3, <2>2 DEF NrfInv, HandlesMatch
  <2>4. svcList[l] = svcList[k] /\ j = i
    BY <1>1, <1>2, <2>3
  <2> QED
    BY <2>1, <2>4 DEF NrfInv, RegisteredOnce
<1> DEFINE first == CHOOSE p \in hits : \A q \in hits :
                      p[1] < q[1] \/ (p[1] = q[1] /\ p[2] <= q[2])
<1>6. i <= i
  BY <1>1
<1>8. \A q \in hits : q[1] = k /\ q[2] = i
  <2> HIDE DEF hits
  <2> QED
    BY <1>5
<1>7. first = <<k, i>>
  <2> HIDE DEF hits
  <2>1. \E p \in hits : \A q \in hits : p[1] < q[1] \/ (p[1] = q[1] /\ p[2] <= q[2])
    BY <1>4, <1>8, <1>6
  <2>2. first \in hits
    BY <2>1
  <2> QED
    BY <1>5, <2>2
<1>9. FindChr(h) = IF hits = {} THEN NoHandler ELSE nrfSvc[svcList[first[1]]].handlers[first[2]].func
  BY DEF FindChr
<1> HIDE DEF hits, first
<1> QED
  BY <1>1, <1>2, <1>3, <1>4, <1>7, <1>9

LEMMA NrfStep == NrfInv /\ [NrfNext]_nrfVars => NrfInv'
<1> SUFFICES ASSUME NrfInv, [NrfNext]_nrfVars PROVE NrfInv'
  OBVIOUS
<1>1. ASSUME NEW s \in Services, NEW ok \in BOOLEAN, NrfCreateService(s, ok) PROVE NrfInv'
  BY <1>1, NrfCreateInv
<1>2. ASSUME NEW s \in Services, NEW ok \in BOOLEAN, NrfAddCharacteristic(s, ok) PROVE NrfInv'
  BY <1>2, NrfAddInv
<1>3. ASSUME NEW s \in Services, NrfRegisterService(s) PROVE NrfInv'
  BY <1>3, NrfRegisterInv
<1>4. ASSUME NEW h \in 1..MaxHandle, NEW write \in BOOLEAN, NEW responds \in BOOLEAN,
             RwRequest(h, write, responds)
      PROVE  NrfInv'
  <2>1. FindChr(h) = nrfGiven[h]
    BY <1>4, FindChrExact DEF RwRequest
  <2>2. nrfServed' = [wanted |-> nrfGiven[h], got |-> FindChr(h)] /\ UNCHANGED <<nrfSvc, svcList, nrfGiven>>
    BY <1>4 DEF RwRequest
  <2> QED
    BY <2>1, <2>2 DEF NrfInv, NrfTypeOK, HandlesMatch, RegisteredOnce, RequestReachesItsHandler
<1>5. ASSUME NEW c \in Conns, GapConnected(c) \/ GapDisconnected(c) PROVE NrfInv'
  BY <1>5, NrfFrame DEF GapConnected, GapDisconnected
<1>6. ASSUME NEW ok \in BOOLEAN, NrfEnable(ok) PROVE NrfInv'
  BY <1>6, NrfFrame DEF NrfEnable
<1>7. ASSUME NEW ms \in {0, 10}, NrfAdvSetDuration(ms) PROVE NrfInv'
  BY <1>7, NrfFrame DEF NrfAdvSetDuration
<1>8. CASE NrfAdvInit \/ NrfAdvStart \/ NrfAdvStop \/ AdvTerminated \/ UNCHANGED nrfVars
  BY <1>8, NrfFrame DEF NrfAdvInit, NrfAdvStart, NrfAdvStop, AdvTerminated, nrfVars
<1> QED
  BY <1>1, <1>2, <1>3, <1>4, <1>5, <1>6, <1>7, <1>8 DEF NrfNext

\* A request for an attribute reaches the handler its characteristic was added
\* with, however many services and characteristics there are, in whatever order
\* they were created, added to and registered, and with whatever refusals of the
\* SoftDevice (gatt_add_characteristic, find_chr_by_handle, on_ble_events).
THEOREM RequestsReachHandlers == NrfSpec => []RequestReachesItsHandler
<1>1. NrfInv => RequestReachesItsHandler
  BY DEF NrfInv
<1> QED
  BY <1>1, NrfInitInv, NrfStep, PTL DEF NrfSpec

-----------------------------------------------------------------------------
(* Advertising for ever goes on, for any number of connections and of      *)
(* events on their way.                                                    *)

GapTypes ==
    {"connect", "connect_failed", "disconnect", "mtu", "enc_failed", "adv_done", "adv_error"}
GapEvent == [type : GapTypes, handle : BleHandles \cup {0}]

BleTypeOK ==
    /\ gapEvents \in Seq(GapEvent)
    /\ bleAdv \in [mode : Modes, duration : Durations]
    /\ {wantAdv, advActive, lapsed} \subseteq BOOLEAN

\* The host advertises, or the event that tells on_gap_event otherwise is on its
\* way, or on_gap_event has had it and left advertising off.
EndTypes == {"adv_error", "connect_failed"}
AdvPending == \E i \in DOMAIN gapEvents : gapEvents[i].type \in EndTypes

BleInv ==
    /\ BleTypeOK
    /\ wantAdv => bleAdv.duration = "forever" /\ (advActive \/ AdvPending \/ lapsed)

LEMMA BleInitInv == BleInit => BleInv
<1> SUFFICES ASSUME BleInit PROVE BleInv
  OBVIOUS
<1>1. gapEvents \in Seq(GapEvent)
  BY DEF BleInit
<1>2. bleAdv \in [mode : Modes, duration : Durations]
  BY DEF BleInit, Modes, Durations
<1>3. wantAdv = FALSE /\ advActive = FALSE /\ lapsed = FALSE
  BY DEF BleInit
<1> QED
  BY <1>1, <1>2, <1>3 DEF BleInv, BleTypeOK

\* A step of the host that hands over an event leaves the pending ones.
LEMMA EmitPending ==
    ASSUME BleTypeOK, NEW e \in GapEvent, Emit(e)
    PROVE  /\ gapEvents' \in Seq(GapEvent)
           /\ AdvPending => AdvPending'
           /\ e.type \in EndTypes => AdvPending'
<1>1. PICK n \in Nat : n = Len(gapEvents)
  BY DEF BleTypeOK
<1>2. /\ gapEvents' \in Seq(GapEvent) /\ DOMAIN gapEvents = 1..n /\ DOMAIN gapEvents' = 1..(n + 1)
      /\ gapEvents'[n + 1] = e /\ \A i \in 1..n : gapEvents'[i] = gapEvents[i]
  BY <1>1 DEF BleTypeOK, Emit
<1>3. n + 1 \in 1..(n + 1) /\ 1..n \subseteq 1..(n + 1)
  BY <1>1
<1> QED
  BY <1>2, <1>3 DEF AdvPending

\* adv_start of the application, taken or refused.
LEMMA AdvGoInv ==
    ASSUME BleInv, AdvGo, lapsed' = (lapsed /\ ~advActive'), UNCHANGED <<bleAdv, gapEvents>>
    PROVE  BleInv'
<1>1. AdvPending' = AdvPending
  BY DEF AdvPending
<1>2. CASE advActive' = TRUE /\ wantAdv' = (bleAdv.duration = "forever")
  <2>1. lapsed' = FALSE /\ wantAdv' \in BOOLEAN
    BY <1>2
  <2> QED
    BY <1>2, <2>1 DEF BleInv, BleTypeOK
<1>3. CASE advActive' = advActive /\ wantAdv' = wantAdv
  <2>1. lapsed' \in BOOLEAN /\ (lapsed => lapsed' \/ advActive')
    BY <1>3 DEF BleInv, BleTypeOK
  <2> QED
    BY <1>1, <1>3, <2>1 DEF BleInv, BleTypeOK
<1> QED
  BY <1>2, <1>3 DEF AdvGo

\* The steps that leave the events, the wish and the advertising alone.
LEMMA BleFrame ==
    BleInv /\ UNCHANGED <<gapEvents, wantAdv, advActive, bleAdv, lapsed>> => BleInv'
BY DEF BleInv, BleTypeOK, AdvPending

LEMMA OnGapEventInv == BleInv /\ OnGapEvent => BleInv'
<1> SUFFICES ASSUME BleInv, OnGapEvent PROVE BleInv'
  OBVIOUS
<1> DEFINE e == Head(gapEvents)
           back == [type |-> "disconnect", handle |-> e.handle]
<1>1. gapEvents \in Seq(GapEvent) /\ gapEvents # <<>> /\ e \in GapEvent
  BY DEF BleInv, BleTypeOK, OnGapEvent
<1>2. PICK n \in Nat : Len(gapEvents) = n + 1
  BY <1>1
<1>3. back \in GapEvent
  BY <1>1 DEF GapEvent, GapTypes
<1>4. gapEvents' \in {Tail(gapEvents), Append(Tail(gapEvents), back)}
  BY DEF OnGapEvent
<1>h. e = gapEvents[1]
  BY <1>1
<1> HIDE DEF e, back
<1>5. /\ gapEvents' \in Seq(GapEvent)
      /\ DOMAIN gapEvents = 1..(n + 1)
      /\ 1..n \subseteq DOMAIN gapEvents'
      /\ \A i \in 1..n : gapEvents'[i] = gapEvents[i + 1]
  <2>1. /\ Tail(gapEvents) \in Seq(GapEvent) /\ Len(Tail(gapEvents)) = n
        /\ \A i \in 1..n : Tail(gapEvents)[i] = gapEvents[i + 1]
    BY <1>1, <1>2
  <2>2. CASE gapEvents' = Tail(gapEvents)
    BY <1>1, <1>2, <2>1, <2>2
  <2>3. CASE gapEvents' = Append(Tail(gapEvents), back)
    BY <1>1, <1>2, <1>3, <2>1, <2>3
  <2> QED
    BY <1>4, <2>2, <2>3
<1>6. AdvPending => e.type \in EndTypes \/ AdvPending'
  <2> SUFFICES ASSUME NEW i \in 1..(n + 1), gapEvents[i].type \in EndTypes, i # 1 PROVE AdvPending'
    BY <1>5, <1>h DEF AdvPending
  <2>1. PICK j \in 1..n : j = i - 1
    BY <1>2
  <2>2. j + 1 = i
    BY <2>1, <1>2
  <2>3. gapEvents'[j].type \in EndTypes
    BY <1>5, <2>2
  <2> QED
    BY <1>5, <2>3 DEF AdvPending
<1>7. UNCHANGED bleAdv
  BY DEF OnGapEvent
<1>8. /\ wantAdv' => wantAdv \/ bleAdv.duration = "forever"
      /\ {wantAdv', advActive'} \subseteq BOOLEAN
      /\ e.type \notin EndTypes => UNCHANGED <<wantAdv, advActive, lapsed>>
      /\ e.type \in EndTypes => lapsed' = ~advActive'
  <2>1. CASE e.type = "adv_error" /\ bleAdv.duration = "forever"
    BY <2>1 DEF OnGapEvent, AdvGo, e, EndTypes, BleInv, BleTypeOK
  <2>2. CASE ~(e.type = "adv_error" /\ bleAdv.duration = "forever")
    BY <2>2 DEF OnGapEvent, e, EndTypes, BleInv, BleTypeOK
  <2> QED
    BY <2>1, <2>2
<1>9. CASE e.type \in EndTypes
  BY <1>5, <1>7, <1>8, <1>9 DEF BleInv, BleTypeOK
<1>10. CASE e.type \notin EndTypes
  BY <1>5, <1>6, <1>7, <1>8, <1>10 DEF BleInv, BleTypeOK
<1> QED
  BY <1>9, <1>10

LEMMA BleHostInv == BleInv /\ BleHost => BleInv'
<1> SUFFICES ASSUME BleInv, BleHost PROVE BleInv'
  OBVIOUS
<1>1. ASSUME NEW i \in 0..NrChrs-1, CharacteristicRequest(i) PROVE BleInv'
  BY <1>1, BleFrame DEF CharacteristicRequest, hostVars, selfVars
<1>2. ASSUME NEW h \in BleHandles, HostConnect(h) PROVE BleInv'
  <2> DEFINE E(ok) == [type |-> IF ok THEN "connect" ELSE "connect_failed", handle |-> h]
  <2>1. PICK ok \in BOOLEAN : Emit(E(ok)) /\ wantAdv' = (wantAdv /\ ~ok)
    BY <1>2 DEF HostConnect
  <2>2. E(ok) \in GapEvent /\ (~ok => E(ok).type \in EndTypes)
    BY DEF GapEvent, GapTypes, EndTypes
  <2> HIDE DEF E
  <2>3. gapEvents' \in Seq(GapEvent) /\ (~ok => AdvPending')
    BY <2>1, <2>2, EmitPending DEF BleInv
  <2>4. advActive' = FALSE /\ UNCHANGED <<bleAdv, lapsed>>
    BY <1>2 DEF HostConnect
  <2> QED
    BY <2>1, <2>3, <2>4 DEF BleInv, BleTypeOK
<1>3. ASSUME NEW h \in BleHandles, NEW type \in {"disconnect", "mtu", "enc_failed"}, HostEvent(h, type)
      PROVE  BleInv'
  <2>1. [type |-> type, handle |-> h] \in GapEvent
    BY DEF GapEvent, GapTypes
  <2>2. gapEvents' \in Seq(GapEvent) /\ (AdvPending => AdvPending')
    BY <1>3, <2>1, EmitPending DEF BleInv, HostEvent
  <2> QED
    BY <1>3, <2>2 DEF HostEvent, BleInv, BleTypeOK
<1>4. ASSUME NEW type \in {"adv_done", "adv_error"}, HostAdvComplete(type) PROVE BleInv'
  <2>1. [type |-> type, handle |-> 0] \in GapEvent
    BY DEF GapEvent, GapTypes
  <2>2. gapEvents' \in Seq(GapEvent) /\ (type = "adv_error" => AdvPending')
    BY <1>4, <2>1, EmitPending DEF BleInv, HostAdvComplete, EndTypes
  <2> QED
    BY <1>4, <2>2 DEF HostAdvComplete, BleInv, BleTypeOK
<1> QED
  BY <1>1, <1>2, <1>3, <1>4 DEF BleHost

LEMMA BleAppInv == BleInv /\ BleApp => BleInv'
<1> SUFFICES ASSUME BleInv, BleApp PROVE BleInv'
  OBVIOUS
<1>1. CASE BleEnable \/ Notify \/ CreateService \/ AddCharacteristic \/ RegisterService
  BY <1>1, BleFrame DEF BleEnable, Notify, CreateService, AddCharacteristic, RegisterService,
     hostVars, selfVars
<1>2. CASE BleDisable
  <2>1. gapEvents' \in Seq(GapEvent)
    BY <1>2 DEF BleDisable
  <2> QED
    BY <1>2, <2>1 DEF BleDisable, BleInv, BleTypeOK
<1>3. CASE AdvStart
  <2>1. AdvGo
    BY <1>3 DEF AdvStart, AdvGo
  <2> QED
    BY <1>3, <2>1, AdvGoInv DEF AdvStart
<1>4. CASE AdvStop
  BY <1>4 DEF AdvStop, BleInv, BleTypeOK
<1>5. ASSUME NEW mode \in Modes, AdvInit(mode) PROVE BleInv'
  BY <1>5 DEF AdvInit, BleInv, BleTypeOK, AdvPending, Durations
<1>6. ASSUME NEW d \in Durations, AdvSetDuration(d) PROVE BleInv'
  BY <1>6 DEF AdvSetDuration, BleInv, BleTypeOK, AdvPending
<1> QED
  BY <1>1, <1>2, <1>3, <1>4, <1>5, <1>6 DEF BleApp

LEMMA BleStep == BleInv /\ [BleNext]_bleVars => BleInv'
<1> SUFFICES ASSUME BleInv, [BleNext]_bleVars PROVE BleInv'
  OBVIOUS
<1>1. CASE AdvStarted
  BY <1>1, AdvGoInv DEF AdvStarted, BleInv, BleTypeOK, AdvPending
<1>2. CASE HostSync \/ UNCHANGED bleVars
  BY <1>2, BleFrame DEF HostSync, bleVars
<1> QED
  BY <1>1, <1>2, OnGapEventInv, BleHostInv, BleAppInv DEF BleNext

\* Advertising that adv_start began for ever goes on until it is stopped, taken
\* over by a connection or the device is disabled, for any number of connection
\* handles and of events on their way, whatever calls the host refuses; only
\* on_gap_event leaves it off, when the host refuses to start it again or a
\* connection failed (adv_start, on_gap_event).
THEOREM AdvertisingGoesOn == BleSpec => []AdvertisesForever
<1>1. BleInv => AdvertisesForever
  BY DEF BleInv, AdvertisesForever, AdvPending
<1> QED
  BY <1>1, BleInitInv, BleStep, PTL DEF BleSpec

-----------------------------------------------------------------------------
(* The records of the ESP drivers, for any number of channels, devices,    *)
(* tasks and timers.                                                       *)

\* The first free slot, which the allocations take, is a free slot.
LEMMA MinOfNaturals ==
    ASSUME NEW S, S \subseteq Nat, S # {}
    PROVE  Min(S) \in S /\ \A y \in S : Min(S) <= y
<1> DEFINE less == {ss \in Nat \X Nat : ss[1] < ss[2]}
<1>1. IsWellFoundedOn(less, Nat)
  BY NatLessThanWellFounded DEF OpToRel
<1> HIDE DEF less
<1>2. PICK x \in S : \A y \in S : ~(<<y, x>> \in less)
  BY <1>1, WFMin
<1>3. ASSUME NEW y \in S PROVE x <= y
  <2>1. ~(y < x)
    BY <1>2 DEF less
  <2> QED
    BY <2>1
<1> QED
  BY <1>3 DEF Min

UartInv ==
    /\ uart \in [held : BOOLEAN, activated : BOOLEAN, baud : Bauds \cup {0},
                 frame : Frames \cup {DefaultFrame}]
    /\ uartHw \in [installed : BOOLEAN, baud : Bauds \cup {0},
                   frame : Frames \cup {DefaultFrame}, tx : BOOLEAN, rx : BOOLEAN]
    /\ uartOk \in BOOLEAN
    /\ UartAsConfigured
    /\ uart.activated => uart.baud \in Bauds

LEMMA UartInitInv == UartInit => UartInv
BY DEF UartInit, UartBlank, UartInv, UartAsConfigured

LEMMA UartStep == UartInv /\ [UartNext]_uartVars => UartInv'
<1> SUFFICES ASSUME UartInv, [UartNext]_uartVars PROVE UartInv'
  OBVIOUS
<1> USE EspAssumption DEF UartInv, UartAsConfigured
<1>1. CASE UartCreate
  BY <1>1 DEF UartCreate, UartBlank, UartSettings, UartSetConfig
<1>2. CASE UartDelete
  BY <1>2 DEF UartDelete, UartBlank, UartSettings, UartSetConfig
<1>3. CASE UartDisable
  BY <1>3 DEF UartDisable, UartSettings, UartSetConfig
<1>4. CASE UartWrite \/ UartFlush \/ UartRead \/ UartClear \/ UartArrive
  <2>1. /\ UNCHANGED <<uart, uartOk>>
        /\ uartHw'.installed = uartHw.installed /\ UNCHANGED UartSettings
        /\ uartHw' \in [installed : BOOLEAN, baud : Bauds \cup {0},
                         frame : Frames \cup {DefaultFrame}, tx : BOOLEAN, rx : BOOLEAN]
        /\ uartHw'.baud = uartHw.baud
    <3>1. CASE UartWrite \/ UartFlush
      BY <1>4, <3>1 DEF UartWrite, UartFlush, UartTransfer, UartSettings
    <3>2. CASE UartRead \/ UartClear \/ UartArrive
      BY <1>4, <3>2 DEF UartRead, UartClear, UartArrive, UartTransfer, UartSettings
    <3> QED
      BY <1>4, <3>1, <3>2
  <2> QED
    BY <2>1 DEF UartSetConfig
<1>5. ASSUME NEW baud \in Bauds, UartEnable(baud) PROVE UartInv'
  BY <1>5 DEF UartEnable, UartSettings, UartSetConfig
<1>6. ASSUME NEW baud \in Bauds \cup {0}, NEW frame \in Frames, UartConfigure(baud, frame)
      PROVE  UartInv'
  BY <1>6 DEF UartConfigure, UartUpdateConfig, UartSettings, UartSetConfig
<1>7. CASE UNCHANGED uartVars
  BY <1>7 DEF uartVars, UartSettings, UartSetConfig
<1> QED
  BY <1>1, <1>2, <1>3, <1>4, <1>5, <1>6, <1>7 DEF UartNext

I2cRecords == [call : {"none", "enable", "transfer", "write_reg", "create_device", "reset", "disable"},
               pc : {"none", "wait", "in", "found", "deleted", "unlocked", "made"}, slot : Nat]

\* A task in the driver owns the mutex, but for the calls made without one, and is
\* alone there; the slot that new_device found is still free.
I2cOwned == i2cUnguarded \/ \A u \in I2cTasks : I2cInside(u) => i2cMutex = u
I2cOne == i2cRaced \/ \A u, v \in I2cTasks : I2cInside(u) /\ I2cInside(v) => u = v
I2cFound ==
    \A u \in I2cTasks : i2cAt[u].pc = "found" =>
        i2cAt[u].slot \in 1..I2cMaxDevice /\ (i2cRaced \/ i2cAt[u].slot \notin i2cSlots)

I2cInv ==
    /\ i2cAt \in [I2cTasks -> I2cRecords]
    /\ i2cSlots \subseteq 1..I2cMaxDevice /\ attached \subseteq 1..I2cMaxDevice
    /\ I2cOwned /\ I2cOne /\ I2cFound
    /\ I2cSlotsMatch

LEMMA I2cInitInv == I2cInit => I2cInv
BY DEF I2cInit, I2cIdle, I2cInv, I2cRecords, I2cOwned, I2cOne, I2cFound, I2cInside, I2cSlotsMatch

LEMMA I2cRecord ==
    ASSUME NEW call \in {"enable", "transfer", "write_reg", "create_device", "reset", "disable"},
           NEW pc \in {"wait", "found"}, NEW dev \in Nat
    PROVE  \E r \in I2cRecords : /\ r = [call |-> call, pc |-> pc, slot |-> dev]
                                 /\ r.call = call /\ r.pc = pc /\ r.slot = dev
<1>1. [call |-> call, pc |-> pc, slot |-> dev] \in I2cRecords
  BY DEF I2cRecords
<1> QED
  BY <1>1

\* A step of task t, after which its call is r.
LEMMA I2cCallStep ==
    ASSUME I2cInv, NEW t \in I2cTasks, NEW r \in I2cRecords,
           i2cAt' = [i2cAt EXCEPT ![t] = r],
           attached \subseteq attached', attached' \subseteq 1..I2cMaxDevice,
           i2cSlots' \subseteq 1..I2cMaxDevice,
           attached' # {} => busHw',
           i2cRaced => i2cRaced', i2cRaced' => i2cUnguarded',
           i2cRaced' \/ i2cSlots' = attached',
           i2cRaced' \/ i2cSlots' = i2cSlots \/ I2cInside(t),
           i2cRaced' \/ (r.call \in {"transfer", "write_reg"} => r.slot \in attached'),
           i2cUnguarded' \/ \A u \in I2cTasks : u # t /\ I2cInside(u) => i2cMutex' = u,
           r.pc \in {"in", "found", "deleted"} =>
               /\ i2cUnguarded' \/ i2cMutex' = t
               /\ i2cRaced' \/ I2cInside(t) \/ ~I2cSomeInside,
           r.pc = "found" => r.slot \in 1..I2cMaxDevice /\ (i2cRaced' \/ r.slot \notin i2cSlots')
    PROVE  I2cInv'
<1>1. \A u \in I2cTasks : i2cAt'[u] = IF u = t THEN r ELSE i2cAt[u]
  BY DEF I2cInv
<1>2. i2cAt' \in [I2cTasks -> I2cRecords]
  BY DEF I2cInv
<1>3. \A u \in I2cTasks : u # t => I2cInside(u)' = I2cInside(u)
  BY <1>1 DEF I2cInside
<1>4. I2cInside(t)' <=> r.pc \in {"in", "found", "deleted"}
  BY <1>1 DEF I2cInside
<1>5. I2cOwned'
  BY <1>3, <1>4 DEF I2cOwned
<1>6. i2cRaced' \/ \A u \in I2cTasks : u # t /\ I2cInside(u) => ~I2cInside(t) /\ ~I2cInside(t)'
  BY <1>4 DEF I2cInv, I2cOne, I2cSomeInside
<1>7. I2cOne'
  BY <1>3, <1>6 DEF I2cInv, I2cOne
<1>8. I2cFound'
  <2> SUFFICES ASSUME NEW u \in I2cTasks, i2cAt'[u].pc = "found"
               PROVE  i2cAt'[u].slot \in 1..I2cMaxDevice /\ (i2cRaced' \/ i2cAt'[u].slot \notin i2cSlots')
    BY DEF I2cFound
  <2>1. CASE u = t
    BY <1>1, <2>1
  <2>2. CASE u # t
    <3>1. i2cAt'[u] = i2cAt[u] /\ I2cInside(u)
      BY <1>1, <2>2 DEF I2cInside
    <3>2. i2cRaced' \/ i2cSlots' = i2cSlots
      BY <1>6, <2>2, <3>1
    <3> QED
      BY <3>1, <3>2 DEF I2cInv, I2cFound
  <2> QED
    BY <2>1, <2>2
<1>9. i2cRaced' \/ \A u \in I2cTasks : i2cAt'[u].call \in {"transfer", "write_reg"} => i2cAt'[u].slot \in attached'
  BY <1>1 DEF I2cInv, I2cSlotsMatch
<1> QED
  BY <1>2, <1>5, <1>7, <1>8, <1>9 DEF I2cInv, I2cSlotsMatch

\* The same, of a step that leaves slots, devices and bus as they are.
LEMMA I2cQuietStep ==
    ASSUME I2cInv, NEW t \in I2cTasks, NEW r \in I2cRecords,
           i2cAt' = [i2cAt EXCEPT ![t] = r],
           UNCHANGED <<attached, i2cSlots>>, busHw => busHw',
           i2cRaced => i2cRaced', i2cRaced' => i2cUnguarded',
           i2cRaced' \/ (r.call \in {"transfer", "write_reg"} => r.slot \in attached),
           i2cUnguarded' \/ \A u \in I2cTasks : u # t /\ I2cInside(u) => i2cMutex' = u,
           r.pc \in {"in", "found", "deleted"} =>
               /\ i2cUnguarded' \/ i2cMutex' = t
               /\ i2cRaced' \/ I2cInside(t) \/ ~I2cSomeInside,
           r.pc = "found" => r.slot \in 1..I2cMaxDevice /\ (i2cRaced' \/ r.slot \notin i2cSlots)
    PROVE  I2cInv'
<1>1. attached # {} => busHw
  BY DEF I2cInv, I2cSlotsMatch
<1>2. i2cRaced' \/ i2cSlots' = attached'
  BY DEF I2cInv, I2cSlotsMatch
<1>3. attached' \subseteq 1..I2cMaxDevice /\ i2cSlots' \subseteq 1..I2cMaxDevice
  BY DEF I2cInv
<1> QED
  BY <1>1, <1>2, <1>3, I2cCallStep

\* A task leaves: nobody else owned the mutex it gives back.
LEMMA I2cUnlockFacts ==
    ASSUME I2cInv, NEW t \in I2cTasks, I2cInside(t), I2cUnlock(t), UNCHANGED i2cUnguarded
    PROVE  i2cUnguarded' \/ \A u \in I2cTasks : u # t /\ I2cInside(u) => i2cMutex' = u
BY DEF I2cInv, I2cOwned, I2cUnlock

LEMMA I2cStep == I2cInv /\ [I2cNext]_i2cVars => I2cInv'
<1> SUFFICES ASSUME I2cInv, [I2cNext]_i2cVars PROVE I2cInv'
  OBVIOUS
<1>i. I2cIdle \in I2cRecords /\ I2cIdle.pc = "none" /\ I2cIdle.call = "none"
  BY DEF I2cIdle, I2cRecords
<1>t. /\ i2cAt \in [I2cTasks -> I2cRecords]
      /\ i2cSlots \subseteq 1..I2cMaxDevice /\ attached \subseteq 1..I2cMaxDevice
      /\ I2cOwned /\ I2cOne /\ I2cFound
      /\ attached # {} => busHw
      /\ i2cRaced => i2cUnguarded
      /\ i2cRaced \/ i2cSlots = attached
      /\ i2cRaced \/ \A t \in I2cTasks : i2cAt[t].call \in {"transfer", "write_reg"} => i2cAt[t].slot \in attached
  BY DEF I2cInv, I2cSlotsMatch
<1>o. i2cUnguarded \/ \A u \in I2cTasks : I2cInside(u) => i2cMutex = u
  BY <1>t DEF I2cOwned
<1>2. ASSUME NEW t \in I2cTasks, NEW call \in {"transfer", "write_reg"}, NEW d \in attached,
             I2cStart(t, call, d)
      PROVE  I2cInv'
  <2>0. d \in Nat
    BY <1>t, EspAssumption
  <2>1. PICK r \in I2cRecords : /\ r = [call |-> call, pc |-> "wait", slot |-> d]
                                /\ r.call = call /\ r.pc = "wait" /\ r.slot = d
    BY <2>0, I2cRecord
  <2>2. /\ i2cAt' = [i2cAt EXCEPT ![t] = r]
        /\ UNCHANGED <<busHw, attached, i2cSlots, i2cMutex, i2cUnguarded, i2cRaced>>
    BY <1>2, <2>1 DEF I2cStart, i2cGhosts
  <2> QED
    BY <1>t, <1>o, <2>1, <2>2, I2cQuietStep
<1>3. ASSUME NEW t \in I2cTasks, NEW call \in {"enable", "create_device", "reset", "disable"},
             I2cStart(t, call, 0)
      PROVE  I2cInv'
  <2>1. PICK r \in I2cRecords : /\ r = [call |-> call, pc |-> "wait", slot |-> 0]
                                /\ r.call = call /\ r.pc = "wait" /\ r.slot = 0
    BY I2cRecord
  <2>2. /\ i2cAt' = [i2cAt EXCEPT ![t] = r]
        /\ UNCHANGED <<busHw, attached, i2cSlots, i2cMutex, i2cUnguarded, i2cRaced>>
    BY <1>3, <2>1 DEF I2cStart, i2cGhosts
  <2> QED
    BY <1>t, <1>o, <2>1, <2>2, I2cQuietStep
<1>p. ASSUME NEW t \in I2cTasks, NEW pc \in {"in", "deleted", "unlocked", "made"}, I2cGoto(t, pc)
      PROVE  \E r \in I2cRecords : /\ i2cAt' = [i2cAt EXCEPT ![t] = r]
                                   /\ r.pc = pc /\ r.call = i2cAt[t].call /\ r.slot = i2cAt[t].slot
  <2>1. PICK q \in I2cRecords : q = i2cAt[t]
    BY <1>t
  <2>2. /\ [q EXCEPT !.pc = pc] \in I2cRecords /\ [q EXCEPT !.pc = pc].pc = pc
        /\ [q EXCEPT !.pc = pc].call = q.call /\ [q EXCEPT !.pc = pc].slot = q.slot
    BY DEF I2cRecords
  <2>3. i2cAt' = [i2cAt EXCEPT ![t] = [q EXCEPT !.pc = pc]]
    BY <1>p, <2>1 DEF I2cGoto
  <2> QED
    BY <2>1, <2>2, <2>3
<1>4. ASSUME NEW t \in I2cTasks, I2cNewBus(t) PROVE I2cInv'
  <2>1. /\ UNCHANGED <<attached, i2cSlots, i2cMutex, i2cUnguarded, i2cRaced>>
        /\ i2cAt[t].call = "enable"
    BY <1>4 DEF I2cNewBus, i2cGhosts
  <2>2. CASE busHw' = TRUE /\ I2cGoto(t, "made")
    BY <1>t, <1>o, <1>p, <2>1, <2>2, I2cQuietStep
  <2>3. CASE busHw' = busHw /\ I2cReturn(t)
    BY <1>t, <1>o, <1>i, <2>1, <2>3, I2cQuietStep DEF I2cReturn
  <2> QED
    BY <1>4, <2>2, <2>3 DEF I2cNewBus
<1>5. ASSUME NEW t \in I2cTasks, I2cMutexInit(t) PROVE I2cInv'
  <2>1. /\ UNCHANGED <<busHw, attached, i2cSlots, i2cRaced>>
        /\ i2cAt' = [i2cAt EXCEPT ![t] = I2cIdle]
    BY <1>5 DEF I2cMutexInit, I2cReturn
  <2>2. i2cUnguarded' = (i2cUnguarded \/ I2cSomeInside)
    BY <1>5 DEF I2cMutexInit
  <2>3. (i2cUnguarded => i2cUnguarded') /\ (i2cUnguarded' \/ ~I2cSomeInside)
    BY <2>2, Zenon
  <2>4. i2cUnguarded' \/ \A u \in I2cTasks : u # t /\ I2cInside(u) => i2cMutex' = u
    BY <2>3 DEF I2cSomeInside
  <2> QED
    BY <1>t, <1>i, <2>1, <2>3, <2>4, I2cQuietStep
<1>6. ASSUME NEW t \in I2cTasks, I2cAcquire(t) PROVE I2cInv'
  <2>1. /\ UNCHANGED <<busHw, attached, i2cSlots>> /\ I2cGoto(t, "in") /\ ~I2cInside(t)
        /\ i2cRaced' = (i2cRaced \/ I2cSomeInside)
    BY <1>6 DEF I2cAcquire, I2cInside
  <2>2. (i2cRaced => i2cRaced') /\ (i2cRaced' \/ ~I2cSomeInside) /\ (i2cRaced' => i2cRaced \/ I2cSomeInside)
    BY <2>1, Zenon
  <2>3. PICK r \in I2cRecords : /\ i2cAt' = [i2cAt EXCEPT ![t] = r]
                                /\ r.pc = "in" /\ r.call = i2cAt[t].call /\ r.slot = i2cAt[t].slot
    BY <1>p, <2>1
  <2>4. CASE i2cMutex = Nobody /\ i2cMutex' = t /\ i2cUnguarded' = i2cUnguarded
    <3>1. i2cUnguarded \/ ~I2cSomeInside
      BY <1>o, <2>4, EspAssumption DEF I2cSomeInside
    <3> QED
      BY <1>t, <2>1, <2>2, <2>3, <2>4, <3>1, I2cQuietStep DEF I2cSomeInside
  <2>5. CASE i2cUnguarded' = TRUE
    BY <1>t, <2>1, <2>2, <2>3, <2>5, I2cQuietStep
  <2> QED
    BY <1>6, <2>4, <2>5 DEF I2cAcquire
<1>l. ASSUME NEW t \in I2cTasks, I2cInside(t), I2cRelease(t), UNCHANGED <<busHw, attached, i2cSlots>>
      PROVE  I2cInv'
  <2>1. /\ i2cAt' = [i2cAt EXCEPT ![t] = I2cIdle] /\ UNCHANGED <<i2cUnguarded, i2cRaced>> /\ I2cUnlock(t)
    BY <1>l DEF I2cRelease, I2cReturn, i2cGhosts
  <2>2. i2cUnguarded' \/ \A u \in I2cTasks : u # t /\ I2cInside(u) => i2cMutex' = u
    BY <1>l, <2>1, I2cUnlockFacts
  <2> QED
    BY <1>t, <1>i, <1>l, <2>1, <2>2, I2cQuietStep
<1>7. ASSUME NEW t \in I2cTasks, I2cTransfer(t) \/ I2cWriteReg(t) \/ I2cReset(t) PROVE I2cInv'
  BY <1>7, <1>l DEF I2cTransfer, I2cWriteReg, I2cReset, I2cInside
<1>8. ASSUME NEW t \in I2cTasks, I2cNewDevice(t) PROVE I2cInv'
  <2>1. UNCHANGED <<busHw, attached, i2cSlots>> /\ I2cInside(t)
    BY <1>8 DEF I2cNewDevice, I2cInside
  <2>2. CASE i2cSlots = 1..I2cMaxDevice
    BY <1>8, <1>l, <2>1, <2>2 DEF I2cNewDevice
  <2>3. CASE i2cSlots # 1..I2cMaxDevice
    <3>1. PICK dev \in (1..I2cMaxDevice) \ i2cSlots : dev = Min((1..I2cMaxDevice) \ i2cSlots)
      <4>1. (1..I2cMaxDevice) \ i2cSlots # {}
        BY <1>t, <2>3
      <4>2. (1..I2cMaxDevice) \ i2cSlots \subseteq Nat
        BY EspAssumption
      <4> QED
        BY <4>1, <4>2, MinOfNaturals
    <3>2. PICK r \in I2cRecords : /\ r = [call |-> "create_device", pc |-> "found", slot |-> dev]
                                  /\ r.call = "create_device" /\ r.pc = "found" /\ r.slot = dev
      <4>1. dev \in Nat
        BY EspAssumption
      <4> QED
        BY <4>1, I2cRecord
    <3>3. i2cAt' = [i2cAt EXCEPT ![t] = r] /\ UNCHANGED <<i2cMutex, i2cUnguarded, i2cRaced>>
      BY <1>8, <2>3, <3>1, <3>2 DEF I2cNewDevice, i2cGhosts
    <3> QED
      BY <1>t, <1>o, <2>1, <3>1, <3>2, <3>3, I2cQuietStep
  <2> QED
    BY <2>2, <2>3
<1>9. ASSUME NEW t \in I2cTasks, I2cCreateDevice(t) PROVE I2cInv'
  <2>1. PICK dev \in 1..I2cMaxDevice : dev = i2cAt[t].slot /\ (i2cRaced \/ dev \notin i2cSlots)
    BY <1>9, <1>t DEF I2cCreateDevice, I2cFound
  <2>2. /\ i2cAt' = [i2cAt EXCEPT ![t] = I2cIdle] /\ UNCHANGED <<busHw, i2cUnguarded, i2cRaced>>
        /\ I2cUnlock(t) /\ I2cInside(t)
    BY <1>9 DEF I2cCreateDevice, I2cRelease, I2cReturn, I2cInside, i2cGhosts
  <2>3. i2cUnguarded' \/ \A u \in I2cTasks : u # t /\ I2cInside(u) => i2cMutex' = u
    BY <2>2, I2cUnlockFacts
  <2>4. CASE busHw /\ i2cSlots' = i2cSlots \cup {dev} /\ attached' = attached \cup {dev}
    <3>1. attached \subseteq attached' /\ attached' \subseteq 1..I2cMaxDevice /\ i2cSlots' \subseteq 1..I2cMaxDevice
      BY <1>t, <2>4
    <3>2. i2cRaced' \/ i2cSlots' = attached'
      BY <1>t, <2>2, <2>4
    <3> QED
      BY <1>t, <1>i, <2>2, <2>3, <2>4, <3>1, <3>2, I2cCallStep
  <2>5. CASE i2cSlots' = i2cSlots \ {dev} /\ UNCHANGED attached
    <3>1. attached \subseteq attached' /\ attached' \subseteq 1..I2cMaxDevice /\ i2cSlots' \subseteq 1..I2cMaxDevice
      BY <1>t, <2>5
    <3>2. i2cRaced' \/ i2cSlots' = attached'
      BY <1>t, <2>1, <2>2, <2>5
    <3> QED
      BY <1>t, <1>i, <2>2, <2>3, <2>5, <3>1, <3>2, I2cCallStep
  <2> QED
    BY <1>9, <2>1, <2>4, <2>5 DEF I2cCreateDevice
<1>10. ASSUME NEW t \in I2cTasks, I2cDisable(t) PROVE I2cInv'
  <2>1. /\ UNCHANGED <<attached, i2cSlots, i2cMutex, i2cUnguarded, i2cRaced>> /\ I2cGoto(t, "deleted")
        /\ I2cInside(t) /\ i2cAt[t].call = "disable"
    BY <1>10 DEF I2cDisable, I2cInside, i2cGhosts
  <2>2. busHw' = (busHw /\ attached # {})
    BY <1>10 DEF I2cDisable
  <2>3. attached' # {} => busHw'
    BY <1>t, <2>1, <2>2, Zenon
  <2>4. PICK r \in I2cRecords : i2cAt' = [i2cAt EXCEPT ![t] = r] /\ r.pc = "deleted" /\ r.call = "disable"
    BY <1>p, <2>1
  <2> QED
    BY <1>t, <1>o, <2>1, <2>3, <2>4, I2cCallStep
<1>11. ASSUME NEW t \in I2cTasks, I2cDisableUnlock(t) PROVE I2cInv'
  <2>1. /\ UNCHANGED <<busHw, attached, i2cSlots, i2cUnguarded, i2cRaced>> /\ I2cGoto(t, "unlocked")
        /\ I2cInside(t) /\ I2cUnlock(t)
    BY <1>11 DEF I2cDisableUnlock, I2cInside, i2cGhosts
  <2>2. i2cUnguarded' \/ \A u \in I2cTasks : u # t /\ I2cInside(u) => i2cMutex' = u
    BY <2>1, I2cUnlockFacts
  <2>3. PICK r \in I2cRecords : /\ i2cAt' = [i2cAt EXCEPT ![t] = r]
                                /\ r.pc = "unlocked" /\ r.call = i2cAt[t].call /\ r.slot = i2cAt[t].slot
    BY <1>p, <2>1
  <2> QED
    BY <1>t, <2>1, <2>2, <2>3, I2cQuietStep
<1>12. ASSUME NEW t \in I2cTasks, I2cDestroy(t) PROVE I2cInv'
  <2>1. /\ UNCHANGED <<busHw, attached, i2cSlots, i2cRaced>>
        /\ i2cAt' = [i2cAt EXCEPT ![t] = I2cIdle]
    BY <1>12 DEF I2cDestroy, I2cReturn
  <2>2. CASE i2cUnguarded' = (i2cUnguarded \/ I2cSomeInside)
    <3>1. (i2cUnguarded => i2cUnguarded') /\ (i2cUnguarded' \/ ~I2cSomeInside)
      BY <2>2, Zenon
    <3>2. i2cUnguarded' \/ \A u \in I2cTasks : u # t /\ I2cInside(u) => i2cMutex' = u
      BY <3>1 DEF I2cSomeInside
    <3> QED
      BY <1>t, <1>i, <2>1, <3>1, <3>2, I2cQuietStep
  <2>3. CASE i2cMutex' = i2cMutex /\ i2cUnguarded' = i2cUnguarded
    BY <1>t, <1>o, <1>i, <2>1, <2>3, I2cQuietStep
  <2> QED
    BY <1>12, <2>2, <2>3 DEF I2cDestroy
<1>13. CASE UNCHANGED i2cVars
  BY <1>13 DEF i2cVars, I2cInv, I2cSlotsMatch, I2cOwned, I2cOne, I2cFound, I2cInside
<1> QED
  BY <1>2, <1>3, <1>4, <1>5, <1>6, <1>7, <1>8, <1>9, <1>10, <1>11, <1>12, <1>13 DEF I2cNext

SpiDevice == [spi : BOOLEAN, handle : BOOLEAN, enabled : BOOLEAN]

SpiInv ==
    /\ spiDev \in [SpiSlots -> SpiDevice]
    /\ spiAdded \in [SpiSlots -> Nat]
    /\ SpiBusMatches

LEMMA SpiInitInv == SpiInit => SpiInv
<1> SUFFICES ASSUME SpiInit PROVE SpiInv
  OBVIOUS
<1>1. \A i \in SpiSlots : ~spiDev[i].handle /\ ~spiDev[i].enabled /\ spiAdded[i] = 0
  BY DEF SpiInit, SpiEmpty
<1>2. spiDev \in [SpiSlots -> SpiDevice] /\ spiAdded \in [SpiSlots -> Nat]
  BY DEF SpiInit, SpiEmpty, SpiDevice
<1> QED
  BY <1>1, <1>2 DEF SpiInv, SpiBusMatches, IsBusInitialized

\* A step on the slot i, which leaves it with the record r and n devices.
LEMMA SpiSlotStep ==
    ASSUME SpiInv, NEW i \in SpiSlots, NEW r \in SpiDevice, NEW n \in Nat,
           spiDev' = [spiDev EXCEPT ![i] = r], spiAdded' = [spiAdded EXCEPT ![i] = n],
           r.enabled /\ r.handle => n > 0,
           spiBus => spiBus',
           r.handle \/ n > 0 => spiBus'
    PROVE  SpiInv'
<1>1. \A j \in SpiSlots : /\ spiDev'[j] = IF j = i THEN r ELSE spiDev[j]
                          /\ spiAdded'[j] = IF j = i THEN n ELSE spiAdded[j]
  BY DEF SpiInv
<1>2. spiDev' \in [SpiSlots -> SpiDevice] /\ spiAdded' \in [SpiSlots -> Nat]
  BY DEF SpiInv
<1>3. ASSUME NEW j \in SpiSlots
      PROVE  /\ spiDev'[j].enabled /\ spiDev'[j].handle => spiAdded'[j] > 0
             /\ spiAdded'[j] > 0 => spiBus'
             /\ spiDev'[j].handle => spiBus'
  BY <1>1 DEF SpiInv, SpiBusMatches, IsBusInitialized
<1> QED
  BY <1>2, <1>3 DEF SpiInv, SpiBusMatches, IsBusInitialized

LEMMA SpiStep == SpiInv /\ [SpiNext]_spiVars => SpiInv'
<1> SUFFICES ASSUME SpiInv, [SpiNext]_spiVars PROVE SpiInv'
  OBVIOUS
<1>t. \A i \in SpiSlots : spiDev[i] \in SpiDevice /\ spiAdded[i] \in Nat
  BY DEF SpiInv
<1>h. \A i \in SpiSlots : spiDev[i].handle \/ spiAdded[i] > 0 => spiBus
  BY DEF SpiInv, SpiBusMatches, IsBusInitialized
<1>1. CASE SpiCreateDevice
  <2>1. PICK i \in SpiSlots : i = SpiAllocDevice
    <3> DEFINE free == {i \in SpiSlots : ~spiDev[i].handle}
    <3>1. free # {} /\ free \subseteq Nat
      BY <1>1 DEF SpiCreateDevice, SpiAllocDevice, SpiSlots
    <3>2. Min(free) \in free
      BY <3>1, MinOfNaturals
    <3> QED
      BY <3>1, <3>2 DEF SpiAllocDevice
  <2> DEFINE r == [spiDev[i] EXCEPT !.spi = TRUE]
  <2>2. /\ r \in SpiDevice /\ r.handle = spiDev[i].handle /\ r.enabled = spiDev[i].enabled
    BY <1>t DEF SpiDevice
  <2>3. /\ spiDev' = [spiDev EXCEPT ![i] = r] /\ UNCHANGED <<spiAdded, spiBus>>
        /\ spiAdded' = [spiAdded EXCEPT ![i] = spiAdded[i]]
    BY <1>1, <2>1 DEF SpiCreateDevice, SpiInv
  <2>4. spiDev[i].enabled /\ spiDev[i].handle => spiAdded[i] > 0
    BY DEF SpiInv, SpiBusMatches
  <2> HIDE DEF r
  <2> QED
    BY <1>t, <1>h, <2>2, <2>3, <2>4, SpiSlotStep
<1>2. CASE SpiCreate
  BY <1>2 DEF SpiCreate, SpiInv, SpiDevice, SpiBusMatches, IsBusInitialized
<1>3. ASSUME NEW i \in SpiSlots, SpiEnable(i) PROVE SpiInv'
  <2>1. spiBus'
    BY <1>3 DEF SpiEnable
  <2>2. CASE UNCHANGED <<spiDev, spiAdded>>
    BY <2>1, <2>2 DEF SpiInv, SpiBusMatches, IsBusInitialized
  <2>3. CASE /\ spiDev' = [spiDev EXCEPT ![i].handle = TRUE, ![i].enabled = TRUE]
             /\ spiAdded' = [spiAdded EXCEPT ![i] = @ + 1]
    <3> DEFINE r == [spiDev[i] EXCEPT !.handle = TRUE, !.enabled = TRUE]
    <3>1. r \in SpiDevice
      BY <1>t DEF SpiDevice
    <3>2. spiDev' = [spiDev EXCEPT ![i] = r] /\ spiAdded' = [spiAdded EXCEPT ![i] = spiAdded[i] + 1]
      BY <2>3 DEF SpiInv
    <3>3. spiAdded[i] + 1 \in Nat /\ spiAdded[i] + 1 > 0
      BY <1>t
    <3> HIDE DEF r
    <3> QED
      BY <2>1, <3>1, <3>2, <3>3, SpiSlotStep
  <2> QED
    BY <1>3, <2>2, <2>3 DEF SpiEnable
<1>4. ASSUME NEW i \in SpiSlots, SpiDisable(i) PROVE SpiInv'
  <2> DEFINE r == [spiDev[i] EXCEPT !.enabled = FALSE]
  <2>1. r \in SpiDevice /\ r.enabled = FALSE
    BY <1>t DEF SpiDevice
  <2>2. spiDev' = [spiDev EXCEPT ![i] = r] /\ spiAdded' = [spiAdded EXCEPT ![i] = spiAdded[i] - 1]
    BY <1>4 DEF SpiDisable, SpiInv
  <2>3. spiDev[i].enabled /\ spiDev[i].handle /\ UNCHANGED spiBus
    BY <1>4 DEF SpiDisable
  <2>4. spiAdded[i] > 0 /\ spiBus
    BY <1>h, <2>3 DEF SpiInv, SpiBusMatches
  <2>5. spiAdded[i] - 1 \in Nat
    BY <1>t, <2>4
  <2> HIDE DEF r
  <2> QED
    BY <2>1, <2>2, <2>3, <2>4, <2>5, SpiSlotStep
<1>5. ASSUME NEW i \in SpiSlots, SpiDeleteDevice(i) PROVE SpiInv'
  <2>1. SpiEmpty \in SpiDevice /\ ~SpiEmpty.enabled
    BY DEF SpiEmpty, SpiDevice
  <2>2. spiDev' = [spiDev EXCEPT ![i] = SpiEmpty] /\ spiAdded' = [spiAdded EXCEPT ![i] = spiAdded[i] - 1]
    BY <1>5 DEF SpiDeleteDevice, SpiInv
  <2>3. spiDev[i].enabled /\ spiDev[i].handle /\ UNCHANGED spiBus
    BY <1>5 DEF SpiDeleteDevice
  <2>4. spiAdded[i] > 0 /\ spiBus
    BY <1>h, <2>3 DEF SpiInv, SpiBusMatches
  <2>5. spiAdded[i] - 1 \in Nat
    BY <1>t, <2>4
  <2> QED
    BY <2>1, <2>2, <2>3, <2>4, <2>5, SpiSlotStep
<1>6. ASSUME UNCHANGED spiVars PROVE SpiInv'
  BY <1>6 DEF spiVars, SpiInv, SpiBusMatches, IsBusInitialized
<1> QED
  BY <1>1, <1>2, <1>3, <1>4, <1>5, <1>6 DEF SpiNext, SpiTransfer

PwmChan == [pwm : PwmTimers \cup {NoTimer}, pin : PwmPins \cup {NoPin}, enabled : BOOLEAN]
PwmLedc == [pin : PwmPins \cup {NoPin}, timer : PwmTimers \cup {NoTimer}, duty : PwmDuties \cup {0}]

PwmInv ==
    /\ chan \in [PwmChannels -> PwmChan]
    /\ ledc \in [PwmChannels -> PwmLedc]
    /\ PwmDrivesItsPin

LEMMA PwmInitInv == PwmInit => PwmInv
<1> SUFFICES ASSUME PwmInit PROVE PwmInv
  OBVIOUS
<1>1. \A c \in PwmChannels : ~PwmOwned(c)
  BY DEF PwmInit, PwmOwned
<1> QED
  BY <1>1 DEF PwmInit, PwmInv, PwmDrivesItsPin, PwmChan, PwmLedc

\* Every call changes one channel at most, and of the excluded ones only it.
LEMMA PwmSlotStep ==
    ASSUME PwmInv, NEW c \in PwmChannels, NEW r \in PwmChan, NEW l \in PwmLedc,
           chan' = [chan EXCEPT ![c] = r], ledc' = [ledc EXCEPT ![c] = l],
           inherited \subseteq inherited' \cup {c},
           r.pwm # NoTimer /\ r.enabled /\ c \notin inherited'
             => l.pin = r.pin /\ l.timer = r.pwm
    PROVE  PwmInv'
<1>1. chan' \in [PwmChannels -> PwmChan] /\ ledc' \in [PwmChannels -> PwmLedc]
  BY DEF PwmInv
<1>2. chan'[c] = r /\ ledc'[c] = l
  BY DEF PwmInv
<1>3. \A d \in PwmChannels : d # c => chan'[d] = chan[d] /\ ledc'[d] = ledc[d]
  BY DEF PwmInv
<1>4. ASSUME NEW d \in PwmChannels, chan'[d].pwm # NoTimer, chan'[d].enabled, d \notin inherited'
      PROVE  ledc'[d].pin = chan'[d].pin /\ ledc'[d].timer = chan'[d].pwm
  <2>1. CASE d = c
    BY <1>2, <1>4, <2>1
  <2>2. CASE d # c
    BY <1>3, <1>4, <2>2 DEF PwmInv, PwmDrivesItsPin, PwmOwned
  <2> QED
    BY <2>1, <2>2
<1> QED
  BY <1>1, <1>4 DEF PwmInv, PwmDrivesItsPin, PwmOwned

LEMMA PwmStep == PwmInv /\ [PwmNext]_pwmVars => PwmInv'
<1> SUFFICES ASSUME PwmInv, [PwmNext]_pwmVars PROVE PwmInv'
  OBVIOUS
<1>t. \A c \in PwmChannels : chan[c] \in PwmChan /\ ledc[c] \in PwmLedc
  BY DEF PwmInv
<1>s. \A c \in PwmChannels : chan = [chan EXCEPT ![c] = chan[c]] /\ ledc = [ledc EXCEPT ![c] = ledc[c]]
  BY DEF PwmInv
<1>u. ASSUME UNCHANGED <<chan, ledc, inherited>> PROVE PwmInv'
  BY <1>u DEF PwmInv, PwmDrivesItsPin, PwmOwned
<1>1. ASSUME NEW t \in PwmTimers, PwmCreate(t) PROVE PwmInv'
  BY <1>1, <1>u DEF PwmCreate
<1>2. ASSUME NEW t \in PwmTimers, NEW c \in PwmChannels, NEW pin \in PwmPins, PwmCreateChannel(t, c, pin)
      PROVE  PwmInv'
  <2>1. CASE PwmOwned(c)
    BY <1>2, <1>u, <2>1 DEF PwmCreateChannel, PwmAllocChannel
  <2>2. CASE ~PwmOwned(c)
    <3> DEFINE r == [pwm |-> t, pin |-> pin, enabled |-> chan[c].enabled]
    <3>1. r \in PwmChan /\ r.enabled = chan[c].enabled
      BY <1>t DEF PwmChan
    <3>2. chan' = [chan EXCEPT ![c].pwm = t, ![c].pin = pin]
      BY <1>2, <2>2 DEF PwmCreateChannel, PwmAllocChannel
    <3>3. chan'[c] = r
      BY <1>t, <3>2 DEF PwmInv, PwmChan
    <3>4. chan' = [chan EXCEPT ![c] = r]
      BY <3>2, <3>3 DEF PwmInv
    <3>5. ledc' = [ledc EXCEPT ![c] = ledc[c]]
      BY <1>2, <1>s DEF PwmCreateChannel
    <3>6. inherited \subseteq inherited' \cup {c} /\ (chan[c].enabled => c \in inherited')
      BY <1>2, <2>2 DEF PwmCreateChannel
    <3> HIDE DEF r
    <3> QED
      BY <1>t, <3>1, <3>4, <3>5, <3>6, PwmSlotStep
  <2> QED
    BY <2>1, <2>2
<1>3. ASSUME NEW c \in PwmChannels, PwmDeleteChannel(c) PROVE PwmInv'
  <2> DEFINE r == [chan[c] EXCEPT !.pwm = NoTimer]
  <2>1. r \in PwmChan /\ r.pwm = NoTimer
    BY <1>t DEF PwmChan
  <2>2. /\ chan' = [chan EXCEPT ![c] = r] /\ ledc' = [ledc EXCEPT ![c] = ledc[c]]
        /\ inherited' = inherited
    BY <1>3, <1>s DEF PwmDeleteChannel
  <2> HIDE DEF r
  <2> QED
    BY <1>t, <2>1, <2>2, PwmSlotStep
<1>4. ASSUME NEW c \in PwmChannels, PwmEnable(c) PROVE PwmInv'
  <2> DEFINE r == [chan[c] EXCEPT !.enabled = TRUE]
             l == InitializeLedc(c)
  <2>1. r \in PwmChan /\ r.pwm = chan[c].pwm /\ r.pin = chan[c].pin
    BY <1>t DEF PwmChan
  <2>2. l \in PwmLedc /\ l.pin = chan[c].pin /\ l.timer = chan[c].pwm
    BY <1>t DEF PwmChan, PwmLedc, InitializeLedc
  <2>3. /\ chan' = [chan EXCEPT ![c] = r] /\ ledc' = [ledc EXCEPT ![c] = l]
        /\ inherited' = inherited \ {c}
    BY <1>4 DEF PwmEnable
  <2> HIDE DEF r, l
  <2> QED
    BY <2>1, <2>2, <2>3, PwmSlotStep
<1>5. ASSUME NEW c \in PwmChannels, PwmDisable(c) PROVE PwmInv'
  <2> DEFINE r == [chan[c] EXCEPT !.enabled = FALSE]
  <2>1. r \in PwmChan /\ ~r.enabled
    BY <1>t DEF PwmChan
  <2>2. /\ chan' = [chan EXCEPT ![c] = r] /\ ledc' = [ledc EXCEPT ![c] = ledc[c]]
        /\ inherited' = inherited
    BY <1>5, <1>s DEF PwmDisable
  <2> HIDE DEF r
  <2> QED
    BY <1>t, <2>1, <2>2, PwmSlotStep
<1>6. ASSUME NEW c \in PwmChannels, NEW duty \in PwmDuties, PwmUpdateDuty(c, duty) PROVE PwmInv'
  <2> DEFINE l == [ledc[c] EXCEPT !.duty = duty]
  <2>1. l \in PwmLedc /\ l.pin = ledc[c].pin /\ l.timer = ledc[c].timer
    BY <1>t DEF PwmLedc
  <2>2. /\ chan' = [chan EXCEPT ![c] = chan[c]] /\ ledc' = [ledc EXCEPT ![c] = l]
        /\ inherited' = inherited
    BY <1>6, <1>s DEF PwmUpdateDuty
  <2>3. chan[c].pwm # NoTimer /\ chan[c].enabled /\ c \notin inherited
          => ledc[c].pin = chan[c].pin /\ ledc[c].timer = chan[c].pwm
    BY DEF PwmInv, PwmDrivesItsPin, PwmOwned
  <2> HIDE DEF l
  <2> QED
    BY <1>t, <2>1, <2>2, <2>3, PwmSlotStep
<1>7. CASE UNCHANGED pwmVars
  BY <1>7, <1>u DEF pwmVars
<1> QED
  BY <1>1, <1>2, <1>3, <1>4, <1>5, <1>6, <1>7 DEF PwmNext

\* What is asked of esp_timer is never longer than what the caller meant, and
\* the same when that fits the width.
LEMMA TmrUsecBound ==
    ASSUME NEW ms \in TmrTimeouts
    PROVE  /\ TmrUsec(ms) \in Nat /\ ms * TmrThousand \in Nat
           /\ TmrUsec(ms) <= ms * TmrThousand
           /\ ms * TmrThousand < TmrRange => TmrUsec(ms) = ms * TmrThousand
<1>1. PICK x \in Nat : x = ms * TmrThousand
  BY EspAssumption
<1>2. PICK m \in Nat \ {0} : m = TmrRange
  BY EspAssumption
<1>3. x % m \in Nat /\ x % m <= x /\ (x < m => x % m = x)
  OBVIOUS
<1> QED
  BY <1>1, <1>2, <1>3 DEF TmrUsec

TmrInv ==
    /\ tmrPool \in [TmrSlots -> [used : BOOLEAN, handle : BOOLEAN, periodic : BOOLEAN]]
    /\ tmrRunning \in [TmrSlots -> Nat] /\ tmrPeriod \in [TmrSlots -> Nat]
    /\ tmrAsked \in [TmrSlots -> Nat]
    /\ tmrCreated = Cardinality({i \in TmrSlots : tmrPool[i].handle})
    /\ \A i \in TmrSlots :
          /\ tmrPool[i].handle => tmrPool[i].used
          /\ tmrRunning[i] # 0 \/ tmrPeriod[i] # 0 => tmrPool[i].handle
          /\ tmrRunning[i] <= tmrAsked[i] /\ tmrPeriod[i] <= tmrAsked[i]
          /\ tmrAsked[i] < TmrRange => tmrPeriod[i] \in {0, tmrAsked[i]}

LEMMA TmrInitInv == TmrInit => TmrInv
<1> SUFFICES ASSUME TmrInit PROVE TmrInv
  OBVIOUS
<1>1. /\ \A i \in TmrSlots : ~tmrPool[i].handle /\ tmrRunning[i] = 0 /\ tmrPeriod[i] = 0 /\ tmrAsked[i] = 0
      /\ tmrPool \in [TmrSlots -> [used : BOOLEAN, handle : BOOLEAN, periodic : BOOLEAN]]
      /\ tmrRunning \in [TmrSlots -> Nat] /\ tmrPeriod \in [TmrSlots -> Nat]
      /\ tmrAsked \in [TmrSlots -> Nat] /\ tmrCreated = 0
  BY DEF TmrInit, TmrFree
<1>2. {i \in TmrSlots : tmrPool[i].handle} = {}
  BY <1>1
<1>3. Cardinality({}) = 0
  BY FS_EmptySet
<1> QED
  BY <1>1, <1>2, <1>3 DEF TmrInv

LEMMA TmrCreateInv ==
    ASSUME TmrInv, NEW periodic \in BOOLEAN, NEW ok \in BOOLEAN, TmrCreate(periodic, ok)
    PROVE  TmrInv'
<1> DEFINE free == {i \in TmrSlots : ~tmrPool[i].used}
           held == {i \in TmrSlots : tmrPool[i].handle}
           r == [used |-> TRUE, handle |-> ok, periodic |-> periodic]
<1>1. PICK k \in free : k = TmrNew
  <2>1. free # {} /\ free \subseteq Nat
    BY DEF TmrCreate, TmrNew, TmrSlots
  <2>2. Min(free) \in free
    BY <2>1, MinOfNaturals
  <2> QED
    BY <2>1, <2>2 DEF TmrNew
<1>2. /\ tmrPool' = [tmrPool EXCEPT ![k] = r] /\ UNCHANGED <<tmrRunning, tmrPeriod, tmrAsked>>
      /\ tmrCreated' = IF ok THEN tmrCreated + 1 ELSE tmrCreated
  BY <1>1 DEF TmrCreate
<1>3. k \in TmrSlots /\ ~tmrPool[k].handle
  BY <1>1 DEF TmrInv
<1>4. \A i \in TmrSlots : tmrPool'[i] = IF i = k THEN r ELSE tmrPool[i]
  BY <1>2, <1>3 DEF TmrInv
<1>5. r.used /\ r.handle = ok /\ r \in [used : BOOLEAN, handle : BOOLEAN, periodic : BOOLEAN]
  OBVIOUS
<1> HIDE DEF r
<1>6. {i \in TmrSlots : tmrPool'[i].handle} = IF ok THEN held \cup {k} ELSE held
  BY <1>3, <1>4, <1>5
<1>7. IsFiniteSet(held)
  <2>1. IsFiniteSet(TmrSlots)
    BY EspAssumption, FS_Interval DEF TmrSlots
  <2> QED
    BY <2>1, FS_Subset
<1>8. k \notin held
  BY <1>3
<1>9. Cardinality(held \cup {k}) = Cardinality(held) + 1
  BY <1>7, <1>8, FS_AddElement
<1>10. tmrCreated' = Cardinality({i \in TmrSlots : tmrPool'[i].handle})
  BY <1>2, <1>6, <1>9 DEF TmrInv
<1>11. tmrPool' \in [TmrSlots -> [used : BOOLEAN, handle : BOOLEAN, periodic : BOOLEAN]]
  BY <1>2, <1>5 DEF TmrInv
<1> QED
  BY <1>2, <1>3, <1>4, <1>5, <1>10, <1>11 DEF TmrInv

LEMMA TmrDeleteInv ==
    ASSUME TmrInv, NEW k \in TmrSlots, TmrDelete(k)
    PROVE  TmrInv'
<1> DEFINE held == {i \in TmrSlots : tmrPool[i].handle}
<1>1. /\ tmrPool' = [tmrPool EXCEPT ![k] = TmrFree] /\ tmrPool[k].handle
      /\ tmrCreated' = tmrCreated - 1 /\ UNCHANGED tmrRunning /\ tmrRunning[k] = 0
      /\ tmrPeriod' = [tmrPeriod EXCEPT ![k] = 0] /\ tmrAsked' = [tmrAsked EXCEPT ![k] = 0]
  BY DEF TmrDelete
<1>2. ~TmrFree.handle /\ TmrFree \in [used : BOOLEAN, handle : BOOLEAN, periodic : BOOLEAN]
  BY DEF TmrFree
<1>3. \A i \in TmrSlots : /\ tmrPool'[i] = IF i = k THEN TmrFree ELSE tmrPool[i]
                          /\ tmrPeriod'[i] = IF i = k THEN 0 ELSE tmrPeriod[i]
                          /\ tmrAsked'[i] = IF i = k THEN 0 ELSE tmrAsked[i]
  BY <1>1 DEF TmrInv
<1>4. {i \in TmrSlots : tmrPool'[i].handle} = held \ {k}
  BY <1>2, <1>3
<1>5. IsFiniteSet(held)
  <2>1. IsFiniteSet(TmrSlots)
    BY EspAssumption, FS_Interval DEF TmrSlots
  <2> QED
    BY <2>1, FS_Subset
<1>6. Cardinality(held \ {k}) = Cardinality(held) - 1
  BY <1>1, <1>5, FS_RemoveElement
<1>7. tmrCreated' = Cardinality({i \in TmrSlots : tmrPool'[i].handle})
  BY <1>1, <1>4, <1>6 DEF TmrInv
<1>8. /\ tmrPool' \in [TmrSlots -> [used : BOOLEAN, handle : BOOLEAN, periodic : BOOLEAN]]
      /\ tmrPeriod' \in [TmrSlots -> Nat] /\ tmrAsked' \in [TmrSlots -> Nat]
  BY <1>1, <1>2 DEF TmrInv
<1> QED
  BY <1>1, <1>2, <1>3, <1>7, <1>8 DEF TmrInv

\* Starting and restarting: the slot k runs for u of the a that was asked for.
LEMMA TmrRunInv ==
    ASSUME TmrInv, NEW k \in TmrSlots, NEW u \in Nat, NEW a \in Nat, NEW p \in {0, u},
           tmrPool[k].handle, u <= a, a < TmrRange => u = a,
           tmrRunning' = [tmrRunning EXCEPT ![k] = u], tmrPeriod' = [tmrPeriod EXCEPT ![k] = p],
           tmrAsked' = [tmrAsked EXCEPT ![k] = a], UNCHANGED <<tmrPool, tmrCreated>>
    PROVE  TmrInv'
<1>1. \A i \in TmrSlots : /\ tmrRunning'[i] = IF i = k THEN u ELSE tmrRunning[i]
                          /\ tmrPeriod'[i] = IF i = k THEN p ELSE tmrPeriod[i]
                          /\ tmrAsked'[i] = IF i = k THEN a ELSE tmrAsked[i]
  BY DEF TmrInv
<1>2. /\ tmrRunning' \in [TmrSlots -> Nat] /\ tmrPeriod' \in [TmrSlots -> Nat]
      /\ tmrAsked' \in [TmrSlots -> Nat]
  BY DEF TmrInv
<1>3. ASSUME NEW i \in TmrSlots
      PROVE  /\ tmrRunning'[i] # 0 \/ tmrPeriod'[i] # 0 => tmrPool'[i].handle
             /\ tmrRunning'[i] <= tmrAsked'[i] /\ tmrPeriod'[i] <= tmrAsked'[i]
             /\ tmrAsked'[i] < TmrRange => tmrPeriod'[i] \in {0, tmrAsked'[i]}
  <2>1. CASE i = k
    BY <1>1, <2>1
  <2>2. CASE i # k
    BY <1>1, <2>2 DEF TmrInv
  <2> QED
    BY <2>1, <2>2
<1> QED
  BY <1>2, <1>3 DEF TmrInv

LEMMA TmrStep == TmrInv /\ [TmrNext]_tmrVars => TmrInv'
<1> SUFFICES ASSUME TmrInv, [TmrNext]_tmrVars PROVE TmrInv'
  OBVIOUS
<1>1. ASSUME NEW k \in TmrSlots, NEW ms \in TmrTimeouts, TmrStart(k, ms) PROVE TmrInv'
  <2>1. PICK p \in {0, TmrUsec(ms)} : p = IF tmrPool[k].periodic THEN TmrUsec(ms) ELSE 0
    OBVIOUS
  <2> QED
    BY <1>1, <2>1, TmrUsecBound, TmrRunInv DEF TmrStart
<1>2. ASSUME NEW k \in TmrSlots, NEW ms \in TmrTimeouts, TmrRestart(k, ms) PROVE TmrInv'
  <2>1. PICK p \in {0, TmrUsec(ms)} : p = IF tmrPeriod[k] = 0 THEN 0 ELSE TmrUsec(ms)
    OBVIOUS
  <2>2. tmrPeriod' = [tmrPeriod EXCEPT ![k] = p]
    BY <1>2, <2>1 DEF TmrRestart, TmrInv
  <2> QED
    BY <1>2, <2>1, <2>2, TmrUsecBound, TmrRunInv DEF TmrRestart
<1>3. ASSUME NEW k \in TmrSlots, TmrStop(k) \/ TmrTrigger(k) PROVE TmrInv'
  <2>1. /\ \A i \in TmrSlots : tmrRunning'[i] \in {0, tmrRunning[i]}
        /\ tmrRunning' \in [TmrSlots -> Nat]
        /\ UNCHANGED <<tmrPool, tmrCreated, tmrPeriod, tmrAsked>>
    BY <1>3 DEF TmrStop, TmrTrigger, TmrInv
  <2> QED
    BY <2>1 DEF TmrInv
<1>4. CASE TmrElapse
  <2>1. /\ \A i \in TmrSlots : \/ tmrRunning'[i] = tmrPeriod[i]
                               \/ tmrRunning[i] = 0 /\ tmrRunning'[i] = 0
                               \/ tmrRunning[i] # 0 /\ tmrRunning'[i] = tmrRunning[i] - 1
        /\ UNCHANGED <<tmrPool, tmrCreated, tmrPeriod, tmrAsked>>
        /\ tmrRunning' = [i \in TmrSlots |-> tmrRunning'[i]]
    BY <1>4 DEF TmrElapse
  <2>2. \A i \in TmrSlots : tmrRunning[i] \in Nat /\ tmrPeriod[i] \in Nat /\ tmrAsked[i] \in Nat
    BY DEF TmrInv
  <2>3. \A i \in TmrSlots : tmrRunning'[i] \in Nat
    BY <2>1, <2>2
  <2>4. tmrRunning' \in [TmrSlots -> Nat]
    BY <2>1, <2>3
  <2>5. ASSUME NEW i \in TmrSlots
        PROVE  /\ tmrRunning'[i] # 0 => tmrPool[i].handle
               /\ tmrRunning'[i] <= tmrAsked[i]
    BY <2>1, <2>2 DEF TmrInv
  <2> QED
    BY <2>1, <2>4, <2>5 DEF TmrInv
<1>5. CASE UNCHANGED tmrVars
  BY <1>5 DEF tmrVars, TmrInv
<1> QED
  BY <1>1, <1>2, <1>3, <1>4, <1>5, TmrCreateInv, TmrDeleteInv DEF TmrNext

EspInv == UartInv /\ I2cInv /\ SpiInv /\ PwmInv /\ TmrInv

LEMMA EspStep == EspInv /\ [EspNext]_espVars => EspInv'
<1> SUFFICES ASSUME EspInv, [EspNext]_espVars
             PROVE  /\ [UartNext]_uartVars /\ [I2cNext]_i2cVars /\ [SpiNext]_spiVars
                    /\ [PwmNext]_pwmVars /\ [TmrNext]_tmrVars
  BY UartStep, I2cStep, SpiStep, PwmStep, TmrStep DEF EspInv
<1> QED
  BY DEF EspNext, espVars

\* The records of every driver agree with its peripheral for any number of
\* channels, devices, tasks and timers and whichever vendor call fails (uart.c,
\* i2c.c, spi.c, pwm.c and apptmr.c of ports/esp-idf).
THEOREM DriversFollowHardware == EspSpec => []DriversMatchHardware
<1>1. EspInit => EspInv
  BY UartInitInv, I2cInitInv, SpiInitInv, PwmInitInv, TmrInitInv DEF EspInit, EspInv
<1>2. EspInv => DriversMatchHardware
  <2>1. TmrInv => ApptmrExact
    BY DEF TmrInv, ApptmrExact
  <2> QED
    BY <2>1 DEF EspInv, DriversMatchHardware, UartInv, I2cInv, SpiInv, PwmInv
<1> QED
  BY <1>1, <1>2, EspStep, PTL DEF EspSpec

-----------------------------------------------------------------------------
(* The Wi-Fi driver's picture of the link, for any number of callbacks and *)
(* of events that are not yet delivered.                                   *)

WifiEvents == {"start", "stop", "disconnected", "got_ip", "scan_done"}

\* What the queue will have told the driver once it is delivered: that the link
\* is down, that it is up, or nothing about it.
EndsDown(q) ==
    \E k \in DOMAIN q : q[k] = "disconnected" /\ \A j \in DOMAIN q : j > k => q[j] # "got_ip"
EndsUp(q) ==
    \E k \in DOMAIN q : q[k] = "got_ip" /\ \A j \in DOMAIN q : j > k => q[j] = "scan_done"
NeverUp(q) == \A j \in DOMAIN q : q[j] # "got_ip"
Quiet(q) == \A j \in DOMAIN q : q[j] = "scan_done"

LEMMA QueueAppend ==
    ASSUME NEW q \in Seq(WifiEvents), NEW e \in WifiEvents
    PROVE  LET r == q \o <<e>> IN
           /\ r \in Seq(WifiEvents)
           /\ e = "disconnected" => EndsDown(r)
           /\ e # "got_ip" /\ EndsDown(q) => EndsDown(r)
           /\ e # "got_ip" /\ NeverUp(q) => NeverUp(r)
           /\ e = "got_ip" => EndsUp(r)
           /\ e = "scan_done" /\ EndsUp(q) => EndsUp(r)
           /\ e = "scan_done" /\ Quiet(q) => Quiet(r)
           /\ e # "scan_done" \/ ~Quiet(q) => ~Quiet(r)
<1>1. PICK n \in Nat : n = Len(q)
  OBVIOUS
<1>0. q \o <<e>> \in Seq(WifiEvents)
  OBVIOUS
<1>2. PICK r \in Seq(WifiEvents) : r = q \o <<e>>
  BY <1>0
<1>3. /\ DOMAIN q = 1..n /\ DOMAIN r = 1..(n + 1)
      /\ r[n + 1] = e /\ \A i \in 1..n : r[i] = q[i]
  BY <1>1, <1>2
<1>4. /\ n + 1 \in 1..(n + 1) /\ \A j \in 1..(n + 1) : ~(j > n + 1)
      /\ \A j \in 1..(n + 1) : j \in 1..n \/ j = n + 1
      /\ \A k \in 1..n : n + 1 > k /\ k \in 1..(n + 1)
  BY <1>1
<1>5. /\ e = "disconnected" => EndsDown(r)
      /\ e # "got_ip" /\ EndsDown(q) => EndsDown(r)
  BY <1>3, <1>4 DEF EndsDown
<1>6. /\ e = "got_ip" => EndsUp(r)
      /\ e = "scan_done" /\ EndsUp(q) => EndsUp(r)
  BY <1>3, <1>4 DEF EndsUp
<1>7. /\ e # "got_ip" /\ NeverUp(q) => NeverUp(r)
      /\ e = "scan_done" /\ Quiet(q) => Quiet(r)
      /\ e # "scan_done" \/ ~Quiet(q) => ~Quiet(r)
  BY <1>3, <1>4 DEF NeverUp, Quiet
<1> QED
  BY <1>2, <1>5, <1>6, <1>7

LEMMA QueueAppendStop ==
    ASSUME NEW q \in Seq(WifiEvents)
    PROVE  LET r == q \o <<"disconnected", "stop">> IN
           r \in Seq(WifiEvents) /\ EndsDown(r) /\ ~Quiet(r)
<1>1. PICK n \in Nat : n = Len(q)
  OBVIOUS
<1>0. <<"disconnected", "stop">> \in Seq(WifiEvents)
  BY DEF WifiEvents
<1>p. q \o <<"disconnected", "stop">> \in Seq(WifiEvents)
  BY <1>0
<1>2. PICK r \in Seq(WifiEvents) : r = q \o <<"disconnected", "stop">>
  BY <1>p
<1>3. DOMAIN r = 1..(n + 2) /\ r[n + 1] = "disconnected" /\ r[n + 2] = "stop"
  BY <1>1, <1>2
<1>4. n + 1 \in 1..(n + 2) /\ \A j \in 1..(n + 2) : j > n + 1 => j = n + 2
  BY <1>1
<1>5. EndsDown(r)
  BY <1>3, <1>4 DEF EndsDown
<1>6. ~Quiet(r)
  BY <1>3, <1>4 DEF Quiet
<1> QED
  BY <1>2, <1>5, <1>6

LEMMA QueueTail ==
    ASSUME NEW q \in Seq(WifiEvents), q # <<>>
    PROVE  /\ Tail(q) \in Seq(WifiEvents) /\ Head(q) \in WifiEvents
           /\ EndsDown(q) => EndsDown(Tail(q)) \/ (Head(q) = "disconnected" /\ NeverUp(Tail(q)))
           /\ NeverUp(q) => NeverUp(Tail(q)) /\ Head(q) # "got_ip"
           /\ EndsUp(q) => EndsUp(Tail(q)) \/ (Head(q) = "got_ip" /\ Quiet(Tail(q)))
           /\ Quiet(q) => Quiet(Tail(q)) /\ Head(q) = "scan_done"
           /\ Head(q) = "scan_done" /\ ~Quiet(q) => ~Quiet(Tail(q))
<1>1. PICK n \in Nat : n + 1 = Len(q)
  OBVIOUS
<1>0. Tail(q) \in Seq(WifiEvents)
  OBVIOUS
<1>2. PICK r \in Seq(WifiEvents) : r = Tail(q)
  BY <1>0
<1>3. /\ DOMAIN q = 1..(n + 1) /\ DOMAIN r = 1..n /\ Head(q) = q[1] /\ Head(q) \in WifiEvents
      /\ \A i \in 1..n : r[i] = q[i + 1]
  BY <1>1, <1>2
<1>4. /\ \A i \in 1..n : i + 1 \in 1..(n + 1) /\ i + 1 > 1
      /\ \A i, k \in 1..n : i > k => i + 1 > k + 1
      /\ 1 \in 1..(n + 1)
  BY <1>1
<1>5. \A k \in 1..(n + 1) : k = 1 \/ \E i \in 1..n : k = i + 1
  <2> SUFFICES ASSUME NEW k \in 1..(n + 1), k # 1 PROVE \E i \in 1..n : k = i + 1
    OBVIOUS
  <2>1. k - 1 \in 1..n /\ k = (k - 1) + 1
    BY <1>1
  <2> QED
    BY <2>1
<1>6. EndsDown(q) => EndsDown(r) \/ (q[1] = "disconnected" /\ NeverUp(r))
  <2> SUFFICES ASSUME NEW k \in 1..(n + 1), q[k] = "disconnected",
                      \A j \in 1..(n + 1) : j > k => q[j] # "got_ip"
               PROVE  EndsDown(r) \/ (q[1] = "disconnected" /\ NeverUp(r))
    BY <1>3 DEF EndsDown
  <2>1. CASE k = 1
    BY <1>3, <1>4, <2>1 DEF NeverUp
  <2>2. ASSUME NEW i \in 1..n, k = i + 1 PROVE EndsDown(r)
    <3>1. \A j \in 1..n : j > i => r[j] # "got_ip"
      BY <1>3, <1>4, <2>2
    <3>2. r[i] = "disconnected"
      BY <1>3, <2>2
    <3> QED
      BY <1>3, <3>1, <3>2 DEF EndsDown
  <2> QED
    BY <1>5, <2>1, <2>2
<1>7. EndsUp(q) => EndsUp(r) \/ (q[1] = "got_ip" /\ Quiet(r))
  <2> SUFFICES ASSUME NEW k \in 1..(n + 1), q[k] = "got_ip",
                      \A j \in 1..(n + 1) : j > k => q[j] = "scan_done"
               PROVE  EndsUp(r) \/ (q[1] = "got_ip" /\ Quiet(r))
    BY <1>3 DEF EndsUp
  <2>1. CASE k = 1
    BY <1>3, <1>4, <2>1 DEF Quiet
  <2>2. ASSUME NEW i \in 1..n, k = i + 1 PROVE EndsUp(r)
    <3>1. \A j \in 1..n : j > i => r[j] = "scan_done"
      BY <1>3, <1>4, <2>2
    <3>2. r[i] = "got_ip"
      BY <1>3, <2>2
    <3> QED
      BY <1>3, <3>1, <3>2 DEF EndsUp
  <2> QED
    BY <1>5, <2>1, <2>2
<1>8. /\ NeverUp(q) => NeverUp(r) /\ q[1] # "got_ip"
      /\ Quiet(q) => Quiet(r) /\ q[1] = "scan_done"
  BY <1>3, <1>4 DEF NeverUp, Quiet
<1>9. q[1] = "scan_done" /\ Quiet(r) => Quiet(q)
  <2> SUFFICES ASSUME q[1] = "scan_done", Quiet(r), NEW k \in 1..(n + 1) PROVE q[k] = "scan_done"
    BY <1>3 DEF Quiet
  <2>1. ASSUME NEW i \in 1..n, k = i + 1 PROVE q[k] = "scan_done"
    BY <1>3, <2>1 DEF Quiet
  <2> QED
    BY <1>5, <2>1
<1> QED
  BY <1>2, <1>3, <1>6, <1>7, <1>8, <1>9

WifiTypeOK ==
    /\ posted \in Seq(WifiEvents)
    /\ wifiTold \in Seq({"none", "connected", "disconnected"})
    /\ callbacks \in Seq({"any", "connected"}) /\ Len(callbacks) = Len(wifiTold)
    /\ {ip, refused, overtaken, abandoned} \subseteq BOOLEAN

\* The station is up only while the radio runs, and nothing happens before the
\* handlers are registered; between its test and its write connect_wifi does not
\* find another attempt, since one task makes the calls.
WifiStation ==
    /\ wifiLink \in {"down", "trying", "up"}
    /\ wifiLink # "down" => radio = "started"
    /\ handlers \/ (posted = <<>> /\ wifiState = "unknown" /\ radio = "off" /\ wpc = "idle")
    /\ wpc = "config" => wifiState # "connecting"

\* The driver is sure to know of a link that is up, or down, once its queue is
\* delivered.
SeenUp == wifiState = "connected" \/ (wifiState = "connecting" /\ overtaken)

KnowsUp == EndsUp(posted) \/ (Quiet(posted) /\ ip /\ (abandoned \/ SeenUp))

Clean ==
    /\ ip = FALSE /\ wifiState # "connected" /\ overtaken = FALSE
    /\ \A i \in DOMAIN wifiTold : callbacks[i] = "any" => wifiTold[i] # "connected"

KnowsDown == EndsDown(posted) \/ (NeverUp(posted) /\ Clean)

KnowsAttempt ==
    wifiState = "connecting" /\ ~refused /\ ~abandoned /\ wpc # "attempt" =>
        wifiLink = "trying" \/ ~Quiet(posted) \/ overtaken

WifiInv ==
    /\ WifiTypeOK /\ WifiStation /\ KnowsAttempt
    /\ wifiLink = "up" => KnowsUp
    /\ wifiLink # "up" => KnowsDown

LEMMA WifiInvImplies == WifiInv => LinkKnown
<1> SUFFICES ASSUME WifiInv, posted = <<>> PROVE LinkKnown
  BY DEF LinkKnown
<1>1. ~EndsUp(posted) /\ ~EndsDown(posted) /\ Quiet(posted)
  BY DEF EndsUp, EndsDown, Quiet
<1>2. CASE wifiLink = "up"
  <2>1. ip /\ (abandoned \/ SeenUp)
    BY <1>1, <1>2 DEF WifiInv, KnowsUp
  <2>2. abandoned \/ StateFollowsLink
    BY <1>1, <1>2, <2>1 DEF WifiInv, SeenUp, StateFollowsLink, KnowsAttempt
  <2> QED
    BY <1>2, <2>1, <2>2 DEF LinkKnown
<1>3. CASE wifiLink # "up"
  <2>1. Clean
    BY <1>1, <1>3 DEF WifiInv, KnowsDown
  <2>2. abandoned \/ StateFollowsLink
    BY <1>1, <1>3, <2>1 DEF WifiInv, Clean, KnowsAttempt, StateFollowsLink
  <2> QED
    BY <1>3, <2>1, <2>2 DEF Clean, LinkKnown
<1> QED
  BY <1>2, <1>3

LEMMA WifiInitInv == WifiInit => WifiInv
<1> SUFFICES ASSUME WifiInit PROVE WifiInv
  OBVIOUS
<1>1. posted \in Seq(WifiEvents) /\ wifiTold \in Seq({"none", "connected", "disconnected"})
      /\ callbacks \in Seq({"any", "connected"}) /\ Len(callbacks) = Len(wifiTold)
  BY DEF WifiInit
<1>2. NeverUp(posted) /\ DOMAIN wifiTold = {}
  BY DEF WifiInit, NeverUp
<1>3. wifiState = "unknown" /\ wifiLink = "down" /\ radio = "off" /\ posted = <<>> /\ wpc = "idle"
  BY DEF WifiInit
<1>4. ip = FALSE /\ refused = FALSE /\ overtaken = FALSE /\ abandoned = FALSE
  BY DEF WifiInit
<1> QED
  BY <1>1, <1>2, <1>3, <1>4 DEF WifiInv, WifiTypeOK, WifiStation, KnowsAttempt, KnowsDown, Clean

LEMMA DeliverInv == WifiInv /\ Deliver => WifiInv'
<1> SUFFICES ASSUME WifiInv, Deliver PROVE WifiInv'
  OBVIOUS
<1>1. PICK e \in WifiEvents : e = Head(posted)
  BY QueueTail DEF WifiInv, WifiTypeOK, Deliver
<1>2. /\ posted' = Tail(posted) /\ posted # <<>> /\ posted \in Seq(WifiEvents)
      /\ UNCHANGED <<callbacks, handlers, radio, wifiLink, wpc, abandoned>>
      /\ refused' = (refused /\ wifiState' = "connecting")
      /\ overtaken' = (overtaken /\ wifiState' = "connecting")
      /\ handlers
  BY DEF WifiInv, WifiTypeOK, WifiStation, Deliver
<1>3. OnWifiEvents(e) \/ OnIpEvents(e)
  BY <1>1, <1>2 DEF Deliver
<1>4. /\ posted' \in Seq(WifiEvents)
      /\ EndsDown(posted) => EndsDown(posted') \/ (e = "disconnected" /\ NeverUp(posted'))
      /\ NeverUp(posted) => NeverUp(posted') /\ e # "got_ip"
      /\ EndsUp(posted) => EndsUp(posted') \/ (e = "got_ip" /\ Quiet(posted'))
      /\ Quiet(posted) => Quiet(posted') /\ e = "scan_done"
      /\ e = "scan_done" /\ ~Quiet(posted) => ~Quiet(posted')
  BY <1>1, <1>2, QueueTail
<1>5. /\ \/ e \in {"start", "stop"} /\ wifiState' \in {"started", "stopped"} /\ UNCHANGED <<ip, wifiTold>>
         \/ e = "disconnected" /\ wifiState' = "started" /\ ip' = FALSE /\ RaiseEvent("disconnected")
         \/ e = "scan_done" /\ UNCHANGED <<wifiState, ip, wifiTold>>
         \/ e = "got_ip" /\ wifiState' = "connected" /\ ip' = TRUE /\ RaiseEvent("connected")
  BY <1>3 DEF OnWifiEvents, OnIpEvents, OnDisconnected, HandleConnected, HandleScanDone
<1>6. /\ wifiTold' \in Seq({"none", "connected", "disconnected"}) /\ Len(wifiTold') = Len(wifiTold)
      /\ e = "disconnected" => \A i \in DOMAIN wifiTold' : callbacks[i] = "any" => wifiTold'[i] # "connected"
  <2>1. CASE UNCHANGED wifiTold
    BY <1>5, <2>1 DEF WifiInv, WifiTypeOK, RaiseEvent
  <2>2. ASSUME NEW c \in {"connected", "disconnected"}, RaiseEvent(c)
        PROVE  /\ wifiTold' \in Seq({"none", "connected", "disconnected"}) /\ Len(wifiTold') = Len(wifiTold)
               /\ c = "disconnected" => \A i \in DOMAIN wifiTold' : callbacks[i] = "any" => wifiTold'[i] # "connected"
    <3>1. PICK n \in Nat : n = Len(wifiTold) /\ DOMAIN wifiTold = 1..n
      BY DEF WifiInv, WifiTypeOK
    <3>2. \A i \in 1..n : wifiTold[i] \in {"none", "connected", "disconnected"}
      BY <3>1 DEF WifiInv, WifiTypeOK
    <3>3. wifiTold' = [i \in 1..n |-> IF callbacks[i] \in {c, "any"} THEN c ELSE wifiTold[i]]
      BY <2>2, <3>1 DEF RaiseEvent
    <3>4. wifiTold' \in Seq({"none", "connected", "disconnected"}) /\ Len(wifiTold') = n /\ DOMAIN wifiTold' = 1..n
      BY <3>1, <3>2, <3>3
    <3>5. c = "disconnected" => \A i \in 1..n : callbacks[i] = "any" => wifiTold'[i] # "connected"
      BY <3>3
    <3> QED
      BY <3>1, <3>4, <3>5
  <2> QED
    BY <1>5, <2>1, <2>2
<1>7. WifiTypeOK'
  BY <1>2, <1>4, <1>5, <1>6 DEF WifiInv, WifiTypeOK
<1>8. WifiStation' /\ KnowsAttempt'
  BY <1>2, <1>4, <1>5 DEF WifiInv, WifiStation, KnowsAttempt
<1>9. CASE wifiLink = "up"
  <2>1. KnowsUp
    BY <1>9 DEF WifiInv
  <2>2. CASE EndsUp(posted)
    BY <1>2, <1>4, <1>5, <1>8, <1>9, <2>2, <1>7 DEF KnowsUp, SeenUp, WifiInv
  <2>3. CASE Quiet(posted) /\ ip /\ (abandoned \/ SeenUp)
    BY <1>2, <1>4, <1>5, <1>8, <1>9, <2>3, <1>7 DEF KnowsUp, SeenUp, WifiInv
  <2> QED
    BY <2>1, <2>2, <2>3 DEF KnowsUp
<1>10. CASE wifiLink # "up"
  <2>1. KnowsDown
    BY <1>10 DEF WifiInv
  <2>2. CASE EndsDown(posted)
    <3>1. EndsDown(posted') \/ (NeverUp(posted') /\ Clean')
      BY <1>2, <1>4, <1>5, <1>6, <2>2 DEF Clean
    <3> QED
      BY <1>2, <1>7, <1>8, <1>10, <3>1 DEF WifiInv, KnowsDown
  <2>3. CASE NeverUp(posted) /\ Clean
    <3>1. e # "got_ip" /\ NeverUp(posted')
      BY <1>4, <2>3
    <3>2. Clean'
      BY <1>2, <1>5, <1>6, <2>3, <3>1 DEF Clean
    <3> QED
      BY <1>2, <1>7, <1>8, <1>10, <3>1, <3>2 DEF WifiInv, KnowsDown
  <2> QED
    BY <2>1, <2>2, <2>3 DEF KnowsDown
<1> QED
  BY <1>9, <1>10

\* A step that posts one event, e, and leaves the driver as it was.
LEMMA PostInv ==
    ASSUME WifiInv, NEW e \in WifiEvents, posted' = posted \o <<e>>, UNCHANGED wifiDriver,
           WifiStation',
           \/ e = "got_ip" /\ wifiLink' = "up"
           \/ e = "disconnected" /\ wifiLink' = "down"
           \/ e = "scan_done" /\ UNCHANGED wifiLink
           \/ e \in {"start", "stop"} /\ wifiLink = "down" /\ UNCHANGED wifiLink
    PROVE  WifiInv'
<1>1. /\ posted' \in Seq(WifiEvents)
      /\ e = "disconnected" => EndsDown(posted')
      /\ e # "got_ip" /\ EndsDown(posted) => EndsDown(posted')
      /\ e # "got_ip" /\ NeverUp(posted) => NeverUp(posted')
      /\ e = "got_ip" => EndsUp(posted')
      /\ e = "scan_done" /\ EndsUp(posted) => EndsUp(posted')
      /\ e = "scan_done" /\ Quiet(posted) => Quiet(posted')
      /\ e # "scan_done" \/ ~Quiet(posted) => ~Quiet(posted')
  BY QueueAppend DEF WifiInv, WifiTypeOK
<1>2. UNCHANGED <<wifiState, ip, callbacks, wifiTold, handlers, wpc, refused, overtaken, abandoned>>
  BY DEF wifiDriver, wifiConn
<1>3. WifiTypeOK'
  BY <1>1, <1>2 DEF WifiInv, WifiTypeOK
<1>4. KnowsAttempt'
  BY <1>1, <1>2 DEF WifiInv, KnowsAttempt
<1>5. UNCHANGED Clean
  BY <1>2 DEF Clean
<1>6. wifiLink' = "up" => KnowsUp'
  BY <1>1, <1>2 DEF WifiInv, KnowsUp, SeenUp
<1>7. wifiLink' # "up" => KnowsDown'
  BY <1>1, <1>5 DEF WifiInv, KnowsDown
<1> QED
  BY <1>3, <1>4, <1>6, <1>7 DEF WifiInv

\* A step of the application that changes neither the queue nor what the driver
\* knows of the link, unless it abandons it.
LEMMA WifiCallInv ==
    ASSUME WifiInv, WifiStation', WifiTypeOK', KnowsAttempt',
           UNCHANGED <<posted, ip>>,
           wifiLink' = "up" <=> wifiLink = "up",
           abandoned => abandoned',
           UNCHANGED <<callbacks, wifiTold>>,
           wifiState' # "connected" \/ UNCHANGED wifiState,
           overtaken' = FALSE \/ UNCHANGED overtaken \/ wifiState = "connected",
           wifiLink = "up" => abandoned' \/ SeenUp' \/ ~SeenUp
    PROVE  WifiInv'
<1>1. wifiLink' = "up" => KnowsUp'
  BY DEF WifiInv, KnowsUp
<1>2. Clean => Clean'
  BY DEF Clean
<1>3. wifiLink' # "up" => KnowsDown'
  BY <1>2 DEF WifiInv, KnowsDown
<1> QED
  BY <1>1, <1>3 DEF WifiInv

LEMMA WifiStep == WifiInv /\ [WifiNext]_wifiVars => WifiInv'
<1> SUFFICES ASSUME WifiInv, [WifiNext]_wifiVars PROVE WifiInv'
  OBVIOUS
<1>s. WifiStation /\ WifiTypeOK /\ KnowsAttempt
  BY DEF WifiInv
<1>e. /\ "got_ip" \in WifiEvents /\ "disconnected" \in WifiEvents /\ "scan_done" \in WifiEvents
      /\ "start" \in WifiEvents /\ "stop" \in WifiEvents
  BY DEF WifiEvents
<1>1. CASE Station
  <2>1. CASE wifiLink = "trying" /\ wifiLink' = "up" /\ Post(<<"got_ip">>)
    <3>1. posted' = posted \o <<"got_ip">> /\ UNCHANGED wifiDriver /\ UNCHANGED radio
      BY <1>1, <2>1 DEF Station, Post
    <3>2. WifiStation'
      BY <1>s, <2>1, <3>1 DEF WifiStation, wifiDriver, wifiConn
    <3>3. PICK e \in WifiEvents : e = "got_ip" /\ posted' = posted \o <<e>>
      BY <1>e, <3>1
    <3> QED
      BY <2>1, <3>1, <3>2, <3>3, PostInv
  <2>2. CASE wifiLink # "down" /\ wifiLink' = "down" /\ Post(<<"disconnected">>)
    <3>1. posted' = posted \o <<"disconnected">> /\ UNCHANGED wifiDriver /\ UNCHANGED radio
      BY <1>1, <2>2 DEF Station, Post
    <3>2. WifiStation'
      BY <1>s, <2>2, <3>1 DEF WifiStation, wifiDriver, wifiConn
    <3>3. PICK e \in WifiEvents : e = "disconnected" /\ posted' = posted \o <<e>>
      BY <1>e, <3>1
    <3> QED
      BY <2>2, <3>1, <3>2, <3>3, PostInv
  <2> QED
    BY <1>1, <2>1, <2>2 DEF Station
<1>2. CASE WifiDisconnect
  <2>1. /\ wifiLink # "down" /\ wifiLink' = "down" /\ posted' = posted \o <<"disconnected">>
        /\ UNCHANGED wifiDriver /\ UNCHANGED radio
    BY <1>2 DEF WifiDisconnect, Post
  <2>2. WifiStation'
    BY <1>s, <2>1 DEF WifiStation, wifiDriver, wifiConn
  <2>3. PICK e \in WifiEvents : e = "disconnected" /\ posted' = posted \o <<e>>
    BY <1>e, <2>1
  <2> QED
    BY <2>1, <2>2, <2>3, PostInv
<1>3. CASE WifiScan
  <2>1. /\ wifiState # "unknown" /\ posted' = posted \o <<"scan_done">>
        /\ UNCHANGED wifiDriver /\ UNCHANGED <<radio, wifiLink>>
    BY <1>3 DEF WifiScan, Post
  <2>2. WifiStation'
    BY <1>s, <2>1 DEF WifiStation, wifiDriver, wifiConn
  <2>3. PICK e \in WifiEvents : e = "scan_done" /\ posted' = posted \o <<e>>
    BY <1>e, <2>1
  <2> QED
    BY <2>1, <2>2, <2>3, PostInv
<1>4. CASE WifiEnable
  <2>1. /\ wifiState # "unknown" /\ radio = "init" /\ radio' = "started"
        /\ posted' = posted \o <<"start">> /\ UNCHANGED <<wifiDriver, wifiLink>>
    BY <1>4 DEF WifiEnable, Post
  <2>2. WifiStation' /\ wifiLink = "down"
    BY <1>s, <2>1 DEF WifiStation, wifiDriver, wifiConn
  <2> QED
    BY <1>e, <2>1, <2>2, PostInv
<1>5. CASE WifiDisable
  <2>1. /\ wifiState # "unknown" /\ radio' = "init" /\ wifiLink' = "down" /\ UNCHANGED wifiDriver
        /\ wifiLink = "down" => posted' = posted \o <<"stop">>
        /\ wifiLink # "down" => posted' = posted \o <<"disconnected", "stop">>
    BY <1>5 DEF WifiDisable, Post
  <2>2. WifiStation'
    BY <1>s, <2>1 DEF WifiStation, wifiDriver, wifiConn
  <2>3. CASE wifiLink = "down"
    BY <2>1, <2>2, <2>3, PostInv DEF WifiEvents
  <2>4. CASE wifiLink # "down"
    <3>1. posted' \in Seq(WifiEvents) /\ EndsDown(posted') /\ ~Quiet(posted')
      BY <1>s, <2>1, <2>4, QueueAppendStop DEF WifiTypeOK
    <3>2. WifiTypeOK'
      BY <1>s, <2>1, <3>1 DEF WifiTypeOK, wifiDriver, wifiConn
    <3> QED
      BY <2>1, <2>2, <3>1, <3>2 DEF WifiInv, KnowsAttempt, KnowsDown
  <2> QED
    BY <2>3, <2>4
<1>6. CASE CreateOk
  <2>1. /\ UNCHANGED <<ip, callbacks, wifiTold, wifiLink, posted, wpc, refused, overtaken, abandoned>>
        /\ wifiState = "unknown" /\ wifiState' = "starting" /\ handlers'
        /\ radio = "started" => radio' = "started"
    BY <1>6 DEF CreateOk, wifiConn
  <2>2. WifiStation' /\ WifiTypeOK' /\ KnowsAttempt'
    BY <1>s, <2>1 DEF WifiStation, WifiTypeOK, KnowsAttempt
  <2>3. ~SeenUp
    BY <2>1 DEF SeenUp
  <2> QED
    BY <2>1, <2>2, <2>3, WifiCallInv
<1>7. CASE CreateFail
  <2>1. /\ UNCHANGED <<wifiState, ip, callbacks, wifiTold, wifiLink, posted, wpc, refused, overtaken, abandoned>>
        /\ radio = "started" => radio' = "started"
        /\ radio # "started" => radio' = "off"
    BY <1>7 DEF CreateFail, Deinitialize, wifiConn
  <2>3. handlers => handlers'
    BY <1>7, Zenon DEF CreateFail
  <2>2. WifiStation' /\ WifiTypeOK' /\ KnowsAttempt'
    BY <1>s, <2>1, <2>3 DEF WifiStation, WifiTypeOK, KnowsAttempt
  <2>4. SeenUp' = SeenUp
    BY <2>1 DEF SeenUp
  <2> QED
    BY <2>1, <2>2, <2>4, WifiCallInv
<1>8. CASE WifiDelete
  <2>1. /\ UNCHANGED <<ip, callbacks, wifiTold, handlers, wifiLink, posted, wpc, refused, overtaken>>
        /\ wifiState # "unknown" /\ wifiState' = "unknown"
        /\ radio = "started" => radio' = "started"
        /\ abandoned \/ radio = "started" => abandoned'
        /\ abandoned' \in BOOLEAN
    BY <1>8 DEF WifiDelete, Deinitialize, wifiConn
  <2>2. WifiStation' /\ WifiTypeOK' /\ KnowsAttempt'
    BY <1>s, <2>1 DEF WifiStation, WifiTypeOK, KnowsAttempt
  <2>3. wifiLink = "up" => abandoned'
    BY <1>s, <2>1 DEF WifiStation
  <2> QED
    BY <2>1, <2>2, <2>3, WifiCallInv
<1>9. CASE WifiConnect
  <2>1. UNCHANGED <<wifiState, ip, callbacks, wifiTold, handlers, radio, wifiLink, posted, refused, overtaken, abandoned>>
    BY <1>9 DEF WifiConnect
  <2>2. wpc = "idle" /\ wpc' = "config" /\ wifiState \notin {"unknown", "connecting"}
    BY <1>9 DEF WifiConnect
  <2>3. WifiStation' /\ WifiTypeOK' /\ KnowsAttempt' /\ SeenUp' = SeenUp
    BY <1>s, <2>1, <2>2 DEF WifiStation, WifiTypeOK, KnowsAttempt, SeenUp
  <2> QED
    BY <2>1, <2>3, WifiCallInv
<1>12. CASE WifiConfigure
  <2>1. UNCHANGED <<ip, callbacks, wifiTold, handlers, radio, wifiLink, posted, abandoned>>
    BY <1>12 DEF WifiConfigure
  <2>2. ASSUME wifiState' = "connecting", wpc' = "attempt", refused' = FALSE, NEW b \in BOOLEAN,
               overtaken' = b, b => wifiState = "connected", ~b => wifiState # "connected"
        PROVE  WifiInv'
    <3>h. wpc = "config" /\ handlers /\ wifiState # "connecting"
      BY <1>s, <1>12 DEF WifiConfigure, WifiStation
    <3>1. WifiTypeOK' /\ KnowsAttempt'
      BY <1>s, <2>1, <2>2 DEF WifiTypeOK, KnowsAttempt
    <3>2. WifiStation'
      BY <1>s, <2>1, <2>2, <3>h DEF WifiStation
    <3>3. SeenUp' \/ ~SeenUp
      BY <2>2, <3>h DEF SeenUp
    <3>4. overtaken' = FALSE \/ wifiState = "connected"
      BY <2>2
    <3> QED
      BY <2>1, <2>2, <3>1, <3>2, <3>3, <3>4, WifiCallInv
  <2>3. CASE wpc' = "idle" /\ UNCHANGED <<wifiState, refused, overtaken>>
    <3>1. wpc = "config" /\ handlers /\ wifiState # "connecting"
      BY <1>s, <1>12 DEF WifiConfigure, WifiStation
    <3>2. WifiStation' /\ WifiTypeOK' /\ KnowsAttempt' /\ SeenUp' = SeenUp
      BY <1>s, <2>1, <2>3, <3>1 DEF WifiStation, WifiTypeOK, KnowsAttempt, SeenUp
    <3> QED
      BY <2>1, <2>3, <3>2, WifiCallInv
  <2>4. CASE wifiState' = "connecting" /\ wpc' = "attempt" /\ refused' = FALSE
    <3>1. overtaken' = (wifiState = "connected")
      <4>1. wpc' # "idle"
        BY <2>4
      <4> QED
        BY <1>12, <4>1, Zenon DEF WifiConfigure
    <3>2. CASE wifiState = "connected"
      BY <2>2, <2>4, <3>1, <3>2
    <3>3. CASE wifiState # "connected"
      BY <2>2, <2>4, <3>1, <3>3
    <3> QED
      BY <3>2, <3>3
  <2>5. \/ wifiState' = "connecting" /\ wpc' = "attempt" /\ refused' = FALSE
        \/ wpc' = "idle" /\ UNCHANGED <<wifiState, refused, overtaken>>
    BY <1>12, Zenon DEF WifiConfigure
  <2> QED
    BY <2>3, <2>4, <2>5, Zenon
<1>13. CASE WifiAttempt
  <2>1. UNCHANGED <<wifiState, ip, callbacks, wifiTold, handlers, radio, posted, overtaken, abandoned>>
    BY <1>13 DEF WifiAttempt
  <2>2. \/ radio = "started" /\ wifiLink' = (IF wifiLink = "down" THEN "trying" ELSE wifiLink) /\ refused' = refused
        \/ wifiLink' = wifiLink /\ refused' = TRUE
    BY <1>13 DEF WifiAttempt
  <2>w. wpc = "attempt" /\ wpc' = "idle"
    BY <1>13 DEF WifiAttempt
  <2>3. wifiLink = "up" /\ wifiState = "connecting" => abandoned \/ ~Quiet(posted) \/ overtaken
    BY DEF WifiInv, KnowsUp, SeenUp, EndsUp, Quiet
  <2>4. WifiStation' /\ WifiTypeOK' /\ SeenUp' = SeenUp
    BY <1>s, <2>1, <2>2, <2>w DEF WifiStation, WifiTypeOK, SeenUp
  <2>6. KnowsAttempt'
    BY <1>s, <2>1, <2>2, <2>3 DEF KnowsAttempt, WifiStation
  <2>5. wifiLink' = "up" <=> wifiLink = "up"
    BY <2>2
  <2> QED
    BY <2>1, <2>4, <2>5, <2>6, WifiCallInv
<1>10. CASE RegisterEventCallback
  <2>1. PICK evt \in {"any", "connected"} : callbacks' = Append(callbacks, evt)
    BY <1>10 DEF RegisterEventCallback
  <2>2. /\ wifiTold' = Append(wifiTold, "none")
        /\ UNCHANGED <<wifiState, ip, handlers, radio, wifiLink, posted, wpc, refused, overtaken, abandoned>>
    BY <1>10 DEF RegisterEventCallback, wifiConn
  <2>3. PICK n \in Nat : n = Len(wifiTold) /\ n = Len(callbacks)
    BY <1>s DEF WifiTypeOK
  <2>4. WifiTypeOK' /\ DOMAIN wifiTold = 1..n /\ DOMAIN wifiTold' = 1..(n + 1) /\ wifiTold'[n + 1] = "none"
    BY <1>s, <2>1, <2>2, <2>3 DEF WifiTypeOK
  <2>5. \A i \in 1..n : wifiTold'[i] = wifiTold[i] /\ callbacks'[i] = callbacks[i]
    BY <1>s, <2>1, <2>2, <2>3 DEF WifiTypeOK
  <2>6. Clean => Clean'
    <3>1. \A i \in 1..(n + 1) : i \in 1..n \/ i = n + 1
      BY <2>3
    <3> QED
      BY <2>2, <2>4, <2>5, <3>1 DEF Clean
  <2> QED
    BY <1>s, <2>2, <2>4, <2>6 DEF WifiInv, WifiStation, KnowsAttempt, KnowsUp, SeenUp, KnowsDown
<1>11. CASE UNCHANGED wifiVars
  BY <1>11 DEF wifiVars, wifiDriver, wifiConn, WifiInv, WifiTypeOK, WifiStation, KnowsAttempt, KnowsUp, SeenUp, KnowsDown, Clean
<1> QED
  BY <1>1, <1>2, <1>3, <1>4, <1>5, <1>6, <1>7, <1>8, <1>9, <1>10, <1>11, <1>12, <1>13, DeliverInv DEF WifiNext

\* Once the posted events are delivered the driver's picture of the link is right,
\* in whatever order calls and events came and for any number of callbacks
\* (on_wifi_events, on_ip_events and the calls of wifi.c).
THEOREM LinkIsKnown == WifiSpec => []LinkKnown
BY WifiInvImplies, WifiInitInv, WifiStep, PTL DEF WifiSpec
=============================================================================
