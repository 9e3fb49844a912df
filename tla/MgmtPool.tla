------------------------------ MODULE MgmtPool ------------------------------
(***************************************************************************)
(* The buffers of ports/esp-idf/mcumgr/mgmt_esp.c: a request packet is     *)
(* copied to a buffer of a small pool, and mcumgr's SMP server, which is   *)
(* external, answers each of the requests in it through the callbacks of   *)
(* the port.  It allocates a buffer for each answer, gives it to the       *)
(* transport, and on an error answers in whatever buffer it still has.     *)
(* The transport calls from one task.                                      *)
(***************************************************************************)
EXTENDS Integers, FiniteSets

CONSTANTS
    Bufs,       \* the buffers a pool may have, MGMT_BUF_COUNT_MAX of them
    BufSize,    \* requests, or units of an answer, a buffer holds
    MaxPackets, \* packets received (bound)
    NoBuf

ASSUME MgmtAssumption == NoBuf \notin Bufs /\ BufSize \in Nat

VARIABLES
    mgmt_pool,              \* the buffers of the pool, buf_count of them
    mgmt_in_use, mgmt_len,  \* bufs[i]
    rsp_buf,                \* the buffer write_at checks and extends
    mgmt_pc,                \* where smp_process_request_packet is
    mgmt_req, mgmt_rsp,     \* its buffers
    mgmt_packets            \* packets received

mgmtVars == <<mgmt_pool, mgmt_in_use, mgmt_len, rsp_buf, mgmt_pc, mgmt_req,
              mgmt_rsp, mgmt_packets>>

\* mgmt_esp_init, with a buf_count of at least one.
MgmtInit ==
    /\ mgmt_pool \in SUBSET Bufs /\ mgmt_pool # {}
    /\ mgmt_in_use = [b \in Bufs |-> FALSE] /\ mgmt_len = [b \in Bufs |-> 0]
    /\ rsp_buf = NoBuf /\ mgmt_pc = "idle" /\ mgmt_req = NoBuf /\ mgmt_rsp = NoBuf
    /\ mgmt_packets = 0

\* pool_alloc gives the first free buffer; which one does not matter.
FreeBufs == {b \in mgmt_pool : ~mgmt_in_use[b]}

\* A bug the runs must notice: the buffer of an answer is not given back.
streamer_free_bufKeep(b) ==
    IF b = NoBuf THEN UNCHANGED <<mgmt_in_use, rsp_buf>>
    ELSE mgmt_in_use' = mgmt_in_use /\ rsp_buf' = IF rsp_buf = b THEN NoBuf ELSE rsp_buf

\* streamer_free_buf and pool_free
streamer_free_buf(b) ==
    IF b = NoBuf THEN UNCHANGED <<mgmt_in_use, rsp_buf>>
    ELSE /\ mgmt_in_use' = [mgmt_in_use EXCEPT ![b] = FALSE]
         /\ rsp_buf' = IF rsp_buf = b THEN NoBuf ELSE rsp_buf

\* on_packet_received: a packet of no length, or longer than a buffer, is
\* dropped, and so is one that finds no buffer.
OnPacketReceived(n) ==
    /\ mgmt_pc = "idle" /\ mgmt_packets < MaxPackets /\ mgmt_packets' = mgmt_packets + 1
    /\ IF n = 0 \/ n > BufSize \/ FreeBufs = {}
       THEN UNCHANGED <<mgmt_in_use, mgmt_len, mgmt_pc, mgmt_req>>
       ELSE \E b \in FreeBufs :
                /\ mgmt_in_use' = [mgmt_in_use EXCEPT ![b] = TRUE]
                /\ mgmt_len' = [mgmt_len EXCEPT ![b] = n]
                /\ mgmt_req' = b /\ mgmt_pc' = "read"
    /\ UNCHANGED <<mgmt_pool, rsp_buf, mgmt_rsp>>

\* streamer_init_reader: the server reads the next request, if there is one.
InitReader ==
    /\ mgmt_pc = "read"
    /\ mgmt_pc' = IF mgmt_len[mgmt_req] = 0 THEN "free" ELSE "alloc"
    /\ UNCHANGED <<mgmt_pool, mgmt_in_use, mgmt_len, rsp_buf, mgmt_req, mgmt_rsp, mgmt_packets>>

\* streamer_alloc_rsp; without a buffer the server goes to its error path.
AllocRsp ==
    /\ mgmt_pc = "alloc"
    /\ IF FreeBufs = {} THEN mgmt_pc' = "error" /\ UNCHANGED <<mgmt_in_use, mgmt_rsp>>
       ELSE \E b \in FreeBufs :
                mgmt_in_use' = [mgmt_in_use EXCEPT ![b] = TRUE] /\ mgmt_rsp' = b /\ mgmt_pc' = "write"
    /\ UNCHANGED <<mgmt_pool, mgmt_len, rsp_buf, mgmt_req, mgmt_packets>>

\* streamer_init_writer
InitWriter(b) == rsp_buf' = b /\ mgmt_len' = [mgmt_len EXCEPT ![b] = 0]

\* The answer's writer is set up and the request's handler runs, which succeeds
\* or fails.
Handle ==
    /\ mgmt_pc = "write" /\ InitWriter(mgmt_rsp)
    /\ mgmt_pc' \in {"encode", "error"}
    /\ UNCHANGED <<mgmt_pool, mgmt_in_use, mgmt_req, mgmt_rsp, mgmt_packets>>

\* streamer_write_at of the header, once the answer's length is known; an answer
\* that does not fit is refused.
WriteAt(n) ==
    /\ mgmt_pc = "encode" /\ rsp_buf # NoBuf
    /\ IF n > BufSize THEN mgmt_pc' = "error" /\ UNCHANGED mgmt_len
       ELSE mgmt_pc' = "send" /\ mgmt_len' = [mgmt_len EXCEPT ![rsp_buf] = IF n > @ THEN n ELSE @]
    /\ UNCHANGED <<mgmt_pool, mgmt_in_use, rsp_buf, mgmt_req, mgmt_rsp, mgmt_packets>>

\* smp_tx_rsp: what the transport says of the answer, which is freed in any
\* case; one with no body is not sent, which counts as success.
TxRsp(ok) ==
    /\ mgmt_pc \in {"send", "send_error"}
    /\ streamer_free_buf(mgmt_rsp) /\ mgmt_rsp' = NoBuf
    /\ mgmt_pc' = IF mgmt_pc = "send_error" THEN "free" ELSE IF ok THEN "trim" ELSE "error"
    /\ UNCHANGED <<mgmt_pool, mgmt_len, mgmt_req, mgmt_packets>>

\* streamer_trim_front: the request that was answered is dropped from the front.
TrimFront ==
    /\ mgmt_pc = "trim" /\ mgmt_pc' = "read"
    /\ mgmt_len' = [mgmt_len EXCEPT ![mgmt_req] = IF 1 >= @ THEN 0 ELSE @ - 1]
    /\ UNCHANGED <<mgmt_pool, mgmt_in_use, rsp_buf, mgmt_req, mgmt_rsp, mgmt_packets>>

\* The server's error path: it answers in the buffer of the answer, or in the
\* request's own when there is none; streamer_reset_buf empties it first.
OnError ==
    LET b == IF mgmt_rsp = NoBuf THEN mgmt_req ELSE mgmt_rsp
    IN /\ mgmt_pc = "error" /\ InitWriter(b)
       /\ mgmt_rsp' = b /\ mgmt_req' = IF mgmt_rsp = NoBuf THEN NoBuf ELSE mgmt_req
       /\ mgmt_pc' = "error_encode"
       /\ UNCHANGED <<mgmt_pool, mgmt_in_use, mgmt_packets>>

WriteError ==
    /\ mgmt_pc = "error_encode" /\ mgmt_pc' = "send_error"
    /\ mgmt_len' = [mgmt_len EXCEPT ![rsp_buf] = 1]
    /\ UNCHANGED <<mgmt_pool, mgmt_in_use, rsp_buf, mgmt_req, mgmt_rsp, mgmt_packets>>

\* The server frees what is left.
FreeReq ==
    /\ mgmt_pc = "free" /\ streamer_free_buf(mgmt_req) /\ mgmt_req' = NoBuf /\ mgmt_pc' = "idle"
    /\ UNCHANGED <<mgmt_pool, mgmt_len, mgmt_rsp, mgmt_packets>>

MgmtNext ==
    \/ \E n \in 0 .. BufSize + 1 : OnPacketReceived(n) \/ WriteAt(n)
    \/ InitReader \/ AllocRsp \/ Handle \/ TrimFront \/ OnError \/ WriteError \/ FreeReq
    \/ \E ok \in BOOLEAN : TxRsp(ok)

MgmtSpec == MgmtInit /\ [][MgmtNext]_mgmtVars

(***************************************************************************)
(* Properties                                                              *)
(***************************************************************************)

\* Once a packet is dealt with every buffer is back in the pool, whichever of
\* the allocation, the handler, the encoding and the transport failed; while it
\* is, the buffer that write_at extends is one in use, and no two of the
\* server's buffers are the same.
MgmtBuffersReturn ==
    /\ mgmt_pc = "idle" => FreeBufs = mgmt_pool /\ rsp_buf = NoBuf
    /\ rsp_buf # NoBuf => mgmt_in_use[rsp_buf]
    /\ \A b \in Bufs : mgmt_in_use[b] <=> b \in {mgmt_req, mgmt_rsp}
    /\ mgmt_req # NoBuf => mgmt_req # mgmt_rsp
=============================================================================
