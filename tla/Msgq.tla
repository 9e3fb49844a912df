-------------------------------- MODULE Msgq --------------------------------
(***************************************************************************)
(* The message queue of modules/common/src/msgq.c on its ring buffer: each *)
(* message is stored as a size followed by its bytes, written and read in  *)
(* two ring operations.  With msgq_set_sync several threads share a queue  *)
(* under a lock; without it the indices are the only synchronisation, and  *)
(* one producer and one consumer use it.  A ring operation reads the       *)
(* indices, copies, and publishes its own index, each one a step.          *)
(***************************************************************************)
EXTENDS Integers, Sequences

CONSTANTS
    QueueCap,     \* handle->capacity of the ring buffer
    QueueRange,   \* 2 ^ (width of size_t)
    Producers, Consumer,
    First,        \* the producer that uses a queue without a lock
    MetaSize,     \* sizeof(msgq_msg_meta_t)
    Sizes,        \* sizes of the messages pushed
    BufSize,      \* size of the buffer given to msgq_pop
    QueueIds,     \* number of message contents
    NoOne

Threads == Producers \cup {Consumer}

\* A capacity is a power of two and divides the range of the indices.
ASSUME MsgqAssumption ==
    /\ QueueCap \in Nat \ {0} /\ QueueRange \in Nat
    /\ QueueRange % QueueCap = 0 /\ QueueRange > QueueCap
    /\ First \in Producers /\ Consumer \notin Producers /\ NoOne \notin Threads
    /\ MetaSize \in Nat \ {0} /\ BufSize \in Nat /\ QueueIds \in Nat \ {0}
    /\ Sizes \subseteq Nat

-----------------------------------------------------------------------------
\* The ring of modules/common/src/ringbuf.c as operators on its fields.  index and
\* outdex run freely and wrap with the width of size_t; only their difference and
\* their low bits mean anything, which is why the capacity is a power of two.

Indices == 0 .. QueueRange - 1
Positions == 0 .. QueueCap - 1

\* A mutated form: the index does not wrap.
AdvanceUnbounded(i, n) == i + n

\* index += n, outdex += n
Advance(i, n) == (i + n) % QueueRange

\* get_length
Length(index, outdex) == (index - outdex) % QueueRange

\* A mutated form: one byte more than there is room for.
AvailableOneMore(index, outdex) == QueueCap - Length(index, outdex) + 1

\* get_available
Available(index, outdex) == QueueCap - Length(index, outdex)

\* The two memcpy calls of ringbuf_write: as many bytes as fit, from index on,
\* going on at the start of the buffer when the end is reached.
WriteBytes(buf, index, data) ==
    [p \in Positions |->
        LET k == ((p - index) % QueueCap) + 1
        IN IF k <= Len(data) THEN data[k] ELSE buf[p]]

\* The two memcpy calls of read_core: n bytes from this offset.
ReadBytes(buf, outdex, offset, n) ==
    [k \in 1 .. n |-> buf[(outdex + offset + k - 1) % QueueCap]]

-----------------------------------------------------------------------------
VARIABLES
    qBuf, qIndex, qOutdex,   \* struct ringbuf
    qSync,         \* msgq_set_sync was called
    qOwner,        \* who holds the queue's lock
    qPc,           \* where each thread is
    qMsg,          \* the message a producer pushes, [id, size]
    qAvail,        \* the room a producer saw
    qCall,         \* the consumer's call: "pop" or "size"
    qSeen,         \* the length the consumer saw
    qMeta, qData,  \* what it copied
    qSent,         \* ghost: messages pushed and not popped, [id, size, at]
    qNextId        \* ghost: the next message to push

queueVars == <<qBuf, qIndex, qOutdex>>
prodVars == <<qMsg, qAvail>>
consVars == <<qCall, qSeen, qMeta, qData>>
msgqVars == <<queueVars, qSync, qOwner, qPc, prodVars, consVars, qSent, qNextId>>

Idle == "idle"
MetaBytes(size) == [k \in 1 .. MetaSize |-> <<"size", size>>]
DataBytes(m) == [k \in 1 .. m.size |-> <<m.id, k>>]

\* The message m whose first byte, of its size, was written at this index.
Sent(m, i) == [id |-> m.id, size |-> m.size, at |-> i]

MsgqInit ==
    /\ qBuf = [p \in Positions |-> <<>>]
    /\ qIndex = 0 /\ qOutdex = 0
    /\ qSync \in BOOLEAN
    /\ qOwner = NoOne
    /\ qPc = [th \in Threads |-> Idle]
    /\ qMsg = [th \in Producers |-> [id |-> 0, size |-> 0]]
    /\ qAvail = [th \in Producers |-> 0]
    /\ qCall = "pop" /\ qSeen = 0 /\ qMeta = <<>> /\ qData = <<>>
    /\ qSent = <<>>
    /\ qNextId = 0

IsAt(th, l) == qPc[th] = l
Goto(th, l) == qPc' = [qPc EXCEPT ![th] = l]

\* q->lock; one that fails makes the call return at once.
Lock(th) == IF qSync THEN qOwner = NoOne /\ qOwner' = th ELSE UNCHANGED qOwner

NoMsg == [id |-> 0, size |-> 0]

\* q->unlock, and the call returns; its local variables are gone.
Unlock(th) == Goto(th, Idle) /\ qOwner' = NoOne
PushReturns(th) ==
    /\ Unlock(th)
    /\ qMsg' = [qMsg EXCEPT ![th] = NoMsg]
    /\ qAvail' = [qAvail EXCEPT ![th] = 0]
PopReturns == Unlock(Consumer) /\ qSeen' = 0 /\ qMeta' = <<>> /\ qData' = <<>>

(***************************************************************************)
(* msgq_push                                                               *)
(***************************************************************************)

\* The lock, and the test for room that answers -ENOMEM.
Push(th, size) ==
    /\ IsAt(th, Idle) /\ (qSync \/ th = First)
    /\ Lock(th)
    /\ qMsg' = [qMsg EXCEPT ![th] = [id |-> qNextId, size |-> size]]
    /\ Goto(th, "room")
    /\ UNCHANGED <<queueVars, qSync, qAvail, consVars, qSent, qNextId>>

PushRoom(th) ==
    /\ IsAt(th, "room")
    /\ IF qMsg[th].size + MetaSize > Available(qIndex, qOutdex)
       THEN PushReturns(th)
       ELSE Goto(th, "writeMeta") /\ UNCHANGED <<qOwner, prodVars>>
    /\ UNCHANGED <<queueVars, qSync, consVars, qSent, qNextId>>

\* ringbuf_write of the size or of the data: how much of it fits.
WriteRoom(th, from, to) ==
    /\ IsAt(th, from)
    /\ qAvail' = [qAvail EXCEPT ![th] = Available(qIndex, qOutdex)]
    /\ Goto(th, to)
    /\ UNCHANGED <<queueVars, qSync, qOwner, qMsg, consVars, qSent, qNextId>>

Fits(th, bytes) == SubSeq(bytes, 1, IF qAvail[th] < Len(bytes) THEN qAvail[th] ELSE Len(bytes))

\* ringbuf_write: the copy.
WriteCopy(th, from, to, bytes) ==
    /\ IsAt(th, from)
    /\ qBuf' = WriteBytes(qBuf, qIndex, Fits(th, bytes))
    /\ Goto(th, to)
    /\ UNCHANGED <<qIndex, qOutdex, qSync, qOwner, prodVars, consVars, qSent, qNextId>>

\* ringbuf_write: the index moves; a short write is cancelled and the call
\* answers -EIO.  A message is there for the consumer as soon as its last byte
\* is published, an empty one with its size.
WriteMetaEnd(th) ==
    /\ IsAt(th, "endMeta")
    /\ IF Len(Fits(th, MetaBytes(0))) = MetaSize
       THEN /\ qIndex' = Advance(qIndex, MetaSize)
            /\ qSent' = IF qMsg[th].size = 0 THEN Append(qSent, Sent(qMsg[th], qIndex)) ELSE qSent
            /\ Goto(th, "writeData")
            /\ UNCHANGED <<qOwner, prodVars>>
       ELSE PushReturns(th) /\ UNCHANGED <<qIndex, qSent>>
    /\ UNCHANGED <<qBuf, qOutdex, qSync, consVars, qNextId>>

WriteDataEnd(th) ==
    /\ IsAt(th, "endData")
    /\ IF Len(Fits(th, DataBytes(qMsg[th]))) = qMsg[th].size
       THEN /\ qIndex' = Advance(qIndex, qMsg[th].size)
            /\ qSent' = IF qMsg[th].size = 0 THEN qSent
                        ELSE Append(qSent, Sent(qMsg[th], Advance(qIndex, 0 - MetaSize)))
            /\ qNextId' = (qNextId + 1) % QueueIds
       ELSE qIndex' = Advance(qIndex, 0 - MetaSize) /\ UNCHANGED <<qSent, qNextId>>
    /\ PushReturns(th)
    /\ UNCHANGED <<qBuf, qOutdex, qSync, consVars>>

(***************************************************************************)
(* msgq_pop and msgq_next_msg_size                                         *)
(***************************************************************************)
Call(c) ==
    /\ IsAt(Consumer, Idle)
    /\ Lock(Consumer)
    /\ qCall' = c
    /\ Goto(Consumer, "lenMeta")
    /\ UNCHANGED <<queueVars, qSync, prodVars, qSeen, qMeta, qData, qSent, qNextId>>

\* read_core: the length it sees bounds what it copies.
PeekLength(from, to) ==
    /\ IsAt(Consumer, from)
    /\ qSeen' = Length(qIndex, qOutdex)
    /\ Goto(Consumer, to)
    /\ UNCHANGED <<queueVars, qSync, qOwner, prodVars, qCall, qMeta, qData, qSent, qNextId>>

Peeked(offset, n) ==
    ReadBytes(qBuf, qOutdex, offset,
         IF qSeen <= offset THEN 0 ELSE IF qSeen - offset < n THEN qSeen - offset ELSE n)

\* The size is copied.  An empty queue ends the call: msgq_next_msg_size then
\* returns without unlocking.
PeekMeta ==
    /\ IsAt(Consumer, "copyMeta")
    /\ LET m == Peeked(0, MetaSize)
       IN IF Len(m) # MetaSize
          THEN /\ Goto(Consumer, Idle)
               /\ qOwner' = IF qCall = "pop" THEN NoOne ELSE qOwner
               /\ qSeen' = 0 /\ UNCHANGED <<qMeta, qData>>
          ELSE IF qCall = "size" \/ m[1][2] > BufSize     \* -ERANGE
          THEN PopReturns
          ELSE Goto(Consumer, "lenData") /\ qMeta' = m /\ UNCHANGED <<qOwner, qSeen, qData>>
    /\ UNCHANGED <<queueVars, qSync, prodVars, qCall, qSent, qNextId>>

\* The data is copied; less than the size says ends the call with -EIO.
PeekData ==
    /\ IsAt(Consumer, "copyData")
    /\ qData' = Peeked(MetaSize, qMeta[1][2])
    /\ Goto(Consumer, IF Len(qData') # qMeta[1][2] THEN "eio" ELSE "consume")
    /\ UNCHANGED <<queueVars, qSync, qOwner, prodVars, qCall, qSeen, qMeta, qSent, qNextId>>

PopFails ==
    /\ IsAt(Consumer, "eio")
    /\ PopReturns
    /\ UNCHANGED <<queueVars, qSync, prodVars, qCall, qSent, qNextId>>

\* A mutated form: the size stays in the ring.
ConsumeDataOnly ==
    /\ IsAt(Consumer, "consume")
    /\ qOutdex' = Advance(qOutdex, qMeta[1][2])
    /\ qSent' = IF qSent = <<>> THEN qSent ELSE Tail(qSent)
    /\ PopReturns
    /\ UNCHANGED <<qBuf, qIndex, qSync, prodVars, qCall, qNextId>>

\* ringbuf_consume, and the call returns the message.
PopConsume ==
    /\ IsAt(Consumer, "consume")
    /\ qOutdex' = IF Length(qIndex, qOutdex) < MetaSize + qMeta[1][2] THEN qOutdex
                 ELSE Advance(qOutdex, MetaSize + qMeta[1][2])
    /\ qSent' = IF qSent = <<>> THEN qSent ELSE Tail(qSent)
    /\ PopReturns
    /\ UNCHANGED <<qBuf, qIndex, qSync, prodVars, qCall, qNextId>>

MsgqNext ==
    \/ \E th \in Producers :
        \/ \E size \in Sizes : Push(th, size)
        \/ PushRoom(th)
        \/ WriteRoom(th, "writeMeta", "copyMeta")
        \/ WriteCopy(th, "copyMeta", "endMeta", MetaBytes(qMsg[th].size))
        \/ WriteMetaEnd(th)
        \/ WriteRoom(th, "writeData", "copyData")
        \/ WriteCopy(th, "copyData", "endData", DataBytes(qMsg[th]))
        \/ WriteDataEnd(th)
    \/ \E c \in {"pop", "size"} : Call(c)
    \/ PeekLength("lenMeta", "copyMeta")
    \/ PeekMeta
    \/ PeekLength("lenData", "copyData")
    \/ PeekData
    \/ PopFails
    \/ PopConsume

MsgqSpec == MsgqInit /\ [][MsgqNext]_msgqVars

(***************************************************************************)
(* Properties                                                              *)
(***************************************************************************)

\* Every variable has its type; index and outdex stay in size_t.
MsgqTypeOK ==
    /\ qIndex \in Indices /\ qOutdex \in Indices
    /\ DOMAIN qBuf = Positions
    /\ qSync \in BOOLEAN
    /\ qOwner \in Threads \cup {NoOne}
    /\ qMsg \in [Producers -> [id : 0 .. QueueIds - 1, size : Sizes \cup {0}]]
    /\ qCall \in {"pop", "size"}
    /\ qSeen \in 0 .. QueueCap

\* From index i on the buffer holds these bytes.
HoldsAt(buf, i, bytes) == \A k \in 1 .. Len(bytes) : buf[(i + k - 1) % QueueCap] = bytes[k]

\* How far behind outdex an index is, and the end of a message.
Offset(i) == Length(i, qOutdex)
End(m) == Offset(m.at) + MetaSize + m.size

\* The end of the last message.
SentEnd == IF qSent = <<>> THEN 0 ELSE End(qSent[Len(qSent)])

\* The producers that have published a size and not yet the data.
Halfway == {th \in Producers :
    qPc[th] \in {"writeData", "copyData", "endData"} /\ qMsg[th].size # 0}

\* The published bytes are the messages pushed and not popped, whole and in
\* order, followed at most by the size of one message that is being written:
\* no push overwrites bytes that are still to be read, at any fill level and
\* across the wrap of the buffer and of the indices.
RingHoldsMessages ==
    /\ Length(qIndex, qOutdex) <= QueueCap
    /\ \A k \in 1 .. Len(qSent) :
         /\ Offset(qSent[k].at) = IF k = 1 THEN 0 ELSE End(qSent[k - 1])
         /\ HoldsAt(qBuf, qSent[k].at, MetaBytes(qSent[k].size))
         /\ HoldsAt(qBuf, qSent[k].at + MetaSize, DataBytes(qSent[k]))
    /\ \/ Halfway = {} /\ Length(qIndex, qOutdex) = SentEnd
       \/ \E th \in Halfway :
            /\ Length(qIndex, qOutdex) = SentEnd + MetaSize
            /\ HoldsAt(qBuf, qOutdex + SentEnd, MetaBytes(qMsg[th].size))

\* What msgq_pop returns is the oldest message, although the bytes were copied
\* some steps before they are consumed.
PopIsOldest ==
    IsAt(Consumer, "consume") =>
        /\ qSent # <<>>
        /\ qMeta = MetaBytes(qSent[1].size) /\ qData = DataBytes(qSent[1])

\* The queue holds whole messages in the order they were pushed, and a pop
\* returns the oldest, also while a push of another thread is in progress.
MsgqExact == MsgqTypeOK /\ RingHoldsMessages /\ PopIsOldest

\* A lock is held only inside a call (msgq.h: msgq_set_sync's functions "ensure
\* thread safety", msgq_next_msg_size returns "0 if the queue is empty").
LockReleased == qOwner # NoOne => ~IsAt(qOwner, Idle)
=============================================================================
