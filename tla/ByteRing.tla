------------------------------ MODULE ByteRing ------------------------------
(***************************************************************************)
(* The calls of modules/common/src/ringbuf.c in one thread, with the       *)
(* buffer they manage: creation with a size that is rounded to a power of  *)
(* two, writing and cancelling, reading and peeking at an offset, resizing *)
(* into another buffer.  index and outdex run freely and wrap.  The queue  *)
(* of bytes it implements is ByteFifo.                                     *)
(***************************************************************************)
EXTENDS Integers, Sequences

CONSTANTS
    Wrap,       \* 2 ^ (width of size_t)
    Inputs,     \* the data written
    Args,       \* the sizes and offsets asked for
    MaxSize     \* the largest buffer asked for

VARIABLES
    buffer,         \* handle->buffer, one cell a byte
    capacity,       \* handle->capacity, 0 while there is no handle
    index, outdex,
    heap,           \* the buffer came from ringbuf_create
    out             \* what the last call returned (observation)

ringVars == <<buffer, capacity, index, outdex, heap, out>>

Empty(n) == [p \in 0 .. n - 1 |-> 0]
Lesser(a, b) == IF a > b THEN b ELSE a

\* flsl: the number of bits of x.
flsl(x) == CHOOSE k \in 0 .. x : x < 2 ^ k /\ \A j \in 0 .. k - 1 : 2 ^ j <= x

is_power2(x) == \E k \in 0 .. x : x = 2 ^ k

roundup_pow2(x) ==
    IF x = 0 THEN 1 ELSE IF is_power2(x) THEN x ELSE 2 ^ flsl(x)

\* What rounding amounts to for the sizes asked for, size_t being wide enough: a
\* size that holds what was asked and divides the range of the indices.
ASSUME RingAssumption ==
    /\ Wrap \in Nat \ {0} /\ MaxSize \in Nat /\ Args \subseteq Nat /\ Inputs \subseteq Seq(Nat)
    /\ \A size \in 1 .. MaxSize :
         LET n == roundup_pow2(size)
         IN n \in size .. Wrap - 1 /\ Wrap % n = 0 /\ 2 ^ (flsl(n) - 1) = n

get_length == (index - outdex) % Wrap
get_available == capacity - get_length

\* get_pointer, NULL being -1, and the bytes up to the end of the buffer.
get_pointer(offset) ==
    IF offset >= get_length THEN -1 ELSE (outdex + offset) % capacity
Contiguous(offset) ==
    IF offset >= get_length THEN 0 ELSE capacity - get_pointer(offset)

\* A bug the runs must notice: the bytes behind the wrap are left out.
read_coreCut(offset, bufsize) ==
    LET len == IF get_pointer(offset) = -1 THEN 0
               ELSE Lesser(get_length - offset, bufsize)
    IN [k \in 1 .. Lesser(len, Contiguous(offset)) |->
            buffer[get_pointer(offset) + k - 1]]

\* read_core: up to the end of the buffer, and the rest from its start.
read_core(offset, bufsize) ==
    LET len == IF get_pointer(offset) = -1 THEN 0
               ELSE Lesser(get_length - offset, bufsize)
        cut == Lesser(len, Contiguous(offset))
    IN [k \in 1 .. len |-> IF k <= cut THEN buffer[get_pointer(offset) + k - 1]
                                       ELSE buffer[k - cut - 1]]

RingInit ==
    /\ buffer = Empty(0) /\ capacity = 0 /\ index = 0 /\ outdex = 0
    /\ heap = FALSE /\ out = <<>>

Live == capacity > 0

\* initialize: the largest power of two that the buffer holds.
initialize(bufsize) ==
    /\ buffer' = Empty(bufsize)
    /\ capacity' = 2 ^ (flsl(bufsize) - 1)
    /\ index' = 0 /\ outdex' = 0

\* ringbuf_create; an allocation that fails leaves no handle.
Create(size) ==
    /\ ~Live /\ size > 0
    /\ initialize(roundup_pow2(size)) /\ heap' = TRUE /\ UNCHANGED out

\* ringbuf_create_static: a buffer whose size is no power of two is refused.
CreateStatic(bufsize) ==
    /\ ~Live /\ bufsize > 0 /\ roundup_pow2(bufsize) <= bufsize
    /\ initialize(bufsize) /\ heap' = FALSE /\ UNCHANGED out

\* ringbuf_destroy, or the end of a static buffer's use.
Destroy ==
    /\ Live
    /\ buffer' = Empty(0) /\ capacity' = 0 /\ index' = 0 /\ outdex' = 0
    /\ heap' = FALSE /\ out' = <<>>

\* ringbuf_write: two copies, then the index.
Write(data) ==
    LET len == Lesser(get_available, Len(data))
        at == index % capacity
        cut == Lesser(len, capacity - at)
    IN /\ Live
       /\ buffer' = [p \in DOMAIN buffer |->
             IF p \in at .. at + cut - 1 THEN data[p - at + 1]
             ELSE IF p < len - cut THEN data[cut + p + 1] ELSE buffer[p]]
       /\ index' = (index + len) % Wrap
       /\ out' = <<len>>
       /\ UNCHANGED <<capacity, outdex, heap>>

\* ringbuf_write_cancel
WriteCancel(size) ==
    LET ok == get_length >= size
    IN /\ Live
       /\ index' = IF ok THEN (index - size) % Wrap ELSE index
       /\ out' = <<IF ok THEN size ELSE 0>>
       /\ UNCHANGED <<buffer, capacity, outdex, heap>>

\* ringbuf_peek
Peek(offset, bufsize) ==
    /\ Live /\ out' = read_core(offset, bufsize)
    /\ UNCHANGED <<buffer, capacity, index, outdex, heap>>

\* ringbuf_peek_pointer: the bytes readable where the pointer points, which
\* may be fewer than there are.
PeekPointer(offset) ==
    LET n == Lesser(Contiguous(offset), get_length - offset)
    IN /\ Live /\ get_pointer(offset) # -1
       /\ out' = [k \in 1 .. n |-> buffer[get_pointer(offset) + k - 1]]
       /\ UNCHANGED <<buffer, capacity, index, outdex, heap>>

\* consume_core
consume_core(n) == outdex' = IF get_length < n THEN outdex ELSE (outdex + n) % Wrap

\* ringbuf_consume
Consume(n) ==
    /\ Live /\ consume_core(n)
    /\ out' = <<IF n <= get_length THEN 1 ELSE 0>>
    /\ UNCHANGED <<buffer, capacity, index, heap>>

\* ringbuf_read: the bytes skipped are consumed with those read, unless none
\* was read.
Read(offset, bufsize) ==
    LET got == read_core(offset, bufsize)
    IN /\ Live
       /\ IF Len(got) > 0 THEN consume_core(Len(got) + offset)
                          ELSE UNCHANGED outdex
       /\ out' = got
       /\ UNCHANGED <<buffer, capacity, index, heap>>

\* ringbuf_resize of a heap buffer: the data moves to the start of a new one,
\* or nothing changes because it would not fit or cannot be allocated.
ResizeTo(size) ==
    LET new == roundup_pow2(size)
        data == read_core(0, get_length)
    IN /\ Live /\ heap /\ size > 0
       /\ new # capacity /\ new >= get_length
       /\ buffer' = [p \in 0 .. new - 1 |-> IF p < Len(data) THEN data[p + 1] ELSE 0]
       /\ capacity' = new /\ index' = get_length /\ outdex' = 0
       /\ UNCHANGED <<heap, out>>

RingNext ==
    \/ \E size \in 1 .. MaxSize : Create(size) \/ CreateStatic(size) \/ ResizeTo(size)
    \/ Destroy
    \/ \E data \in Inputs : Write(data)
    \/ \E n \in Args : WriteCancel(n) \/ Consume(n) \/ PeekPointer(n)
    \/ \E offset, n \in Args : Peek(offset, n) \/ Read(offset, n)

RingSpec == RingInit /\ [][RingNext]_ringVars

(***************************************************************************)
(* Properties                                                              *)
(***************************************************************************)
Fifo == INSTANCE ByteFifo
    WITH queue <- read_core(0, get_length), room <- capacity

\* Whatever the sequence of calls, with data that wraps around the end of the
\* buffer, indices that wrap around the width of size_t and buffers that move,
\* the ring is the queue of bytes its callers see.
RingImplementsFifo == Fifo!Spec
=============================================================================
