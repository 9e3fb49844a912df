------------------------------ MODULE ByteFifo ------------------------------
(***************************************************************************)
(* What a ring buffer promises its caller: a queue of bytes with a room.   *)
(* Bytes leave from the front in the order they were added at the back;    *)
(* the last ones added can be taken back; the room never loses a byte when *)
(* it changes.                                                             *)
(***************************************************************************)
EXTENDS Integers, Sequences

CONSTANTS
    Inputs, \* the sequences of bytes a caller may add
    Args    \* the sizes and offsets it may ask for

VARIABLES
    queue,  \* the bytes held, the oldest first
    room,   \* how many fit, 0 when there is no buffer
    out     \* what the last call gave its caller

fvars == <<queue, room, out>>

Init == queue = <<>> /\ room = 0 /\ out = <<>>

\* As many of the bytes as fit are added, the first ones first.
Put(data) ==
    \E n \in 0 .. Len(data) :
        /\ n = Len(data) \/ Len(queue) + n = room
        /\ Len(queue) + n <= room
        /\ queue' = queue \o SubSeq(data, 1, n)
        /\ out' = <<n>> /\ UNCHANGED room

\* All of the last n bytes are taken back, or none.
TakeBack(n) ==
    /\ IF n <= Len(queue)
       THEN queue' = SubSeq(queue, 1, Len(queue) - n) /\ out' = <<n>>
       ELSE queue' = queue /\ out' = <<0>>
    /\ UNCHANGED room

\* Up to n bytes from an offset on, and nothing from beyond the end.
Part(offset, n) ==
    SubSeq(queue, offset + 1,
           IF offset + n <= Len(queue) THEN offset + n ELSE Len(queue))

Look(offset, n) == out' = Part(offset, n) /\ UNCHANGED <<queue, room>>

\* The bytes read, and the ones before them, are gone.
Get(offset, n) ==
    /\ out' = Part(offset, n)
    /\ queue' = IF Part(offset, n) = <<>> THEN queue
                ELSE SubSeq(queue, offset + Len(Part(offset, n)) + 1, Len(queue))
    /\ UNCHANGED room

Drop(n) ==
    /\ queue' = IF n <= Len(queue) THEN SubSeq(queue, n + 1, Len(queue))
                                   ELSE queue
    /\ out' = <<IF n <= Len(queue) THEN 1 ELSE 0>> /\ UNCHANGED room

\* A room of another size, if the bytes fit in it: the bytes stay.
Resize == room' \in Nat /\ room' >= Len(queue) /\ UNCHANGED <<queue, out>>

\* A buffer comes empty and with some room, and goes with what it held.
Open == room = 0 /\ room' \in Nat \ {0} /\ UNCHANGED <<queue, out>>
Close == room' = 0 /\ queue' = <<>> /\ out' = <<>>

Next ==
    \/ \E data \in Inputs : Put(data)
    \/ \E n \in Args : TakeBack(n) \/ Drop(n)
    \/ \E offset \in Args, n \in 0 .. Len(queue) : Look(offset, n)
    \/ \E offset, n \in Args : Get(offset, n)
    \/ Resize \/ Open \/ Close

Spec == Init /\ [][Next]_fvars
=============================================================================
