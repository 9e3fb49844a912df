------------------------------- MODULE Codecs -------------------------------
(***************************************************************************)
(* modules/common/src/cobs.c and base64.c: a sender encodes its data, a    *)
(* receiver decodes it, into a buffer of its own or in place.  The loops   *)
(* of both are folds over their input.                                     *)
(*                                                                         *)
(* COBS encodes a frame so that zero occurs only as its delimiter; a group *)
(* holds Full - 1 bytes at most, 254 in the code.  Base64 has two          *)
(* alphabets, buffers that may be too small and texts whose padding was    *)
(* stripped; a character is a number, 0 to 61 for letters and digits, in   *)
(* the order of the tables, and one more for each of the others.           *)
(***************************************************************************)
EXTENDS Integers, Sequences, SequencesExt

CONSTANTS
    Frames,     \* the frames encoded with COBS, sequences of bytes
    Full,       \* 0xff: the length of a group that no zero ends
    Rooms,      \* how many bytes more than the frame the buffers have
    Inputs,     \* the data encoded in Base64, sequences of bytes
    Short       \* how many bytes the decoder's buffer may be short of

VARIABLES
    phase,      \* "idle", or the codec and whether data was sent or got
    data,       \* the sender's data
    url,        \* Base64 for a URL
    room,       \* the size of the encoder's (COBS), the decoder's (Base64) buffer
    enc,        \* what the encoder made of it, [buf, ret]; Base64 counts from 1
    back, over  \* what was decoded, and what was decoded in place

vars == <<phase, data, url, room, enc, back, over>>

Nothing == [buf |-> <<>>, ret |-> 0]

Init ==
    /\ phase = "idle" /\ data = <<>> /\ url = FALSE /\ room = 0
    /\ enc = Nothing /\ back = <<>> /\ over = <<>>

\* The sender turns to other data.
Again ==
    /\ phase \in {"cobs got", "base64 got"} /\ phase' = "idle"
    /\ data' = <<>> /\ url' = FALSE /\ room' = 0
    /\ enc' = Nothing /\ back' = <<>> /\ over' = <<>>

(***************************************************************************)
(* COBS                                                                    *)
(***************************************************************************)

Lower(a, b) == IF a > b THEN b ELSE a
Upto(n) == [k \in 1 .. n |-> k - 1]

\* A bug the runs must notice: a full group is closed one byte late.
EncodeByteLate(st, i, p, maxlen, bufsize) ==
    LET s1 == IF p[i + 1] = 0 THEN st
              ELSE [st EXCEPT !.buf[st.o] = p[i + 1], !.o = @ + 1, !.len = @ + 1]
        s2 == [s1 EXCEPT !.buf[s1.head] = s1.len, !.head = s1.o, !.o = @ + 1]
    IN IF st.ret >= 0 \/ st.o >= bufsize THEN st
       ELSE IF p[i + 1] # 0 /\ s1.len <= Full THEN s1
       ELSE IF s2.o >= bufsize \/ (s1.len > Full /\ i + 1 >= maxlen)
       THEN [s2 EXCEPT !.buf[Lower(s2.o - 1, bufsize - 1)] = 0, !.ret = s2.o - 1]
       ELSE [s2 EXCEPT !.len = 1]

\* One turn of the loop of cobs_encode: the byte is copied unless it is zero; a
\* zero, or a full group, ends the group and leaves a place for the length of
\* the next one.
EncodeByte(st, i, p, maxlen, bufsize) ==
    LET s1 == IF p[i + 1] = 0 THEN st
              ELSE [st EXCEPT !.buf[st.o] = p[i + 1], !.o = @ + 1, !.len = @ + 1]
        s2 == [s1 EXCEPT !.buf[s1.head] = s1.len, !.head = s1.o, !.o = @ + 1]
    IN IF st.ret >= 0 \/ st.o >= bufsize THEN st
       ELSE IF p[i + 1] # 0 /\ s1.len # Full THEN s1
       ELSE IF s2.o >= bufsize \/ (s1.len = Full /\ i + 1 >= maxlen)
       THEN [s2 EXCEPT !.buf[Lower(s2.o - 1, bufsize - 1)] = 0, !.ret = s2.o - 1]
       ELSE [s2 EXCEPT !.len = 1]

cobs_encode(p, bufsize) ==
    LET maxlen == Lower(bufsize, Len(p))
        st == FoldLeft(LAMBDA s, i : EncodeByte(s, i, p, maxlen, bufsize),
                       [buf |-> [k \in 0 .. bufsize - 1 |-> Full], head |-> 0,
                        len |-> 1, o |-> 1, ret |-> -1],
                       Upto(maxlen))
    IN IF st.ret >= 0 THEN [buf |-> st.buf, ret |-> st.ret]
       ELSE [buf |-> [st.buf EXCEPT ![st.head] = st.len,
                                    ![Lower(st.o, bufsize - 1)] = 0],
             ret |-> st.o + 1]

\* One turn of the loop of cobs_decode, which reads from mem or, in place,
\* from the buffer it writes to.
DecodeByte(st, i, mem, bufsize, inPlace) ==
    LET in == IF inPlace THEN st.out[i] ELSE mem[i]
        zero == IF st.code # Full THEN [st EXCEPT !.out[st.o] = 0, !.o = @ + 1] ELSE st
    IN IF st.stop \/ st.o >= bufsize THEN st
       ELSE IF st.len > 0
       THEN [st EXCEPT !.out[st.o] = in, !.o = @ + 1, !.len = @ - 1]
       ELSE [zero EXCEPT !.code = in, !.len = in - 1, !.stop = (in = 0)]

cobs_decode(mem, bufsize, datasize, inPlace) ==
    LET st == FoldLeft(LAMBDA s, i : DecodeByte(s, i, mem, bufsize, inPlace),
                       [out |-> IF inPlace THEN mem ELSE [k \in 0 .. bufsize - 1 |-> Full],
                        o |-> 0, len |-> 0, code |-> Full, stop |-> FALSE],
                       Upto(datasize))
    IN [k \in 1 .. st.o |-> st.out[k - 1]]

CobsEncode(f, extra) ==
    /\ phase = "idle" /\ phase' = "cobs sent"
    /\ data' = f /\ room' = Len(f) + extra
    /\ enc' = cobs_encode(f, Len(f) + extra)
    /\ UNCHANGED <<url, back, over>>

\* The receiver decodes as many bytes as were sent into a buffer of the frame's
\* size, or in place all of the buffer.
CobsDecode ==
    /\ phase = "cobs sent" /\ phase' = "cobs got"
    /\ back' = cobs_decode(enc.buf, Len(data), Lower(enc.ret, room), FALSE)
    /\ over' = cobs_decode(enc.buf, room, room, TRUE)
    /\ UNCHANGED <<data, url, room, enc>>

(***************************************************************************)
(* Base64                                                                  *)
(***************************************************************************)

Plus == 62
Slash == 63
Minus == 64
Under == 65
Equal == 66

Code62 == IF url THEN Minus ELSE Plus
Code63 == IF url THEN Under ELSE Slash

\* to_base64_variant: six bits of the word, in the alphabet of the table.
to_base64_variant(word, offset, forUrl) ==
    LET d == (word \div (2 ^ (offset * 6))) % 64
    IN IF d < 62 \/ ~forUrl THEN d ELSE d + 2

\* from_base64, 64 for a character of neither kind.
from_base64(c, c62, c63) ==
    IF c < 62 THEN c ELSE IF c = c62 THEN 62 ELSE IF c = c63 THEN 63 ELSE 64

from_word(word, offset) == (word \div (2 ^ (offset * 8))) % 256

\* The starts of the groups of three, or four, that the loops go over.
Starts(n, step) == [k \in 1 .. (n + step - 1) \div step |-> (k - 1) * step + 1]
At(s, i) == IF i <= Len(s) THEN s[i] ELSE 0

\* encode: a group of four characters for three bytes, if four still fit.
encode(in, bufsize, forUrl) ==
    LET Group(i) ==
            LET word == in[i] * 65536 + At(in, i + 1) * 256 + At(in, i + 2)
                digit(o) == to_base64_variant(word, o, forUrl)
            IN <<digit(3), digit(2),
                 IF i + 1 <= Len(in) THEN digit(1) ELSE Equal,
                 IF i + 2 <= Len(in) THEN digit(0) ELSE Equal>>
    IN FoldLeft(LAMBDA buf, i : IF Len(buf) + 4 <= bufsize THEN buf \o Group(i) ELSE buf,
                <<>>, Starts(Len(in), 3))

\* nbytes of a group, from whether its third and fourth characters are there.
NBytes(c1, c2) == IF c1 THEN (IF c2 THEN 3 ELSE 2) ELSE 1

\* One turn of the loop of decode, on a memory that holds the text and, when
\* decoding in place, receives the bytes.
DecodeGroup(st, i, n, max, inPlace) ==
    LET in(k) == IF inPlace /\ k <= st.o THEN st.out[k] ELSE st.text[k]
        c1 == i + 2 <= n /\ in(i + 2) # Equal
        c2 == i + 3 <= n /\ in(i + 3) # Equal
        v(k) == from_base64(in(k), Code62, Code63)
        word == v(i) * 262144 + v(i + 1) * 4096
                + (IF c1 THEN v(i + 2) * 64 ELSE 0) + (IF c2 THEN v(i + 3) ELSE 0)
        bytes == [k \in 1 .. NBytes(c1, c2) |-> from_word(word, 3 - k)]
    IN IF st.stop \/ i + 1 > n THEN st
       ELSE IF st.o + NBytes(c1, c2) > max THEN [st EXCEPT !.stop = TRUE]
       ELSE [st EXCEPT !.out = @ \o bytes, !.o = @ + Len(bytes),
                       !.stop = (Len(bytes) < 3)]

decode(in, max, inPlace) ==
    FoldLeft(LAMBDA st, i : DecodeGroup(st, i, Len(in), max, inPlace),
             [text |-> in, out |-> <<>>, o |-> 0, stop |-> FALSE],
             Starts(Len(in), 4)).out

\* lm_base64_encode and lm_base64url_encode; the text loses its padding, which
\* no decoder needs, or is cut because the buffer is too small.
Base64Encode(in, forUrl, cut) ==
    /\ phase = "idle" /\ phase' = "base64 sent"
    /\ data' = in /\ url' = forUrl
    /\ LET t == encode(in, 4 * ((Len(in) + 2) \div 3) - cut, forUrl)
       IN \E s \in {t, SelectSeq(t, LAMBDA c : c # Equal)} :
            enc' = [buf |-> s, ret |-> Len(s)]
    /\ UNCHANGED <<room, back, over>>

\* lm_base64_decode, lm_base64url_decode, and their _overwrite forms.
Base64Decode(short) ==
    /\ phase = "base64 sent" /\ phase' = "base64 got"
    /\ room' = Len(data) - short /\ room' >= 0
    /\ back' = decode(enc.buf, room', FALSE)
    /\ over' = decode(enc.buf, room', TRUE)
    /\ UNCHANGED <<data, url, enc>>

Next ==
    \/ \E f \in Frames, extra \in Rooms : CobsEncode(f, extra)
    \/ CobsDecode
    \/ \E in \in Inputs, forUrl \in BOOLEAN, cut \in {0, 1} : Base64Encode(in, forUrl, cut)
    \/ \E short \in Short : Base64Decode(short)
    \/ Again

Spec == Init /\ [][Next]_vars

(***************************************************************************)
(* Properties                                                              *)
(***************************************************************************)

\* The most bytes an encoded frame and its delimiter take.
Enough(f) == Len(f) + 2 + (Len(f) \div (Full - 1))

\* A frame encoded into a buffer large enough comes back as it was; no byte of
\* it before the delimiter is zero, so that a receiver never takes a part of it
\* for the whole: at every length of the groups, the full one included.  Decoded
\* in place, where only the delimiter says where it ends, a frame may have one
\* zero more: cobs_decode adds the zero before it sees the delimiter.
CobsRoundTrip ==
    phase \in {"cobs sent", "cobs got"} /\ room >= Enough(data) =>
        /\ enc.ret \in 1 .. room
        /\ \A k \in 0 .. enc.ret - 2 : enc.buf[k] # 0
        /\ phase = "cobs got" => back = data /\ over \in {data, Append(data, 0)}

\* What is decoded is what was encoded, whether the padding was kept or not,
\* in both alphabets; when a buffer was too small it is as many whole groups
\* of it as fit, never other bytes; and decoding in place, where the bytes
\* overwrite the text they come from, gives the same.
Base64RoundTrip ==
    phase = "base64 got" =>
        /\ over = back
        /\ IsPrefix(back, data)
        /\ Len(back) % 3 = 0 \/ back = data
        /\ 4 * ((Len(data) + 2) \div 3) <= enc.ret + 2 /\ room = Len(data) => back = data
=============================================================================
