------------------------------ MODULE AoProofs ------------------------------
(***************************************************************************)
(* Proofs about the active object: its ring holds exactly what was         *)
(* accepted, what an _if_unique call found stays true until it inserts, and*)
(* a timer that finds the queue full keeps its event.                      *)
(***************************************************************************)
EXTENDS Ao, SequenceTheorems, TLAPS

(***************************************************************************)
(* Arithmetic of the uint16_t indices.  The capacity C divides the range M.*)
(***************************************************************************)
LEMMA Quotient == \A x \in Int, n \in Int : n > 0 => x = n * (x \div n) + (x % n)
  BY Z3

LEMMA OneRemainder ==
    ASSUME NEW W \in Nat \ {0}, NEW q \in Int, NEW r \in 0 .. W - 1
    PROVE  (q * W + r) % W = r
  OBVIOUS

LEMMA Divided ==
    ASSUME NEW W \in Nat \ {0}, NEW x \in Int
    PROVE  \E q \in Int, r \in 0 .. W - 1 : x = q * W + r /\ x % W = r
<1>1. x \div W \in Int /\ x % W \in 0 .. W - 1
  OBVIOUS
<1>2. x = W * (x \div W) + (x % W)
  BY Quotient
<1>3. PICK q \in Int, r \in 0 .. W - 1 : q = x \div W /\ r = x % W
  BY <1>1
<1>4. x = q * W + r
  BY <1>2, <1>3
<1> QED
  BY <1>3, <1>4

\* Whole turns of the ring change no place in it.
LEMMA WholeTurns ==
    ASSUME NEW W \in Nat \ {0}, NEW p \in Int, NEW x \in Int
    PROVE  (p * W + x) % W = x % W
<1>1. PICK q \in Int, r \in 0 .. W - 1 : x = q * W + r /\ x % W = r
  BY Divided
<1>2. p * W + x = (p + q) * W + r /\ p + q \in Int
  BY <1>1
<1>3. ((p + q) * W + r) % W = r
  BY <1>1, <1>2, OneRemainder
<1> QED
  BY <1>1, <1>2, <1>3

LEMMA OneTurn ==
    ASSUME NEW W \in Nat \ {0}, NEW x \in -W .. 2 * W - 1
    PROVE  x % W = IF x < 0 THEN x + W ELSE IF x < W THEN x ELSE x - W
  OBVIOUS

\* The index wraps at M without leaving its place.
SamePlace(C, M, x) == (x % M) % C = x % C

LEMMA WrapKeepsPlace ==
    ASSUME NEW C \in Nat \ {0}, NEW M \in Nat \ {0}, M % C = 0, NEW x \in 0 .. 2 * M - 1
    PROVE  SamePlace(C, M, x)
<1>0. x \in -M .. 2 * M - 1 /\ x >= 0
  OBVIOUS
<1>1. x % M = IF x < 0 THEN x + M ELSE IF x < M THEN x ELSE x - M
  BY <1>0, OneTurn
<1>2. CASE x < M
  BY <1>0, <1>1, <1>2 DEF SamePlace
<1>3. CASE x >= M
  <2>1. PICK q \in Int, r \in 0 .. C - 1 : M = q * C + r /\ M % C = r
    <3>1. PICK m \in Int : m = M
      OBVIOUS
    <3>2. \E q \in Int, r \in 0 .. C - 1 : m = q * C + r /\ m % C = r
      BY Divided
    <3> QED
      BY <3>1, <3>2
  <2>2. M = q * C
    BY <2>1
  <2>3. PICK y \in Int : y = x - M
    OBVIOUS
  <2>4. (q * C + y) % C = y % C
    BY <2>3, WholeTurns
  <2>5. x = q * C + y
    BY <2>2, <2>3
  <2> QED
    BY <1>0, <1>1, <1>3, <2>3, <2>4, <2>5 DEF SamePlace
<1> QED
  BY <1>2, <1>3

\* Two places less than a turn apart are different.
Apart(C, a, b) == a % C # b % C

LEMMA LessThanATurn ==
    ASSUME NEW C \in Nat \ {0}, NEW a \in Int, NEW d \in 1 .. C - 1
    PROVE  Apart(C, a, a + d)
<1>1. PICK q \in Int, r \in 0 .. C - 1 : a = q * C + r /\ a % C = r
  BY Divided
<1>2. PICK s \in Int : s = r + d
  BY <1>1
<1>3. a + d = q * C + s /\ s \in -C .. 2 * C - 1 /\ s >= 0
  BY <1>1, <1>2
<1>4. (q * C + s) % C = s % C
  BY <1>1, <1>2, WholeTurns
<1>5. s % C = IF s < 0 THEN s + C ELSE IF s < C THEN s ELSE s - C
  BY <1>3, OneTurn
<1> QED
  BY <1>1, <1>2, <1>3, <1>4, <1>5 DEF Apart

\* Where the ring's end is, given how many events it holds.
EndIs(M, i, o, n) == i = (o + n) % M

LEMMA EndOfRing ==
    ASSUME NEW M \in Nat \ {0}, NEW i \in 0 .. M - 1, NEW o \in 0 .. M - 1, NEW n \in 0 .. M - 1,
           (i - o) % M = n
    PROVE  EndIs(M, i, o, n)
<1>1. PICK x \in -M .. 2 * M - 1 : x = i - o
  OBVIOUS
<1>2. x % M = IF x < 0 THEN x + M ELSE IF x < M THEN x ELSE x - M
  BY <1>1, OneTurn
<1>3. PICK y \in -M .. 2 * M - 1 : y = o + n
  OBVIOUS
<1>4. y % M = IF y < 0 THEN y + M ELSE IF y < M THEN y ELSE y - M
  BY <1>3, OneTurn
<1> QED
  BY <1>1, <1>2, <1>3, <1>4 DEF EndIs

\* One event more, or one less, and the length follows.
LongerBy(M, i, o, n) == (((i + 1) % M) - o) % M = n + 1
ShorterBy(M, i, o, n) == (i - ((o + 1) % M)) % M = n - 1

LEMMA LengthFollows ==
    ASSUME NEW M \in Nat \ {0}, NEW i \in 0 .. M - 1, NEW o \in 0 .. M - 1, NEW n \in 0 .. M - 1,
           (i - o) % M = n
    PROVE  /\ n + 1 < M => LongerBy(M, i, o, n)
           /\ n > 0 => ShorterBy(M, i, o, n)
<1>1. PICK x \in -M .. 2 * M - 1 : x = i - o
  OBVIOUS
<1>2. x % M = IF x < 0 THEN x + M ELSE IF x < M THEN x ELSE x - M
  BY <1>1, OneTurn
<1>3. PICK j \in 0 .. M - 1 : j = (i + 1) % M /\ j = IF i + 1 < M THEN i + 1 ELSE 0
  BY OneTurn
<1>4. PICK p \in 0 .. M - 1 : p = (o + 1) % M /\ p = IF o + 1 < M THEN o + 1 ELSE 0
  BY OneTurn
<1>5. PICK y \in -M .. 2 * M - 1, z \in -M .. 2 * M - 1 : y = j - o /\ z = i - p
  <2>1. j - o \in -M .. 2 * M - 1 /\ i - p \in -M .. 2 * M - 1
    BY <1>3, <1>4
  <2> QED
    BY <2>1, Zenon
<1>6. /\ y % M = IF y < 0 THEN y + M ELSE IF y < M THEN y ELSE y - M
      /\ z % M = IF z < 0 THEN z + M ELSE IF z < M THEN z ELSE z - M
  BY <1>5, OneTurn
<1>7. n = IF x < 0 THEN x + M ELSE x
  BY <1>1, <1>2
<1>8. n + 1 < M => (j - o) % M = n + 1
  BY <1>1, <1>7, <1>3, <1>5, <1>6
<1>9. n > 0 => (i - p) % M = n - 1
  BY <1>1, <1>7, <1>4, <1>5, <1>6
<1> QED
  BY <1>3, <1>4, <1>8, <1>9 DEF LongerBy, ShorterBy

(***************************************************************************)
(* The invariant.                                                          *)
(***************************************************************************)
Timer == [event : Events \cup {Nothing}, timeout : Nat, interval : Nat]
InCall == {"isArmed", "add"}

\* The ring and its wake-ups.
RingInv ==
    /\ events \in [0 .. MaxLen - 1 -> Events \cup {Canceled, Nothing}]
    /\ index \in 0 .. Mod - 1 /\ outdex \in 0 .. Mod - 1
    /\ aoSem \in Nat
    /\ sent \in Seq(Events \cup {Canceled}) /\ Len(sent) <= MaxLen
    /\ RingHoldsSent

\* The threads and the timer pool.
CallInv ==
    /\ timers \in [Slots -> Timer]
    /\ pc \in [Callers -> {"idle", "isArmed", "add", "join", "gone"}]
    /\ arg \in [Callers -> Events \cup {Nothing}]
    /\ aoOwner \in Callers \cup {Nothing} /\ timerOwner \in {TimerThread, Nothing}
    /\ slot \in 0 .. NumTimers + 1

\* A thread inside an _if_unique call holds ao_lock and, where that keeps the
\* timer pool still as well, has found what remains true.
FoundInv ==
    \A th \in Callers : pc[th] \in InCall =>
        /\ aoOwner = th /\ arg[th] \in Events
        /\ OneLock => ~IsQueued(arg[th])
        /\ OneLock /\ pc[th] = "add" => ~IsArmed(arg[th])

AoInv == RingInv /\ CallInv /\ FoundInv

LEMMA AoInvImplies == AoInv => AoQueueExact
<1> SUFFICES ASSUME AoInv PROVE AoQueueExact
  OBVIOUS
<1>1. AoTypeOK
  <2>1. \A s \in Slots : /\ timers[s].event \in Events \cup {Nothing}
                         /\ timers[s].timeout \in Nat /\ timers[s].interval \in Nat
    BY DEF AoInv, CallInv, Timer
  <2> QED
    BY <2>1 DEF AoInv, RingInv, CallInv, AoTypeOK, Threads
<1>2. OneLock => UniqueWhenAdded
  BY DEF AoInv, FoundInv, UniqueWhenAdded, InCall
<1> QED
  BY <1>1, <1>2 DEF AoInv, RingInv, AoQueueExact

LEMMA AoInitInv == AoInit => AoInv
<1> SUFFICES ASSUME AoInit PROVE AoInv
  OBVIOUS
<1>1. RingInv
  <2>1. 0 \in 0 .. Mod - 1 /\ (0 - 0) % Mod = 0
    BY AoAssumption
  <2>2. sent \in Seq(Events \cup {Canceled}) /\ Len(sent) = 0 /\ 0 <= MaxLen
    BY AoAssumption DEF AoInit
  <2>3. RingHoldsSent
    BY <2>1, <2>2 DEF AoInit, RingHoldsSent, QueueLen
  <2> QED
    BY <2>1, <2>2, <2>3 DEF AoInit, RingInv
<1>2. CallInv
  <2>1. timers \in [Slots -> Timer]
    BY DEF AoInit, Timer, NoTimer
  <2> QED
    BY <2>1, AoAssumption DEF AoInit, CallInv
<1>3. FoundInv
  BY DEF AoInit, FoundInv, InCall
<1> QED
  BY <1>1, <1>2, <1>3 DEF AoInv

(***************************************************************************)
(* post_event and pop_event on the ring.                                   *)
(***************************************************************************)
LEMMA RingFrame ==
    ASSUME RingInv, UNCHANGED <<events, index, outdex, aoSem, sent>>, tpc' = tpc
    PROVE  RingInv'
  BY DEF RingInv, RingHoldsSent, QueueLen, GetIndex

\* A slot of the ring, by how far it is from the first event.
LEMMA PlaceFacts ==
    /\ MaxLen \in Nat \ {0} /\ Mod \in Nat \ {0} /\ MaxLen < Mod /\ Mod % MaxLen = 0
    /\ \A i \in Int : GetIndex(i) = i % MaxLen /\ GetIndex(i) \in 0 .. MaxLen - 1
  BY AoAssumption DEF GetIndex

LEMMA PostRing ==
    ASSUME RingInv, NEW e \in Events \cup {Canceled}, PostEvent(e), tpc' = tpc
    PROVE  RingInv'
<1>1. CASE IsQueueFull
  BY <1>1, RingFrame DEF PostEvent, queueVars
<1>2. CASE ~IsQueueFull
  <2>1. /\ events' = [events EXCEPT ![GetIndex(index)] = e]
        /\ index' = (index + 1) % Mod
        /\ aoSem' = aoSem + 1
        /\ sent' = Append(sent, e)
        /\ outdex' = outdex
    BY <1>2 DEF PostEvent
  <2>2. PICK C \in Nat \ {0}, M \in Nat \ {0} : C = MaxLen /\ M = Mod /\ C < M /\ M % C = 0
    BY PlaceFacts
  <2>3. PICK i \in 0 .. M - 1, o \in 0 .. M - 1 : i = index /\ o = outdex
    BY <2>2 DEF RingInv
  <2>4. PICK n \in 0 .. M - 1 : n = Len(sent) /\ n < C /\ (i - o) % M = n /\ n \in Nat
    <3>1. Len(sent) \in Nat /\ QueueLen = Len(sent) /\ QueueLen = (i - o) % M /\ Len(sent) <= C
      BY <2>2, <2>3 DEF RingInv, RingHoldsSent, QueueLen
    <3>2. ~(Len(sent) >= C)
      BY <1>2, <2>2, <3>1 DEF IsQueueFull
    <3> QED
      BY <2>2, <3>1, <3>2
  <2>5. i = (o + n) % M
    <3>1. EndIs(M, i, o, n)
      BY <2>2, <2>3, <2>4, EndOfRing
    <3> QED
      BY <3>1 DEF EndIs
  <2>6. i % C = (o + n) % C
    <3>1. PICK x \in 0 .. 2 * M - 1 : x = o + n
      BY <2>2, <2>3, <2>4
    <3>2. SamePlace(C, M, x)
      BY <2>2, <3>1, WrapKeepsPlace
    <3> QED
      BY <2>5, <3>1, <3>2 DEF SamePlace
  <2>7. \A k \in 1 .. n : (o + k - 1) % C # (o + n) % C
    <3> SUFFICES ASSUME NEW k \in 1 .. n PROVE (o + k - 1) % C # (o + n) % C
      OBVIOUS
    <3>1. PICK a \in Int, d \in 1 .. C - 1 : a = o + k - 1 /\ d = n - k + 1
      <4>1. o + k - 1 \in Int /\ n - k + 1 \in 1 .. C - 1
        BY <2>2, <2>3, <2>4
      <4> QED
        BY <4>1, Zenon
    <3>2. Apart(C, a, a + d)
      BY <2>2, <3>1, LessThanATurn
    <3>3. a + d = o + n
      BY <2>3, <2>4, <3>1
    <3> QED
      BY <3>1, <3>2, <3>3 DEF Apart
  <2>8. sent' \in Seq(Events \cup {Canceled}) /\ Len(sent') = n + 1
        /\ \A k \in 1 .. n + 1 : sent'[k] = IF k = n + 1 THEN e ELSE sent[k]
    BY <2>1, <2>4 DEF RingInv
  <2>9. events' \in [0 .. MaxLen - 1 -> Events \cup {Canceled, Nothing}]
    BY <2>1 DEF RingInv
  <2>10. /\ GetIndex(index) = (o + n) % C /\ (o + n) % C \in 0 .. C - 1
         /\ \A k \in 1 .. n + 1 : GetIndex(o + k - 1) = (o + k - 1) % C
    <3>1. GetIndex(index) = i % C /\ i % C \in 0 .. C - 1
      <4>1. i \in Int
        BY <2>3
      <4> QED
        BY <2>2, <2>3, <4>1, PlaceFacts
    <3>2. \A k \in 1 .. n + 1 : o + k - 1 \in Int
      BY <2>3, <2>4
    <3> QED
      BY <2>2, <2>6, <3>1, <3>2, PlaceFacts
  <2>11. \A k \in 1 .. n + 1 : events'[GetIndex(outdex' + k - 1)] = sent'[k]
    <3> SUFFICES ASSUME NEW k \in 1 .. n + 1
                 PROVE  events'[GetIndex(outdex' + k - 1)] = sent'[k]
      OBVIOUS
    <3>1. GetIndex(outdex' + k - 1) = (o + k - 1) % C
      BY <2>1, <2>3, <2>10
    <3>2. CASE k = n + 1
      <4>1. o + k - 1 = o + n
        BY <2>3, <2>4, <3>2
      <4> QED
        BY <2>1, <2>2, <2>8, <2>10, <3>1, <3>2, <4>1 DEF RingInv
    <3>3. CASE k # n + 1
      <4>1. k \in 1 .. n
        BY <2>4, <3>3
      <4>2. (o + k - 1) % C # GetIndex(index)
        BY <2>7, <2>10, <4>1
      <4>3. events'[(o + k - 1) % C] = events[(o + k - 1) % C]
        <5>1. (o + k - 1) % C \in 0 .. C - 1
          BY <2>2, <2>3, <4>1
        <5> QED
          BY <2>1, <2>2, <4>2, <5>1 DEF RingInv
      <4>4. events[GetIndex(outdex + k - 1)] = sent[k]
        BY <2>4, <4>1 DEF RingInv, RingHoldsSent
      <4> QED
        BY <2>1, <2>8, <3>1, <3>3, <4>3, <4>4
    <3> QED
      BY <3>2, <3>3
  <2>12. index' \in 0 .. M - 1 /\ QueueLen' = n + 1
    <3>1. LongerBy(M, i, o, n)
      BY <2>2, <2>3, <2>4, LengthFollows
    <3> QED
      BY <2>1, <2>2, <2>3, <3>1 DEF LongerBy, QueueLen
  <2>13. aoSem' \in Nat /\ aoSem' + (IF tpc' = "pop" THEN 1 ELSE 0) = n + 1
    BY <2>1, <2>4 DEF RingInv, RingHoldsSent
  <2>14. RingHoldsSent'
    BY <2>8, <2>11, <2>12, <2>13 DEF RingHoldsSent
  <2> QED
    <3>1. Len(sent') <= MaxLen
      BY <2>2, <2>4, <2>8
    <3>2. index' \in 0 .. Mod - 1 /\ outdex' \in 0 .. Mod - 1
      BY <2>1, <2>2, <2>12 DEF RingInv
    <3> QED
      BY <2>8, <2>9, <2>13, <2>14, <3>1, <3>2 DEF RingInv
<1> QED
  BY <1>1, <1>2

\* pop_event takes the oldest event, and the wake-up that led here.
LEMMA PopRing ==
    ASSUME RingInv, TaskPop
    PROVE  RingInv'
<1>1. PICK C \in Nat \ {0}, M \in Nat \ {0} : C = MaxLen /\ M = Mod /\ C < M /\ M % C = 0
  BY PlaceFacts
<1>2. PICK i \in 0 .. M - 1, o \in 0 .. M - 1 : i = index /\ o = outdex
  BY <1>1 DEF RingInv
<1>3. PICK n \in 0 .. M - 1 : n = Len(sent) /\ n <= C /\ (i - o) % M = n /\ n > 0 /\ aoSem = n - 1
  <2>1. Len(sent) \in Nat /\ QueueLen = Len(sent) /\ QueueLen = (i - o) % M /\ Len(sent) <= C
    BY <1>1, <1>2 DEF RingInv, RingHoldsSent, QueueLen
  <2>2. aoSem + 1 = Len(sent) /\ aoSem \in Nat
    BY DEF RingInv, RingHoldsSent, TaskPop
  <2> QED
    BY <1>1, <2>1, <2>2
<1>4. /\ outdex' = (outdex + 1) % Mod /\ sent' = Tail(sent)
      /\ UNCHANGED <<events, index, aoSem>> /\ tpc' # "pop"
  <2>1. QueueLen # 0
    BY <1>1, <1>2, <1>3 DEF QueueLen
  <2> QED
    BY <2>1 DEF TaskPop
<1>5. /\ sent' \in Seq(Events \cup {Canceled}) /\ Len(sent') = n - 1
      /\ \A k \in 1 .. n - 1 : sent'[k] = sent[k + 1]
  BY <1>3, <1>4 DEF RingInv
<1>6. outdex' \in 0 .. M - 1 /\ QueueLen' = n - 1
  <2>1. ShorterBy(M, i, o, n)
    BY <1>1, <1>2, <1>3, LengthFollows
  <2> QED
    BY <1>1, <1>2, <1>4, <2>1 DEF ShorterBy, QueueLen
<1>7. \A k \in 1 .. n - 1 : (((o + 1) % M) + k - 1) % C = (o + k) % C
  <2> SUFFICES ASSUME NEW k \in 1 .. n - 1
               PROVE  (((o + 1) % M) + k - 1) % C = (o + k) % C
    OBVIOUS
  <2>1. CASE o + 1 < M
    <3>1. (o + 1) % M = o + 1
      BY <1>2, <2>1
    <3>2. (o + 1) + k - 1 = o + k
      BY <1>2, <1>3
    <3> QED
      BY <3>1, <3>2
  <2>2. CASE o + 1 = M
    <3>1. (o + 1) % M = 0
      BY <1>2, <2>2
    <3>2. PICK q \in Int, r \in 0 .. C - 1 : M = q * C + r /\ M % C = r
      <4>1. PICK m \in Int : m = M
        OBVIOUS
      <4>2. \E q \in Int, r \in 0 .. C - 1 : m = q * C + r /\ m % C = r
        BY <1>1, Divided
      <4> QED
        BY <4>1, <4>2
    <3>3. PICK x \in Int : x = k - 1
      BY <1>3
    <3>4. (q * C + x) % C = x % C
      BY <1>1, WholeTurns, Zenon
    <3>5. M = q * C
      BY <1>1, <3>2
    <3>6. o + k = q * C + x /\ 0 + k - 1 = x
      BY <1>2, <1>3, <2>2, <3>3, <3>5
    <3> QED
      BY <3>1, <3>4, <3>6
  <2> QED
    BY <1>2, <2>1, <2>2
<1>8. \A k \in 1 .. n - 1 : events'[GetIndex(outdex' + k - 1)] = sent'[k]
  <2> SUFFICES ASSUME NEW k \in 1 .. n - 1
               PROVE  events'[GetIndex(outdex' + k - 1)] = sent'[k]
    OBVIOUS
  <2>1. outdex' + k - 1 \in Int /\ o + k \in Int
    BY <1>2, <1>3, <1>6
  <2>2. GetIndex(outdex' + k - 1) = (outdex' + k - 1) % C /\ GetIndex(o + k) = (o + k) % C
    BY <1>1, <2>1, PlaceFacts
  <2>3. (outdex' + k - 1) % C = (o + k) % C
    BY <1>1, <1>2, <1>4, <1>7
  <2>4. k + 1 \in 1 .. Len(sent) /\ o + (k + 1) - 1 = o + k
    BY <1>2, <1>3
  <2>5. events[GetIndex(o + (k + 1) - 1)] = sent[k + 1]
    BY <1>2, <2>4 DEF RingInv, RingHoldsSent
  <2> QED
    BY <1>4, <1>5, <2>2, <2>3, <2>4, <2>5
<1>9. aoSem' \in Nat /\ aoSem' + (IF tpc' = "pop" THEN 1 ELSE 0) = n - 1
  BY <1>3, <1>4 DEF RingInv
<1>10. RingHoldsSent'
  BY <1>5, <1>6, <1>8, <1>9 DEF RingHoldsSent
<1> QED
  BY <1>1, <1>3, <1>4, <1>5, <1>6, <1>9, <1>10 DEF RingInv

(***************************************************************************)
(* The timer pool.                                                         *)
(***************************************************************************)
LEMMA PoolTypes == NoTimer \in Timer /\ Slots \subseteq Nat
  BY AoAssumption DEF NoTimer, Timer, Slots

LEMMA AddTimerType ==
    ASSUME timers \in [Slots -> Timer], NEW e \in Events, NEW d \in Delays, NEW i \in {0, d},
           AddTimer(e, d, i)
    PROVE  timers' \in [Slots -> Timer]
<1>1. d \in Nat /\ i \in Nat
  BY AoAssumption
<1>2. [event |-> e, timeout |-> d, interval |-> i] \in Timer
  BY <1>1 DEF Timer
<1>3. CASE {s \in Slots : timers[s].event = Nothing} = {}
  BY <1>3 DEF AddTimer
<1>4. CASE {s \in Slots : timers[s].event = Nothing} # {}
  <2>1. \E s : timers' = [timers EXCEPT ![s] = [event |-> e, timeout |-> d, interval |-> i]]
    BY <1>4, Zenon DEF AddTimer
  <2> QED
    BY <1>2, <2>1
<1> QED
  BY <1>3, <1>4

\* process_timer on one slot: the pool keeps its type, and without ao_lock the
\* thread touches no event of the queue or of the pool.
LEMMA StepSlotFacts ==
    ASSUME timers \in [Slots -> Timer], StepSlot
    PROVE  /\ timers' \in [Slots -> Timer]
           /\ \/ /\ MayLockAo(TimerThread) /\ timers[slot].event \in Events
                 /\ PostEvent(timers[slot].event) /\ AfterPost(slot)
              \/ /\ UNCHANGED queueVars
                 /\ \A s \in Slots : timers'[s].event = timers[s].event
<1>1. slot \in Slots /\ timers[slot] \in Timer
  BY DEF StepSlot
<1>2. CASE timers[slot].event = Nothing
  BY <1>2 DEF StepSlot
<1>3. CASE timers[slot].event # Nothing /\ UpdateTimeout(slot) > 0
  <2>1. timers' = [timers EXCEPT ![slot].timeout = UpdateTimeout(slot)] /\ UNCHANGED queueVars
    BY <1>3 DEF StepSlot
  <2>2. UpdateTimeout(slot) \in Nat
    BY <1>1 DEF UpdateTimeout, Timer
  <2>3. [timers[slot] EXCEPT !.timeout = UpdateTimeout(slot)] \in Timer
        /\ [timers[slot] EXCEPT !.timeout = UpdateTimeout(slot)].event = timers[slot].event
    BY <1>1, <2>2 DEF Timer
  <2>4. timers' = [timers EXCEPT ![slot] = [timers[slot] EXCEPT !.timeout = UpdateTimeout(slot)]]
    BY <1>1, <2>1
  <2> QED
    BY <1>1, <2>1, <2>3, <2>4
<1>4. CASE timers[slot].event # Nothing /\ ~(UpdateTimeout(slot) > 0)
  <2>1. /\ MayLockAo(TimerThread) /\ PostEvent(timers[slot].event) /\ AfterPost(slot)
    BY <1>4 DEF StepSlot
  <2>2. timers[slot].event \in Events
    BY <1>1, <1>4 DEF Timer
  <2>3. \E t \in Timer : timers' = [timers EXCEPT ![slot] = t]
    <3>1. CASE IsQueueFull
      <4>1. timers' = [timers EXCEPT ![slot] = [timers[slot] EXCEPT !.timeout = 0]]
        BY <1>1, <2>1, <3>1 DEF AfterPost
      <4>2. [timers[slot] EXCEPT !.timeout = 0] \in Timer
        BY <1>1 DEF Timer
      <4> QED
        BY <4>1, <4>2
    <3>2. CASE ~IsQueueFull /\ timers[slot].interval = 0
      <4>1. timers' = [timers EXCEPT ![slot] = NoTimer]
        BY <1>1, <2>1, <3>2 DEF AfterPost
      <4> QED
        BY <4>1, PoolTypes
    <3>3. CASE ~IsQueueFull /\ timers[slot].interval # 0
      <4>1. timers' = [timers EXCEPT ![slot] = [timers[slot] EXCEPT !.timeout = timers[slot].interval]]
        BY <1>1, <2>1, <3>3 DEF AfterPost
      <4>2. [timers[slot] EXCEPT !.timeout = timers[slot].interval] \in Timer
        BY <1>1 DEF Timer
      <4> QED
        BY <4>1, <4>2
    <3> QED
      BY <3>1, <3>2, <3>3
  <2> QED
    BY <2>1, <2>2, <2>3
<1> QED
  BY <1>2, <1>3, <1>4

(***************************************************************************)
(* The steps.                                                              *)
(***************************************************************************)

\* A thread inside an _if_unique call keeps what it found in every step that
\* leaves the queue and the pool's events alone, and so in every step of
\* another thread that had to take ao_lock.
LEMMA FoundFrame ==
    ASSUME CallInv, FoundInv,
           UNCHANGED <<pc, arg, aoOwner>>,
           \/ /\ UNCHANGED <<events, index, outdex>>
              /\ \A s \in Slots : timers'[s].event = timers[s].event
           \/ \E th \in Threads : /\ aoOwner \in {Nothing, th}
                                  /\ th \in Callers => pc[th] \notin InCall
           \/ /\ ~OneLock
    PROVE  FoundInv'
<1> SUFFICES ASSUME NEW th \in Callers, pc[th] \in InCall
             PROVE  /\ aoOwner' = th /\ arg'[th] \in Events
                    /\ OneLock => ~IsQueued(arg[th])'
                    /\ OneLock /\ pc'[th] = "add" => ~IsArmed(arg[th])'
  BY DEF FoundInv
<1>1. /\ aoOwner = th /\ arg[th] \in Events /\ th # Nothing
      /\ OneLock => ~IsQueued(arg[th])
      /\ OneLock /\ pc[th] = "add" => ~IsArmed(arg[th])
  BY AoAssumption DEF FoundInv
<1>2. CASE ~OneLock
  BY <1>1, <1>2
<1>3. CASE \E h \in Threads : /\ aoOwner \in {Nothing, h}
                              /\ h \in Callers => pc[h] \notin InCall
  BY <1>1, <1>3
<1>4. CASE /\ UNCHANGED <<events, index, outdex>>
           /\ \A s \in Slots : timers'[s].event = timers[s].event
  <2>1. IsQueued(arg[th])' <=> IsQueued(arg[th])
    BY <1>4 DEF IsQueued, QueueLen, GetIndex
  <2>2. IsArmed(arg[th])' <=> IsArmed(arg[th])
    BY <1>4 DEF IsArmed
  <2> QED
    BY <1>1, <2>1, <2>2
<1> QED
  BY <1>2, <1>3, <1>4

LEMMA AoStep == AoInv /\ [AoNext]_aoVars => AoInv'
<1> SUFFICES ASSUME AoInv, [AoNext]_aoVars PROVE AoInv'
  OBVIOUS
<1> USE DEF queueVars, lockVars, callVars, taskVars
<1>0. RingInv /\ CallInv /\ FoundInv
  BY DEF AoInv
<1>1. ASSUME NEW th \in Callers, NEW e \in Events, Post(th, e)
      PROVE  AoInv'
  <2>1. RingInv'
    BY <1>0, <1>1, PostRing DEF Post
  <2>2. CallInv'
    BY <1>0, <1>1 DEF Post, CallInv
  <2>3. FoundInv'
    <3>1. th \in Threads /\ aoOwner \in {Nothing, th} /\ pc[th] \notin InCall
      BY <1>1 DEF Post, Threads, MayLockAo, Starts, InCall
    <3> QED
      BY <1>0, <1>1, <3>1, FoundFrame DEF Post
  <2> QED
    BY <2>1, <2>2, <2>3 DEF AoInv
<1>2. ASSUME NEW th \in Callers, NEW e \in Events, NEW c \in AllCalls, NEW d \in Delays,
             PostLater(th, c, e, d)
      PROVE  AoInv'
  <2>1. RingInv'
    BY <1>0, <1>2, RingFrame DEF PostLater
  <2>2. CallInv'
    <3>1. timers' \in [Slots -> Timer]
      <4>1. PICK i \in {0, d} : AddTimer(e, d, i)
        BY <1>2 DEF PostLater
      <4> QED
        BY <1>0, <4>1, AddTimerType DEF CallInv
    <3> QED
      BY <1>0, <1>2, <3>1 DEF PostLater, CallInv
  <2>3. FoundInv'
    <3>1. ~OneLock \/ (th \in Threads /\ aoOwner \in {Nothing, th} /\ pc[th] \notin InCall)
      BY <1>2 DEF PostLater, Threads, MayLockTimer, Starts, InCall
    <3> QED
      BY <1>0, <1>2, <3>1, FoundFrame DEF PostLater
  <2> QED
    BY <2>1, <2>2, <2>3 DEF AoInv
<1>3. ASSUME NEW th \in Callers, NEW e \in Events, CancelEvent(th, e)
      PROVE  AoInv'
  <2>1. RingInv'
    BY <1>0, <1>3, RingFrame DEF CancelEvent
  <2>2. CallInv'
    <3>1. timers' \in [Slots -> Timer]
      BY <1>0, <1>3, PoolTypes DEF CancelEvent, CallInv
    <3> QED
      BY <1>0, <1>3, <3>1 DEF CancelEvent, CallInv
  <2>3. FoundInv'
    <3>1. ~OneLock \/ (th \in Threads /\ aoOwner \in {Nothing, th} /\ pc[th] \notin InCall)
      BY <1>3 DEF CancelEvent, Threads, MayLockTimer, Starts, InCall
    <3> QED
      BY <1>0, <1>3, <3>1, FoundFrame DEF CancelEvent
  <2> QED
    BY <2>1, <2>2, <2>3 DEF AoInv
<1>4. ASSUME NEW th \in Callers, NEW e \in Events, NEW c \in AllCalls, Unique(th, c, e)
      PROVE  AoInv'
  <2>1. RingInv'
    BY <1>0, <1>4, RingFrame DEF Unique
  <2>2. /\ UNCHANGED <<events, index, outdex, timers, timerOwner, slot>>
        /\ aoOwner \in {Nothing, th} /\ pc[th] = "idle"
    BY <1>4 DEF Unique, MayLockAo, Starts
  <2>3. CASE IsQueued(e)
    <3>1. UNCHANGED <<aoOwner, pc, arg>>
      BY <1>4, <2>3 DEF Unique
    <3>2. CallInv'
      BY <1>0, <2>2, <3>1 DEF CallInv
    <3>3. FoundInv'
      BY <1>0, <2>2, <3>1, FoundFrame
    <3> QED
      BY <2>1, <3>2, <3>3 DEF AoInv
  <2>4. CASE ~IsQueued(e)
    <3>1. /\ aoOwner' = th
          /\ pc' = [pc EXCEPT ![th] = "isArmed"] /\ arg' = [arg EXCEPT ![th] = e]
      BY <1>4, <2>4 DEF Unique
    <3>2. CallInv'
      BY <1>0, <2>2, <3>1 DEF CallInv
    <3>3. FoundInv'
      <4> SUFFICES ASSUME NEW h \in Callers, pc'[h] \in InCall
                   PROVE  /\ aoOwner' = h /\ arg'[h] \in Events
                          /\ OneLock => ~IsQueued(arg[h])'
                          /\ OneLock /\ pc'[h] = "add" => ~IsArmed(arg[h])'
        BY DEF FoundInv
      <4>1. h = th
        <5>1. h # th => pc[h] \in InCall
          BY <1>0, <3>1 DEF CallInv
        <5>2. pc[h] \in InCall => aoOwner = h
          BY <1>0 DEF FoundInv
        <5> QED
          BY <2>2, <5>1, <5>2, AoAssumption
      <4>2. arg'[h] = e /\ pc'[h] = "isArmed"
        BY <1>0, <3>1, <4>1 DEF CallInv
      <4>3. IsQueued(arg[h])' <=> IsQueued(e)
        BY <2>2, <4>2 DEF IsQueued, QueueLen, GetIndex
      <4> QED
        BY <2>4, <3>1, <4>1, <4>2, <4>3
    <3> QED
      BY <2>1, <3>2, <3>3 DEF AoInv
  <2> QED
    BY <2>3, <2>4
<1>5. ASSUME NEW th \in Callers, UniqueArmed(th)
      PROVE  AoInv'
  <2>1. RingInv'
    BY <1>0, <1>5, RingFrame DEF UniqueArmed
  <2>2. /\ UNCHANGED <<events, index, outdex, timers, timerOwner, slot, arg>>
        /\ pc[th] = "isArmed" /\ aoOwner = th
        /\ \/ /\ IsArmed(arg[th])
              /\ pc' = [pc EXCEPT ![th] = "idle"] /\ aoOwner' = Nothing
           \/ /\ ~IsArmed(arg[th])
              /\ pc' = [pc EXCEPT ![th] = "add"] /\ aoOwner' = aoOwner
    BY <1>0, <1>5 DEF UniqueArmed, FoundInv, InCall
  <2>3. CallInv'
    BY <1>0, <2>2 DEF CallInv
  <2>4. FoundInv'
    <3> SUFFICES ASSUME NEW h \in Callers, pc'[h] \in InCall
                 PROVE  /\ aoOwner' = h /\ arg'[h] \in Events
                        /\ OneLock => ~IsQueued(arg[h])'
                        /\ OneLock /\ pc'[h] = "add" => ~IsArmed(arg[h])'
      BY DEF FoundInv
    <3>1. h = th
      <4>1. h # th => pc[h] \in InCall
        BY <1>0, <2>2 DEF CallInv
      <4>2. pc[h] \in InCall => aoOwner = h
        BY <1>0 DEF FoundInv
      <4> QED
        BY <2>2, <4>1, <4>2
    <3>2. pc'[th] \in InCall => ~IsArmed(arg[th]) /\ aoOwner' = th
      BY <1>0, <2>2 DEF CallInv, InCall
    <3>3. arg[th] \in Events /\ (OneLock => ~IsQueued(arg[th]))
      BY <1>0, <2>2 DEF FoundInv, InCall
    <3>4. (IsQueued(arg[h])' <=> IsQueued(arg[h])) /\ (IsArmed(arg[h])' <=> IsArmed(arg[h]))
      BY <2>2 DEF IsQueued, IsArmed, QueueLen, GetIndex
    <3> QED
      BY <2>2, <3>1, <3>2, <3>3, <3>4
  <2> QED
    BY <2>1, <2>3, <2>4 DEF AoInv
<1>6. ASSUME NEW th \in Callers, NEW d \in Delays, UniqueAdd(th, d)
      PROVE  AoInv'
  <2>1. /\ pc[th] = "add" /\ aoOwner = th /\ arg[th] \in Events
        /\ pc' = [pc EXCEPT ![th] = "idle"] /\ aoOwner' = Nothing
        /\ UNCHANGED <<timerOwner, arg, slot, tpc>>
    BY <1>0, <1>6 DEF UniqueAdd, FoundInv, InCall
  <2>2. RingInv' /\ timers' \in [Slots -> Timer]
    <3>1. CASE call[th] = "postUnique"
      <4>1. PostEvent(arg[th]) /\ UNCHANGED timers
        BY <1>6, <3>1 DEF UniqueAdd
      <4> QED
        BY <1>0, <2>1, <4>1, PostRing DEF CallInv
    <3>2. CASE call[th] # "postUnique"
      <4>1. PICK i \in {0, d} : AddTimer(arg[th], d, i)
        BY <1>6, <3>2 DEF UniqueAdd
      <4>2. timers' \in [Slots -> Timer]
        BY <1>0, <2>1, <4>1, AddTimerType DEF CallInv
      <4>3. RingInv'
        BY <1>0, <1>6, <2>1, <3>2, RingFrame DEF UniqueAdd
      <4> QED
        BY <4>2, <4>3
    <3> QED
      BY <3>1, <3>2
  <2>3. CallInv'
    BY <1>0, <2>1, <2>2 DEF CallInv
  <2>4. FoundInv'
    <3>1. ASSUME NEW h \in Callers PROVE pc'[h] \notin InCall
      <4>1. CASE h = th
        BY <1>0, <2>1, <4>1 DEF CallInv, InCall
      <4>2. CASE h # th
        <5>1. pc[h] \notin InCall
          BY <1>0, <2>1, <4>2 DEF FoundInv
        <5> QED
          BY <1>0, <2>1, <4>2, <5>1 DEF CallInv
      <4> QED
        BY <4>1, <4>2
    <3> QED
      BY <3>1 DEF FoundInv
  <2> QED
    BY <2>2, <2>3, <2>4 DEF AoInv
<1>7. ASSUME NEW th \in Callers, Stop(th) \/ StopJoin(th)
      PROVE  AoInv'
  <2>1. RingInv'
    <3>1. CASE Stop(th)
      BY <1>0, <3>1, PostRing DEF Stop
    <3>2. CASE StopJoin(th)
      BY <1>0, <3>2, RingFrame DEF StopJoin
    <3> QED
      BY <1>7, <3>1, <3>2
  <2>2. CallInv'
    BY <1>0, <1>7 DEF Stop, StopJoin, CallInv
  <2>3. FoundInv'
    <3>1. CASE Stop(th)
      BY <3>1 DEF Stop, FoundInv, InCall
    <3>2. CASE StopJoin(th)
      <4>1. \A h \in Callers : pc'[h] \in InCall => pc'[h] = pc[h]
        BY <1>0, <3>2 DEF StopJoin, CallInv, InCall
      <4>2. /\ UNCHANGED <<events, index, outdex, timers, arg, aoOwner>>
        BY <3>2 DEF StopJoin
      <4>3. \A h \in Callers : (IsQueued(arg[h])' <=> IsQueued(arg[h]))
                               /\ (IsArmed(arg[h])' <=> IsArmed(arg[h]))
        BY <4>2 DEF IsQueued, IsArmed, QueueLen, GetIndex
      <4> QED
        BY <1>0, <4>1, <4>2, <4>3 DEF FoundInv
    <3> QED
      BY <1>7, <3>1, <3>2
  <2> QED
    BY <2>1, <2>2, <2>3 DEF AoInv
<1>8. CASE StepBegin \/ StepEnd
  <2>1. RingInv'
    BY <1>0, <1>8, RingFrame DEF StepBegin, StepEnd
  <2>2. CallInv'
    <3>1. 0 \in 0 .. NumTimers + 1 /\ 1 \in 0 .. NumTimers + 1
      BY AoAssumption
    <3> QED
      BY <1>0, <1>8, <3>1 DEF StepBegin, StepEnd, CallInv
  <2>3. FoundInv'
    BY <1>0, <1>8, FoundFrame DEF StepBegin, StepEnd
  <2> QED
    BY <2>1, <2>2, <2>3 DEF AoInv
<1>9. CASE StepSlot
  <2>1. /\ timers' \in [Slots -> Timer]
        /\ \/ /\ MayLockAo(TimerThread) /\ timers[slot].event \in Events
              /\ PostEvent(timers[slot].event) /\ AfterPost(slot)
           \/ /\ UNCHANGED queueVars
              /\ \A s \in Slots : timers'[s].event = timers[s].event
    BY <1>0, <1>9, StepSlotFacts DEF CallInv
  <2>2. /\ slot \in Slots /\ slot' = slot + 1
        /\ UNCHANGED <<aoOwner, timerOwner, pc, call, arg, tpc>>
    BY <1>9 DEF StepSlot
  <2>3. RingInv'
    BY <1>0, <2>1, <2>2, PostRing, RingFrame
  <2>4. CallInv'
    <3>1. slot' \in 0 .. NumTimers + 1
      BY <2>2, AoAssumption DEF Slots
    <3> QED
      BY <1>0, <2>1, <2>2, <3>1 DEF CallInv
  <2>5. FoundInv'
    <3>1. CASE MayLockAo(TimerThread)
      <4>1. TimerThread \in Threads /\ aoOwner \in {Nothing, TimerThread} /\ TimerThread \notin Callers
        BY <3>1, AoAssumption DEF Threads, MayLockAo
      <4> QED
        BY <1>0, <2>2, <4>1, FoundFrame
    <3>2. CASE /\ UNCHANGED queueVars
               /\ \A s \in Slots : timers'[s].event = timers[s].event
      BY <1>0, <2>2, <3>2, FoundFrame
    <3> QED
      BY <2>1, <3>1, <3>2
  <2> QED
    BY <2>3, <2>4, <2>5 DEF AoInv
<1>10. CASE TaskWait
  <2>1. /\ UNCHANGED <<events, index, outdex, sent, timers, aoOwner, timerOwner, pc, arg, slot>>
        /\ tpc = "wait" /\ aoSem > 0 /\ aoSem' = aoSem - 1 /\ tpc' = "pop"
    BY <1>10 DEF TaskWait
  <2>2. RingInv'
    <3>1. /\ QueueLen' = QueueLen
          /\ \A k \in 1 .. Len(sent) : events'[GetIndex(outdex + k - 1)'] = sent'[k]
      BY <1>0, <2>1 DEF RingInv, RingHoldsSent, QueueLen, GetIndex
    <3>2. aoSem' \in Nat /\ aoSem' + 1 = Len(sent)
      BY <1>0, <2>1 DEF RingInv, RingHoldsSent
    <3>3. RingHoldsSent'
      BY <1>0, <2>1, <3>1, <3>2 DEF RingInv, RingHoldsSent, GetIndex
    <3> QED
      BY <1>0, <2>1, <3>2, <3>3 DEF RingInv
  <2>3. CallInv'
    BY <1>0, <2>1 DEF CallInv
  <2>4. FoundInv'
    BY <1>0, <2>1, FoundFrame
  <2> QED
    BY <2>2, <2>3, <2>4 DEF AoInv
<1>11. CASE TaskPop
  <2>1. RingInv'
    BY <1>0, <1>11, PopRing
  <2>2. CallInv'
    BY <1>0, <1>11 DEF TaskPop, CallInv
  <2>3. FoundInv'
    <3>1. Task \in Threads /\ aoOwner \in {Nothing, Task} /\ Task \notin Callers
      BY <1>11, AoAssumption DEF TaskPop, Threads, MayLockAo
    <3> QED
      BY <1>0, <1>11, <3>1, FoundFrame DEF TaskPop
  <2> QED
    BY <2>1, <2>2, <2>3 DEF AoInv
<1>12. CASE TaskDispatch \/ UNCHANGED aoVars
  <2>1. UNCHANGED <<events, index, outdex, aoSem, sent, timers, aoOwner, timerOwner, pc, arg, slot>>
        /\ (tpc' = tpc \/ (tpc # "pop" /\ tpc' # "pop"))
    BY <1>12 DEF TaskDispatch, aoVars
  <2>2. RingInv'
    BY <1>0, <2>1 DEF RingInv, RingHoldsSent, QueueLen, GetIndex
  <2>3. CallInv' /\ FoundInv'
    BY <1>0, <2>1, FoundFrame DEF CallInv
  <2> QED
    BY <2>2, <2>3 DEF AoInv
<1> QED
  BY <1>1, <1>2, <1>3, <1>4, <1>5, <1>6, <1>7, <1>8, <1>9, <1>10, <1>11, <1>12
  DEF AoNext, CallStep, TaskStep, TimerStep

\* The ring of an active object holds exactly the events it accepted and has not
\* popped, in order, through the wrap-around of its uint16_t indices and at full
\* load, with one wake-up of the task for each; and where one lock guards queue
\* and timers, what an _if_unique call found is still so when it adds its event.
THEOREM RingIsExact == AoSpec => []AoQueueExact
<1>1. AoSpec => []AoInv
  BY AoInitInv, AoStep, PTL DEF AoSpec
<1> QED
  BY <1>1, AoInvImplies, PTL

\* What a step of the timer thread does to the timer it looks at.
TimerStepKeeps ==
    slot \in Slots /\ slot' = slot + 1
       /\ timers[slot].event # Nothing /\ timers'[slot] = NoTimer
       => sent' = Append(sent, timers[slot].event)

LEMMA TimerStepStep == AoInv /\ [AoNext]_aoVars => [TimerStepKeeps]_aoVars
<1> SUFFICES ASSUME AoInv, AoNext, slot \in Slots, slot' = slot + 1,
                    timers[slot].event # Nothing, timers'[slot] = NoTimer
             PROVE  sent' = Append(sent, timers[slot].event)
  BY DEF TimerStepKeeps
<1>0. slot \in Nat /\ slot > 0 /\ timers \in [Slots -> Timer]
  BY AoAssumption DEF AoInv, CallInv, Slots
<1>1. StepSlot
  <2>1. slot' # slot /\ slot # 0
    BY <1>0
  <2>2. ~(\E th \in Callers :
            \/ CallStep(th) \/ Stop(th)
            \/ \E e \in Events :
                  \/ Post(th, e) \/ CancelEvent(th, e)
                  \/ \E c \in AllCalls, d \in Delays : PostLater(th, c, e, d)
                  \/ \E c \in AllCalls : Unique(th, c, e))
    BY <2>1 DEF CallStep, UniqueArmed, UniqueAdd, StopJoin, Stop, Post, CancelEvent, PostLater, Unique
  <2>3. ~TaskStep /\ ~StepBegin
    BY <2>1 DEF TaskStep, TaskWait, TaskPop, TaskDispatch, StepBegin
  <2>4. ~StepEnd
    BY <1>0 DEF StepEnd
  <2> QED
    BY <2>2, <2>3, <2>4 DEF AoNext, TimerStep
<1>2. timers'[slot].event = Nothing
  BY DEF NoTimer
<1>3. MayLockAo(TimerThread) /\ PostEvent(timers[slot].event) /\ AfterPost(slot)
  BY <1>0, <1>1, <1>2, StepSlotFacts
<1>4. ~IsQueueFull
  <2>1. IsQueueFull => timers' = [timers EXCEPT ![slot] = [timers[slot] EXCEPT !.timeout = 0]]
    BY <1>0, <1>3 DEF AfterPost
  <2>2. [timers[slot] EXCEPT !.timeout = 0].event = timers[slot].event
    BY <1>0 DEF Timer
  <2>3. IsQueueFull => timers'[slot] = [timers[slot] EXCEPT !.timeout = 0]
    BY <1>0, <2>1
  <2> QED
    BY <1>2, <2>2, <2>3
<1> QED
  BY <1>3, <1>4 DEF PostEvent

\* A deferred event is not lost to a full queue: in a step of the timer thread a
\* timer goes away only when its event went into the queue.
THEOREM TimedEventsKept == AoSpec => TimedEventNotLost
<1>1. AoSpec => []AoInv
  BY AoInitInv, AoStep, PTL DEF AoSpec
<1>2. AoInv /\ [AoNext]_aoVars
        => [/\ slot \in Slots /\ slot' = slot + 1
            /\ timers[slot].event # Nothing /\ timers'[slot] = NoTimer
            => sent' = Append(sent, timers[slot].event)]_aoVars
  BY TimerStepStep DEF TimerStepKeeps
<1> QED
  BY <1>1, <1>2, PTL DEF AoSpec, TimedEventNotLost
=============================================================================
