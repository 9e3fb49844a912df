---------------------------- MODULE ServiceProofs ----------------------------
(***************************************************************************)
(* Proofs about the modules an application calls for its own control flow: *)
(* the runners, the command line, the tiny broker, the buttons and the     *)
(* callbacks of the power modes.                                           *)
(***************************************************************************)
EXTENDS Runner, Cli, PubSubTiny, Button, Pm, FiniteSetTheorems, SequenceTheorems,
        NaturalsInduction, WellFoundedInduction, TLAPS

(***************************************************************************)
(* Runners: any number of them, and any depth of nested changes.           *)
(***************************************************************************)
Runners == Types \cup {Unknown}
Frames == [type : Runners, old : Runners, bypass : BOOLEAN,
           pc : {"pre", "terminate", "prepare", "post"}]

RunnerTypes ==
    /\ current \in Runners \cup {Null} /\ frames \in Seq(Frames)
    /\ bypassed \in BOOLEAN
    /\ current = Null => frames = <<>> /\ prepared = {}

\* While no change overtook another, only the innermost one may still have its
\* old runner to terminate, and that is the current one: so it takes from
\* `prepared' what is there.
InnermostOnly ==
    /\ \A i \in 1 .. Len(frames) - 1 : frames[i].pc \in {"prepare", "post"}
    /\ \A i \in 1 .. Len(frames) : ~frames[i].bypass
    /\ frames # <<>> /\ Top.pc \in {"pre", "terminate"} => Top.old = current
    /\ prepared = IF frames # <<>> /\ Top.pc = "terminate" THEN {} ELSE {current} \cap Types

RunnerInv == RunnerTypes /\ (~bypassed => InnermostOnly)

\* The innermost frame moves on, or returns.
LEMMA FrameFacts ==
    ASSUME RunnerTypes, frames # <<>>
    PROVE  /\ Len(frames) \in Nat \ {0} /\ Top \in Frames
           /\ \A pc \in {"pre", "terminate", "prepare", "post"} : Goto(pc) =>
                /\ frames' \in Seq(Frames) /\ Len(frames') = Len(frames)
                /\ Top' = [Top EXCEPT !.pc = pc] /\ frames' # <<>>
                /\ \A i \in 1 .. Len(frames) - 1 : frames'[i] = frames[i]
           /\ Return =>
                /\ frames' \in Seq(Frames) /\ Len(frames') = Len(frames) - 1
                /\ \A i \in 1 .. Len(frames) - 1 : frames'[i] = frames[i]
                /\ frames' # <<>> => Top' = frames[Len(frames) - 1]
<1>1. frames \in Seq(Frames) /\ Len(frames) \in Nat \ {0} /\ Top \in Frames
  BY DEF RunnerTypes, Top
<1>2. ASSUME NEW pc \in {"pre", "terminate", "prepare", "post"}, Goto(pc)
      PROVE  /\ frames' \in Seq(Frames) /\ Len(frames') = Len(frames)
             /\ Top' = [Top EXCEPT !.pc = pc] /\ frames' # <<>>
             /\ \A i \in 1 .. Len(frames) - 1 : frames'[i] = frames[i]
  <2>1. PICK f \in Frames : f = [Top EXCEPT !.pc = pc]
    BY <1>1 DEF Frames
  <2>2. frames' = [frames EXCEPT ![Len(frames)] = f]
    BY <1>2, <2>1 DEF Goto, Top
  <2>3. frames' \in Seq(Frames) /\ Len(frames') = Len(frames)
    BY <1>1, <2>2
  <2>4. frames'[Len(frames)] = f /\ \A i \in 1 .. Len(frames) - 1 : frames'[i] = frames[i]
    BY <1>1, <2>2
  <2> QED
    BY <1>1, <2>1, <2>3, <2>4 DEF Top
<1>3. ASSUME Return
      PROVE  /\ frames' \in Seq(Frames) /\ Len(frames') = Len(frames) - 1
             /\ \A i \in 1 .. Len(frames) - 1 : frames'[i] = frames[i]
             /\ frames' # <<>> => Top' = frames[Len(frames) - 1]
  <2>1. /\ frames' \in Seq(Frames) /\ Len(frames') = Len(frames) - 1
        /\ \A i \in 1 .. Len(frames) - 1 : frames'[i] = frames[i]
    <3>1. PICK n \in Nat : Len(frames) = n + 1
      BY <1>1
    <3>2. /\ SubSeq(frames, 1, n) \in Seq(Frames) /\ Len(SubSeq(frames, 1, n)) = n
          /\ \A i \in 1 .. n : SubSeq(frames, 1, n)[i] = frames[i]
      BY <1>1, <3>1
    <3>3. frames' = SubSeq(frames, 1, n) /\ Len(frames) - 1 = n
      BY <1>3, <3>1 DEF Return
    <3> QED
      BY <3>2, <3>3
  <2>2. frames' # <<>> => Len(frames) - 1 \in 1 .. Len(frames) - 1
    BY <1>1, <2>1
  <2> QED
    BY <2>1, <2>2 DEF Top
<1> QED
  BY <1>1, <1>2, <1>3

\* Frames below the innermost keep what InnermostOnly says of them.
LEMMA MovedFacts ==
    ASSUME InnermostOnly, Len(frames) \in Nat \ {0}, Len(frames') = Len(frames),
           \A i \in 1 .. Len(frames) - 1 : frames'[i] = frames[i],
           Top'.bypass = Top.bypass, Top'.pc \in {"prepare", "post"},
           prepared' = {current'} \cap Types
    PROVE  InnermostOnly'
<1>1. \A i \in 1 .. Len(frames) : i \in 1 .. Len(frames) - 1 \/ i = Len(frames)
  OBVIOUS
<1>2. \A i \in 1 .. Len(frames') : ~frames'[i].bypass
  BY <1>1 DEF InnermostOnly, Top
<1> QED
  BY <1>2 DEF InnermostOnly

LEMMA PoppedFacts ==
    ASSUME InnermostOnly, Len(frames) \in Nat \ {0}, Len(frames') = Len(frames) - 1,
           frames' \in Seq(Frames),
           \A i \in 1 .. Len(frames) - 1 : frames'[i] = frames[i],
           frames' # <<>> => Top' = frames[Len(frames) - 1],
           UNCHANGED <<current, prepared>>, prepared = {current} \cap Types
    PROVE  InnermostOnly'
<1>1. PICK n \in Nat : n = Len(frames) - 1
  OBVIOUS
<1>2. /\ Len(frames') = n /\ \A i \in 1 .. n : frames'[i] = frames[i]
      /\ \A i \in 1 .. n : frames[i].pc \in {"prepare", "post"} /\ ~frames[i].bypass
  BY <1>1 DEF InnermostOnly
<1>3. frames' # <<>> => n \in 1 .. n
  BY <1>1, <1>2
<1>4. frames' # <<>> => Top'.pc \in {"prepare", "post"}
  BY <1>1, <1>2, <1>3
<1>5. \A i \in 1 .. n - 1 : i \in 1 .. n
  BY <1>1
<1> QED
  BY <1>2, <1>4, <1>5 DEF InnermostOnly

LEMMA RunnerStep == RunnerInv /\ [RunnerNext]_runnerVars => RunnerInv'
<1> SUFFICES ASSUME RunnerInv, [RunnerNext]_runnerVars PROVE RunnerInv'
  OBVIOUS
<1>0. /\ RunnerTypes /\ frames \in Seq(Frames) /\ bypassed \in BOOLEAN
      /\ current \in Runners \cup {Null}
      /\ ~bypassed => InnermostOnly
  BY DEF RunnerInv, RunnerTypes
<1>1. ASSUME NEW type \in Runners, Start(type) PROVE RunnerInv'
  <2>1. /\ current' = type /\ type # Null /\ UNCHANGED frames
        /\ prepared' = prepared \cup ({type} \cap Types)
        /\ bypassed' = (bypassed \/ current # Null)
    BY <1>1, RunnerAssumption DEF Start, FindRunner, Runners
  <2>2. CASE current = Null
    <3>1. frames = <<>> /\ prepared = {} /\ Len(frames) = 0
      BY <1>0, <2>2 DEF RunnerTypes
    <3>2. prepared' = {type} \cap Types
      BY <2>1, <3>1
    <3> QED
      BY <1>0, <2>1, <3>1, <3>2 DEF RunnerInv, RunnerTypes, InnermostOnly
  <2>3. CASE current # Null
    BY <1>0, <2>1, <2>3 DEF RunnerInv, RunnerTypes
  <2> QED
    BY <2>2, <2>3
<1>2. ASSUME NEW type \in Runners, NEW bypass \in BOOLEAN, Change(type, bypass)
      PROVE  RunnerInv'
  <2> DEFINE new == [type |-> type, old |-> current, bypass |-> bypass, pc |-> "pre"]
  <2>1. /\ current # Null /\ frames' = Append(frames, new)
        /\ bypassed' = (bypassed \/ bypass
                \/ \E i \in DOMAIN frames : frames[i].pc \in {"pre", "terminate"})
        /\ UNCHANGED <<current, prepared>>
    BY <1>2 DEF Change
  <2>2. new \in Frames /\ new.pc = "pre" /\ new.bypass = bypass /\ new.old = current
    BY <1>0, <2>1 DEF Frames
  <2> HIDE DEF new
  <2>3. PICK n \in Nat : n = Len(frames)
    BY <1>0
  <2>4. /\ frames' \in Seq(Frames) /\ Len(frames') = n + 1 /\ frames' # <<>>
        /\ frames'[n + 1] = new /\ \A i \in 1 .. n : frames'[i] = frames[i]
    BY <1>0, <2>1, <2>2, <2>3
  <2>5. Top' = new
    BY <2>4 DEF Top
  <2>6. ASSUME ~bypassed' PROVE InnermostOnly'
    <3>1. /\ ~bypassed /\ ~bypass /\ InnermostOnly
          /\ \A i \in 1 .. n : frames[i].pc \notin {"pre", "terminate"}
      <4>1. ~(bypassed \/ bypass
                \/ \E i \in DOMAIN frames : frames[i].pc \in {"pre", "terminate"})
        BY <2>1, <2>6
      <4>2. DOMAIN frames = 1 .. n
        BY <1>0, <2>3
      <4> QED
        BY <1>0, <4>1, <4>2
    <3>2. \A i \in 1 .. n : frames[i] \in Frames
      BY <1>0, <2>3
    <3>3. \A i \in 1 .. n : frames[i].pc \in {"prepare", "post"}
      BY <3>1, <3>2 DEF Frames
    <3>4. \A i \in 1 .. Len(frames') - 1 : frames'[i].pc \in {"prepare", "post"}
      BY <2>4, <3>3
    <3>5. \A i \in 1 .. Len(frames') : ~frames'[i].bypass
      <4>1. \A i \in 1 .. n : ~frames[i].bypass
        BY <2>3, <3>1 DEF InnermostOnly
      <4>2. \A i \in 1 .. n + 1 : i \in 1 .. n \/ i = n + 1
        OBVIOUS
      <4> QED
        BY <2>2, <2>4, <3>1, <4>1, <4>2
    <3>6. prepared = {current} \cap Types
      <4>1. frames # <<>> => Top.pc # "terminate"
        BY <1>0, <2>3, <3>1 DEF Top
      <4> QED
        BY <3>1, <4>1 DEF InnermostOnly
    <3> QED
      BY <2>1, <2>2, <2>5, <3>4, <3>5, <3>6 DEF InnermostOnly
  <2> QED
    BY <1>0, <2>1, <2>4, <2>6 DEF RunnerInv, RunnerTypes
<1>3. ASSUME NEW accepted \in BOOLEAN, PreChange(accepted) PROVE RunnerInv'
  <2>1. /\ frames # <<>> /\ Top.pc = "pre" /\ UNCHANGED <<current, bypassed>>
        /\ accepted => Goto("terminate") /\ (~Top.bypass => prepared' = prepared \ {Top.old})
        /\ ~accepted => Return /\ UNCHANGED prepared
    BY <1>3 DEF PreChange
  <2>2. current # Null
    BY <1>0, <2>1 DEF RunnerTypes
  <2>3. Len(frames) \in Nat \ {0} /\ Top \in Frames
    BY <1>0, <2>1, FrameFacts
  <2>4. CASE accepted
    <3>1. /\ frames' \in Seq(Frames) /\ Len(frames') = Len(frames)
          /\ Top' = [Top EXCEPT !.pc = "terminate"] /\ frames' # <<>>
          /\ \A i \in 1 .. Len(frames) - 1 : frames'[i] = frames[i]
      BY <1>0, <2>1, <2>4, FrameFacts
    <3>2. Top'.pc = "terminate" /\ Top'.old = Top.old /\ Top'.bypass = Top.bypass
      BY <2>3, <3>1 DEF Frames
    <3>3. ASSUME ~bypassed' PROVE InnermostOnly'
      <4>1. InnermostOnly /\ ~Top.bypass /\ Top.old = current
        BY <1>0, <2>1, <2>3, <3>3 DEF InnermostOnly, Top
      <4>2. prepared' = {}
        BY <2>1, <2>4, <4>1 DEF InnermostOnly
      <4>3. \A i \in 1 .. Len(frames') - 1 : frames'[i].pc \in {"prepare", "post"}
        BY <3>1, <4>1 DEF InnermostOnly
      <4>4. \A i \in 1 .. Len(frames') : ~frames'[i].bypass
        <5>1. \A i \in 1 .. Len(frames) : i \in 1 .. Len(frames) - 1 \/ i = Len(frames)
          BY <2>3
        <5> QED
          BY <3>1, <3>2, <4>1, <5>1 DEF InnermostOnly, Top
      <4> QED
        BY <2>1, <3>2, <4>1, <4>2, <4>3, <4>4, <3>1 DEF InnermostOnly
    <3> QED
      BY <1>0, <2>1, <2>2, <3>1, <3>3 DEF RunnerInv, RunnerTypes
  <2>5. CASE ~accepted
    <3>1. /\ frames' \in Seq(Frames) /\ Len(frames') = Len(frames) - 1
          /\ \A i \in 1 .. Len(frames) - 1 : frames'[i] = frames[i]
          /\ frames' # <<>> => Top' = frames[Len(frames) - 1]
      BY <1>0, <2>1, <2>5, FrameFacts
    <3>2. ASSUME ~bypassed' PROVE InnermostOnly'
      <4>1. InnermostOnly /\ prepared = {current} \cap Types
        BY <1>0, <2>1, <3>2 DEF InnermostOnly
      <4> QED
        BY <2>1, <2>3, <2>5, <3>1, <4>1, PoppedFacts
    <3> QED
      BY <1>0, <2>1, <2>2, <2>5, <3>1, <3>2 DEF RunnerInv, RunnerTypes
  <2> QED
    BY <2>4, <2>5
<1>4. CASE Terminate
  <2>1. /\ frames # <<>> /\ Top.pc = "terminate" /\ UNCHANGED bypassed
        /\ current' = Top.type /\ Goto("prepare")
        /\ ~Top.bypass => prepared' = prepared \cup ({Top.type} \cap Types)
    BY <1>4 DEF Terminate, FindRunner
  <2>2. Len(frames) \in Nat \ {0} /\ Top \in Frames
    BY <1>0, <2>1, FrameFacts
  <2>3. current' \in Runners /\ current' # Null
    BY <2>1, <2>2, RunnerAssumption DEF Frames, Runners
  <2>4. /\ frames' \in Seq(Frames) /\ Len(frames') = Len(frames)
        /\ Top' = [Top EXCEPT !.pc = "prepare"] /\ frames' # <<>>
        /\ \A i \in 1 .. Len(frames) - 1 : frames'[i] = frames[i]
    BY <1>0, <2>1, FrameFacts
  <2>5. Top'.pc = "prepare" /\ Top'.bypass = Top.bypass
    BY <2>2, <2>4 DEF Frames
  <2>6. ASSUME ~bypassed' PROVE InnermostOnly'
    <3>1. InnermostOnly /\ ~Top.bypass /\ prepared = {}
      BY <1>0, <2>1, <2>2, <2>6 DEF InnermostOnly, Top
    <3>2. prepared' = {current'} \cap Types
      BY <2>1, <3>1
    <3> QED
      BY <2>2, <2>4, <2>5, <3>1, <3>2, MovedFacts
  <2> QED
    BY <1>0, <2>1, <2>3, <2>4, <2>6 DEF RunnerInv, RunnerTypes
<1>5. CASE Prepare
  <2>1. /\ frames # <<>> /\ Top.pc = "prepare" /\ UNCHANGED <<current, prepared, bypassed>>
        /\ Goto("post")
    BY <1>5 DEF Prepare
  <2>2. Len(frames) \in Nat \ {0} /\ Top \in Frames
    BY <1>0, <2>1, FrameFacts
  <2>3. /\ frames' \in Seq(Frames) /\ Len(frames') = Len(frames)
        /\ Top' = [Top EXCEPT !.pc = "post"] /\ frames' # <<>>
        /\ \A i \in 1 .. Len(frames) - 1 : frames'[i] = frames[i]
    BY <1>0, <2>1, FrameFacts
  <2>4. Top'.pc = "post" /\ Top'.bypass = Top.bypass
    BY <2>2, <2>3 DEF Frames
  <2>5. ASSUME ~bypassed' PROVE InnermostOnly'
    <3>1. InnermostOnly /\ prepared' = {current'} \cap Types
      BY <1>0, <2>1, <2>5 DEF InnermostOnly
    <3> QED
      BY <2>2, <2>3, <2>4, <3>1, MovedFacts
  <2> QED
    BY <1>0, <2>1, <2>3, <2>5 DEF RunnerInv, RunnerTypes
<1>6. CASE PostChange
  <2>1. /\ frames # <<>> /\ Top.pc = "post" /\ UNCHANGED <<current, prepared, bypassed>>
        /\ Return
    BY <1>6 DEF PostChange
  <2>2. Len(frames) \in Nat \ {0} /\ Top \in Frames
    BY <1>0, <2>1, FrameFacts
  <2>3. /\ frames' \in Seq(Frames) /\ Len(frames') = Len(frames) - 1
        /\ \A i \in 1 .. Len(frames) - 1 : frames'[i] = frames[i]
        /\ frames' # <<>> => Top' = frames[Len(frames) - 1]
    BY <1>0, <2>1, FrameFacts
  <2>4. ASSUME ~bypassed' PROVE InnermostOnly'
    <3>1. InnermostOnly /\ prepared = {current} \cap Types
      BY <1>0, <2>1, <2>4 DEF InnermostOnly
    <3> QED
      BY <2>1, <2>2, <2>3, <3>1, PoppedFacts
  <2>5. current # Null
    BY <1>0, <2>1 DEF RunnerTypes
  <2> QED
    BY <1>0, <2>1, <2>3, <2>4, <2>5 DEF RunnerInv, RunnerTypes
<1>7. CASE Serve \/ UNCHANGED runnerVars
  <2>1. UNCHANGED <<current, frames, prepared, bypassed>>
    BY <1>7 DEF Serve, runnerVars
  <2> QED
    BY <1>0, <2>1 DEF RunnerInv, RunnerTypes, InnermostOnly, Top
<1> QED
  BY <1>1, <1>2, <1>3, <1>4, <1>5, <1>6, <1>7 DEF RunnerNext, Runners

\* Where no change overtook another, the current runner is the only prepared
\* one whenever no terminate is in progress, however deep changes are nested
\* in prepare and the callback after a change (change_current).
THEOREM CurrentRunnerPrepared == RunnerSpec => []OnlyCurrentPrepared
<1>1. RunnerInit => RunnerInv
  <2> SUFFICES ASSUME RunnerInit PROVE RunnerInv
    OBVIOUS
  <2>1. frames = <<>> /\ current = Null /\ prepared = {} /\ bypassed = FALSE
    BY DEF RunnerInit
  <2>2. frames \in Seq(Frames) /\ Len(frames) = 0 /\ {current} \cap Types = {}
    BY <2>1, RunnerAssumption
  <2>3. InnermostOnly
    BY <2>1, <2>2 DEF InnermostOnly
  <2> QED
    BY <2>1, <2>2, <2>3 DEF RunnerInv, RunnerTypes
<1>2. RunnerInv => OnlyCurrentPrepared
  <2> SUFFICES ASSUME RunnerInv, ~bypassed,
                      \A i \in DOMAIN frames : frames[i].pc # "terminate"
               PROVE  prepared = {current} \cap Types
    BY DEF OnlyCurrentPrepared
  <2>1. frames # <<>> => Top.pc # "terminate"
    BY DEF RunnerInv, RunnerTypes, Top
  <2> QED
    BY <2>1 DEF RunnerInv, InnermostOnly
<1> QED
  BY <1>1, <1>2, RunnerStep, PTL DEF RunnerSpec

(***************************************************************************)
(* The command line: a line of any length, any number of history slots.    *)
(***************************************************************************)
Lines == {l \in Seq(Chars) : Len(l) <= MaxLen}
Slot == {l \in Seq(Chars) : Len(l) < MaxLen}

\* The slot before the one the next entry goes to.
Newest == (Cap + next - 1) % Cap

\* After an end of line there is no line, so swallowing the second character of
\* a pair loses nothing; a slot never holds a full line, so an entry that is
\* skipped for repeating the newest one is all of it there.
CliInv ==
    /\ line \in Lines /\ screen = line /\ last \in Lines
    /\ history \in [0 .. Cap - 1 -> Slot]
    /\ next \in 0 .. Cap - 1 /\ active \in 0 .. Cap - 1
    /\ prev \in Newlines => line = <<>>
    /\ RunsLast
    /\ last # <<>> /\ ran = last => history[Newest] = Stored(last)

LEMMA CliInvImplies == CliInv => CliFaithful
<1> SUFFICES ASSUME CliInv PROVE CliFaithful
  OBVIOUS
<1>1. ASSUME active = next PROVE GetActiveHistoryIndex(-1) = Newest
  <2>1. Cap + -1 + active = Cap + next - 1
    BY <1>1, CliAssumption DEF CliInv
  <2> QED
    BY <2>1 DEF GetActiveHistoryIndex, Newest
<1> QED
  BY <1>1 DEF CliInv, CliFaithful, ScreenIsLine, RecallsLast

\* Slots follow one another in a ring.
LEMMA SlotBehind ==
    ASSUME NEW C \in Nat \ {0}, NEW n \in 0 .. C - 1
    PROVE  /\ (n + 1) % C \in 0 .. C - 1 /\ (C + n - 1) % C \in 0 .. C - 1
           /\ (C + ((n + 1) % C) - 1) % C = n
<1>1. CASE n + 1 < C
  <2>1. (n + 1) % C = n + 1
    BY <1>1
  <2>2. C + (n + 1) - 1 = C + n
    OBVIOUS
  <2>3. (C + n) % C = n
    OBVIOUS
  <2> QED
    BY <2>1, <2>2, <2>3
<1>2. CASE n + 1 = C
  <2>1. (n + 1) % C = 0
    BY <1>2
  <2>2. (C + 0 - 1) % C = n
    BY <1>2
  <2> QED
    BY <2>1, <2>2
<1> QED
  BY <1>1, <1>2

LEMMA SlotFacts ==
    /\ \A n \in 0 .. Cap - 1 : (n + 1) % Cap \in 0 .. Cap - 1
    /\ \A distance \in {-1, 1} : active \in 0 .. Cap - 1
            => GetActiveHistoryIndex(distance) \in 0 .. Cap - 1
    /\ \A l \in Lines : Stored(l) \in Slot
    /\ \A l \in Slot : l \in Lines /\ Stored(l) = l
    /\ <<>> \in Slot /\ <<>> \in Lines
<1>1. PICK C \in Nat \ {0}, M \in Nat \ {0} : C = Cap /\ M = MaxLen
  BY CliAssumption
<1>2. \A n \in 0 .. Cap - 1 : (n + 1) % Cap \in 0 .. Cap - 1
  BY <1>1
<1>3. \A distance \in {-1, 1} : active \in 0 .. Cap - 1
            => GetActiveHistoryIndex(distance) \in 0 .. Cap - 1
  BY <1>1 DEF GetActiveHistoryIndex
<1>4. ASSUME NEW l \in Lines PROVE Stored(l) \in Slot /\ (Len(l) < MaxLen => Stored(l) = l)
  <2>1. l \in Seq(Chars) /\ Len(l) \in Nat /\ Len(l) <= M
    BY <1>1 DEF Lines
  <2>2. PICK n \in 0 .. Len(l) : n = (IF Len(l) < M THEN Len(l) ELSE M - 1) /\ n < M
    BY <1>1, <2>1
  <2>3. /\ SubSeq(l, 1, n) \in Seq(Chars) /\ Len(SubSeq(l, 1, n)) = n
        /\ \A k \in 1 .. n : SubSeq(l, 1, n)[k] = l[k]
    BY <2>1, <2>2
  <2>4. Stored(l) = SubSeq(l, 1, n)
    BY <1>1, <2>2 DEF Stored
  <2>5. Len(l) < M => SubSeq(l, 1, n) = l
    BY <2>1, <2>2, <2>3
  <2> QED
    BY <1>1, <2>2, <2>3, <2>4, <2>5 DEF Slot
<1>5. \A l \in Slot : l \in Lines /\ Len(l) < MaxLen
  BY <1>1 DEF Slot, Lines
<1>6. <<>> \in Slot
  BY <1>1 DEF Slot
<1> QED
  BY <1>2, <1>3, <1>4, <1>5, <1>6

\* Whatever parsing leaves of it, an entry fits its slot.
LEMMA EntryFacts ==
    ASSUME NEW l \in Lines
    PROVE  Entry(l) \in Slot /\ (Executed(l) = l => Entry(l) = Stored(l))
<1>1. CASE Executed(l) = l
  BY <1>1, SlotFacts DEF Entry
<1>2. CASE Executed(l) # l
  <2>1. PICK M \in Nat \ {0} : M = MaxLen
    BY CliAssumption
  <2>2. l \in Seq(Chars) /\ Len(l) = M
    BY <1>2, <2>1 DEF Executed, Lines
  <2>3. /\ IsFiniteSet(1 .. (M - 1)) /\ Cardinality(1 .. (M - 1)) = M - 1
    <3>1. 1 \in Int /\ M - 1 \in Int /\ (1 > M - 1 <=> M = 1) /\ (M - 1) - 1 + 1 = M - 1
      BY <2>1
    <3> QED
      BY <3>1, FS_Interval
  <2>4. Unspoilt(l) \subseteq 1 .. (M - 1)
    BY <2>1 DEF Unspoilt
  <2>5. PICK c \in 0 .. M - 1 : c = Cardinality(Unspoilt(l))
    <3>1. Cardinality(Unspoilt(l)) \in Nat /\ Cardinality(Unspoilt(l)) <= M - 1
      BY <2>3, <2>4, FS_Subset, FS_CardinalityType
    <3> QED
      BY <2>1, <3>1
  <2>6. SubSeq(l, 1, c) \in Seq(Chars) /\ Len(SubSeq(l, 1, c)) = c
    BY <2>1, <2>2
  <2> QED
    BY <1>2, <2>1, <2>5, <2>6 DEF Entry, Slot
<1> QED
  BY <1>1, <1>2

LEMMA EnterInv ==
    ASSUME CliInv, NEW ch \in Newlines \cup {"ctrl_c"}, Enter(ch)
    PROVE  CliInv'
<1> DEFINE l == IF ch = "ctrl_c" THEN <<>> ELSE line
           h == AfterTerminator(l)
<1>0. /\ l \in Lines /\ line \in Lines
      /\ history \in [0 .. Cap - 1 -> Slot] /\ next \in 0 .. Cap - 1 /\ active \in 0 .. Cap - 1
  BY SlotFacts DEF CliInv
<1>1. CASE prev \in Newlines /\ ch # prev
  <2>1. /\ prev' = "other" /\ line' = l
        /\ UNCHANGED <<history, next, active, screen, last, ran>>
    BY <1>1 DEF Enter
  <2>2. line = <<>> /\ l = <<>>
    BY <1>1 DEF CliInv
  <2>3. prev' \notin Newlines
    BY <2>1 DEF Newlines
  <2> QED
    BY <2>1, <2>2, <2>3 DEF CliInv, Newest, RunsLast
<1>2. CASE ~(prev \in Newlines /\ ch # prev)
  <2>1. /\ line' = <<>> /\ screen' = <<>>
        /\ last' = (IF l = <<>> THEN last ELSE l)
        /\ ran' = (IF l = <<>> THEN ran ELSE Executed(l))
        /\ SetHistory(l, h)
    BY <1>2 DEF Enter, CliInv
  <2>2. h \in [0 .. Cap - 1 -> Slot]
    BY <1>0, SlotFacts DEF AfterTerminator
  <2>3. l = <<>> => h = history
    BY CliAssumption DEF AfterTerminator
  <2> HIDE DEF l, h
  <2>4. last' \in Lines /\ line' \in Lines /\ RunsLast'
    <3>1. last' \in Lines /\ line' \in Lines
      BY <1>0, <2>1, SlotFacts DEF CliInv
    <3>2. RunsLast'
      BY <2>1 DEF CliInv, RunsLast, Executed, Stored
    <3> QED
      BY <3>1, <3>2
  <2>5. CASE l = <<>> \/ h[Newest] = l
    <3>1. history' = h /\ next' = next /\ active' = next
      BY <2>1, <2>5 DEF SetHistory, Newest
    <3>2. last' # <<>> /\ ran' = last' => history'[Newest'] = Stored(last')
      <4>1. Newest' = Newest
        BY <3>1 DEF Newest
      <4>2. CASE l = <<>>
        BY <2>1, <2>3, <3>1, <4>1, <4>2 DEF CliInv
      <4>3. CASE l # <<>> /\ h[Newest] = l
        <5>1. Newest \in 0 .. Cap - 1
          BY <1>0, SlotBehind, CliAssumption DEF Newest
        <5>2. l \in Slot
          BY <2>2, <4>3, <5>1
        <5> QED
          BY <2>1, <3>1, <4>1, <4>3, <5>2, SlotFacts
      <4> QED
        BY <2>5, <4>2, <4>3
    <3> QED
      BY <1>0, <2>1, <2>2, <2>4, <3>1, <3>2 DEF CliInv
  <2>6. CASE ~(l = <<>> \/ h[Newest] = l)
    <3>1. /\ history' = [h EXCEPT ![next] = Entry(l)]
          /\ next' = (next + 1) % Cap /\ active' = next'
      BY <2>1, <2>6 DEF SetHistory, Newest
    <3>2. next' \in 0 .. Cap - 1 /\ Newest' = next
      BY <1>0, <3>1, SlotBehind, CliAssumption DEF Newest
    <3>3. /\ history' \in [0 .. Cap - 1 -> Slot]
          /\ Executed(l) = l => history'[next] = Stored(l)
      BY <1>0, <2>2, <3>1, EntryFacts
    <3>4. last' = l /\ ran' = Executed(l)
      BY <2>1, <2>6
    <3> QED
      BY <2>1, <2>4, <3>1, <3>2, <3>3, <3>4 DEF CliInv
  <2> QED
    BY <2>5, <2>6
<1> QED
  BY <1>1, <1>2

LEMMA CliStep == CliInv /\ [CliNext]_cliVars => CliInv'
<1> SUFFICES ASSUME CliInv, [CliNext]_cliVars PROVE CliInv'
  OBVIOUS
<1>0. line \in Seq(Chars) /\ Len(line) \in Nat /\ Len(line) <= MaxLen /\ screen = line
  BY DEF CliInv, Lines
<1>1. ASSUME NEW ch \in Newlines \cup {"ctrl_c"}, Enter(ch) PROVE CliInv'
  BY <1>1, EnterInv
\* Every other key leaves the history alone and ends a pair of newlines.
<1>2. ASSUME UNCHANGED <<history, next, last, ran>>, prev' = "other" \/ line' = <<>> \/ UNCHANGED <<prev, line>>,
             line' \in Lines, screen' = line', active' \in 0 .. Cap - 1
      PROVE  CliInv'
  <2>1. prev' \in Newlines => line' = <<>>
    BY <1>2 DEF CliInv, Newlines
  <2> QED
    BY <1>2, <2>1 DEF CliInv, Newest, RunsLast
<1>3. CASE Backspace
  <2>1. /\ prev' = "other" /\ UNCHANGED <<history, next, active, last, ran>>
        /\ line' = (IF line = <<>> THEN line ELSE Front(line)) /\ screen' = line'
    BY <1>0, <1>3 DEF Backspace
  <2>2. ASSUME line # <<>> PROVE Front(line) \in Lines
    <3>1. PICK n \in Nat : Len(line) = n + 1
      BY <1>0, <2>2
    <3>2. SubSeq(line, 1, n) \in Seq(Chars) /\ Len(SubSeq(line, 1, n)) = n
      BY <1>0, <3>1
    <3>3. Front(line) = SubSeq(line, 1, n) /\ n <= MaxLen
      BY <1>0, <3>1, CliAssumption DEF Front
    <3> QED
      BY <3>2, <3>3 DEF Lines
  <2> QED
    BY <1>2, <2>1, <2>2 DEF CliInv
<1>4. ASSUME NEW distance \in {-1, 1}, ReplaceLineWithHistory(distance) PROVE CliInv'
  <2> DEFINE i == GetActiveHistoryIndex(distance)
  <2>1. i \in 0 .. Cap - 1 /\ GetActiveHistoryIndex(1) \in 0 .. Cap - 1
    BY SlotFacts DEF CliInv
  <2>2. history[i] \in Lines /\ history[i] \in Seq(Chars)
    BY <2>1, SlotFacts DEF CliInv, Lines
  <2>3. Erase(Len(line)) = <<>>
    <3>1. Len(screen) - Len(line) = 0
      BY <1>0
    <3>2. SubSeq(screen, 1, 0) = <<>>
      BY <1>0
    <3> QED
      BY <3>1, <3>2 DEF Erase
  <2>4. Erase(Len(line)) \o history[i] = history[i]
    BY <2>2, <2>3
  <2>5. /\ prev' = "other" /\ UNCHANGED <<history, next, last, ran>>
        /\ \/ line' = history[i] /\ screen' = history[i] /\ active' = i
           \/ line' = <<>> /\ screen' = <<>> /\ active' = GetActiveHistoryIndex(1)
           \/ UNCHANGED <<line, screen, active>>
    BY <1>4, <2>3, <2>4 DEF ReplaceLineWithHistory
  <2> HIDE DEF i
  <2>6. line' \in Lines /\ screen' = line' /\ active' \in 0 .. Cap - 1
    BY <2>1, <2>2, <2>5, SlotFacts DEF CliInv
  <2> QED
    BY <1>2, <2>5, <2>6
<1>5. ASSUME NEW ch \in Chars, Type(ch) PROVE CliInv'
  <2>1. /\ prev' = "other" /\ UNCHANGED <<history, next, active, last, ran>>
        /\ line' = (IF Len(line) >= MaxLen THEN line ELSE Append(line, ch)) /\ screen' = line'
    BY <1>0, <1>5 DEF Type
  <2>2. Append(line, ch) \in Seq(Chars) /\ Len(Append(line, ch)) = Len(line) + 1
    BY <1>0
  <2>3. line' \in Lines
    BY <1>0, <2>1, <2>2, CliAssumption DEF Lines
  <2> QED
    BY <1>2, <2>1, <2>3 DEF CliInv
<1>6. CASE Ignored \/ UNCHANGED cliVars
  <2>1. UNCHANGED <<line, history, next, active, screen, last, ran>> /\ (prev' = "other" \/ prev' = prev)
    BY <1>6 DEF Ignored, cliVars
  <2> QED
    BY <1>2, <2>1 DEF CliInv
<1> QED
  BY <1>1, <1>3, <1>4, <1>5, <1>6 DEF CliNext

\* Whatever keys are pressed, the terminal shows the line that Enter executes,
\* that line is executed, and the first step back from a fresh prompt recalls it:
\* replace_line_with_history erases what is shown, set_history skips only what
\* is there already, and only a line of the full length can meet its own history
\* entry, which is then executed after it and may be cut short.
THEOREM CommandLineFaithful == CliSpec => []CliFaithful
<1>1. CliInit => CliInv
  <2> SUFFICES ASSUME CliInit PROVE CliInv
    OBVIOUS
  <2>1. 0 \in 0 .. Cap - 1
    BY CliAssumption
  <2> QED
    BY <2>1, SlotFacts DEF CliInit, CliInv, RunsLast
<1> QED
  BY <1>1, CliInvImplies, CliStep, PTL DEF CliSpec

(***************************************************************************)
(* The tiny broker: any names and handles.                                 *)
(***************************************************************************)
Once(s) == \A i, j \in 1 .. Len(s) : s[i] = s[j] => i = j
Elements(s) == {s[k] : k \in 1 .. Len(s)}

LEMMA WithoutOne ==
    ASSUME NEW S, NEW s \in Seq(S), NEW i \in 1 .. Len(s)
    PROVE  /\ RemoveAt(s, i) \in Seq(S) /\ Len(RemoveAt(s, i)) = Len(s) - 1
           /\ \A k \in 1 .. Len(s) - 1 :
                RemoveAt(s, i)[k] = IF k < i THEN s[k] ELSE s[k + 1]
<1> DEFINE before == SubSeq(s, 1, i - 1)
           after == SubSeq(s, i + 1, Len(s))
           t == RemoveAt(s, i)
<1>0. PICK n \in Nat : n = Len(s)
  OBVIOUS
<1> DEFINE d == n - i
<1>1. /\ Len(s) = n /\ i \in Nat /\ 1 <= i /\ i <= n /\ d \in Nat
      /\ DOMAIN s = 1 .. n
  BY <1>0
<1>2. /\ before \in Seq(S) /\ Len(before) = i - 1
      /\ \A k \in 1 .. i - 1 : before[k] = s[k]
  BY <1>1
<1>3. /\ after \in Seq(S) /\ Len(after) = d
      /\ \A k \in 1 .. d : after[k] = s[i + k]
  <2>1. i + 1 \in Int /\ Len(s) \in Int /\ \A k \in i + 1 .. Len(s) : s[k] \in S
    BY <1>1
  <2>2. /\ after \in Seq(S)
        /\ Len(after) = IF i + 1 <= n THEN n - (i + 1) + 1 ELSE 0
        /\ \A k \in 1 .. n - (i + 1) + 1 : after[k] = s[(i + 1) + k - 1]
    BY <1>0, <2>1, SubSeqProperties
  <2> HIDE DEF after
  <2>3. Len(after) = d
    <3>1. d = IF i + 1 <= n THEN n - (i + 1) + 1 ELSE 0
      BY <1>1
    <3> QED
      BY <2>2, <3>1
  <2>4. ASSUME NEW k \in 1 .. d PROVE after[k] = s[i + k]
    <3>1. k \in 1 .. n - (i + 1) + 1 /\ (i + 1) + k - 1 = i + k
      BY <1>1
    <3> QED
      BY <2>2, <3>1
  <2> QED
    BY <2>2, <2>3, <2>4
<1>4. t = before \o after
  BY DEF RemoveAt
<1> HIDE DEF before, after, t
<1>5. /\ t \in Seq(S) /\ Len(t) = Len(before) + Len(after)
      /\ \A k \in 1 .. Len(before) + Len(after) :
            t[k] = IF k <= Len(before) THEN before[k] ELSE after[k - Len(before)]
  BY <1>2, <1>3, <1>4, ConcatProperties
<1>6. /\ t \in Seq(S) /\ Len(t) = Len(s) - 1 /\ DOMAIN t = 1 .. Len(s) - 1
  <2>1. Len(before) + Len(after) = Len(s) - 1
    BY <1>1, <1>2, <1>3
  <2> QED
    BY <1>5, <2>1
<1>7. ASSUME NEW k \in 1 .. Len(s) - 1
      PROVE  t[k] = IF k < i THEN s[k] ELSE s[k + 1]
  <2>0. /\ k \in 1 .. Len(before) + Len(after)
        /\ k <= Len(before) <=> k < i
    BY <1>1, <1>2, <1>3
  <2>1. CASE k < i
    <3>1. t[k] = before[k]
      BY <1>5, <2>0, <2>1
    <3>2. k \in 1 .. i - 1
      BY <1>1, <2>1
    <3> QED
      BY <1>2, <2>1, <3>1, <3>2
  <2>2. CASE ~(k < i)
    <3>1. t[k] = after[k - (i - 1)]
      BY <1>2, <1>5, <2>0, <2>2
    <3>2. k - (i - 1) \in 1 .. d /\ i + (k - (i - 1)) = k + 1
      BY <1>1, <2>2
    <3> QED
      BY <1>3, <2>2, <3>1, <3>2
  <2> QED
    BY <2>1, <2>2
<1> QED
  BY <1>6, <1>7 DEF t

\* list_del of a node that is in the list, and of one that is not, and list_add
\* of one that is not.
LEMMA DeletedIsSeq ==
    ASSUME NEW S, NEW s \in Seq(S), NEW h \in Elements(s)
    PROVE  ListDel(s, h) \in Seq(S)
<1>1. DOMAIN s = 1 .. Len(s)
  OBVIOUS
<1>2. \E i \in DOMAIN s : s[i] = h
  BY <1>1 DEF Elements
<1>3. PICK i : i = CHOOSE j \in DOMAIN s : s[j] = h
  OBVIOUS
<1>4. i \in 1 .. Len(s)
  BY <1>1, <1>2, <1>3, Zenon
<1>5. ListDel(s, h) = RemoveAt(s, i)
  BY <1>2, <1>3 DEF ListDel
<1> QED
  BY <1>4, <1>5, WithoutOne

LEMMA DeletedFacts ==
    ASSUME NEW S, NEW s \in Seq(S), Once(s), NEW h \in Elements(s)
    PROVE  /\ ListDel(s, h) \in Seq(S) /\ Once(ListDel(s, h))
           /\ Elements(ListDel(s, h)) = Elements(s) \ {h}
<1>1. DOMAIN s = 1 .. Len(s)
  OBVIOUS
<1>2. PICK i \in 1 .. Len(s) : s[i] = h /\ ListDel(s, h) = RemoveAt(s, i)
  <2>1. \E i \in DOMAIN s : s[i] = h
    BY <1>1 DEF Elements
  <2>2. PICK i : i = CHOOSE j \in DOMAIN s : s[j] = h
    OBVIOUS
  <2>3. i \in DOMAIN s /\ s[i] = h
    BY <2>1, <2>2, Zenon
  <2> QED
    BY <1>1, <2>1, <2>2, <2>3 DEF ListDel
<1>3. PICK n \in Nat : n = Len(s)
  OBVIOUS
<1>4. PICK r \in Seq(S) : r = RemoveAt(s, i)
  BY WithoutOne
<1>5. /\ Len(r) = n - 1
      /\ \A k \in 1 .. n - 1 : r[k] = IF k < i THEN s[k] ELSE s[k + 1]
  BY <1>3, <1>4, WithoutOne
<1>6. i \in 1 .. n /\ \A j, k \in 1 .. n : s[j] = s[k] => j = k
  BY <1>2, <1>3 DEF Once
<1>7. Once(r)
  <2> SUFFICES ASSUME NEW j \in 1 .. n - 1, NEW k \in 1 .. n - 1, r[j] = r[k] PROVE j = k
    BY <1>5 DEF Once
  <2>1. PICK x \in 1 .. n : x = (IF j < i THEN j ELSE j + 1) /\ r[j] = s[x]
    BY <1>3, <1>5, <1>6
  <2>2. PICK y \in 1 .. n : y = (IF k < i THEN k ELSE k + 1) /\ r[k] = s[y]
    BY <1>3, <1>5, <1>6
  <2>3. x = y
    BY <1>6, <2>1, <2>2
  <2> QED
    BY <1>6, <2>1, <2>2, <2>3
<1>8. Elements(r) = Elements(s) \ {h}
  <2>1. ASSUME NEW k \in 1 .. n - 1 PROVE r[k] \in Elements(s) /\ r[k] # h
    <3>1. PICK x \in 1 .. n : x = (IF k < i THEN k ELSE k + 1) /\ r[k] = s[x]
      BY <1>3, <1>5, <1>6
    <3>2. x # i
      BY <1>6, <3>1
    <3> QED
      BY <1>2, <1>3, <1>6, <3>1, <3>2 DEF Elements
  <2>2. ASSUME NEW x \in 1 .. n, s[x] # h PROVE \E k \in 1 .. n - 1 : s[x] = r[k]
    <3>1. x # i
      BY <1>2, <2>2
    <3>2. CASE x < i
      <4>1. x \in 1 .. n - 1
        BY <1>6, <3>2
      <4> QED
        BY <1>5, <3>2, <4>1
    <3>3. CASE x > i
      <4>1. x - 1 \in 1 .. n - 1 /\ ~(x - 1 < i) /\ (x - 1) + 1 = x
        BY <1>6, <3>3
      <4> QED
        BY <1>5, <4>1
    <3> QED
      BY <1>6, <3>1, <3>2, <3>3
  <2>3. Elements(r) = {r[k] : k \in 1 .. n - 1} /\ Elements(s) = {s[k] : k \in 1 .. n}
    BY <1>3, <1>5 DEF Elements
  <2>4. ASSUME NEW e \in Elements(r) PROVE e \in Elements(s) \ {h}
    BY <2>1, <2>3, <2>4
  <2>5. ASSUME NEW e \in Elements(s) \ {h} PROVE e \in Elements(r)
    <3>1. PICK x \in 1 .. n : s[x] = e
      BY <2>3, <2>5
    <3> QED
      BY <2>2, <2>3, <2>5, <3>1
  <2> QED
    BY <2>4, <2>5, Zenon
<1> QED
  BY <1>2, <1>4, <1>7, <1>8

LEMMA AddedFacts ==
    ASSUME NEW S, NEW s \in Seq(S), Once(s), NEW h \in S, h \notin Elements(s)
    PROVE  /\ ListAdd(s, h) \in Seq(S) /\ Once(ListAdd(s, h))
           /\ Elements(ListAdd(s, h)) = Elements(s) \cup {h}
<1>1. PICK n \in Nat : n = Len(s)
  OBVIOUS
<1>2. PICK r \in Seq(S) : r = ListAdd(s, h)
  <2>1. <<h>> \o s \in Seq(S)
    OBVIOUS
  <2> QED
    BY <2>1 DEF ListAdd
<1>3. Len(r) = n + 1 /\ \A k \in 1 .. n + 1 : r[k] = IF k = 1 THEN h ELSE s[k - 1]
  <2>1. r = <<h>> \o s /\ <<h>> \in Seq(S) /\ Len(<<h>>) = 1 /\ <<h>>[1] = h
    BY <1>2 DEF ListAdd
  <2> QED
    BY <1>1, <2>1
<1>4. \A k \in 1 .. n : s[k] # h
  BY <1>1 DEF Elements
<1>5. Once(r)
  <2> SUFFICES ASSUME NEW j \in 1 .. n + 1, NEW k \in 1 .. n + 1, r[j] = r[k] PROVE j = k
    BY <1>3 DEF Once
  <2>1. j = 1 \/ j - 1 \in 1 .. n
    BY <1>1
  <2>2. k = 1 \/ k - 1 \in 1 .. n
    BY <1>1
  <2>3. CASE j = 1 \/ k = 1
    BY <1>3, <1>4, <2>1, <2>2, <2>3
  <2>4. CASE j # 1 /\ k # 1
    <3>1. s[j - 1] = s[k - 1] /\ j - 1 \in 1 .. n /\ k - 1 \in 1 .. n
      BY <1>3, <2>1, <2>2, <2>4
    <3>2. j - 1 = k - 1
      BY <1>1, <3>1 DEF Once
    <3> QED
      BY <3>2
  <2> QED
    BY <2>3, <2>4
<1>6. Elements(r) = Elements(s) \cup {h}
  <2>1. \A k \in 1 .. n + 1 : r[k] = h \/ \E j \in 1 .. n : r[k] = s[j]
    <3> SUFFICES ASSUME NEW k \in 1 .. n + 1, k # 1 PROVE \E j \in 1 .. n : r[k] = s[j]
      BY <1>3
    <3>1. k - 1 \in 1 .. n
      BY <1>1
    <3>2. r[k] = s[k - 1]
      BY <1>3
    <3> QED
      BY <3>1, <3>2
  <2>2. \A j \in 1 .. n : \E k \in 1 .. n + 1 : s[j] = r[k]
    <3> SUFFICES ASSUME NEW j \in 1 .. n PROVE \E k \in 1 .. n + 1 : s[j] = r[k]
      OBVIOUS
    <3>1. j + 1 \in 1 .. n + 1 /\ j + 1 # 1 /\ (j + 1) - 1 = j
      BY <1>1
    <3>2. r[j + 1] = s[j]
      BY <1>3, <3>1
    <3> QED
      BY <3>1, <3>2
  <2>3. r[1] = h /\ 1 \in 1 .. n + 1
    BY <1>3
  <2> QED
    BY <1>1, <1>3, <2>1, <2>2, <2>3 DEF Elements
<1> QED
  BY <1>2, <1>5, <1>6

LEMMA KeptFacts ==
    ASSUME NEW S, NEW s \in Seq(S), NEW h, h \notin Elements(s)
    PROVE  ListDel(s, h) = s
<1>1. ~ \E i \in DOMAIN s : s[i] = h
  BY DEF Elements
<1> QED
  BY <1>1 DEF ListDel

Live(t) == \E n \in Names : topicOf[n] = t
HandleRecord == [mem : {"own", "free"}, topic : 0 .. created, pending : BOOLEAN,
                 cb : BOOLEAN, bit : BOOLEAN]

\* As long as nothing freed was touched: a topic's list, unless its head was cut
\* out, holds each of its members once; they name that topic, which exists, in
\* memory that is theirs.  A handle that names a topic has its callback or is
\* still waiting for it.
Linked ==
    /\ created \in 0 .. MaxTopics
    /\ topicOf \in [Names -> 0 .. created]
    /\ \A n, m \in Names : topicOf[n] = topicOf[m] /\ topicOf[n] # 0 => n = m
    /\ subs \in [Topics -> Seq(Handles)]
    /\ members \in [Topics -> SUBSET Handles]
    /\ handle \in [Handles -> HandleRecord]
    /\ \A t \in Topics : t \notin cut => Once(subs[t]) /\ Elements(subs[t]) = members[t]
    /\ \A t \in Topics : \A h \in members[t] : handle[h].topic = t /\ Live(t)
    /\ \A t \in Topics : \A h \in members[t] : handle[h].mem = "own"
    /\ \A h \in Handles : handle[h].topic # 0 => handle[h].cb \/ handle[h].pending

Untouched == harm \subseteq {"no_callback", "spinning"}
TinyInv == Untouched => Linked

LEMMA TinyInvImplies == TinyInv => PublishReachesMembers
<1> SUFFICES ASSUME Linked, NEW n \in Names, FindTopic(n) # 0, FindTopic(n) \notin cut
             PROVE  /\ CountSubscribers(n) = Cardinality(members[FindTopic(n)])
                    /\ Range(subs[FindTopic(n)]) = members[FindTopic(n)]
                    /\ \A h \in Range(subs[FindTopic(n)]) :
                          /\ handle[h].mem = "own" /\ handle[h].topic = FindTopic(n)
                          /\ handle[h].cb \/ handle[h].pending
  BY DEF TinyInv, Untouched, PublishReachesMembers
<1>1. PICK t \in Topics : t = FindTopic(n)
  BY TinyAssumption DEF Linked, FindTopic, Topics
<1>2. PICK s \in Seq(Handles) : s = subs[t]
  BY DEF Linked
<1>3. Once(s) /\ Elements(s) = members[t] /\ Len(s) \in Nat
  BY <1>1, <1>2 DEF Linked
<1>4. Range(s) = Elements(s)
  BY <1>2 DEF Range, Elements
<1>5. Cardinality(Elements(s)) = Len(s)
  <2>1. s \in [1 .. Len(s) -> Elements(s)]
    BY <1>2 DEF Elements
  <2>2. s \in Bijection(1 .. Len(s), Elements(s))
    <3>1. IsInjective(s)
      BY <1>2, <1>3 DEF IsInjective, Once
    <3>2. \A e \in Elements(s) : \E k \in 1 .. Len(s) : s[k] = e
      BY DEF Elements
    <3> QED
      BY <2>1, <3>1, <3>2 DEF Bijection, Injection, Surjection
  <2>3. ExistsBijection(1 .. Len(s), Elements(s))
    BY <2>2 DEF ExistsBijection
  <2> QED
    BY <1>3, <2>3, FS_CountingElements
<1>6. \A h \in members[t] : h \in Handles /\ handle[h].mem = "own" /\ handle[h].topic = t
  BY DEF Linked
<1>7. \A h \in members[t] : handle[h].cb \/ handle[h].pending
  BY <1>1, <1>6 DEF Linked
<1> QED
  BY <1>1, <1>2, <1>3, <1>4, <1>5, <1>6, <1>7 DEF CountSubscribers

\* A new topic: nobody has subscribed to it.
LEMMA CreateLinked ==
    ASSUME Linked, NEW n \in Names, Create(n)
    PROVE  Linked'
<1>1. /\ topicOf[n] = 0 /\ created' = created + 1
      /\ topicOf' = [topicOf EXCEPT ![n] = created + 1]
      /\ UNCHANGED <<subs, handle, cut, members>>
      /\ created \in Nat /\ created' \in 0 .. MaxTopics
  BY TinyAssumption DEF Create, FindTopic, Linked
<1>2. topicOf' \in [Names -> 0 .. created'] /\ handle' \in [Handles -> HandleRecord']
  <2>1. \A k \in 0 .. created : k \in 0 .. created'
    BY <1>1
  <2>2. created + 1 \in 0 .. created'
    BY <1>1
  <2>3. \A r \in HandleRecord : r \in HandleRecord'
    BY <2>1 DEF HandleRecord
  <2> QED
    BY <1>1, <2>1, <2>2, <2>3 DEF Linked
<1>3. \A m \in Names : topicOf[m] # created + 1 /\ topicOf'[m] = IF m = n THEN created + 1 ELSE topicOf[m]
  BY <1>1 DEF Linked
<1>4. \A m, k \in Names : topicOf'[m] = topicOf'[k] /\ topicOf'[m] # 0 => m = k
  BY <1>3 DEF Linked
<1>5. \A t \in Topics : Live(t) => Live(t)'
  <2>1. \A t \in Topics : t # 0
    BY DEF Topics
  <2> QED
    BY <1>1, <1>3, <2>1 DEF Live
<1> QED
  BY <1>1, <1>2, <1>4, <1>5 DEF Linked

\* A subscription's own step changes neither lists nor topics.
LEMMA SetLinked ==
    ASSUME Linked, NEW h \in Handles, SubscribeSet(h)
    PROVE  Linked'
<1> DEFINE R == [handle[h] EXCEPT !.pending = FALSE, !.cb = TRUE, !.bit = h \in Static]
<1>1. handle' = [handle EXCEPT ![h] = R] /\ UNCHANGED <<topicOf, subs, cut, created, members>>
  BY DEF SubscribeSet
<1>2. R \in HandleRecord /\ R.topic = handle[h].topic /\ R.mem = handle[h].mem /\ R.cb = TRUE
  <2>1. handle[h] \in HandleRecord /\ (h \in Static) \in BOOLEAN
    BY DEF Linked
  <2> QED
    BY <2>1 DEF HandleRecord
<1>3. PICK r \in HandleRecord : r = R /\ r.topic = handle[h].topic /\ r.mem = handle[h].mem /\ r.cb = TRUE
  BY <1>2, Zenon
<1>4. handle' = [handle EXCEPT ![h] = r]
  BY <1>1, <1>3
<1> HIDE DEF R
<1>5. handle' \in [Handles -> HandleRecord] /\ HandleRecord' = HandleRecord
  <2>1. HandleRecord' = HandleRecord
    BY <1>1 DEF HandleRecord
  <2>2. handle' \in [Handles -> HandleRecord]
    BY <1>3, <1>4 DEF Linked
  <2> QED
    BY <2>1, <2>2
<1>6. \A g \in Handles : /\ handle'[g].topic = handle[g].topic /\ handle'[g].mem = handle[g].mem
                         /\ handle'[g].topic # 0 => handle'[g].cb \/ handle'[g].pending
  BY <1>3, <1>4 DEF Linked
<1>7. \A t \in Topics : \A g \in members[t] : g \in Handles
  BY DEF Linked
<1>8. \A t \in Topics : Live(t)' <=> Live(t)
  BY <1>1 DEF Live
<1> QED
  BY <1>1, <1>5, <1>6, <1>7, <1>8 DEF Linked

\* subscribe_core links a handle that is no member of any topic.
LEMMA LinkLinked ==
    ASSUME Linked, NEW h \in Handles, NEW n \in Names, SubscribeLink(h, n)
    PROVE  Linked'
<1>1. PICK t \in Topics : t = topicOf[n] /\ t # 0
  BY TinyAssumption DEF Linked, SubscribeLink, FindTopic, Topics
<1>2. /\ handle' = [handle EXCEPT ![h] = [handle[h] EXCEPT !.mem = "own", !.topic = t, !.pending = TRUE]]
      /\ subs' = [subs EXCEPT ![t] = ListAdd(subs[t], h)]
      /\ members' = [members EXCEPT ![t] = members[t] \cup {h}]
      /\ UNCHANGED <<topicOf, cut, created>>
  BY <1>1 DEF SubscribeLink, FindTopic
<1>3. PICK r \in HandleRecord :
        /\ r = [handle[h] EXCEPT !.mem = "own", !.topic = t, !.pending = TRUE]
        /\ r.topic = t /\ r.mem = "own" /\ r.pending = TRUE
  <2> DEFINE R == [handle[h] EXCEPT !.mem = "own", !.topic = t, !.pending = TRUE]
  <2>1. t \in 0 .. created /\ handle[h] \in HandleRecord
    BY <1>1 DEF Linked
  <2>2. R \in HandleRecord /\ R.topic = t /\ R.mem = "own" /\ R.pending = TRUE
    BY <2>1 DEF HandleRecord
  <2> QED
    BY <2>2, Zenon
<1>4. r.topic = t /\ r.mem = "own" /\ r.pending = TRUE
  BY <1>3
<1>6. \A u \in Topics : h \notin members[u] /\ u # 0
  BY DEF Linked, Topics, SubscribeLink, Range
<1>5. ListAdd(subs[t], h) \in Seq(Handles)
  <2>1. subs[t] \in Seq(Handles)
    BY DEF Linked
  <2> QED
    BY <2>1 DEF ListAdd
<1>7. t \notin cut => /\ Once(ListAdd(subs[t], h))
                     /\ Elements(ListAdd(subs[t], h)) = members[t] \cup {h}
  <2> SUFFICES ASSUME t \notin cut
               PROVE  /\ Once(ListAdd(subs[t], h))
                      /\ Elements(ListAdd(subs[t], h)) = members[t] \cup {h}
    OBVIOUS
  <2>1. subs[t] \in Seq(Handles) /\ Once(subs[t]) /\ Elements(subs[t]) = members[t]
    BY DEF Linked
  <2> QED
    BY <1>6, <2>1, AddedFacts
<1>8. \A u \in Topics : /\ subs'[u] = IF u = t THEN ListAdd(subs[t], h) ELSE subs[u]
                        /\ members'[u] = IF u = t THEN members[t] \cup {h} ELSE members[u]
  BY <1>2 DEF Linked
<1>9. \A g \in Handles : handle'[g] = IF g = h THEN r ELSE handle[g]
  BY <1>2, <1>3 DEF Linked
<1>10. /\ subs' \in [Topics -> Seq(Handles)] /\ members' \in [Topics -> SUBSET Handles]
       /\ handle' \in [Handles -> HandleRecord'] /\ created' \in 0 .. MaxTopics
       /\ topicOf' \in [Names -> 0 .. created']
  <2>1. HandleRecord' = HandleRecord
    BY <1>2 DEF HandleRecord
  <2>2. handle' \in [Handles -> HandleRecord]
    BY <1>2, <1>3 DEF Linked
  <2>3. subs' \in [Topics -> Seq(Handles)]
    BY <1>2, <1>5 DEF Linked
  <2>4. members' \in [Topics -> SUBSET Handles]
    BY <1>2 DEF Linked
  <2> QED
    BY <1>2, <2>1, <2>2, <2>3, <2>4 DEF Linked
<1>11. \A u \in Topics : (Live(u)' <=> Live(u)) /\ Live(t)
  BY <1>1, <1>2 DEF Live
<1>12. \A u \in Topics : \A g \in members'[u] : handle'[g].topic = u /\ Live(u)'
  <2> SUFFICES ASSUME NEW u \in Topics, NEW g \in members'[u]
               PROVE  handle'[g].topic = u /\ Live(u)'
    OBVIOUS
  <2>1. g \in Handles
    BY <1>10
  <2>2. CASE g = h
    BY <1>4, <1>6, <1>8, <1>9, <1>11, <2>1, <2>2
  <2>3. CASE g # h
    <3>1. g \in members[u]
      BY <1>8, <2>3
    <3> QED
      BY <1>9, <1>11, <2>1, <2>3, <3>1 DEF Linked
  <2> QED
    BY <2>2, <2>3
<1>13. \A u \in Topics : u \notin cut' => Once(subs'[u]) /\ Elements(subs'[u]) = members'[u]
  BY <1>2, <1>7, <1>8 DEF Linked
<1>14. \A u \in Topics : \A g \in members'[u] : handle'[g].mem = "own"
  <2> SUFFICES ASSUME NEW u \in Topics, NEW g \in members'[u] PROVE handle'[g].mem = "own"
    OBVIOUS
  <2>1. g \in Handles
    BY <1>10
  <2>2. CASE g = h
    BY <1>4, <1>9, <2>1, <2>2
  <2>3. CASE g # h
    <3>1. g \in members[u]
      BY <1>8, <2>3
    <3> QED
      BY <1>9, <2>1, <2>3, <3>1 DEF Linked
  <2> QED
    BY <2>2, <2>3
<1>15. \A g \in Handles : handle'[g].topic # 0 => handle'[g].cb \/ handle'[g].pending
  BY <1>4, <1>9 DEF Linked
<1>16. \A k, m \in Names : topicOf'[k] = topicOf'[m] /\ topicOf'[k] # 0 => k = m
  BY <1>2 DEF Linked
<1> QED
  BY <1>10, <1>12, <1>13, <1>14, <1>15, <1>16 DEF Linked

\* pubsub_unsubscribe of a handle whose topic still exists, a member of it or
\* a static handle that was one.
LEMMA UnsubscribeLinkedStep ==
    ASSUME Linked, NEW h \in Handles, Unsubscribe(h), Untouched'
    PROVE  Linked'
<1>1. PICK t \in Topics : t = handle[h].topic /\ Live(t)
  <2>1. handle[h].topic # 0 /\ handle[h].topic \in Range(topicOf)
    <3>1. "topic_freed" \notin harm'
      BY DEF Untouched
    <3> QED
      BY <3>1 DEF Unsubscribe
  <2>2. handle[h].topic \in 0 .. created /\ created \in 0 .. MaxTopics
    BY DEF Linked, HandleRecord
  <2>3. Live(handle[h].topic)
    BY <2>1 DEF Range, Live, Linked
  <2> QED
    BY <2>1, <2>2, <2>3, TinyAssumption DEF Topics
<1>2. /\ handle' = IF handle[h].bit THEN handle ELSE [handle EXCEPT ![h] = Fresh(h)]
      /\ subs' = [subs EXCEPT ![t] = ListDel(subs[t], h)]
      /\ cut \subseteq cut'
      /\ members' = [members EXCEPT ![t] = members[t] \ {h}]
      /\ UNCHANGED <<topicOf, created>>
  BY <1>1 DEF Unsubscribe
<1>3. PICK r \in HandleRecord : /\ handle' = [handle EXCEPT ![h] = r]
                                /\ r.topic # 0 => r.cb \/ r.pending
  <2>1. CASE handle[h].bit
    <3>1. handle[h] \in HandleRecord /\ (handle[h].topic # 0 => handle[h].cb \/ handle[h].pending)
      BY DEF Linked
    <3>2. handle' = [handle EXCEPT ![h] = handle[h]]
      BY <1>2, <2>1 DEF Linked
    <3> QED
      BY <3>1, <3>2, Zenon
  <2>2. CASE ~handle[h].bit
    <3>1. 0 \in 0 .. created
      BY TinyAssumption DEF Linked
    <3>2. Fresh(h) \in HandleRecord /\ Fresh(h).topic = 0
      BY <3>1 DEF HandleRecord, Fresh, Idle
    <3> QED
      BY <1>2, <2>2, <3>2, Zenon
  <2> QED
    BY <2>1, <2>2
<1>4. \A u \in Topics : u # 0 /\ (h \in members[u] => u = t)
  BY <1>1 DEF Linked, Topics
<1>5. /\ ListDel(subs[t], h) \in Seq(Handles)
      /\ t \notin cut => /\ Once(ListDel(subs[t], h))
                       /\ Elements(ListDel(subs[t], h)) = members[t] \ {h}
  <2>1. subs[t] \in Seq(Handles)
    BY DEF Linked
  <2>2. CASE h \notin Elements(subs[t])
    <3>1. ListDel(subs[t], h) = subs[t]
      BY <2>1, <2>2, KeptFacts
    <3>2. t \notin cut => /\ Once(subs[t]) /\ Elements(subs[t]) = members[t]
                         /\ members[t] \ {h} = members[t]
      BY <2>2 DEF Linked
    <3> QED
      BY <2>1, <3>1, <3>2
  <2>3. CASE h \in Elements(subs[t])
    <3>1. ListDel(subs[t], h) \in Seq(Handles)
      BY <2>1, <2>3, DeletedIsSeq
    <3>2. t \notin cut => Once(subs[t]) /\ Elements(subs[t]) = members[t]
      BY DEF Linked
    <3> QED
      BY <2>1, <2>3, <3>1, <3>2, DeletedFacts
  <2> QED
    BY <2>2, <2>3
<1>6. \A u \in Topics : /\ subs'[u] = IF u = t THEN ListDel(subs[t], h) ELSE subs[u]
                        /\ members'[u] = IF u = t THEN members[t] \ {h} ELSE members[u]
  BY <1>2 DEF Linked
<1>7. \A g \in Handles : handle'[g] = IF g = h THEN r ELSE handle[g]
  BY <1>3 DEF Linked
<1>8. /\ subs' \in [Topics -> Seq(Handles)] /\ members' \in [Topics -> SUBSET Handles]
      /\ handle' \in [Handles -> HandleRecord'] /\ created' \in 0 .. MaxTopics
      /\ topicOf' \in [Names -> 0 .. created']
  <2>1. HandleRecord' = HandleRecord
    BY <1>2 DEF HandleRecord
  <2>2. handle' \in [Handles -> HandleRecord]
    BY <1>3 DEF Linked
  <2>3. subs' \in [Topics -> Seq(Handles)]
    BY <1>2, <1>5 DEF Linked
  <2>4. members' \in [Topics -> SUBSET Handles]
    BY <1>2 DEF Linked
  <2> QED
    BY <1>2, <2>1, <2>2, <2>3, <2>4 DEF Linked
<1>9. \A u \in Topics : Live(u)' <=> Live(u)
  BY <1>2 DEF Live
<1>10. \A u \in Topics : \A g \in members'[u] : g \in Handles /\ g \in members[u] /\ g # h
  BY <1>4, <1>6, <1>8
<1>11. \A u \in Topics : u \notin cut' => Once(subs'[u]) /\ Elements(subs'[u]) = members'[u]
  BY <1>2, <1>5, <1>6 DEF Linked
<1>12. \A u \in Topics : \A g \in members'[u] : /\ handle'[g].topic = u /\ Live(u)'
                                               /\ handle'[g].mem = "own"
  BY <1>7, <1>9, <1>10 DEF Linked
<1>13. \A g \in Handles : handle'[g].topic # 0 => handle'[g].cb \/ handle'[g].pending
  BY <1>3, <1>7 DEF Linked
<1>14. \A k, m \in Names : topicOf'[k] = topicOf'[m] /\ topicOf'[k] # 0 => k = m
  BY <1>2 DEF Linked
<1> QED
  BY <1>8, <1>11, <1>12, <1>13, <1>14 DEF Linked

\* pubsub_destroy frees handles, all of them of the topic that goes away.
LEMMA DestroyLinked ==
    ASSUME Linked, NEW n \in Names, Destroy(n)
    PROVE  Linked'
<1>1. PICK t \in Topics : t = topicOf[n] /\ t # 0
  BY TinyAssumption DEF Linked, Destroy, FindTopic, Topics
<1>2. PICK freed \in SUBSET members[t] :
        /\ handle' = [h \in Handles |-> IF h \in freed THEN [handle[h] EXCEPT !.mem = "free"]
                                        ELSE handle[h]]
        /\ topicOf' = [topicOf EXCEPT ![n] = 0]
        /\ subs' = [subs EXCEPT ![t] = <<>>]
        /\ members' = [members EXCEPT ![t] = {}]
        /\ UNCHANGED <<cut, created>>
  <2>1. t \notin cut => Range(subs[t]) = members[t]
    <3>1. subs[t] \in Seq(Handles)
          /\ (t \notin cut => members[t] = {subs[t][k] : k \in 1 .. Len(subs[t])})
      BY DEF Linked, Elements
    <3>2. DOMAIN subs[t] = 1 .. Len(subs[t])
      BY <3>1, LenProperties
    <3> QED
      BY <3>1, <3>2, Zenon DEF Range
  <2>2. {h \in Range(subs[t]) : t \notin cut /\ ~handle[h].bit} \in SUBSET members[t]
    BY <2>1
  <2> QED
    BY <1>1, <2>2, Zenon DEF Destroy, FindTopic
<1>3. \A h \in Handles : /\ handle'[h] \in HandleRecord
                         /\ handle'[h].topic = handle[h].topic
                         /\ handle'[h].cb = handle[h].cb /\ handle'[h].pending = handle[h].pending
                         /\ h \notin freed => handle'[h] = handle[h]
  <2> SUFFICES ASSUME NEW h \in Handles
               PROVE  /\ handle'[h] \in HandleRecord
                      /\ handle'[h].topic = handle[h].topic
                      /\ handle'[h].cb = handle[h].cb /\ handle'[h].pending = handle[h].pending
                      /\ h \notin freed => handle'[h] = handle[h]
    OBVIOUS
  <2>1. handle[h] \in HandleRecord
    BY DEF Linked
  <2>2. /\ [handle[h] EXCEPT !.mem = "free"] \in HandleRecord
        /\ [handle[h] EXCEPT !.mem = "free"].topic = handle[h].topic
        /\ [handle[h] EXCEPT !.mem = "free"].cb = handle[h].cb
        /\ [handle[h] EXCEPT !.mem = "free"].pending = handle[h].pending
    BY <2>1 DEF HandleRecord
  <2>3. handle'[h] = IF h \in freed THEN [handle[h] EXCEPT !.mem = "free"] ELSE handle[h]
    BY <1>2
  <2> QED
    BY <2>1, <2>2, <2>3
<1>4. \A u \in Topics : /\ subs'[u] = IF u = t THEN <<>> ELSE subs[u]
                        /\ members'[u] = IF u = t THEN {} ELSE members[u]
  BY <1>2 DEF Linked
<1>5. /\ subs' \in [Topics -> Seq(Handles)] /\ members' \in [Topics -> SUBSET Handles]
      /\ handle' \in [Handles -> HandleRecord'] /\ created' \in 0 .. MaxTopics
      /\ topicOf' \in [Names -> 0 .. created']
  <2>1. HandleRecord' = HandleRecord
    BY <1>2 DEF HandleRecord
  <2>2. handle' \in [Handles -> HandleRecord]
    <3>1. handle' = [h \in Handles |-> handle'[h]]
      BY <1>2
    <3> QED
      BY <1>3, <3>1
  <2>3. subs' \in [Topics -> Seq(Handles)]
    BY <1>2 DEF Linked
  <2>4. members' \in [Topics -> SUBSET Handles]
    BY <1>2 DEF Linked
  <2>5. 0 \in 0 .. created
    BY TinyAssumption DEF Linked
  <2>6. topicOf' \in [Names -> 0 .. created']
    BY <1>2, <2>5 DEF Linked
  <2> QED
    BY <1>2, <2>1, <2>2, <2>3, <2>4, <2>6 DEF Linked
<1>6. \A m \in Names : topicOf'[m] = IF m = n THEN 0 ELSE topicOf[m]
  BY <1>2 DEF Linked
<1>7. \A k, m \in Names : topicOf'[k] = topicOf'[m] /\ topicOf'[k] # 0 => k = m
  BY <1>6 DEF Linked
<1>8. \A u \in Topics : Live(u)' <=> Live(u) /\ u # t
  <2>1. \A u \in Topics : u # 0
    BY DEF Topics
  <2>2. \A m \in Names : topicOf[m] = t => m = n
    BY <1>1 DEF Linked
  <2> QED
    BY <1>1, <1>6, <2>1, <2>2 DEF Live
<1>9. \A u \in Topics : \A g \in members'[u] : u # t /\ g \in members[u] /\ g \in Handles
  BY <1>4, <1>5
<1>10. \A u \in Topics : u \notin cut' => Once(subs'[u]) /\ Elements(subs'[u]) = members'[u]
  <2>1. Once(<<>>) /\ Elements(<<>>) = {}
    BY DEF Once, Elements
  <2> QED
    BY <1>2, <1>4, <2>1 DEF Linked
<1>11. \A u \in Topics : \A g \in members'[u] : /\ handle'[g].topic = u /\ Live(u)'
                                               /\ handle'[g].mem = "own"
  <2> SUFFICES ASSUME NEW u \in Topics, NEW g \in members'[u]
               PROVE  /\ handle'[g].topic = u /\ Live(u)'
                      /\ handle'[g].mem = "own"
    OBVIOUS
  <2>1. u # t /\ g \in members[u] /\ g \in Handles
    BY <1>9
  <2>2. g \notin members[t] /\ handle[g].topic = u /\ Live(u) /\ handle[g].mem = "own"
    BY <2>1 DEF Linked
  <2> QED
    BY <1>2, <1>3, <1>8, <2>1, <2>2
<1>12. \A g \in Handles : handle'[g].topic # 0 => handle'[g].cb \/ handle'[g].pending
  BY <1>3 DEF Linked
<1> QED
  BY <1>5, <1>7, <1>10, <1>11, <1>12 DEF Linked

LEMMA TinyStep == TinyInv /\ [TinyNext]_tinyVars => TinyInv'
<1> SUFFICES ASSUME TinyInv, [TinyNext]_tinyVars, Untouched' PROVE Linked'
  BY DEF TinyInv
<1>1. Untouched
  <2>1. \A n \in Names : Create(n) \/ Destroy(n) \/ Publish(n) => harm \subseteq harm'
    BY DEF Create, Destroy, Publish
  <2>2. \A h \in Handles : SubscribeSet(h) \/ Unsubscribe(h) => harm \subseteq harm'
    BY DEF SubscribeSet, Unsubscribe
  <2>3. \A h \in Handles, n \in Names : SubscribeLink(h, n) => harm \subseteq harm'
    BY DEF SubscribeLink
  <2>4. harm \subseteq harm'
    BY <2>1, <2>2, <2>3, Zenon DEF TinyNext, tinyVars
  <2> QED
    BY <2>4 DEF Untouched
<1>2. Linked
  BY <1>1 DEF TinyInv
<1>3. ASSUME UNCHANGED <<topicOf, subs, handle, cut, created, members>> PROVE Linked'
  BY <1>2, <1>3 DEF Linked, HandleRecord, Live
<1>4. CASE \E n \in Names : Publish(n)
  BY <1>3, <1>4 DEF Publish
<1>5. CASE UNCHANGED tinyVars
  BY <1>3, <1>5 DEF tinyVars
<1> QED
  BY <1>2, <1>4, <1>5, CreateLinked, DestroyLinked, SetLinked, LinkLinked, UnsubscribeLinkedStep
  DEF TinyNext

\* Every list of the tiny broker holds exactly the subscribed handles of its
\* topic, each once and all of them memory that is still theirs, through any
\* sequence of creations, subscriptions, destructions and repeated uses of static
\* handles; the exceptions are the topics a handle of which was unsubscribed twice
\* and what follows a use of freed memory.
THEOREM PublicationsReachMembers == TinySpec => []PublishReachesMembers
<1>1. TinyInit => TinyInv
  <2> SUFFICES ASSUME TinyInit PROVE Linked
    BY DEF TinyInv
  <2>1. 0 \in 0 .. 0 /\ 0 \in 0 .. MaxTopics /\ created = 0
    BY TinyAssumption DEF TinyInit
  <2>2. PICK b \in [Static -> BOOLEAN] :
           handle = [h \in Handles |-> IF h \in Static THEN Idle(h, b[h]) ELSE Fresh(h)]
    BY DEF TinyInit
  <2>3. \A h \in Handles : \A c \in BOOLEAN : Idle(h, c) \in HandleRecord /\ Idle(h, c).topic = 0
    BY <2>1 DEF Idle, HandleRecord
  <2>4. Once(<<>>) /\ Elements(<<>>) = {}
    BY DEF Once, Elements
  <2>5. \A t \in Topics : t # 0 /\ subs[t] = <<>> /\ members[t] = {}
    BY DEF TinyInit, Topics
  <2>6. \A h \in Handles : handle[h] \in HandleRecord /\ handle[h].topic = 0
    BY <2>2, <2>3 DEF Fresh
  <2>7. handle \in [Handles -> HandleRecord]
    BY <2>2, <2>6
  <2>8. subs \in [Topics -> Seq(Handles)] /\ members \in [Topics -> SUBSET Handles]
        /\ topicOf \in [Names -> 0 .. created] /\ \A n \in Names : topicOf[n] = 0
    BY <2>1 DEF TinyInit
  <2> QED
    BY <2>1, <2>4, <2>5, <2>6, <2>7, <2>8 DEF Linked
<1> QED
  BY <1>1, TinyInvImplies, TinyStep, PTL DEF TinySpec

(***************************************************************************)
(* Buttons: registers of any length, clocks and counters of any range, and *)
(* any parameters a caller may pass.                                       *)
(***************************************************************************)

\* The debounce duration in samples is the least number of periods above it.
LEMMA DebounceCount ==
    ASSUME NEW p \in Nat \ {0}, NEW d \in Nat, NEW r \in Nat
    PROVE  r * p > d <=> r >= d \div p + 1
<1>1. PICK q \in Nat : q = d \div p
  OBVIOUS
<1>2. PICK m \in 0 .. p - 1 : d = q * p + m
  <2>1. d % p \in 0 .. p - 1 /\ d = p * (d \div p) + (d % p)
    OBVIOUS
  <2>2. p * q = q * p
    OBVIOUS
  <2> QED
    BY <1>1, <2>1, <2>2, Zenon
<1>3. CASE r >= q + 1
  <2>1. PICK k \in Nat : r = q + 1 + k
    BY <1>3
  <2>2. PICK kp \in Nat : kp = k * p
    OBVIOUS
  <2>3. r * p = q * p + p + kp
    BY <2>1, <2>2
  <2>4. PICK qp \in Nat : qp = q * p
    OBVIOUS
  <2> QED
    BY <1>1, <1>2, <1>3, <2>3, <2>4
<1>4. CASE r < q + 1
  <2>1. PICK k \in Nat : q = r + k
    BY <1>4
  <2>2. PICK kp \in Nat : kp = k * p
    OBVIOUS
  <2>3. q * p = r * p + kp
    BY <2>1, <2>2
  <2>4. PICK rp \in Nat : rp = r * p
    OBVIOUS
  <2> QED
    BY <1>1, <1>2, <1>4, <2>3, <2>4
<1> QED
  BY <1>3, <1>4

LEMMA LeastNatural ==
    ASSUME NEW S, S \subseteq Nat, S # {}
    PROVE  \E x \in S : \A y \in S : x <= y
<1> DEFINE less == {ss \in Nat \X Nat : ss[1] < ss[2]}
<1>1. IsWellFoundedOn(less, Nat)
  BY NatLessThanWellFounded DEF OpToRel
<1> HIDE DEF less
<1>2. PICK x \in S : \A y \in S : ~(<<y, x>> \in less)
  BY <1>1, WFMin
<1>3. ASSUME NEW y \in S PROVE x <= y
  <2>1. ~(y < x)
    BY <1>2 DEF less
  <2> QED
    BY <2>1
<1> QED
  BY <1>3

LEMMA BitsFacts == Bits \in Nat /\ Bits > 2
<1>1. PICK d \in Nat, p \in Nat \ {0} : d = Default.debounce /\ p = Default.period
  BY ButtonAssumption DEF Parameters, IsParamOk
<1>2. d \div p \in Nat /\ d \div p < Bits - 2
  BY <1>1, ButtonAssumption DEF IsParamOk
<1> QED
  BY <1>2, ButtonAssumption

\* The newest samples agree on their level for exactly Run of them.
LEMMA RunFacts ==
    ASSUME NEW w \in [1 .. Bits -> Levels]
    PROVE  /\ Run(w) \in 1 .. Bits
           /\ \A n \in 1 .. Bits : n <= Run(w) <=> NewestAre(w, n, w[Bits])
<1> DEFINE S == {n \in 1 .. Bits : n = Bits \/ w[Bits - n] # w[Bits]}
<1>1. PICK m \in S : \A n \in S : m <= n
  <2>1. S \subseteq Nat /\ Bits \in S
    BY BitsFacts
  <2> QED
    BY <2>1, LeastNatural
<1>2. NewestAre(w, m, w[Bits])
  <2> SUFFICES ASSUME NEW k \in (Bits - m + 1) .. Bits PROVE w[k] = w[Bits]
    BY DEF NewestAre
  <2>1. CASE k = Bits
    BY <2>1
  <2>2. CASE k # Bits
    <3>1. PICK n \in 1 .. Bits : n = Bits - k
      BY <2>2, <1>1, BitsFacts
    <3>2. n < m /\ Bits - n = k /\ n # Bits
      BY <3>1, <1>1, BitsFacts
    <3>3. ~(m <= n)
      BY <3>1, <3>2, BitsFacts
    <3>4. n \notin S
      BY <3>3, <1>1, Zenon
    <3> QED
      BY <3>1, <3>2, <3>4
  <2> QED
    BY <2>1, <2>2
<1>3. \E n \in 1 .. Bits : /\ NewestAre(w, n, w[Bits])
                           /\ n = Bits \/ w[Bits - n] # w[Bits]
  BY <1>1, <1>2
<1>4. PICK r \in 1 .. Bits : /\ r = Run(w) /\ NewestAre(w, r, w[Bits])
                             /\ r = Bits \/ w[Bits - r] # w[Bits]
  BY <1>3 DEF Run
<1>5. ASSUME NEW n \in 1 .. Bits PROVE n <= r <=> NewestAre(w, n, w[Bits])
  <2>1. CASE n <= r
    BY <1>4, <2>1, BitsFacts DEF NewestAre
  <2>2. CASE n > r
    <3>1. Bits - r \in (Bits - n + 1) .. Bits /\ r # Bits
      BY <2>2, BitsFacts
    <3> QED
      BY <1>4, <2>2, <3>1 DEF NewestAre
  <2> QED
    BY <2>1, <2>2
<1> QED
  BY <1>4, <1>5

\* The parameters in use ask for at least one sample and fit the register.
LEMMA CountFacts ==
    ASSUME NEW p \in Parameters, IsParamOk(p)
    PROVE  /\ GetDebounceCount(p) \in 1 .. Bits
           /\ \A r \in Nat : r * p.period > p.debounce <=> r >= GetDebounceCount(p)
<1>1. PICK d \in Nat, q \in Nat \ {0} : d = p.debounce /\ q = p.period
  BY DEF Parameters, IsParamOk
<1>2. d \div q \in Nat /\ d \div q < Bits - 2
  BY <1>1 DEF IsParamOk
<1>3. GetDebounceCount(p) = d \div q + 1
  BY <1>1 DEF GetDebounceCount
<1>4. \A r \in Nat : r * q > d <=> r >= d \div q + 1
  BY DebounceCount
<1>5. d \div q + 1 \in 1 .. Bits
  BY <1>2, BitsFacts
<1> QED
  BY <1>1, <1>3, <1>4, <1>5

LEMMA WaveFacts ==
    ASSUME NEW w \in [1 .. Bits -> Levels], NEW n \in Nat, NEW l \in [1 .. n -> Levels]
    PROVE  SubSeq(w \o l, Len(w \o l) - Bits + 1, Len(w \o l)) \in [1 .. Bits -> Levels]
<1>1. w \in Seq(Levels) /\ Len(w) = Bits /\ l \in Seq(Levels) /\ Len(l) = n
  BY BitsFacts
<1>2. w \o l \in Seq(Levels) /\ Len(w \o l) = Len(w) + Len(l)
  BY <1>1, ConcatProperties, Zenon
<1>3. PICK x \in Seq(Levels) : x = w \o l /\ Len(x) = Bits + n
  BY <1>1, <1>2, Zenon
<1>4. \A i \in (n + 1) .. (Bits + n) : x[i] \in Levels
  <2> TAKE i \in (n + 1) .. (Bits + n)
  <2>1. i \in 1 .. (Bits + n)
    BY BitsFacts
  <2>2. i \in 1 .. Len(x)
    BY <1>3, <2>1, Zenon
  <2> QED
    BY <2>2, ElementOfSeq, Zenon
<1>5. /\ n + 1 \in Int /\ Bits + n \in Int /\ n + 1 <= Bits + n
      /\ Len(x) - Bits + 1 = n + 1 /\ (Bits + n) - (n + 1) + 1 = Bits
  BY <1>3, BitsFacts
<1>6. /\ SubSeq(x, n + 1, Bits + n) \in Seq(Levels)
      /\ Len(SubSeq(x, n + 1, Bits + n)) = Bits
  BY <1>4, <1>5, SubSeqProperties, Zenon
<1>7. PICK y \in Seq(Levels) : y = SubSeq(x, n + 1, Bits + n) /\ Len(y) = Bits
  BY <1>6, Zenon
<1>8. y \in [1 .. Bits -> Levels]
  BY <1>7, LenProperties, Zenon
<1> QED
  BY <1>3, <1>5, <1>7, <1>8, Zenon

LEMMA OneTurn ==
    ASSUME NEW W \in Nat \ {0}, NEW x \in -W .. 2 * W - 1
    PROVE  x % W = IF x < 0 THEN x + W ELSE IF x < W THEN x ELSE x - W
  OBVIOUS

\* The time since `past' by a clock that wraps.
LEMMA SinceIs ==
    ASSUME NEW t \in Clock, NEW past \in Clock
    PROVE  /\ Since(t, past) = IF t < past THEN t - past + ClockMod ELSE t - past
           /\ Since(t, past) \in Clock
<1>1. PICK W \in Nat \ {0} : W = ClockMod
  BY ButtonAssumption
<1>2. PICK x \in -W .. 2 * W - 1 : x = t - past
  BY <1>1 DEF Clock
<1>3. x % W = IF x < 0 THEN x + W ELSE IF x < W THEN x ELSE x - W
  BY OneTurn
<1> QED
  BY <1>1, <1>2, <1>3 DEF Since, Clock

\* The time since an earlier moment never grows by more than what passed.
LEMMA SinceGrows ==
    ASSUME NEW t \in Clock, NEW s \in Clock, NEW past \in Clock
    PROVE  Since(t, past) <= Since(s, past) + Since(t, s)
<1>1. ClockMod \in Nat \ {0}
  BY ButtonAssumption
<1>2. /\ Since(t, past) = IF t < past THEN t - past + ClockMod ELSE t - past
      /\ Since(s, past) = IF s < past THEN s - past + ClockMod ELSE s - past
      /\ Since(t, s) = IF t < s THEN t - s + ClockMod ELSE t - s
  BY SinceIs
<1> QED
  BY <1>1, <1>2 DEF Clock

\* The time process_button keeps is a whole number of periods after the last.
WholePeriods(c, s, e, p) ==
    c \in Clock /\ e \div p \in Nat /\ Since(c, s) = (e \div p) * p

LEMMA CorrectedTime ==
    ASSUME NEW t \in Clock, NEW s \in Clock, NEW p \in Nat \ {0},
           NEW e, e = Since(t, s), NEW c, c = (t - (e % p)) % ClockMod
    PROVE  WholePeriods(c, s, e, p)
<1>1. PICK W \in Nat \ {0} : W = ClockMod
  BY ButtonAssumption
<1>2. /\ e \in Nat /\ e < W /\ e = IF t < s THEN t - s + W ELSE t - s
      /\ t \in Nat /\ t < W /\ s \in Nat /\ s < W
  <2>1. e \in Clock /\ e = IF t < s THEN t - s + ClockMod ELSE t - s
    BY SinceIs
  <2> QED
    BY <1>1, <2>1 DEF Clock
<1>3. PICK q \in Nat : q = e \div p
  BY <1>2
<1>4. e % p \in 0 .. p - 1 /\ e = p * (e \div p) + (e % p)
  BY <1>2
<1>5. PICK m \in 0 .. p - 1 : m = e % p
  BY <1>4
<1>6. PICK n \in Nat : n = q * p
  OBVIOUS
<1>7. p * q = q * p
  OBVIOUS
<1>8. e = n + m
  BY <1>3, <1>4, <1>5, <1>6, <1>7
<1>9. PICK x \in -W .. 2 * W - 1 : x = t - m
  BY <1>2, <1>6, <1>8
<1>10. x % W = IF x < 0 THEN x + W ELSE IF x < W THEN x ELSE x - W
  BY OneTurn
<1>11. c = IF x < 0 THEN x + W ELSE IF x < W THEN x ELSE x - W
  BY <1>1, <1>5, <1>9, <1>10
<1>12. c \in Clock
  BY <1>1, <1>2, <1>6, <1>8, <1>9, <1>11 DEF Clock
<1>13. Since(c, s) = IF c < s THEN c - s + W ELSE c - s
  BY <1>1, <1>12, SinceIs
<1>14. Since(c, s) = n
  BY <1>2, <1>6, <1>8, <1>9, <1>11, <1>13
<1> QED
  BY <1>3, <1>6, <1>12, <1>14 DEF WholePeriods

-----------------------------------------------------------------------------

\* What the proof adds to the types: the parameters in use are within what the
\* observed age can tell, and the code's flag is what the callback was told.
ButtonKept ==
    /\ ButtonTypeOK /\ age \in Nat
    /\ param.delay <= MaxAge /\ param.rate <= MaxAge
    /\ pressed <=> edge = "PRESSED"
    /\ ~allocated => ~pressed /\ wave = Zeros /\ clicks = 0 /\ event = None

\* With the parameters of the last sample, the flag follows the register, and
\* clicks that are still counted have an open window.
FollowsWave ==
    /\ event = "PRESSED" => IsDown(wave)
    /\ event = "RELEASED" => IsUp(wave)
    /\ fresh /\ IsDown(wave) => pressed
    /\ fresh /\ IsUp(wave) =>
         ~pressed /\ (clicks = 0 \/ ~IsClickWindowClosed(clicks, timeReleased, timestamp))

\* The time by the wrapping clock since the press, and since a repeat, is no more
\* than the time that really passed.
AgeKnown ==
    pressed =>
        /\ ~repeated => timeRepeat = 0
        /\ age < MaxAge => /\ ~repeated => Since(timestamp, timePressed) <= age
                           /\ timeRepeat # 0 => Since(timestamp, timeRepeat) <= age

ButtonInv == ButtonKept /\ FollowsWave /\ AgeKnown

\* A register is never both up and down, and a cleared one is not down.
LEMMA OneLevel ==
    ASSUME NEW p \in Parameters, IsParamOk(p)
    PROVE  /\ \A w : ~(NewestAre(w, GetDebounceCount(p), 0) /\ NewestAre(w, GetDebounceCount(p), 1))
           /\ ~NewestAre(Zeros, GetDebounceCount(p), 1)
<1>1. PICK n \in 1 .. Bits : n = GetDebounceCount(p)
  BY CountFacts
<1>2. Bits \in (Bits - n + 1) .. Bits
  BY BitsFacts
<1>3. ASSUME NEW w, NewestAre(w, n, 0), NewestAre(w, n, 1) PROVE FALSE
  <2>1. w[Bits] = 0 /\ w[Bits] = 1
    BY <1>2, <1>3 DEF NewestAre
  <2> QED
    BY <2>1
<1>4. Zeros[Bits] = 0
  BY BitsFacts DEF Zeros
<1> QED
  BY <1>1, <1>2, <1>3, <1>4 DEF NewestAre

LEMMA ButtonInvImplies == ButtonInv => ButtonTypeOK /\ EdgeDebounced /\ IdleIsQuiet
<1> SUFFICES ASSUME ButtonInv PROVE EdgeDebounced /\ IdleIsQuiet
  BY DEF ButtonInv, ButtonKept
<1>1. /\ param \in Parameters /\ IsParamOk(param) /\ wave \in [1 .. Bits -> Levels]
      /\ pressed \in BOOLEAN
  BY DEF ButtonInv, ButtonKept, ButtonTypeOK
<1>2. PICK n \in 1 .. Bits : n = GetDebounceCount(param)
  BY <1>1, CountFacts
<1>3. PICK r \in 1 .. Bits : r = Run(wave)
  BY <1>1, RunFacts
<1>4. r * param.period > param.debounce <=> n <= r
  <2>1. r \in Nat /\ n \in Nat
    OBVIOUS
  <2>2. r * param.period > param.debounce <=> r >= n
    BY <1>1, <1>2, <2>1, CountFacts
  <2> QED
    BY <2>1, <2>2
<1>5. n <= r <=> NewestAre(wave, n, wave[Bits])
  BY <1>1, <1>3, RunFacts
<1>6. \A level : NewestAre(wave, n, level) => wave[Bits] = level
  <2>1. Bits \in (Bits - n + 1) .. Bits
    BY BitsFacts
  <2> QED
    BY <2>1 DEF NewestAre
<1>7. wave[Bits] \in {0, 1}
  BY <1>1, BitsFacts DEF Levels
<1>8. EdgeDebounced
  <2>1. event = "PRESSED" => NewestAre(wave, n, 1)
    BY <1>2 DEF ButtonInv, FollowsWave, IsDown
  <2>2. event = "RELEASED" => NewestAre(wave, n, 0)
    BY <1>2 DEF ButtonInv, FollowsWave, IsUp
  <2>3. fresh /\ NewestAre(wave, n, 1) => pressed
    BY <1>2 DEF ButtonInv, FollowsWave, IsDown
  <2>4. fresh /\ NewestAre(wave, n, 0) => ~pressed
    BY <1>2 DEF ButtonInv, FollowsWave, IsUp
  <2>5. 0 # 1
    OBVIOUS
  <2>6. CASE wave[Bits] = 1
    BY <1>1, <1>3, <1>4, <1>5, <1>6, <2>1, <2>2, <2>3, <2>5, <2>6, Zenon DEF EdgeDebounced
  <2>7. CASE wave[Bits] = 0
    BY <1>1, <1>3, <1>4, <1>5, <1>6, <2>1, <2>2, <2>4, <2>5, <2>7, Zenon DEF EdgeDebounced
  <2> QED
    BY <1>7, <2>6, <2>7
<1>9. IdleIsQuiet
  BY DEF ButtonInv, ButtonKept, FollowsWave, IdleIsQuiet, Busy
<1> QED
  BY <1>8, <1>9

\* A step of process_button, with the time it keeps and the time that passed.
LEMMA StepFacts ==
    ASSUME ButtonInv, NEW t \in Clock, Step(t)
    PROVE  \E c \in Clock, passed \in Nat :
             /\ timestamp' = c /\ Since(c, timestamp) = passed
             /\ wave' \in [1 .. Bits -> Levels]
             /\ ProcessPressed(c) \/ ProcessReleased(c) \/ ProcessHolding(c) \/ ProcessNothing
             /\ CountClicks(c) /\ state' = (IF event' = None THEN state ELSE event')
             /\ Observe(passed)
             /\ UNCHANGED <<allocated, buttonActive, param>>
<1>1. PICK p \in Nat \ {0} : p = param.period
  BY DEF ButtonInv, ButtonKept, ButtonTypeOK, Parameters, IsParamOk
<1>2. timestamp \in Clock /\ wave \in [1 .. Bits -> Levels]
  BY DEF ButtonInv, ButtonKept, ButtonTypeOK
<1> DEFINE e == Since(t, timestamp)
           c == (t - (e % p)) % ClockMod
<1>3. c \in Clock /\ e \div p \in Nat /\ Since(c, timestamp) = (e \div p) * p
  <2>1. WholePeriods(c, timestamp, e, p)
    BY <1>2, CorrectedTime
  <2> QED
    BY <2>1, Zenon DEF WholePeriods
<1>4. (e \div p) * p \in Nat
  BY <1>1, <1>3
<1>5. /\ UpdateState(IF e > param.timeout THEN 1 ELSE e \div p)
      /\ ProcessPressed(c) \/ ProcessReleased(c) \/ ProcessHolding(c) \/ ProcessNothing
      /\ CountClicks(c) /\ state' = (IF event' = None THEN state ELSE event')
      /\ timestamp' = c /\ Observe((e \div p) * p)
      /\ UNCHANGED <<allocated, buttonActive, param>>
  BY <1>1, Zenon DEF Step, ProcessButton
<1>6. PICK n \in Nat : n = IF e > param.timeout THEN 1 ELSE e \div p
  <2>1. 1 \in Nat
    OBVIOUS
  <2> QED
    BY <1>3, <2>1, Zenon
<1>7. PICK l \in [1 .. n -> Levels] :
        wave' = SubSeq(wave \o l, Len(wave \o l) - Bits + 1, Len(wave \o l))
  BY <1>5, <1>6, Zenon DEF UpdateState
<1>8. wave' \in [1 .. Bits -> Levels]
  BY <1>2, <1>6, <1>7, WaveFacts, Zenon
<1> HIDE DEF e, c
<1> QED
  BY <1>3, <1>4, <1>5, <1>8, Zenon

\* The time of button_step_delta.
LEMMA DeltaTime ==
    ASSUME ButtonTypeOK, NEW d \in Deltas
    PROVE  (timestamp + d) % ClockMod \in Clock
<1>1. PICK x \in Nat : x = timestamp + d
  BY ButtonAssumption DEF ButtonTypeOK, Clock
<1>2. PICK W \in Nat \ {0} : W = ClockMod
  BY ButtonAssumption
<1>3. x % W \in 0 .. (W - 1)
  OBVIOUS
<1> QED
  BY <1>1, <1>2, <1>3 DEF Clock

LEMMA StepInv ==
    ASSUME ButtonInv, NEW t \in Clock, Step(t)
    PROVE  ButtonInv'
<1>0. /\ ButtonKept /\ ButtonTypeOK /\ FollowsWave /\ AgeKnown
      /\ param \in Parameters /\ IsParamOk(param)
  BY DEF ButtonInv, ButtonKept, ButtonTypeOK
<1>1. PICK c \in Clock, passed \in Nat :
        /\ timestamp' = c /\ Since(c, timestamp) = passed
        /\ wave' \in [1 .. Bits -> Levels]
        /\ ProcessPressed(c) \/ ProcessReleased(c) \/ ProcessHolding(c) \/ ProcessNothing
        /\ CountClicks(c) /\ state' = (IF event' = None THEN state ELSE event')
        /\ Observe(passed)
        /\ UNCHANGED <<allocated, buttonActive, param>>
  BY StepFacts
<1>2. allocated /\ buttonActive \in BOOLEAN /\ pressed \in BOOLEAN
      /\ repeated \in BOOLEAN /\ fresh' = TRUE
  BY <1>0, <1>1 DEF Step, ButtonTypeOK, Observe
<1>3. /\ timestamp \in Clock /\ timePressed \in Clock /\ timeReleased \in Clock
      /\ timeRepeat \in Clock /\ 0 \in Clock
  BY <1>0, ButtonAssumption DEF ButtonTypeOK, Clock
<1>4. clicks' \in 0 .. (CountMod - 1)
  <2>1. clicks \in 0 .. (CountMod - 1) /\ (clicks + 1) % CountMod \in 0 .. (CountMod - 1)
        /\ 0 \in 0 .. (CountMod - 1)
    BY <1>0, ButtonAssumption DEF ButtonTypeOK
  <2> QED
    BY <1>1, <2>1, Zenon DEF CountClicks
<1>5. repeats \in 0 .. (CountMod - 1) /\ (repeats + 1) % CountMod \in 0 .. (CountMod - 1)
      /\ 0 \in 0 .. (CountMod - 1)
  BY <1>0, ButtonAssumption DEF ButtonTypeOK
<1>6. ~(IsUp(wave') /\ IsDown(wave'))
  BY <1>0, OneLevel DEF IsUp, IsDown
<1>7. (IsUp(wave)' <=> IsUp(wave')) /\ (IsDown(wave)' <=> IsDown(wave'))
  BY <1>1 DEF IsUp, IsDown
<1>8. age' \in Nat
  BY <1>0, <1>1, ButtonAssumption DEF ButtonKept, Observe
\* What all four outcomes have in common.
<1>9. ASSUME pressed' \in BOOLEAN, {timePressed', timeReleased', timeRepeat'} \subseteq Clock,
             repeats' \in 0 .. (CountMod - 1),
             event' \in {None, "PRESSED", "RELEASED", "HOLDING"},
             pressed' <=> edge' = "PRESSED",
             event' = "PRESSED" => IsDown(wave'), event' = "RELEASED" => IsUp(wave'),
             IsDown(wave') => pressed', IsUp(wave') => ~pressed', AgeKnown'
      PROVE  ButtonInv'
  <2>1. state \in {None, "PRESSED", "RELEASED", "HOLDING"}
    BY <1>0 DEF ButtonTypeOK
  <2>2. state' \in {None, "PRESSED", "RELEASED", "HOLDING"}
    BY <1>1, <1>9, <2>1
  <2>3. repeated' \in BOOLEAN
    BY <1>1, <1>2 DEF Observe
  <2>4. ButtonTypeOK'
    <3>1. (param \in Parameters /\ IsParamOk(param))'
      BY <1>0, <1>1
    <3>2. {allocated, buttonActive, pressed, repeated, fresh}' \subseteq BOOLEAN
      BY <1>1, <1>2, <1>9, <2>3
    <3> QED
      BY <1>1, <1>4, <1>9, <2>2, <3>1, <3>2 DEF ButtonTypeOK
  <2>5. ButtonKept'
    BY <1>0, <1>1, <1>2, <1>8, <1>9, <2>4 DEF ButtonKept
  <2>6. IsUp(wave') =>
          clicks' = 0 \/ ~IsClickWindowClosed(clicks, timeReleased, timestamp)'
    <3>1. PICK n : clicks' = IF IsUp(wave') /\ IsClickWindowClosed(n, timeReleased', c)
                             THEN 0 ELSE n
      BY <1>1, Zenon DEF CountClicks
    <3>2. IsClickWindowClosed(clicks, timeReleased, timestamp)'
            <=> IsClickWindowClosed(clicks', timeReleased', c)
      BY <1>1 DEF IsClickWindowClosed
    <3> QED
      BY <3>1, <3>2
  <2>7. FollowsWave'
    BY <1>7, <1>9, <2>6 DEF FollowsWave
  <2> QED
    BY <1>9, <2>5, <2>7 DEF ButtonInv
<1>10. \A x \in Clock : Since(c, x) \in Nat /\ Since(timestamp, x) \in Nat
          /\ Since(c, x) <= Since(timestamp, x) + passed
  <2> TAKE x \in Clock
  <2>1. Since(c, x) \in Nat /\ Since(timestamp, x) \in Nat
    BY <1>3, SinceIs DEF Clock
  <2> QED
    BY <1>1, <1>3, <2>1, SinceGrows
<1>11. \A x \in Clock : Since(x, x) = 0
  BY SinceIs DEF Clock
\* The age of a press under which nothing was reported.
<1>12. ASSUME pressed, event' = None, UNCHANGED <<pressed, timePressed, timeRepeat>>
       PROVE  AgeKnown'
  <2>1. /\ age' = IF age + passed > MaxAge THEN MaxAge ELSE age + passed
        /\ repeated' = repeated
    BY <1>0, <1>1, <1>2, <1>12 DEF Observe, ButtonKept, None
  <2>2. ~repeated => timeRepeat = 0
    BY <1>0, <1>12 DEF AgeKnown
  <2>3. age \in Nat /\ MaxAge \in Nat
    BY <1>0, ButtonAssumption DEF ButtonKept
  <2>4. ASSUME age' < MaxAge
        PROVE  /\ ~repeated => Since(c, timePressed) <= age'
               /\ timeRepeat # 0 => Since(c, timeRepeat) <= age'
    <3>1. age' = age + passed /\ age < MaxAge
      BY <2>1, <2>3, <2>4
    <3>2. /\ ~repeated => Since(timestamp, timePressed) <= age
          /\ timeRepeat # 0 => Since(timestamp, timeRepeat) <= age
      BY <1>0, <1>12, <3>1 DEF AgeKnown
    <3> QED
      BY <1>3, <1>10, <2>3, <3>1, <3>2
  <2> QED
    BY <1>1, <1>12, <2>1, <2>2, <2>4 DEF AgeKnown
<1>13. CASE ProcessPressed(c)
  <2>1. /\ ~pressed /\ IsDown(wave') /\ pressed' = TRUE /\ timePressed' = c /\ timeRepeat' = 0
        /\ repeats' = 0 /\ event' = "PRESSED" /\ timeReleased' = timeReleased
    BY <1>13 DEF ProcessPressed, IsButtonPressed
  <2>2. edge' = "PRESSED" /\ age' = 0 /\ repeated' = FALSE
    BY <1>1, <2>1 DEF Observe, None
  <2>3. AgeKnown'
    BY <1>1, <1>11, <2>1, <2>2 DEF AgeKnown
  <2> QED
    BY <1>3, <1>5, <1>6, <1>9, <2>1, <2>2, <2>3
<1>14. CASE ProcessReleased(c)
  <2>1. /\ pressed /\ IsUp(wave') /\ pressed' = FALSE /\ timeReleased' = c
        /\ event' = "RELEASED" /\ UNCHANGED <<timePressed, timeRepeat, repeats>>
    BY <1>14 DEF ProcessReleased, IsButtonReleased
  <2>2. edge' = "RELEASED"
    BY <1>1, <2>1 DEF Observe
  <2>3. AgeKnown'
    BY <2>1 DEF AgeKnown
  <2> QED
    BY <1>3, <1>5, <1>6, <1>9, <2>1, <2>2, <2>3
<1>15. CASE ProcessHolding(c)
  <2>1. pressed /\ IsDown(wave') /\ UNCHANGED <<pressed, timePressed, timeReleased>>
        /\ edge = "PRESSED"
    BY <1>0, <1>15 DEF ProcessHolding, ButtonKept
  <2>2. CASE RepeatDue(c)
    <3>1. /\ timeRepeat' = c /\ repeats' = (repeats + 1) % CountMod /\ event' = "HOLDING"
      BY <1>15, <2>2 DEF ProcessHolding
    <3>2. edge' = edge /\ age' = 0 /\ repeated' = TRUE
      BY <1>1, <3>1 DEF Observe, None
    <3>3. AgeKnown'
      BY <1>1, <1>11, <2>1, <3>1, <3>2 DEF AgeKnown
    <3> QED
      BY <1>3, <1>5, <1>6, <1>9, <2>1, <3>1, <3>2, <3>3
  <2>3. CASE ~RepeatDue(c)
    <3>1. event' = None /\ UNCHANGED <<timeRepeat, repeats>>
      BY <1>15, <2>3 DEF ProcessHolding
    <3>2. edge' = edge
      BY <1>1, <3>1 DEF Observe, None
    <3>3. AgeKnown'
      BY <1>12, <2>1, <3>1
    <3> QED
      BY <1>3, <1>5, <1>6, <1>9, <2>1, <3>1, <3>2, <3>3 DEF None
  <2> QED
    BY <2>2, <2>3
<1>16. CASE ProcessNothing
  <2>1. /\ ~IsDown(wave') /\ (IsUp(wave') => ~pressed) /\ event' = None
        /\ UNCHANGED <<pressed, timePressed, timeReleased, timeRepeat, repeats>>
    BY <1>16 DEF ProcessNothing, IsButtonReleased
  <2>2. edge' = edge
    BY <1>1, <2>1 DEF Observe, None
  <2>3. AgeKnown'
    BY <1>12, <2>1 DEF AgeKnown
  <2>4. pressed <=> edge = "PRESSED"
    BY <1>0 DEF ButtonKept
  <2> QED
    BY <1>2, <1>3, <1>5, <1>6, <1>9, <2>1, <2>2, <2>3, <2>4 DEF None
<1> QED
  BY <1>1, <1>13, <1>14, <1>15, <1>16

LEMMA ButtonStep == ButtonInv /\ [ButtonNext]_buttonVars => ButtonInv'
<1> SUFFICES ASSUME ButtonInv, [ButtonNext]_buttonVars PROVE ButtonInv'
  OBVIOUS
<1>0. /\ ButtonKept /\ ButtonTypeOK /\ FollowsWave /\ AgeKnown
      /\ param \in Parameters /\ IsParamOk(param)
  BY DEF ButtonInv, ButtonKept, ButtonTypeOK
<1>1. CASE New
  <2>1. /\ param' = Default /\ allocated' /\ event' = None /\ wave' = Zeros /\ clicks' = 0
        /\ ~pressed' /\ UNCHANGED <<buttonActive, buttonData, seen, fresh>>
    BY <1>0, <1>1 DEF New, ButtonKept, buttonData
  <2>2. ~IsDown(wave)'
    BY <2>1, OneLevel, ButtonAssumption DEF IsDown
  <2>3. FollowsWave'
    BY <2>1, <2>2 DEF FollowsWave, None
  <2>4. ButtonTypeOK'
    BY <1>0, <1>1, ButtonAssumption DEF New, ButtonTypeOK, buttonData, times, seen, None
  <2>5. ButtonKept'
    BY <1>0, <2>1, <2>4, ButtonAssumption DEF ButtonKept, seen, buttonData
  <2> QED
    BY <2>1, <2>3, <2>5 DEF ButtonInv, AgeKnown
<1>2. CASE Delete
  <2>1. ~IsDown(wave)'
    BY <1>2, OneLevel, ButtonAssumption DEF Delete, IsDown
  <2>2. FollowsWave'
    BY <1>2, <2>1 DEF Delete, FollowsWave, None
  <2>3. 0 \in Clock /\ 0 \in 0 .. (CountMod - 1) /\ Zeros \in [1 .. Bits -> Levels] /\ 0 \in Nat
    BY ButtonAssumption DEF Clock, Zeros, Levels
  <2>4. ButtonTypeOK'
    BY <1>2, <2>3, ButtonAssumption DEF Delete, ButtonTypeOK, None
  <2>5. ButtonKept'
    BY <1>2, <2>3, <2>4, ButtonAssumption DEF Delete, ButtonKept, None
  <2> QED
    BY <1>2, <2>2, <2>5 DEF Delete, ButtonInv, AgeKnown
<1>3. ASSUME NEW on \in BOOLEAN, SetActive(on) PROVE ButtonInv'
  <2>1. /\ buttonActive' = on /\ event' = None /\ allocated
        /\ UNCHANGED <<allocated, param, buttonData, seen, fresh>>
    BY <1>3 DEF SetActive
  <2>2. ButtonTypeOK'
    BY <1>0, <2>1 DEF ButtonTypeOK, buttonData, times, seen, None
  <2> QED
    BY <1>0, <2>1, <2>2
    DEF ButtonInv, ButtonKept, FollowsWave, AgeKnown, IsDown, IsUp, IsClickWindowClosed, buttonData,
        times, seen, None
<1>4. ASSUME NEW p \in Params, SetParam(p) PROVE ButtonInv'
  <2>1. PICK copy \in Parameters :
          /\ copy = IF p.timeout = 0 THEN [p EXCEPT !.timeout = Default.timeout] ELSE p
          /\ copy.delay = p.delay /\ copy.rate = p.rate
    <3>1. p \in Parameters /\ Default \in Parameters
      BY ButtonAssumption
    <3>2. /\ [p EXCEPT !.timeout = Default.timeout] \in Parameters
          /\ [p EXCEPT !.timeout = Default.timeout].delay = p.delay
          /\ [p EXCEPT !.timeout = Default.timeout].rate = p.rate
      BY <3>1 DEF Parameters
    <3> QED
      BY <3>1, <3>2
  <2>2. /\ allocated /\ event' = None /\ UNCHANGED <<allocated, buttonActive, buttonData, seen>>
        /\ \/ param' = copy /\ fresh' = FALSE /\ IsParamOk(copy)
           \/ UNCHANGED <<param, fresh>>
    BY <1>4, <2>1 DEF SetParam
  <2>3. ButtonTypeOK'
    BY <1>0, <2>2 DEF ButtonTypeOK, buttonData, times, seen, None
  <2>4. param'.delay <= MaxAge /\ param'.rate <= MaxAge
    BY <1>0, <2>1, <2>2, ButtonAssumption DEF ButtonKept, Parameters
  <2>5. FollowsWave'
    BY <1>0, <2>2 DEF FollowsWave, IsDown, IsUp, IsClickWindowClosed, buttonData, times, None
  <2> QED
    BY <1>0, <2>2, <2>3, <2>4, <2>5 DEF ButtonInv, ButtonKept, AgeKnown, buttonData, times, seen, None
<1>5. ASSUME NEW t \in Clock, Step(t) PROVE ButtonInv'
  BY <1>5, StepInv
<1>6. ASSUME NEW d \in Deltas, StepDelta(d) PROVE ButtonInv'
  <2>1. (timestamp + d) % ClockMod \in Clock
    BY <1>0, DeltaTime
  <2> QED
    BY <1>6, <2>1, StepInv DEF StepDelta
<1>7. CASE UNCHANGED buttonVars
  <2>1. UNCHANGED <<allocated, buttonActive, param, pressed, wave, timestamp, timePressed,
                    timeReleased, timeRepeat, clicks, repeats, state, event, edge, age,
                    repeated, fresh>>
    BY <1>7 DEF buttonVars, buttonData, times, seen
  <2>2. ButtonTypeOK'
    BY <1>0, <2>1 DEF ButtonTypeOK
  <2> QED
    BY <1>0, <2>1, <2>2
    DEF ButtonInv, ButtonKept, FollowsWave, AgeKnown, IsDown, IsUp, IsClickWindowClosed
<1> QED
  BY <1>1, <1>2, <1>3, <1>4, <1>5, <1>6, <1>7 DEF ButtonNext

\* What a step may report, given the invariant: the two action properties.
AlternatesStep ==
    /\ event' = "PRESSED" => edge # "PRESSED"
    /\ event' \in {"RELEASED", "HOLDING"} => edge = "PRESSED"

PacedStep ==
    event' = "HOLDING" =>
        LET elapsed == age + Since(timestamp', timestamp)
        IN IF repeated
           THEN timeRepeat = 0 \/ (param.rate # 0 /\ elapsed >= param.rate)
           ELSE param.delay # 0 /\ elapsed >= param.delay

LEMMA ReportedSteps ==
    ASSUME ButtonInv, NEW t \in Clock, Step(t)
    PROVE  AlternatesStep /\ PacedStep
<1>0. /\ ButtonKept /\ ButtonTypeOK /\ AgeKnown /\ (pressed <=> edge = "PRESSED")
  BY DEF ButtonInv, ButtonKept
<1>1. PICK c \in Clock, passed \in Nat :
        /\ timestamp' = c /\ Since(c, timestamp) = passed
        /\ ProcessPressed(c) \/ ProcessReleased(c) \/ ProcessHolding(c) \/ ProcessNothing
  BY StepFacts
<1>2. AlternatesStep
  BY <1>0, <1>1 DEF AlternatesStep, ProcessPressed, ProcessReleased, ProcessHolding,
     ProcessNothing, IsButtonPressed, IsButtonReleased, None
<1>3. ASSUME event' = "HOLDING" PROVE PacedStep
  <2>1. pressed /\ RepeatDue(c)
    BY <1>1, <1>3 DEF ProcessPressed, ProcessReleased, ProcessHolding, ProcessNothing, None
  <2>2. /\ age \in Nat /\ MaxAge \in Nat /\ param.delay \in Nat /\ param.rate \in Nat
        /\ param.delay <= MaxAge /\ param.rate <= MaxAge
    BY <1>0, ButtonAssumption DEF ButtonKept, ButtonTypeOK, Parameters
  <2>3. timestamp \in Clock /\ timePressed \in Clock /\ timeRepeat \in Clock
    BY <1>0 DEF ButtonTypeOK
  <2>4. \A x \in Clock : Since(c, x) \in Nat /\ Since(timestamp, x) \in Nat
          /\ Since(c, x) <= Since(timestamp, x) + passed
    <3> TAKE x \in Clock
    <3>1. Since(c, x) \in Nat /\ Since(timestamp, x) \in Nat
      BY <2>3, SinceIs DEF Clock
    <3> QED
      BY <1>1, <2>3, <3>1, SinceGrows
  <2>5. CASE repeated /\ timeRepeat # 0
    <3>1. param.rate # 0 /\ Since(c, timeRepeat) >= param.rate
      BY <2>1, <2>5 DEF RepeatDue
    <3>2. age < MaxAge => Since(timestamp, timeRepeat) <= age
      BY <1>0, <2>1, <2>5 DEF AgeKnown
    <3>3. age + passed >= param.rate
      BY <2>2, <2>3, <2>4, <3>1, <3>2
    <3> QED
      BY <1>1, <2>5, <3>1, <3>3 DEF PacedStep
  <2>6. CASE ~repeated
    <3>1. timeRepeat = 0
      BY <1>0, <2>1, <2>6 DEF AgeKnown
    <3>2. param.delay # 0 /\ Since(c, timePressed) >= param.delay
      BY <2>1, <3>1 DEF RepeatDue
    <3>3. age < MaxAge => Since(timestamp, timePressed) <= age
      BY <1>0, <2>1, <2>6 DEF AgeKnown
    <3>4. age + passed >= param.delay
      BY <2>2, <2>3, <2>4, <3>2, <3>3
    <3> QED
      BY <1>1, <2>6, <3>2, <3>4 DEF PacedStep
  <2>7. CASE repeated /\ timeRepeat = 0
    BY <2>7 DEF PacedStep
  <2> QED
    BY <2>5, <2>6, <2>7
<1> QED
  BY <1>2, <1>3 DEF PacedStep

LEMMA Reported == ButtonInv /\ [ButtonNext]_buttonVars
                    => [AlternatesStep]_buttonVars /\ [PacedStep]_buttonVars
<1> SUFFICES ASSUME ButtonInv, ButtonNext PROVE AlternatesStep /\ PacedStep
  OBVIOUS
<1>1. ASSUME event' = None PROVE AlternatesStep /\ PacedStep
  BY <1>1 DEF AlternatesStep, PacedStep, None
<1>2. CASE New \/ Delete \/ (\E on \in BOOLEAN : SetActive(on)) \/ (\E p \in Params : SetParam(p))
  BY <1>1, <1>2 DEF New, Delete, SetActive, SetParam
<1>3. ASSUME NEW t \in Clock, Step(t) PROVE AlternatesStep /\ PacedStep
  BY <1>3, ReportedSteps
<1>4. ASSUME NEW d \in Deltas, StepDelta(d) PROVE AlternatesStep /\ PacedStep
  <2>1. (timestamp + d) % ClockMod \in Clock
    BY DeltaTime DEF ButtonInv, ButtonKept
  <2> QED
    BY <1>4, <2>1, ReportedSteps DEF StepDelta
<1> QED
  BY <1>2, <1>3, <1>4 DEF ButtonNext

\* Whatever levels are read, whenever the steps come, however the clock wraps and
\* the parameters change, a button of button.c reports presses and releases in
\* turn, each after the level was stable for the debounce time and none missed;
\* repeats keep their delay and rate; and a button that is not busy has nothing
\* left to report.
THEOREM ButtonsAreFaithful == ButtonSpec => ButtonFaithful
<1>1. ButtonInit => ButtonInv
  <2> SUFFICES ASSUME ButtonInit PROVE ButtonInv
    OBVIOUS
  <2>1. ~IsDown(wave)
    BY OneLevel, ButtonAssumption DEF ButtonInit, IsDown
  <2>2. 0 \in Clock /\ 0 \in 0 .. (CountMod - 1) /\ Zeros \in [1 .. Bits -> Levels] /\ 0 \in Nat
    BY ButtonAssumption DEF Clock, Zeros, Levels
  <2>3. ButtonTypeOK
    BY <2>2, ButtonAssumption DEF ButtonInit, ButtonTypeOK, None
  <2>4. ButtonKept
    BY <2>2, <2>3, ButtonAssumption DEF ButtonInit, ButtonKept, None
  <2> QED
    BY <2>1, <2>4 DEF ButtonInit, ButtonInv, FollowsWave, AgeKnown, None
<1>2. ButtonSpec => []ButtonInv
  BY <1>1, ButtonStep, PTL DEF ButtonSpec
<1>3. ButtonSpec => []ButtonTypeOK /\ []EdgeDebounced /\ []IdleIsQuiet
  BY <1>2, ButtonInvImplies, PTL
<1>4. ButtonSpec => [][AlternatesStep]_buttonVars /\ [][PacedStep]_buttonVars
  BY <1>2, Reported, PTL DEF ButtonSpec
<1>5. ButtonSpec => EdgesAlternate /\ RepeatPaced
  BY <1>4 DEF EdgesAlternate, RepeatPaced, AlternatesStep, PacedStep
<1> QED
  BY <1>3, <1>5, PTL DEF ButtonFaithful
-----------------------------------------------------------------------------
(***************************************************************************)
(* Power management callbacks: CalledByPriority, for tables of any size.   *)
(***************************************************************************)
\* The table as it is while no item was copied in from behind it: items without
\* a gap, each once, the ones that are registered, by descending priority and
\* among equals the older first.
Ordered(older, p, q) ==
    \/ p.prio > q.prio
    \/ p.prio = q.prio /\ <<p, q>> \in older /\ <<q, p>> \notin older

TableKept ==
    /\ slots \in [Slots -> Items \cup {NoItem}]
    /\ \A i, j \in Slots : i < j /\ slots[j] # NoItem =>
          slots[i] # NoItem /\ slots[i] # slots[j] /\ Ordered(pmOlder, slots[i], slots[j])
    /\ pmRegs \subseteq Items
    /\ \A p \in Items : p \in pmRegs <=> \E i \in Slots : slots[i] = p
    /\ \A p, q : <<p, q>> \in pmOlder => p \in pmRegs /\ q \in pmRegs

PmInv == pmJunk \in BOOLEAN /\ (~pmJunk => TableKept)

\* The least of some slots.
LEMMA FirstSlot ==
    ASSUME NEW S \in SUBSET (1 .. PmMaxLen + 1), S # {}
    PROVE  Min(S) \in S /\ \A y \in S : Min(S) <= y
<1>1. PICK m \in S : \A y \in S : m <= y
  <2>1. 1 .. PmMaxLen + 1 \subseteq Nat
    BY PmAssumption
  <2>2. S \subseteq Nat
    BY <2>1, Zenon
  <2> QED
    BY <2>2, LeastNatural, Zenon
<1>2. \A x \in S : (\A y \in S : x <= y) => x = m
  BY <1>1, PmAssumption
<1> QED
  BY <1>1, <1>2, Zenon DEF Min

\* The memory after register_entry put an item into slot i: where some slot was
\* empty, all that were behind i moved by one and none was lost.
Inserted(i, item) ==
    \A j \in Slots : slots'[j] = IF j < i THEN slots[j] ELSE IF j = i THEN item ELSE slots[j - 1]

LEMMA RegisterMoves ==
    ASSUME TableKept, NEW item \in Items, NEW i \in Slots,
           SetTable([MoveRight(Memory, i) EXCEPT ![i] = item])
    PROVE  Inserted(i, item)
<1> DEFINE S == {j \in i+1 .. PmMaxLen+1 : Memory[j] = NoItem} \cup {PmMaxLen + 1}
<1>0. PICK N \in Nat \ {0} : N = PmMaxLen /\ i \in 1 .. N /\ Slots = 1 .. N
  BY PmAssumption DEF Slots
<1>1. PICK final \in S : final = Min(S) /\ \A j \in S : final <= j
  <2>1. S \in SUBSET (1 .. PmMaxLen + 1) /\ S # {}
    BY <1>0
  <2> HIDE DEF S
  <2> QED
    BY <2>1, FirstSlot
<1>2. final \in i + 1 .. N + 1
  BY <1>0, <1>1
<1>3. \A j \in 1 .. N + 1 : Memory[j] = IF j \in 1 .. N THEN slots[j] ELSE behind
  BY <1>0 DEF Memory
<1>4. \A j \in i + 1 .. N : j > final => slots[j] = NoItem /\ slots[j - 1] = NoItem
  <2> SUFFICES ASSUME NEW j \in i + 1 .. N, j > final
               PROVE  slots[j] = NoItem /\ slots[j - 1] = NoItem
    OBVIOUS
  <2>1. final \in 1 .. N /\ slots[final] = NoItem
    BY <1>0, <1>1, <1>2, <1>3
  <2>2. final < j /\ j \in Slots /\ j - 1 \in Slots /\ (j - 1 = final \/ final < j - 1)
    BY <1>0, <1>2
  <2> QED
    BY <1>0, <2>1, <2>2 DEF TableKept
<1>5. MoveRight(Memory, i) = [j \in 1 .. N + 1 |-> IF j \in i+1 .. final THEN Memory[j-1] ELSE Memory[j]]
  BY <1>0, <1>1 DEF MoveRight
<1>6. ASSUME NEW j \in 1 .. N
      PROVE  slots'[j] = IF j = i THEN item ELSE IF j \in i+1 .. final THEN Memory[j-1] ELSE Memory[j]
  BY <1>0, <1>5 DEF SetTable
<1> QED
  <2> SUFFICES ASSUME NEW j \in 1 .. N
               PROVE  slots'[j] = IF j < i THEN slots[j] ELSE IF j = i THEN item ELSE slots[j - 1]
    BY <1>0 DEF Inserted
  <2>1. CASE j <= i
    BY <1>0, <1>3, <1>6, <2>1
  <2>2. CASE j > i /\ j <= final
    BY <1>0, <1>2, <1>3, <1>6, <2>2
  <2>3. CASE j > i /\ j > final
    BY <1>0, <1>2, <1>3, <1>4, <1>6, <2>3
  <2> QED
    BY <1>0, <1>2, <2>1, <2>2, <2>3

\* The memory after unregister_entry took the item out of slot i, where the table
\* was not full or nothing lay behind it.
Deleted(i) ==
    \A j \in Slots : slots'[j] = IF j < i THEN slots[j] ELSE IF j < PmMaxLen THEN slots[j + 1] ELSE NoItem

LEMMA UnregisterMoves ==
    ASSUME TableKept, NEW i \in Slots, slots[i] # NoItem,
           behind = NoItem \/ (\E e \in Slots : slots[e] = NoItem),
           SetTable(MoveLeft(Memory, i))
    PROVE  Deleted(i)
<1> DEFINE S == {j \in i .. PmMaxLen : Memory[j + 1] = NoItem} \cup {PmMaxLen + 1}
<1>0. PICK N \in Nat \ {0} : N = PmMaxLen /\ i \in 1 .. N /\ Slots = 1 .. N
  BY PmAssumption DEF Slots
<1>1. PICK final \in S : final = Min(S) /\ \A j \in S : final <= j
  <2>1. S \in SUBSET (1 .. PmMaxLen + 1) /\ S # {}
    BY <1>0
  <2> HIDE DEF S
  <2> QED
    BY <2>1, FirstSlot
<1>3. \A j \in 1 .. N + 1 : Memory[j] = IF j \in 1 .. N THEN slots[j] ELSE behind
  BY <1>0 DEF Memory
<1>2. final \in i .. N /\ Memory[final + 1] = NoItem
  <2>1. final \in i .. N + 1 /\ (final # N + 1 => Memory[final + 1] = NoItem)
    BY <1>0, <1>1
  <2>2. CASE behind = NoItem
    <3>1. N \in S
      BY <1>0, <1>3, <2>2
    <3>2. final <= N
      BY <1>1, <3>1
    <3> QED
      BY <1>0, <2>1, <3>2
  <2>3. CASE \E e \in Slots : slots[e] = NoItem
    <3>1. PICK e \in 1 .. N : slots[e] = NoItem
      BY <1>0, <2>3
    <3>2. e > i
      BY <1>0, <3>1 DEF TableKept
    <3>3. e - 1 \in i .. N /\ e - 1 + 1 = e
      BY <1>0, <3>2
    <3>4. e - 1 \in S
      BY <1>0, <1>3, <3>1, <3>3
    <3>5. final <= e - 1
      BY <1>1, <3>4
    <3> QED
      BY <1>0, <2>1, <3>3, <3>5
  <2> QED
    BY <2>2, <2>3
<1>4. \A j \in 1 .. N : j > final => slots[j] = NoItem
  <2> SUFFICES ASSUME NEW j \in 1 .. N, j > final PROVE slots[j] = NoItem
    OBVIOUS
  <2>1. final + 1 \in Slots /\ slots[final + 1] = NoItem /\ (j = final + 1 \/ final + 1 < j)
    BY <1>0, <1>2, <1>3
  <2> QED
    BY <1>0, <2>1 DEF TableKept
<1>5. MoveLeft(Memory, i) = [j \in 1 .. N + 1 |->
          IF j \in i .. final-1 THEN Memory[j+1]
          ELSE IF j = final /\ j \in Slots THEN NoItem ELSE Memory[j]]
  BY <1>0, <1>1 DEF MoveLeft
<1>6. ASSUME NEW j \in 1 .. N
      PROVE  slots'[j] = IF j \in i .. final-1 THEN Memory[j+1] ELSE IF j = final THEN NoItem ELSE Memory[j]
  BY <1>0, <1>5 DEF SetTable
<1> QED
  <2> SUFFICES ASSUME NEW j \in 1 .. N
               PROVE  slots'[j] = IF j < i THEN slots[j] ELSE IF j < N THEN slots[j + 1] ELSE NoItem
    BY <1>0 DEF Deleted
  <2>1. CASE j < i
    BY <1>0, <1>2, <1>3, <1>6, <2>1
  <2>2. CASE j >= i /\ j < final
    BY <1>0, <1>2, <1>3, <1>6, <2>2
  <2>3. CASE j >= i /\ j = final
    <3>1. slots'[j] = NoItem
      BY <1>0, <1>2, <1>6, <2>3
    <3>2. j < N => slots[j + 1] = NoItem
      BY <1>0, <1>2, <1>3, <2>3
    <3> QED
      BY <1>0, <2>3, <3>1, <3>2
  <2>4. CASE j > final
    <3>1. slots'[j] = NoItem
      BY <1>0, <1>2, <1>3, <1>4, <1>6, <2>4
    <3>2. j < N => slots[j + 1] = NoItem
      BY <1>0, <1>2, <1>4, <2>4
    <3> QED
      BY <1>0, <1>2, <2>4, <3>1, <3>2
  <2> QED
    BY <1>0, <1>2, <2>1, <2>2, <2>3, <2>4

LEMMA PmInitInv == PmInit => PmInv
<1> SUFFICES ASSUME PmInit PROVE TableKept /\ pmJunk \in BOOLEAN
  BY DEF PmInv
<1>1. \A i \in Slots : slots[i] = NoItem
  BY DEF PmInit
<1>2. \A p \in Items : p # NoItem
  BY PmAssumption
<1> QED
  BY <1>1, <1>2 DEF PmInit, TableKept

LEMMA EmptySlots == CountEmpty = 0 <=> \A i \in Slots : slots[i] # NoItem
<1> DEFINE S == {i \in Slots : slots[i] = NoItem}
<1>1. IsFiniteSet(S) /\ Cardinality(S) = CountEmpty
  <2>1. IsFiniteSet(Slots)
    BY FS_Interval, PmAssumption DEF Slots
  <2>2. S \subseteq Slots
    OBVIOUS
  <2>3. IsFiniteSet(S)
    BY <2>1, <2>2, FS_Subset
  <2> QED
    BY <2>3 DEF CountEmpty
<1> QED
  BY <1>1, FS_EmptySet

LEMMA RegisterInv ==
    ASSUME TableKept, NEW item \in Items, Register(item) PROVE TableKept'
<1>0. PICK N \in Nat \ {0} : N = PmMaxLen /\ Slots = 1 .. N
  BY PmAssumption DEF Slots
<1>1. PICK i \in Places(item) : i = Min(Places(item)) /\ \A j \in Places(item) : i <= j
  <2>1. Places(item) \in SUBSET (1 .. PmMaxLen + 1) /\ Places(item) # {}
    BY <1>0 DEF Places, Register
  <2> QED
    BY <2>1, FirstSlot
<1>2. i \in 1 .. N /\ (slots[i] = NoItem \/ slots[i].prio < item.prio)
  BY <1>0, <1>1 DEF Places
<1>3. \A j \in 1 .. N : j < i => slots[j] \in Items /\ slots[j].prio >= item.prio
  <2> SUFFICES ASSUME NEW j \in 1 .. N, j < i
               PROVE  slots[j] \in Items /\ slots[j].prio >= item.prio
    OBVIOUS
  <2>1. j \notin Places(item)
    BY <1>1, <1>2
  <2>2. slots[j] # NoItem /\ ~(slots[j].prio < item.prio)
    BY <1>0, <2>1 DEF Places
  <2>3. slots[j] \in Items
    BY <1>0, <2>2 DEF TableKept
  <2>4. slots[j].prio \in Int /\ item.prio \in Int
    BY <2>3, PmAssumption DEF Items
  <2> QED
    BY <2>2, <2>3, <2>4
<1>4. Inserted(i, item)
  BY <1>0, <1>1, <1>2, RegisterMoves DEF Register
<1>5. slots[N] = NoItem
  <2>1. PICK e \in 1 .. N : slots[e] = NoItem
    <3>1. CountEmpty # 0
      BY DEF Register
    <3> QED
      BY <1>0, <3>1, EmptySlots
  <2> QED
    BY <1>0, <2>1 DEF TableKept
<1>6. \A j \in 1 .. N : j > i /\ slots[j - 1] # NoItem => slots[j - 1].prio < item.prio
  <2> SUFFICES ASSUME NEW j \in 1 .. N, j > i, slots[j - 1] # NoItem
               PROVE  slots[j - 1].prio < item.prio
    OBVIOUS
  <2>1. PICK k \in 1 .. N : k = j - 1 /\ (k = i \/ i < k)
    BY <1>0, <1>2
  <2>2. slots[i] # NoItem /\ (k # i => Ordered(pmOlder, slots[i], slots[k]))
    BY <1>0, <1>2, <2>1 DEF TableKept
  <2>3. slots[i] \in Items /\ slots[k] \in Items
    BY <1>0, <1>2, <2>1, <2>2 DEF TableKept
  <2>4. slots[i].prio \in Int /\ slots[k].prio \in Int /\ item.prio \in Int
    BY <2>3, PmAssumption DEF Items
  <2> QED
    BY <1>2, <2>1, <2>2, <2>4 DEF Ordered
<1>7. item \notin pmRegs
  <2> SUFFICES ASSUME item \in pmRegs PROVE FALSE
    OBVIOUS
  <2>1. PICK k \in 1 .. N : slots[k] = item
    BY <1>0 DEF TableKept
  <2>2. item # NoItem /\ item.prio \in Int
    BY PmAssumption DEF Items
  <2>3. k < i
    <3>1. k # i
      BY <1>2, <2>1, <2>2
    <3>2. ~(k > i)
      <4> SUFFICES ASSUME k > i PROVE FALSE
        OBVIOUS
      <4>1. k < N
        BY <1>5, <2>1, <2>2
      <4>2. k + 1 \in 1 .. N /\ k + 1 > i /\ k + 1 - 1 = k
        BY <1>2, <4>1
      <4> QED
        BY <1>6, <2>1, <2>2, <4>2
    <3> QED
      BY <1>2, <3>1, <3>2
  <2>4. \A j \in Places(item) : k < j
    BY <1>0, <1>1, <1>2, <2>3 DEF Places
  <2> QED
    BY <1>0, <2>1, <2>4 DEF Register, Duplicate
<1>8. pmRegs' = pmRegs \cup {item} /\ pmOlder' = pmOlder \cup {<<p, item>> : p \in pmRegs}
  BY DEF Register
<1>9. \A p, q : <<p, q>> \in pmOlder' <=> <<p, q>> \in pmOlder \/ (p \in pmRegs /\ q = item)
  BY <1>8
<1>10. slots' \in [Slots -> Items \cup {NoItem}]
  <2>1. DOMAIN slots' = Slots /\ slots' = [j \in Slots |-> slots'[j]]
    BY DEF Register, SetTable
  <2>2. \A j \in 1 .. N : slots'[j] \in Items \cup {NoItem}
    BY <1>0, <1>2, <1>4 DEF Inserted, TableKept
  <2> QED
    BY <1>0, <2>1, <2>2
<1>11. ASSUME NEW j \in 1 .. N, NEW k \in 1 .. N, j < k, slots'[k] # NoItem
       PROVE  slots'[j] # NoItem /\ slots'[j] # slots'[k] /\ Ordered(pmOlder', slots'[j], slots'[k])
  <2>0. item # NoItem /\ item \in Items
    BY PmAssumption
  <2>1. ASSUME NEW a \in 1 .. N, NEW b \in 1 .. N, a < b, slots[b] # NoItem
        PROVE  /\ slots[a] # NoItem /\ slots[a] # slots[b]
               /\ Ordered(pmOlder', slots[a], slots[b])
    <3>1. slots[a] # NoItem /\ slots[a] # slots[b] /\ Ordered(pmOlder, slots[a], slots[b])
      BY <1>0, <2>1 DEF TableKept
    <3>2. slots[a] \in pmRegs /\ slots[b] \in pmRegs
      BY <1>0, <2>1, <3>1 DEF TableKept
    <3> QED
      BY <1>7, <1>9, <3>1, <3>2 DEF Ordered
  <2>2. ASSUME NEW a \in 1 .. N, a < i
        PROVE  /\ slots[a] # NoItem /\ slots[a] # item
               /\ Ordered(pmOlder', slots[a], item)
    <3>1. slots[a] \in Items /\ slots[a].prio >= item.prio
      BY <1>3, <2>2
    <3>2. slots[a] \in pmRegs /\ slots[a] # item
      BY <1>0, <1>7, <3>1 DEF TableKept
    <3>3. <<slots[a], item>> \in pmOlder' /\ <<item, slots[a]>> \notin pmOlder'
      BY <1>7, <1>9, <3>2 DEF TableKept
    <3>4. slots[a].prio \in Int /\ item.prio \in Int
      BY <2>0, <3>1, PmAssumption DEF Items
    <3> QED
      BY <3>1, <3>2, <3>3, <3>4, PmAssumption DEF Ordered
  <2>3. CASE k < i
    <3>1. slots'[j] = slots[j] /\ slots'[k] = slots[k]
      BY <1>0, <1>2, <1>4, <1>11, <2>3 DEF Inserted
    <3> QED
      BY <1>11, <2>1, <3>1 DEF Ordered
  <2>4. CASE k = i
    <3>1. slots'[j] = slots[j] /\ slots'[k] = item /\ j < i
      BY <1>0, <1>2, <1>4, <1>11, <2>4 DEF Inserted
    <3> QED
      BY <2>2, <3>1 DEF Ordered
  <2>5. CASE k > i /\ j = i
    <3>1. slots'[j] = item /\ slots'[k] = slots[k - 1]
      BY <1>0, <1>2, <1>4, <1>11, <2>5 DEF Inserted
    <3>2. slots[k - 1].prio < item.prio
      BY <1>6, <1>11, <2>5, <3>1
    <3>3. slots[k - 1] \in Items
      <4>1. k - 1 \in 1 .. N
        BY <1>2, <2>5
      <4> QED
        BY <1>0, <1>11, <3>1, <4>1 DEF TableKept
    <3>4. slots[k - 1].prio \in Int /\ item.prio \in Int
      BY <2>0, <3>3, PmAssumption DEF Items
    <3>5. PICK q : q = slots[k - 1]
      OBVIOUS
    <3>6. item.prio > q.prio /\ item # q
      BY <3>2, <3>4, <3>5
    <3> QED
      BY <2>0, <3>1, <3>5, <3>6 DEF Ordered
  <2>6. CASE k > i /\ j < i
    <3>1. slots'[j] = slots[j] /\ slots'[k] = slots[k - 1]
      BY <1>0, <1>2, <1>4, <1>11, <2>6 DEF Inserted
    <3>2. k - 1 \in 1 .. N /\ j < k - 1
      BY <1>2, <2>6
    <3> QED
      BY <1>11, <2>1, <3>1, <3>2 DEF Ordered
  <2>7. CASE j > i
    <3>1. slots'[j] = slots[j - 1] /\ slots'[k] = slots[k - 1]
      BY <1>0, <1>2, <1>4, <1>11, <2>7 DEF Inserted
    <3>2. k - 1 \in 1 .. N /\ j - 1 \in 1 .. N /\ j - 1 < k - 1
      BY <1>2, <1>11, <2>7
    <3> QED
      BY <1>11, <2>1, <3>1, <3>2 DEF Ordered
  <2> QED
    BY <1>2, <1>11, <2>3, <2>4, <2>5, <2>6, <2>7
<1>12. ASSUME NEW p \in Items PROVE p \in pmRegs' <=> \E j \in Slots : slots'[j] = p
  <2>0. p # NoItem
    BY PmAssumption
  <2>1. CASE p = item
    BY <1>0, <1>2, <1>4, <1>8, <2>1 DEF Inserted
  <2>2. ASSUME p # item, NEW j \in 1 .. N, slots[j] = p PROVE \E k \in Slots : slots'[k] = p
    <3>1. CASE j < i
      BY <1>0, <1>2, <1>4, <2>2, <3>1 DEF Inserted
    <3>2. CASE j >= i
      <4>1. j < N
        BY <1>5, <2>0, <2>2
      <4>2. PICK k \in 1 .. N : k = j + 1 /\ k > i /\ k - 1 = j
        BY <1>2, <3>2, <4>1
      <4>3. slots'[k] = slots[k - 1]
        BY <1>0, <1>2, <1>4, <4>2 DEF Inserted
      <4> QED
        BY <1>0, <2>2, <4>2, <4>3
    <3> QED
      BY <1>2, <3>1, <3>2
  <2>3. ASSUME p # item, NEW j \in 1 .. N, slots'[j] = p PROVE \E k \in Slots : slots[k] = p
    <3>1. CASE j < i
      BY <1>0, <1>2, <1>4, <2>3, <3>1 DEF Inserted
    <3>2. CASE j > i
      <4>1. PICK k \in 1 .. N : k = j - 1
        BY <1>2, <3>2
      <4> QED
        BY <1>0, <1>2, <1>4, <2>3, <3>2, <4>1 DEF Inserted
    <3>3. j # i
      BY <1>0, <1>2, <1>4, <2>3 DEF Inserted
    <3> QED
      BY <1>2, <3>1, <3>2, <3>3
  <2> QED
    BY <1>0, <1>8, <2>1, <2>2, <2>3 DEF TableKept
<1>13. pmRegs' \subseteq Items /\ \A p, q : <<p, q>> \in pmOlder' => p \in pmRegs' /\ q \in pmRegs'
  BY <1>8, <1>9 DEF TableKept
<1> QED
  BY <1>0, <1>10, <1>11, <1>12, <1>13 DEF TableKept

LEMMA UnregisterInv ==
    ASSUME TableKept, NEW item \in Items, Unregister(item), ~pmJunk' PROVE TableKept'
<1>0. PICK N \in Nat \ {0} : N = PmMaxLen /\ Slots = 1 .. N
  BY PmAssumption DEF Slots
<1>1. PICK i \in Found(item) : i = Min(Found(item))
  <2>1. Found(item) \in SUBSET (1 .. PmMaxLen + 1) /\ Found(item) # {}
    BY <1>0 DEF Found, Unregister
  <2> QED
    BY <2>1, FirstSlot
<1>2. i \in 1 .. N /\ slots[i] = item /\ item # NoItem
  BY <1>0, <1>1, PmAssumption DEF Found
<1>3. Deleted(i)
  <2>1. behind = NoItem \/ (\E e \in Slots : slots[e] = NoItem)
    BY EmptySlots DEF Unregister
  <2> QED
    BY <1>0, <1>1, <1>2, <2>1, UnregisterMoves DEF Unregister
<1>4. \A j \in 1 .. N : j # i => slots[j] # item
  BY <1>0, <1>2 DEF TableKept
<1>5. pmRegs' = pmRegs \ {item} /\ pmOlder' = {pair \in pmOlder : pair[1] # item /\ pair[2] # item}
  BY DEF Unregister
<1>6. \A p, q : <<p, q>> \in pmOlder' <=> <<p, q>> \in pmOlder /\ p # item /\ q # item
  BY <1>5
<1>7. slots' \in [Slots -> Items \cup {NoItem}]
  <2>1. DOMAIN slots' = Slots /\ slots' = [j \in Slots |-> slots'[j]]
    BY DEF Unregister, SetTable
  <2>2. \A j \in 1 .. N : slots'[j] \in Items \cup {NoItem}
    BY <1>0, <1>2, <1>3 DEF Deleted, TableKept
  <2> QED
    BY <1>0, <2>1, <2>2
\* Where an item of the new table was before.
<1>8. \A j \in 1 .. N : slots'[j] # NoItem =>
         \E k \in 1 .. N : k = (IF j < i THEN j ELSE j + 1) /\ slots'[j] = slots[k] /\ k # i
  BY <1>0, <1>2, <1>3 DEF Deleted
<1>9. ASSUME NEW j \in 1 .. N, NEW k \in 1 .. N, j < k, slots'[k] # NoItem
      PROVE  slots'[j] # NoItem /\ slots'[j] # slots'[k] /\ Ordered(pmOlder', slots'[j], slots'[k])
  <2>1. PICK b \in 1 .. N : b = (IF k < i THEN k ELSE k + 1) /\ slots'[k] = slots[b] /\ b # i
    BY <1>8, <1>9
  <2>2. PICK a \in 1 .. N : a = (IF j < i THEN j ELSE j + 1) /\ a < b /\ a # i
    BY <1>2, <1>9, <2>1
  <2>3. slots'[j] = slots[a]
    BY <1>0, <1>2, <1>3, <1>9, <2>1, <2>2 DEF Deleted
  <2>4. slots[a] # NoItem /\ slots[a] # slots[b] /\ Ordered(pmOlder, slots[a], slots[b])
    BY <1>0, <1>9, <2>1, <2>2 DEF TableKept
  <2>5. slots[a] # item /\ slots[b] # item
    BY <1>4, <2>1, <2>2
  <2> QED
    BY <1>6, <2>1, <2>3, <2>4, <2>5 DEF Ordered
<1>10. ASSUME NEW p \in Items PROVE p \in pmRegs' <=> \E j \in Slots : slots'[j] = p
  <2>0. p # NoItem
    BY PmAssumption
  <2>1. ASSUME NEW j \in 1 .. N, slots'[j] = p PROVE p # item /\ \E k \in Slots : slots[k] = p
    BY <1>0, <1>4, <1>8, <2>0, <2>1
  <2>2. ASSUME p # item, NEW k \in 1 .. N, slots[k] = p PROVE \E j \in Slots : slots'[j] = p
    <3>1. CASE k < i
      BY <1>0, <1>2, <1>3, <2>2, <3>1 DEF Deleted
    <3>2. CASE k > i
      <4>1. PICK j \in 1 .. N : j + 1 = k /\ j >= i /\ j < N
        BY <1>2, <3>2
      <4>2. slots'[j] = slots[j + 1]
        BY <1>0, <1>2, <1>3, <4>1 DEF Deleted
      <4> QED
        BY <1>0, <2>2, <4>1, <4>2
    <3>3. k # i
      BY <1>2, <2>2
    <3> QED
      BY <1>2, <3>1, <3>2, <3>3
  <2> QED
    BY <1>0, <1>5, <2>1, <2>2 DEF TableKept
<1>11. pmRegs' \subseteq Items /\ \A p, q : <<p, q>> \in pmOlder' => p \in pmRegs' /\ q \in pmRegs'
  BY <1>5, <1>6 DEF TableKept
<1> QED
  BY <1>0, <1>7, <1>9, <1>10, <1>11 DEF TableKept

LEMMA PmStep == PmInv /\ [PmNext]_pmVars => PmInv'
<1> SUFFICES ASSUME PmInv, [PmNext]_pmVars PROVE PmInv'
  OBVIOUS
<1>1. ASSUME UNCHANGED <<slots, pmRegs, pmOlder, pmJunk>> PROVE PmInv'
  BY <1>1 DEF PmInv, TableKept, Ordered
<1>2. ASSUME NEW item \in Items, Register(item) PROVE PmInv'
  <2>1. pmJunk' = pmJunk
    BY <1>2 DEF Register
  <2> QED
    BY <1>2, <2>1, RegisterInv DEF PmInv
<1>3. ASSUME NEW item \in Items, Unregister(item) PROVE PmInv'
  <2>1. pmJunk' = (pmJunk \/ (CountEmpty = 0 /\ behind # NoItem))
    BY <1>3 DEF Unregister
  <2>2. pmJunk' \in BOOLEAN /\ (~pmJunk' => ~pmJunk)
    BY <2>1 DEF PmInv
  <2> QED
    BY <1>3, <2>2, UnregisterInv DEF PmInv
<1>4. ASSUME NEW mode \in Modes, PmEnter(mode) PROVE PmInv'
  BY <1>1, <1>4 DEF PmEnter
<1>5. CASE NeighbourWrites
  BY <1>1, <1>5 DEF NeighbourWrites
<1>6. CASE UNCHANGED pmVars
  BY <1>1, <1>6 DEF pmVars
<1> QED
  BY <1>2, <1>3, <1>4, <1>5, <1>6 DEF PmNext

LEMMA PmInvImplies == PmInv => CalledByPriority
<1> SUFFICES ASSUME TableKept, NEW mode \in Modes, NEW exit \in BOOLEAN
             PROVE  /\ {slots[i] : i \in Dispatch(mode, exit)}
                            = {p \in pmRegs : p.mode = mode /\ p.exit = exit}
                    /\ \A i, j \in Dispatch(mode, exit) : i < j => Ordered(pmOlder, slots[i], slots[j])
  BY Zenon DEF PmInv, CalledByPriority, Ordered
<1>1. \A i \in Slots : slots[i] # NoItem => slots[i] \in pmRegs
  BY DEF TableKept
<1>2. \A p \in pmRegs : \E i \in Slots : slots[i] = p /\ p # NoItem
  BY PmAssumption DEF TableKept
<1>3. {slots[i] : i \in Dispatch(mode, exit)} = {p \in pmRegs : p.mode = mode /\ p.exit = exit}
  BY <1>1, <1>2 DEF Dispatch
<1>4. \A i, j \in Dispatch(mode, exit) : i < j => Ordered(pmOlder, slots[i], slots[j])
  BY DEF Dispatch, TableKept
<1> QED
  BY <1>3, <1>4

\* Whatever the order of registrations and removals, pm_enter calls each
\* registered callback of the mode exactly once, by descending priority and among
\* equals the older first, for tables of any size, modes and priorities, as long
\* as nothing was copied in from behind a full table (register_entry, move_right,
\* unregister_entry, move_left).
THEOREM CallbacksByPriority == PmSpec => []CalledByPriority
BY PmInitInv, PmStep, PmInvImplies, PTL DEF PmSpec
==============================================================================
