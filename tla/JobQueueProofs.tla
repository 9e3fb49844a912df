--------------------------- MODULE JobQueueProofs ---------------------------
(***************************************************************************)
(* Proofs about JobQueue, for any number of jobs and workers and any       *)
(* limits of the widths jobqueue.h declares.                               *)
(***************************************************************************)
EXTENDS JobQueue, TLAPS, FiniteSetTheorems, SequenceTheorems

(***************************************************************************)
(* The list.                                                               *)
(***************************************************************************)

\* list_add_tail of a node that is not in the list.
LEMMA AddTailFacts ==
    ASSUME NEW S, NEW s \in Seq(S), NEW x \in S
    PROVE  /\ Append(s, x) \in Seq(S) /\ Len(Append(s, x)) = Len(s) + 1
           /\ IsInjective(s) /\ ~Contains(s, x) => IsInjective(Append(s, x))
<1> DEFINE t == Append(s, x)
<1>1. /\ t \in Seq(S) /\ Len(t) = Len(s) + 1 /\ DOMAIN t = 1 .. Len(s) + 1
      /\ \A i \in 1 .. Len(s) : t[i] = s[i]
      /\ t[Len(s) + 1] = x /\ DOMAIN s = 1 .. Len(s) /\ Len(s) \in Nat
  OBVIOUS
<1> HIDE DEF t
<1>2. ASSUME IsInjective(s), ~Contains(s, x) PROVE IsInjective(t)
  BY <1>1, <1>2 DEF IsInjective, Contains
<1> QED
  BY <1>1, <1>2 DEF t

\* list_del of the node at position i.
LEMMA RemoveAtFacts ==
    ASSUME NEW S, NEW s \in Seq(S), NEW i \in 1 .. Len(s)
    PROVE  /\ RemoveAt(s, i) \in Seq(S) /\ Len(RemoveAt(s, i)) = Len(s) - 1
           /\ IsInjective(s) => IsInjective(RemoveAt(s, i))
<1> DEFINE before == SubSeq(s, 1, i - 1)
           after == SubSeq(s, i + 1, Len(s))
           t == RemoveAt(s, i)
<1>0. PICK n \in Nat : n = Len(s)
  OBVIOUS
<1> DEFINE d == n - i
<1>1. /\ Len(s) = n /\ i \in Nat /\ 1 <= i /\ i <= n /\ d \in Nat
      /\ DOMAIN s = 1 .. n
  BY <1>0
<1>2. /\ before \in Seq(S) /\ Len(before) = i - 1
      /\ \A k \in 1 .. i - 1 : before[k] = s[k]
  BY <1>1
<1>3. /\ after \in Seq(S) /\ Len(after) = d
      /\ \A k \in 1 .. d : after[k] = s[i + k]
  <2>1. i + 1 \in Int /\ Len(s) \in Int /\ \A k \in i + 1 .. Len(s) : s[k] \in S
    BY <1>1
  <2>2. /\ after \in Seq(S)
        /\ Len(after) = IF i + 1 <= n THEN n - (i + 1) + 1 ELSE 0
        /\ \A k \in 1 .. n - (i + 1) + 1 : after[k] = s[(i + 1) + k - 1]
    BY <1>0, <2>1, SubSeqProperties
  <2> HIDE DEF after
  <2>3. Len(after) = d
    <3>1. d = IF i + 1 <= n THEN n - (i + 1) + 1 ELSE 0
      BY <1>1
    <3> QED
      BY <2>2, <3>1
  <2>4. ASSUME NEW k \in 1 .. d PROVE after[k] = s[i + k]
    <3>1. k \in 1 .. n - (i + 1) + 1 /\ (i + 1) + k - 1 = i + k
      BY <1>1
    <3> QED
      BY <2>2, <3>1
  <2> QED
    BY <2>2, <2>3, <2>4
<1>4. t = before \o after
  BY DEF RemoveAt
<1> HIDE DEF before, after, t
<1>5. /\ t \in Seq(S) /\ Len(t) = Len(before) + Len(after)
      /\ \A k \in 1 .. Len(before) + Len(after) :
            t[k] = IF k <= Len(before) THEN before[k] ELSE after[k - Len(before)]
  BY <1>2, <1>3, <1>4, ConcatProperties
<1>6. /\ t \in Seq(S) /\ Len(t) = Len(s) - 1 /\ DOMAIN t = 1 .. Len(s) - 1
  <2>1. Len(before) + Len(after) = Len(s) - 1
    BY <1>1, <1>2, <1>3
  <2> QED
    BY <1>5, <2>1
<1>7. ASSUME NEW k \in 1 .. Len(s) - 1
      PROVE  t[k] = IF k < i THEN s[k] ELSE s[k + 1]
  <2>0. /\ k \in 1 .. Len(before) + Len(after)
        /\ k <= Len(before) <=> k < i
    BY <1>1, <1>2, <1>3
  <2>1. CASE k < i
    <3>1. t[k] = before[k]
      BY <1>5, <2>0, <2>1
    <3>2. k \in 1 .. i - 1
      BY <1>1, <2>1
    <3> QED
      BY <1>2, <2>1, <3>1, <3>2
  <2>2. CASE ~(k < i)
    <3>1. t[k] = after[k - (i - 1)]
      BY <1>2, <1>5, <2>0, <2>2
    <3>2. k - (i - 1) \in 1 .. d /\ i + (k - (i - 1)) = k + 1
      BY <1>1, <2>2
    <3> QED
      BY <1>3, <2>2, <3>1, <3>2
  <2> QED
    BY <2>1, <2>2
<1>8. ASSUME IsInjective(s) PROVE IsInjective(t)
  <2>1. SUFFICES ASSUME NEW a \in DOMAIN t, NEW b \in DOMAIN t, t[a] = t[b]
                 PROVE  a = b
    BY DEF IsInjective
  <2> DEFINE at(k) == IF k < i THEN k ELSE k + 1
  <2>2. \A k \in DOMAIN t : at(k) \in DOMAIN s /\ t[k] = s[at(k)]
    <3> SUFFICES ASSUME NEW k \in DOMAIN t PROVE at(k) \in DOMAIN s /\ t[k] = s[at(k)]
      OBVIOUS
    <3>1. k \in 1 .. n - 1
      BY <1>0, <1>6
    <3>2. at(k) \in 1 .. n
      BY <1>1, <3>1
    <3>3. t[k] = IF k < i THEN s[k] ELSE s[k + 1]
      BY <1>0, <1>7, <3>1
    <3> QED
      BY <1>1, <3>2, <3>3
  <2>3. at(a) = at(b)
    <3> HIDE DEF at
    <3> QED
      BY <1>8, <2>1, <2>2 DEF IsInjective
  <2> QED
    BY <1>1, <1>6, <2>3
<1> QED
  BY <1>6, <1>8 DEF t

\* get_job_scheduled_detaching on a list that is not empty.
LEMMA TailFacts ==
    ASSUME NEW S, NEW s \in Seq(S), s # <<>>
    PROVE  /\ Tail(s) \in Seq(S) /\ Len(Tail(s)) = Len(s) - 1 /\ Len(s) > 0
           /\ Head(s) \in S
           /\ IsInjective(s) => IsInjective(Tail(s))
<1> DEFINE t == Tail(s)
<1>1. /\ t \in Seq(S) /\ Len(t) = Len(s) - 1 /\ DOMAIN t = 1 .. Len(s) - 1
      /\ \A k \in 1 .. Len(s) - 1 : t[k] = s[k + 1]
      /\ DOMAIN s = 1 .. Len(s) /\ Len(s) \in Nat /\ Len(s) > 0 /\ Head(s) \in S
  OBVIOUS
<1> HIDE DEF t
<1>2. ASSUME IsInjective(s) PROVE IsInjective(t)
  <2> SUFFICES ASSUME NEW a \in DOMAIN t, NEW b \in DOMAIN t, t[a] = t[b]
               PROVE  a = b
    BY DEF IsInjective
  <2>1. /\ a \in Nat /\ b \in Nat /\ a + 1 \in DOMAIN s /\ b + 1 \in DOMAIN s
        /\ s[a + 1] = s[b + 1]
    BY <1>1
  <2>2. a + 1 = b + 1
    BY <1>2, <2>1 DEF IsInjective
  <2> QED
    BY <2>1, <2>2
<1> QED
  BY <1>1, <1>2 DEF t

(***************************************************************************)
(* The threads.                                                            *)
(***************************************************************************)

\* The sets of workers are finite, and only created threads are busy.
LEMMA ThreadSets ==
    /\ IsFiniteSet(Created) /\ IsFiniteSet(Busy)
    /\ IsFiniteSet(Woken) /\ IsFiniteSet(Holding)
    /\ Cardinality(Created) \in Nat /\ Cardinality(Busy) \in Nat
    /\ Cardinality(Woken) \in Nat /\ Cardinality(Holding) \in Nat
    /\ Cardinality(Busy) <= Cardinality(Created)
<1>1. /\ Created \in SUBSET Workers /\ Busy \in SUBSET Workers
      /\ Woken \in SUBSET Workers /\ Holding \in SUBSET Workers
      /\ Busy \in SUBSET Created
  BY DEF Created, Busy, Woken, Holding
<1>2. /\ IsFiniteSet(Created) /\ IsFiniteSet(Busy)
      /\ IsFiniteSet(Woken) /\ IsFiniteSet(Holding)
  BY <1>1, FS_Subset, JobQueueAssumption
<1>3. Cardinality(Busy) <= Cardinality(Created)
  BY <1>1, <1>2, FS_Subset
<1> QED
  BY <1>2, <1>3, FS_CardinalityType

\* Only a worker that has not returned from its callback holds a job: the
\* pool may count a worker as running that found nothing to run, never one
\* that runs a job and is not counted.
HeldWhileRunning == \A w \in Workers : job[w] # NoJob => wpc[w] = "run"

\* What every step keeps.
PoolInv == JobPoolExact /\ HeldWhileRunning

LEMMA PoolInit == Init => PoolInv
<1> SUFFICES ASSUME Init PROVE PoolInv
  OBVIOUS
<1>1. Created = {} /\ Busy = {} /\ Woken = {} /\ Holding = {}
  BY DEF Init, Created, Busy, Woken, Holding
<1>2. TypeOK
  BY JobQueueAssumption DEF Init, TypeOK, WPC
<1>3. IsInjective(list)
  BY DEF Init, IsInjective
<1> QED
  BY <1>1, <1>2, <1>3, FS_EmptySet, JobQueueAssumption
     DEF Init, PoolInv, JobPoolExact, CountersExact, WakeUpForEveryJob,
         AtMostMaxConcurrent, HeldWhileRunning, JobCount

LEMMA PoolStep == PoolInv /\ [Next]_vars => PoolInv'
<1> SUFFICES ASSUME PoolInv, [Next]_vars PROVE PoolInv'
  OBVIOUS
<1> USE DEF PoolInv, JobPoolExact
<1>0. /\ TypeOK /\ CountersExact /\ WakeUpForEveryJob /\ AtMostMaxConcurrent
      /\ HeldWhileRunning
  OBVIOUS
<1>t. /\ Len(list) \in Nat /\ sem \in Nat /\ active \in 0 .. 255
      /\ running \in 0 .. 255 /\ MaxConcurrent \in 0 .. 255
      /\ active = Cardinality(Created) /\ running = Cardinality(Busy)
      /\ Len(list) + running \in 0 .. 255
      /\ attr.max \in 0 .. 255
  BY <1>0, JobQueueAssumption DEF TypeOK, CountersExact, JobCount
<1>k. PICK n \in Nat, r \in Nat : n = Len(list) /\ r = running
  BY <1>t
<1>m. n + r \in 0 .. 255
  BY <1>k, <1>t
<1>n. /\ active \in Nat /\ MaxConcurrent \in Nat /\ attr.max \in Nat
      /\ active <= 255 /\ r <= 255 /\ MaxConcurrent <= 255
      /\ n + r <= 255 /\ attr.max <= 255
  <2>1. n + r <= 255
    BY <1>m
  <2>2. r <= 255
    BY <1>m
  <2>3. active \in 0 .. 255 /\ MaxConcurrent \in 0 .. 255 /\ attr.max \in 0 .. 255
    BY <1>t
  <2>4. /\ active \in Nat /\ active <= 255
        /\ MaxConcurrent \in Nat /\ MaxConcurrent <= 255
        /\ attr.max \in Nat /\ attr.max <= 255
    BY <2>3
  <2> QED
    BY <2>1, <2>2, <2>4
<1>h. Cardinality(Holding) <= running
  <2>1. Holding \in SUBSET Busy
    BY <1>0 DEF HeldWhileRunning, Holding, Busy
  <2> QED
    BY <1>t, <2>1, FS_Subset, ThreadSets
<1>1. ASSUME NEW a \in Attrs, SetAttr(a) PROVE PoolInv'
  <2>1. Created' = Created /\ Busy' = Busy /\ Woken' = Woken /\ Holding' = Holding
    BY <1>1 DEF SetAttr, Created, Busy, Woken, Holding
  <2> QED
    BY <1>0, <1>1, <2>1
       DEF SetAttr, TypeOK, CountersExact, WakeUpForEveryJob,
           AtMostMaxConcurrent, HeldWhileRunning, JobCount
<1>2. ASSUME NEW j \in Jobs, Schedule(j) PROVE PoolInv'
  <2>1. /\ list' \in Seq(Jobs) /\ IsInjective(list')
        /\ sem' \in Nat /\ Len(list') \in Nat
        /\ \/ Len(list') = Len(list) /\ sem' = sem
           \/ Len(list') = Len(list) + 1 /\ sem' = sem + 1
    <3>1. list \in Seq(Jobs) /\ IsInjective(list)
      BY <1>0 DEF TypeOK, WakeUpForEveryJob
    <3>2. \/ list' = list /\ sem' = sem
          \/ ~Contains(list, j) /\ list' = Append(list, j) /\ sem' = sem + 1
      BY <1>2 DEF Schedule, Enqueue, IsScheduled
    <3>3. CASE list' = list /\ sem' = sem
      BY <1>t, <3>1, <3>3
    <3>4. CASE ~Contains(list, j) /\ list' = Append(list, j) /\ sem' = sem + 1
      <4>1. list' \in Seq(Jobs) /\ Len(list') = Len(list) + 1 /\ IsInjective(list')
        BY <3>1, <3>4, AddTailFacts
      <4> QED
        BY <1>t, <3>4, <4>1
    <3> QED
      BY <3>2, <3>3, <3>4
  <2> DEFINE Kept == /\ wpc' \in [Workers -> WPC] /\ active' \in 0 .. 255
                     /\ Busy' = Busy /\ Woken' = Woken
                     /\ active' = Cardinality(Created')
                     /\ HeldWhileRunning'
  <2>2. Kept
    <3>1. CASE UNCHANGED <<wpc, active>>
      BY <1>0, <1>2, <1>t, <3>1
         DEF TypeOK, Schedule, Created, Busy, Woken, HeldWhileRunning
    <3>2. ASSUME NEW w \in Workers, active < attr.max, wpc[w] = "none",
                 wpc' = [wpc EXCEPT ![w] = "wait"], active' = active + 1
          PROVE  Kept
      <4>1. wpc \in [Workers -> WPC] /\ wpc' \in [Workers -> WPC]
        BY <1>0, <3>2 DEF TypeOK, WPC
      <4>2. Busy' = Busy /\ Woken' = Woken
        BY <3>2, <4>1 DEF Busy, Woken
      <4>3. Created' = Created \cup {w} /\ w \notin Created
        BY <3>2, <4>1 DEF Created
      <4>4. active' = Cardinality(Created')
        BY <1>t, <3>2, <4>3, FS_AddElement, ThreadSets
      <4>5. HeldWhileRunning'
        BY <1>0, <1>2, <3>2, <4>1 DEF HeldWhileRunning, Schedule
      <4>6. active' \in 0 .. 255
        <5>1. active + 1 \in 0 .. 255
          BY <1>n, <3>2
        <5> QED
          BY <3>2, <5>1
      <4> QED
        BY <4>1, <4>2, <4>4, <4>5, <4>6
    <3> HIDE DEF Kept
    <3> QED
      BY <1>2, <3>1, <3>2 DEF Schedule, Spawn
  <2>3. Holding' = Holding /\ UNCHANGED <<running, attr, job>>
    BY <1>2 DEF Schedule, Holding
  <2>4. Len(list) + running < MaxConcurrent
    BY <1>2 DEF Schedule, JobCount
  <2>5. TypeOK'
    BY <1>0, <2>1, <2>2, <2>3 DEF TypeOK
  <2>6. CountersExact'
    <3>1. Len(list') + running' \in 0 .. 255
      <4>1. n + r < MaxConcurrent
        BY <1>k, <2>4
      <4>2. n + r \in 0 .. 255 /\ (n + 1) + r \in 0 .. 255
        BY <1>n, <4>1
      <4> QED
        BY <1>k, <2>1, <2>3, <4>2
    <3>2. running' = Cardinality(Busy')
      BY <1>t, <2>2, <2>3
    <3> QED
      BY <2>2, <3>1, <3>2 DEF CountersExact, JobCount
  <2>7. WakeUpForEveryJob'
    BY <1>0, <1>t, <2>1, <2>2, ThreadSets DEF WakeUpForEveryJob
  <2>8. AtMostMaxConcurrent'
    BY <1>h, <1>t, <2>1, <2>3, <2>4, ThreadSets DEF AtMostMaxConcurrent
  <2> QED
    BY <2>2, <2>5, <2>6, <2>7, <2>8
<1>3. ASSUME NEW j \in Jobs, Deschedule(j) PROVE PoolInv'
  <2>1. PICK i \in 1 .. Len(list) : list' = RemoveAt(list, i)
    BY <1>3 DEF Deschedule
  <2>2. /\ list' \in Seq(Jobs) /\ Len(list') = Len(list) - 1 /\ IsInjective(list')
        /\ Len(list') \in Nat
    BY <1>0, <1>t, <2>1, RemoveAtFacts DEF TypeOK, WakeUpForEveryJob
  <2>3. /\ Created' = Created /\ Busy' = Busy /\ Woken' = Woken /\ Holding' = Holding
        /\ UNCHANGED <<sem, active, running, attr, wpc, job>>
    BY <1>3 DEF Deschedule, Created, Busy, Woken, Holding
  <2>4. TypeOK' /\ HeldWhileRunning'
    BY <1>0, <2>2, <2>3 DEF TypeOK, HeldWhileRunning
  <2>5. CountersExact'
    <3>1. Len(list') + running' \in 0 .. 255
      <4>1. n >= 1
        BY <1>k, <2>1
      <4>2. (n - 1) + r \in 0 .. 255
        BY <1>n, <4>1
      <4> QED
        BY <1>k, <2>2, <2>3, <4>2
    <3>2. active' = Cardinality(Created') /\ running' = Cardinality(Busy')
      BY <1>t, <2>3
    <3> QED
      BY <3>1, <3>2 DEF CountersExact, JobCount
  <2>6. Len(list') <= Len(list) /\ Len(list) \in Nat /\ Len(list') \in Nat
    BY <1>k, <2>2
  <2>7. WakeUpForEveryJob'
    <3>1. Len(list) <= sem + Cardinality(Woken) /\ sem \in Nat
      BY <1>0 DEF WakeUpForEveryJob, TypeOK
    <3>2. Len(list') <= sem + Cardinality(Woken)
      BY <2>6, <3>1, ThreadSets
    <3> QED
      BY <2>2, <2>3, <3>2 DEF WakeUpForEveryJob
  <2>8. AtMostMaxConcurrent'
    <3>1. Len(list) + Cardinality(Holding) <= MaxConcurrent
      BY <1>0 DEF AtMostMaxConcurrent
    <3>2. Len(list') + Cardinality(Holding) <= MaxConcurrent
      BY <2>6, <3>1, ThreadSets, JobQueueAssumption
    <3> QED
      BY <2>3, <3>2 DEF AtMostMaxConcurrent
  <2> QED
    BY <2>4, <2>5, <2>7, <2>8
<1>4. ASSUME NEW w \in Workers, WaitJob(w) PROVE PoolInv'
  <2>1. /\ wpc \in [Workers -> WPC] /\ wpc' = [wpc EXCEPT ![w] = "detach"]
        /\ wpc[w] = "wait" /\ wpc' \in [Workers -> WPC]
        /\ sem' = sem - 1 /\ sem' \in Nat
        /\ UNCHANGED <<list, active, running, attr, job>>
    BY <1>0, <1>4, <1>t DEF WaitJob, TypeOK, WPC
  <2>2. /\ Created' = Created /\ Busy' = Busy /\ Holding' = Holding
        /\ Woken' = Woken \cup {w} /\ w \notin Woken
    BY <2>1 DEF Created, Busy, Holding, Woken
  <2>3. Cardinality(Woken') = Cardinality(Woken) + 1
    BY <2>2, FS_AddElement, ThreadSets
  <2>4. TypeOK' /\ HeldWhileRunning'
    BY <1>0, <2>1 DEF TypeOK, HeldWhileRunning
  <2>5. CountersExact' /\ AtMostMaxConcurrent'
    BY <1>0, <2>1, <2>2 DEF CountersExact, AtMostMaxConcurrent, JobCount
  <2>6. WakeUpForEveryJob'
    BY <1>0, <1>t, <2>1, <2>3, ThreadSets DEF WakeUpForEveryJob
  <2> QED
    BY <2>4, <2>5, <2>6
<1>5. ASSUME NEW w \in Workers, Detach(w) PROVE PoolInv'
  <2>1. /\ wpc \in [Workers -> WPC] /\ wpc' = [wpc EXCEPT ![w] = "run"]
        /\ wpc[w] = "detach" /\ wpc' \in [Workers -> WPC]
        /\ running' = running + 1 /\ UNCHANGED <<sem, active, attr>>
    BY <1>0, <1>5 DEF Detach, TypeOK, WPC
  <2>2. /\ Created' = Created
        /\ Busy' = Busy \cup {w} /\ w \notin Busy
        /\ Woken' = Woken \ {w} /\ w \in Woken
    BY <2>1 DEF Created, Busy, Woken
  <2>3. /\ Cardinality(Busy') = Cardinality(Busy) + 1
        /\ Cardinality(Woken') = Cardinality(Woken) - 1
    BY <2>2, FS_AddElement, FS_RemoveElement, ThreadSets
  <2>4. running + 1 <= active
    <3>1. Busy' \in SUBSET Created
      BY <2>1, <2>2 DEF Busy, Created
    <3>2. Cardinality(Busy') <= Cardinality(Created)
      BY <3>1, FS_Subset, ThreadSets
    <3> QED
      BY <1>t, <2>1, <2>3, <3>2
  <2>c. /\ running' \in 0 .. 255 /\ running' = Cardinality(Busy')
        /\ active' = Cardinality(Created')
    <3>1. r + 1 \in 0 .. 255
      BY <1>k, <1>n, <2>4
    <3>2. running' \in 0 .. 255
      BY <1>k, <2>1, <3>1
    <3> QED
      BY <1>t, <2>1, <2>2, <2>3, <3>2
  <2>5. job[w] = NoJob
    BY <1>0, <2>1 DEF HeldWhileRunning
  <2>6. CASE list = <<>>
    <3>1. UNCHANGED <<list, job>> /\ Len(list) = 0
      BY <1>5, <2>6 DEF Detach
    <3>2. Holding' = Holding
      BY <3>1 DEF Holding
    <3>3. TypeOK' /\ HeldWhileRunning'
      BY <1>0, <2>1, <2>c, <3>1 DEF TypeOK, HeldWhileRunning
    <3>4. CountersExact'
      <4>1. 0 + (r + 1) \in 0 .. 255
        BY <1>k, <1>n, <2>4
      <4>2. Len(list') + running' \in 0 .. 255
        BY <1>k, <2>1, <3>1, <4>1
      <4> QED
        BY <2>c, <4>2 DEF CountersExact, JobCount
    <3>5. WakeUpForEveryJob' /\ AtMostMaxConcurrent'
      <4>1. Cardinality(Woken') \in Nat
        BY <2>2, FS_RemoveElement, FS_CardinalityType, ThreadSets
      <4> QED
        BY <1>0, <1>t, <2>1, <3>1, <3>2, <4>1 DEF WakeUpForEveryJob, AtMostMaxConcurrent
    <3> QED
      BY <3>3, <3>4, <3>5
  <2>7. CASE list # <<>>
    <3>1. list' = Tail(list) /\ job' = [job EXCEPT ![w] = Head(list)]
      BY <1>5, <2>7 DEF Detach
    <3>2. /\ list' \in Seq(Jobs) /\ Len(list') = Len(list) - 1 /\ Len(list') \in Nat
          /\ Head(list) \in Jobs /\ IsInjective(list')
      BY <1>0, <1>t, <2>7, <3>1, TailFacts DEF TypeOK, WakeUpForEveryJob
    <3>3. job \in [Workers -> Jobs \cup {NoJob}]
      BY <1>0 DEF TypeOK
    <3>4. Holding' = Holding \cup {w} /\ w \notin Holding
      BY <2>5, <3>1, <3>2, <3>3, JobQueueAssumption DEF Holding
    <3>5. Cardinality(Holding') = Cardinality(Holding) + 1
      BY <3>4, FS_AddElement, ThreadSets
    <3>6. TypeOK'
      BY <1>0, <2>1, <2>c, <3>1, <3>2, <3>3 DEF TypeOK
    <3>7. HeldWhileRunning'
      BY <1>0, <2>1, <3>1, <3>3 DEF HeldWhileRunning
    <3>8. CountersExact'
      <4>1. (n - 1) + (r + 1) \in 0 .. 255
        BY <1>n
      <4>2. Len(list') + running' \in 0 .. 255
        BY <1>k, <2>1, <3>2, <4>1
      <4> QED
        BY <2>c, <4>2 DEF CountersExact, JobCount
    <3>9. WakeUpForEveryJob'
      <4>1. Len(list) <= sem + Cardinality(Woken) /\ Cardinality(Woken) \in Nat
        BY <1>0, ThreadSets DEF WakeUpForEveryJob
      <4>2. Len(list') <= sem' + Cardinality(Woken')
        BY <1>t, <2>1, <2>3, <3>2, <4>1
      <4> QED
        BY <3>2, <4>2 DEF WakeUpForEveryJob
    <3>10. AtMostMaxConcurrent'
      <4>1. Len(list) + Cardinality(Holding) <= MaxConcurrent /\ Cardinality(Holding) \in Nat
        BY <1>0, ThreadSets DEF AtMostMaxConcurrent
      <4>2. Len(list') + Cardinality(Holding') <= MaxConcurrent
        BY <1>t, <3>2, <3>5, <4>1
      <4> QED
        BY <4>2 DEF AtMostMaxConcurrent
    <3> QED
      BY <3>6, <3>7, <3>8, <3>9, <3>10
  <2> QED
    BY <2>6, <2>7
<1>6. ASSUME NEW w \in Workers, RunJob(w) PROVE PoolInv'
  <2>1. /\ wpc \in [Workers -> WPC] /\ wpc' = [wpc EXCEPT ![w] = "finish"]
        /\ wpc[w] = "run" /\ wpc' \in [Workers -> WPC]
        /\ job \in [Workers -> Jobs \cup {NoJob}]
        /\ job' = [job EXCEPT ![w] = NoJob]
        /\ UNCHANGED <<list, sem, active, running, attr>>
    BY <1>0, <1>6 DEF RunJob, TypeOK, WPC
  <2>2. /\ Created' = Created /\ Busy' = Busy /\ Woken' = Woken
        /\ Holding' = Holding \ {w}
    BY <2>1 DEF Created, Busy, Woken, Holding
  <2>3. Cardinality(Holding') <= Cardinality(Holding) /\ Cardinality(Holding') \in Nat
    <3>1. Holding' \in SUBSET Holding
      BY <2>2
    <3> QED
      BY <3>1, FS_Subset, FS_CardinalityType, ThreadSets
  <2>4. TypeOK' /\ HeldWhileRunning'
    BY <1>0, <2>1 DEF TypeOK, HeldWhileRunning
  <2>5. CountersExact' /\ WakeUpForEveryJob'
    BY <1>0, <2>1, <2>2 DEF CountersExact, WakeUpForEveryJob, JobCount
  <2>6. AtMostMaxConcurrent'
    BY <1>0, <1>t, <2>1, <2>3, ThreadSets DEF AtMostMaxConcurrent
  <2> QED
    BY <2>4, <2>5, <2>6
<1>7. ASSUME NEW w \in Workers, Finish(w) PROVE PoolInv'
  <2>1. /\ wpc \in [Workers -> WPC] /\ wpc[w] = "finish"
        /\ running' = running - 1 /\ UNCHANGED <<list, sem, attr, job>>
        /\ wpc' \in [Workers -> WPC]
        /\ \/ active' = active - 1 /\ wpc' = [wpc EXCEPT ![w] = "none"]
           \/ wpc' = [wpc EXCEPT ![w] = "wait"] /\ UNCHANGED active
    BY <1>0, <1>7 DEF Finish, TypeOK, WPC
  <2>2. /\ Busy' = Busy \ {w} /\ w \in Busy /\ w \in Created
        /\ Woken' = Woken /\ Holding' = Holding
    BY <2>1 DEF Busy, Created, Woken, Holding
  <2>3. Cardinality(Busy') = Cardinality(Busy) - 1 /\ Cardinality(Busy') \in Nat
    BY <2>2, FS_RemoveElement, FS_CardinalityType, ThreadSets
  <2>4. active' = Cardinality(Created') /\ active' \in 0 .. 255
    <3>1. CASE active' = active - 1 /\ wpc' = [wpc EXCEPT ![w] = "none"]
      <4>1. Created' = Created \ {w}
        BY <2>1, <3>1 DEF Created
      <4>2. Cardinality(Created') = Cardinality(Created) - 1 /\ Cardinality(Created') \in Nat
        BY <2>2, <4>1, FS_RemoveElement, FS_CardinalityType, ThreadSets
      <4>3. active' = Cardinality(Created') /\ active' \in Nat
        BY <1>t, <3>1, <4>2
      <4>4. active - 1 \in Nat
        BY <1>t, <4>2
      <4>5. active - 1 \in 0 .. 255
        BY <1>n, <4>4
      <4> QED
        BY <3>1, <4>3, <4>5
    <3>2. CASE wpc' = [wpc EXCEPT ![w] = "wait"] /\ UNCHANGED active
      <4>1. Created' = Created
        BY <2>1, <3>2 DEF Created
      <4> QED
        BY <1>t, <3>2, <4>1
    <3> QED
      BY <2>1, <3>1, <3>2
  <2>c. running' = Cardinality(Busy') /\ running' \in Nat
    BY <1>t, <2>1, <2>3
  <2>e. r - 1 \in Nat
    BY <1>k, <1>t, <2>3
  <2>d. running' \in 0 .. 255
    <3>1. r - 1 \in 0 .. 255
      BY <1>n, <2>e
    <3> QED
      BY <1>k, <2>1, <3>1
  <2>5. TypeOK'
    BY <1>0, <2>1, <2>d, <2>4 DEF TypeOK
  <2>6. HeldWhileRunning'
    BY <1>0, <2>1 DEF HeldWhileRunning
  <2>7. CountersExact'
    <3>1. n + (r - 1) \in 0 .. 255
      BY <1>n, <2>e
    <3>2. Len(list') + running' \in 0 .. 255
      BY <1>k, <2>1, <3>1
    <3> QED
      BY <2>4, <2>c, <3>2 DEF CountersExact, JobCount
  <2>8. WakeUpForEveryJob' /\ AtMostMaxConcurrent'
    BY <1>0, <2>1, <2>2 DEF WakeUpForEveryJob, AtMostMaxConcurrent
  <2> QED
    BY <2>5, <2>6, <2>7, <2>8
<1>8. CASE UNCHANGED vars
  <2>1. Created' = Created /\ Busy' = Busy /\ Woken' = Woken /\ Holding' = Holding
    BY <1>8 DEF vars, Created, Busy, Woken, Holding
  <2> QED
    BY <1>0, <1>8, <2>1
       DEF vars, TypeOK, CountersExact, WakeUpForEveryJob,
           AtMostMaxConcurrent, HeldWhileRunning, JobCount
<1> QED
  BY <1>1, <1>2, <1>3, <1>4, <1>5, <1>6, <1>7, <1>8 DEF Next, Worker

\* Whatever the interleaving of job_schedule, job_deschedule, resizing by
\* jobqueue_set_attr, failed thread creation and the workers' two critical
\* sections, the pool's uint8_t counters are exact and never wrap, every
\* queued job has a wake-up, no job is queued twice, and no more jobs are
\* queued or run than jobqueue_create allowed.
THEOREM PoolExact == Spec => []JobPoolExact
<1>1. PoolInv => JobPoolExact
  BY DEF PoolInv
<1> QED
  BY <1>1, PoolInit, PoolStep, PTL DEF Spec
=============================================================================
