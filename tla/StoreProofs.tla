---------------------------- MODULE StoreProofs -----------------------------
(***************************************************************************)
(* Theorems about the modules that keep data: the firmware slots, the two  *)
(* ports' key-value stores, the reports kept in one, the metric table, the *)
(* log levels, the ring buffer and the message queue.  Each is a property  *)
(* that the run `stores' checks on a small instance, here for every value  *)
(* of the constants.                                                       *)
(***************************************************************************)
EXTENDS OtaImg, MetricFs, Nvs, Metrics, Logging, ByteRing, Msgq, FiniteSetTheorems,
        SequenceTheorems, WellFoundedInduction, TLAPS

(***************************************************************************)
(* OtaImg: UploadSafe, for images of any number of blocks and any number   *)
(* of failing calls.                                                       *)
(***************************************************************************)
Contents == Images \cup {Erased, Mixed}

\* The handle never writes to the partition that runs, and what an upload that
\* met no trouble has written so far is the client's image on erased flash.
WrittenSoFar ==
    /\ handle \in Parts /\ off > 0
    /\ \A b \in Blocks : ota_flash[handle][b] = IF b < off THEN image ELSE Erased

UploadInv ==
    /\ ota_flash \in [Parts -> [Blocks -> Contents]]
    /\ running \in Parts /\ boot \in Parts /\ handle \in Parts \cup {Closed}
    /\ image \in Images /\ off \in Blocks
    /\ handle # running
    /\ fresh => WrittenSoFar
    /\ UploadSafe

LEMMA OtherPart ==
    /\ Closed \notin Parts
    /\ \A p \in Parts : Other(p) \in Parts /\ Other(p) # p
    /\ \A p, q \in Parts : q # p => q = Other(p)
  BY DEF Parts, Other, Closed

LEMMA UploadInit == OtaInit => UploadInv
<1> SUFFICES ASSUME OtaInit PROVE UploadInv
  OBVIOUS
<1>1. PICK v \in Images :
        /\ ota_flash = [p \in Parts |-> [b \in Blocks |-> IF p = "ota_0" THEN v ELSE Erased]]
        /\ image = v
  BY DEF OtaInit
<1>2. ota_flash \in [Parts -> [Blocks -> Contents]] /\ Whole("ota_0")
  BY <1>1 DEF Contents, Whole, WholeIn, Parts
<1>3. 0 \in Blocks
  BY OtaAssumption DEF Blocks
<1> QED
  BY <1>1, <1>2, <1>3, OtherPart DEF OtaInit, UploadInv, UploadSafe, Parts, Closed

\* Flash outside the running partition may change as it likes.
LEMMA RunningKept ==
    ASSUME UploadInv, ota_flash'[running] = ota_flash[running], UNCHANGED running
    PROVE  Whole(running)'
  BY DEF UploadInv, UploadSafe, Whole, WholeIn

LEMMA EraseFacts ==
    ASSUME UploadInv, NEW part \in Parts, part # running
    PROVE  /\ ErasePart(part) \in [Parts -> [Blocks -> Contents]]
           /\ ErasePart(part)[running] = ota_flash[running]
           /\ \A b \in Blocks : ErasePart(part)[part][b] = Erased
  BY DEF UploadInv, ErasePart, Contents

LEMMA WriteStep ==
    ASSUME UploadInv, NEW part \in Parts, WriteImageData(part)
    PROVE  UploadInv'
<1> DEFINE next == [Opened(part) EXCEPT ![part][off] = Programmed(@, image)]
           last == off = NBlocks - 1
           clean == IF off = 0 THEN handle = Closed ELSE fresh
<1>0. /\ ota_flash \in [Parts -> [Blocks -> Contents]] /\ off \in Blocks /\ image \in Images
      /\ running \in Parts /\ boot \in Parts /\ handle # running /\ ~failed
      /\ fresh => WrittenSoFar
  BY DEF UploadInv, UploadSafe
<1>1. /\ handle = part \/ (handle = Closed /\ MayBegin(part))
      /\ ota_flash' = next /\ off' = (IF last THEN 0 ELSE off + 1)
      /\ UNCHANGED <<running, confirmed, image, faults>>
      /\ fresh' <=> clean /\ ~last
  BY DEF WriteImageData
<1>2. part # running
  BY <1>0, <1>1 DEF MayBegin
<1>3. /\ Opened(part) \in [Parts -> [Blocks -> Contents]]
      /\ Opened(part)[running] = ota_flash[running]
  BY <1>0, <1>2, EraseFacts DEF Opened
<1>4. \A v \in Contents : Programmed(v, image) \in Contents
  BY <1>0 DEF Programmed, Contents
<1>5. next \in [Parts -> [Blocks -> Contents]] /\ next[running] = ota_flash[running]
  BY <1>0, <1>2, <1>3, <1>4
<1>6. ASSUME clean
      PROVE  \A b \in Blocks : next[part][b] = IF b <= off THEN image ELSE Erased
  <2>1. \A b \in Blocks : Opened(part)[part][b] = IF b < off THEN image ELSE Erased
    <3>1. CASE off = 0
      <4>1. Opened(part) = ErasePart(part)
        BY <1>6, <3>1 DEF Opened
      <4>2. \A b \in Blocks : ~(b < off)
        BY <3>1, OtaAssumption DEF Blocks
      <4> QED
        BY <1>2, <4>1, <4>2, EraseFacts
    <3>2. CASE off # 0
      <4>1. WrittenSoFar /\ handle \in Parts
        BY <1>0, <1>6, <3>2 DEF WrittenSoFar
      <4>2. handle = part /\ Opened(part) = ota_flash
        BY <1>1, <4>1, OtherPart DEF Opened
      <4> QED
        BY <4>1, <4>2 DEF WrittenSoFar
    <3> QED
      BY <3>1, <3>2
  <2>2. \A b \in Blocks : next[part][b] =
            IF b = off THEN Programmed(Opened(part)[part][b], image)
                       ELSE Opened(part)[part][b]
    BY <1>0, <1>3
  <2>3. Programmed(Erased, image) = image
    BY DEF Programmed
  <2>4. ASSUME NEW b \in Blocks
        PROVE  next[part][b] = IF b <= off THEN image ELSE Erased
    <3>1. b \in Int /\ off \in Int
      BY <1>0, OtaAssumption DEF Blocks
    <3> HIDE DEF next
    <3> QED
      BY <2>1, <2>2, <2>3, <3>1
  <2> QED
    BY <2>4
<1> HIDE DEF next
<1>7. off' \in Blocks
  BY <1>0, <1>1, OtaAssumption DEF Blocks
<1>8. /\ boot' \in Parts /\ handle' \in Parts \cup {Closed} /\ handle' # running
      /\ last => handle' = Closed
      /\ ~last => handle' = part /\ UNCHANGED <<boot, failed>>
      /\ last => failed' <=> (failed \/ (clean /\ boot' # part))
      /\ last /\ WholeIn(next, part) => set_boot(1, next)
  <2>1. CASE last
    <3>1. /\ handle' = Closed
          /\ IF WholeIn(next, part) THEN set_boot(1, next) ELSE UNCHANGED boot
          /\ failed' = (failed \/ (clean /\ boot' # part))
      BY <2>1 DEF WriteImageData, next
    <3>2. boot' \in Parts
      BY <1>0, <3>1, OtherPart DEF set_boot, slot_to_partition, NextUpdate
    <3> QED
      BY <1>0, <2>1, <3>1, <3>2, OtherPart
  <2>2. CASE ~last
    <3>1. handle' = part /\ UNCHANGED <<boot, failed>>
      BY <2>2 DEF WriteImageData
    <3> QED
      BY <1>0, <1>2, <2>2, <3>1
  <2> QED
    BY <2>1, <2>2
<1>9. ~failed'
  <2>1. CASE last /\ clean
    <3>1. \A b \in Blocks : b <= off
      BY <2>1, OtaAssumption DEF Blocks
    <3>2. WholeIn(next, part)
      BY <1>0, <1>6, <2>1, <3>1 DEF WholeIn
    <3>3. slot_to_partition(1) = {part}
      BY <1>0, <1>2, OtherPart DEF slot_to_partition, NextUpdate
    <3>4. boot' = part
      BY <1>8, <2>1, <3>2, <3>3 DEF set_boot
    <3> QED
      BY <1>0, <1>8, <2>1, <3>4
  <2>2. CASE ~(last /\ clean)
    BY <1>0, <1>8, <2>2
  <2> QED
    BY <2>1, <2>2
<1>10. fresh' => WrittenSoFar'
  <2> SUFFICES ASSUME fresh' PROVE WrittenSoFar'
    OBVIOUS
  <2>1. clean /\ ~last /\ handle' = part /\ off' = off + 1
    BY <1>1, <1>8
  <2>2. ASSUME NEW b \in Blocks
        PROVE  next[part][b] = IF b < off + 1 THEN image ELSE Erased
    <3>1. b <= off <=> b < off + 1
      BY <1>0, OtaAssumption DEF Blocks
    <3> QED
      BY <1>6, <2>1, <3>1
  <2>3. off + 1 > 0
    BY <1>0, OtaAssumption DEF Blocks
  <2> QED
    BY <1>1, <2>1, <2>2, <2>3 DEF WrittenSoFar
<1>11. Whole(running)'
  BY <1>1, <1>5, RunningKept
<1> QED
  BY <1>0, <1>1, <1>5, <1>7, <1>8, <1>9, <1>10, <1>11 DEF UploadInv, UploadSafe

LEMMA UploadStep == UploadInv /\ [OtaNext]_otaVars => UploadInv'
<1> SUFFICES ASSUME UploadInv, [OtaNext]_otaVars PROVE UploadInv'
  OBVIOUS
<1>0. /\ ota_flash \in [Parts -> [Blocks -> Contents]] /\ off \in Blocks /\ 0 \in Blocks
      /\ running \in Parts /\ boot \in Parts /\ handle # running
      /\ handle \in Parts \cup {Closed} /\ Whole(running) /\ ~failed
      /\ fresh => WrittenSoFar
  BY OtaAssumption DEF UploadInv, UploadSafe, Blocks
<1>1. ASSUME NEW part \in NextUpdate \cup ({handle} \ {Closed})
      PROVE  part \in Parts
  BY <1>0, OtherPart DEF NextUpdate
<1>2. ASSUME NEW part \in Parts, WriteRefused(part)
      PROVE  UploadInv'
  <2>1. /\ handle' = Closed /\ off' = 0 /\ ~fresh'
        /\ UNCHANGED <<running, boot, confirmed, image, failed>>
    BY <1>2 DEF WriteRefused
  <2>2. ota_flash' \in [Parts -> [Blocks -> Contents]] /\ ota_flash'[running] = ota_flash[running]
    <3>1. CASE UNCHANGED ota_flash
      BY <1>0, <3>1
    <3>2. CASE /\ handle = part \/ (handle = Closed /\ MayBegin(part))
               /\ ota_flash' = Opened(part)
      <4>1. part # running
        BY <1>0, <3>2 DEF MayBegin
      <4> QED
        BY <1>0, <3>2, <4>1, EraseFacts DEF Opened
    <3> QED
      BY <1>2, <3>1, <3>2 DEF WriteRefused
  <2>3. Whole(running)'
    BY <2>1, <2>2, RunningKept
  <2> QED
    BY <1>0, <2>1, <2>2, <2>3, OtherPart DEF UploadInv, UploadSafe
<1>3. ASSUME NEW slot \in 0 .. 1, WritePending(slot)
      PROVE  UploadInv'
  <2>1. /\ handle' = Closed /\ ~fresh'
        /\ UNCHANGED <<ota_flash, running, confirmed, image, off, failed>>
    BY <1>3 DEF WritePending
  <2>2. boot' \in Parts
    BY <1>0, <1>3, OtherPart DEF WritePending, set_boot, slot_to_partition, NextUpdate
  <2>3. Whole(running)'
    BY <2>1, RunningKept
  <2> QED
    BY <1>0, <2>1, <2>2, <2>3, OtherPart DEF UploadInv, UploadSafe
<1>4. CASE WriteConfirmed \/ UNCHANGED otaVars
  <2>1. UNCHANGED <<ota_flash, running, boot, handle, image, off, fresh, failed>>
    BY <1>4 DEF WriteConfirmed, otaVars
  <2>2. WrittenSoFar' <=> WrittenSoFar
    BY <2>1 DEF WrittenSoFar
  <2>3. Whole(running)'
    BY <2>1, RunningKept
  <2> QED
    BY <1>0, <2>1, <2>2, <2>3 DEF UploadInv, UploadSafe
<1>5. CASE EraseSlot
  <2>1. PICK part \in slot_to_partition(1) :
            /\ ota_flash' = ErasePart(part) /\ ~fresh'
            /\ UNCHANGED <<running, boot, confirmed, handle, image, off, failed, faults>>
    BY <1>5 DEF EraseSlot
  <2>2. part \in Parts /\ part # running
    BY <1>0, OtherPart DEF slot_to_partition, NextUpdate
  <2>3. ota_flash' \in [Parts -> [Blocks -> Contents]] /\ ota_flash'[running] = ota_flash[running]
    BY <2>1, <2>2, EraseFacts
  <2>4. Whole(running)'
    BY <2>1, <2>3, RunningKept
  <2> QED
    BY <1>0, <2>1, <2>3, <2>4 DEF UploadInv, UploadSafe
<1>6. ASSUME NEW v \in Images, NewClient(v)
      PROVE  UploadInv'
  <2>1. /\ image' = v /\ off' = 0 /\ ~fresh'
        /\ UNCHANGED <<ota_flash, running, boot, confirmed, handle, failed, faults>>
    BY <1>6 DEF NewClient
  <2>2. Whole(running)'
    BY <2>1, RunningKept
  <2> QED
    BY <1>0, <2>1, <2>2 DEF UploadInv, UploadSafe
<1>7. CASE OtaReset
  <2>1. /\ running' = (IF Whole(boot) THEN boot ELSE running) /\ boot' = running'
        /\ handle' = Closed /\ off' = 0 /\ ~fresh'
        /\ UNCHANGED <<ota_flash, image, failed, faults>>
    BY <1>7 DEF OtaReset
  <2>2. running' \in Parts /\ Whole(running)'
    BY <1>0, <2>1 DEF Whole, WholeIn
  <2> QED
    BY <1>0, <2>1, <2>2, OtherPart DEF UploadInv, UploadSafe
<1> QED
  BY <1>1, <1>2, <1>3, <1>4, <1>5, <1>6, <1>7, WriteStep DEF OtaNext

\* However uploads are broken off, repeated and mixed with erasures, failing
\* calls and resets, the image that runs is whole, and an upload that found no
\* handle open and met no fault is the one that starts next
\* (img_mgmt_impl_write_image_data, _write_pending and _erase_slot).
THEOREM UploadsAreSafe == OtaSpec => []UploadSafe
<1>1. UploadInv => UploadSafe
  BY DEF UploadInv
<1> QED
  BY <1>1, UploadInit, UploadStep, PTL DEF OtaSpec

-----------------------------------------------------------------------------
\* The least of a set of naturals, as obtain_tag and fds_record_find look for it.
LEMMA MinOfNaturals ==
    ASSUME NEW S, S \subseteq Nat, S # {}
    PROVE  Min(S) \in S /\ \A y \in S : Min(S) <= y
<1> DEFINE less == {ss \in Nat \X Nat : ss[1] < ss[2]}
<1>1. IsWellFoundedOn(less, Nat)
  BY NatLessThanWellFounded DEF OpToRel
<1> HIDE DEF less
<1>2. PICK x \in S : \A y \in S : ~(<<y, x>> \in less)
  BY <1>1, WFMin
<1>3. ASSUME NEW y \in S PROVE x <= y
  <2>1. ~(y < x)
    BY <1>2 DEF less
  <2> QED
    BY <2>1
<1> QED
  BY <1>3 DEF Min

-----------------------------------------------------------------------------
(***************************************************************************)
(* Nvs: NvsWritesKept, for any keys and values, queues and stores.         *)
(***************************************************************************)
\* What a write acknowledged is what the library answers with and what is on
\* flash, so power that fails leaves it whichever of the two it takes.
NvsInv ==
    /\ nvs_ram \in [NvsKeys -> NvsValues \cup {NoBlob}]
    /\ nvs_flash \in [NvsKeys -> NvsValues \cup {NoBlob}]
    /\ nvs_kept \in [NvsKeys -> NvsValues \cup {NoBlob}]
    /\ \A k \in NvsKeys : nvs_kept[k] # NoBlob => nvs_ram[k] = nvs_kept[k] /\ nvs_flash[k] = nvs_kept[k]

LEMMA NvsStep == NvsInv /\ (NvsEspNext \/ UNCHANGED espNvsVars) => NvsInv'
<1> SUFFICES ASSUME NvsInv, NvsEspNext \/ UNCHANGED espNvsVars PROVE NvsInv'
  OBVIOUS
<1> USE DEF NvsInv
<1>1. CASE NvsOpen \/ NvsClose \/ UNCHANGED espNvsVars
  BY <1>1 DEF NvsOpen, NvsClose, espNvsVars
<1>2. CASE NvsPowerLoss
  BY <1>2 DEF NvsPowerLoss
<1>3. ASSUME NEW k \in NvsKeys, NvsErase(k) PROVE NvsInv'
  BY <1>3 DEF NvsErase
<1>4. ASSUME NEW k \in NvsKeys, NEW v \in NvsValues, NvsWrite(k, v) PROVE NvsInv'
  <2>1. CASE nvs_flash' = nvs_ram' /\ nvs_kept' = [nvs_kept EXCEPT ![k] = v]
    BY <1>4, <2>1 DEF NvsWrite
  <2>2. CASE UNCHANGED nvs_flash /\ nvs_kept' = [nvs_kept EXCEPT ![k] = NoBlob]
    BY <1>4, <2>2 DEF NvsWrite
  <2> QED
    BY <1>4, <2>1, <2>2 DEF NvsWrite
<1> QED
  BY <1>1, <1>2, <1>3, <1>4 DEF NvsEspNext

FdsRecord == [key : FdsKeys, val : FdsValues]
FdsOp == [op : {"write", "update", "delete"}, id : Nat, key : FdsKeys, val : FdsValues \cup {NoRecord}]

IsLive(rec, id, k) == id \in DOMAIN rec /\ rec[id] # NoRecord /\ rec[id].key = k

\* The records of k hold v: none if v is NoRecord, or else one.
Holds(rec, k, v) ==
    \/ v = NoRecord /\ \A id \in DOMAIN rec : ~IsLive(rec, id, k)
    \/ v # NoRecord /\ \E id \in DOMAIN rec :
          /\ IsLive(rec, id, k) /\ rec[id].val = v
          /\ \A j \in DOMAIN rec : IsLive(rec, j, k) => j = id

\* The operation finds the records of its key as they were when it was queued.
FindsAsQueued(rec, o) ==
    IF o.op = "write" THEN \A id \in DOMAIN rec : ~IsLive(rec, id, o.key)
    ELSE IsLive(rec, o.id, o.key) /\ \A j \in DOMAIN rec : IsLive(rec, j, o.key) => j = o.id

FdsType ==
    /\ fds_records \in Seq(FdsRecord \cup {NoRecord})
    /\ fds_ops \in Seq(FdsOp)
    /\ fds_expect \in [FdsKeys -> FdsValues \cup {NoRecord}]
    /\ fds_disturbed \subseteq FdsKeys

\* An operation deletes a record of its own key or one that is gone.
OwnRecord(rec, o) ==
    o.op # "write" => o.id \in DOMAIN rec /\ (rec[o.id] # NoRecord => rec[o.id].key = o.key)

\* A key that is not disturbed has at most one operation queued.  If none, its
\* records hold what was asked for; if one, the operation will make them.
FdsInv ==
    /\ FdsType
    /\ \A i \in DOMAIN fds_ops :
          /\ OwnRecord(fds_records, fds_ops[i])
          /\ fds_ops[i].op = "delete" <=> fds_ops[i].val = NoRecord
          /\ fds_ops[i].key \notin fds_disturbed =>
                /\ fds_ops[i].val = fds_expect[fds_ops[i].key]
                /\ FindsAsQueued(fds_records, fds_ops[i])
                /\ \A j \in DOMAIN fds_ops : fds_ops[j].key = fds_ops[i].key => j = i
    /\ \A k \in FdsKeys \ fds_disturbed :
          ~Pending(k) => Holds(fds_records, k, fds_expect[k])

LEMMA FoundRecord ==
    ASSUME FdsType, NEW k \in FdsKeys
    PROVE  /\ HasRecord(k) = 0 => \A id \in DOMAIN fds_records : ~IsLive(fds_records, id, k)
           /\ HasRecord(k) # 0 => IsLive(fds_records, HasRecord(k), k)
           /\ HasRecord(k) \in Nat
<1> DEFINE found == {id \in DOMAIN fds_records : fds_records[id] # NoRecord /\ fds_records[id].key = k}
<1>1. found \subseteq Nat \ {0}
  BY DEF FdsType
<1>2. HasRecord(k) = IF found = {} THEN 0 ELSE Min(found)
  BY DEF HasRecord
<1>3. found # {} => Min(found) \in found
  BY <1>1, MinOfNaturals
<1> QED
  BY <1>1, <1>2, <1>3 DEF IsLive

LEMMA FdsQueueInv ==
    ASSUME FdsInv, NEW k \in FdsKeys, NEW op \in {"write", "update", "delete"},
           NEW v \in FdsValues \cup {NoRecord},
           op = "write" <=> HasRecord(k) = 0, op = "delete" <=> v = NoRecord,
           FdsQueue(op, k, v)
    PROVE  FdsInv'
<1> DEFINE n == Len(fds_ops)
           o == [op |-> op, id |-> HasRecord(k), key |-> k, val |-> v]
<1>t. FdsType
  BY DEF FdsInv
<1>1. o \in FdsOp /\ o.op = op /\ o.id = HasRecord(k) /\ o.key = k /\ o.val = v
  BY <1>t, FoundRecord DEF FdsOp
<1>2. fds_ops \in Seq(FdsOp) /\ fds_ops' = Append(fds_ops, o)
  BY <1>t DEF FdsQueue, FdsType
<1> HIDE DEF o
<1>3. /\ fds_ops' \in Seq(FdsOp)
      /\ n \in Nat /\ DOMAIN fds_ops = 1..n /\ DOMAIN fds_ops' = 1..(n + 1)
      /\ \A i \in 1..n : fds_ops'[i] = fds_ops[i]
      /\ fds_ops'[n + 1] = o
  BY <1>1, <1>2
<1> HIDE DEF n
<1>4. /\ UNCHANGED fds_records
      /\ fds_disturbed \subseteq fds_disturbed' /\ fds_disturbed' \subseteq FdsKeys
      /\ Pending(k) => k \in fds_disturbed'
      /\ \A q \in FdsKeys : q # k => fds_expect'[q] = fds_expect[q]
      /\ fds_expect' \in [FdsKeys -> FdsValues \cup {NoRecord}] /\ fds_expect'[k] = v
  BY <1>t DEF FdsQueue, FdsType
<1>5. FdsType'
  BY <1>t, <1>3, <1>4 DEF FdsType
<1>6. ASSUME NEW i \in 1..n
      PROVE  /\ OwnRecord(fds_records', fds_ops'[i])
             /\ fds_ops'[i].op = "delete" <=> fds_ops'[i].val = NoRecord
             /\ fds_ops'[i].key \notin fds_disturbed' =>
                   /\ fds_ops'[i].val = fds_expect'[fds_ops'[i].key]
                   /\ FindsAsQueued(fds_records', fds_ops'[i])
                   /\ \A j \in DOMAIN fds_ops' : fds_ops'[j].key = fds_ops'[i].key => j = i
  <2>1. fds_ops'[i] = fds_ops[i] /\ i \in DOMAIN fds_ops
    BY <1>3
  <2>2. /\ OwnRecord(fds_records, fds_ops[i])
        /\ fds_ops[i].op = "delete" <=> fds_ops[i].val = NoRecord
        /\ fds_ops[i].key \notin fds_disturbed =>
                /\ fds_ops[i].val = fds_expect[fds_ops[i].key]
                /\ FindsAsQueued(fds_records, fds_ops[i])
                /\ \A j \in DOMAIN fds_ops : fds_ops[j].key = fds_ops[i].key => j = i
    BY <2>1 DEF FdsInv
  <2>3. fds_ops[i].key \in FdsKeys
    <3>1. fds_ops[i] \in FdsOp
      BY <1>2, <2>1
    <3> QED
      BY <3>1 DEF FdsOp
  <2>4. fds_ops[i].key = k => k \in fds_disturbed'
    BY <1>4, <2>1 DEF Pending
  <2>5. /\ OwnRecord(fds_records', fds_ops'[i])
        /\ fds_ops'[i].op = "delete" <=> fds_ops'[i].val = NoRecord
    BY <1>4, <2>1, <2>2, Zenon
  <2>6. ASSUME fds_ops'[i].key \notin fds_disturbed'
        PROVE  /\ fds_ops'[i].val = fds_expect'[fds_ops'[i].key]
               /\ FindsAsQueued(fds_records', fds_ops'[i])
               /\ \A j \in DOMAIN fds_ops' : fds_ops'[j].key = fds_ops'[i].key => j = i
    <3>1. fds_ops[i].key # k /\ fds_ops[i].key \notin fds_disturbed
      BY <1>4, <2>1, <2>4, <2>6
    <3>2. /\ fds_ops'[i].val = fds_expect'[fds_ops'[i].key]
          /\ FindsAsQueued(fds_records', fds_ops'[i])
      BY <1>4, <2>1, <2>2, <2>3, <3>1
    <3>3. ASSUME NEW j \in 1..(n + 1), fds_ops'[j].key = fds_ops'[i].key PROVE j = i
      <4>1. j # n + 1
        BY <1>1, <1>3, <2>1, <3>1, <3>3
      <4>2. j \in 1..n
        BY <1>3, <4>1
      <4> QED
        BY <1>3, <2>1, <2>2, <3>1, <3>3, <4>2
    <3> QED
      BY <1>3, <3>2, <3>3
  <2> QED
    BY <2>5, <2>6
<1>7. /\ OwnRecord(fds_records', o)
      /\ k \notin fds_disturbed' =>
            /\ FindsAsQueued(fds_records', o)
            /\ \A j \in DOMAIN fds_ops' : fds_ops'[j].key = k => j = n + 1
  <2>1. HasRecord(k) # 0 => IsLive(fds_records, HasRecord(k), k)
    BY <1>t, FoundRecord
  <2>2. OwnRecord(fds_records', o)
    BY <1>1, <1>4, <2>1 DEF OwnRecord, IsLive
  <2>3. ASSUME k \notin fds_disturbed' PROVE FindsAsQueued(fds_records', o)
    <3>1. Holds(fds_records, k, fds_expect[k])
      BY <1>4, <2>3 DEF FdsInv
    <3>2. CASE op = "write"
      BY <1>1, <1>4, <1>t, <3>2, FoundRecord DEF FindsAsQueued
    <3>3. CASE op # "write"
      BY <1>1, <1>4, <2>1, <3>1, <3>3 DEF FindsAsQueued, Holds, IsLive
    <3> QED
      BY <3>2, <3>3
  <2>4. ASSUME k \notin fds_disturbed', NEW j \in DOMAIN fds_ops', fds_ops'[j].key = k PROVE j = n + 1
    BY <1>3, <1>4, <2>4 DEF Pending
  <2> QED
    BY <2>2, <2>3, <2>4
<1>8. ASSUME NEW q \in FdsKeys \ fds_disturbed', ~Pending(q)'
      PROVE  Holds(fds_records', q, fds_expect'[q])
  <2>1. q # k
    <3>1. fds_ops'[n + 1].key = k /\ n + 1 \in DOMAIN fds_ops'
      BY <1>1, <1>3
    <3> QED
      BY <1>8, <3>1 DEF Pending
  <2>2. ~Pending(q)
    BY <1>3, <1>8 DEF Pending
  <2> QED
    BY <1>4, <2>1, <2>2 DEF FdsInv
<1>9. ASSUME NEW i \in DOMAIN fds_ops'
      PROVE  /\ OwnRecord(fds_records', fds_ops'[i])
             /\ fds_ops'[i].op = "delete" <=> fds_ops'[i].val = NoRecord
             /\ fds_ops'[i].key \notin fds_disturbed' =>
                   /\ fds_ops'[i].val = fds_expect'[fds_ops'[i].key]
                   /\ FindsAsQueued(fds_records', fds_ops'[i])
                   /\ \A j \in DOMAIN fds_ops' : fds_ops'[j].key = fds_ops'[i].key => j = i
  <2>1. CASE i \in 1..n
    BY <1>6, <2>1
  <2>2. CASE i = n + 1
    BY <1>1, <1>3, <1>4, <1>7, <2>2
  <2> QED
    BY <1>3, <2>1, <2>2
<1> QED
  BY <1>5, <1>8, <1>9 DEF FdsInv

\* What executing the operation o makes of the records.
ExecutedBy(old, new, o) ==
    LET n == Len(old) IN
    /\ new \in Seq(FdsRecord \cup {NoRecord})
    /\ DOMAIN new = IF o.op = "delete" THEN 1..n ELSE 1..(n + 1)
    /\ \A id \in 1..n : new[id] = IF o.op # "write" /\ id = o.id THEN NoRecord ELSE old[id]
    /\ o.op # "delete" => new[n + 1] = [key |-> o.key, val |-> o.val]

LEMMA SeqUpdate ==
    ASSUME NEW S, NEW s \in Seq(S), NEW i \in DOMAIN s, NEW x \in S
    PROVE  /\ [s EXCEPT ![i] = x] \in Seq(S)
           /\ DOMAIN [s EXCEPT ![i] = x] = DOMAIN s
           /\ \A j \in DOMAIN s : [s EXCEPT ![i] = x][j] = IF j = i THEN x ELSE s[j]
<1>1. Len(s) \in Nat /\ DOMAIN s = 1..Len(s) /\ \A j \in DOMAIN s : s[j] \in S
  OBVIOUS
<1>2. [s EXCEPT ![i] = x] \in [1..Len(s) -> S]
  BY <1>1
<1>3. ASSUME NEW m \in Nat, NEW f \in [1..m -> S] PROVE f \in Seq(S)
  OBVIOUS
<1> QED
  BY <1>1, <1>2, <1>3

LEMMA SeqAppend ==
    ASSUME NEW S, NEW s \in Seq(S), NEW x \in S
    PROVE  /\ Append(s, x) \in Seq(S)
           /\ Len(s) \in Nat /\ DOMAIN s = 1..Len(s)
           /\ DOMAIN Append(s, x) = 1..(Len(s) + 1)
           /\ Append(s, x)[Len(s) + 1] = x
           /\ \A j \in 1..Len(s) : Append(s, x)[j] = s[j]
OBVIOUS

LEMMA ExecutedRecords ==
    ASSUME NEW old \in Seq(FdsRecord \cup {NoRecord}), NEW o \in FdsOp, OwnRecord(old, o),
           o.op = "delete" <=> o.val = NoRecord
    PROVE  LET added == IF o.op = "delete" THEN old
                        ELSE Append(old, [key |-> o.key, val |-> o.val])
           IN  ExecutedBy(old, IF o.op = "write" THEN added ELSE [added EXCEPT ![o.id] = NoRecord], o)
<1> DEFINE n == Len(old)
           r == [key |-> o.key, val |-> o.val]
           a == Append(old, r)
           S == FdsRecord \cup {NoRecord}
<1>1. n \in Nat /\ DOMAIN old = 1..n /\ NoRecord \in S
  OBVIOUS
<1>2. o.op # "delete" => r \in S
  BY DEF FdsOp, FdsRecord
<1>3. o.op # "write" => o.id \in 1..n
  BY <1>1 DEF OwnRecord
<1>4. o.op \in {"write", "update", "delete"}
  BY DEF FdsOp
<1>5. CASE o.op = "delete"
  <2>1. o.id \in DOMAIN old
    BY <1>1, <1>3, <1>5
  <2>2. /\ [old EXCEPT ![o.id] = NoRecord] \in Seq(S)
        /\ DOMAIN [old EXCEPT ![o.id] = NoRecord] = DOMAIN old
        /\ \A j \in DOMAIN old : [old EXCEPT ![o.id] = NoRecord][j] = IF j = o.id THEN NoRecord ELSE old[j]
    BY <1>1, <2>1, SeqUpdate
  <2> QED
    BY <1>1, <1>5, <2>2 DEF ExecutedBy
<1>6. CASE o.op # "delete"
  <2>1. /\ a \in Seq(S) /\ DOMAIN a = 1..(n + 1)
        /\ a[n + 1] = r /\ \A j \in 1..n : a[j] = old[j]
    BY <1>2, <1>6, SeqAppend
  <2>2. CASE o.op = "write"
    <3>1. ExecutedBy(old, a, o)
      BY <1>1, <2>1, <2>2 DEF ExecutedBy
    <3> QED
      BY <1>6, <2>2, <3>1
  <2>3. CASE o.op # "write"
    <3> HIDE DEF a, r, S
    <3>1. o.id \in DOMAIN a
      <4>1. o.id \in 1..n
        BY <1>3, <2>3
      <4> QED
        BY <1>1, <2>1, <4>1
    <3>2. /\ [a EXCEPT ![o.id] = NoRecord] \in Seq(S)
          /\ DOMAIN [a EXCEPT ![o.id] = NoRecord] = DOMAIN a
          /\ \A j \in DOMAIN a : [a EXCEPT ![o.id] = NoRecord][j] = IF j = o.id THEN NoRecord ELSE a[j]
      BY <1>1, <2>1, <3>1, SeqUpdate
    <3>3. n + 1 \in DOMAIN a /\ n + 1 # o.id /\ \A id \in 1..n : id \in DOMAIN a
      BY <1>1, <1>3, <2>1, <2>3
    <3>4. ExecutedBy(old, [a EXCEPT ![o.id] = NoRecord], o)
      BY <1>1, <1>6, <2>1, <2>3, <3>2, <3>3 DEF ExecutedBy, r, S
    <3> QED
      BY <1>6, <2>3, <3>4 DEF a, r
  <2> QED
    BY <2>2, <2>3
<1> QED
  BY <1>5, <1>6

LEMMA OpsTail ==
    ASSUME fds_ops \in Seq(FdsOp), fds_ops # <<>>, fds_ops' = Tail(fds_ops)
    PROVE  /\ fds_ops' \in Seq(FdsOp) /\ 1 \in DOMAIN fds_ops /\ Head(fds_ops) = fds_ops[1]
           /\ fds_ops[1] \in FdsOp
           /\ \A i \in DOMAIN fds_ops' : i + 1 \in DOMAIN fds_ops /\ fds_ops'[i] = fds_ops[i + 1] /\ i \in Nat /\ i # 0
           /\ \A i \in DOMAIN fds_ops : i # 1 => i - 1 \in DOMAIN fds_ops' /\ fds_ops'[i - 1] = fds_ops[i]
<1>1. /\ Len(fds_ops) \in Nat \ {0} /\ DOMAIN fds_ops = 1..Len(fds_ops)
      /\ fds_ops' \in Seq(FdsOp) /\ DOMAIN fds_ops' = 1..(Len(fds_ops) - 1)
      /\ \A i \in DOMAIN fds_ops' : fds_ops'[i] = fds_ops[i + 1]
      /\ Head(fds_ops) = fds_ops[1]
  OBVIOUS
<1>2. 1 \in DOMAIN fds_ops /\ fds_ops[1] \in FdsOp
  BY <1>1
<1>3. \A i \in DOMAIN fds_ops' : i + 1 \in DOMAIN fds_ops /\ i \in Nat /\ i # 0
  BY <1>1
<1>4. ASSUME NEW i \in DOMAIN fds_ops, i # 1
      PROVE  i - 1 \in DOMAIN fds_ops' /\ fds_ops'[i - 1] = fds_ops[i]
  <2>1. i - 1 \in DOMAIN fds_ops' /\ (i - 1) + 1 = i
    BY <1>1, <1>4
  <2> QED
    BY <1>1, <2>1
<1> QED
  BY <1>1, <1>2, <1>3, <1>4

\* The invariant's clauses for one operation and for one key without any.
OpInv(i) ==
    /\ OwnRecord(fds_records, fds_ops[i])
    /\ fds_ops[i].op = "delete" <=> fds_ops[i].val = NoRecord
    /\ fds_ops[i].key \notin fds_disturbed =>
          /\ fds_ops[i].val = fds_expect[fds_ops[i].key]
          /\ FindsAsQueued(fds_records, fds_ops[i])
          /\ \A j \in DOMAIN fds_ops : fds_ops[j].key = fds_ops[i].key => j = i

LEMMA FdsInvParts ==
    FdsInv <=> /\ FdsType
               /\ \A i \in DOMAIN fds_ops : OpInv(i)
               /\ \A k \in FdsKeys \ fds_disturbed :
                     ~Pending(k) => Holds(fds_records, k, fds_expect[k])
BY DEF FdsInv, OpInv

\* An operation leaves the records of the other keys as they are.
LEMMA OtherKeysKept ==
    ASSUME NEW old \in Seq(FdsRecord \cup {NoRecord}), NEW new, NEW o \in FdsOp,
           OwnRecord(old, o), ExecutedBy(old, new, o), NEW k \in FdsKeys, k # o.key
    PROVE  /\ \A id : IsLive(new, id, k) <=> IsLive(old, id, k)
           /\ \A id : IsLive(old, id, k) => new[id] = old[id]
<1>1. Len(old) \in Nat /\ DOMAIN old = 1..Len(old)
  OBVIOUS
<1>2. \A id \in DOMAIN old : id \in DOMAIN new /\ (IsLive(old, id, k) => new[id] = old[id])
  BY <1>1 DEF ExecutedBy, OwnRecord, IsLive
<1>3. \A id \in DOMAIN old : IsLive(new, id, k) <=> IsLive(old, id, k)
  BY <1>1, <1>2 DEF ExecutedBy, IsLive
<1>4. ASSUME NEW id \in DOMAIN new, id \notin DOMAIN old PROVE ~IsLive(new, id, k)
  <2>1. o.op # "delete" /\ id = Len(old) + 1
    BY <1>1, <1>4 DEF ExecutedBy
  <2>2. new[id].key = o.key
    BY <2>1 DEF ExecutedBy
  <2> QED
    BY <2>2 DEF IsLive
<1> QED
  BY <1>2, <1>3, <1>4 DEF IsLive

\* An operation that finds its key's records as it was queued leaves its value.
LEMMA OwnKeySet ==
    ASSUME NEW old \in Seq(FdsRecord \cup {NoRecord}), NEW new, NEW o \in FdsOp,
           ExecutedBy(old, new, o), FindsAsQueued(old, o),
           o.op = "delete" <=> o.val = NoRecord
    PROVE  Holds(new, o.key, o.val)
<1>1. Len(old) \in Nat /\ DOMAIN old = 1..Len(old) /\ o.op \in {"write", "update", "delete"}
  BY DEF FdsOp
<1>2. ASSUME NEW id \in 1..Len(old) PROVE ~IsLive(new, id, o.key)
  BY <1>1, <1>2 DEF ExecutedBy, FindsAsQueued, IsLive
<1>3. CASE o.op = "delete"
  BY <1>1, <1>2, <1>3 DEF Holds, ExecutedBy
<1>4. CASE o.op # "delete"
  <2> DEFINE n == Len(old) + 1
  <2>1. n \in DOMAIN new /\ \A id \in DOMAIN new : id # n => id \in 1..Len(old)
    BY <1>1, <1>4 DEF ExecutedBy
  <2>2. new[n] = [key |-> o.key, val |-> o.val]
    BY <1>4 DEF ExecutedBy
  <2>3. new[n] # NoRecord
    <3>1. new[n] \in [key : FdsKeys, val : FdsValues]
      BY <1>4, <2>2 DEF FdsOp
    <3> QED
      BY <3>1, NvsAssumption
  <2>4. IsLive(new, n, o.key) /\ new[n].val = o.val
    BY <2>1, <2>2, <2>3 DEF IsLive
  <2> HIDE DEF n
  <2> QED
    BY <1>2, <1>4, <2>1, <2>4 DEF Holds
<1> QED
  BY <1>3, <1>4

LEMMA FdsExecuteInv == FdsInv /\ FdsExecute => FdsInv'
<1> SUFFICES ASSUME FdsInv, FdsExecute PROVE FdsInv'
  OBVIOUS
<1> DEFINE o == fds_ops[1]
<1>t. FdsType /\ \A i \in DOMAIN fds_ops : OpInv(i)
  BY FdsInvParts
<1>1. /\ fds_ops \in Seq(FdsOp) /\ fds_ops # <<>> /\ fds_ops' = Tail(fds_ops)
      /\ UNCHANGED <<fds_expect, fds_disturbed>>
  BY <1>t DEF FdsExecute, FdsType
<1>2. /\ fds_ops' \in Seq(FdsOp) /\ 1 \in DOMAIN fds_ops /\ Head(fds_ops) = o
      /\ o \in FdsOp
      /\ \A i \in DOMAIN fds_ops' : i + 1 \in DOMAIN fds_ops /\ fds_ops'[i] = fds_ops[i + 1] /\ i \in Nat /\ i # 0
      /\ \A i \in DOMAIN fds_ops : i # 1 => i - 1 \in DOMAIN fds_ops' /\ fds_ops'[i - 1] = fds_ops[i]
  BY <1>1, OpsTail
<1>3. OpInv(1)
  BY <1>t, <1>2
<1>4. OwnRecord(fds_records, o) /\ (o.op = "delete" <=> o.val = NoRecord)
  BY <1>3 DEF OpInv
<1>5. fds_records \in Seq(FdsRecord \cup {NoRecord})
  BY <1>t DEF FdsType
<1>6. ExecutedBy(fds_records, fds_records', o)
  <2>1. LET added == IF o.op = "delete" THEN fds_records
                     ELSE Append(fds_records, [key |-> o.key, val |-> o.val])
        IN  fds_records' = IF o.op = "write" THEN added ELSE [added EXCEPT ![o.id] = NoRecord]
    BY <1>2 DEF FdsExecute
  <2> QED
    BY <1>2, <1>4, <1>5, <2>1, ExecutedRecords
<1>7. o.key \in FdsKeys
  BY <1>2 DEF FdsOp
<1> HIDE DEF o
<1>8. FdsType'
  BY <1>t, <1>1, <1>2, <1>6 DEF FdsType, ExecutedBy
<1>9. ASSUME NEW k \in FdsKeys, k # o.key
      PROVE  /\ \A id : IsLive(fds_records', id, k) <=> IsLive(fds_records, id, k)
             /\ \A id : IsLive(fds_records, id, k) => fds_records'[id] = fds_records[id]
  BY <1>2, <1>4, <1>5, <1>6, <1>9, OtherKeysKept
<1>10. \A id \in DOMAIN fds_records : id \in DOMAIN fds_records' /\ (fds_records'[id] = fds_records[id] \/ fds_records'[id] = NoRecord)
  <2>1. Len(fds_records) \in Nat /\ DOMAIN fds_records = 1..Len(fds_records)
    BY <1>5
  <2> QED
    BY <1>6, <2>1 DEF ExecutedBy
<1>11. ASSUME NEW i \in DOMAIN fds_ops' PROVE OpInv(i)'
  <2> DEFINE p == fds_ops[i + 1]
  <2>1. i + 1 \in DOMAIN fds_ops /\ fds_ops'[i] = p /\ i + 1 # 1
    BY <1>2
  <2>2. p \in FdsOp
    BY <1>1, <2>1
  <2>3. p.key \in FdsKeys
    BY <2>2 DEF FdsOp
  <2>4. /\ OwnRecord(fds_records, p) /\ (p.op = "delete" <=> p.val = NoRecord)
        /\ p.key \notin fds_disturbed =>
             /\ p.val = fds_expect[p.key] /\ FindsAsQueued(fds_records, p)
             /\ \A j \in DOMAIN fds_ops : fds_ops[j].key = p.key => j = i + 1
    BY <1>t, <2>1 DEF OpInv
  <2> HIDE DEF p
  <2>5. OwnRecord(fds_records', p)
    BY <1>10, <2>4 DEF OwnRecord
  <2>6. ASSUME p.key \notin fds_disturbed'
        PROVE  FindsAsQueued(fds_records', p)
    <3>1. p.key # o.key
      BY <1>1, <1>2, <2>1, <2>4, <2>6 DEF o
    <3>2. /\ \A id : IsLive(fds_records', id, p.key) <=> IsLive(fds_records, id, p.key)
      BY <1>9, <2>3, <3>1
    <3>3. FindsAsQueued(fds_records, p)
      BY <1>1, <2>4, <2>6
    <3> QED
      BY <3>2, <3>3 DEF FindsAsQueued, IsLive
  <2>7. ASSUME p.key \notin fds_disturbed', NEW j \in DOMAIN fds_ops', fds_ops'[j].key = p.key PROVE j = i
    <3>1. j + 1 \in DOMAIN fds_ops /\ fds_ops'[j] = fds_ops[j + 1] /\ i \in Nat /\ j \in Nat
      BY <1>2
    <3>2. j + 1 = i + 1
      BY <1>1, <2>4, <2>7, <3>1
    <3> QED
      BY <3>1, <3>2
  <2> QED
    BY <1>1, <2>1, <2>4, <2>5, <2>6, <2>7 DEF OpInv
<1>12. ASSUME NEW k \in FdsKeys \ fds_disturbed', ~Pending(k)' PROVE Holds(fds_records', k, fds_expect'[k])
  <2>1. CASE k = o.key
    <3>1. o.val = fds_expect[k] /\ FindsAsQueued(fds_records, o)
      BY <1>1, <1>3, <2>1 DEF OpInv, o
    <3> QED
      BY <1>1, <1>2, <1>4, <1>5, <1>6, <2>1, <3>1, OwnKeySet
  <2>2. CASE k # o.key
    <3>1. ~Pending(k)
      BY <1>2, <1>12, <2>2 DEF Pending, o
    <3>2. Holds(fds_records, k, fds_expect[k])
      BY <1>1, <1>12, <3>1 DEF FdsInv
    <3>3. /\ \A id : IsLive(fds_records', id, k) <=> IsLive(fds_records, id, k)
          /\ \A id : IsLive(fds_records, id, k) => fds_records'[id] = fds_records[id]
      BY <1>9, <2>2
    <3> HIDE DEF Pending
    <3>4. CASE fds_expect[k] = NoRecord
      BY <1>1, <3>2, <3>3, <3>4 DEF Holds, IsLive
    <3>5. CASE fds_expect[k] # NoRecord
      <4>1. PICK id \in DOMAIN fds_records :
                /\ IsLive(fds_records, id, k) /\ fds_records[id].val = fds_expect[k]
                /\ \A j \in DOMAIN fds_records : IsLive(fds_records, j, k) => j = id
        BY <3>2, <3>5 DEF Holds
      <4>2. IsLive(fds_records', id, k) /\ fds_records'[id].val = fds_expect[k]
        BY <3>3, <4>1
      <4>3. \A j \in DOMAIN fds_records' : IsLive(fds_records', j, k) => j = id
        BY <3>3, <4>1 DEF IsLive
      <4>4. id \in DOMAIN fds_records'
        BY <4>2 DEF IsLive
      <4> QED
        BY <1>1, <3>5, <4>2, <4>3, <4>4 DEF Holds
    <3> QED
      BY <3>4, <3>5
  <2> QED
    BY <2>1, <2>2
<1> QED
  BY <1>8, <1>11, <1>12, FdsInvParts DEF FdsInv, OpInv

LEMMA FdsFailInv == FdsInv /\ FdsFail => FdsInv'
<1> SUFFICES ASSUME FdsInv, FdsFail PROVE FdsInv'
  OBVIOUS
<1> DEFINE o == fds_ops[1]
<1>t. FdsType /\ \A i \in DOMAIN fds_ops : OpInv(i)
  BY FdsInvParts
<1>1. /\ fds_ops \in Seq(FdsOp) /\ fds_ops # <<>> /\ fds_ops' = Tail(fds_ops)
      /\ UNCHANGED <<fds_expect, fds_records>>
      /\ fds_disturbed' = fds_disturbed \cup {Head(fds_ops).key}
  BY <1>t DEF FdsFail, FdsType
<1>2. /\ fds_ops' \in Seq(FdsOp) /\ 1 \in DOMAIN fds_ops /\ Head(fds_ops) = o
      /\ o \in FdsOp
      /\ \A i \in DOMAIN fds_ops' : i + 1 \in DOMAIN fds_ops /\ fds_ops'[i] = fds_ops[i + 1] /\ i \in Nat /\ i # 0
      /\ \A i \in DOMAIN fds_ops : i # 1 => i - 1 \in DOMAIN fds_ops' /\ fds_ops'[i - 1] = fds_ops[i]
  BY <1>1, OpsTail
<1>3. o.key \in FdsKeys
  BY <1>2 DEF FdsOp
<1>4. FdsType'
  BY <1>t, <1>1, <1>2, <1>3 DEF FdsType
<1>5. ASSUME NEW i \in DOMAIN fds_ops' PROVE OpInv(i)'
  <2>1. i + 1 \in DOMAIN fds_ops /\ fds_ops'[i] = fds_ops[i + 1] /\ i \in Nat
    BY <1>2
  <2>2. OpInv(i + 1)
    BY <1>t, <2>1
  <2>3. ASSUME fds_ops'[i].key \notin fds_disturbed', NEW j \in DOMAIN fds_ops', fds_ops'[j].key = fds_ops'[i].key
        PROVE  j = i
    <3>1. j + 1 \in DOMAIN fds_ops /\ fds_ops'[j] = fds_ops[j + 1] /\ j \in Nat
      BY <1>2
    <3>2. j + 1 = i + 1
      BY <1>1, <2>1, <2>2, <2>3, <3>1 DEF OpInv
    <3> QED
      BY <2>1, <3>1, <3>2
  <2> QED
    BY <1>1, <2>1, <2>2, <2>3 DEF OpInv
<1>6. ASSUME NEW k \in FdsKeys \ fds_disturbed', ~Pending(k)' PROVE Holds(fds_records', k, fds_expect'[k])
  <2>1. ~Pending(k)
    BY <1>1, <1>2, <1>6 DEF Pending
  <2> QED
    BY <1>1, <1>6, <2>1 DEF FdsInv
<1> QED
  BY <1>4, <1>5, <1>6, FdsInvParts DEF FdsInv, OpInv

LEMMA OpWithValue ==
    ASSUME NEW o \in FdsOp, NEW v \in FdsValues
    PROVE  LET n == [o EXCEPT !.val = v]
           IN  n \in FdsOp /\ n.op = o.op /\ n.id = o.id /\ n.key = o.key /\ n.val = v
BY DEF FdsOp

\* A buffer that changes under a queued operation disturbs the operation's key.
LEMMA FdsReusedInv ==
    ASSUME FdsInv, NEW i \in DOMAIN fds_ops, NEW v \in FdsValues, FdsBufferReused(i, v)
    PROVE  FdsInv'
<1> DEFINE o == fds_ops[i]
           n == [o EXCEPT !.val = v]
<1>t. FdsType /\ \A j \in DOMAIN fds_ops : OpInv(j)
  BY FdsInvParts
<1>1. /\ fds_ops \in Seq(FdsOp) /\ fds_ops' = [fds_ops EXCEPT ![i] = n] /\ o.op # "delete"
      /\ fds_expect' = fds_expect /\ fds_records' = fds_records
      /\ fds_disturbed' = fds_disturbed \cup {o.key}
  BY <1>t DEF FdsBufferReused, FdsType
<1>2. o \in FdsOp /\ n \in FdsOp /\ n.op = o.op /\ n.id = o.id /\ n.key = o.key /\ n.val = v
  <2>1. o \in FdsOp
    BY <1>1
  <2> QED
    BY <2>1, OpWithValue
<1> HIDE DEF n
<1>3. /\ fds_ops' \in Seq(FdsOp) /\ DOMAIN fds_ops' = DOMAIN fds_ops
      /\ \A j \in DOMAIN fds_ops : fds_ops'[j] = IF j = i THEN n ELSE fds_ops[j]
  BY <1>1, <1>2, SeqUpdate
<1>4. FdsType'
  BY <1>t, <1>1, <1>2, <1>3 DEF FdsType, FdsOp
<1>5. \A j \in DOMAIN fds_ops : fds_ops'[j].key = fds_ops[j].key
  BY <1>2, <1>3
<1>6. ASSUME NEW j \in DOMAIN fds_ops' PROVE OpInv(j)'
  <2>1. OpInv(j)
    BY <1>t, <1>3
  <2>2. CASE j = i
    <3>1. /\ fds_ops'[j].key \in fds_disturbed'
          /\ fds_ops'[j].op = o.op /\ fds_ops'[j].id = o.id /\ fds_ops'[j].key = o.key
          /\ fds_ops'[j].val # NoRecord /\ fds_ops'[j].op # "delete"
      BY <1>1, <1>2, <1>3, <2>2, NvsAssumption
    <3>2. OwnRecord(fds_records', fds_ops'[j])
      BY <1>1, <2>1, <2>2, <3>1 DEF OpInv, OwnRecord
    <3> QED
      BY <3>1, <3>2 DEF OpInv
  <2>3. CASE j # i
    <3>1. fds_ops'[j] = fds_ops[j]
      BY <1>3, <2>3
    <3>2. fds_ops[j].key \notin fds_disturbed' => fds_ops[j].key \notin fds_disturbed
      BY <1>1
    <3> QED
      BY <1>1, <1>3, <1>5, <2>1, <3>1, <3>2 DEF OpInv
  <2> QED
    BY <2>2, <2>3
<1>7. ASSUME NEW k \in FdsKeys \ fds_disturbed', ~Pending(k)' PROVE Holds(fds_records', k, fds_expect'[k])
  <2>1. ~Pending(k)
    BY <1>3, <1>5, <1>7 DEF Pending
  <2> QED
    BY <1>1, <1>7, <2>1 DEF FdsInv
<1> QED
  BY <1>4, <1>6, <1>7, FdsInvParts DEF FdsInv, OpInv

LEMMA FdsStep == FdsInv /\ (FdsNext \/ UNCHANGED fdsVars) => FdsInv'
<1> SUFFICES ASSUME FdsInv, FdsNext \/ UNCHANGED fdsVars PROVE FdsInv'
  OBVIOUS
<1>1. CASE FdsNew \/ UNCHANGED fdsVars
  BY <1>1 DEF FdsNew, fdsVars, FdsInv, FdsType, Pending
<1>2. ASSUME NEW k \in FdsKeys, FdsDelete(k) PROVE FdsInv'
  <2>1. HasRecord(k) # 0 /\ FdsQueue("delete", k, NoRecord)
    BY <1>2 DEF FdsDelete
  <2> QED
    BY <2>1, FdsQueueInv
<1>3. ASSUME NEW k \in FdsKeys, NEW v \in FdsValues, FdsWrite(k, v) PROVE FdsInv'
  <2>1. v # NoRecord
    BY NvsAssumption
  <2>2. CASE HasRecord(k) = 0
    <3>1. FdsQueue("write", k, v)
      BY <1>3, <2>2 DEF FdsWrite
    <3> QED
      BY <2>1, <2>2, <3>1, FdsQueueInv
  <2>3. CASE HasRecord(k) # 0
    <3>1. FdsQueue("update", k, v)
      BY <1>3, <2>3 DEF FdsWrite
    <3> QED
      BY <2>1, <2>3, <3>1, FdsQueueInv
  <2> QED
    BY <2>2, <2>3
<1> QED
  BY <1>1, <1>2, <1>3, FdsExecuteInv, FdsFailInv, FdsReusedInv DEF FdsNext

\* What is stored or about to be stored under a key was written under it, or its
\* buffer changed.
AskedInv ==
    /\ fds_asked \in [FdsKeys -> SUBSET FdsValues]
    /\ \A id \in DOMAIN fds_records :
          fds_records[id] # NoRecord /\ fds_records[id].key \notin fds_reused =>
             fds_records[id].val \in fds_asked[fds_records[id].key]
    /\ \A i \in DOMAIN fds_ops :
          fds_ops[i].op # "delete" /\ fds_ops[i].key \notin fds_reused =>
             fds_ops[i].val \in fds_asked[fds_ops[i].key]

LEMMA AskedQueue ==
    ASSUME FdsInv, AskedInv, NEW k \in FdsKeys, NEW op \in {"write", "update", "delete"},
           NEW v \in FdsValues \cup {NoRecord}, op = "delete" <=> v = NoRecord,
           FdsQueue(op, k, v)
    PROVE  AskedInv'
<1> DEFINE n == Len(fds_ops)
           o == [op |-> op, id |-> HasRecord(k), key |-> k, val |-> v]
<1>t. FdsType
  BY DEF FdsInv
<1>1. o \in FdsOp /\ o.op = op /\ o.key = k /\ o.val = v
  BY <1>t, FoundRecord DEF FdsOp
<1>2. fds_ops \in Seq(FdsOp) /\ fds_ops' = Append(fds_ops, o)
  BY <1>t DEF FdsQueue, FdsType
<1> HIDE DEF o
<1>3. /\ n \in Nat /\ DOMAIN fds_ops = 1..n /\ DOMAIN fds_ops' = 1..(n + 1)
      /\ \A i \in 1..n : fds_ops'[i] = fds_ops[i]
      /\ fds_ops'[n + 1] = o
  BY <1>1, <1>2, SeqAppend
<1>4. /\ fds_records' = fds_records /\ fds_reused' = fds_reused
      /\ fds_asked' \in [FdsKeys -> SUBSET FdsValues]
      /\ \A q \in FdsKeys : fds_asked[q] \subseteq fds_asked'[q]
      /\ v # NoRecord => v \in fds_asked'[k]
  BY DEF FdsQueue, AskedInv
<1>5. ASSUME NEW id \in DOMAIN fds_records', fds_records'[id] # NoRecord,
             fds_records'[id].key \notin fds_reused'
      PROVE  fds_records'[id].val \in fds_asked'[fds_records'[id].key]
  <2>1. fds_records[id] \in FdsRecord
    BY <1>t, <1>4, <1>5 DEF FdsType
  <2> QED
    BY <1>4, <1>5, <2>1 DEF AskedInv, FdsRecord
<1>6. ASSUME NEW i \in DOMAIN fds_ops', fds_ops'[i].op # "delete",
             fds_ops'[i].key \notin fds_reused'
      PROVE  fds_ops'[i].val \in fds_asked'[fds_ops'[i].key]
  <2>1. CASE i = n + 1
    BY <1>1, <1>3, <1>4, <1>6, <2>1
  <2>2. CASE i # n + 1
    <3>1. i \in 1..n
      BY <1>3, <2>2
    <3>2. fds_ops'[i] = fds_ops[i] /\ i \in DOMAIN fds_ops /\ fds_ops[i] \in FdsOp
      BY <1>2, <1>3, <3>1
    <3>3. fds_ops[i].key \in FdsKeys
      BY <3>2 DEF FdsOp
    <3> QED
      BY <1>4, <1>6, <3>2, <3>3 DEF AskedInv
  <2> QED
    BY <2>1, <2>2
<1> QED
  BY <1>4, <1>5, <1>6 DEF AskedInv

LEMMA AskedExecute == FdsInv /\ AskedInv /\ FdsExecute => AskedInv'
<1> SUFFICES ASSUME FdsInv, AskedInv, FdsExecute PROVE AskedInv'
  OBVIOUS
<1> DEFINE o == fds_ops[1]
           n == Len(fds_records)
<1>t. FdsType /\ \A i \in DOMAIN fds_ops : OpInv(i)
  BY FdsInvParts
<1>1. /\ fds_ops \in Seq(FdsOp) /\ fds_ops # <<>> /\ fds_ops' = Tail(fds_ops)
      /\ fds_asked' = fds_asked /\ fds_reused' = fds_reused
  BY <1>t DEF FdsExecute, FdsType
<1>2. /\ 1 \in DOMAIN fds_ops /\ Head(fds_ops) = o /\ o \in FdsOp
      /\ \A i \in DOMAIN fds_ops' : i + 1 \in DOMAIN fds_ops /\ fds_ops'[i] = fds_ops[i + 1]
  BY <1>1, OpsTail
<1>3. OwnRecord(fds_records, o) /\ (o.op = "delete" <=> o.val = NoRecord)
  BY <1>t, <1>2 DEF OpInv
<1>4. fds_records \in Seq(FdsRecord \cup {NoRecord})
  BY <1>t DEF FdsType
<1>5. ExecutedBy(fds_records, fds_records', o)
  <2>1. LET added == IF o.op = "delete" THEN fds_records
                     ELSE Append(fds_records, [key |-> o.key, val |-> o.val])
        IN  fds_records' = IF o.op = "write" THEN added ELSE [added EXCEPT ![o.id] = NoRecord]
    BY <1>2 DEF FdsExecute
  <2> QED
    BY <1>2, <1>3, <1>4, <2>1, ExecutedRecords
<1>6. n \in Nat /\ DOMAIN fds_records = 1..n
  BY <1>4
<1>7. ASSUME NEW id \in DOMAIN fds_records', fds_records'[id] # NoRecord,
             fds_records'[id].key \notin fds_reused'
      PROVE  fds_records'[id].val \in fds_asked'[fds_records'[id].key]
  <2>1. CASE id \in 1..n
    <3>1. fds_records'[id] = fds_records[id]
      BY <1>5, <1>7, <2>1 DEF ExecutedBy
    <3> QED
      BY <1>1, <1>6, <1>7, <2>1, <3>1 DEF AskedInv
  <2>2. CASE id \notin 1..n
    <3>1. o.op # "delete" /\ id = n + 1
      BY <1>5, <1>6, <2>2 DEF ExecutedBy
    <3>2. fds_records'[id] = [key |-> o.key, val |-> o.val]
      BY <1>5, <3>1 DEF ExecutedBy
    <3>3. o.val \in fds_asked[o.key]
      BY <1>1, <1>2, <1>7, <3>1, <3>2 DEF AskedInv
    <3> QED
      BY <1>1, <3>2, <3>3
  <2> QED
    BY <2>1, <2>2
<1>8. ASSUME NEW i \in DOMAIN fds_ops', fds_ops'[i].op # "delete",
             fds_ops'[i].key \notin fds_reused'
      PROVE  fds_ops'[i].val \in fds_asked'[fds_ops'[i].key]
  BY <1>1, <1>2, <1>8 DEF AskedInv
<1> QED
  BY <1>1, <1>7, <1>8 DEF AskedInv

LEMMA AskedFail == FdsInv /\ AskedInv /\ FdsFail => AskedInv'
<1> SUFFICES ASSUME FdsInv, AskedInv, FdsFail PROVE AskedInv'
  OBVIOUS
<1>1. /\ fds_ops \in Seq(FdsOp) /\ fds_ops # <<>> /\ fds_ops' = Tail(fds_ops)
      /\ fds_asked' = fds_asked /\ fds_reused' = fds_reused /\ fds_records' = fds_records
  BY DEF FdsFail, FdsInv, FdsType
<1>2. \A i \in DOMAIN fds_ops' : i + 1 \in DOMAIN fds_ops /\ fds_ops'[i] = fds_ops[i + 1]
  BY <1>1, OpsTail
<1> QED
  BY <1>1, <1>2 DEF AskedInv

LEMMA AskedReused ==
    ASSUME FdsInv, AskedInv, NEW i \in DOMAIN fds_ops, NEW v \in FdsValues,
           FdsBufferReused(i, v)
    PROVE  AskedInv'
<1> DEFINE n == [fds_ops[i] EXCEPT !.val = v]
<1>1. /\ fds_ops \in Seq(FdsOp) /\ fds_ops' = [fds_ops EXCEPT ![i] = n]
      /\ fds_reused' = fds_reused \cup {fds_ops[i].key}
      /\ fds_asked' = fds_asked /\ fds_records' = fds_records
  BY DEF FdsBufferReused, FdsInv, FdsType
<1>2. n \in FdsOp /\ n.key = fds_ops[i].key
  <2>1. fds_ops[i] \in FdsOp
    BY <1>1
  <2> QED
    BY <2>1, OpWithValue
<1> HIDE DEF n
<1>3. /\ DOMAIN fds_ops' = DOMAIN fds_ops
      /\ \A j \in DOMAIN fds_ops : fds_ops'[j] = IF j = i THEN n ELSE fds_ops[j]
  BY <1>1, <1>2, SeqUpdate
<1> QED
  BY <1>1, <1>2, <1>3 DEF AskedInv

LEMMA AskedStep == FdsInv /\ AskedInv /\ (FdsNext \/ UNCHANGED fdsVars) => AskedInv'
<1> SUFFICES ASSUME FdsInv, AskedInv, FdsNext \/ UNCHANGED fdsVars PROVE AskedInv'
  OBVIOUS
<1>1. CASE FdsNew \/ UNCHANGED fdsVars
  BY <1>1 DEF FdsNew, fdsVars, AskedInv
<1>2. ASSUME NEW k \in FdsKeys, FdsDelete(k) PROVE AskedInv'
  <2>1. FdsQueue("delete", k, NoRecord)
    BY <1>2 DEF FdsDelete
  <2> QED
    BY <2>1, AskedQueue
<1>3. ASSUME NEW k \in FdsKeys, NEW v \in FdsValues, FdsWrite(k, v) PROVE AskedInv'
  <2>1. v # NoRecord
    BY NvsAssumption
  <2>2. FdsQueue("write", k, v) \/ FdsQueue("update", k, v)
    BY <1>3 DEF FdsWrite
  <2> QED
    BY <2>1, <2>2, AskedQueue
<1> QED
  BY <1>1, <1>2, <1>3, AskedExecute, AskedFail, AskedReused DEF FdsNext

LEMMA AskedRead == FdsInv /\ AskedInv => FdsNothingInvented
<1> SUFFICES ASSUME FdsInv, AskedInv, NEW k \in FdsKeys \ fds_reused, HasRecord(k) # 0
             PROVE  fds_records[HasRecord(k)].val \in fds_asked[k]
  BY DEF FdsNothingInvented, FdsRead
<1>1. IsLive(fds_records, HasRecord(k), k)
  BY FoundRecord DEF FdsInv
<1> QED
  BY <1>1 DEF IsLive, AskedInv

LEMMA FdsInvSettles == FdsInv => FdsSettles
<1> SUFFICES ASSUME FdsInv, fds_ops = <<>>
             PROVE  /\ \A k \in FdsKeys \ fds_disturbed : FdsRead(k) = fds_expect[k]
                    /\ fds_disturbed = {} => FdsCount = Cardinality({k \in FdsKeys : fds_expect[k] # NoRecord})
  BY DEF FdsSettles
<1>1. FdsType /\ \A k \in FdsKeys \ fds_disturbed : Holds(fds_records, k, fds_expect[k])
  BY DEF FdsInv, Pending
<1>2. ASSUME NEW k \in FdsKeys \ fds_disturbed PROVE FdsRead(k) = fds_expect[k]
  <2>1. Holds(fds_records, k, fds_expect[k])
    BY <1>1
  <2>2. /\ HasRecord(k) = 0 => \A id \in DOMAIN fds_records : ~IsLive(fds_records, id, k)
        /\ HasRecord(k) # 0 => IsLive(fds_records, HasRecord(k), k)
    BY <1>1, FoundRecord
  <2> QED
    BY <2>1, <2>2 DEF Holds, FdsRead, IsLive
<1>3. ASSUME fds_disturbed = {} PROVE FdsCount = Cardinality({k \in FdsKeys : fds_expect[k] # NoRecord})
  <2> DEFINE L == {id \in DOMAIN fds_records : fds_records[id] # NoRecord}
             K == {k \in FdsKeys : fds_expect[k] # NoRecord}
             f == [id \in L |-> fds_records[id].key]
  <2>1. fds_records \in Seq(FdsRecord \cup {NoRecord})
    BY <1>1 DEF FdsType
  <2>2. IsFiniteSet(L)
    <3>1. DOMAIN fds_records = 1..Len(fds_records) /\ Len(fds_records) \in Nat
      BY <2>1
    <3>2. IsFiniteSet(1..Len(fds_records))
      BY <3>1, FS_Interval
    <3> QED
      BY <3>1, <3>2, FS_Subset
  <2>3. ASSUME NEW id \in L
        PROVE  /\ fds_records[id].key \in K
               /\ \A j \in L : fds_records[j].key = fds_records[id].key => j = id
    <3>1. fds_records[id] \in FdsRecord
      BY <2>1
    <3>2. fds_records[id].key \in FdsKeys
      BY <3>1 DEF FdsRecord
    <3>3. Holds(fds_records, fds_records[id].key, fds_expect[fds_records[id].key])
      BY <1>1, <1>3, <3>2
    <3> QED
      BY <3>2, <3>3 DEF Holds, IsLive
  <2>4. ASSUME NEW k \in K PROVE \E id \in L : fds_records[id].key = k
    <3>1. Holds(fds_records, k, fds_expect[k])
      BY <1>1, <1>3
    <3> QED
      BY <3>1 DEF Holds, IsLive
  <2>5. f \in Bijection(L, K)
    <3>1. f \in [L -> K]
      BY <2>3
    <3>2. f \in Injection(L, K)
      BY <2>3, <3>1 DEF Injection, IsInjective
    <3>3. f \in Surjection(L, K)
      BY <2>4, <3>1 DEF Surjection
    <3> QED
      BY <3>2, <3>3 DEF Bijection
  <2>6. ExistsBijection(L, K)
    BY <2>5 DEF ExistsBijection
  <2>7. FdsCount = Cardinality(L)
    BY DEF FdsCount
  <2> HIDE DEF L, K
  <2>8. FdsCount = Cardinality(K)
    BY <2>2, <2>6, <2>7, FS_Bijection
  <2> QED
    BY <2>8 DEF K
<1> QED
  BY <1>2, <1>3

LEMMA NvsInitInv == NvsInit => NvsInv /\ FdsInv /\ AskedInv
<1> SUFFICES ASSUME NvsInit PROVE NvsInv /\ FdsInv /\ AskedInv
  OBVIOUS
<1>1. NvsInv
  BY DEF NvsInit, NvsEspInit, NvsInv
<1>2. FdsType /\ DOMAIN fds_ops = {} /\ DOMAIN fds_records = {} /\ \A k \in FdsKeys : fds_expect[k] = NoRecord
  BY DEF NvsInit, FdsInit, FdsType
<1>3. AskedInv
  BY <1>2 DEF NvsInit, FdsInit, AskedInv
<1> QED
  BY <1>1, <1>2, <1>3 DEF FdsInv, Holds

\* A value whose write the ESP store acknowledged is read back, also after power
\* was lost between any two calls; on the nRF store, once its queue has run dry,
\* every key whose operations neither failed nor overlapped, and whose buffers
\* were left alone, reads as the last call left it, and is held once; and a key
\* whose buffers were left alone never reads as what was not written under it
\* (nvs_kvstore_write, _erase and _read of both ports).
THEOREM WritesAreKept == NvsSpec => []NvsWritesKept
<1> DEFINE Inv == NvsInv /\ FdsInv /\ AskedInv
<1>1. NvsInv => NvsWritesDurable
  BY DEF NvsInv, NvsWritesDurable, NvsRead
<1>2. Inv => NvsWritesKept
  BY <1>1, FdsInvSettles, AskedRead DEF NvsWritesKept
<1>3. Inv /\ [NvsNext]_nvsVars => Inv'
  BY NvsStep, FdsStep, AskedStep DEF NvsNext, nvsVars
<1>4. NvsInit => Inv
  BY NvsInitInv
<1> QED
  BY <1>2, <1>3, <1>4, PTL DEF NvsSpec

-----------------------------------------------------------------------------
(***************************************************************************)
(* Logging: LevelsAsAsked, for any tags and tables of any size.            *)
(***************************************************************************)
TagSlot == [tag : Tags \cup {Null}, level : Nat]

\* The table holds the first tags that were named, in their order, each with
\* the level that was asked for it, and nothing else.
TableMatches(tab, nm, ask) ==
    /\ tab \in [1..MaxTags -> TagSlot]
    /\ nm \in Seq(Tags) /\ ask \in [Tags -> Nat]
    /\ \A i, j \in DOMAIN nm : nm[i] = nm[j] => i = j
    /\ \A i \in 1..MaxTags : i \in DOMAIN nm => tab[i].tag = nm[i] /\ tab[i].level = ask[nm[i]]
    /\ \A i \in 1..MaxTags : i \notin DOMAIN nm => tab[i].tag = Null /\ tab[i].level = 0
    /\ \A t \in Tags : (\A i \in DOMAIN nm : nm[i] # t) => ask[t] = 0

LogInv == global \in Nat /\ TableMatches(tags, named, asked)

LEMMA ObtainedSlot ==
    ASSUME NEW tab, NEW nm, NEW ask, TableMatches(tab, nm, ask), NEW i \in DOMAIN nm
    PROVE  /\ i \in 1..MaxTags => Obtained(tab, nm[i]) = i /\ ObtainTag(tab, nm[i]) = tab
           /\ i \notin 1..MaxTags => Obtained(tab, nm[i]) = Global /\ ObtainTag(tab, nm[i]) = tab
<1>1. nm \in Seq(Tags) /\ nm[i] \in Tags /\ nm[i] # Null
  BY LogAssumption DEF TableMatches
<1>2. CASE i \in 1..MaxTags
  <2>1. SlotWith(tab, nm[i]) = {i}
    BY <1>1, <1>2 DEF SlotWith, TableMatches
  <2>2. Min({i}) = i
    <3>1. i \in Nat
      BY <1>2
    <3> QED
      BY <3>1 DEF Min
  <2> QED
    BY <1>2, <2>1, <2>2 DEF Obtained, ObtainTag
<1>3. CASE i \notin 1..MaxTags
  <2>1. SlotWith(tab, nm[i]) = {}
    BY <1>1, <1>3 DEF SlotWith, TableMatches
  <2>2. 1..MaxTags \subseteq DOMAIN nm
    BY <1>1, <1>3, LogAssumption
  <2>3. SlotWith(tab, Null) = {}
    <3>1. ASSUME NEW j \in 1..MaxTags PROVE tab[j].tag # Null
      <4>1. j \in DOMAIN nm
        BY <2>2
      <4>2. nm[j] \in Tags /\ tab[j].tag = nm[j]
        BY <1>1, <4>1 DEF TableMatches
      <4> QED
        BY <4>2, LogAssumption
    <3> QED
      BY <3>1 DEF SlotWith
  <2> QED
    BY <1>3, <2>1, <2>3 DEF Obtained, ObtainTag, RegisterTag
<1> QED
  BY <1>2, <1>3

LEMMA ObtainMatches ==
    ASSUME NEW tab, NEW nm, NEW ask, TableMatches(tab, nm, ask), NEW t \in Tags,
           \A i \in DOMAIN nm : nm[i] # t
    PROVE  TableMatches(ObtainTag(tab, t), Append(nm, t), ask)
<1> DEFINE n == Len(nm)
           new == Append(nm, t)
<1>1. /\ nm \in Seq(Tags) /\ n \in Nat /\ DOMAIN nm = 1..n
      /\ new \in Seq(Tags) /\ DOMAIN new = 1..(n + 1)
      /\ new[n + 1] = t /\ \A i \in 1..n : new[i] = nm[i]
  BY SeqAppend DEF TableMatches
<1> HIDE DEF n, new
<1>2. SlotWith(tab, t) = {}
  BY LogAssumption DEF SlotWith, TableMatches
<1>3. SlotWith(tab, Null) = {i \in 1..MaxTags : i > n}
  <2>1. ASSUME NEW i \in 1..MaxTags PROVE tab[i].tag = Null <=> i > n
    <3>1. i \in DOMAIN nm <=> i <= n
      BY <1>1
    <3>2. i \in DOMAIN nm => tab[i].tag \in Tags
      BY <1>1 DEF TableMatches
    <3> QED
      BY <1>1, <3>1, <3>2, LogAssumption DEF TableMatches
  <2> QED
    BY <2>1 DEF SlotWith
<1>4. \A i, j \in DOMAIN new : new[i] = new[j] => i = j
  BY <1>1 DEF TableMatches
<1>5. ask[t] = 0 /\ ask \in [Tags -> Nat]
  BY DEF TableMatches
<1>6. ASSUME NEW q \in Tags, \A i \in DOMAIN new : new[i] # q PROVE ask[q] = 0
  <2>1. \A i \in DOMAIN nm : nm[i] # q
    BY <1>1, <1>6
  <2> QED
    BY <2>1 DEF TableMatches
<1>7. CASE n >= MaxTags
  <2>1. ObtainTag(tab, t) = tab
    <3>1. SlotWith(tab, Null) = {}
      BY <1>1, <1>3, <1>7, LogAssumption
    <3> QED
      BY <1>2, <3>1 DEF ObtainTag, RegisterTag
  <2>2. \A i \in 1..MaxTags : i \in DOMAIN nm /\ i \in DOMAIN new /\ new[i] = nm[i]
    BY <1>1, <1>7, LogAssumption
  <2>3. TableMatches(tab, new, ask)
    BY <1>1, <1>4, <1>5, <1>6, <2>2 DEF TableMatches
  <2> QED
    BY <2>1, <2>3 DEF new
<1>8. CASE n < MaxTags
  <2>1. n + 1 \in 1..MaxTags
    BY <1>1, <1>8, LogAssumption
  <2>2. Min(SlotWith(tab, Null)) = n + 1
    <3>1. SlotWith(tab, Null) \subseteq Nat /\ n + 1 \in SlotWith(tab, Null)
      BY <1>1, <1>3, <2>1
    <3>2. /\ Min(SlotWith(tab, Null)) \in SlotWith(tab, Null)
          /\ Min(SlotWith(tab, Null)) <= n + 1
      BY <3>1, MinOfNaturals
    <3> QED
      BY <1>1, <1>3, <3>2
  <2>3. SlotWith(tab, Null) # {}
    BY <1>1, <1>3, <2>1
  <2>4. ObtainTag(tab, t) = [tab EXCEPT ![n + 1].tag = t]
    BY <1>2, <2>2, <2>3 DEF ObtainTag, RegisterTag
  <2> DEFINE u == [tab EXCEPT ![n + 1].tag = t]
  <2>5. tab \in [1..MaxTags -> TagSlot] /\ tab[n + 1].level = 0
    BY <1>1, <2>1 DEF TableMatches
  <2>6. /\ u \in [1..MaxTags -> TagSlot]
        /\ u[n + 1].tag = t /\ u[n + 1].level = 0
        /\ \A i \in 1..MaxTags : i # n + 1 => u[i] = tab[i]
    <3>1. ASSUME NEW r \in TagSlot PROVE [r EXCEPT !.tag = t] \in TagSlot
      BY DEF TagSlot
    <3>2. tab[n + 1] \in TagSlot
      BY <2>1, <2>5
    <3>3. [tab[n + 1] EXCEPT !.tag = t] \in TagSlot
      BY <3>1, <3>2
    <3>4. [tab[n + 1] EXCEPT !.tag = t].tag = t /\ [tab[n + 1] EXCEPT !.tag = t].level = 0
      BY <2>5, <3>2 DEF TagSlot
    <3> QED
      BY <2>1, <2>5, <3>3, <3>4
  <2> HIDE DEF u
  <2>7. ASSUME NEW i \in 1..MaxTags, i \in DOMAIN new PROVE u[i].tag = new[i] /\ u[i].level = ask[new[i]]
    <3>1. CASE i = n + 1
      BY <1>1, <1>5, <2>6, <3>1
    <3>2. CASE i # n + 1
      <4>1. i \in DOMAIN nm /\ new[i] = nm[i]
        BY <1>1, <2>7, <3>2
      <4> QED
        BY <2>6, <3>2, <4>1 DEF TableMatches
    <3> QED
      BY <3>1, <3>2
  <2>8. ASSUME NEW i \in 1..MaxTags, i \notin DOMAIN new PROVE u[i].tag = Null /\ u[i].level = 0
    <3>1. i \notin DOMAIN nm /\ i # n + 1
      BY <1>1, <2>8
    <3> QED
      BY <2>6, <3>1 DEF TableMatches
  <2>9. TableMatches(u, new, ask)
    BY <1>1, <1>4, <1>5, <1>6, <2>6, <2>7, <2>8 DEF TableMatches
  <2> QED
    BY <2>4, <2>9 DEF u, new
<1> QED
  BY <1>1, <1>7, <1>8, LogAssumption

\* obtain_tag keeps the table in order, whichever call names the tag.
LEMMA NameMatches ==
    ASSUME LogInv, NEW t \in Tags, Name(t)
    PROVE  /\ TableMatches(ObtainTag(tags, t), named', asked)
           /\ \E i \in DOMAIN named' : named'[i] = t
<1>1. TableMatches(tags, named, asked) /\ named \in Seq(Tags)
  BY DEF LogInv, TableMatches
<1>2. CASE t \in Range(named)
  <2>1. PICK i \in DOMAIN named : named[i] = t
    BY <1>2 DEF Range
  <2>2. ObtainTag(tags, t) = tags
    BY <1>1, <2>1, ObtainedSlot
  <2>3. named' = named
    BY <1>2 DEF Name
  <2> QED
    BY <1>1, <2>1, <2>2, <2>3
<1>3. CASE t \notin Range(named)
  <2>1. \A i \in DOMAIN named : named[i] # t
    BY <1>3 DEF Range
  <2>2. named' = Append(named, t)
    BY <1>3 DEF Name
  <2>3. TableMatches(ObtainTag(tags, t), named', asked)
    BY <1>1, <2>1, <2>2, ObtainMatches
  <2>4. Len(named) + 1 \in DOMAIN named' /\ named'[Len(named) + 1] = t
    BY <1>1, <2>2
  <2> QED
    BY <2>3, <2>4
<1> QED
  BY <1>2, <1>3

LEMMA SetLevelTagInv ==
    ASSUME LogInv, NEW t \in Tags, NEW level \in Types, SetLevelTag(t, level)
    PROVE  LogInv'
<1> DEFINE tab == ObtainTag(tags, t)
           slot == Obtained(tab, t)
<1>1. /\ Name(t) /\ UNCHANGED global
      /\ asked' = [asked EXCEPT ![t] = IF level < TypeMax THEN level ELSE @]
      /\ tags' = IF level < TypeMax /\ slot # Global THEN [tab EXCEPT ![slot].level = level] ELSE tab
  BY DEF SetLevelTag
<1>2. TableMatches(tab, named', asked)
  BY <1>1, NameMatches
<1>3. PICK i \in DOMAIN named' : named'[i] = t
  BY <1>1, NameMatches
<1> HIDE DEF tab
<1>4. slot = IF i \in 1..MaxTags THEN i ELSE Global
  BY <1>2, <1>3, ObtainedSlot
<1>5. /\ named' \in Seq(Tags) /\ asked \in [Tags -> Nat] /\ tab \in [1..MaxTags -> TagSlot]
      /\ level \in Nat
      /\ \A k, j \in DOMAIN named' : named'[k] = named'[j] => k = j
      /\ \A q \in Tags : (\A j \in DOMAIN named' : named'[j] # q) => asked[q] = 0
  BY <1>2, LogAssumption DEF TableMatches, Types
<1> HIDE DEF slot
<1>6. CASE ~(level < TypeMax)
  <2>1. asked' = asked /\ tags' = tab
    BY <1>1, <1>5, <1>6
  <2> QED
    BY <1>1, <1>2, <2>1 DEF LogInv
<1>7. CASE level < TypeMax
  <2>1. asked' = [asked EXCEPT ![t] = level]
    BY <1>1, <1>7
  <2>2. /\ asked' \in [Tags -> Nat] /\ asked'[t] = level
        /\ \A q \in Tags : q # t => asked'[q] = asked[q]
    BY <1>5, <2>1
  <2>3. ASSUME NEW q \in Tags, \A j \in DOMAIN named' : named'[j] # q PROVE asked'[q] = 0
    BY <1>3, <1>5, <2>2, <2>3
  <2>4. ASSUME NEW k \in DOMAIN named', k # i PROVE asked'[named'[k]] = asked[named'[k]]
    <3>1. named'[k] # t /\ named'[k] \in Tags
      BY <1>3, <1>5, <2>4
    <3> QED
      BY <2>2, <3>1
  <2>5. CASE i \in 1..MaxTags
    <3>1. tags' = [tab EXCEPT ![i].level = level]
      <4>1. slot = i /\ i # Global
        BY <1>4, <2>5 DEF Global
      <4> QED
        BY <1>1, <1>7, <4>1
    <3>2. ASSUME NEW r \in TagSlot
          PROVE  /\ [r EXCEPT !.level = level] \in TagSlot /\ [r EXCEPT !.level = level].level = level
                 /\ [r EXCEPT !.level = level].tag = r.tag
      BY <1>5 DEF TagSlot
    <3>3. tab[i] \in TagSlot
      BY <1>5, <2>5
    <3>4. /\ tags' \in [1..MaxTags -> TagSlot]
          /\ tags'[i].level = level /\ tags'[i].tag = tab[i].tag
          /\ \A k \in 1..MaxTags : k # i => tags'[k] = tab[k]
      BY <1>5, <2>5, <3>1, <3>2, <3>3
    <3>5. ASSUME NEW k \in 1..MaxTags, k \in DOMAIN named'
          PROVE  tags'[k].tag = named'[k] /\ tags'[k].level = asked'[named'[k]]
      <4>1. CASE k = i
        BY <1>2, <1>3, <2>2, <2>5, <3>4, <4>1 DEF TableMatches
      <4>2. CASE k # i
        BY <1>2, <2>4, <3>4, <3>5, <4>2 DEF TableMatches
      <4> QED
        BY <4>1, <4>2
    <3>6. ASSUME NEW k \in 1..MaxTags, k \notin DOMAIN named' PROVE tags'[k].tag = Null /\ tags'[k].level = 0
      BY <1>2, <1>3, <3>4, <3>6 DEF TableMatches
    <3> QED
      BY <1>1, <1>5, <2>2, <2>3, <3>4, <3>5, <3>6 DEF LogInv, TableMatches
  <2>6. CASE i \notin 1..MaxTags
    <3>1. tags' = tab
      BY <1>1, <1>4, <2>6
    <3>2. ASSUME NEW k \in 1..MaxTags, k \in DOMAIN named'
          PROVE  tags'[k].tag = named'[k] /\ tags'[k].level = asked'[named'[k]]
      BY <1>2, <2>4, <2>6, <3>1, <3>2 DEF TableMatches
    <3>3. ASSUME NEW k \in 1..MaxTags, k \notin DOMAIN named' PROVE tags'[k].tag = Null /\ tags'[k].level = 0
      BY <1>2, <3>1, <3>3 DEF TableMatches
    <3> QED
      BY <1>1, <1>5, <2>2, <2>3, <3>1, <3>2, <3>3 DEF LogInv, TableMatches
  <2> QED
    BY <2>5, <2>6
<1> QED
  BY <1>6, <1>7

LEMMA LogStep == LogInv /\ [LogNext]_logVars => LogInv'
<1> SUFFICES ASSUME LogInv, [LogNext]_logVars PROVE LogInv'
  OBVIOUS
<1>1. ASSUME UNCHANGED <<tags, global, named, asked>> PROVE LogInv'
  BY <1>1 DEF LogInv
<1>2. ASSUME NEW t \in Tags, Name(t), tags' = ObtainTag(tags, t), UNCHANGED <<global, asked>>
      PROVE  LogInv'
  BY <1>2, NameMatches DEF LogInv
<1>3. ASSUME NEW b, AddBackend(b) \/ RemoveBackend(b) \/ LogRead(b) PROVE LogInv'
  BY <1>1, <1>3 DEF AddBackend, RemoveBackend, LogRead
<1>4. CASE PickBackend \/ UNCHANGED logVars
  BY <1>1, <1>4 DEF PickBackend, logVars
<1>5. ASSUME NEW t \in Tags, GetLevelTag(t) PROVE LogInv'
  BY <1>2, <1>5 DEF GetLevelTag
<1>6. ASSUME NEW t \in Tags, NEW n \in Types, LogWrite(n, t) \/ WriteWithBackend(n, t) PROVE LogInv'
  <2>1. Name(t) /\ tags' = ObtainTag(tags, t) /\ UNCHANGED <<global, asked>>
    BY <1>6 DEF LogWrite, WriteWithBackend
  <2> QED
    BY <1>2, <2>1
<1>7. ASSUME NEW n \in Types, SetLevelGlobal(n) PROVE LogInv'
  BY <1>7 DEF SetLevelGlobal, LogInv, Types
<1>8. ASSUME NEW t \in Tags, NEW n \in Types, SetLevelTag(t, n) PROVE LogInv'
  BY <1>8, SetLevelTagInv
<1> QED
  BY <1>3, <1>4, <1>5, <1>6, <1>7, <1>8 DEF LogNext

LEMMA LogInitInv == LogInit => LogInv
<1> SUFFICES ASSUME LogInit PROVE LogInv
  OBVIOUS
<1>1. EmptyTag \in TagSlot /\ EmptyTag.tag = Null /\ EmptyTag.level = 0
  BY DEF EmptyTag, TagSlot
<1>2. tags = [i \in 1..MaxTags |-> EmptyTag] /\ global = 0 /\ named = <<>> /\ asked = [t \in Tags |-> 0]
  BY DEF LogInit
<1>3. named \in Seq(Tags) /\ DOMAIN named = {}
  BY <1>2
<1> QED
  BY <1>1, <1>2, <1>3 DEF LogInv, TableMatches

LEMMA LogInvImplies == LogInv => LevelsAsAsked
<1> SUFFICES ASSUME LogInv PROVE LevelsAsAsked
  OBVIOUS
<1> DEFINE n == Len(named)
<1>1. /\ TableMatches(tags, named, asked) /\ global \in Nat
      /\ named \in Seq(Tags) /\ n \in Nat /\ DOMAIN named = 1..n
  BY DEF LogInv, TableMatches
<1>2. CountTags = Min({n, MaxTags})
  <2>1. ASSUME NEW i \in 1..MaxTags PROVE tags[i].tag # Null <=> i <= n
    <3>1. i \in DOMAIN named <=> i <= n
      BY <1>1
    <3>2. i \in DOMAIN named => tags[i].tag \in Tags
      BY <1>1 DEF TableMatches
    <3> QED
      BY <1>1, <3>1, <3>2, LogAssumption DEF TableMatches
  <2>2. PICK m \in Nat : m = IF n <= MaxTags THEN n ELSE MaxTags
    BY <1>1, LogAssumption
  <2> HIDE DEF n
  <2>3. {i \in 1..MaxTags : \A j \in 1..i : tags[j].tag # Null} = 1..m
    <3>1. ASSUME NEW i \in 1..MaxTags PROVE (\A j \in 1..i : tags[j].tag # Null) <=> i <= m
      <4>1. \A j \in 1..i : j \in 1..MaxTags
        BY LogAssumption
      <4>2. i \in 1..i
        BY LogAssumption
      <4>3. i <= m <=> i <= n
        BY <1>1, <2>2, LogAssumption
      <4>4. ASSUME i <= n, NEW j \in 1..i PROVE j <= n
        BY <1>1, <4>4
      <4> QED
        BY <2>1, <4>1, <4>2, <4>3, <4>4
    <3>2. 1..m \subseteq 1..MaxTags
      BY <1>1, <2>2, LogAssumption
    <3> QED
      BY <3>1, <3>2
  <2>4. Cardinality(1..m) = m
    BY FS_Interval
  <2>5. Min({n, MaxTags}) = m
    BY <1>1, <2>2, LogAssumption DEF Min
  <2> QED
    BY <2>3, <2>4, <2>5 DEF CountTags
<1>3. ASSUME NEW i \in 1..n, NEW type \in Types
      PROVE  IsEnabled(tags, Obtained(tags, named[i]), type) <=>
                 type >= global /\ (i <= MaxTags => type >= asked[named[i]])
  <2>1. i \in DOMAIN named /\ i \in Nat /\ i # 0 /\ (i \in 1..MaxTags <=> i <= MaxTags)
    BY <1>1, LogAssumption
  <2>2. CASE i <= MaxTags
    <3>1. Obtained(tags, named[i]) = i
      BY <1>1, <2>1, <2>2, ObtainedSlot
    <3>2. tags[i].level = asked[named[i]]
      BY <1>1, <2>1, <2>2 DEF TableMatches
    <3> QED
      BY <2>1, <2>2, <3>1, <3>2 DEF IsEnabled, LevelOf, Global
  <2>3. CASE ~(i <= MaxTags)
    <3>1. Obtained(tags, named[i]) = Global
      BY <1>1, <2>1, <2>3, ObtainedSlot
    <3> QED
      BY <2>3, <3>1 DEF IsEnabled, LevelOf
  <2> QED
    BY <2>2, <2>3
<1> QED
  BY <1>2, <1>3 DEF LevelsAsAsked

\* Whatever the order in which writes, reads of a level and changes of a level
\* name the tags, each is filtered by the level asked for it and the global one,
\* or by the global level alone if it came when the table was full, and
\* logging_count_tags counts those the table keeps (obtain_tag, is_logging_type_enabled).
THEOREM LevelsAreAsAsked == LogSpec => []LevelsAsAsked
BY LogInitInv, LogStep, LogInvImplies, PTL DEF LogSpec

-----------------------------------------------------------------------------
(***************************************************************************)
(* Metrics: MetricsConserved, for any counters, samples and buffers.       *)
(***************************************************************************)
MetricSlot == [value : Int, is_set : BOOLEAN]

\* h is the highest of the samples, or the lowest; none while the slot is unset.
HighestOf(slot, S) ==
    IF slot.is_set THEN slot.value \in S /\ \A v \in S : v <= slot.value ELSE S = {}
LowestOf(slot, S) ==
    IF slot.is_set THEN slot.value \in S /\ \A v \in S : slot.value <= v ELSE S = {}

TableExact ==
    /\ \A k \in Counters : counted[k] = reported[k] + metrics[k].value
    /\ HighestOf(metrics[Hi], samples[Hi])
    /\ LowestOf(metrics[Lo], samples[Lo])

MetricsType ==
    /\ metrics \in [Keys -> MetricSlot]
    /\ counted \in [Counters -> Int] /\ reported \in [Counters -> Int]
    /\ samples \in [{Hi, Lo} -> SUBSET Int]

\* The table is exact also while the processor is being reset, as long as the
\* magic entry says that the memory was kept; and an unset slot holds zero.
MetricsInv ==
    /\ MetricsType
    /\ \A k \in Keys : ~metrics[k].is_set => metrics[k].value = 0
    /\ up \/ magic => TableExact

LEMMA UnsetSlot == Unset \in MetricSlot /\ Unset.value = 0 /\ Unset.is_set = FALSE
BY DEF Unset, MetricSlot

\* A table without metrics is exact where every count has been reported.
LEMMA ClearedTable ==
    ASSUME metrics' = ResetAll, samples' = NoSamples,
           counted' \in [Counters -> Int], reported' \in [Counters -> Int],
           \A k \in Counters : counted'[k] = reported'[k]
    PROVE  MetricsInv'
<1>1. metrics' \in [Keys -> MetricSlot] /\ \A k \in Keys : metrics'[k] = Unset
  BY UnsetSlot DEF ResetAll
<1>2. samples' \in [{Hi, Lo} -> SUBSET Int] /\ samples'[Hi] = {} /\ samples'[Lo] = {}
  BY DEF NoSamples
<1>3. Hi \in Keys /\ Lo \in Keys /\ Counters \subseteq Keys
  BY DEF Keys
<1>4. TableExact'
  <2>1. \A k \in Counters : metrics'[k].value = 0
    BY <1>1, <1>3, UnsetSlot
  <2>2. \A k \in Counters : counted'[k] = reported'[k] + metrics'[k].value
    BY <2>1
  <2>3. HighestOf(metrics'[Hi], samples'[Hi]) /\ LowestOf(metrics'[Lo], samples'[Lo])
    BY <1>1, <1>2, <1>3, UnsetSlot DEF HighestOf, LowestOf
  <2> QED
    BY <2>2, <2>3 DEF TableExact
<1> QED
  BY <1>1, <1>2, <1>4, UnsetSlot DEF MetricsInv, MetricsType

LEMMA ForgottenTable ==
    ASSUME metrics' = ResetAll, Forget
    PROVE  MetricsInv'
<1>1. /\ counted' \in [Counters -> Int] /\ reported' \in [Counters -> Int]
      /\ \A k \in Counters : counted'[k] = reported'[k]
      /\ samples' = NoSamples
  BY DEF Forget, NoCounts
<1> QED
  BY <1>1, ClearedTable

LEMMA SetValue ==
    ASSUME NEW t \in [Keys -> MetricSlot], NEW k \in Keys, NEW v \in Int,
           NEW u, u = [t EXCEPT ![k] = [value |-> v, is_set |-> TRUE]]
    PROVE  /\ u \in [Keys -> MetricSlot]
           /\ u[k].value = v /\ u[k].is_set = TRUE
           /\ \A j \in Keys : j # k => u[j] = t[j]
<1> DEFINE s == [value |-> v, is_set |-> TRUE]
<1>1. s \in MetricSlot /\ s.value = v /\ s.is_set = TRUE
  BY DEF MetricSlot
<1>2. u = [t EXCEPT ![k] = s]
  OBVIOUS
<1> HIDE DEF s
<1> QED
  BY <1>1, <1>2

LEMMA IncreaseInv ==
    ASSUME MetricsInv, NEW k \in Counters, Increase(k) PROVE MetricsInv'
<1>1. /\ MetricsType /\ TableExact /\ Hi \in Keys /\ Lo \in Keys /\ k \in Keys /\ Counters \subseteq Keys
      /\ k # Hi /\ k # Lo
  BY MetricsAssumption DEF MetricsInv, Increase, Keys
<1>2. metrics[k].value \in Int /\ metrics \in [Keys -> MetricSlot]
  <2>1. metrics[k] \in MetricSlot
    BY <1>1 DEF MetricsType
  <2> QED
    BY <1>1, <2>1 DEF MetricSlot, MetricsType
<1>3. /\ metrics' = [metrics EXCEPT ![k] = [value |-> metrics[k].value + 1, is_set |-> TRUE]]
      /\ counted' = [counted EXCEPT ![k] = counted[k] + 1] /\ UNCHANGED <<reported, samples>>
  BY DEF Increase, SetMetricValue
<1>4. /\ metrics' \in [Keys -> MetricSlot]
      /\ metrics'[k].value = metrics[k].value + 1 /\ metrics'[k].is_set = TRUE
      /\ \A j \in Keys : j # k => metrics'[j] = metrics[j]
  <2>1. PICK w \in Int : w = metrics[k].value + 1
    BY <1>2
  <2>2. metrics' = [metrics EXCEPT ![k] = [value |-> w, is_set |-> TRUE]]
    BY <1>3, <2>1
  <2>3. /\ metrics' \in [Keys -> MetricSlot]
        /\ metrics'[k].value = w /\ metrics'[k].is_set = TRUE
        /\ \A j \in Keys : j # k => metrics'[j] = metrics[j]
    BY <1>1, <1>2, <2>2, SetValue
  <2> QED
    BY <2>1, <2>3
<1>5. /\ counted' \in [Counters -> Int] /\ counted'[k] = counted[k] + 1
      /\ \A j \in Counters : j # k => counted'[j] = counted[j]
      /\ counted[k] \in Int /\ reported[k] \in Int
  BY <1>1, <1>3 DEF MetricsType
<1>6. MetricsType'
  BY <1>1, <1>3, <1>4, <1>5 DEF MetricsType
<1>7. counted'[k] = reported'[k] + metrics'[k].value
  BY <1>1, <1>2, <1>3, <1>4, <1>5 DEF TableExact
<1>8. TableExact'
  <2>1. \A j \in Counters : j # k => counted'[j] = reported'[j] + metrics'[j].value
    BY <1>1, <1>3, <1>4, <1>5 DEF TableExact
  <2>2. metrics'[Hi] = metrics[Hi] /\ metrics'[Lo] = metrics[Lo] /\ samples' = samples
    BY <1>1, <1>3, <1>4
  <2> QED
    BY <1>1, <1>7, <2>1, <2>2 DEF TableExact
<1> QED
  BY <1>1, <1>4, <1>6, <1>8 DEF MetricsInv

LEMMA MaxMinInv ==
    ASSUME MetricsInv, NEW v \in Samples, SetMaxMin(v) PROVE MetricsInv'
<1>0. PICK t : t = SetMetricValueIfMax(metrics, Hi, v)
  OBVIOUS
<1>1. /\ MetricsType /\ TableExact /\ Hi \in Keys /\ Lo \in Keys /\ Counters \subseteq Keys
      /\ Hi # Lo /\ Hi \notin Counters /\ Lo \notin Counters /\ v \in Int
  BY MetricsAssumption DEF MetricsInv, SetMaxMin, Keys
<1>2. /\ metrics \in [Keys -> MetricSlot] /\ samples \in [{Hi, Lo} -> SUBSET Int]
      /\ metrics[Hi] \in MetricSlot /\ metrics[Lo] \in MetricSlot
  BY <1>1 DEF MetricsType
<1>3. /\ metrics' = SetMetricValueIfMin(t, Lo, v) /\ UNCHANGED <<counted, reported>>
      /\ samples' = [k \in {Hi, Lo} |-> samples[k] \cup {v}]
  BY <1>0 DEF SetMaxMin
<1>4. /\ t \in [Keys -> MetricSlot] /\ \A j \in Keys : j # Hi => t[j] = metrics[j]
      /\ t[Hi].is_set = TRUE
      /\ t[Hi].value = IF metrics[Hi].is_set = FALSE \/ v > metrics[Hi].value THEN v ELSE metrics[Hi].value
  <2>1. CASE ~metrics[Hi].is_set \/ v > metrics[Hi].value
    <3>1. t = [metrics EXCEPT ![Hi] = [value |-> v, is_set |-> TRUE]]
      BY <1>0, <2>1 DEF SetMetricValueIfMax, SetMetricValue
    <3>2. /\ t \in [Keys -> MetricSlot] /\ t[Hi].value = v /\ t[Hi].is_set = TRUE
          /\ \A j \in Keys : j # Hi => t[j] = metrics[j]
      BY <1>1, <1>2, <3>1, SetValue
    <3> QED
      BY <2>1, <3>2
  <2>2. CASE ~(~metrics[Hi].is_set \/ v > metrics[Hi].value)
    <3>1. t = metrics
      BY <1>0, <2>2 DEF SetMetricValueIfMax
    <3>2. metrics[Hi].is_set = TRUE
      BY <1>2, <2>2 DEF MetricSlot
    <3> QED
      BY <1>2, <2>2, <3>1, <3>2
  <2> QED
    BY <2>1, <2>2
<1>5. /\ metrics' \in [Keys -> MetricSlot] /\ \A j \in Keys : j # Lo => metrics'[j] = t[j]
      /\ metrics'[Lo].is_set = TRUE
      /\ metrics'[Lo].value = IF metrics[Lo].is_set = FALSE \/ v < metrics[Lo].value THEN v ELSE metrics[Lo].value
  <2>0. t[Lo] = metrics[Lo]
    BY <1>1, <1>4
  <2>1. CASE ~metrics[Lo].is_set \/ v < metrics[Lo].value
    <3>1. metrics' = [t EXCEPT ![Lo] = [value |-> v, is_set |-> TRUE]]
      BY <1>3, <2>0, <2>1 DEF SetMetricValueIfMin, SetMetricValue
    <3>2. /\ metrics' \in [Keys -> MetricSlot] /\ metrics'[Lo].value = v /\ metrics'[Lo].is_set = TRUE
          /\ \A j \in Keys : j # Lo => metrics'[j] = t[j]
      BY <1>1, <1>4, <3>1, SetValue
    <3> QED
      BY <2>1, <3>2
  <2>2. CASE ~(~metrics[Lo].is_set \/ v < metrics[Lo].value)
    <3>1. metrics' = t
      BY <1>3, <2>0, <2>2 DEF SetMetricValueIfMin
    <3>2. metrics[Lo].is_set = TRUE
      BY <1>2, <2>2 DEF MetricSlot
    <3> QED
      BY <1>4, <2>0, <2>2, <3>1, <3>2
  <2> QED
    BY <2>1, <2>2
<1>6. MetricsType'
  BY <1>1, <1>2, <1>3, <1>5 DEF MetricsType
<1>7. /\ metrics'[Hi] = t[Hi] /\ samples'[Hi] = samples[Hi] \cup {v} /\ samples'[Lo] = samples[Lo] \cup {v}
      /\ samples[Hi] \subseteq Int /\ samples[Lo] \subseteq Int
      /\ metrics[Hi].value \in Int /\ metrics[Lo].value \in Int
      /\ metrics[Hi].is_set \in BOOLEAN /\ metrics[Lo].is_set \in BOOLEAN
  BY <1>1, <1>2, <1>3, <1>5 DEF MetricSlot
<1>8. HighestOf(metrics'[Hi], samples'[Hi])
  BY <1>1, <1>4, <1>7 DEF HighestOf, TableExact
<1>9. LowestOf(metrics'[Lo], samples'[Lo])
  BY <1>1, <1>5, <1>7 DEF LowestOf, TableExact
<1>10. ASSUME NEW k \in Counters PROVE metrics'[k] = metrics[k]
  BY <1>1, <1>4, <1>5
<1>11. TableExact'
  BY <1>1, <1>3, <1>8, <1>9, <1>10 DEF TableExact
<1>12. ASSUME NEW k \in Keys, ~metrics'[k].is_set PROVE metrics'[k].value = 0
  <2>1. k # Hi /\ k # Lo
    BY <1>4, <1>5, <1>7, <1>12
  <2>2. metrics'[k] = metrics[k]
    BY <1>4, <1>5, <2>1
  <2> QED
    BY <1>12, <2>2 DEF MetricsInv
<1> QED
  BY <1>6, <1>11, <1>12 DEF MetricsInv

LEMMA PctInv ==
    ASSUME MetricsInv, NEW num \in {0, 1}, NEW denom \in {0, 2}, SetPct(num, denom)
    PROVE  MetricsInv'
<1>1. /\ MetricsType /\ TableExact /\ Hi \in Keys /\ Lo \in Keys /\ Pct \in Keys /\ Counters \subseteq Keys
      /\ Pct # Hi /\ Pct # Lo /\ Pct \notin Counters
  BY MetricsAssumption DEF MetricsInv, SetPct, Keys
<1>2. PICK w \in Int : w = (num * 100) \div denom
  BY DEF SetPct
<1>3. /\ metrics' = [metrics EXCEPT ![Pct] = [value |-> w, is_set |-> TRUE]]
      /\ UNCHANGED <<counted, reported, samples>>
  BY <1>2 DEF SetPct, SetMetricValue
<1>4. metrics \in [Keys -> MetricSlot]
  BY <1>1 DEF MetricsType
<1>5. /\ metrics' \in [Keys -> MetricSlot]
      /\ metrics'[Pct].value = w /\ metrics'[Pct].is_set = TRUE
      /\ \A j \in Keys : j # Pct => metrics'[j] = metrics[j]
  BY <1>1, <1>3, <1>4, SetValue
<1>6. MetricsType'
  BY <1>1, <1>3, <1>5 DEF MetricsType
<1>7. metrics'[Hi] = metrics[Hi] /\ metrics'[Lo] = metrics[Lo] /\ \A k \in Counters : metrics'[k] = metrics[k]
  BY <1>1, <1>5
<1>8. TableExact'
  BY <1>1, <1>3, <1>7 DEF TableExact
<1>9. ASSUME NEW k \in Keys, ~metrics'[k].is_set PROVE metrics'[k].value = 0
  BY <1>5, <1>9 DEF MetricsInv
<1> QED
  BY <1>6, <1>8, <1>9 DEF MetricsInv

LEMMA MetricsClearInv ==
    ASSUME MetricsInv, NEW k \in Keys, MetricsClear(k)
    PROVE  MetricsInv'
<1>1. /\ MetricsType /\ TableExact /\ Hi \in Keys /\ Lo \in Keys /\ Counters \subseteq Keys /\ Hi # Lo
      /\ Hi \notin Counters /\ Lo \notin Counters
  BY MetricsAssumption DEF MetricsInv, MetricsClear, Keys
<1>2. /\ metrics' = [metrics EXCEPT ![k] = IF metrics[k].is_set THEN Unset ELSE metrics[k]]
      /\ counted' = [q \in Counters |-> IF q = k THEN reported[q] ELSE counted[q]]
      /\ samples' = [h \in {Hi, Lo} |-> IF h = k THEN {} ELSE samples[h]]
      /\ UNCHANGED reported
  BY DEF MetricsClear
<1>3. metrics \in [Keys -> MetricSlot] /\ \A q \in Keys : metrics[q] \in MetricSlot
  BY <1>1 DEF MetricsType
<1>4. /\ metrics' \in [Keys -> MetricSlot]
      /\ metrics'[k] = IF metrics[k].is_set THEN Unset ELSE metrics[k]
      /\ \A j \in Keys : j # k => metrics'[j] = metrics[j]
  BY <1>2, <1>3, UnsetSlot
<1>5. ~metrics'[k].is_set /\ metrics'[k].value = 0
  BY <1>4, UnsetSlot DEF MetricsInv
<1>6. MetricsType'
  BY <1>1, <1>2, <1>4 DEF MetricsType
<1>7. ASSUME NEW q \in Counters PROVE counted'[q] = reported'[q] + metrics'[q].value
  <2>1. CASE q = k
    BY <1>1, <1>2, <1>5, <2>1 DEF MetricsType
  <2>2. CASE q # k
    BY <1>1, <1>2, <1>4, <2>2 DEF TableExact
  <2> QED
    BY <2>1, <2>2
<1>8. HighestOf(metrics'[Hi], samples'[Hi])
  <2>1. CASE Hi = k
    BY <1>2, <1>5, <2>1 DEF HighestOf
  <2>2. CASE Hi # k
    BY <1>1, <1>2, <1>4, <2>2 DEF TableExact
  <2> QED
    BY <2>1, <2>2
<1>9. LowestOf(metrics'[Lo], samples'[Lo])
  <2>1. CASE Lo = k
    BY <1>2, <1>5, <2>1 DEF LowestOf
  <2>2. CASE Lo # k
    BY <1>1, <1>2, <1>4, <2>2 DEF TableExact
  <2> QED
    BY <2>1, <2>2
<1>10. TableExact'
  BY <1>7, <1>8, <1>9 DEF TableExact
<1>11. ASSUME NEW q \in Keys, ~metrics'[q].is_set PROVE metrics'[q].value = 0
  BY <1>4, <1>5, <1>11 DEF MetricsInv
<1> QED
  BY <1>6, <1>10, <1>11 DEF MetricsInv

LEMMA CollectResetInv ==
    ASSUME MetricsInv, NEW n, CollectReset(n)
    PROVE  MetricsInv'
<1>1. MetricsType /\ TableExact /\ up /\ UNCHANGED <<magic, up, counted>> /\ Counters \subseteq Keys
  BY DEF MetricsInv, CollectReset, Keys
<1>2. CASE UNCHANGED <<metrics, samples, reported>>
  BY <1>1, <1>2 DEF MetricsInv, MetricsType, TableExact
<1>3. CASE /\ metrics' = ResetAll /\ samples' = NoSamples
           /\ reported' = [k \in Counters |-> reported[k] + metrics[k].value]
  <2>1. \A k \in Counters : metrics[k].value \in Int /\ reported[k] \in Int
    <3>1. \A k \in Counters : metrics[k] \in MetricSlot /\ reported[k] \in Int
      BY <1>1 DEF MetricsType
    <3> QED
      BY <3>1 DEF MetricSlot
  <2>2. reported' \in [Counters -> Int] /\ \A k \in Counters : counted'[k] = reported'[k]
    BY <1>1, <1>3, <2>1 DEF TableExact
  <2>3. counted' \in [Counters -> Int]
    BY <1>1 DEF MetricsType
  <2> QED
    BY <1>3, <2>2, <2>3, ClearedTable
<1> QED
  BY <1>2, <1>3 DEF CollectReset

LEMMA MetricsStep == MetricsInv /\ [TableNext]_tableVars => MetricsInv'
<1> SUFFICES ASSUME MetricsInv, [TableNext]_tableVars PROVE MetricsInv'
  OBVIOUS
<1>1. ASSUME UNCHANGED <<metrics, counted, reported, samples>>, up' \/ magic' => up \/ magic
      PROVE  MetricsInv'
  BY <1>1 DEF MetricsInv, MetricsType, TableExact
<1>2. ASSUME NEW force \in BOOLEAN, MetricsInit(force) PROVE MetricsInv'
  <2>1. CASE force \/ ~magic
    BY <1>2, <2>1, ForgottenTable DEF MetricsInit
  <2>2. CASE ~(force \/ ~magic)
    BY <1>1, <1>2, <2>2 DEF MetricsInit
  <2> QED
    BY <2>1, <2>2
<1>3. ASSUME NEW power \in BOOLEAN, Reboot(power) PROVE MetricsInv'
  BY <1>1, <1>3 DEF Reboot
<1>4. CASE MetricsReset
  BY <1>4, ForgottenTable DEF MetricsReset
<1>5. CASE UNCHANGED tableVars
  BY <1>1, <1>5 DEF tableVars
<1>6. ASSUME NEW n \in {EntrySize, Required}, CollectReset(n) PROVE MetricsInv'
  BY <1>6, CollectResetInv
<1>7. ASSUME NEW num \in {0, 1}, NEW denom \in {0, 2}, SetPct(num, denom) PROVE MetricsInv'
  BY <1>7, PctInv
<1> QED
  BY <1>2, <1>3, <1>4, <1>5, <1>6, <1>7, IncreaseInv, MaxMinInv, MetricsClearInv DEF TableNext

LEMMA MetricsInitInv == TableInit => MetricsInv
<1> SUFFICES ASSUME TableInit PROVE MetricsInv
  OBVIOUS
<1>1. metrics = ResetAll /\ counted = NoCounts /\ reported = NoCounts /\ samples = NoSamples
      /\ up = FALSE /\ magic = FALSE
  BY DEF TableInit
<1>2. metrics \in [Keys -> MetricSlot] /\ \A k \in Keys : metrics[k] = Unset
  BY <1>1, UnsetSlot DEF ResetAll
<1>3. MetricsType
  BY <1>1, <1>2 DEF MetricsType, NoCounts, NoSamples
<1> QED
  BY <1>1, <1>2, <1>3, UnsetSlot DEF MetricsInv

LEMMA MetricsInvImplies == MetricsInv => MetricsConserved
<1> SUFFICES ASSUME MetricsInv, up PROVE CountsConserved /\ ExtremesExact
  BY DEF MetricsConserved, CountsConserved, ExtremesExact
<1>1. MetricsType /\ TableExact /\ Hi # Lo
  BY MetricsAssumption DEF MetricsInv
<1>2. CountsConserved
  BY <1>1 DEF CountsConserved, TableExact
<1>3. /\ metrics[Hi].is_set \in BOOLEAN /\ metrics[Lo].is_set \in BOOLEAN
      /\ samples[Hi] \subseteq Int /\ samples[Lo] \subseteq Int
      /\ metrics[Hi].value \in Int /\ metrics[Lo].value \in Int
  <2>1. metrics[Hi] \in MetricSlot /\ metrics[Lo] \in MetricSlot
    BY <1>1 DEF MetricsType, Keys
  <2> QED
    BY <1>1, <2>1 DEF MetricsType, MetricSlot
<1>4. (IsSet(Hi) <=> samples[Hi] # {}) /\ (IsSet(Lo) <=> samples[Lo] # {})
  BY <1>1, <1>3 DEF TableExact, HighestOf, LowestOf, IsSet
<1>5. IsSet(Hi) = (samples[Hi] # {}) /\ IsSet(Lo) = (samples[Lo] # {})
  BY <1>3, <1>4 DEF IsSet
<1>6. ASSUME IsSet(Hi) PROVE metrics[Hi].value = Max(samples[Hi])
  <2>1. metrics[Hi].value \in samples[Hi] /\ \A v \in samples[Hi] : v <= metrics[Hi].value
    BY <1>1, <1>6 DEF TableExact, HighestOf, IsSet
  <2>2. PICK S \in SUBSET Int : S = samples[Hi]
    BY <1>3
  <2>w. PICK w \in Int : w = metrics[Hi].value
    BY <1>3
  <2>3. w \in S /\ S \subseteq Int /\ \A v \in S : v <= w
    BY <2>1, <2>2, <2>w
  <2>4. Max(S) = w
    <3>1. \E x \in S : \A y \in S : x >= y
      BY <2>3
    <3>2. Max(S) \in S /\ \A y \in S : Max(S) >= y
      BY <3>1 DEF Max
    <3>3. PICK m \in Int : m = Max(S)
      BY <2>3, <3>2
    <3>4. m >= w /\ w >= m
      BY <2>3, <3>2, <3>3
    <3>5. m = w
      BY <3>4
    <3> QED
      BY <3>3, <3>5
  <2> QED
    BY <2>2, <2>w, <2>4
<1>7. ASSUME IsSet(Lo) PROVE metrics[Lo].value = Min(samples[Lo])
  <2>1. metrics[Lo].value \in samples[Lo] /\ \A v \in samples[Lo] : metrics[Lo].value <= v
    BY <1>1, <1>7 DEF TableExact, LowestOf, IsSet
  <2>2. PICK S \in SUBSET Int : S = samples[Lo]
    BY <1>3
  <2>w. PICK w \in Int : w = metrics[Lo].value
    BY <1>3
  <2>3. w \in S /\ S \subseteq Int /\ \A v \in S : w <= v
    BY <2>1, <2>2, <2>w
  <2>4. Min(S) = w
    <3>1. \E x \in S : \A y \in S : x <= y
      BY <2>3
    <3>2. Min(S) \in S /\ \A y \in S : Min(S) <= y
      BY <3>1 DEF Min
    <3>3. PICK m \in Int : m = Min(S)
      BY <2>3, <3>2
    <3>4. m <= w /\ w <= m
      BY <2>3, <3>2, <3>3
    <3>5. m = w
      BY <3>4
    <3> QED
      BY <3>3, <3>5
  <2> QED
    BY <2>2, <2>w, <2>4
<1>8. ExtremesExact
  BY <1>1, <1>5, <1>6, <1>7 DEF ExtremesExact
<1> QED
  BY <1>2, <1>8

\* Every increment is in the table or in a report that was handed out whole, and
\* not in both, and the extremes are those of the samples, across buffers that
\* are too small, clears, resets of the processor and restarts
\* (metrics_collect_reset, metrics_init, metrics_set_max_min).
THEOREM MetricsAreConserved == TableSpec => []MetricsConserved
BY MetricsInitInv, MetricsStep, MetricsInvImplies, PTL DEF TableSpec

-----------------------------------------------------------------------------
(***************************************************************************)
(* MetricFs: ReportsReadable, for reports, queues and identifiers of any   *)
(* number, as long as the faults cannot let the stored outdex fall behind  *)
(* by all identifiers.                                                     *)
(***************************************************************************)
\* How far a is ahead of b, without the division.
Ahead(a, b) == IF a >= b THEN a - b ELSE (a - b) + IdSpace

LEMMA IdFacts ==
    /\ IdSpace \in Nat \ {0} /\ 0 \in Ids /\ Ids \subseteq Nat
    /\ \A a \in Ids : Inc(a) \in Ids /\ Inc(a) = IF a = IdSpace - 1 THEN 0 ELSE a + 1
    /\ \A a, b \in Ids : /\ ((a - b) + IdSpace) % IdSpace = Ahead(a, b)
                         /\ ((a + IdSpace) - b) % IdSpace = Ahead(a, b)
                         /\ Ahead(a, b) \in 0..(IdSpace - 1)
<1>1. IdSpace \in Nat \ {0}
  <2>1. MaxMetrics * (FsMaxFaults + 1) \in Nat /\ MaxMetrics * (FsMaxFaults + 1) < IdSpace /\ IdSpace \in Nat
    BY FsAssumption
  <2> QED
    BY <2>1
<1>2. 0 \in Ids /\ Ids \subseteq Nat
  BY <1>1 DEF Ids
<1>3. ASSUME NEW n \in Nat \ {0}, NEW x \in 0..(n + n - 1)
      PROVE  x % n = IF x < n THEN x ELSE x - n
  BY <1>3
<1>4. ASSUME NEW a \in Ids PROVE Inc(a) \in Ids /\ Inc(a) = IF a = IdSpace - 1 THEN 0 ELSE a + 1
  <2>1. a + 1 \in 0..(IdSpace + IdSpace - 1)
    BY <1>1 DEF Ids
  <2>2. Inc(a) = IF a + 1 < IdSpace THEN a + 1 ELSE (a + 1) - IdSpace
    BY <1>1, <1>3, <2>1 DEF Inc
  <2> QED
    BY <1>1, <2>2 DEF Ids
<1>5. ASSUME NEW a \in Ids, NEW b \in Ids
      PROVE  /\ ((a - b) + IdSpace) % IdSpace = Ahead(a, b)
             /\ ((a + IdSpace) - b) % IdSpace = Ahead(a, b)
             /\ Ahead(a, b) \in 0..(IdSpace - 1)
  <2>1. (a - b) + IdSpace \in 0..(IdSpace + IdSpace - 1) /\ (a + IdSpace) - b = (a - b) + IdSpace
    BY <1>1 DEF Ids
  <2>2. ((a - b) + IdSpace) % IdSpace = IF (a - b) + IdSpace < IdSpace THEN (a - b) + IdSpace ELSE ((a - b) + IdSpace) - IdSpace
    BY <1>1, <1>3, <2>1
  <2> QED
    BY <1>1, <2>1, <2>2 DEF Ids, Ahead
<1> QED
  BY <1>1, <1>2, <1>4, <1>5

LEMMA AheadFacts ==
    ASSUME NEW i \in Ids, NEW o \in Ids, NEW p \in Ids
    PROVE  /\ Ahead(i, o) = 0 <=> i = o
           /\ Ahead(i, o) < IdSpace - 1 => Ahead(Inc(i), o) = Ahead(i, o) + 1
           /\ Ahead(i, o) > 0 => Ahead(i, Inc(o)) = Ahead(i, o) - 1
           /\ Ahead(o, p) + Ahead(i, o) < IdSpace => Ahead(i, p) = Ahead(o, p) + Ahead(i, o)
<1>1. i \in Nat /\ o \in Nat /\ p \in Nat /\ i < IdSpace /\ o < IdSpace /\ p < IdSpace /\ IdSpace \in Nat
  BY IdFacts DEF Ids
<1>2. /\ Inc(i) = IF i = IdSpace - 1 THEN 0 ELSE i + 1
      /\ Inc(o) = IF o = IdSpace - 1 THEN 0 ELSE o + 1
  BY IdFacts
<1> QED
  BY <1>1, <1>2 DEF Ahead

\* What the faults so far allow the stored outdex to be behind.
LEMMA LagBound ==
    ASSUME NEW f \in 0..FsMaxFaults
    PROVE  /\ MaxMetrics * f \in Nat /\ MaxMetrics * (f + 1) = MaxMetrics * f + MaxMetrics
           /\ MaxMetrics * (f + 1) < IdSpace
<1>1. f \in Nat /\ MaxMetrics \in Nat /\ FsMaxFaults \in Nat /\ IdSpace \in Nat
  BY FsAssumption
<1>2. MaxMetrics * f \in Nat /\ MaxMetrics * (f + 1) = MaxMetrics * f + MaxMetrics
  BY <1>1
<1>3. PICK d \in Nat : FsMaxFaults = f + d
  <2>1. FsMaxFaults - f \in Nat /\ FsMaxFaults = f + (FsMaxFaults - f)
    BY <1>1
  <2> QED
    BY <2>1
<1>4. MaxMetrics * (FsMaxFaults + 1) = MaxMetrics * (f + 1) + MaxMetrics * d
  BY <1>1, <1>3
<1>5. MaxMetrics * d \in Nat /\ MaxMetrics * (f + 1) \in Nat
  BY <1>1, <1>2
<1>6. MaxMetrics * (FsMaxFaults + 1) < IdSpace
  BY FsAssumption
<1>7. ASSUME NEW x \in Nat, NEW y \in Nat, NEW z \in Nat, z = x + y, z < IdSpace PROVE x < IdSpace
  BY <1>1, <1>7
<1> QED
  BY <1>2, <1>4, <1>5, <1>6, <1>7

FsPlain == [pc : {"idle", "del", "outdex", "clear"}]
FsWriting == [pc : {"data", "index"}, data : Reports]

FsType ==
    /\ kv \in [rec : [Ids -> Reports \cup {NoReport}], index : Ids, outdex : Ids]
    /\ fs \in [index : Ids, outdex : Ids]
    /\ fsTask \in FsPlain \cup FsWriting
    /\ held \in [Ids -> Reports \cup {NoReport}]
    /\ fsFaults \in 0..FsMaxFaults
    /\ kv.index = fs.index

\* The stored outdex p lags behind the one in memory, o, by no more than the
\* faults explain, and the call in progress found what it needs.
InBounds(i, o, p, f, pc) ==
    /\ Ahead(o, p) + Ahead(i, o) <= MaxMetrics * (f + 1)
    /\ pc # "clear" => Ahead(o, p) <= MaxMetrics * f
    /\ pc \in {"data", "index"} => Ahead(i, o) < MaxMetrics
    /\ pc \in {"del", "outdex"} => Ahead(i, o) > 0

Readable(h, rec, i, o) ==
    \A id \in Ids : h[id] # NoReport => Ahead(id, o) < Ahead(i, o) /\ rec[id] = h[id]

FsInv ==
    /\ FsType
    /\ InBounds(fs.index, fs.outdex, kv.outdex, fsFaults, fsTask.pc)
    /\ Readable(held, kv.rec, fs.index, fs.outdex)
    /\ fsTask.pc = "outdex" => held[fs.outdex] = NoReport
    /\ fsTask.pc = "index" => kv.rec[fs.index] = fsTask.data

LEMMA FsInvImplies == FsInv => ReportsReadable
<1> SUFFICES ASSUME FsInv, NEW id \in Ids, held[id] # NoReport
             PROVE  id \in Window(fs) /\ kv.rec[id] = held[id]
  BY DEF ReportsReadable
<1>1. fs.index \in Ids /\ fs.outdex \in Ids
  BY DEF FsInv, FsType
<1>2. CountMetrics(fs) = Ahead(fs.index, fs.outdex)
  BY <1>1, IdFacts DEF CountMetrics
<1>3. ((id + IdSpace) - fs.outdex) % IdSpace = Ahead(id, fs.outdex)
  BY <1>1, IdFacts
<1> QED
  BY <1>2, <1>3 DEF FsInv, Readable, Window

LEMMA FsInitInv == FsInit => FsInv
<1> SUFFICES ASSUME FsInit PROVE FsInv
  OBVIOUS
<1>1. 0 \in Ids /\ Ahead(0, 0) = 0 /\ 0 \in 0..FsMaxFaults
  BY IdFacts, FsAssumption DEF Ahead
<1>2. FsType /\ fs.index = 0 /\ fs.outdex = 0 /\ kv.outdex = 0 /\ fsTask.pc = "idle" /\ fsFaults = 0
  BY <1>1 DEF FsInit, FsType, FsIdle, FsPlain
<1>3. \A id \in Ids : held[id] = NoReport
  BY DEF FsInit
<1>4. MaxMetrics * 0 \in Nat /\ MaxMetrics * (0 + 1) \in Nat
  BY FsAssumption
<1>5. InBounds(0, 0, 0, 0, "idle")
  BY <1>1, <1>4 DEF InBounds
<1> QED
  BY <1>2, <1>3, <1>5 DEF FsInv, Readable

\* What the invariant says in terms of plain numbers.
LEMMA FsNumbers ==
    ASSUME FsInv
    PROVE  /\ fs.index \in Ids /\ fs.outdex \in Ids /\ kv.outdex \in Ids
           /\ CountMetrics(fs) = Ahead(fs.index, fs.outdex)
           /\ Ahead(fs.index, fs.outdex) \in Nat /\ Ahead(fs.outdex, kv.outdex) \in Nat
           /\ MaxMetrics \in Nat \ {0} /\ MaxMetrics * fsFaults \in Nat
           /\ MaxMetrics * (fsFaults + 1) = MaxMetrics * fsFaults + MaxMetrics
           /\ MaxMetrics * fsFaults + MaxMetrics < IdSpace
           /\ IdSpace \in Nat
<1>1. fs.index \in Ids /\ fs.outdex \in Ids /\ kv.outdex \in Ids /\ fsFaults \in 0..FsMaxFaults
  BY DEF FsInv, FsType
<1>2. Ahead(fs.index, fs.outdex) \in Nat /\ Ahead(fs.outdex, kv.outdex) \in Nat
  <2>1. /\ Ahead(fs.index, fs.outdex) \in 0..(IdSpace - 1)
        /\ Ahead(fs.outdex, kv.outdex) \in 0..(IdSpace - 1)
    BY <1>1, IdFacts
  <2> QED
    BY <2>1
<1>3. CountMetrics(fs) = Ahead(fs.index, fs.outdex)
  BY <1>1, IdFacts DEF CountMetrics
<1>4. /\ MaxMetrics * fsFaults \in Nat
      /\ MaxMetrics * (fsFaults + 1) = MaxMetrics * fsFaults + MaxMetrics
      /\ MaxMetrics * (fsFaults + 1) < IdSpace
  BY <1>1, LagBound
<1> QED
  BY <1>1, <1>2, <1>3, <1>4, FsAssumption

\* A step that only starts a call, or ends one, of which pc is what is next.
LEMMA FsCallStep ==
    ASSUME FsInv, UNCHANGED <<kv, fs, held>>, fsTask' \in FsPlain \cup FsWriting,
           fsFaults' = fsFaults \/ (fsFaults < FsMaxFaults /\ fsFaults' = fsFaults + 1),
           fsTask'.pc \in {"idle", "data", "del", "clear"},
           fsTask.pc = "clear" /\ fsTask'.pc # "clear" => fsFaults' = fsFaults + 1,
           fsTask'.pc = "data" => CountMetrics(fs) < MaxMetrics,
           fsTask'.pc = "del" => CountMetrics(fs) > 0
    PROVE  FsInv'
<1>1. /\ fsFaults \in Nat /\ FsMaxFaults \in Nat /\ fsFaults' \in 0..FsMaxFaults
      /\ kv' = kv /\ fs' = fs /\ held' = held
  BY FsAssumption DEF FsInv, FsType
<1>2. FsType'
  BY <1>1 DEF FsInv, FsType
<1>3. PICK c \in Nat, l \in Nat, b \in Nat, m \in Nat :
        /\ c = Ahead(fs.index, fs.outdex) /\ l = Ahead(fs.outdex, kv.outdex)
        /\ b = MaxMetrics * fsFaults /\ m = MaxMetrics
  BY FsNumbers
<1>4. /\ MaxMetrics * (fsFaults + 1) = b + m
      /\ l + c <= b + m /\ (fsTask.pc # "clear" => l <= b)
  BY <1>3, FsNumbers DEF FsInv, InBounds
<1>5. PICK d \in Nat : d = MaxMetrics * fsFaults' /\ MaxMetrics * (fsFaults' + 1) = d + m
  BY <1>1, <1>3, LagBound
<1>6. d = b \/ d = b + m
  BY <1>1, <1>3, <1>4, <1>5
<1>7. fsTask.pc = "clear" /\ fsTask'.pc # "clear" => d = b + m
  BY <1>1, <1>4, <1>5
<1>8. l + c <= d + m /\ (fsTask'.pc # "clear" => l <= d)
  BY <1>4, <1>6, <1>7
<1>9. InBounds(fs.index, fs.outdex, kv.outdex, fsFaults', fsTask'.pc)
  <2>1. CountMetrics(fs) = c
    BY <1>3, FsNumbers
  <2> QED
    BY <1>3, <1>5, <1>8, <2>1 DEF InBounds
<1> QED
  BY <1>1, <1>2, <1>9 DEF FsInv

LEMMA WriteDataInv == FsInv /\ WriteData => FsInv'
<1> SUFFICES ASSUME FsInv, WriteData PROVE FsInv'
  OBVIOUS
<1>1. /\ fsTask \in FsWriting /\ fsTask.pc = "data"
      /\ kv' = [kv EXCEPT !.rec[fs.index] = fsTask.data]
      /\ fsTask' = [fsTask EXCEPT !.pc = "index"] /\ UNCHANGED <<fs, held, fsFaults>>
  BY DEF WriteData, FsInv, FsType, FsPlain
<1>2. /\ fsTask.data \in Reports /\ fsTask' \in FsWriting
      /\ fsTask'.pc = "index" /\ fsTask'.data = fsTask.data
  BY <1>1 DEF FsWriting
<1>3. kv \in [rec : [Ids -> Reports \cup {NoReport}], index : Ids, outdex : Ids] /\ fs.index \in Ids /\ fs.outdex \in Ids
  BY DEF FsInv, FsType
<1>4. /\ kv' \in [rec : [Ids -> Reports \cup {NoReport}], index : Ids, outdex : Ids]
      /\ kv'.index = kv.index /\ kv'.outdex = kv.outdex
      /\ kv'.rec[fs.index] = fsTask.data
      /\ \A id \in Ids : id # fs.index => kv'.rec[id] = kv.rec[id]
  BY <1>1, <1>2, <1>3
<1>5. FsType'
  BY <1>1, <1>2, <1>4 DEF FsInv, FsType
<1>6. held[fs.index] = NoReport
  BY <1>3, FsNumbers DEF FsInv, Readable
<1>7. Readable(held', kv'.rec, fs'.index, fs'.outdex)
  BY <1>1, <1>4, <1>6 DEF FsInv, Readable
<1>8. InBounds(fs'.index, fs'.outdex, kv'.outdex, fsFaults', fsTask'.pc)
  <2>1. InBounds(fs.index, fs.outdex, kv.outdex, fsFaults, "data")
    BY <1>1 DEF FsInv
  <2> QED
    BY <1>1, <1>2, <1>4, <2>1 DEF InBounds
<1> QED
  BY <1>1, <1>2, <1>4, <1>5, <1>7, <1>8 DEF FsInv

LEMMA WriteIndexInv == FsInv /\ WriteIndex => FsInv'
<1> SUFFICES ASSUME FsInv, WriteIndex PROVE FsInv'
  OBVIOUS
<1>1. /\ fsTask \in FsWriting /\ fsTask.pc = "index"
      /\ kv' = [kv EXCEPT !.index = Inc(fs.index)]
      /\ fs' = [fs EXCEPT !.index = Inc(fs.index)]
      /\ held' = [held EXCEPT ![fs.index] = fsTask.data]
      /\ fsTask' = FsIdle /\ UNCHANGED fsFaults
  BY DEF WriteIndex, FsInv, FsType, FsPlain
<1>2. /\ fs.index \in Ids /\ fs.outdex \in Ids /\ kv.outdex \in Ids /\ Inc(fs.index) \in Ids
      /\ fsTask.data \in Reports /\ kv.rec[fs.index] = fsTask.data
  BY <1>1, IdFacts DEF FsInv, FsType, FsWriting
<1>3. /\ kv' \in [rec : [Ids -> Reports \cup {NoReport}], index : Ids, outdex : Ids]
      /\ fs' \in [index : Ids, outdex : Ids]
      /\ kv'.index = Inc(fs.index) /\ kv'.outdex = kv.outdex /\ kv'.rec = kv.rec
      /\ fs'.index = Inc(fs.index) /\ fs'.outdex = fs.outdex
  BY <1>1, <1>2 DEF FsInv, FsType
<1>4. /\ fsTask' \in FsPlain /\ fsTask'.pc = "idle"
  BY <1>1 DEF FsIdle, FsPlain
<1>5. /\ held' \in [Ids -> Reports \cup {NoReport}] /\ held'[fs.index] = fsTask.data
      /\ \A id \in Ids : id # fs.index => held'[id] = held[id]
  BY <1>1, <1>2 DEF FsInv, FsType
<1>6. FsType'
  BY <1>1, <1>3, <1>4, <1>5 DEF FsInv, FsType
<1>7. PICK c \in Nat, l \in Nat, b \in Nat, m \in Nat :
        /\ c = Ahead(fs.index, fs.outdex) /\ l = Ahead(fs.outdex, kv.outdex)
        /\ b = MaxMetrics * fsFaults /\ m = MaxMetrics
  BY FsNumbers
<1>8. MaxMetrics * (fsFaults + 1) = b + m /\ l <= b /\ c < m /\ b + m < IdSpace /\ IdSpace \in Nat
  BY <1>1, <1>7, FsNumbers DEF FsInv, InBounds
<1>9. Ahead(Inc(fs.index), fs.outdex) = c + 1
  BY <1>2, <1>7, <1>8, AheadFacts
<1>10. InBounds(fs'.index, fs'.outdex, kv'.outdex, fsFaults', "idle")
  BY <1>1, <1>3, <1>7, <1>8, <1>9 DEF InBounds
<1>11. ASSUME NEW id \in Ids, held'[id] # NoReport
       PROVE  Ahead(id, fs.outdex) < c + 1 /\ kv'.rec[id] = held'[id]
  <2>1. CASE id = fs.index
    BY <1>2, <1>3, <1>5, <1>7, <2>1
  <2>2. CASE id # fs.index
    <3>1. Ahead(id, fs.outdex) < c /\ kv.rec[id] = held[id]
      BY <1>5, <1>7, <1>11, <2>2 DEF FsInv, Readable
    <3>2. Ahead(id, fs.outdex) \in Nat
      BY <1>2, IdFacts DEF Ids
    <3> QED
      BY <1>3, <1>5, <2>2, <3>1, <3>2
  <2> QED
    BY <2>1, <2>2
<1> QED
  BY <1>3, <1>4, <1>6, <1>9, <1>10, <1>11 DEF FsInv, Readable

LEMMA DelRecordInv == FsInv /\ DelRecord => FsInv'
<1> SUFFICES ASSUME FsInv, DelRecord PROVE FsInv'
  OBVIOUS
<1>1. /\ fsTask \in FsPlain /\ fsTask.pc = "del"
      /\ kv' = [kv EXCEPT !.rec[fs.outdex] = NoReport]
      /\ held' = [held EXCEPT ![fs.outdex] = NoReport]
      /\ fsTask' = [fsTask EXCEPT !.pc = "outdex"] /\ UNCHANGED <<fs, fsFaults>>
  BY DEF DelRecord, FsInv, FsType, FsWriting
<1>2. fsTask' \in FsPlain /\ fsTask'.pc = "outdex"
  BY <1>1 DEF FsPlain
<1>3. kv \in [rec : [Ids -> Reports \cup {NoReport}], index : Ids, outdex : Ids] /\ fs.outdex \in Ids
  BY DEF FsInv, FsType
<1>4. /\ kv' \in [rec : [Ids -> Reports \cup {NoReport}], index : Ids, outdex : Ids]
      /\ kv'.index = kv.index /\ kv'.outdex = kv.outdex
      /\ \A id \in Ids : id # fs.outdex => kv'.rec[id] = kv.rec[id]
  BY <1>1, <1>3
<1>5. /\ held' \in [Ids -> Reports \cup {NoReport}] /\ held'[fs.outdex] = NoReport
      /\ \A id \in Ids : id # fs.outdex => held'[id] = held[id]
  BY <1>1, <1>3 DEF FsInv, FsType
<1>6. FsType'
  BY <1>1, <1>2, <1>4, <1>5 DEF FsInv, FsType
<1>7. Readable(held', kv'.rec, fs'.index, fs'.outdex)
  BY <1>1, <1>4, <1>5 DEF FsInv, Readable
<1>8. InBounds(fs'.index, fs'.outdex, kv'.outdex, fsFaults', fsTask'.pc)
  <2>1. InBounds(fs.index, fs.outdex, kv.outdex, fsFaults, "del")
    BY <1>1 DEF FsInv
  <2> QED
    BY <1>1, <1>2, <1>4, <2>1 DEF InBounds
<1> QED
  BY <1>1, <1>2, <1>5, <1>6, <1>7, <1>8 DEF FsInv

\* Once outdex has passed a report that is no longer held, the others are as
\* readable as before.
LEMMA OutdexPassed ==
    ASSUME NEW i \in Ids, NEW o \in Ids, Ahead(i, o) > 0, NEW h, NEW rec, NEW h2, NEW rec2,
           Readable(h, rec, i, o), h2[o] = NoReport,
           \A id \in Ids : id # o => h2[id] = h[id] /\ rec2[id] = rec[id]
    PROVE  Readable(h2, rec2, i, Inc(o)) /\ Ahead(i, Inc(o)) = Ahead(i, o) - 1
<1>1. Ahead(i, Inc(o)) = Ahead(i, o) - 1 /\ Ahead(i, o) \in Nat
  BY AheadFacts, IdFacts
<1>2. ASSUME NEW id \in Ids, h2[id] # NoReport
      PROVE  Ahead(id, Inc(o)) < Ahead(i, o) - 1 /\ rec2[id] = h2[id]
  <2>1. id # o /\ Ahead(id, o) < Ahead(i, o) /\ rec2[id] = h2[id]
    BY <1>2 DEF Readable
  <2>2. Ahead(id, o) \in Nat /\ Ahead(id, o) # 0
    BY <2>1, AheadFacts, IdFacts
  <2>3. Ahead(id, Inc(o)) = Ahead(id, o) - 1
    BY <2>2, AheadFacts
  <2> QED
    BY <1>1, <2>1, <2>2, <2>3
<1> QED
  BY <1>1, <1>2 DEF Readable

LEMMA DelOutdexInv == FsInv /\ DelOutdex => FsInv'
<1> SUFFICES ASSUME FsInv, DelOutdex PROVE FsInv'
  OBVIOUS
<1>1. /\ fsTask.pc = "outdex"
      /\ kv' = [kv EXCEPT !.outdex = Inc(fs.outdex)]
      /\ fs' = [fs EXCEPT !.outdex = Inc(fs.outdex)]
      /\ fsTask' = FsIdle /\ UNCHANGED <<held, fsFaults>>
  BY DEF DelOutdex
<1>2. /\ fs.index \in Ids /\ fs.outdex \in Ids /\ Inc(fs.outdex) \in Ids
  BY IdFacts DEF FsInv, FsType
<1>3. /\ kv' \in [rec : [Ids -> Reports \cup {NoReport}], index : Ids, outdex : Ids]
      /\ fs' \in [index : Ids, outdex : Ids]
      /\ kv'.index = kv.index /\ kv'.outdex = Inc(fs.outdex) /\ kv'.rec = kv.rec
      /\ fs'.index = fs.index /\ fs'.outdex = Inc(fs.outdex)
  BY <1>1, <1>2 DEF FsInv, FsType
<1>4. fsTask' \in FsPlain /\ fsTask'.pc = "idle"
  BY <1>1 DEF FsIdle, FsPlain
<1>5. FsType'
  BY <1>1, <1>3, <1>4 DEF FsInv, FsType
<1>6. held[fs.outdex] = NoReport /\ Ahead(fs.index, fs.outdex) > 0
  BY <1>1 DEF FsInv, InBounds
<1>7. /\ Readable(held, kv.rec, fs.index, Inc(fs.outdex))
      /\ Ahead(fs.index, Inc(fs.outdex)) = Ahead(fs.index, fs.outdex) - 1
  BY <1>2, <1>6, OutdexPassed DEF FsInv
<1>8. InBounds(fs'.index, fs'.outdex, kv'.outdex, fsFaults', "idle")
  <2>1. PICK c \in Nat, l \in Nat, b \in Nat, m \in Nat :
          /\ c = Ahead(fs.index, fs.outdex) /\ l = Ahead(fs.outdex, kv.outdex)
          /\ b = MaxMetrics * fsFaults /\ m = MaxMetrics
    BY FsNumbers
  <2>2. MaxMetrics * (fsFaults + 1) = b + m /\ l + c <= b + m
    BY <2>1, FsNumbers DEF FsInv, InBounds
  <2>3. Ahead(Inc(fs.outdex), Inc(fs.outdex)) = 0
    BY <1>2, AheadFacts
  <2> QED
    BY <1>1, <1>3, <1>7, <2>1, <2>2, <2>3 DEF InBounds
<1> QED
  BY <1>1, <1>3, <1>4, <1>5, <1>7, <1>8 DEF FsInv

LEMMA ClearOneInv == FsInv /\ ClearOne => FsInv'
<1> SUFFICES ASSUME FsInv, ClearOne PROVE FsInv'
  OBVIOUS
<1>1. /\ fsTask.pc = "clear" /\ CountMetrics(fs) > 0
      /\ held' = [held EXCEPT ![fs.outdex] = NoReport]
      /\ fs' = [fs EXCEPT !.outdex = Inc(fs.outdex)] /\ UNCHANGED fsTask
  BY DEF ClearOne
<1>2. /\ fs.index \in Ids /\ fs.outdex \in Ids /\ Inc(fs.outdex) \in Ids /\ kv.outdex \in Ids
      /\ kv \in [rec : [Ids -> Reports \cup {NoReport}], index : Ids, outdex : Ids]
  BY IdFacts DEF FsInv, FsType
<1>3. /\ kv' \in [rec : [Ids -> Reports \cup {NoReport}], index : Ids, outdex : Ids]
      /\ kv'.index = kv.index /\ kv'.outdex = kv.outdex
      /\ \A id \in Ids : id # fs.outdex => kv'.rec[id] = kv.rec[id]
  <2>1. CASE kv' = [kv EXCEPT !.rec[fs.outdex] = NoReport]
    BY <1>2, <2>1
  <2>2. CASE kv' = kv
    BY <1>2, <2>2
  <2> QED
    BY <2>1, <2>2 DEF ClearOne
<1>4. /\ fs' \in [index : Ids, outdex : Ids]
      /\ fs'.index = fs.index /\ fs'.outdex = Inc(fs.outdex)
  BY <1>1, <1>2 DEF FsInv, FsType
<1>5. /\ held' \in [Ids -> Reports \cup {NoReport}] /\ held'[fs.outdex] = NoReport
      /\ \A id \in Ids : id # fs.outdex => held'[id] = held[id]
  BY <1>1, <1>2 DEF FsInv, FsType
<1>6. /\ fsFaults' \in 0..FsMaxFaults /\ fsFaults \in 0..FsMaxFaults
      /\ fsFaults' = fsFaults \/ fsFaults' = fsFaults + 1
  <2>1. fsFaults \in 0..FsMaxFaults /\ FsMaxFaults \in Nat
    BY FsAssumption DEF FsInv, FsType
  <2>2. fsFaults' = fsFaults \/ (fsFaults < FsMaxFaults /\ fsFaults' = fsFaults + 1)
    BY DEF ClearOne
  <2> QED
    BY <2>1, <2>2
<1>7. FsType'
  BY <1>1, <1>3, <1>4, <1>5, <1>6 DEF FsInv, FsType
<1>8. Ahead(fs.index, fs.outdex) > 0
  BY <1>1, FsNumbers
<1>9. /\ Readable(held', kv'.rec, fs.index, Inc(fs.outdex))
      /\ Ahead(fs.index, Inc(fs.outdex)) = Ahead(fs.index, fs.outdex) - 1
  <2>1. /\ Readable(held, kv.rec, fs.index, fs.outdex) /\ held'[fs.outdex] = NoReport
        /\ \A id \in Ids : id # fs.outdex => held'[id] = held[id] /\ kv'.rec[id] = kv.rec[id]
    BY <1>3, <1>5 DEF FsInv
  <2>2. PICK i \in Ids, o \in Ids : i = fs.index /\ o = fs.outdex
    BY <1>2
  <2>3. PICK h, rec, h2, rec2 : h = held /\ rec = kv.rec /\ h2 = held' /\ rec2 = kv'.rec
    OBVIOUS
  <2>4. /\ Ahead(i, o) > 0 /\ Readable(h, rec, i, o) /\ h2[o] = NoReport
        /\ \A id \in Ids : id # o => h2[id] = h[id] /\ rec2[id] = rec[id]
    BY <1>8, <2>1, <2>2, <2>3
  <2>5. Readable(h2, rec2, i, Inc(o)) /\ Ahead(i, Inc(o)) = Ahead(i, o) - 1
    BY <2>4, OutdexPassed
  <2> QED
    BY <2>2, <2>3, <2>5
<1>10. InBounds(fs'.index, fs'.outdex, kv'.outdex, fsFaults', "clear")
  <2>1. PICK c \in Nat, l \in Nat, b \in Nat, m \in Nat :
          /\ c = Ahead(fs.index, fs.outdex) /\ l = Ahead(fs.outdex, kv.outdex)
          /\ b = MaxMetrics * fsFaults /\ m = MaxMetrics
    BY FsNumbers
  <2>2. MaxMetrics * (fsFaults + 1) = b + m /\ l + c <= b + m /\ b + m < IdSpace /\ IdSpace \in Nat /\ c > 0
    BY <1>8, <2>1, FsNumbers DEF FsInv, InBounds
  <2>3. Ahead(Inc(fs.outdex), kv.outdex) = l + 1
    BY <1>2, <2>1, <2>2, AheadFacts
  <2>4. PICK d \in Nat : d = MaxMetrics * (fsFaults' + 1) /\ (d = b + m \/ d = (b + m) + m)
    <3>1. CASE fsFaults' = fsFaults
      BY <2>1, <2>2, <3>1
    <3>2. CASE fsFaults' = fsFaults + 1
      <4>1. MaxMetrics * (fsFaults' + 1) = MaxMetrics * fsFaults' + MaxMetrics
        BY <1>6, LagBound
      <4> QED
        BY <2>1, <2>2, <3>2, <4>1
    <3> QED
      BY <1>6, <3>1, <3>2
  <2>5. (l + 1) + (c - 1) <= d
    BY <2>2, <2>4, <2>1
  <2> QED
    BY <1>3, <1>4, <1>9, <2>1, <2>3, <2>4, <2>5 DEF InBounds
<1> QED
  BY <1>1, <1>4, <1>7, <1>9, <1>10 DEF FsInv

LEMMA ClearOutdexInv == FsInv /\ ClearOutdex => FsInv'
<1> SUFFICES ASSUME FsInv, ClearOutdex PROVE FsInv'
  OBVIOUS
<1>1. /\ fsTask.pc = "clear" /\ CountMetrics(fs) = 0
      /\ kv' = [kv EXCEPT !.outdex = fs.outdex]
      /\ fsTask' = FsIdle /\ UNCHANGED <<fs, held, fsFaults>>
  BY DEF ClearOutdex
<1>2. /\ fs.index \in Ids /\ fs.outdex \in Ids
  BY DEF FsInv, FsType
<1>3. /\ kv' \in [rec : [Ids -> Reports \cup {NoReport}], index : Ids, outdex : Ids]
      /\ kv'.index = kv.index /\ kv'.outdex = fs.outdex /\ kv'.rec = kv.rec
  BY <1>1, <1>2 DEF FsInv, FsType
<1>4. fsTask' \in FsPlain /\ fsTask'.pc = "idle"
  BY <1>1 DEF FsIdle, FsPlain
<1>5. FsType'
  BY <1>1, <1>3, <1>4 DEF FsInv, FsType
<1>6. InBounds(fs'.index, fs'.outdex, kv'.outdex, fsFaults', "idle")
  <2>1. Ahead(fs.outdex, fs.outdex) = 0 /\ Ahead(fs.index, fs.outdex) = 0
    BY <1>1, <1>2, AheadFacts, FsNumbers
  <2>2. MaxMetrics * fsFaults \in Nat /\ MaxMetrics * (fsFaults + 1) \in Nat
    BY FsNumbers
  <2> QED
    BY <1>1, <1>3, <2>1, <2>2 DEF InBounds
<1> QED
  BY <1>1, <1>3, <1>4, <1>5, <1>6 DEF FsInv

LEMMA FsRestartInv == FsInv /\ FsRestart => FsInv'
<1> SUFFICES ASSUME FsInv, FsRestart PROVE FsInv'
  OBVIOUS
<1>1. /\ fsFaults' = fsFaults + 1 /\ fsFaults' \in 0..FsMaxFaults
      /\ fsTask' = FsIdle /\ UNCHANGED <<kv, held>>
      /\ fs' = [index |-> kv.index, outdex |-> kv.outdex]
  BY FsAssumption DEF FsRestart, FsInv, FsType
<1>2. fs.index \in Ids /\ fs.outdex \in Ids /\ kv.outdex \in Ids /\ kv.index = fs.index
  BY DEF FsInv, FsType
<1>3. fs' \in [index : Ids, outdex : Ids] /\ fs'.index = fs.index /\ fs'.outdex = kv.outdex
  BY <1>1, <1>2
<1>4. fsTask' \in FsPlain /\ fsTask'.pc = "idle"
  BY <1>1 DEF FsIdle, FsPlain
<1>5. FsType'
  BY <1>1, <1>2, <1>3, <1>4 DEF FsInv, FsType
<1>6. PICK c \in Nat, l \in Nat, b \in Nat, m \in Nat :
        /\ c = Ahead(fs.index, fs.outdex) /\ l = Ahead(fs.outdex, kv.outdex)
        /\ b = MaxMetrics * fsFaults /\ m = MaxMetrics
  BY FsNumbers
<1>7. MaxMetrics * (fsFaults + 1) = b + m /\ l + c <= b + m /\ b + m < IdSpace /\ IdSpace \in Nat
  BY <1>6, FsNumbers DEF FsInv, InBounds
<1>8. Ahead(fs.index, kv.outdex) = l + c
  BY <1>2, <1>6, <1>7, AheadFacts
<1>9. InBounds(fs'.index, fs'.outdex, kv'.outdex, fsFaults', "idle")
  <2>1. MaxMetrics * fsFaults' = b + m /\ MaxMetrics * (fsFaults' + 1) = (b + m) + m
    BY <1>1, <1>6, <1>7, LagBound
  <2>2. Ahead(kv.outdex, kv.outdex) = 0
    BY <1>2, AheadFacts
  <2> QED
    BY <1>1, <1>3, <1>6, <1>7, <1>8, <2>1, <2>2 DEF InBounds
<1>10. ASSUME NEW id \in Ids, held[id] # NoReport
       PROVE  Ahead(id, kv.outdex) < l + c /\ kv.rec[id] = held[id]
  <2>1. Ahead(id, fs.outdex) < c /\ kv.rec[id] = held[id]
    BY <1>6, <1>10 DEF FsInv, Readable
  <2>0. Ahead(id, fs.outdex) \in 0..(IdSpace - 1)
    BY <1>2, IdFacts
  <2>2. PICK x \in Nat : x = Ahead(id, fs.outdex)
    BY <2>0
  <2>3. l + x < IdSpace
    BY <1>6, <1>7, <2>1, <2>2
  <2>4. Ahead(id, kv.outdex) = l + x
    BY <1>2, <1>6, <2>2, <2>3, AheadFacts
  <2> QED
    BY <1>6, <2>1, <2>2, <2>4
<1> QED
  BY <1>1, <1>3, <1>4, <1>5, <1>8, <1>9, <1>10 DEF FsInv, Readable

LEMMA FsStep == FsInv /\ [FsNext]_fsVars => FsInv'
<1> SUFFICES ASSUME FsInv, [FsNext]_fsVars PROVE FsInv'
  OBVIOUS
<1>1. ASSUME NEW d \in Reports, FsWrite(d) PROVE FsInv'
  <2>1. /\ fsTask = FsIdle /\ fsTask' = [pc |-> "data", data |-> d] /\ CountMetrics(fs) < MaxMetrics
        /\ UNCHANGED <<kv, fs, held, fsFaults>>
    BY <1>1 DEF FsWrite
  <2>2. fsTask.pc = "idle" /\ fsTask' \in FsWriting /\ fsTask'.pc = "data"
    BY <2>1 DEF FsIdle, FsWriting
  <2> QED
    BY <2>1, <2>2, FsCallStep
<1>2. CASE DelFirst
  <2>1. /\ fsTask = FsIdle /\ fsTask' = [pc |-> "del"] /\ CountMetrics(fs) > 0
        /\ UNCHANGED <<kv, fs, held, fsFaults>>
    BY <1>2 DEF DelFirst, FsStart
  <2>2. fsTask.pc = "idle" /\ fsTask' \in FsPlain /\ fsTask'.pc = "del"
    BY <2>1 DEF FsIdle, FsPlain
  <2> QED
    BY <2>1, <2>2, FsCallStep
<1>3. CASE ClearAll
  <2>1. /\ fsTask = FsIdle /\ fsTask' = [pc |-> "clear"] /\ UNCHANGED <<kv, fs, held, fsFaults>>
    BY <1>3 DEF ClearAll, FsStart
  <2>2. fsTask.pc = "idle" /\ fsTask' \in FsPlain /\ fsTask'.pc = "clear"
    BY <2>1 DEF FsIdle, FsPlain
  <2> QED
    BY <2>1, <2>2, FsCallStep
<1>4. CASE CallFails
  <2>1. /\ fsFaults < FsMaxFaults /\ fsFaults' = fsFaults + 1 /\ fsTask' = FsIdle
        /\ UNCHANGED <<kv, fs, held>>
    BY <1>4 DEF CallFails
  <2>2. fsTask' \in FsPlain /\ fsTask'.pc = "idle"
    BY <2>1 DEF FsIdle, FsPlain
  <2> QED
    BY <2>1, <2>2, FsCallStep
<1>5. CASE UNCHANGED fsVars
  BY <1>5 DEF fsVars, FsInv, FsType
<1> QED
  BY <1>1, <1>2, <1>3, <1>4, <1>5, WriteDataInv, WriteIndexInv, DelRecordInv, DelOutdexInv,
     ClearOneInv, ClearOutdexInv, FsRestartInv DEF FsNext

\* A report metricfs_write acknowledged stays readable under its identifier
\* until it is deleted or cleared, across failing calls, restarts between any
\* two calls of the store and the wrap of the identifiers (metricfs_write,
\* metricfs_del_first, metricfs_clear, metricfs_create).
THEOREM ReportsStayReadable == FsSpec => []ReportsReadable
BY FsInitInv, FsStep, FsInvImplies, PTL DEF FsSpec

(***************************************************************************)
(* The ring buffer.  Arithmetic of the indices first: W is the range of    *)
(* size_t, C a capacity that divides it.                                   *)
(***************************************************************************)
LEMMA Quotient == \A x \in Int, n \in Int : n > 0 => x = n * (x \div n) + (x % n)
  BY Z3

LEMMA OneRemainder ==
    ASSUME NEW W \in Nat \ {0}, NEW q \in Int, NEW r \in 0 .. W - 1
    PROVE  (q * W + r) % W = r
  OBVIOUS

LEMMA Divided ==
    ASSUME NEW W \in Nat \ {0}, NEW x \in Int
    PROVE  \E q \in Int, r \in 0 .. W - 1 : x = q * W + r /\ x % W = r
<1>1. x \div W \in Int /\ x % W \in 0 .. W - 1
  OBVIOUS
<1>2. x = W * (x \div W) + (x % W)
  BY Quotient
<1>3. PICK q \in Int, r \in 0 .. W - 1 : q = x \div W /\ r = x % W
  BY <1>1
<1>4. x = q * W + r
  BY <1>2, <1>3
<1> QED
  BY <1>3, <1>4

\* Whole turns of the ring change no place in it.
LEMMA WholeTurns ==
    ASSUME NEW W \in Nat \ {0}, NEW p \in Int, NEW x \in Int
    PROVE  (p * W + x) % W = x % W
<1>1. PICK q \in Int, r \in 0 .. W - 1 : x = q * W + r /\ x % W = r
  BY Divided
<1>2. p * W + x = (p + q) * W + r /\ p + q \in Int
  BY <1>1
<1>3. ((p + q) * W + r) % W = r
  BY <1>1, <1>2, OneRemainder
<1> QED
  BY <1>1, <1>2, <1>3

LEMMA Remainder ==
    ASSUME NEW W \in Nat \ {0}, NEW x \in Int
    PROVE  x % W \in 0 .. W - 1
  OBVIOUS

LEMMA OneTurn ==
    ASSUME NEW W \in Nat \ {0}, NEW x \in -W .. 2 * W - 1
    PROVE  x % W = IF x < 0 THEN x + W ELSE IF x < W THEN x ELSE x - W
  OBVIOUS

\* A place of the buffer, counted from another one.
LEMMA PlaceFrom ==
    ASSUME NEW C \in Nat \ {0}, NEW x \in Int, NEW j \in -C .. C
    PROVE  \E at \in 0 .. C - 1 : /\ at = x % C
                                  /\ (x + j) % C = IF at + j < 0 THEN at + j + C
                                                   ELSE IF at + j < C THEN at + j
                                                   ELSE at + j - C
<1>1. PICK q \in Int, r \in 0 .. C - 1 : x = q * C + r /\ x % C = r
  BY Divided
<1>2. PICK s \in -C .. 2 * C - 1 : s = r + j
  <2>1. r + j \in -C .. 2 * C - 1
    BY <1>1
  <2> QED
    BY <2>1
<1>3. x + j = q * C + s
  BY <1>1, <1>2
<1>4. (q * C + s) % C = s % C
  <2>1. q \in Int /\ s \in Int
    BY <1>1, <1>2
  <2> QED
    BY <2>1, WholeTurns
<1>5. s % C = IF s < 0 THEN s + C ELSE IF s < C THEN s ELSE s - C
  BY <1>2, OneTurn
<1> QED
  BY <1>1, <1>2, <1>3, <1>4, <1>5

\* Wrapping an index moves no place.
SamePlace(C, W, x, j) == ((x % W) + j) % C = (x + j) % C

LEMMA WrapMovesNothing ==
    ASSUME NEW C \in Nat \ {0}, NEW W \in Nat \ {0}, W % C = 0,
           NEW x \in -W .. 2 * W - 1, NEW j \in Int
    PROVE  SamePlace(C, W, x, j)
<1>1. x % W = IF x < 0 THEN x + W ELSE IF x < W THEN x ELSE x - W
  BY OneTurn
<1>2. PICK q \in Int, r \in 0 .. C - 1 : W = q * C + r /\ W % C = r
  <2>1. PICK m \in Int : m = W
    OBVIOUS
  <2>2. \E q \in Int, r \in 0 .. C - 1 : m = q * C + r /\ m % C = r
    BY Divided
  <2> QED
    BY <2>1, <2>2
<1>3. W = q * C
  BY <1>2
<1>4. PICK y \in Int : y = x + j
  OBVIOUS
<1>5. (q * C + y) % C = y % C
  BY <1>4, WholeTurns
<1>5a. PICK p \in Int : p = 0 - q
  BY <1>2
<1>5b. (p * C + y) % C = y % C
  BY <1>4, <1>5a, WholeTurns
<1>5c. p * C = 0 - W
  BY <1>3, <1>5a
<1>6. /\ (W + y) % C = y % C
      /\ (y - W) % C = y % C
  BY <1>3, <1>4, <1>5, <1>5b, <1>5c
<1>7. PICK z \in Int : z = x % W
  BY <1>1
<1>8. z + j = y \/ z + j = W + y \/ z + j = y - W
  BY <1>1, <1>4, <1>7
<1> QED
  BY <1>4, <1>6, <1>7, <1>8 DEF SamePlace

\* The indices after the ring grew by n, shrank at its end or at its start.
LengthIs(W, i, o, n) == (i - o) % W = n

LEMMA LengthMoves ==
    ASSUME NEW W \in Nat \ {0}, NEW i \in 0 .. W - 1, NEW o \in 0 .. W - 1, NEW L \in 0 .. W - 1,
           LengthIs(W, i, o, L), NEW n \in Nat
    PROVE  /\ L + n < W => LengthIs(W, (i + n) % W, o, L + n)
           /\ n <= L => LengthIs(W, (i - n) % W, o, L - n)
           /\ n <= L => LengthIs(W, i, (o + n) % W, L - n)
<1> DEFINE Turn(x) == IF x < 0 THEN x + W ELSE IF x < W THEN x ELSE x - W
<1>0. \A x \in -W .. 2 * W - 1 : x % W = Turn(x)
  BY OneTurn
<1>1. i - o \in -W .. 2 * W - 1 /\ Turn(i - o) = L
  BY <1>0 DEF LengthIs
<1>2. ASSUME L + n < W PROVE LengthIs(W, (i + n) % W, o, L + n)
  <2>1. i + n \in -W .. 2 * W - 1 /\ (i + n) % W = Turn(i + n)
    BY <1>0, <1>2
  <2>2. PICK j \in 0 .. W - 1 : j = (i + n) % W /\ j = Turn(i + n)
    BY <2>1
  <2>3. j - o \in -W .. 2 * W - 1
    BY <2>2
  <2>4. (j - o) % W = Turn(j - o)
    BY <1>0, <2>3
  <2> QED
    BY <1>1, <1>2, <2>2, <2>4 DEF LengthIs
<1>3. ASSUME n <= L PROVE LengthIs(W, (i - n) % W, o, L - n)
  <2>1. i - n \in -W .. 2 * W - 1 /\ (i - n) % W = Turn(i - n)
    BY <1>0, <1>3
  <2>2. PICK j \in 0 .. W - 1 : j = (i - n) % W /\ j = Turn(i - n)
    BY <2>1
  <2>3. j - o \in -W .. 2 * W - 1
    BY <2>2
  <2>4. (j - o) % W = Turn(j - o)
    BY <1>0, <2>3
  <2> QED
    BY <1>1, <1>3, <2>2, <2>4 DEF LengthIs
<1>4. ASSUME n <= L PROVE LengthIs(W, i, (o + n) % W, L - n)
  <2>1. o + n \in -W .. 2 * W - 1 /\ (o + n) % W = Turn(o + n)
    BY <1>0, <1>4
  <2>2. PICK j \in 0 .. W - 1 : j = (o + n) % W /\ j = Turn(o + n)
    BY <2>1
  <2>3. i - j \in -W .. 2 * W - 1
    BY <2>2
  <2>4. (i - j) % W = Turn(i - j)
    BY <1>0, <2>3
  <2> QED
    BY <1>1, <1>4, <2>2, <2>4 DEF LengthIs
<1> QED
  BY <1>2, <1>3, <1>4

\* The bytes of a ring: L of them from place o on.
Span(buf, C, o, L) == [k \in 1 .. L |-> buf[(o + k - 1) % C]]

\* Typed, each byte at its place.
IsSpan(s, buf, C, o, L) ==
    /\ s \in Seq(Nat) /\ Len(s) = L
    /\ \A k \in 1 .. L : s[k] = buf[(o + k - 1) % C]

LEMMA SpanFacts ==
    ASSUME NEW C \in Nat \ {0}, NEW buf \in [0 .. C - 1 -> Nat], NEW o \in Int, NEW L \in Nat
    PROVE  IsSpan(Span(buf, C, o, L), buf, C, o, L)
<1>1. \A k \in 1 .. L : buf[(o + k - 1) % C] \in Nat
  <2>1. SUFFICES ASSUME NEW k \in 1 .. L PROVE buf[(o + k - 1) % C] \in Nat
    OBVIOUS
  <2>2. PICK x \in Int : x = o + k - 1
    OBVIOUS
  <2>3. x % C \in 0 .. C - 1
    OBVIOUS
  <2> QED
    BY <2>2, <2>3
<1>2. Span(buf, C, o, L) \in Seq(Nat) /\ Len(Span(buf, C, o, L)) = L
  BY <1>1 DEF Span
<1> QED
  BY <1>2 DEF Span, IsSpan

LEMMA SpanUnique ==
    ASSUME NEW s, NEW t, NEW buf, NEW C, NEW o, NEW L \in Nat,
           IsSpan(s, buf, C, o, L), IsSpan(t, buf, C, o, L)
    PROVE  s = t
  BY SeqEqual, Zenon DEF IsSpan

\* A ring from which bytes are cut at both ends.
IsCut(buf, C, o, L, a, b) ==
    SubSeq(Span(buf, C, o, L), a + 1, b) = Span(buf, C, o + a, b - a)

LEMMA SpanCut ==
    ASSUME NEW C \in Nat \ {0}, NEW buf \in [0 .. C - 1 -> Nat], NEW o \in Int, NEW L \in Nat,
           NEW a \in 0 .. L, NEW b \in a .. L
    PROVE  IsCut(buf, C, o, L, a, b)
<1>1. PICK s \in Seq(Nat) : s = Span(buf, C, o, L)
  <2>1. Span(buf, C, o, L) \in Seq(Nat)
    BY SpanFacts DEF IsSpan
  <2> QED
    BY <2>1
<1>2. Len(s) = L /\ \A k \in 1 .. L : s[k] = buf[(o + k - 1) % C] /\ s[k] \in Nat
  <2>1. IsSpan(s, buf, C, o, L)
    BY <1>1, SpanFacts
  <2> QED
    BY <2>1, ElementOfSeq DEF IsSpan
<1>3. a + 1 \in Int /\ b \in Int /\ b - a \in Nat /\ \A k \in a + 1 .. b : k \in 1 .. L
  OBVIOUS
<1>4. PICK t : t = SubSeq(s, a + 1, b)
  OBVIOUS
<1>5. /\ t \in Seq(Nat)
      /\ Len(t) = IF a + 1 <= b THEN b - (a + 1) + 1 ELSE 0
      /\ \A k \in 1 .. b - (a + 1) + 1 : t[k] = s[(a + 1) + k - 1]
  <2>1. PICK m \in Int, n \in Int : m = a + 1 /\ n = b
    BY <1>3
  <2>2. \A k \in m .. n : s[k] \in Nat
    BY <1>2, <1>3, <2>1
  <2>3. /\ SubSeq(s, m, n) \in Seq(Nat)
        /\ Len(SubSeq(s, m, n)) = IF m <= n THEN n - m + 1 ELSE 0
        /\ \A i \in 1 .. n - m + 1 : SubSeq(s, m, n)[i] = s[m + i - 1]
    BY <2>2, SubSeqProperties
  <2> QED
    BY <1>4, <2>1, <2>3
<1>6. Len(t) = b - a
  BY <1>5
<1>7. ASSUME NEW k \in 1 .. b - a PROVE t[k] = buf[(o + a + k - 1) % C]
  <2>1. k \in 1 .. b - (a + 1) + 1 /\ (a + 1) + k - 1 \in 1 .. L
    BY <1>7
  <2>2. t[k] = s[(a + 1) + k - 1]
    BY <1>5, <2>1
  <2>3. s[(a + 1) + k - 1] = buf[(o + ((a + 1) + k - 1) - 1) % C]
    BY <1>2, <2>1
  <2>4. o + ((a + 1) + k - 1) - 1 = o + a + k - 1
    BY <1>7
  <2> QED
    BY <2>2, <2>3, <2>4
<1>8. IsSpan(t, buf, C, o + a, b - a)
  BY <1>5, <1>6, <1>7 DEF IsSpan
<1>9. IsSpan(Span(buf, C, o + a, b - a), buf, C, o + a, b - a)
  BY <1>3, SpanFacts
<1>10. t = Span(buf, C, o + a, b - a)
  BY <1>3, <1>8, <1>9, SpanUnique
<1> QED
  BY <1>1, <1>4, <1>10 DEF IsCut

\* Wrapping the index the ring starts at changes none of it.
LEMMA SpanWrap ==
    ASSUME NEW C \in Nat \ {0}, NEW W \in Nat \ {0}, W % C = 0, NEW buf,
           NEW x \in -W .. 2 * W - 1, NEW L \in Nat
    PROVE  Span(buf, C, x % W, L) = Span(buf, C, x, L)
<1>1. ASSUME NEW k \in 1 .. L PROVE ((x % W) + k - 1) % C = (x + k - 1) % C
  <2>1. SamePlace(C, W, x, k - 1)
    <3>1. PICK j \in Int : j = k - 1
      BY <1>1
    <3>2. SamePlace(C, W, x, j)
      BY WrapMovesNothing
    <3> QED
      BY <3>1, <3>2
  <2>2. PICK y \in Int : y = x % W
    OBVIOUS
  <2>3. y + k - 1 = y + (k - 1) /\ x + k - 1 = x + (k - 1)
    BY <2>2
  <2> QED
    BY <2>1, <2>2, <2>3 DEF SamePlace
<1> QED
  BY <1>1, Zenon DEF Span

\* What read_core copies, given the state of the handle.
RingRead(buf, C, o, L, offset, n) ==
    LET ptr == IF offset >= L THEN -1 ELSE (o + offset) % C
        len == IF ptr = -1 THEN 0 ELSE Lesser(L - offset, n)
        cut == Lesser(len, IF offset >= L THEN 0 ELSE C - ptr)
    IN [k \in 1 .. len |-> IF k <= cut THEN buf[ptr + k - 1] ELSE buf[k - cut - 1]]

\* How many bytes a read gives.
Given(L, offset, n) == IF offset >= L THEN 0 ELSE Lesser(L - offset, n)

LEMMA AllGiven == \A L \in Nat : Given(L, 0, L) = L
  BY DEF Given, Lesser

\* It copies the bytes from the offset on.
ReadGives(buf, C, o, L, offset, n) ==
    RingRead(buf, C, o, L, offset, n) = Span(buf, C, o + offset, Given(L, offset, n))

LEMMA RingReadIs ==
    ASSUME NEW C \in Nat \ {0}, NEW buf \in [0 .. C - 1 -> Nat], NEW o \in Nat, NEW L \in 0 .. C,
           NEW offset \in Nat, NEW n \in Nat
    PROVE  ReadGives(buf, C, o, L, offset, n)
<1>1. CASE offset >= L
  BY <1>1 DEF ReadGives, RingRead, Span, Given
<1>2. CASE offset < L
  <2>1. PICK x \in Int : x = o + offset
    OBVIOUS
  <2>2. PICK p \in 0 .. C - 1 : p = x % C
    OBVIOUS
  <2>3. PICK len \in 0 .. C : len = Lesser(L - offset, n)
    <3>1. Lesser(L - offset, n) \in 0 .. C
      BY <1>2 DEF Lesser
    <3> QED
      BY <3>1
  <2>4. PICK cut \in 0 .. C : cut = Lesser(len, C - p)
    <3>1. Lesser(len, C - p) \in 0 .. C
      BY <2>3, <2>2 DEF Lesser
    <3> QED
      BY <3>1
  <2>5. RingRead(buf, C, o, L, offset, n)
          = [k \in 1 .. len |-> IF k <= cut THEN buf[p + k - 1] ELSE buf[k - cut - 1]]
    <3>1. ~(offset >= L) /\ p # -1
      BY <1>2, <2>2
    <3> QED
      BY <2>1, <2>2, <2>3, <2>4, <3>1, Zenon DEF RingRead
  <2>6. ASSUME NEW k \in 1 .. len
        PROVE  (IF k <= cut THEN buf[p + k - 1] ELSE buf[k - cut - 1])
                 = buf[(o + offset + k - 1) % C]
    <3>1. PICK j \in -C .. C : j = k - 1
      <4>1. k - 1 \in -C .. C
        BY <2>3, <2>6
      <4> QED
        BY <4>1
    <3>2. (x + j) % C = IF p + j < 0 THEN p + j + C ELSE IF p + j < C THEN p + j ELSE p + j - C
      <4>1. \E at \in 0 .. C - 1 : /\ at = x % C
                                  /\ (x + j) % C = IF at + j < 0 THEN at + j + C
                                                   ELSE IF at + j < C THEN at + j
                                                   ELSE at + j - C
        BY PlaceFrom
      <4> QED
        BY <2>2, <4>1
    <3>3. o + offset + k - 1 = x + j
      BY <2>1, <3>1, <2>6
    <3>4. (k <= cut => p + j < C) /\ (k > cut => cut = C - p /\ p + j >= C)
      BY <2>3, <2>4, <2>2, <2>6, <3>1 DEF Lesser
    <3>5. (IF k <= cut THEN p + k - 1 ELSE k - cut - 1) = (x + j) % C
      <4>1. PICK y \in Int : y = (x + j) % C
        OBVIOUS
      <4>2. y = IF p + j < 0 THEN p + j + C ELSE IF p + j < C THEN p + j ELSE p + j - C
        BY <3>2, <4>1
      <4>3. k \in Int /\ cut \in Int /\ p \in Int /\ p >= 0 /\ k > 0 /\ j = k - 1
        BY <2>2, <2>4, <2>6, <3>1
      <4>4. CASE k <= cut
        BY <3>4, <4>2, <4>1, <4>3, <4>4
      <4>5. CASE k > cut
        BY <3>4, <4>2, <4>1, <4>3, <4>5
      <4> QED
        BY <4>3, <4>4, <4>5
    <3> QED
      BY <3>3, <3>5
  <2>7. Given(L, offset, n) = len
    BY <1>2, <2>3 DEF Given
  <2> QED
    BY <2>5, <2>6, <2>7 DEF ReadGives, Span
<1> QED
  BY <1>1, <1>2

\* The buffer after ringbuf_write's two copies of len bytes from place at on.
Written(buf, C, at, data, len) ==
    LET cut == Lesser(len, C - at)
    IN [p \in 0 .. C - 1 |-> IF p \in at .. at + cut - 1 THEN data[p - at + 1]
                             ELSE IF p < len - cut THEN data[cut + p + 1] ELSE buf[p]]

\* Where the copies put the j-th byte, and that the d-th byte before them is
\* not overwritten while the ring holds it.
PutAt(C, at, len, j, p) ==
    LET cut == Lesser(len, C - at)
    IN IF p \in at .. at + cut - 1 THEN p - at + 1 = j
       ELSE p < len - cut /\ cut + p + 1 = j
KeptAt(C, at, len, p) ==
    LET cut == Lesser(len, C - at) IN p \notin at .. at + cut - 1 /\ ~(p < len - cut)

LEMMA PutPlaces ==
    ASSUME NEW C \in Nat \ {0}, NEW at \in 0 .. C - 1, NEW len \in 0 .. C, NEW j \in 1 .. len
    PROVE  PutAt(C, at, len, j, IF at + j - 1 < C THEN at + j - 1 ELSE at + j - 1 - C)
  BY DEF PutAt, Lesser

LEMMA KeptPlaces ==
    ASSUME NEW C \in Nat \ {0}, NEW at \in 0 .. C - 1, NEW L \in 0 .. C, NEW len \in 0 .. C - L,
           NEW d \in 1 .. L
    PROVE  KeptAt(C, at, len, IF at - d < 0 THEN at - d + C ELSE at - d)
  BY DEF KeptAt, Lesser

LEMMA WrittenType ==
    ASSUME NEW C \in Nat \ {0}, NEW buf \in [0 .. C - 1 -> Nat], NEW at \in 0 .. C - 1,
           NEW data \in Seq(Nat), NEW len \in 0 .. C, len <= Len(data)
    PROVE  Written(buf, C, at, data, len) \in [0 .. C - 1 -> Nat]
<1>1. PICK cut \in 0 .. C : cut = Lesser(len, C - at) /\ cut <= len
  <2>1. Lesser(len, C - at) \in 0 .. C /\ Lesser(len, C - at) <= len
    BY DEF Lesser
  <2> QED
    BY <2>1
<1>2. \A k \in 1 .. len : data[k] \in Nat
  <2>1. SUFFICES ASSUME NEW k \in 1 .. len PROVE data[k] \in Nat
    OBVIOUS
  <2>2. k \in 1 .. Len(data)
    BY LenProperties
  <2> QED
    BY <2>2, ElementOfSeq
<1>3. ASSUME NEW p \in 0 .. C - 1
      PROVE  (IF p \in at .. at + cut - 1 THEN data[p - at + 1]
              ELSE IF p < len - cut THEN data[cut + p + 1] ELSE buf[p]) \in Nat
  <2>1. p \in at .. at + cut - 1 => p - at + 1 \in 1 .. len
    BY <1>1, <1>3
  <2>2. p < len - cut => cut + p + 1 \in 1 .. len
    <3>1. p \in Nat /\ cut \in Nat /\ len \in Nat
      BY <1>1, <1>3
    <3> QED
      BY <3>1
  <2> QED
    BY <1>2, <1>3, <2>1, <2>2
<1> QED
  BY <1>1, <1>3 DEF Written

\* The bytes written are added behind those the ring holds.
Appended(buf, C, o, L, data, len) ==
    Span(Written(buf, C, (o + L) % C, data, len), C, o, L + len)
      = Span(buf, C, o, L) \o SubSeq(data, 1, len)

LEMMA SpanWritten ==
    ASSUME NEW C \in Nat \ {0}, NEW buf \in [0 .. C - 1 -> Nat], NEW o \in Int, NEW L \in 0 .. C,
           NEW data \in Seq(Nat), NEW len \in 0 .. C - L, len <= Len(data)
    PROVE  Appended(buf, C, o, L, data, len)
<1>1. PICK x \in Int : x = o + L
  OBVIOUS
<1>2. PICK at \in 0 .. C - 1 : at = x % C
  <2>1. x % C \in 0 .. C - 1
    BY Remainder
  <2> QED
    BY <2>1, Zenon
<1>3. PICK new \in [0 .. C - 1 -> Nat] : new = Written(buf, C, at, data, len)
  <2>1. len \in 0 .. C
    OBVIOUS
  <2>2. Written(buf, C, at, data, len) \in [0 .. C - 1 -> Nat]
    BY <2>1, WrittenType
  <2> QED
    BY <2>2
<1>4. PICK s \in Seq(Nat) : s = Span(buf, C, o, L) /\ IsSpan(s, buf, C, o, L)
  <2>1. L \in Nat
    OBVIOUS
  <2>2. IsSpan(Span(buf, C, o, L), buf, C, o, L)
    BY <2>1, SpanFacts
  <2>3. Span(buf, C, o, L) \in Seq(Nat)
    BY <2>2 DEF IsSpan
  <2> QED
    BY <2>2, <2>3
<1>5. PICK t \in Seq(Nat) : /\ t = SubSeq(data, 1, len) /\ Len(t) = len
                           /\ \A j \in 1 .. len : t[j] = data[j]
  <2>1. 1 \in Int /\ len \in Int /\ \A k \in 1 .. len : data[k] \in Nat
    <3>1. ASSUME NEW k \in 1 .. len PROVE data[k] \in Nat
      <4>1. k \in 1 .. Len(data)
        BY LenProperties
      <4> QED
        BY <4>1, ElementOfSeq
    <3> QED
      BY <3>1
  <2>2. /\ SubSeq(data, 1, len) \in Seq(Nat)
        /\ Len(SubSeq(data, 1, len)) = IF 1 <= len THEN len - 1 + 1 ELSE 0
        /\ \A i \in 1 .. len - 1 + 1 : SubSeq(data, 1, len)[i] = data[1 + i - 1]
    BY <2>1, SubSeqProperties
  <2>3. \A j \in 1 .. len : SubSeq(data, 1, len)[j] = data[j]
    BY <2>2
  <2>4. Len(SubSeq(data, 1, len)) = len
    BY <2>2
  <2> QED
    BY <2>2, <2>3, <2>4, Zenon
<1>6. PICK u \in Seq(Nat) : /\ u = s \o t /\ Len(u) = L + len
                           /\ \A k \in 1 .. L + len : u[k] = IF k <= L THEN s[k] ELSE t[k - L]
  <2>1. Len(s) = L
    BY <1>4 DEF IsSpan
  <2>2. /\ s \o t \in Seq(Nat)
        /\ Len(s \o t) = Len(s) + Len(t)
        /\ \A i \in 1 .. Len(s) + Len(t) : (s \o t)[i] = IF i <= Len(s) THEN s[i] ELSE t[i - Len(s)]
    BY ConcatProperties
  <2>3. Len(t) = len
    BY <1>5
  <2> QED
    BY <2>1, <2>2, <2>3, Zenon
<1>7. ASSUME NEW k \in 1 .. L PROVE s[k] = new[(o + k - 1) % C]
  <2>1. PICK d \in 1 .. L, e \in -C .. C : d = L - k + 1 /\ e = 0 - d
    <3>1. L - k + 1 \in 1 .. L /\ 0 - (L - k + 1) \in -C .. C
      BY <1>7
    <3> QED
      BY <3>1
  <2>2. PICK p \in 0 .. C - 1 : p = (x + e) % C
    <3>1. x + e \in Int
      BY <2>1
    <3>2. (x + e) % C \in 0 .. C - 1
      BY <3>1, Remainder
    <3> QED
      BY <3>2, Zenon
  <2>3. p = IF at - d < 0 THEN at - d + C ELSE at - d
    <3>1. \E b \in 0 .. C - 1 : /\ b = x % C
                               /\ (x + e) % C = IF b + e < 0 THEN b + e + C
                                                ELSE IF b + e < C THEN b + e ELSE b + e - C
      BY PlaceFrom
    <3>2. p = IF at + e < 0 THEN at + e + C ELSE IF at + e < C THEN at + e ELSE at + e - C
      BY <1>2, <2>2, <3>1, Zenon
    <3> QED
      BY <2>1, <3>2
  <2>4. KeptAt(C, at, len, p)
    BY <2>3, KeptPlaces
  <2>5. new[p] = buf[p]
    BY <1>3, <2>4 DEF Written, KeptAt
  <2>6. o + k - 1 = x + e
    BY <1>1, <1>7, <2>1
  <2>7. s[k] = buf[(o + k - 1) % C]
    BY <1>4, <1>7 DEF IsSpan
  <2> QED
    BY <2>2, <2>5, <2>6, <2>7
<1>8. ASSUME NEW j \in 1 .. len PROVE t[j] = new[(o + (L + j) - 1) % C]
  <2>1. PICK e \in -C .. C : e = j - 1
    <3>1. j - 1 \in -C .. C
      BY <1>8
    <3> QED
      BY <3>1
  <2>2. PICK p \in 0 .. C - 1 : p = (x + e) % C
    <3>1. x + e \in Int
      BY <2>1
    <3>2. (x + e) % C \in 0 .. C - 1
      BY <3>1, Remainder
    <3> QED
      BY <3>2, Zenon
  <2>3. p = IF at + j - 1 < C THEN at + j - 1 ELSE at + j - 1 - C
    <3>1. \E b \in 0 .. C - 1 : /\ b = x % C
                               /\ (x + e) % C = IF b + e < 0 THEN b + e + C
                                                ELSE IF b + e < C THEN b + e ELSE b + e - C
      BY PlaceFrom
    <3>2. p = IF at + e < 0 THEN at + e + C ELSE IF at + e < C THEN at + e ELSE at + e - C
      BY <1>2, <2>2, <3>1, Zenon
    <3> QED
      BY <1>8, <2>1, <3>2
  <2>4. PutAt(C, at, len, j, p)
    <3>1. len \in 0 .. C
      OBVIOUS
    <3> QED
      BY <1>8, <2>3, <3>1, PutPlaces
  <2>5. new[p] = data[j]
    BY <1>3, <2>4 DEF Written, PutAt
  <2>6. o + (L + j) - 1 = x + e
    BY <1>1, <1>8, <2>1
  <2> QED
    BY <1>5, <1>8, <2>2, <2>5, <2>6
<1>9. \A k \in 1 .. L + len : u[k] = new[(o + k - 1) % C]
  <2>1. SUFFICES ASSUME NEW k \in 1 .. L + len PROVE u[k] = new[(o + k - 1) % C]
    OBVIOUS
  <2>2. CASE k <= L
    <3>1. k \in 1 .. L
      BY <2>2
    <3> QED
      BY <1>6, <1>7, <2>2, <3>1
  <2>3. CASE k > L
    <3>1. PICK j \in 1 .. len : j = k - L
      BY <2>3
    <3>2. t[j] = new[(o + (L + j) - 1) % C]
      BY <1>8
    <3>3. L + j = k /\ u[k] = t[j]
      BY <1>6, <2>3, <3>1
    <3> QED
      BY <3>2, <3>3
  <2> QED
    BY <2>2, <2>3
<1>10. IsSpan(u, new, C, o, L + len)
  BY <1>6, <1>9 DEF IsSpan
<1>11. L + len \in Nat
  OBVIOUS
<1>12. IsSpan(Span(new, C, o, L + len), new, C, o, L + len)
  BY <1>11, SpanFacts
<1>13. u = Span(new, C, o, L + len)
  BY <1>10, <1>11, <1>12, SpanUnique
<1> QED
  BY <1>1, <1>2, <1>3, <1>4, <1>5, <1>6, <1>13, Zenon DEF Appended

\* The indices stay below the range of size_t, the buffer is as large as the
\* handle says, and what the ring holds fits into it.
RingInv ==
    /\ capacity \in Nat /\ index \in 0 .. Wrap - 1 /\ outdex \in 0 .. Wrap - 1
    /\ buffer \in [0 .. capacity - 1 -> Nat]
    /\ Live => Wrap % capacity = 0 /\ capacity < Wrap /\ get_length <= capacity
    /\ ~Live => index = 0 /\ outdex = 0

LEMMA IndexFacts == \A W \in Nat : \A x \in 0 .. W - 1 : x \in Nat /\ x + 0 = x
  OBVIOUS

LEMMA WrapFacts == Wrap \in Nat \ {0}
  BY RingAssumption

LEMMA RingHolds ==
    ASSUME RingInv
    PROVE  /\ get_length \in 0 .. Wrap - 1 /\ LengthIs(Wrap, index, outdex, get_length)
           /\ Live => /\ get_length <= capacity
                      /\ read_core(0, get_length) = Span(buffer, capacity, outdex, get_length)
           /\ ~Live => get_length = 0 /\ read_core(0, get_length) = <<>>
<1>1. get_length \in 0 .. Wrap - 1 /\ LengthIs(Wrap, index, outdex, get_length)
  <2>1. index - outdex \in Int
    BY DEF RingInv
  <2>2. (index - outdex) % Wrap \in 0 .. Wrap - 1
    BY <2>1, WrapFacts, Remainder
  <2> QED
    BY <2>2 DEF get_length, LengthIs
<1>2. ASSUME Live
      PROVE  /\ get_length <= capacity
             /\ read_core(0, get_length) = Span(buffer, capacity, outdex, get_length)
  <2>1. PICK C \in Nat \ {0} : C = capacity
    BY <1>2 DEF Live, RingInv
  <2>2. PICK L \in 0 .. C : L = get_length
    BY <1>1, <1>2, <2>1 DEF RingInv
  <2>3. buffer \in [0 .. C - 1 -> Nat] /\ outdex \in Nat /\ 0 \in Nat /\ L \in Nat
    BY <2>1, <2>2 DEF RingInv
  <2>4. ReadGives(buffer, C, outdex, L, 0, L)
    BY <2>3, RingReadIs
  <2>5. outdex + 0 = outdex /\ Given(L, 0, L) = L
    BY <2>3 DEF Given, Lesser
  <2>6. read_core(0, get_length) = RingRead(buffer, C, outdex, L, 0, L)
    BY <2>1, <2>2 DEF read_core, RingRead, get_pointer, Contiguous
  <2> QED
    BY <1>2, <2>1, <2>2, <2>4, <2>5, <2>6 DEF RingInv, ReadGives
<1>3. ASSUME ~Live PROVE get_length = 0 /\ read_core(0, get_length) = <<>>
  <2>1. get_length = 0
    BY <1>3, WrapFacts DEF RingInv, get_length
  <2> QED
    BY <2>1 DEF read_core, get_pointer
<1> QED
  BY <1>1, <1>2, <1>3

\* What a step leaves: a ring of L bytes.
LEMMA RingHoldsNext ==
    ASSUME capacity' \in Nat \ {0}, buffer' \in [0 .. capacity' - 1 -> Nat],
           index' \in 0 .. Wrap - 1, outdex' \in 0 .. Wrap - 1,
           Wrap % capacity' = 0, capacity' < Wrap,
           NEW L \in 0 .. capacity', LengthIs(Wrap, index', outdex', L)
    PROVE  /\ RingInv'
           /\ read_core(0, get_length)' = Span(buffer', capacity', outdex', L)
<1>1. get_length' = L
  BY DEF get_length, LengthIs
<1>2. PICK C \in Nat \ {0} : C = capacity'
  OBVIOUS
<1>3. buffer' \in [0 .. C - 1 -> Nat] /\ outdex' \in Nat /\ 0 \in Nat /\ L \in Nat /\ L \in 0 .. C
  <2>1. outdex' \in Nat
    BY WrapFacts, IndexFacts
  <2>2. L \in 0 .. C
    BY <1>2
  <2>3. buffer' \in [0 .. C - 1 -> Nat]
    BY <1>2, Zenon
  <2>4. L \in Nat /\ 0 \in Nat
    BY <2>2
  <2> QED
    BY <2>1, <2>2, <2>3, <2>4, Zenon
<1>4. ReadGives(buffer', C, outdex', L, 0, L)
  BY <1>3, RingReadIs
<1>5. outdex' + 0 = outdex' /\ Given(L, 0, L) = L
  <2>1. outdex' + 0 = outdex'
    BY WrapFacts, IndexFacts
  <2> QED
    BY <1>3, <2>1, AllGiven
<1>6. read_core(0, get_length)' = RingRead(buffer', C, outdex', L, 0, L)
  BY <1>1, <1>2 DEF read_core, RingRead, get_pointer, Contiguous
<1>7. RingInv'
  <2>1. capacity' \in Nat /\ capacity' > 0 /\ L <= capacity'
    OBVIOUS
  <2> QED
    BY <1>1, <2>1, Zenon DEF RingInv, Live
<1> QED
  BY <1>2, <1>4, <1>5, <1>6, <1>7, Zenon DEF ReadGives

LEMMA WriteImplements ==
    ASSUME RingInv, NEW data \in Inputs, Write(data)
    PROVE  RingInv' /\ Fifo!Put(data)
<1>1. data \in Seq(Nat) /\ Live
  BY RingAssumption DEF Write
<1>2. PICK C \in Nat \ {0} : C = capacity /\ Wrap % C = 0 /\ C < Wrap
  BY <1>1 DEF Live, RingInv
<1>3. PICK L \in 0 .. C : /\ L = get_length /\ L < Wrap /\ LengthIs(Wrap, index, outdex, L)
                         /\ read_core(0, get_length) = Span(buffer, C, outdex, L)
  <2>1. /\ get_length \in 0 .. Wrap - 1 /\ LengthIs(Wrap, index, outdex, get_length)
        /\ get_length <= C
        /\ read_core(0, get_length) = Span(buffer, C, outdex, get_length)
    BY <1>1, <1>2, RingHolds, Zenon
  <2>2. get_length \in 0 .. C /\ get_length < Wrap
    BY <2>1, WrapFacts
  <2> QED
    BY <2>1, <2>2, Zenon
<1>4. Len(data) \in Nat
  BY <1>1, LenProperties
<1>5. PICK len \in 0 .. C - L : len = Lesser(get_available, Len(data)) /\ len <= Len(data)
                               /\ (len = Len(data) \/ L + len = C)
  <2>1. get_available = C - L
    BY <1>2, <1>3 DEF get_available
  <2>2. Lesser(C - L, Len(data)) \in 0 .. C - L /\ Lesser(C - L, Len(data)) <= Len(data)
        /\ (Lesser(C - L, Len(data)) = Len(data) \/ L + Lesser(C - L, Len(data)) = C)
    BY <1>4 DEF Lesser
  <2> QED
    BY <2>1, <2>2
<1>6. /\ index \in 0 .. Wrap - 1 /\ outdex \in 0 .. Wrap - 1 /\ outdex \in Int
      /\ buffer \in [0 .. C - 1 -> Nat] /\ Wrap \in Nat \ {0}
  BY <1>2, WrapFacts DEF RingInv
<1>7. PICK at \in 0 .. C - 1 : at = index % C /\ at = (outdex + L) % C
  <2>1. index = (outdex + L) % Wrap
    <3>1. PICK x \in -Wrap .. 2 * Wrap - 1 : x = index - outdex
      BY <1>6
    <3>2. PICK y \in -Wrap .. 2 * Wrap - 1 : y = outdex + L
      BY <1>2, <1>6
    <3>3. /\ x % Wrap = IF x < 0 THEN x + Wrap ELSE IF x < Wrap THEN x ELSE x - Wrap
          /\ y % Wrap = IF y < 0 THEN y + Wrap ELSE IF y < Wrap THEN y ELSE y - Wrap
      BY <1>6, OneTurn
    <3>4. x % Wrap = L
      BY <1>3, <3>1 DEF LengthIs
    <3>5. PICK i \in Int, o \in Int, W \in Nat : /\ i = index /\ o = outdex /\ W = Wrap
                                               /\ i < W /\ i >= 0 /\ o < W /\ o >= 0
      BY <1>6
    <3>6. i = IF y < 0 THEN y + W ELSE IF y < W THEN y ELSE y - W
      <4>1. L = IF x < 0 THEN x + W ELSE IF x < W THEN x ELSE x - W
        BY <3>3, <3>4, <3>5
      <4>2. x = i - o /\ y = o + L
        BY <3>1, <3>2, <3>5
      <4> QED
        BY <3>5, <4>1, <4>2
    <3> QED
      BY <3>2, <3>3, <3>5, <3>6
  <2>2. PICK y \in -Wrap .. 2 * Wrap - 1 : y = outdex + L
    BY <1>2, <1>6
  <2>3. SamePlace(C, Wrap, y, 0)
    BY <1>2, <1>6, WrapMovesNothing
  <2>4. index + 0 = index /\ y + 0 = y
    BY <1>6
  <2>5. index % C = y % C
    BY <2>1, <2>2, <2>3, <2>4 DEF SamePlace
  <2>6. y % C \in 0 .. C - 1
    BY Remainder
  <2> QED
    BY <2>2, <2>5, <2>6
<1>8. buffer' = Written(buffer, C, at, data, len)
  <2>1. DOMAIN buffer = 0 .. C - 1
    BY <1>6
  <2> QED
    BY <1>2, <1>5, <1>7, <2>1, Zenon DEF Write, Written
<1>9. buffer' \in [0 .. C - 1 -> Nat]
  <2>1. len \in 0 .. C
    OBVIOUS
  <2> QED
    BY <1>1, <1>5, <1>6, <1>8, <2>1, WrittenType
<1>10. index' = (index + len) % Wrap /\ UNCHANGED <<capacity, outdex>> /\ out' = <<len>>
  BY <1>5 DEF Write
<1>11. LengthIs(Wrap, index', outdex', L + len)
  <2>1. L \in 0 .. Wrap - 1 /\ L + len < Wrap /\ len \in Nat
    BY <1>2, <1>3, WrapFacts
  <2>2. LengthIs(Wrap, (index + len) % Wrap, outdex, L + len)
    BY <1>3, <1>6, <2>1, LengthMoves
  <2> QED
    BY <1>10, <2>2
<1>12. index' \in 0 .. Wrap - 1
  <2>1. index + len \in Int
    BY <1>6
  <2> QED
    BY <1>6, <1>10, <2>1, Remainder
<1>13. RingInv' /\ read_core(0, get_length)' = Span(buffer', C, outdex, L + len)
  <2>1. L + len \in 0 .. C
    OBVIOUS
  <2> QED
    BY <1>2, <1>6, <1>9, <1>10, <1>11, <1>12, <2>1, RingHoldsNext
<1>14. read_core(0, get_length)' = read_core(0, get_length) \o SubSeq(data, 1, len)
  <2>1. Appended(buffer, C, outdex, L, data, len)
    BY <1>1, <1>5, <1>6, SpanWritten
  <2> QED
    BY <1>3, <1>7, <1>8, <1>13, <2>1, Zenon DEF Appended
<1>15. Len(read_core(0, get_length)) = L
  <2>1. L \in Nat
    OBVIOUS
  <2>2. IsSpan(Span(buffer, C, outdex, L), buffer, C, outdex, L)
    BY <1>6, <2>1, SpanFacts
  <2> QED
    BY <1>3, <2>2 DEF IsSpan
<1>16. len \in 0 .. Len(data) /\ L + len <= C
  BY <1>4, <1>5
<1> QED
  BY <1>2, <1>5, <1>10, <1>13, <1>14, <1>15, <1>16 DEF Fifo!Put

\* The ring a call finds: L bytes in a buffer of C.
HoldsBytes(C, L) ==
    /\ C = capacity /\ L = get_length /\ L \in 0 .. C /\ L \in 0 .. Wrap - 1
    /\ Wrap % C = 0 /\ C < Wrap /\ Wrap \in Nat \ {0}
    /\ LengthIs(Wrap, index, outdex, L)
    /\ index \in 0 .. Wrap - 1 /\ outdex \in 0 .. Wrap - 1 /\ outdex \in Nat
    /\ buffer \in [0 .. C - 1 -> Nat]
    /\ read_core(0, get_length) = Span(buffer, C, outdex, L)
    /\ Len(Span(buffer, C, outdex, L)) = L

LEMMA LiveRing ==
    ASSUME RingInv, Live
    PROVE  \E C \in Nat \ {0}, L \in Nat : HoldsBytes(C, L)
<1>1. PICK C \in Nat \ {0} : C = capacity /\ Wrap % C = 0 /\ C < Wrap
  BY DEF Live, RingInv
<1>2. /\ get_length \in 0 .. Wrap - 1 /\ LengthIs(Wrap, index, outdex, get_length)
      /\ get_length <= C
      /\ read_core(0, get_length) = Span(buffer, C, outdex, get_length)
  BY <1>1, RingHolds, Zenon
<1>3. PICK L \in Nat : L = get_length
  BY <1>2, WrapFacts
<1>4. L \in 0 .. C
  BY <1>2, <1>3
<1>5. buffer \in [0 .. C - 1 -> Nat] /\ index \in 0 .. Wrap - 1 /\ outdex \in 0 .. Wrap - 1
  BY <1>1, Zenon DEF RingInv
<1>6. outdex \in Nat
  BY <1>5, WrapFacts, IndexFacts
<1>7. IsSpan(Span(buffer, C, outdex, L), buffer, C, outdex, L)
  BY <1>5, <1>6, SpanFacts
<1>8. Len(Span(buffer, C, outdex, L)) = L
  BY <1>7 DEF IsSpan
<1> QED
  BY <1>1, <1>2, <1>3, <1>4, <1>5, <1>6, <1>8, WrapFacts, Zenon DEF HoldsBytes

LEMMA CancelImplements ==
    ASSUME RingInv, NEW n \in Args, WriteCancel(n)
    PROVE  RingInv' /\ Fifo!TakeBack(n)
<1>1. n \in Nat /\ Live
  BY RingAssumption DEF WriteCancel
<1>2. PICK C \in Nat \ {0}, L \in Nat : HoldsBytes(C, L)
  BY <1>1, LiveRing, Zenon
<1>3. UNCHANGED <<buffer, capacity, outdex>>
  BY DEF WriteCancel
<1>4. CASE n <= L
  <2>1. index' = (index - n) % Wrap /\ out' = <<n>>
    BY <1>1, <1>2, <1>4 DEF WriteCancel, HoldsBytes
  <2>2. LengthIs(Wrap, index', outdex', L - n)
    <3>1. LengthIs(Wrap, (index - n) % Wrap, outdex, L - n)
      BY <1>1, <1>2, <1>4, LengthMoves DEF HoldsBytes
    <3> QED
      BY <1>3, <2>1, <3>1
  <2>3. index' \in 0 .. Wrap - 1
    <3>1. index - n \in Int
      BY <1>1, <1>2 DEF HoldsBytes
    <3> QED
      BY <1>2, <2>1, <3>1, Remainder DEF HoldsBytes
  <2>4. L - n \in 0 .. C /\ 0 \in 0 .. L /\ L - n \in 0 .. L
    BY <1>1, <1>2, <1>4 DEF HoldsBytes
  <2>5. RingInv' /\ read_core(0, get_length)' = Span(buffer, C, outdex, L - n)
    BY <1>2, <1>3, <2>2, <2>3, <2>4, RingHoldsNext DEF HoldsBytes
  <2>6. SubSeq(Span(buffer, C, outdex, L), 0 + 1, L - n) = Span(buffer, C, outdex + 0, L - n - 0)
    <3>1. IsCut(buffer, C, outdex, L, 0, L - n)
      BY <1>2, <2>4, SpanCut DEF HoldsBytes
    <3> QED
      BY <3>1 DEF IsCut
  <2>7. outdex + 0 = outdex /\ L - n - 0 = L - n /\ 0 + 1 = 1
    BY <1>1, <1>2 DEF HoldsBytes
  <2> QED
    BY <1>2, <1>3, <1>4, <2>1, <2>5, <2>6, <2>7 DEF Fifo!TakeBack, HoldsBytes
<1>5. CASE ~(n <= L)
  <2>1. ~(get_length >= n)
    BY <1>1, <1>2, <1>5 DEF HoldsBytes
  <2>2. index' = index /\ out' = <<0>>
    BY <2>1 DEF WriteCancel
  <2>3. RingInv' /\ read_core(0, get_length)' = Span(buffer, C, outdex, L)
    BY <1>2, <1>3, <2>2, RingHoldsNext DEF HoldsBytes
  <2> QED
    BY <1>2, <1>3, <1>5, <2>2, <2>3 DEF Fifo!TakeBack, HoldsBytes
<1> QED
  BY <1>4, <1>5

\* consume_core of no more than the ring holds takes it from the front.
LEMMA FrontGone ==
    ASSUME RingInv, Live, NEW m \in Nat, m <= get_length, outdex' = (outdex + m) % Wrap,
           UNCHANGED <<buffer, capacity, index>>
    PROVE  /\ RingInv'
           /\ read_core(0, get_length)' = SubSeq(read_core(0, get_length), m + 1, get_length)
<1>2. PICK C \in Nat \ {0}, L \in Nat : HoldsBytes(C, L)
  BY LiveRing, Zenon
<1>3. m <= L /\ m \in 0 .. L /\ L \in m .. L /\ L - m \in 0 .. C /\ L - m \in Nat
  BY <1>2 DEF HoldsBytes
<1>4. PICK x \in -Wrap .. 2 * Wrap - 1 : x = outdex + m
  <2>1. outdex + m \in -Wrap .. 2 * Wrap - 1
    BY <1>2, <1>3 DEF HoldsBytes
  <2> QED
    BY <2>1
<1>5. LengthIs(Wrap, index', outdex', L - m)
  <2>1. LengthIs(Wrap, index, (outdex + m) % Wrap, L - m)
    BY <1>2, <1>3, LengthMoves DEF HoldsBytes
  <2> QED
    BY <2>1
<1>6. outdex' \in 0 .. Wrap - 1
  <2>1. x \in Int
    BY <1>2 DEF HoldsBytes
  <2> QED
    BY <1>2, <1>4, <2>1, Remainder DEF HoldsBytes
<1>7. RingInv' /\ read_core(0, get_length)' = Span(buffer, C, outdex', L - m)
  BY <1>2, <1>3, <1>5, <1>6, RingHoldsNext DEF HoldsBytes
<1>8. Span(buffer, C, x % Wrap, L - m) = Span(buffer, C, x, L - m)
  BY <1>2, <1>3, SpanWrap DEF HoldsBytes
<1>9. IsCut(buffer, C, outdex, L, m, L)
  BY <1>2, <1>3, SpanCut DEF HoldsBytes
<1> QED
  BY <1>2, <1>4, <1>7, <1>8, <1>9, Zenon DEF IsCut, HoldsBytes

LEMMA ConsumeImplements ==
    ASSUME RingInv, NEW n \in Args, Consume(n)
    PROVE  RingInv' /\ Fifo!Drop(n)
<1>1. n \in Nat /\ Live /\ UNCHANGED <<buffer, capacity, index>>
  BY RingAssumption DEF Consume
<1>2. PICK C \in Nat \ {0}, L \in Nat : HoldsBytes(C, L)
  BY <1>1, LiveRing, Zenon
<1>3. CASE n <= L
  <2>1. outdex' = (outdex + n) % Wrap /\ out' = <<1>>
    BY <1>1, <1>2, <1>3 DEF Consume, consume_core, HoldsBytes
  <2>2. RingInv' /\ read_core(0, get_length)' = SubSeq(read_core(0, get_length), n + 1, get_length)
    BY <1>1, <1>2, <1>3, <2>1, FrontGone DEF HoldsBytes
  <2> QED
    BY <1>1, <1>2, <1>3, <2>1, <2>2 DEF Fifo!Drop, HoldsBytes
<1>4. CASE ~(n <= L)
  <2>1. outdex' = outdex /\ out' = <<0>>
    BY <1>1, <1>2, <1>4 DEF Consume, consume_core, HoldsBytes
  <2>2. RingInv' /\ read_core(0, get_length)' = Span(buffer, C, outdex, L)
    BY <1>1, <1>2, <2>1, RingHoldsNext DEF HoldsBytes
  <2> QED
    BY <1>1, <1>2, <1>4, <2>1, <2>2 DEF Fifo!Drop, HoldsBytes
<1> QED
  BY <1>3, <1>4

\* What ByteFifo calls a part of the queue is a span of the ring.
PartIs(buf, C, o, L, offset, n) ==
    SubSeq(Span(buf, C, o, L), offset + 1, IF offset + n <= L THEN offset + n ELSE L)
      = Span(buf, C, o + offset, Given(L, offset, n))

LEMMA PartOfRing ==
    ASSUME NEW C \in Nat \ {0}, NEW buf \in [0 .. C - 1 -> Nat], NEW o \in Nat, NEW L \in 0 .. C,
           NEW offset \in Nat, NEW n \in Nat
    PROVE  PartIs(buf, C, o, L, offset, n)
<1>1. PICK b \in Nat : b = IF offset + n <= L THEN offset + n ELSE L
  OBVIOUS
<1>2. CASE offset >= L
  <2>1. b < offset + 1 /\ offset + 1 \in Int /\ b \in Int
    BY <1>1, <1>2
  <2>2. SubSeq(Span(buf, C, o, L), offset + 1, b) = <<>>
    BY <2>1, SubSeqEmpty
  <2>3. Given(L, offset, n) = 0
    BY <1>2 DEF Given
  <2>4. Span(buf, C, o + offset, 0) = <<>>
    BY DEF Span
  <2> QED
    BY <1>1, <2>2, <2>3, <2>4, Zenon DEF PartIs
<1>3. CASE offset < L
  <2>1. offset \in 0 .. L /\ b \in offset .. L /\ b - offset = Given(L, offset, n)
    BY <1>1, <1>3 DEF Given, Lesser
  <2>2. L \in Nat /\ o \in Int
    OBVIOUS
  <2>3. IsCut(buf, C, o, L, offset, b)
    BY <2>1, <2>2, SpanCut
  <2> QED
    BY <1>1, <2>1, <2>3, Zenon DEF PartIs, IsCut
<1> QED
  BY <1>2, <1>3

\* What a read finds, as ByteFifo sees it.
LEMMA ReadPart ==
    ASSUME RingInv, Live, NEW offset \in Nat, NEW n \in Nat
    PROVE  /\ read_core(offset, n) = Fifo!Part(offset, n)
           /\ Len(read_core(offset, n)) = Given(get_length, offset, n)
           /\ Given(get_length, offset, n) = 0 => read_core(offset, n) = <<>>
<1>2. PICK C \in Nat \ {0}, L \in Nat : HoldsBytes(C, L)
  BY LiveRing, Zenon
<1>3. read_core(offset, n) = RingRead(buffer, C, outdex, L, offset, n)
  BY <1>2 DEF read_core, RingRead, get_pointer, Contiguous, HoldsBytes
<1>4. ReadGives(buffer, C, outdex, L, offset, n)
  BY <1>2, RingReadIs DEF HoldsBytes
<1>5. PartIs(buffer, C, outdex, L, offset, n)
  BY <1>2, PartOfRing DEF HoldsBytes
<1>6. read_core(offset, n) = Fifo!Part(offset, n)
  BY <1>2, <1>3, <1>4, <1>5, Zenon DEF ReadGives, PartIs, Fifo!Part, HoldsBytes
<1>7. Given(L, offset, n) \in Nat /\ outdex + offset \in Int
  BY <1>2 DEF Given, Lesser, HoldsBytes
<1>8. IsSpan(Span(buffer, C, outdex + offset, Given(L, offset, n)), buffer, C, outdex + offset,
             Given(L, offset, n))
  BY <1>2, <1>7, SpanFacts DEF HoldsBytes
<1>9. Given(L, offset, n) = 0 => Span(buffer, C, outdex + offset, Given(L, offset, n)) = <<>>
  BY DEF Span
<1> QED
  BY <1>2, <1>3, <1>4, <1>6, <1>8, <1>9, Zenon DEF ReadGives, IsSpan, HoldsBytes

LEMMA RingFrame ==
    ASSUME RingInv, UNCHANGED <<buffer, capacity, index, outdex>>
    PROVE  RingInv' /\ read_core(0, get_length)' = read_core(0, get_length)
<1>1. get_length' = get_length
  BY DEF get_length
<1>2. RingInv'
  BY <1>1 DEF RingInv, Live
<1> QED
  BY <1>1, <1>2 DEF read_core, get_pointer, Contiguous

LEMMA ReadImplements ==
    ASSUME RingInv, NEW offset \in Args, NEW n \in Args, Read(offset, n)
    PROVE  RingInv' /\ Fifo!Get(offset, n)
<1>1. offset \in Nat /\ n \in Nat /\ Live /\ UNCHANGED <<buffer, capacity, index>>
  BY RingAssumption DEF Read
<1>2. PICK C \in Nat \ {0}, L \in Nat : HoldsBytes(C, L)
  BY <1>1, LiveRing, Zenon
<1>3. PICK G \in Nat : G = Given(L, offset, n) /\ (G > 0 => G + offset <= L)
  <2>1. /\ Given(L, offset, n) \in Nat
        /\ Given(L, offset, n) > 0 => Given(L, offset, n) + offset <= L
    BY <1>1 DEF Given, Lesser
  <2> QED
    BY <2>1
<1>4. PICK got : /\ got = read_core(offset, n) /\ got = Fifo!Part(offset, n) /\ Len(got) = G
                 /\ G = 0 => got = <<>>
  BY <1>1, <1>2, <1>3, ReadPart, Zenon DEF HoldsBytes
<1>5. out' = got
  BY <1>4 DEF Read
<1>6. CASE G = 0
  <2>1. UNCHANGED outdex
    BY <1>4, <1>6 DEF Read
  <2>2. RingInv' /\ read_core(0, get_length)' = read_core(0, get_length)
    BY <1>1, <2>1, RingFrame
  <2> QED
    BY <1>1, <1>4, <1>5, <1>6, <2>2, Zenon DEF Fifo!Get
<1>7. CASE G > 0
  <2>1. consume_core(G + offset)
    BY <1>4, <1>7 DEF Read
  <2>2. PICK m \in Nat : m = G + offset /\ m <= L
    BY <1>1, <1>3, <1>7
  <2>3. outdex' = (outdex + m) % Wrap /\ m <= get_length
    <3>1. ~(get_length < m) /\ m <= get_length
      BY <1>2, <2>2 DEF HoldsBytes
    <3> QED
      BY <2>1, <2>2, <3>1, Zenon DEF consume_core
  <2>4. /\ RingInv'
        /\ read_core(0, get_length)' = SubSeq(read_core(0, get_length), m + 1, get_length)
    BY <1>1, <2>2, <2>3, FrontGone
  <2>5. got # <<>>
    BY <1>4, <1>7
  <2>6. m + 1 = offset + Len(got) + 1
    BY <1>1, <1>3, <1>4, <2>2
  <2> QED
    BY <1>1, <1>2, <1>4, <1>5, <2>4, <2>5, <2>6, Zenon DEF Fifo!Get, HoldsBytes
<1> QED
  BY <1>3, <1>6, <1>7

LEMMA PeekImplements ==
    ASSUME RingInv, NEW offset \in Args, NEW n \in Args, Peek(offset, n)
    PROVE  RingInv' /\ \E m \in 0 .. Len(read_core(0, get_length)) : Fifo!Look(offset, m)
<1>1. offset \in Nat /\ n \in Nat /\ Live /\ UNCHANGED <<buffer, capacity, index, outdex>>
  BY RingAssumption DEF Peek
<1>2. PICK C \in Nat \ {0}, L \in Nat : HoldsBytes(C, L)
  BY <1>1, LiveRing, Zenon
<1>3. RingInv' /\ read_core(0, get_length)' = read_core(0, get_length)
  BY <1>1, RingFrame
<1>4. PICK m \in Nat : m = Lesser(n, L) /\ m \in 0 .. L /\ Given(L, offset, n) = Given(L, offset, m)
  <2>1. Lesser(n, L) \in 0 .. L /\ Given(L, offset, n) = Given(L, offset, Lesser(n, L))
    BY <1>1 DEF Given, Lesser
  <2>2. Lesser(n, L) \in Nat
    BY <2>1
  <2> QED
    BY <2>1, <2>2, Zenon
<1>5. read_core(offset, m) = read_core(offset, n)
  <2>1. /\ read_core(offset, n) = RingRead(buffer, C, outdex, L, offset, n)
        /\ read_core(offset, m) = RingRead(buffer, C, outdex, L, offset, m)
    BY <1>2 DEF read_core, RingRead, get_pointer, Contiguous, HoldsBytes
  <2>2. ReadGives(buffer, C, outdex, L, offset, n)
    BY <1>1, <1>2, RingReadIs DEF HoldsBytes
  <2>3. ReadGives(buffer, C, outdex, L, offset, m)
    BY <1>1, <1>2, RingReadIs DEF HoldsBytes
  <2> QED
    BY <1>4, <2>1, <2>2, <2>3, Zenon DEF ReadGives
<1>6. read_core(offset, m) = Fifo!Part(offset, m)
  BY <1>1, <1>4, ReadPart
<1>7. out' = Fifo!Part(offset, m)
  BY <1>5, <1>6 DEF Peek
<1>8. Fifo!Look(offset, m)
  BY <1>1, <1>3, <1>7 DEF Fifo!Look
<1> QED
  BY <1>2, <1>3, <1>4, <1>8 DEF HoldsBytes

LEMMA PeekPointerImplements ==
    ASSUME RingInv, NEW offset \in Args, PeekPointer(offset)
    PROVE  RingInv' /\ \E m \in 0 .. Len(read_core(0, get_length)) : Fifo!Look(offset, m)
<1>1. offset \in Nat /\ Live /\ UNCHANGED <<buffer, capacity, index, outdex>>
  BY RingAssumption DEF PeekPointer
<1>2. PICK C \in Nat \ {0}, L \in Nat : HoldsBytes(C, L)
  BY <1>1, LiveRing, Zenon
<1>3. RingInv' /\ read_core(0, get_length)' = read_core(0, get_length)
  BY <1>1, RingFrame
<1>4. offset < L /\ get_pointer(offset) = (outdex + offset) % C
      /\ Contiguous(offset) = C - get_pointer(offset)
  BY <1>1, <1>2 DEF PeekPointer, get_pointer, Contiguous, HoldsBytes
<1>5. PICK p \in 0 .. C - 1 : p = get_pointer(offset)
  <2>1. outdex + offset \in Int
    BY <1>1, <1>2 DEF HoldsBytes
  <2>2. (outdex + offset) % C \in 0 .. C - 1
    BY <2>1, Remainder
  <2> QED
    BY <1>4, <2>2, Zenon
<1>6. PICK m \in Nat : m = Lesser(C - p, L - offset) /\ m \in 0 .. L
                     /\ Lesser(L - offset, m) = m /\ Lesser(m, C - p) = m
  <2>1. PICK d \in Nat, e \in Nat : d = C - p /\ e = L - offset /\ e <= L
    BY <1>1, <1>4, <1>5
  <2>2. Lesser(d, e) \in Nat /\ Lesser(d, e) \in 0 .. L
        /\ Lesser(e, Lesser(d, e)) = Lesser(d, e) /\ Lesser(Lesser(d, e), d) = Lesser(d, e)
    BY <2>1 DEF Lesser
  <2> QED
    BY <2>1, <2>2, Zenon
<1>7. out' = [k \in 1 .. m |-> buffer[p + k - 1]]
  BY <1>2, <1>4, <1>5, <1>6, Zenon DEF PeekPointer, HoldsBytes
<1>8. read_core(offset, m)
        = [k \in 1 .. m |-> IF k <= m THEN buffer[p + k - 1] ELSE buffer[k - m - 1]]
  <2>1. p # -1
    BY <1>5
  <2> QED
    BY <1>2, <1>4, <1>5, <1>6, <2>1, Zenon DEF read_core, HoldsBytes
<1>9. out' = read_core(offset, m)
  BY <1>7, <1>8
<1>10. read_core(offset, m) = Fifo!Part(offset, m)
  BY <1>1, <1>6, ReadPart
<1>11. Fifo!Look(offset, m)
  BY <1>1, <1>3, <1>9, <1>10 DEF Fifo!Look
<1> QED
  BY <1>2, <1>3, <1>6, <1>11 DEF HoldsBytes

\* What RingAssumption says of a size asked for.
LEMMA RoundedSize ==
    ASSUME NEW size \in 1 .. MaxSize
    PROVE  \E n \in Nat \ {0} : /\ n = roundup_pow2(size) /\ n >= size /\ n < Wrap /\ Wrap % n = 0
                               /\ 2 ^ (flsl(n) - 1) = n
<1>1. /\ roundup_pow2(size) \in size .. Wrap - 1 /\ Wrap % roundup_pow2(size) = 0
      /\ 2 ^ (flsl(roundup_pow2(size)) - 1) = roundup_pow2(size)
  BY RingAssumption, Zenon
<1>2. size \in Nat \ {0} /\ Wrap \in Nat \ {0}
  BY RingAssumption
<1>3. PICK n : n = roundup_pow2(size)
  OBVIOUS
<1>4. n \in size .. Wrap - 1 /\ Wrap % n = 0 /\ 2 ^ (flsl(n) - 1) = n
  BY <1>1, <1>3, Zenon
<1>5. n \in Nat \ {0} /\ n >= size /\ n < Wrap
  <2>1. n \in size .. Wrap - 1
    BY <1>4
  <2> QED
    BY <1>2, <2>1
<1> QED
  BY <1>3, <1>4, <1>5, Zenon

LEMMA InitializeOpens ==
    ASSUME RingInv, ~Live, NEW n \in Nat \ {0}, n < Wrap, Wrap % n = 0, 2 ^ (flsl(n) - 1) = n,
           initialize(n), UNCHANGED out
    PROVE  RingInv' /\ Fifo!Open
<1>1. capacity' = n /\ index' = 0 /\ outdex' = 0 /\ buffer' = Empty(n)
  BY Zenon DEF initialize
<1>2. buffer' \in [0 .. n - 1 -> Nat]
  BY <1>1 DEF Empty
<1>3. 0 \in 0 .. Wrap - 1 /\ LengthIs(Wrap, 0, 0, 0) /\ 0 \in 0 .. n
  BY WrapFacts DEF LengthIs
<1>4. RingInv' /\ read_core(0, get_length)' = Span(buffer', n, 0, 0)
  BY <1>1, <1>2, <1>3, RingHoldsNext
<1>5. Span(buffer', n, 0, 0) = <<>>
  BY DEF Span
<1>6. read_core(0, get_length) = <<>> /\ capacity = 0
  BY RingHolds DEF RingInv, Live
<1> QED
  BY <1>1, <1>4, <1>5, <1>6 DEF Fifo!Open

LEMMA SmallRemainder == \A W \in Nat \ {0} : \A x \in 0 .. W - 1 : x % W = x
  OBVIOUS

LEMMA ResizeImplements ==
    ASSUME RingInv, NEW size \in 1 .. MaxSize, ResizeTo(size)
    PROVE  RingInv' /\ Fifo!Resize
<1>1. Live /\ UNCHANGED out
  BY DEF ResizeTo
<1>2. PICK C \in Nat \ {0}, L \in Nat : HoldsBytes(C, L)
  BY <1>1, LiveRing, Zenon
<1>3. PICK n \in Nat \ {0} : n = roundup_pow2(size) /\ n < Wrap /\ Wrap % n = 0
  BY RoundedSize
<1>4. PICK q \in Seq(Nat) : q = read_core(0, get_length) /\ Len(q) = L
  <2>1. IsSpan(Span(buffer, C, outdex, L), buffer, C, outdex, L)
    BY <1>2, SpanFacts DEF HoldsBytes
  <2>2. Span(buffer, C, outdex, L) \in Seq(Nat)
    BY <2>1 DEF IsSpan
  <2> QED
    BY <1>2, <2>2, Zenon DEF HoldsBytes
<1>5. /\ buffer' = [p \in 0 .. n - 1 |-> IF p < L THEN q[p + 1] ELSE 0]
      /\ capacity' = n /\ index' = L /\ outdex' = 0 /\ n >= L
  BY <1>2, <1>3, <1>4, Zenon DEF ResizeTo, HoldsBytes
<1>6. PICK new \in [0 .. n - 1 -> Nat] : new = buffer' /\ \A k \in 1 .. L : new[k - 1] = q[k]
  <2>1. ASSUME NEW p \in 0 .. n - 1 PROVE (IF p < L THEN q[p + 1] ELSE 0) \in Nat
    <3>1. CASE p < L
      <4>1. p + 1 \in 1 .. Len(q)
        BY <1>4, <2>1, <3>1
      <4>2. q[p + 1] \in Nat
        BY <4>1, ElementOfSeq
      <4> QED
        BY <3>1, <4>2
    <3>2. CASE ~(p < L)
      BY <3>2
    <3> QED
      BY <3>1, <3>2
  <2>2. buffer' \in [0 .. n - 1 -> Nat]
    BY <1>5, <2>1
  <2>3. ASSUME NEW k \in 1 .. L PROVE buffer'[k - 1] = q[k]
    <3>1. k - 1 \in 0 .. n - 1 /\ k - 1 < L /\ (k - 1) + 1 = k
      BY <1>5, <2>3
    <3> QED
      BY <1>5, <3>1
  <2> QED
    BY <2>2, <2>3, Zenon
<1>7. LengthIs(Wrap, L, 0, L)
  <2>1. L - 0 = L /\ L % Wrap = L
    BY <1>2, SmallRemainder DEF HoldsBytes
  <2> QED
    BY <2>1 DEF LengthIs
<1>8. 0 \in 0 .. Wrap - 1 /\ L \in 0 .. n
  BY <1>2, <1>5 DEF HoldsBytes
<1>9. RingInv' /\ read_core(0, get_length)' = Span(new, n, 0, L)
  BY <1>2, <1>3, <1>5, <1>6, <1>7, <1>8, RingHoldsNext DEF HoldsBytes
<1>10. ASSUME NEW k \in 1 .. L PROVE q[k] = new[(0 + k - 1) % n]
  <2>0. 0 + k - 1 = k - 1 /\ k - 1 \in 0 .. n - 1
    BY <1>5, <1>10
  <2>1. (0 + k - 1) % n = k - 1
    BY <2>0, SmallRemainder
  <2> QED
    BY <1>6, <1>10, <2>1
<1>11. IsSpan(q, new, n, 0, L)
  BY <1>4, <1>10 DEF IsSpan
<1>12. IsSpan(Span(new, n, 0, L), new, n, 0, L)
  <2>1. 0 \in Int
    OBVIOUS
  <2> QED
    BY <2>1, SpanFacts
<1>13. q = Span(new, n, 0, L)
  BY <1>11, <1>12, SpanUnique
<1> QED
  BY <1>1, <1>4, <1>5, <1>9, <1>13 DEF Fifo!Resize

LEMMA DestroyImplements == ASSUME RingInv, Destroy PROVE RingInv' /\ Fifo!Close
<1>1. capacity' = 0 /\ index' = 0 /\ outdex' = 0 /\ buffer' = Empty(0) /\ out' = <<>>
  BY DEF Destroy
<1>2. get_length' = 0
  BY <1>1, WrapFacts DEF get_length
<1>3. read_core(0, get_length)' = <<>>
  BY <1>2 DEF read_core, get_pointer
<1>4. RingInv'
  BY <1>1, <1>2, WrapFacts DEF RingInv, Live, Empty
<1> QED
  BY <1>1, <1>3, <1>4 DEF Fifo!Close

LEMMA RingInitImplements == RingInit => RingInv /\ Fifo!Init
<1> SUFFICES ASSUME RingInit PROVE RingInv /\ Fifo!Init
  OBVIOUS
<1>1. get_length = 0
  BY WrapFacts DEF get_length, RingInit
<1>2. read_core(0, get_length) = <<>>
  BY <1>1 DEF read_core, get_pointer
<1>3. RingInv
  BY <1>1, WrapFacts DEF RingInv, RingInit, Live, Empty
<1> QED
  BY <1>2, <1>3 DEF Fifo!Init, RingInit

\* One step of the ring is one step of the queue.
LEMMA RingStep == RingInv /\ [RingNext]_ringVars => RingInv' /\ [Fifo!Next]_(Fifo!fvars)
<1> SUFFICES ASSUME RingInv, [RingNext]_ringVars PROVE RingInv' /\ [Fifo!Next]_(Fifo!fvars)
  OBVIOUS
<1>1. ASSUME NEW size \in 1 .. MaxSize, Create(size) PROVE RingInv' /\ Fifo!Next
  <2>1. PICK n \in Nat \ {0} : /\ n = roundup_pow2(size) /\ n < Wrap /\ Wrap % n = 0
                              /\ 2 ^ (flsl(n) - 1) = n
    BY RoundedSize
  <2>2. ~Live /\ initialize(n) /\ UNCHANGED out
    BY <1>1, <2>1, Zenon DEF Create
  <2> QED
    BY <2>1, <2>2, InitializeOpens DEF Fifo!Next
<1>2. ASSUME NEW size \in 1 .. MaxSize, CreateStatic(size) PROVE RingInv' /\ Fifo!Next
  <2>1. PICK n \in Nat \ {0} : /\ n = roundup_pow2(size) /\ n >= size /\ n < Wrap /\ Wrap % n = 0
                              /\ 2 ^ (flsl(n) - 1) = n
    BY RoundedSize
  <2>2. n <= size
    BY <1>2, <2>1 DEF CreateStatic
  <2>3. n = size
    BY <2>1, <2>2
  <2>4. ~Live /\ initialize(n) /\ UNCHANGED out
    BY <1>2, <2>3, Zenon DEF CreateStatic
  <2> QED
    BY <2>1, <2>4, InitializeOpens DEF Fifo!Next
<1>3. ASSUME NEW size \in 1 .. MaxSize, ResizeTo(size) PROVE RingInv' /\ Fifo!Next
  BY <1>3, ResizeImplements, Zenon DEF Fifo!Next
<1>4. CASE Destroy
  BY <1>4, DestroyImplements, Zenon DEF Fifo!Next
<1>5. ASSUME NEW data \in Inputs, Write(data) PROVE RingInv' /\ Fifo!Next
  BY <1>5, WriteImplements, Zenon DEF Fifo!Next
<1>6. ASSUME NEW n \in Args, WriteCancel(n) PROVE RingInv' /\ Fifo!Next
  BY <1>6, CancelImplements, Zenon DEF Fifo!Next
<1>7. ASSUME NEW n \in Args, Consume(n) PROVE RingInv' /\ Fifo!Next
  BY <1>7, ConsumeImplements, Zenon DEF Fifo!Next
<1>8. ASSUME NEW n \in Args, PeekPointer(n) PROVE RingInv' /\ Fifo!Next
  BY <1>8, PeekPointerImplements, Zenon DEF Fifo!Next
<1>9. ASSUME NEW offset \in Args, NEW n \in Args, Peek(offset, n) PROVE RingInv' /\ Fifo!Next
  BY <1>9, PeekImplements, Zenon DEF Fifo!Next
<1>10. ASSUME NEW offset \in Args, NEW n \in Args, Read(offset, n) PROVE RingInv' /\ Fifo!Next
  BY <1>10, ReadImplements, Zenon DEF Fifo!Next
<1>11. CASE UNCHANGED ringVars
  <2>1. RingInv' /\ read_core(0, get_length)' = read_core(0, get_length)
    BY <1>11, RingFrame DEF ringVars
  <2> QED
    BY <1>11, <2>1 DEF ringVars, Fifo!fvars
<1> QED
  BY <1>1, <1>2, <1>3, <1>4, <1>5, <1>6, <1>7, <1>8, <1>9, <1>10, <1>11, Zenon DEF RingNext

\* Whatever calls are made, with data that wraps around the end of the buffer
\* and indices that wrap around size_t, ringbuf.c is a queue of bytes: for every
\* buffer size, input and offset.
THEOREM RingIsFifo == RingSpec => RingImplementsFifo
  BY RingInitImplements, RingStep, PTL DEF RingSpec, RingImplementsFifo, Fifo!Spec

(***************************************************************************)
(* Msgq: MsgqExact, for rings of any capacity, messages of any sizes and   *)
(* any number of pushing threads, with the lock and without.  Distances    *)
(* are counted from outdex and places kept as indices: a pop then moves no *)
(* byte, and a push into the free part of the ring disturbs none.          *)
(***************************************************************************)
\* The numbers of the queue.
LEMMA QueueNumbers ==
    /\ QueueCap \in Nat \ {0} /\ QueueRange \in Nat \ {0} /\ QueueRange % QueueCap = 0
    /\ QueueCap < QueueRange /\ MetaSize \in Nat \ {0}
  BY MsgqAssumption

LEMMA LengthType == \A i, o \in Indices : Length(i, o) \in 0 .. QueueRange - 1
<1> SUFFICES ASSUME NEW i \in Indices, NEW o \in Indices
             PROVE  Length(i, o) \in 0 .. QueueRange - 1
  OBVIOUS
<1>1. PICK x \in Int : x = i - o
  BY QueueNumbers DEF Indices
<1> QED
  BY <1>1, Remainder, QueueNumbers DEF Length

LEMMA AdvanceType == \A i \in Indices, n \in Int : Advance(i, n) \in Indices
<1> SUFFICES ASSUME NEW i \in Indices, NEW n \in Int PROVE Advance(i, n) \in Indices
  OBVIOUS
<1>1. PICK x \in Int : x = i + n
  BY QueueNumbers DEF Indices
<1> QED
  BY <1>1, Remainder, QueueNumbers DEF Advance, Indices

\* How publishing, cancelling and consuming n bytes moves a distance.
LEMMA Distances ==
    ASSUME NEW i \in Indices, NEW o \in Indices, NEW n \in Nat
    PROVE  /\ Length(i, o) + n <= QueueCap => Length(Advance(i, n), o) = Length(i, o) + n
           /\ n <= Length(i, o) => Length(Advance(i, 0 - n), o) = Length(i, o) - n
           /\ n <= Length(i, o) => Length(i, Advance(o, n)) = Length(i, o) - n
<1>1. PICK len \in 0 .. QueueRange - 1 : len = Length(i, o)
  BY LengthType
<1>2. LengthIs(QueueRange, i, o, len)
  BY <1>1 DEF Length, LengthIs
<1>3. /\ len + n < QueueRange => LengthIs(QueueRange, (i + n) % QueueRange, o, len + n)
      /\ n <= len => LengthIs(QueueRange, (i - n) % QueueRange, o, len - n)
      /\ n <= len => LengthIs(QueueRange, i, (o + n) % QueueRange, len - n)
  BY <1>2, QueueNumbers, LengthMoves DEF Indices
<1>4. i + (0 - n) = i - n
  BY QueueNumbers DEF Indices
<1>5. len + n <= QueueCap => len + n < QueueRange
  BY QueueNumbers
<1> QED
  BY <1>1, <1>3, <1>4, <1>5 DEF Length, Advance, LengthIs

LEMMA SelfLength == \A o \in Indices : Length(o, o) = 0
<1> SUFFICES ASSUME NEW o \in Indices PROVE Length(o, o) = 0
  OBVIOUS
<1>1. o - o = 0
  BY QueueNumbers DEF Indices
<1>2. 0 % QueueRange = 0
  BY OneTurn, QueueNumbers
<1> QED
  BY <1>1, <1>2 DEF Length

\* An index is where its distance leads.
LEMMA Reaches == \A i, o \in Indices : Advance(o, Length(i, o)) = i
<1> SUFFICES ASSUME NEW i \in Indices, NEW o \in Indices PROVE Advance(o, Length(i, o)) = i
  OBVIOUS
<1>1. i - o \in -QueueRange .. 2 * QueueRange - 1
  BY QueueNumbers DEF Indices
<1>2. PICK x \in Int : x = i - o /\ x \in -QueueRange .. 2 * QueueRange - 1
  BY <1>1
<1>3. x % QueueRange = IF x < 0 THEN x + QueueRange ELSE IF x < QueueRange THEN x ELSE x - QueueRange
  BY <1>2, QueueNumbers, OneTurn
<1>4. PICK len \in 0 .. QueueRange - 1 : len = Length(i, o)
  BY LengthType
<1>5. len = IF x < 0 THEN x + QueueRange ELSE IF x < QueueRange THEN x ELSE x - QueueRange
  BY <1>2, <1>3, <1>4 DEF Length
<1>6. PICK y \in Int : y = o + len
  BY QueueNumbers DEF Indices
<1>7. y \in -QueueRange .. 2 * QueueRange - 1 /\ (y = i \/ y = i + QueueRange)
  BY <1>2, <1>5, <1>6, QueueNumbers DEF Indices
<1>8. y % QueueRange = IF y < 0 THEN y + QueueRange ELSE IF y < QueueRange THEN y ELSE y - QueueRange
  BY <1>7, QueueNumbers, OneTurn
<1>9. y % QueueRange = i
  BY <1>7, <1>8, QueueNumbers DEF Indices
<1> QED
  BY <1>4, <1>6, <1>9 DEF Advance

LEMMA ThereAndBack ==
    \A i \in Indices : \A n \in -QueueCap .. QueueCap : Advance(Advance(i, n), 0 - n) = i
<1> SUFFICES ASSUME NEW i \in Indices, NEW n \in -QueueCap .. QueueCap
             PROVE  Advance(Advance(i, n), 0 - n) = i
  OBVIOUS
<1>1. PICK x \in Int : x = i + n /\ x \in -QueueRange .. 2 * QueueRange - 1
  BY QueueNumbers DEF Indices
<1>2. x % QueueRange = IF x < 0 THEN x + QueueRange ELSE IF x < QueueRange THEN x ELSE x - QueueRange
  BY <1>1, QueueNumbers, OneTurn
<1>3. PICK j \in Indices : j = Advance(i, n)
  BY AdvanceType
<1>4. j = x % QueueRange
  BY <1>1, <1>3 DEF Advance
<1>5. PICK y \in Int : y = j + (0 - n)
  BY QueueNumbers DEF Indices
<1>5a. j = x \/ j = x - QueueRange \/ j = x + QueueRange
  BY <1>2, <1>4
<1>6. y \in -QueueRange .. 2 * QueueRange - 1 /\ (y = i \/ y = i - QueueRange \/ y = i + QueueRange)
  BY <1>1, <1>5a, <1>5, QueueNumbers DEF Indices
<1>7. y % QueueRange = IF y < 0 THEN y + QueueRange ELSE IF y < QueueRange THEN y ELSE y - QueueRange
  BY <1>6, QueueNumbers, OneTurn
<1>8. y % QueueRange = i
  BY <1>6, <1>7, QueueNumbers DEF Indices
<1> QED
  BY <1>3, <1>5, <1>8 DEF Advance

\* Wrapping an index moves no byte.
LEMMA HoldsWrapped ==
    ASSUME NEW buf, NEW i \in Indices, NEW n \in -QueueCap .. QueueCap, NEW bytes,
           Len(bytes) \in Nat
    PROVE  HoldsAt(buf, Advance(i, n), bytes) <=> HoldsAt(buf, i + n, bytes)
<1>1. i + n \in -QueueRange .. 2 * QueueRange - 1
  BY QueueNumbers DEF Indices
<1>2. ASSUME NEW k \in 1 .. Len(bytes)
      PROVE  (Advance(i, n) + k - 1) % QueueCap = (i + n + k - 1) % QueueCap
  <2>1. PICK x \in Int, j \in Int : x = i + n /\ j = k - 1 /\ x \in -QueueRange .. 2 * QueueRange - 1
    BY <1>1
  <2>2. SamePlace(QueueCap, QueueRange, x, j)
    BY <2>1, QueueNumbers, WrapMovesNothing
  <2>3. PICK a \in Int : a = Advance(i, n) /\ a = x % QueueRange
    <3>1. PICK a \in Indices : a = Advance(i, n)
      BY AdvanceType
    <3>2. a \in Int /\ a = x % QueueRange
      BY <3>1, <2>1, QueueNumbers DEF Advance, Indices
    <3> QED
      BY <3>1, <3>2
  <2>4. a + j = a + k - 1 /\ x + j = i + n + k - 1
    BY <2>1, QueueNumbers DEF Indices
  <2> QED
    BY <2>2, <2>3, <2>4 DEF SamePlace
<1> QED
  BY <1>2 DEF HoldsAt

\* The range of the indices is whole turns of the ring.
LEMMA RangeTurns ==
    ASSUME NEW z \in Int
    PROVE  /\ (z + QueueRange) % QueueCap = z % QueueCap
           /\ (z - QueueRange) % QueueCap = z % QueueCap
<1>1. PICK m \in Int : m = QueueRange
  BY QueueNumbers
<1>2. PICK q \in Int, r \in 0 .. QueueCap - 1 : m = q * QueueCap + r /\ m % QueueCap = r
  BY QueueNumbers, Divided
<1>3. r = 0
  BY <1>1, <1>2, QueueNumbers
<1>4. PICK p \in Int : p = 0 - q
  BY <1>2
<1>5. /\ (q * QueueCap + z) % QueueCap = z % QueueCap
      /\ (p * QueueCap + z) % QueueCap = z % QueueCap
  BY <1>4, QueueNumbers, WholeTurns
<1>6. q * QueueCap = m
  BY <1>2, <1>3, QueueNumbers
<1>7. p * QueueCap = 0 - m
  BY <1>4, <1>6, QueueNumbers
<1>8. q * QueueCap + z = z + QueueRange /\ p * QueueCap + z = z - QueueRange
  BY <1>1, <1>6, <1>7, QueueNumbers
<1> QED
  BY <1>5, <1>8

LEMMA PlaceMinus ==
    ASSUME NEW C \in Nat \ {0}, NEW x \in Int, NEW y \in Int
    PROVE  ((x % C) - y) % C = (x - y) % C
<1>1. PICK q \in Int, r \in 0 .. C - 1 : x = q * C + r /\ x % C = r
  BY Divided
<1>2. PICK p \in Int, z \in Int : p = 0 - q /\ z = x - y
  BY <1>1
<1>3. (p * C + z) % C = z % C
  BY WholeTurns
<1>4. p * C + z = r - y
  BY <1>1, <1>2
<1> QED
  BY <1>1, <1>2, <1>3, <1>4

\* Two indices differ as their distances from outdex do.
LEMMA SameDifference ==
    ASSUME NEW at \in Indices, NEW i \in Indices, NEW o \in Indices, NEW t \in Int
    PROVE  (at + t - i) % QueueCap = (Length(at, o) + t - Length(i, o)) % QueueCap
<1> DEFINE Turned(x, len) == len = x \/ len = x + QueueRange
<1>1. ASSUME NEW j \in Indices PROVE Turned(j - o, Length(j, o))
  <2>1. PICK x \in Int : x = j - o /\ x \in -QueueRange .. 2 * QueueRange - 1 /\ x < QueueRange
    BY QueueNumbers DEF Indices
  <2>2. x % QueueRange = IF x < 0 THEN x + QueueRange ELSE IF x < QueueRange THEN x ELSE x - QueueRange
    BY <2>1, QueueNumbers, OneTurn
  <2> QED
    BY <2>1, <2>2 DEF Length
<1>2. PICK a \in Int, len \in Int : a = Length(at, o) /\ len = Length(i, o)
  BY LengthType
<1>3. Turned(at - o, a) /\ Turned(i - o, len)
  BY <1>1, <1>2
<1>4. PICK z \in Int, y \in Int : z = a + t - len /\ y = at + t - i
  BY <1>2, QueueNumbers DEF Indices
<1>5. y = z \/ y = z + QueueRange \/ y = z - QueueRange
  BY <1>3, <1>4, QueueNumbers DEF Indices
<1> QED
  BY <1>2, <1>4, <1>5, RangeTurns

\* A copy puts its bytes where it starts.
LEMMA WritePuts ==
    ASSUME NEW buf, NEW i \in Indices, NEW data, Len(data) \in 0 .. QueueCap
    PROVE  HoldsAt(WriteBytes(buf, i, data), i, data)
<1> SUFFICES ASSUME NEW k \in 1 .. Len(data)
             PROVE  WriteBytes(buf, i, data)[(i + k - 1) % QueueCap] = data[k]
  BY DEF HoldsAt
<1>1. PICK x \in Int, y \in Int, j \in Int : x = i + k - 1 /\ y = i /\ j = k - 1 /\ x - y = j
  BY QueueNumbers DEF Indices
<1>2. PICK p \in 0 .. QueueCap - 1 : p = x % QueueCap
  BY Remainder, QueueNumbers
<1>3. (p - i) % QueueCap = j % QueueCap
  <2>1. ((x % QueueCap) - y) % QueueCap = (x - y) % QueueCap
    BY PlaceMinus, QueueNumbers
  <2> QED
    BY <1>1, <1>2, <2>1
<1>4. j \in 0 .. QueueCap - 1 /\ j \in -QueueCap .. 2 * QueueCap - 1
  BY <1>1, QueueNumbers
<1>5. j % QueueCap = j
  BY <1>4, SmallRemainder, QueueNumbers
<1>6. ((p - i) % QueueCap) + 1 = k
  BY <1>1, <1>3, <1>5
<1>7. p \in Positions
  BY <1>2 DEF Positions
<1>8. WriteBytes(buf, i, data)[p] = data[k]
  BY <1>6, <1>7 DEF WriteBytes
<1> QED
  BY <1>1, <1>2, <1>8

\* A copy into the free part of the ring leaves the used part alone.
LEMMA WriteKeeps ==
    ASSUME NEW buf, NEW i \in Indices, NEW o \in Indices, NEW at \in Indices, NEW t \in Nat,
           NEW data, Len(data) \in Nat, NEW bytes, Len(bytes) \in Nat,
           Length(at, o) + t + Len(bytes) <= Length(i, o),
           Length(i, o) + Len(data) <= QueueCap,
           HoldsAt(buf, at + t, bytes)
    PROVE  HoldsAt(WriteBytes(buf, i, data), at + t, bytes)
<1> SUFFICES ASSUME NEW k \in 1 .. Len(bytes)
             PROVE  WriteBytes(buf, i, data)[(at + t + k - 1) % QueueCap] = bytes[k]
  BY DEF HoldsAt
<1>1. PICK x \in Int, s \in Int : x = at + t + k - 1 /\ s = t + k - 1 /\ x = at + s
  BY QueueNumbers DEF Indices
<1>2. PICK p \in 0 .. QueueCap - 1 : p = x % QueueCap
  BY Remainder, QueueNumbers
<1>3. PICK y \in Int : y = i
  BY DEF Indices
<1>4. (p - i) % QueueCap = (at + s - i) % QueueCap
  <2>1. ((x % QueueCap) - y) % QueueCap = (x - y) % QueueCap
    BY PlaceMinus, QueueNumbers
  <2> QED
    BY <1>1, <1>2, <1>3, <2>1
<1>5. PICK a \in Nat, len \in Nat : a = Length(at, o) /\ len = Length(i, o)
  BY LengthType
<1>6. PICK z \in Int : z = a + s - len
  BY <1>1, <1>5
<1>7. (at + s - i) % QueueCap = z % QueueCap
  <2>1. (at + s - i) % QueueCap = (Length(at, o) + s - Length(i, o)) % QueueCap
    BY SameDifference
  <2> QED
    BY <1>5, <1>6, <2>1
<1>8. z \in -QueueCap .. 2 * QueueCap - 1 /\ z < 0 /\ z + QueueCap >= Len(data)
  <2>1. PICK n \in Nat, m \in Nat, C \in Nat : n = Len(data) /\ m = Len(bytes) /\ C = QueueCap
    BY QueueNumbers
  <2>2. a + t + m <= len /\ len + n <= C /\ s = t + k - 1 /\ k <= m /\ k >= 1
    BY <1>1, <1>5, <2>1
  <2>3. z >= 0 - C /\ z <= 2 * C - 1 /\ z < 0 /\ z + C >= n
    BY <1>6, <2>2
  <2> QED
    BY <2>1, <2>3
<1>9. z % QueueCap = z + QueueCap
  BY <1>8, OneTurn, QueueNumbers
<1>10. ~(((p - i) % QueueCap) + 1 <= Len(data))
  BY <1>4, <1>7, <1>8, <1>9, QueueNumbers
<1>11. p \in Positions
  BY <1>2 DEF Positions
<1>12. WriteBytes(buf, i, data)[p] = buf[p]
  BY <1>10, <1>11 DEF WriteBytes
<1>13. buf[(at + t + k - 1) % QueueCap] = bytes[k]
  BY DEF HoldsAt
<1> QED
  BY <1>1, <1>2, <1>12, <1>13

\* The messages in a ring: each starts where the one before it ends.
QueueMessage == [id : 0 .. QueueIds - 1, size : Nat, at : Indices]
EndOf(m, o) == Length(m.at, o) + MetaSize + m.size
EndIn(s, o) == IF s = <<>> THEN 0 ELSE EndOf(s[Len(s)], o)

Chained(s, o) ==
    /\ s # <<>> => Length(s[1].at, o) = 0
    /\ \A k \in 1 .. Len(s) : k > 1 => Length(s[k].at, o) = EndOf(s[k - 1], o)
    /\ \A j, k \in 1 .. Len(s) : j < k => EndOf(s[j], o) <= Length(s[k].at, o)

Intact(s, buf) ==
    \A k \in 1 .. Len(s) : /\ HoldsAt(buf, s[k].at, MetaBytes(s[k].size))
                           /\ HoldsAt(buf, s[k].at + MetaSize, DataBytes(s[k]))

LEMMA EndNumbers ==
    ASSUME NEW m \in QueueMessage, NEW o \in Indices
    PROVE  /\ m.at \in Indices /\ m.size \in Nat
           /\ Length(m.at, o) \in Nat /\ EndOf(m, o) \in Nat /\ Length(m.at, o) < EndOf(m, o)
<1>1. m.at \in Indices /\ m.size \in Nat
  BY DEF QueueMessage
<1>2. Length(m.at, o) \in Nat
  BY <1>1, LengthType
<1> QED
  BY <1>1, <1>2, QueueNumbers DEF EndOf

LEMMA EndInNumber ==
    ASSUME NEW s \in Seq(QueueMessage), NEW o \in Indices PROVE EndIn(s, o) \in Nat
<1>1. ASSUME s # <<>> PROVE s[Len(s)] \in QueueMessage
  BY <1>1
<1> QED
  BY <1>1, EndNumbers DEF EndIn

\* No message ends behind the last one.
LEMMA ChainBound ==
    ASSUME NEW s \in Seq(QueueMessage), NEW o \in Indices, Chained(s, o), NEW k \in 1 .. Len(s)
    PROVE  EndOf(s[k], o) <= EndIn(s, o)
<1>1. s # <<>> /\ Len(s) \in 1 .. Len(s) /\ s[k] \in QueueMessage /\ s[Len(s)] \in QueueMessage
  OBVIOUS
<1>2. /\ EndOf(s[k], o) \in Nat /\ EndOf(s[Len(s)], o) \in Nat /\ Length(s[Len(s)].at, o) \in Nat
      /\ Length(s[Len(s)].at, o) < EndOf(s[Len(s)], o)
  BY <1>1, EndNumbers
<1>3. EndIn(s, o) = EndOf(s[Len(s)], o)
  BY <1>1 DEF EndIn
<1>4. CASE k = Len(s)
  BY <1>2, <1>3, <1>4
<1>5. CASE k < Len(s)
  <2>1. EndOf(s[k], o) <= Length(s[Len(s)].at, o)
    BY <1>1, <1>5 DEF Chained
  <2> QED
    BY <1>2, <1>3, <2>1
<1> QED
  BY <1>4, <1>5

LEMMA ChainAppend ==
    ASSUME NEW s \in Seq(QueueMessage), NEW o \in Indices, Chained(s, o),
           NEW m \in QueueMessage, Length(m.at, o) = EndIn(s, o)
    PROVE  /\ Chained(Append(s, m), o)
           /\ EndIn(Append(s, m), o) = EndOf(m, o)
<1> DEFINE t == Append(s, m)
<1>1. /\ t \in Seq(QueueMessage) /\ Len(t) = Len(s) + 1 /\ t # <<>> /\ t[Len(t)] = m
      /\ \A k \in 1 .. Len(s) : t[k] = s[k]
  BY AppendProperties
<1> HIDE DEF t
<1>2. EndIn(t, o) = EndOf(m, o)
  BY <1>1 DEF EndIn
<1>3. Length(t[1].at, o) = 0
  <2>1. CASE s = <<>>
    BY <1>1, <2>1 DEF EndIn
  <2>2. CASE s # <<>>
    BY <1>1, <2>2 DEF Chained
  <2> QED
    BY <2>1, <2>2
<1>4. ASSUME NEW k \in 1 .. Len(t), k > 1 PROVE Length(t[k].at, o) = EndOf(t[k - 1], o)
  <2>1. CASE k = Len(t)
    <3>1. k - 1 = Len(s) /\ Len(s) \in 1 .. Len(s) /\ s # <<>>
      BY <1>1, <1>4, <2>1
    <3> QED
      BY <1>1, <2>1, <3>1 DEF EndIn
  <2>2. CASE k # Len(t)
    <3>1. k \in 1 .. Len(s) /\ k - 1 \in 1 .. Len(s)
      BY <1>1, <1>4, <2>2
    <3> QED
      BY <1>1, <1>4, <3>1 DEF Chained
  <2> QED
    BY <2>1, <2>2
<1>5. ASSUME NEW j \in 1 .. Len(t), NEW k \in 1 .. Len(t), j < k
      PROVE  EndOf(t[j], o) <= Length(t[k].at, o)
  <2>1. j \in 1 .. Len(s)
    BY <1>1, <1>5
  <2>2. CASE k = Len(t)
    BY <1>1, <2>1, <2>2, ChainBound
  <2>3. CASE k # Len(t)
    <3>1. k \in 1 .. Len(s)
      BY <1>1, <2>3
    <3> QED
      BY <1>1, <1>5, <2>1, <3>1 DEF Chained
  <2> QED
    BY <2>2, <2>3
<1> QED
  BY <1>2, <1>3, <1>4, <1>5 DEF Chained, t

LEMMA IntactAppend ==
    ASSUME NEW s \in Seq(QueueMessage), NEW buf, Intact(s, buf), NEW m \in QueueMessage,
           HoldsAt(buf, m.at, MetaBytes(m.size)), HoldsAt(buf, m.at + MetaSize, DataBytes(m))
    PROVE  Intact(Append(s, m), buf)
<1> DEFINE t == Append(s, m)
<1>1. /\ Len(t) = Len(s) + 1 /\ t[Len(t)] = m
      /\ \A k \in 1 .. Len(s) : t[k] = s[k]
  BY AppendProperties
<1> HIDE DEF t
<1>2. ASSUME NEW k \in 1 .. Len(t)
      PROVE  /\ HoldsAt(buf, t[k].at, MetaBytes(t[k].size))
             /\ HoldsAt(buf, t[k].at + MetaSize, DataBytes(t[k]))
  <2>1. CASE k = Len(t)
    BY <1>1, <2>1
  <2>2. CASE k # Len(t)
    <3>1. k \in 1 .. Len(s)
      BY <1>1, <2>2
    <3> QED
      BY <1>1, <3>1 DEF Intact
  <2> QED
    BY <2>1, <2>2
<1> QED
  BY <1>2 DEF Intact, t

\* The first message goes: the others move up by its length.
LEMMA ChainTail ==
    ASSUME NEW s \in Seq(QueueMessage), NEW o \in Indices, Chained(s, o), s # <<>>,
           NEW n \in Nat, n = EndOf(s[1], o)
    PROVE  /\ Tail(s) \in Seq(QueueMessage)
           /\ Chained(Tail(s), Advance(o, n))
           /\ EndIn(Tail(s), Advance(o, n)) = EndIn(s, o) - n
<1> DEFINE t == Tail(s)
           p == Advance(o, n)
<1>1. /\ t \in Seq(QueueMessage) /\ Len(t) = Len(s) - 1 /\ Len(s) \in Nat /\ Len(s) >= 1
      /\ \A k \in 1 .. Len(t) : t[k] = s[k + 1]
  OBVIOUS
<1>2. p \in Indices
  BY AdvanceType
<1> HIDE DEF t, p
<1>3. ASSUME NEW k \in 1 .. Len(t)
      PROVE  /\ Length(t[k].at, p) = Length(s[k + 1].at, o) - n
             /\ EndOf(t[k], p) = EndOf(s[k + 1], o) - n
             /\ EndOf(s[k + 1], o) \in Nat /\ Length(s[k + 1].at, o) \in Nat
  <2>1. 1 \in 1 .. Len(s) /\ k + 1 \in 1 .. Len(s) /\ 1 < k + 1
    BY <1>1
  <2>2. EndOf(s[1], o) <= Length(s[k + 1].at, o)
    BY <2>1 DEF Chained
  <2>3. PICK m \in QueueMessage : m = s[k + 1] /\ m = t[k]
    BY <1>1, <2>1
  <2>4. /\ m.at \in Indices /\ m.size \in Nat /\ Length(m.at, o) \in Nat /\ EndOf(m, o) \in Nat
    BY EndNumbers
  <2>5. Length(m.at, p) = Length(m.at, o) - n
    BY <2>2, <2>3, <2>4, Distances DEF p
  <2>6. EndOf(m, p) = EndOf(m, o) - n
    BY <2>4, <2>5, QueueNumbers DEF EndOf
  <2> QED
    BY <2>3, <2>4, <2>5, <2>6
<1>4. ASSUME t # <<>> PROVE Length(t[1].at, p) = 0
  <2>1. 1 \in 1 .. Len(t) /\ 2 \in 1 .. Len(s)
    BY <1>1, <1>4
  <2>2. Length(s[2].at, o) = EndOf(s[1], o)
    BY <2>1 DEF Chained
  <2>3. Length(t[1].at, p) = Length(s[2].at, o) - n
    BY <1>3, <2>1
  <2> QED
    BY <2>2, <2>3
<1>5. ASSUME NEW k \in 1 .. Len(t), k > 1 PROVE Length(t[k].at, p) = EndOf(t[k - 1], p)
  <2>1. k + 1 \in 1 .. Len(s) /\ k - 1 \in 1 .. Len(t) /\ k + 1 > 1 /\ (k + 1) - 1 = k /\ (k - 1) + 1 = k
    BY <1>1, <1>5
  <2>2. Length(s[k + 1].at, o) = EndOf(s[k], o)
    BY <2>1 DEF Chained
  <2>3. Length(t[k].at, p) = Length(s[k + 1].at, o) - n /\ EndOf(t[k - 1], p) = EndOf(s[k], o) - n
    BY <1>3, <2>1
  <2> QED
    BY <2>2, <2>3
<1>6. ASSUME NEW j \in 1 .. Len(t), NEW k \in 1 .. Len(t), j < k
      PROVE  EndOf(t[j], p) <= Length(t[k].at, p)
  <2>1. j + 1 \in 1 .. Len(s) /\ k + 1 \in 1 .. Len(s) /\ j + 1 < k + 1
    BY <1>1, <1>6
  <2>2. EndOf(s[j + 1], o) <= Length(s[k + 1].at, o)
    BY <2>1 DEF Chained
  <2>3. /\ Length(t[k].at, p) = Length(s[k + 1].at, o) - n /\ Length(s[k + 1].at, o) \in Nat
        /\ EndOf(t[j], p) = EndOf(s[j + 1], o) - n /\ EndOf(s[j + 1], o) \in Nat
    BY <1>3
  <2> QED
    BY <2>2, <2>3
<1>7. EndIn(t, p) = EndIn(s, o) - n
  <2>1. EndIn(s, o) = EndOf(s[Len(s)], o)
    BY DEF EndIn
  <2>2. CASE Len(s) = 1
    <3>1. t = <<>>
      BY <1>1, <2>2
    <3>2. EndIn(t, p) = 0
      BY <3>1 DEF EndIn
    <3> QED
      BY <2>1, <2>2, <3>2
  <2>3. CASE Len(s) # 1
    <3>1. t # <<>> /\ Len(t) \in 1 .. Len(t) /\ Len(t) + 1 = Len(s)
      BY <1>1, <2>3
    <3>2. EndIn(t, p) = EndOf(t[Len(t)], p)
      BY <3>1 DEF EndIn
    <3>3. EndOf(t[Len(t)], p) = EndOf(s[Len(s)], o) - n
      BY <1>3, <3>1
    <3> QED
      BY <2>1, <3>2, <3>3
  <2> QED
    BY <2>2, <2>3
<1> QED
  BY <1>1, <1>4, <1>5, <1>6, <1>7 DEF Chained, t, p

LEMMA IntactTail ==
    ASSUME NEW s \in Seq(QueueMessage), NEW buf, Intact(s, buf), s # <<>>
    PROVE  Intact(Tail(s), buf)
<1> DEFINE t == Tail(s)
<1>1. /\ Len(t) = Len(s) - 1 /\ Len(s) \in Nat /\ \A k \in 1 .. Len(t) : t[k] = s[k + 1]
  OBVIOUS
<1> HIDE DEF t
<1>2. \A k \in 1 .. Len(t) : k + 1 \in 1 .. Len(s)
  BY <1>1
<1> QED
  BY <1>1, <1>2 DEF Intact, t

-----------------------------------------------------------------------------
\* Where a push and a pop can be, and the inductive invariant.
MetaStages == {"writeMeta", "copyMeta", "endMeta"}
DataStages == {"writeData", "copyData", "endData"}
PushStages == {Idle, "room"} \cup MetaStages \cup DataStages
PopStages == {Idle, "lenMeta", "copyMeta", "lenData", "copyData", "eio", "consume"}

MsgqTypes ==
    /\ MsgqTypeOK
    /\ qPc \in [Threads -> PushStages \cup PopStages]
    /\ qPc[Consumer] \in PopStages /\ \A th \in Producers : qPc[th] \in PushStages
    /\ qAvail \in [Producers -> Nat]
    /\ qNextId \in 0 .. QueueIds - 1
    /\ qSent \in Seq(QueueMessage)

\* Inside a call a thread holds the lock, or is the only one of its kind.
OneAtATime ==
    \A th \in Threads : qPc[th] # Idle => IF qSync THEN qOwner = th ELSE th \in {First, Consumer}

\* What a push knows at each of its steps: there is room, and what it copied and
\* has not published stays where the index points to.
Writing(pc, m, avail, buf, i, len) ==
    /\ pc \in MetaStages => len + MetaSize + m.size <= QueueCap
    /\ pc \in {"copyMeta", "endMeta"} => avail >= MetaSize
    /\ pc = "endMeta" => HoldsAt(buf, i, MetaBytes(m.size))
    /\ pc \in DataStages => len + m.size <= QueueCap
    /\ pc \in {"copyData", "endData"} => avail >= m.size
    /\ pc = "endData" => HoldsAt(buf, i, DataBytes(m))

InWrite ==
    \A th \in Producers :
        Writing(qPc[th], qMsg[th], qAvail[th], qBuf, qIndex, Length(qIndex, qOutdex))

HalfOpen(pc, m) == pc \in DataStages /\ m.size # 0

\* The messages, and the size of one that is half written, fill the ring.
Stored ==
    /\ Length(qIndex, qOutdex) <= QueueCap
    /\ Chained(qSent, qOutdex) /\ Intact(qSent, qBuf)
    /\ \A th \in Producers : HalfOpen(qPc[th], qMsg[th]) =>
         /\ Length(qIndex, qOutdex) = EndIn(qSent, qOutdex) + MetaSize
         /\ HoldsAt(qBuf, Advance(qIndex, 0 - MetaSize), MetaBytes(qMsg[th].size))
    /\ (\A th \in Producers : ~HalfOpen(qPc[th], qMsg[th])) =>
         Length(qIndex, qOutdex) = EndIn(qSent, qOutdex)

\* The size a pop read is that of the oldest message, be it only half there.
NextSize(s) ==
    IF qSent = <<>> THEN \E th \in Producers : HalfOpen(qPc[th], qMsg[th]) /\ qMsg[th].size = s
    ELSE qSent[1].size = s

SizeRead(s) ==
    /\ qMeta = MetaBytes(s) /\ NextSize(s)
    /\ qPc[Consumer] = "copyData" /\ qSeen >= MetaSize + s => qSent # <<>>

InRead ==
    /\ qPc[Consumer] \in {"copyMeta", "copyData"} => qSeen <= Length(qIndex, qOutdex)
    /\ qPc[Consumer] \in {"lenData", "copyData", "eio", "consume"} => \E s \in Nat : SizeRead(s)
    /\ PopIsOldest

MsgqInv == MsgqTypes /\ OneAtATime /\ Stored /\ InWrite /\ InRead

LEMMA SizeBytes ==
    ASSUME NEW z
    PROVE  /\ MetaBytes(z) \in Seq({<<"size", z>>}) /\ Len(MetaBytes(z)) = MetaSize
           /\ MetaBytes(z)[1] = <<"size", z>> /\ MetaBytes(z)[1][2] = z
<1>1. MetaSize \in Nat /\ 1 \in 1 .. MetaSize
  BY QueueNumbers
<1> QED
  BY <1>1 DEF MetaBytes

LEMMA MessageBytes ==
    ASSUME NEW m, m.size \in Nat
    PROVE  DataBytes(m) \in Seq({m.id} \X Nat) /\ Len(DataBytes(m)) = m.size
  BY DEF DataBytes

LEMMA FitsAll ==
    ASSUME MsgqTypes, NEW th \in Producers, NEW S, NEW bytes \in Seq(S), qAvail[th] >= Len(bytes)
    PROVE  Fits(th, bytes) = bytes
<1>1. qAvail[th] \in Nat /\ Len(bytes) \in Nat
  BY DEF MsgqTypes
<1>2. (IF qAvail[th] < Len(bytes) THEN qAvail[th] ELSE Len(bytes)) = Len(bytes)
  BY <1>1
<1>3. SubSeq(bytes, 1, Len(bytes)) = bytes
  OBVIOUS
<1> QED
  BY <1>2, <1>3 DEF Fits

LEMMA ThreadFacts ==
    /\ Producers \subseteq Threads /\ Consumer \in Threads /\ Consumer \notin Producers
    /\ First \in Producers /\ NoOne \notin Threads
  BY MsgqAssumption DEF Threads

LEMMA StateTypes ==
    ASSUME MsgqTypes
    PROVE  /\ qIndex \in Indices /\ qOutdex \in Indices
           /\ Length(qIndex, qOutdex) \in Nat /\ EndIn(qSent, qOutdex) \in Nat
           /\ qSent \in Seq(QueueMessage)
           /\ \A th \in Producers : /\ qMsg[th].size \in Nat /\ qMsg[th].id \in 0 .. QueueIds - 1
                                    /\ qAvail[th] \in Nat
<1>1. qIndex \in Indices /\ qOutdex \in Indices /\ qSent \in Seq(QueueMessage)
  BY DEF MsgqTypes, MsgqTypeOK
<1>2. \A th \in Producers : qMsg[th] \in [id : 0 .. QueueIds - 1, size : Sizes \cup {0}]
  BY DEF MsgqTypes, MsgqTypeOK
<1>3. Sizes \cup {0} \subseteq Nat
  BY MsgqAssumption
<1>4. qAvail \in [Producers -> Nat]
  BY DEF MsgqTypes
<1>5. Length(qIndex, qOutdex) \in Nat /\ EndIn(qSent, qOutdex) \in Nat
  BY <1>1, LengthType, EndInNumber
<1>6. \A th \in Producers : qMsg[th].size \in Nat /\ qMsg[th].id \in 0 .. QueueIds - 1
  BY <1>2, <1>3
<1> QED
  BY <1>1, <1>4, <1>5, <1>6

\* A push is alone, whoever it is.
LEMMA PushAlone ==
    ASSUME MsgqTypes, OneAtATime, NEW th \in Producers, qPc[th] # Idle,
           NEW other \in Producers, other # th
    PROVE  qPc[other] = Idle
<1>1. th \in Threads /\ other \in Threads /\ th # Consumer /\ other # Consumer
  BY ThreadFacts
<1> QED
  BY <1>1 DEF OneAtATime

LEMMA IdleIsNowhere == Idle \notin MetaStages \cup DataStages
  BY DEF Idle, MetaStages, DataStages

\* Where the threads are after a step of one producer, of the consumer.
LEMMA PushMoves ==
    ASSUME MsgqTypes, NEW th \in Producers, NEW x \in PushStages, qPc' = [qPc EXCEPT ![th] = x]
    PROVE  /\ qPc' \in [Threads -> PushStages \cup PopStages]
           /\ qPc'[Consumer] = qPc[Consumer] /\ qPc'[Consumer] \in PopStages
           /\ \A t \in Producers : qPc'[t] \in PushStages
           /\ qPc'[th] = x /\ \A t \in Threads : t # th => qPc'[t] = qPc[t]
<1>1. qPc \in [Threads -> PushStages \cup PopStages] /\ qPc[Consumer] \in PopStages
      /\ \A t \in Producers : qPc[t] \in PushStages
  BY DEF MsgqTypes
<1>2. th \in Threads /\ th # Consumer
  BY ThreadFacts
<1>3. qPc'[th] = x /\ \A t \in Threads : t # th => qPc'[t] = qPc[t]
  BY <1>1, <1>2
<1>4. qPc' \in [Threads -> PushStages \cup PopStages]
  BY <1>1, <1>2
<1> QED
  BY <1>1, <1>2, <1>3, <1>4, ThreadFacts

LEMMA PopMoves ==
    ASSUME MsgqTypes, NEW x \in PopStages, qPc' = [qPc EXCEPT ![Consumer] = x]
    PROVE  /\ qPc' \in [Threads -> PushStages \cup PopStages]
           /\ qPc'[Consumer] = x
           /\ \A t \in Producers : qPc'[t] = qPc[t] /\ qPc'[t] \in PushStages
           /\ \A t \in Threads : t # Consumer => qPc'[t] = qPc[t]
<1>1. qPc \in [Threads -> PushStages \cup PopStages]
      /\ \A t \in Producers : qPc[t] \in PushStages
  BY DEF MsgqTypes
<1>2. Consumer \in Threads /\ \A t \in Producers : t \in Threads /\ t # Consumer
  BY ThreadFacts
<1>3. qPc'[Consumer] = x /\ \A t \in Threads : t # Consumer => qPc'[t] = qPc[t]
  BY <1>1, <1>2
<1>4. qPc' \in [Threads -> PushStages \cup PopStages]
  BY <1>1, <1>2
<1> QED
  BY <1>1, <1>2, <1>3, <1>4

\* The lock is taken by a call that starts, kept inside it, and given up at its end.
LEMMA Enters ==
    ASSUME MsgqTypes, OneAtATime, NEW th \in Threads, qSync \/ th \in {First, Consumer},
           Lock(th), UNCHANGED qSync, \A t \in Threads : t # th => qPc'[t] = qPc[t]
    PROVE  OneAtATime' /\ qOwner' \in Threads \cup {NoOne}
<1>1. qOwner \in Threads \cup {NoOne} /\ qSync \in BOOLEAN
  BY DEF MsgqTypes, MsgqTypeOK
<1>2. CASE qSync
  <2>1. qOwner = NoOne /\ qOwner' = th
    BY <1>2 DEF Lock
  <2>2. \A t \in Threads : qPc[t] = Idle
    BY <1>2, <2>1, ThreadFacts DEF OneAtATime
  <2>3. \A t \in Threads : qPc'[t] # Idle => t = th
    BY <2>2
  <2> QED
    BY <1>2, <2>1, <2>3 DEF OneAtATime
<1>3. CASE ~qSync
  <2>1. qOwner' = qOwner
    BY <1>3 DEF Lock
  <2> QED
    BY <1>1, <1>3, <2>1 DEF OneAtATime
<1> QED
  BY <1>2, <1>3

LEMMA StaysIn ==
    ASSUME MsgqTypes, OneAtATime, NEW th \in Threads, qPc[th] # Idle, qSync' = qSync,
           qOwner' = qOwner, \A t \in Threads : t # th => qPc'[t] = qPc[t]
    PROVE  OneAtATime' /\ qOwner' \in Threads \cup {NoOne}
<1>1. qOwner \in Threads \cup {NoOne}
  BY DEF MsgqTypes, MsgqTypeOK
<1> QED
  BY <1>1 DEF OneAtATime

LEMMA Leaves ==
    ASSUME MsgqTypes, OneAtATime, NEW th \in Threads, qPc[th] # Idle, qSync' = qSync,
           qPc'[th] = Idle, qOwner' = NoOne, \A t \in Threads : t # th => qPc'[t] = qPc[t]
    PROVE  OneAtATime' /\ qOwner' \in Threads \cup {NoOne}
<1>1. CASE qSync
  <2>1. qOwner = th
    BY <1>1 DEF OneAtATime
  <2>2. \A t \in Threads : t # th => qPc[t] = Idle
    BY <1>1, <2>1 DEF OneAtATime
  <2>3. \A t \in Threads : qPc'[t] = Idle
    BY <2>2
  <2> QED
    BY <2>3 DEF OneAtATime
<1>2. CASE ~qSync
  BY <1>2 DEF OneAtATime
<1> QED
  BY <1>1, <1>2

\* What a pop has read stays true while the queue only grows at its end.
LEMMA ReadKept ==
    ASSUME InRead, qPc'[Consumer] = qPc[Consumer], UNCHANGED consVars,
           NEW len \in Nat, NEW len2 \in Nat, len = Length(qIndex, qOutdex),
           len2 = Length(qIndex', qOutdex'), len <= len2, qSeen \in Nat,
           qSent # <<>> => qSent' # <<>> /\ qSent'[1] = qSent[1],
           \A s \in Nat : NextSize(s) => NextSize(s)'
    PROVE  InRead'
<1>1. UNCHANGED <<qCall, qSeen, qMeta, qData>>
  BY DEF consVars
<1>2. qPc[Consumer] \in {"copyMeta", "copyData"} => qSeen' <= len2
  BY <1>1 DEF InRead
<1>3. ASSUME NEW s \in Nat, SizeRead(s) PROVE SizeRead(s)'
  BY <1>1, <1>3 DEF SizeRead
<1>4. PopIsOldest'
  BY <1>1 DEF InRead, PopIsOldest, IsAt
<1>5. qPc[Consumer] \in {"lenData", "copyData", "eio", "consume"} => \E s \in Nat : SizeRead(s)'
  BY <1>3 DEF InRead
<1> QED
  BY <1>2, <1>4, <1>5 DEF InRead

\* A step of a push that neither writes nor publishes.
LEMMA QuietPush ==
    ASSUME MsgqInv, NEW th \in Producers, NEW x \in PushStages, qPc' = [qPc EXCEPT ![th] = x],
           UNCHANGED <<queueVars, consVars, qSent>>,
           \A t \in Producers : t # th => qMsg'[t] = qMsg[t] /\ qAvail'[t] = qAvail[t],
           HalfOpen(x, qMsg'[th]) <=> HalfOpen(qPc[th], qMsg[th]),
           HalfOpen(x, qMsg'[th]) => qMsg'[th] = qMsg[th],
           Writing(x, qMsg'[th], qAvail'[th], qBuf, qIndex, Length(qIndex, qOutdex))
    PROVE  Stored' /\ InWrite' /\ InRead'
<1>1. UNCHANGED <<qBuf, qIndex, qOutdex, qSent>>
  BY DEF queueVars
<1>2. /\ qPc'[Consumer] = qPc[Consumer] /\ qPc'[th] = x
      /\ \A t \in Producers : t # th => qPc'[t] = qPc[t]
  BY PushMoves, ThreadFacts DEF MsgqInv
<1>3. \A t \in Producers : HalfOpen(qPc'[t], qMsg'[t]) <=> HalfOpen(qPc[t], qMsg[t])
  BY <1>2
<1>4. \A t \in Producers : HalfOpen(qPc'[t], qMsg'[t]) => qMsg'[t] = qMsg[t]
  BY <1>2
<1>5. Stored'
  BY <1>1, <1>3, <1>4 DEF MsgqInv, Stored
<1>6. InWrite'
  BY <1>1, <1>2 DEF MsgqInv, InWrite
<1>7. ASSUME NEW s \in Nat, NextSize(s) PROVE NextSize(s)'
  BY <1>1, <1>3, <1>4, <1>7 DEF NextSize
<1>8. Length(qIndex, qOutdex) \in Nat /\ qSeen \in Nat
  BY StateTypes, QueueNumbers DEF MsgqInv, MsgqTypes, MsgqTypeOK
<1>9. InRead'
  BY <1>1, <1>2, <1>7, <1>8, ReadKept DEF MsgqInv
<1> QED
  BY <1>5, <1>6, <1>9

\* The rest of the type invariant after a step of a push.
LEMMA PushTypes ==
    ASSUME MsgqTypes, NEW th \in Producers, NEW x \in PushStages, qPc' = [qPc EXCEPT ![th] = x],
           qIndex' \in Indices, DOMAIN qBuf' = Positions, qOwner' \in Threads \cup {NoOne},
           UNCHANGED <<qOutdex, qSync, consVars>>,
           qMsg' \in [Producers -> [id : 0 .. QueueIds - 1, size : Sizes \cup {0}]],
           qAvail' \in [Producers -> Nat], qNextId' \in 0 .. QueueIds - 1,
           qSent' \in Seq(QueueMessage)
    PROVE  MsgqTypes'
<1>1. MsgqTypeOK'
  BY DEF MsgqTypes, MsgqTypeOK, consVars
<1> QED
  BY <1>1, PushMoves DEF MsgqTypes

LEMMA NoMessage == NoMsg \in [id : 0 .. QueueIds - 1, size : Sizes \cup {0}] /\ NoMsg.size = 0
  BY MsgqAssumption DEF NoMsg

LEMMA PushInv == ASSUME NEW th \in Producers, NEW size \in Sizes, MsgqInv, Push(th, size) PROVE MsgqInv'
<1> USE DEF Goto
<1>1. /\ qPc[th] = Idle /\ (qSync \/ th = First) /\ Lock(th)
      /\ qPc' = [qPc EXCEPT ![th] = "room"] /\ qMsg' = [qMsg EXCEPT ![th] = [id |-> qNextId, size |-> size]]
      /\ UNCHANGED <<qBuf, qIndex, qOutdex, qSync, qAvail, consVars, qSent, qNextId>>
  BY DEF Push, IsAt, queueVars
<1>2. "room" \in PushStages /\ "room" \notin DataStages /\ "room" \notin MetaStages
  BY DEF PushStages, DataStages, MetaStages
<1>3. OneAtATime' /\ qOwner' \in Threads \cup {NoOne}
  BY <1>1, <1>2, PushMoves, Enters, ThreadFacts DEF MsgqInv
<1>4. MsgqTypes'
  <2>1. qMsg' \in [Producers -> [id : 0 .. QueueIds - 1, size : Sizes \cup {0}]]
    BY <1>1 DEF MsgqInv, MsgqTypes, MsgqTypeOK
  <2>2. /\ qIndex' \in Indices /\ DOMAIN qBuf' = Positions /\ qAvail' \in [Producers -> Nat]
        /\ qNextId' \in 0 .. QueueIds - 1 /\ qSent' \in Seq(QueueMessage)
    BY <1>1 DEF MsgqInv, MsgqTypes, MsgqTypeOK
  <2> QED
    BY <1>1, <1>2, <1>3, <2>1, <2>2, PushTypes DEF MsgqInv
<1>5. ~HalfOpen("room", qMsg'[th]) /\ ~HalfOpen(qPc[th], qMsg[th])
  BY <1>1, <1>2, IdleIsNowhere DEF HalfOpen
<1>6. Writing("room", qMsg'[th], qAvail'[th], qBuf, qIndex, Length(qIndex, qOutdex))
  BY <1>2 DEF Writing, DataStages, MetaStages
<1>7. \A t \in Producers : t # th => qMsg'[t] = qMsg[t] /\ qAvail'[t] = qAvail[t]
  BY <1>1 DEF MsgqInv, MsgqTypes, MsgqTypeOK
<1>8. Stored' /\ InWrite' /\ InRead'
  BY <1>1, <1>2, <1>5, <1>6, <1>7, QuietPush DEF queueVars
<1> QED
  BY <1>3, <1>4, <1>8 DEF MsgqInv

\* A push that returns without having published anything.
LEMMA PushGivesUp ==
    ASSUME NEW th \in Producers, MsgqInv, qPc[th] \in {"room"} \cup MetaStages, PushReturns(th),
           UNCHANGED <<queueVars, qSync, consVars, qSent, qNextId>>
    PROVE  MsgqInv'
<1>1. /\ qPc' = [qPc EXCEPT ![th] = Idle] /\ qOwner' = NoOne
      /\ qMsg' = [qMsg EXCEPT ![th] = NoMsg] /\ qAvail' = [qAvail EXCEPT ![th] = 0]
      /\ UNCHANGED <<qBuf, qIndex, qOutdex>>
  BY DEF PushReturns, Unlock, Goto, queueVars
<1>2. Idle \in PushStages /\ qPc[th] # Idle /\ qPc[th] \notin DataStages
  BY IdleIsNowhere DEF PushStages, Idle, MetaStages, DataStages
<1>3. OneAtATime' /\ qOwner' \in Threads \cup {NoOne}
  BY <1>1, <1>2, PushMoves, Leaves, ThreadFacts DEF MsgqInv
<1>4. MsgqTypes'
  <2>1. /\ qMsg' \in [Producers -> [id : 0 .. QueueIds - 1, size : Sizes \cup {0}]]
        /\ qAvail' \in [Producers -> Nat]
    BY <1>1, NoMessage DEF MsgqInv, MsgqTypes, MsgqTypeOK
  <2>2. /\ qIndex' \in Indices /\ DOMAIN qBuf' = Positions
        /\ qNextId' \in 0 .. QueueIds - 1 /\ qSent' \in Seq(QueueMessage)
    BY <1>1 DEF MsgqInv, MsgqTypes, MsgqTypeOK
  <2> QED
    BY <1>1, <1>2, <1>3, <2>1, <2>2, PushTypes DEF MsgqInv
<1>5. ~HalfOpen(Idle, qMsg'[th]) /\ ~HalfOpen(qPc[th], qMsg[th])
  BY <1>2, IdleIsNowhere DEF HalfOpen
<1>6. Writing(Idle, qMsg'[th], qAvail'[th], qBuf, qIndex, Length(qIndex, qOutdex))
  BY IdleIsNowhere DEF Writing, DataStages, MetaStages
<1>7. \A t \in Producers : t # th => qMsg'[t] = qMsg[t] /\ qAvail'[t] = qAvail[t]
  BY <1>1 DEF MsgqInv, MsgqTypes, MsgqTypeOK
<1>8. Stored' /\ InWrite' /\ InRead'
  BY <1>1, <1>2, <1>5, <1>6, <1>7, QuietPush
<1> QED
  BY <1>3, <1>4, <1>8 DEF MsgqInv

\* A push goes on to its next stage: only what Writing asks there is to be shown.
LEMMA PushGoesOn ==
    ASSUME NEW th \in Producers, MsgqInv, NEW x \in PushStages, qPc[th] # Idle, x # Idle,
           qPc' = [qPc EXCEPT ![th] = x], NEW room \in Nat,
           qAvail' = [qAvail EXCEPT ![th] = room],
           UNCHANGED <<queueVars, qSync, qOwner, qMsg, consVars, qSent, qNextId>>,
           x \in DataStages <=> qPc[th] \in DataStages,
           Writing(x, qMsg[th], room, qBuf, qIndex, Length(qIndex, qOutdex))
    PROVE  MsgqInv'
<1>1. UNCHANGED <<qBuf, qIndex, qOutdex>> /\ UNCHANGED <<qOutdex, qSync, consVars>> /\ qOwner' = qOwner
  BY DEF queueVars
<1>2. qAvail'[th] = room /\ \A t \in Producers : t # th => qMsg'[t] = qMsg[t] /\ qAvail'[t] = qAvail[t]
  BY DEF MsgqInv, MsgqTypes, MsgqTypeOK
<1>3. OneAtATime' /\ qOwner' \in Threads \cup {NoOne}
  <2>1. MsgqTypes /\ OneAtATime /\ th \in Threads
    BY ThreadFacts DEF MsgqInv
  <2>2. \A t \in Threads : t # th => qPc'[t] = qPc[t]
    BY <2>1, PushMoves
  <2> QED
    BY <1>1, <2>1, <2>2, StaysIn
<1>4. MsgqTypes'
  <2>1. qAvail' \in [Producers -> Nat]
    BY DEF MsgqInv, MsgqTypes
  <2>2. /\ qIndex' \in Indices /\ DOMAIN qBuf' = Positions
        /\ qMsg' \in [Producers -> [id : 0 .. QueueIds - 1, size : Sizes \cup {0}]]
        /\ qNextId' \in 0 .. QueueIds - 1 /\ qSent' \in Seq(QueueMessage)
    BY <1>1 DEF MsgqInv, MsgqTypes, MsgqTypeOK
  <2> QED
    BY <1>1, <1>3, <2>1, <2>2, PushTypes DEF MsgqInv
<1>5. HalfOpen(x, qMsg'[th]) <=> HalfOpen(qPc[th], qMsg[th])
  BY DEF HalfOpen
<1>8. Stored' /\ InWrite' /\ InRead'
  BY <1>2, <1>5, QuietPush
<1> QED
  BY <1>3, <1>4, <1>8 DEF MsgqInv

LEMMA RoomLeft ==
    ASSUME MsgqTypes, Stored
    PROVE  /\ Available(qIndex, qOutdex) \in Nat
           /\ Available(qIndex, qOutdex) = QueueCap - Length(qIndex, qOutdex)
<1>1. Length(qIndex, qOutdex) \in Nat /\ Length(qIndex, qOutdex) <= QueueCap
  BY StateTypes DEF Stored
<1> QED
  BY <1>1, QueueNumbers DEF Available

LEMMA PushRoomInv == ASSUME NEW th \in Producers, MsgqInv, PushRoom(th) PROVE MsgqInv'
<1>1. qPc[th] = "room"
  BY DEF PushRoom, IsAt
<1>2. CASE qMsg[th].size + MetaSize > Available(qIndex, qOutdex)
  <2>1. PushReturns(th) /\ UNCHANGED <<queueVars, qSync, consVars, qSent, qNextId>>
    BY <1>2 DEF PushRoom
  <2> QED
    BY <1>1, <2>1, PushGivesUp
<1>3. CASE ~(qMsg[th].size + MetaSize > Available(qIndex, qOutdex))
  <2>1. /\ qPc' = [qPc EXCEPT ![th] = "writeMeta"]
        /\ UNCHANGED <<queueVars, qSync, qOwner, qMsg, consVars, qSent, qNextId>> /\ UNCHANGED qAvail
    BY <1>3 DEF PushRoom, Goto, prodVars
  <2>2. qAvail \in [Producers -> Nat] /\ qAvail[th] \in Nat
    BY DEF MsgqInv, MsgqTypes
  <2>3. qAvail' = [qAvail EXCEPT ![th] = qAvail[th]]
    BY <2>1, <2>2
  <2>4. Length(qIndex, qOutdex) + MetaSize + qMsg[th].size <= QueueCap
    <3>1. Length(qIndex, qOutdex) \in Nat /\ qMsg[th].size \in Nat
      BY StateTypes DEF MsgqInv
    <3>2. Available(qIndex, qOutdex) = QueueCap - Length(qIndex, qOutdex)
      BY RoomLeft DEF MsgqInv
    <3> QED
      BY <1>3, <3>1, <3>2, QueueNumbers
  <2>5. Writing("writeMeta", qMsg[th], qAvail[th], qBuf, qIndex, Length(qIndex, qOutdex))
    BY <2>4 DEF Writing, DataStages, MetaStages
  <2>6. /\ "writeMeta" \in PushStages /\ "writeMeta" # Idle /\ qPc[th] # Idle
        /\ ("writeMeta" \in DataStages <=> qPc[th] \in DataStages)
    BY <1>1 DEF PushStages, MetaStages, DataStages, Idle
  <2> QED
    BY <2>1, <2>2, <2>3, <2>5, <2>6, PushGoesOn
<1> QED
  BY <1>2, <1>3

LEMMA WriteRoomInv ==
    ASSUME NEW th \in Producers, MsgqInv,
           \/ WriteRoom(th, "writeMeta", "copyMeta")
           \/ WriteRoom(th, "writeData", "copyData")
    PROVE  MsgqInv'
<1>1. PICK room \in Nat : room = Available(qIndex, qOutdex)
  BY RoomLeft DEF MsgqInv
<1>2. PICK len \in Nat, size \in Nat, cap \in Nat, meta \in Nat :
        /\ len = Length(qIndex, qOutdex) /\ size = qMsg[th].size /\ cap = QueueCap /\ meta = MetaSize
        /\ room = cap - len
  BY <1>1, RoomLeft, StateTypes, QueueNumbers DEF MsgqInv
<1>3. Writing(qPc[th], qMsg[th], qAvail[th], qBuf, qIndex, Length(qIndex, qOutdex))
  BY DEF MsgqInv, InWrite
<1>4. CASE WriteRoom(th, "writeMeta", "copyMeta")
  <2>1. /\ qPc[th] = "writeMeta" /\ qPc' = [qPc EXCEPT ![th] = "copyMeta"]
        /\ qAvail' = [qAvail EXCEPT ![th] = room]
        /\ UNCHANGED <<queueVars, qSync, qOwner, qMsg, consVars, qSent, qNextId>>
    BY <1>1, <1>4 DEF WriteRoom, IsAt, Goto
  <2>2. Length(qIndex, qOutdex) + MetaSize + qMsg[th].size <= QueueCap
    BY <1>3, <2>1 DEF Writing, MetaStages
  <2>3. room >= MetaSize
    BY <1>2, <2>2
  <2>4. Writing("copyMeta", qMsg[th], room, qBuf, qIndex, Length(qIndex, qOutdex))
    BY <2>2, <2>3 DEF Writing, DataStages, MetaStages
  <2>5. /\ "copyMeta" \in PushStages /\ "copyMeta" # Idle /\ qPc[th] # Idle
        /\ ("copyMeta" \in DataStages <=> qPc[th] \in DataStages)
    BY <2>1 DEF PushStages, MetaStages, DataStages, Idle
  <2> QED
    BY <2>1, <2>4, <2>5, PushGoesOn
<1>5. CASE WriteRoom(th, "writeData", "copyData")
  <2>1. /\ qPc[th] = "writeData" /\ qPc' = [qPc EXCEPT ![th] = "copyData"]
        /\ qAvail' = [qAvail EXCEPT ![th] = room]
        /\ UNCHANGED <<queueVars, qSync, qOwner, qMsg, consVars, qSent, qNextId>>
    BY <1>1, <1>5 DEF WriteRoom, IsAt, Goto
  <2>2. Length(qIndex, qOutdex) + qMsg[th].size <= QueueCap
    BY <1>3, <2>1 DEF Writing, DataStages
  <2>3. room >= qMsg[th].size
    BY <1>2, <2>2
  <2>4. Writing("copyData", qMsg[th], room, qBuf, qIndex, Length(qIndex, qOutdex))
    BY <2>2, <2>3 DEF Writing, DataStages, MetaStages
  <2>5. /\ "copyData" \in PushStages /\ "copyData" # Idle /\ qPc[th] # Idle
        /\ ("copyData" \in DataStages <=> qPc[th] \in DataStages)
    BY <2>1 DEF PushStages, MetaStages, DataStages, Idle
  <2> QED
    BY <2>1, <2>4, <2>5, PushGoesOn
<1> QED
  BY <1>4, <1>5

\* The messages lie within the ring's used part.
LEMMA EndWithin ==
    ASSUME MsgqTypes, Stored PROVE EndIn(qSent, qOutdex) <= Length(qIndex, qOutdex)
<1>1. EndIn(qSent, qOutdex) \in Nat /\ Length(qIndex, qOutdex) \in Nat
  BY StateTypes
<1>2. \/ Length(qIndex, qOutdex) = EndIn(qSent, qOutdex)
      \/ Length(qIndex, qOutdex) = EndIn(qSent, qOutdex) + MetaSize
  BY DEF Stored
<1> QED
  BY <1>1, <1>2, QueueNumbers

LEMMA IntactWritten ==
    ASSUME NEW s \in Seq(QueueMessage), NEW buf, NEW i \in Indices, NEW o \in Indices, NEW data,
           Len(data) \in Nat, Chained(s, o), Intact(s, buf), EndIn(s, o) <= Length(i, o),
           Length(i, o) + Len(data) <= QueueCap
    PROVE  Intact(s, WriteBytes(buf, i, data))
<1> SUFFICES ASSUME NEW k \in 1 .. Len(s)
             PROVE  /\ HoldsAt(WriteBytes(buf, i, data), s[k].at, MetaBytes(s[k].size))
                    /\ HoldsAt(WriteBytes(buf, i, data), s[k].at + MetaSize, DataBytes(s[k]))
  BY DEF Intact
<1>1. PICK m \in QueueMessage : m = s[k]
  OBVIOUS
<1>2. m.at \in Indices /\ m.size \in Nat /\ Length(m.at, o) \in Nat /\ EndOf(m, o) \in Nat
  BY EndNumbers
<1>3. EndOf(m, o) <= EndIn(s, o)
  BY <1>1, ChainBound
<1>4. EndIn(s, o) \in Nat /\ Length(i, o) \in Nat
  BY EndInNumber, LengthType
<1>5. /\ Length(m.at, o) + 0 + MetaSize <= Length(i, o)
      /\ Length(m.at, o) + MetaSize + m.size <= Length(i, o)
  BY <1>2, <1>3, <1>4, QueueNumbers DEF EndOf
<1>6. HoldsAt(buf, m.at, MetaBytes(m.size)) /\ HoldsAt(buf, m.at + MetaSize, DataBytes(m))
  BY <1>1 DEF Intact
<1>7. m.at + 0 = m.at
  BY <1>2, QueueNumbers DEF Indices
<1>8. HoldsAt(WriteBytes(buf, i, data), m.at + 0, MetaBytes(m.size))
  <2>1. PICK bytes : bytes = MetaBytes(m.size) /\ Len(bytes) = MetaSize
    BY SizeBytes
  <2>2. HoldsAt(buf, m.at + 0, bytes) /\ Len(bytes) \in Nat
    BY <1>6, <1>7, <2>1, QueueNumbers
  <2>3. Length(m.at, o) + 0 + Len(bytes) <= Length(i, o)
    BY <1>5, <2>1
  <2>4. HoldsAt(WriteBytes(buf, i, data), m.at + 0, bytes)
    BY <1>2, <2>2, <2>3, WriteKeeps
  <2> QED
    BY <2>1, <2>4
<1>9. HoldsAt(WriteBytes(buf, i, data), m.at + MetaSize, DataBytes(m))
  BY <1>2, <1>5, <1>6, MessageBytes, WriteKeeps, QueueNumbers
<1> QED
  BY <1>1, <1>7, <1>8, <1>9

\* The copy of a size or of the data, before it is published.
LEMMA CopyInv ==
    ASSUME NEW th \in Producers, MsgqInv, NEW x \in PushStages, NEW S, NEW bytes \in Seq(S),
           qPc[th] # Idle, x # Idle, x \in DataStages <=> qPc[th] \in DataStages,
           qPc' = [qPc EXCEPT ![th] = x], qBuf' = WriteBytes(qBuf, qIndex, bytes),
           UNCHANGED <<qIndex, qOutdex, qSync, qOwner, prodVars, consVars, qSent, qNextId>>,
           Length(qIndex, qOutdex) + Len(bytes) <= QueueCap,
           HoldsAt(qBuf', qIndex, bytes) =>
               Writing(x, qMsg[th], qAvail[th], qBuf', qIndex, Length(qIndex, qOutdex))
    PROVE  MsgqInv'
<1>1. /\ UNCHANGED <<qIndex, qOutdex, qSent>> /\ UNCHANGED <<qOutdex, qSync, consVars>>
      /\ qOwner' = qOwner /\ qSync' = qSync /\ UNCHANGED <<qMsg, qAvail, qNextId>>
  BY DEF prodVars
<1>2. MsgqTypes /\ OneAtATime /\ Stored /\ th \in Threads
  BY ThreadFacts DEF MsgqInv
<1>3. /\ qPc'[Consumer] = qPc[Consumer] /\ qPc'[th] = x
      /\ \A t \in Threads : t # th => qPc'[t] = qPc[t]
  BY <1>2, PushMoves
<1>4. OneAtATime' /\ qOwner' \in Threads \cup {NoOne}
  BY <1>1, <1>2, <1>3, StaysIn
<1>5. MsgqTypes'
  <2>1. DOMAIN qBuf' = Positions
    BY DEF WriteBytes
  <2>2. /\ qIndex' \in Indices
        /\ qMsg' \in [Producers -> [id : 0 .. QueueIds - 1, size : Sizes \cup {0}]]
        /\ qAvail' \in [Producers -> Nat]
        /\ qNextId' \in 0 .. QueueIds - 1 /\ qSent' \in Seq(QueueMessage)
    BY <1>1, <1>2 DEF MsgqTypes, MsgqTypeOK
  <2> QED
    BY <1>1, <1>2, <1>4, <2>1, <2>2, PushTypes
<1>6. /\ qIndex \in Indices /\ qOutdex \in Indices /\ qSent \in Seq(QueueMessage)
      /\ Length(qIndex, qOutdex) \in Nat /\ Len(bytes) \in Nat /\ EndIn(qSent, qOutdex) \in Nat
  BY <1>2, StateTypes
<1>7. HoldsAt(qBuf', qIndex, bytes)
  <2>1. Len(bytes) \in 0 .. QueueCap
    BY <1>6, QueueNumbers
  <2> QED
    BY <1>6, <2>1, WritePuts
<1>8. \A t \in Producers : t # th => qPc[t] = Idle /\ qPc'[t] = Idle
  BY <1>2, <1>3, PushAlone, ThreadFacts
<1>9. InWrite'
  <2>1. ASSUME NEW t \in Producers, t # th
        PROVE  Writing(qPc'[t], qMsg'[t], qAvail'[t], qBuf', qIndex', Length(qIndex', qOutdex'))
    BY <1>8, <2>1, IdleIsNowhere DEF Writing, MetaStages, DataStages
  <2>2. Writing(qPc'[th], qMsg'[th], qAvail'[th], qBuf', qIndex', Length(qIndex', qOutdex'))
    BY <1>1, <1>3, <1>7
  <2> QED
    BY <2>1, <2>2 DEF InWrite
<1>10. \A t \in Producers : HalfOpen(qPc'[t], qMsg'[t]) <=> HalfOpen(qPc[t], qMsg[t])
  BY <1>1, <1>3, <1>8 DEF HalfOpen
<1>11. Intact(qSent', qBuf')
  <2>1. EndIn(qSent, qOutdex) <= Length(qIndex, qOutdex) /\ Chained(qSent, qOutdex) /\ Intact(qSent, qBuf)
    BY <1>2, EndWithin DEF Stored
  <2>2. Intact(qSent, WriteBytes(qBuf, qIndex, bytes))
    BY <1>6, <2>1, IntactWritten
  <2> QED
    BY <1>1, <2>2
<1>12. ASSUME NEW t \in Producers, HalfOpen(qPc[t], qMsg[t])
       PROVE  HoldsAt(qBuf', Advance(qIndex, 0 - MetaSize), MetaBytes(qMsg[t].size))
  <2>1. /\ Length(qIndex, qOutdex) = EndIn(qSent, qOutdex) + MetaSize
        /\ HoldsAt(qBuf, Advance(qIndex, 0 - MetaSize), MetaBytes(qMsg[t].size))
    BY <1>2, <1>12 DEF Stored
  <2>2. PICK at \in Indices : at = Advance(qIndex, 0 - MetaSize)
    BY <1>6, AdvanceType, QueueNumbers
  <2>3. MetaSize \in Nat /\ MetaSize <= Length(qIndex, qOutdex)
    BY <1>6, <2>1, QueueNumbers
  <2>4. Length(at, qOutdex) = Length(qIndex, qOutdex) - MetaSize
    BY <1>6, <2>2, <2>3, Distances
  <2>5. PICK meta : meta = MetaBytes(qMsg[t].size) /\ Len(meta) = MetaSize
    BY SizeBytes
  <2>6. at + 0 = at
    BY QueueNumbers DEF Indices
  <2>7. HoldsAt(qBuf, at + 0, meta)
    BY <2>1, <2>2, <2>5, <2>6
  <2>8. Length(at, qOutdex) + 0 + Len(meta) <= Length(qIndex, qOutdex)
    BY <1>6, <2>3, <2>4, <2>5
  <2>9. HoldsAt(WriteBytes(qBuf, qIndex, bytes), at + 0, meta)
    BY <1>6, <2>3, <2>5, <2>7, <2>8, WriteKeeps
  <2> QED
    BY <2>2, <2>5, <2>6, <2>9
<1>13. Stored'
  BY <1>1, <1>2, <1>10, <1>11, <1>12 DEF Stored
<1>14. InRead'
  <2>1. ASSUME NEW s \in Nat, NextSize(s) PROVE NextSize(s)'
    BY <1>1, <1>10, <2>1 DEF NextSize
  <2>2. qSeen \in Nat /\ InRead
    BY QueueNumbers DEF MsgqInv, MsgqTypes, MsgqTypeOK
  <2> QED
    BY <1>1, <1>3, <1>6, <2>1, <2>2, ReadKept
<1> QED
  BY <1>4, <1>5, <1>9, <1>13, <1>14 DEF MsgqInv

LEMMA WriteCopyInv ==
    ASSUME NEW th \in Producers, MsgqInv,
           \/ WriteCopy(th, "copyMeta", "endMeta", MetaBytes(qMsg[th].size))
           \/ WriteCopy(th, "copyData", "endData", DataBytes(qMsg[th]))
    PROVE  MsgqInv'
<1>1. Writing(qPc[th], qMsg[th], qAvail[th], qBuf, qIndex, Length(qIndex, qOutdex)) /\ MsgqTypes
  BY DEF MsgqInv, InWrite
<1>2. PICK len \in Nat, size \in Nat, cap \in Nat, meta \in Nat :
        len = Length(qIndex, qOutdex) /\ size = qMsg[th].size /\ cap = QueueCap /\ meta = MetaSize
  BY StateTypes, QueueNumbers DEF MsgqInv
<1>3. CASE WriteCopy(th, "copyMeta", "endMeta", MetaBytes(qMsg[th].size))
  <2>0. PICK S : S = {<<"size", qMsg[th].size>>}
    OBVIOUS
  <2>1. PICK bytes \in Seq(S) : bytes = MetaBytes(qMsg[th].size) /\ Len(bytes) = MetaSize
    BY <2>0, SizeBytes
  <2>2. /\ qPc[th] = "copyMeta" /\ qPc' = [qPc EXCEPT ![th] = "endMeta"]
        /\ qBuf' = WriteBytes(qBuf, qIndex, Fits(th, bytes))
        /\ UNCHANGED <<qIndex, qOutdex, qSync, qOwner, prodVars, consVars, qSent, qNextId>>
    BY <1>3, <2>1 DEF WriteCopy, IsAt, Goto
  <2>3. Length(qIndex, qOutdex) + MetaSize + qMsg[th].size <= QueueCap /\ qAvail[th] >= MetaSize
    BY <1>1, <2>2 DEF Writing, MetaStages
  <2>4. Fits(th, bytes) = bytes
    BY <1>1, <2>1, <2>3, FitsAll
  <2>5. Length(qIndex, qOutdex) + Len(bytes) <= QueueCap
    BY <1>2, <2>1, <2>3
  <2>6. HoldsAt(qBuf', qIndex, bytes) =>
            Writing("endMeta", qMsg[th], qAvail[th], qBuf', qIndex, Length(qIndex, qOutdex))
    BY <2>1, <2>3 DEF Writing, MetaStages, DataStages
  <2>7. /\ "endMeta" \in PushStages /\ "endMeta" # Idle /\ qPc[th] # Idle
        /\ ("endMeta" \in DataStages <=> qPc[th] \in DataStages)
    BY <2>2 DEF PushStages, MetaStages, DataStages, Idle
  <2> QED
    BY <2>1, <2>2, <2>4, <2>5, <2>6, <2>7, CopyInv
<1>4. CASE WriteCopy(th, "copyData", "endData", DataBytes(qMsg[th]))
  <2>0. PICK S : S = {qMsg[th].id} \X Nat
    OBVIOUS
  <2>1. PICK bytes \in Seq(S) : bytes = DataBytes(qMsg[th]) /\ Len(bytes) = qMsg[th].size
    BY <1>2, <2>0, MessageBytes
  <2>2. /\ qPc[th] = "copyData" /\ qPc' = [qPc EXCEPT ![th] = "endData"]
        /\ qBuf' = WriteBytes(qBuf, qIndex, Fits(th, bytes))
        /\ UNCHANGED <<qIndex, qOutdex, qSync, qOwner, prodVars, consVars, qSent, qNextId>>
    BY <1>4, <2>1 DEF WriteCopy, IsAt, Goto
  <2>3. Length(qIndex, qOutdex) + qMsg[th].size <= QueueCap /\ qAvail[th] >= qMsg[th].size
    BY <1>1, <2>2 DEF Writing, DataStages
  <2>4. Fits(th, bytes) = bytes
    BY <1>1, <2>1, <2>3, FitsAll
  <2>5. Length(qIndex, qOutdex) + Len(bytes) <= QueueCap
    BY <2>1, <2>3
  <2>6. HoldsAt(qBuf', qIndex, bytes) =>
            Writing("endData", qMsg[th], qAvail[th], qBuf', qIndex, Length(qIndex, qOutdex))
    BY <2>1, <2>3 DEF Writing, MetaStages, DataStages
  <2>7. /\ "endData" \in PushStages /\ "endData" # Idle /\ qPc[th] # Idle
        /\ ("endData" \in DataStages <=> qPc[th] \in DataStages)
    BY <2>2 DEF PushStages, MetaStages, DataStages, Idle
  <2> QED
    BY <2>1, <2>2, <2>4, <2>5, <2>6, <2>7, CopyInv
<1> QED
  BY <1>3, <1>4

\* A push publishes n bytes: what is to be shown of the messages it leaves.
LEMMA Publish ==
    ASSUME NEW th \in Producers, MsgqInv, NEW x \in PushStages, qPc[th] # Idle,
           qPc' = [qPc EXCEPT ![th] = x],
           NEW n \in Nat, Length(qIndex, qOutdex) + n <= QueueCap, qIndex' = Advance(qIndex, n),
           UNCHANGED <<qBuf, qOutdex>>, UNCHANGED <<qOutdex, qSync, consVars>>,
           OneAtATime', qOwner' \in Threads \cup {NoOne},
           qMsg' \in [Producers -> [id : 0 .. QueueIds - 1, size : Sizes \cup {0}]],
           qAvail' \in [Producers -> Nat], qNextId' \in 0 .. QueueIds - 1,
           qSent' \in Seq(QueueMessage), Chained(qSent', qOutdex), Intact(qSent', qBuf),
           Writing(x, qMsg'[th], qAvail'[th], qBuf, qIndex', Length(qIndex, qOutdex) + n),
           HalfOpen(x, qMsg'[th]) =>
               /\ Length(qIndex, qOutdex) + n = EndIn(qSent', qOutdex) + MetaSize
               /\ HoldsAt(qBuf, Advance(qIndex', 0 - MetaSize), MetaBytes(qMsg'[th].size)),
           ~HalfOpen(x, qMsg'[th]) => Length(qIndex, qOutdex) + n = EndIn(qSent', qOutdex),
           qSent # <<>> => qSent' # <<>> /\ qSent'[1] = qSent[1],
           \A s \in Nat : NextSize(s) => NextSize(s)'
    PROVE  MsgqInv'
<1>1. MsgqTypes /\ OneAtATime /\ Stored /\ InRead /\ th \in Threads /\ qSeen \in Nat
  BY ThreadFacts, QueueNumbers DEF MsgqInv, MsgqTypes, MsgqTypeOK
<1>2. qIndex \in Indices /\ qOutdex \in Indices /\ Length(qIndex, qOutdex) \in Nat
  BY <1>1, StateTypes
<1>3. PICK len \in Nat : len = Length(qIndex, qOutdex) + n
  BY <1>2
<1>4. len = Length(qIndex', qOutdex')
  BY <1>2, <1>3, Distances
<1>5. qIndex' \in Indices /\ DOMAIN qBuf' = Positions
  BY <1>1, <1>2, AdvanceType DEF MsgqTypes, MsgqTypeOK
<1>6. MsgqTypes'
  BY <1>1, <1>5, PushTypes
<1>7. /\ qPc'[Consumer] = qPc[Consumer] /\ qPc'[th] = x
      /\ \A t \in Threads : t # th => qPc'[t] = qPc[t]
  BY <1>1, PushMoves
<1>8. \A t \in Producers : t # th => qPc'[t] = Idle
  BY <1>1, <1>7, PushAlone, ThreadFacts
<1>9. InWrite'
  <2>1. ASSUME NEW t \in Producers, t # th
        PROVE  Writing(qPc'[t], qMsg'[t], qAvail'[t], qBuf', qIndex', Length(qIndex', qOutdex'))
    BY <1>8, <2>1, IdleIsNowhere DEF Writing, MetaStages, DataStages
  <2>2. Writing(qPc'[th], qMsg'[th], qAvail'[th], qBuf', qIndex', Length(qIndex', qOutdex'))
    BY <1>3, <1>4, <1>7
  <2> QED
    BY <2>1, <2>2 DEF InWrite
<1>10. \A t \in Producers : HalfOpen(qPc'[t], qMsg'[t]) => t = th
  BY <1>8, IdleIsNowhere DEF HalfOpen
<1>11. Stored'
  <2>1. Length(qIndex', qOutdex') <= QueueCap
    BY <1>3, <1>4
  <2>2. ASSUME NEW t \in Producers, HalfOpen(qPc'[t], qMsg'[t])
        PROVE  /\ Length(qIndex', qOutdex') = EndIn(qSent', qOutdex') + MetaSize
               /\ HoldsAt(qBuf', Advance(qIndex', 0 - MetaSize), MetaBytes(qMsg'[t].size))
    <3>1. t = th /\ HalfOpen(x, qMsg'[th])
      BY <1>7, <1>10, <2>2
    <3> QED
      BY <1>3, <1>4, <3>1
  <2>3. ASSUME \A t \in Producers : ~HalfOpen(qPc'[t], qMsg'[t])
        PROVE  Length(qIndex', qOutdex') = EndIn(qSent', qOutdex')
    BY <1>3, <1>4, <1>7, <2>3
  <2>4. Chained(qSent', qOutdex') /\ Intact(qSent', qBuf')
    OBVIOUS
  <2> QED
    BY <2>1, <2>2, <2>3, <2>4 DEF Stored
<1>12. InRead'
  <2>1. Length(qIndex, qOutdex) <= len /\ UNCHANGED consVars
    BY <1>2, <1>3
  <2> QED
    BY <1>1, <1>2, <1>4, <1>7, <2>1, ReadKept
<1> QED
  BY <1>6, <1>9, <1>11, <1>12 DEF MsgqInv

LEMMA FirstKept ==
    ASSUME NEW s \in Seq(QueueMessage), NEW m \in QueueMessage
    PROVE  /\ Append(s, m) \in Seq(QueueMessage) /\ Append(s, m) # <<>>
           /\ s # <<>> => Append(s, m)[1] = s[1]
           /\ s = <<>> => Append(s, m)[1] = m
  OBVIOUS

LEMMA SentMessage ==
    ASSUME NEW m, m.id \in 0 .. QueueIds - 1, m.size \in Nat, NEW i \in Indices
    PROVE  /\ Sent(m, i) \in QueueMessage /\ Sent(m, i).at = i /\ Sent(m, i).size = m.size
           /\ DataBytes(Sent(m, i)) = DataBytes(m)
<1>1. Sent(m, i) = [id |-> m.id, size |-> m.size, at |-> i]
  BY DEF Sent
<1>2. Sent(m, i).at = i /\ Sent(m, i).size = m.size /\ Sent(m, i).id = m.id
  BY <1>1
<1> QED
  BY <1>1, <1>2 DEF QueueMessage, DataBytes

LEMMA WriteMetaEndInv == ASSUME NEW th \in Producers, MsgqInv, WriteMetaEnd(th) PROVE MsgqInv'
<1>1. /\ qPc[th] = "endMeta" /\ MsgqTypes /\ OneAtATime /\ Stored /\ th \in Threads
      /\ Writing(qPc[th], qMsg[th], qAvail[th], qBuf, qIndex, Length(qIndex, qOutdex))
  BY ThreadFacts DEF WriteMetaEnd, IsAt, MsgqInv, InWrite
<1>2. /\ Length(qIndex, qOutdex) + MetaSize + qMsg[th].size <= QueueCap /\ qAvail[th] >= MetaSize
      /\ HoldsAt(qBuf, qIndex, MetaBytes(qMsg[th].size))
  BY <1>1 DEF Writing, MetaStages
<1>3. Len(Fits(th, MetaBytes(0))) = MetaSize
  <2>1. Len(MetaBytes(0)) = MetaSize /\ MetaBytes(0) \in Seq({<<"size", 0>>})
    BY SizeBytes
  <2> QED
    BY <1>1, <1>2, <2>1, FitsAll
<1>4. /\ qIndex' = Advance(qIndex, MetaSize)
      /\ qSent' = IF qMsg[th].size = 0 THEN Append(qSent, Sent(qMsg[th], qIndex)) ELSE qSent
      /\ qPc' = [qPc EXCEPT ![th] = "writeData"]
      /\ UNCHANGED <<qOwner, prodVars>> /\ UNCHANGED <<qBuf, qOutdex, qSync, consVars, qNextId>>
  BY <1>3 DEF WriteMetaEnd, Goto
<1>5. /\ qOwner' = qOwner /\ qSync' = qSync /\ qMsg' = qMsg /\ qAvail' = qAvail /\ qNextId' = qNextId
      /\ UNCHANGED <<qBuf, qOutdex>> /\ UNCHANGED <<qOutdex, qSync, consVars>>
  BY <1>4 DEF prodVars
<1>6. /\ "writeData" \in PushStages /\ "writeData" \in DataStages /\ "writeData" \notin MetaStages
      /\ qPc[th] # Idle /\ qPc[th] \notin DataStages
  BY <1>1 DEF PushStages, MetaStages, DataStages, Idle
<1>7. OneAtATime' /\ qOwner' \in Threads \cup {NoOne}
  <2>1. \A t \in Threads : t # th => qPc'[t] = qPc[t]
    BY <1>1, <1>4, <1>6, PushMoves
  <2> QED
    BY <1>1, <1>5, <1>6, <2>1, StaysIn
<1>8. /\ qMsg' \in [Producers -> [id : 0 .. QueueIds - 1, size : Sizes \cup {0}]]
      /\ qAvail' \in [Producers -> Nat] /\ qNextId' \in 0 .. QueueIds - 1
  BY <1>1, <1>5 DEF MsgqTypes, MsgqTypeOK
<1>9. /\ qIndex \in Indices /\ qOutdex \in Indices /\ qSent \in Seq(QueueMessage)
      /\ Length(qIndex, qOutdex) \in Nat /\ qMsg[th].size \in Nat /\ EndIn(qSent, qOutdex) \in Nat
      /\ qMsg[th].id \in 0 .. QueueIds - 1
  BY <1>1, StateTypes
<1>10. \A t \in Producers : ~HalfOpen(qPc[t], qMsg[t])
  BY <1>1, <1>6, PushAlone, IdleIsNowhere DEF HalfOpen
<1>11. /\ Length(qIndex, qOutdex) = EndIn(qSent, qOutdex)
       /\ Chained(qSent, qOutdex) /\ Intact(qSent, qBuf)
  BY <1>1, <1>10 DEF Stored
<1>12. /\ MetaSize \in Nat /\ Length(qIndex, qOutdex) + MetaSize <= QueueCap
       /\ Length(qIndex, qOutdex) + MetaSize + qMsg'[th].size <= QueueCap
       /\ MetaSize \in -QueueCap .. QueueCap
  BY <1>2, <1>5, <1>9, QueueNumbers
<1>13. Writing("writeData", qMsg'[th], qAvail'[th], qBuf, qIndex', Length(qIndex, qOutdex) + MetaSize)
  BY <1>6, <1>12 DEF Writing
<1>14. CASE qMsg[th].size = 0
  <2>1. PICK m \in QueueMessage : m = Sent(qMsg[th], qIndex) /\ m.at = qIndex /\ m.size = 0
    BY <1>9, <1>14, SentMessage
  <2>2. qSent' = Append(qSent, m)
    BY <1>4, <1>14, <2>1
  <2>3. /\ qSent' \in Seq(QueueMessage) /\ qSent' # <<>>
        /\ qSent # <<>> => qSent'[1] = qSent[1]
    BY <1>9, <2>2, FirstKept
  <2>4. Chained(qSent', qOutdex) /\ EndIn(qSent', qOutdex) = EndOf(m, qOutdex)
    BY <1>9, <1>11, <2>1, <2>2, ChainAppend
  <2>5. Intact(qSent', qBuf)
    <3>1. HoldsAt(qBuf, m.at, MetaBytes(m.size))
      BY <1>2, <1>14, <2>1
    <3>2. Len(DataBytes(m)) = 0
      <4>1. m.size \in Nat
        BY <2>1
      <4>2. Len(DataBytes(m)) = m.size
        BY <4>1, MessageBytes
      <4> QED
        BY <2>1, <4>2
    <3>3. HoldsAt(qBuf, m.at + MetaSize, DataBytes(m))
      BY <3>2 DEF HoldsAt
    <3> QED
      BY <1>9, <1>11, <2>2, <3>1, <3>3, IntactAppend
  <2>6. Length(qIndex, qOutdex) + MetaSize = EndIn(qSent', qOutdex)
    BY <1>9, <2>1, <2>4, QueueNumbers DEF EndOf
  <2>7. ~HalfOpen("writeData", qMsg'[th])
    BY <1>5, <1>14 DEF HalfOpen
  <2>8. \A s \in Nat : NextSize(s) => NextSize(s)'
    BY <1>10, <2>3 DEF NextSize
  <2> QED
    BY <1>4, <1>5, <1>6, <1>7, <1>8, <1>12, <1>13, <2>3, <2>4, <2>5, <2>6, <2>7, <2>8, Publish
<1>15. CASE qMsg[th].size # 0
  <2>1. qSent' = qSent
    BY <1>4, <1>15
  <2>2. HalfOpen("writeData", qMsg'[th])
    BY <1>5, <1>6, <1>15 DEF HalfOpen
  <2>3. Advance(qIndex', 0 - MetaSize) = qIndex
    BY <1>4, <1>9, <1>12, ThereAndBack
  <2>4. /\ Length(qIndex, qOutdex) + MetaSize = EndIn(qSent', qOutdex) + MetaSize
        /\ HoldsAt(qBuf, Advance(qIndex', 0 - MetaSize), MetaBytes(qMsg'[th].size))
    BY <1>2, <1>5, <1>11, <2>1, <2>3
  <2>5. \A s \in Nat : NextSize(s) => NextSize(s)'
    BY <1>10, <2>1 DEF NextSize
  <2>6. /\ qSent' \in Seq(QueueMessage) /\ Chained(qSent', qOutdex) /\ Intact(qSent', qBuf)
        /\ qSent # <<>> => qSent' # <<>> /\ qSent'[1] = qSent[1]
    BY <1>9, <1>11, <2>1
  <2> QED
    BY <1>4, <1>5, <1>6, <1>7, <1>8, <1>12, <1>13, <2>2, <2>4, <2>5, <2>6, Publish
<1> QED
  BY <1>14, <1>15

LEMMA WriteDataEndInv == ASSUME NEW th \in Producers, MsgqInv, WriteDataEnd(th) PROVE MsgqInv'
<1>1. /\ qPc[th] = "endData" /\ MsgqTypes /\ OneAtATime /\ Stored /\ th \in Threads
      /\ Writing(qPc[th], qMsg[th], qAvail[th], qBuf, qIndex, Length(qIndex, qOutdex))
  BY ThreadFacts DEF WriteDataEnd, IsAt, MsgqInv, InWrite
<1>2. /\ Length(qIndex, qOutdex) + qMsg[th].size <= QueueCap /\ qAvail[th] >= qMsg[th].size
      /\ HoldsAt(qBuf, qIndex, DataBytes(qMsg[th]))
  BY <1>1 DEF Writing, DataStages
<1>3. /\ qIndex \in Indices /\ qOutdex \in Indices /\ qSent \in Seq(QueueMessage)
      /\ Length(qIndex, qOutdex) \in Nat /\ qMsg[th].size \in Nat /\ EndIn(qSent, qOutdex) \in Nat
      /\ qMsg[th].id \in 0 .. QueueIds - 1
  BY <1>1, StateTypes
<1>4. Len(Fits(th, DataBytes(qMsg[th]))) = qMsg[th].size
  <2>1. /\ Len(DataBytes(qMsg[th])) = qMsg[th].size
        /\ DataBytes(qMsg[th]) \in Seq({qMsg[th].id} \X Nat)
    BY <1>3, MessageBytes
  <2> QED
    BY <1>1, <1>2, <2>1, FitsAll
<1>5. /\ qIndex' = Advance(qIndex, qMsg[th].size)
      /\ qSent' = IF qMsg[th].size = 0 THEN qSent
                  ELSE Append(qSent, Sent(qMsg[th], Advance(qIndex, 0 - MetaSize)))
      /\ qNextId' = (qNextId + 1) % QueueIds
      /\ PushReturns(th) /\ UNCHANGED <<qBuf, qOutdex, qSync, consVars>>
  BY <1>4 DEF WriteDataEnd
<1>6. /\ qPc' = [qPc EXCEPT ![th] = Idle] /\ qOwner' = NoOne
      /\ qMsg' = [qMsg EXCEPT ![th] = NoMsg] /\ qAvail' = [qAvail EXCEPT ![th] = 0]
      /\ UNCHANGED <<qBuf, qOutdex>> /\ UNCHANGED <<qOutdex, qSync, consVars>> /\ qSync' = qSync
  BY <1>5 DEF PushReturns, Unlock, Goto
<1>7. Idle \in PushStages /\ qPc[th] # Idle /\ qPc[th] \in DataStages
  BY <1>1 DEF PushStages, Idle, DataStages
<1>8. OneAtATime' /\ qOwner' \in Threads \cup {NoOne}
  <2>1. qPc'[th] = Idle /\ \A t \in Threads : t # th => qPc'[t] = qPc[t]
    BY <1>1, <1>6, <1>7, PushMoves
  <2> QED
    BY <1>1, <1>6, <1>7, <2>1, Leaves
<1>9. /\ qMsg' \in [Producers -> [id : 0 .. QueueIds - 1, size : Sizes \cup {0}]]
      /\ qAvail' \in [Producers -> Nat]
  BY <1>1, <1>6, NoMessage DEF MsgqTypes, MsgqTypeOK
<1>10. qNextId' \in 0 .. QueueIds - 1
  <2>1. PICK y \in Int : y = qNextId + 1
    BY <1>1, MsgqAssumption DEF MsgqTypes
  <2>2. QueueIds \in Nat \ {0}
    BY MsgqAssumption
  <2> QED
    BY <1>5, <2>1, <2>2, Remainder
<1>11. Writing(Idle, qMsg'[th], qAvail'[th], qBuf, qIndex', Length(qIndex, qOutdex) + qMsg[th].size)
  BY IdleIsNowhere DEF Writing, DataStages, MetaStages
<1>12. ~HalfOpen(Idle, qMsg'[th]) /\ Chained(qSent, qOutdex) /\ Intact(qSent, qBuf)
  BY <1>1, IdleIsNowhere DEF HalfOpen, Stored
<1>13. \A t \in Producers : t # th => ~HalfOpen(qPc[t], qMsg[t])
  BY <1>1, <1>7, PushAlone, IdleIsNowhere DEF HalfOpen
<1>14. CASE qMsg[th].size = 0
  <2>1. \A t \in Producers : ~HalfOpen(qPc[t], qMsg[t])
    BY <1>13, <1>14 DEF HalfOpen
  <2>2. qSent' = qSent
    BY <1>5, <1>14
  <2>3. Length(qIndex, qOutdex) + qMsg[th].size = EndIn(qSent', qOutdex)
    BY <1>1, <1>3, <1>14, <2>1, <2>2 DEF Stored
  <2>4. \A s \in Nat : NextSize(s) => NextSize(s)'
    BY <2>1, <2>2 DEF NextSize
  <2>5. /\ qSent' \in Seq(QueueMessage) /\ Chained(qSent', qOutdex) /\ Intact(qSent', qBuf)
        /\ qSent # <<>> => qSent' # <<>> /\ qSent'[1] = qSent[1]
    BY <1>3, <1>12, <2>2
  <2> QED
    BY <1>2, <1>3, <1>5, <1>6, <1>7, <1>8, <1>9, <1>10, <1>11, <1>12, <2>3, <2>4, <2>5, Publish
<1>15. CASE qMsg[th].size # 0
  <2>1. HalfOpen(qPc[th], qMsg[th])
    BY <1>7, <1>15 DEF HalfOpen
  <2>2. /\ Length(qIndex, qOutdex) = EndIn(qSent, qOutdex) + MetaSize
        /\ HoldsAt(qBuf, Advance(qIndex, 0 - MetaSize), MetaBytes(qMsg[th].size))
    BY <1>1, <2>1 DEF Stored
  <2>3. PICK at \in Indices : at = Advance(qIndex, 0 - MetaSize)
    BY <1>3, AdvanceType, QueueNumbers
  <2>4. MetaSize \in Nat /\ MetaSize <= Length(qIndex, qOutdex) /\ MetaSize <= QueueCap
    BY <1>2, <1>3, <2>2, QueueNumbers
  <2>5. Length(at, qOutdex) = EndIn(qSent, qOutdex)
    <3>1. Length(at, qOutdex) = Length(qIndex, qOutdex) - MetaSize
      BY <1>3, <2>3, <2>4, Distances
    <3> QED
      BY <1>3, <2>2, <2>4, <3>1
  <2>6. PICK m \in QueueMessage :
          /\ m = Sent(qMsg[th], at) /\ m.at = at /\ m.size = qMsg[th].size
          /\ DataBytes(m) = DataBytes(qMsg[th])
    BY <1>3, SentMessage
  <2>7. qSent' = Append(qSent, m)
    BY <1>5, <1>15, <2>3, <2>6
  <2>8. /\ qSent' \in Seq(QueueMessage) /\ qSent' # <<>>
        /\ qSent # <<>> => qSent'[1] = qSent[1]
        /\ qSent = <<>> => qSent'[1] = m
    BY <1>3, <2>7, FirstKept
  <2>9. Chained(qSent', qOutdex) /\ EndIn(qSent', qOutdex) = EndOf(m, qOutdex)
    BY <1>3, <1>12, <2>5, <2>6, <2>7, ChainAppend
  <2>10. Intact(qSent', qBuf)
    <3>1. HoldsAt(qBuf, m.at, MetaBytes(m.size))
      BY <2>2, <2>3, <2>6
    <3>2. Advance(at, MetaSize) = qIndex
      <4>1. PICK n \in -QueueCap .. QueueCap : n = 0 - MetaSize /\ 0 - n = MetaSize
        BY <2>4, QueueNumbers
      <4>2. Advance(Advance(qIndex, n), 0 - n) = qIndex
        BY <1>3, ThereAndBack
      <4> QED
        BY <2>3, <4>1, <4>2
    <3>3. HoldsAt(qBuf, at + MetaSize, DataBytes(qMsg[th]))
      <4>1. Len(DataBytes(qMsg[th])) \in Nat
        BY <1>3, MessageBytes
      <4>2. MetaSize \in -QueueCap .. QueueCap
        BY <2>4, QueueNumbers
      <4> QED
        BY <1>2, <3>2, <4>1, <4>2, HoldsWrapped
    <3>4. HoldsAt(qBuf, m.at + MetaSize, DataBytes(m))
      BY <2>6, <3>3
    <3> QED
      BY <1>3, <1>12, <2>7, <3>1, <3>4, IntactAppend
  <2>11. Length(qIndex, qOutdex) + qMsg[th].size = EndIn(qSent', qOutdex)
    BY <1>3, <2>2, <2>5, <2>6, <2>9, QueueNumbers DEF EndOf
  <2>12. \A s \in Nat : NextSize(s) => NextSize(s)'
    <3>1. ASSUME NEW s \in Nat, NextSize(s) PROVE qSent'[1].size = s
      <4>1. CASE qSent = <<>>
        <5>1. qMsg[th].size = s
          BY <1>13, <3>1, <4>1 DEF NextSize
        <5> QED
          BY <2>6, <2>8, <4>1, <5>1
      <4>2. CASE qSent # <<>>
        BY <2>8, <3>1, <4>2 DEF NextSize
      <4> QED
        BY <4>1, <4>2
    <3> QED
      BY <2>8, <3>1 DEF NextSize
  <2> QED
    BY <1>2, <1>3, <1>5, <1>6, <1>7, <1>8, <1>9, <1>10, <1>11, <1>12, <2>8, <2>9, <2>10, <2>11, <2>12, Publish
<1> QED
  BY <1>14, <1>15

\* A step of a pop that leaves the ring alone.
LEMMA QuietPop ==
    ASSUME MsgqInv, NEW x \in PopStages, qPc' = [qPc EXCEPT ![Consumer] = x],
           UNCHANGED <<queueVars, prodVars, qSent, qNextId>>, qSync' = qSync,
           OneAtATime', qOwner' \in Threads \cup {NoOne},
           qCall' \in {"pop", "size"}, qSeen' \in 0 .. QueueCap
    PROVE  /\ MsgqTypes' /\ Stored' /\ InWrite'
           /\ \A s \in Nat : NextSize(s) => NextSize(s)'
<1>1. UNCHANGED <<qBuf, qIndex, qOutdex, qMsg, qAvail, qSent, qNextId>>
  BY DEF queueVars, prodVars
<1>2. /\ qPc' \in [Threads -> PushStages \cup PopStages] /\ qPc'[Consumer] = x
      /\ \A t \in Producers : qPc'[t] = qPc[t] /\ qPc'[t] \in PushStages
  BY PopMoves DEF MsgqInv
<1>3. MsgqTypes'
  BY <1>1, <1>2 DEF MsgqInv, MsgqTypes, MsgqTypeOK
<1>4. Stored'
  BY <1>1, <1>2 DEF MsgqInv, Stored
<1>5. InWrite'
  BY <1>1, <1>2 DEF MsgqInv, InWrite
<1>6. \A s \in Nat : NextSize(s) => NextSize(s)'
  BY <1>1, <1>2 DEF NextSize
<1> QED
  BY <1>3, <1>4, <1>5, <1>6

LEMMA CallInv == ASSUME NEW c \in {"pop", "size"}, MsgqInv, Call(c) PROVE MsgqInv'
<1>1. /\ qPc[Consumer] = Idle /\ Lock(Consumer) /\ qCall' = c
      /\ qPc' = [qPc EXCEPT ![Consumer] = "lenMeta"] /\ UNCHANGED qSeen
      /\ UNCHANGED <<queueVars, prodVars, qSent, qNextId>> /\ qSync' = qSync
  BY DEF Call, IsAt, Goto
<1>2. "lenMeta" \in PopStages
  BY DEF PopStages
<1>3. MsgqTypes /\ OneAtATime /\ Consumer \in Threads /\ qSeen' \in 0 .. QueueCap
  BY <1>1, ThreadFacts DEF MsgqInv, MsgqTypes, MsgqTypeOK
<1>4. qPc'[Consumer] = "lenMeta" /\ \A t \in Threads : t # Consumer => qPc'[t] = qPc[t]
  BY <1>1, <1>2, <1>3, PopMoves
<1>5. OneAtATime' /\ qOwner' \in Threads \cup {NoOne}
  BY <1>1, <1>3, <1>4, Enters
<1>6. MsgqTypes' /\ Stored' /\ InWrite'
  BY <1>1, <1>2, <1>3, <1>5, QuietPop
<1>7. InRead'
  BY <1>4 DEF InRead, PopIsOldest, IsAt
<1> QED
  BY <1>5, <1>6, <1>7 DEF MsgqInv

\* A pop goes on to its next stage: only what it has read is to be shown.
LEMMA PopGoesOn ==
    ASSUME MsgqInv, NEW x \in PopStages, qPc[Consumer] # Idle, qPc' = [qPc EXCEPT ![Consumer] = x],
           UNCHANGED <<queueVars, prodVars, qSent, qNextId>>, qSync' = qSync, qOwner' = qOwner,
           qCall' = qCall, qSeen' \in 0 .. QueueCap,
           (\A s \in Nat : NextSize(s) => NextSize(s)') /\ qPc'[Consumer] = x => InRead'
    PROVE  MsgqInv'
<1>1. MsgqTypes /\ OneAtATime /\ Consumer \in Threads /\ qCall' \in {"pop", "size"}
  BY ThreadFacts DEF MsgqInv, MsgqTypes, MsgqTypeOK
<1>2. qPc'[Consumer] = x /\ \A t \in Threads : t # Consumer => qPc'[t] = qPc[t]
  BY <1>1, PopMoves
<1>3. OneAtATime' /\ qOwner' \in Threads \cup {NoOne}
  BY <1>1, <1>2, StaysIn
<1>4. MsgqTypes' /\ Stored' /\ InWrite' /\ \A s \in Nat : NextSize(s) => NextSize(s)'
  BY <1>1, <1>3, QuietPop
<1> QED
  BY <1>2, <1>3, <1>4 DEF MsgqInv

LEMMA PopLeaves ==
    ASSUME MsgqInv, qPc[Consumer] # Idle, qPc' = [qPc EXCEPT ![Consumer] = Idle],
           UNCHANGED <<queueVars, prodVars, qSent, qNextId>>, qSync' = qSync, qCall' = qCall,
           qOwner' = NoOne \/ qOwner' = qOwner, qSeen' = 0
    PROVE  MsgqInv'
<1>1. /\ MsgqTypes /\ OneAtATime /\ Consumer \in Threads /\ qCall' \in {"pop", "size"}
      /\ Idle \in PopStages
  BY ThreadFacts DEF MsgqInv, MsgqTypes, MsgqTypeOK, PopStages
<1>2. qPc'[Consumer] = Idle /\ \A t \in Threads : t # Consumer => qPc'[t] = qPc[t]
  BY <1>1, PopMoves
<1>3. OneAtATime' /\ qOwner' \in Threads \cup {NoOne}
  <2>1. CASE qOwner' = NoOne
    BY <1>1, <1>2, <2>1, Leaves
  <2>2. CASE qOwner' = qOwner
    BY <1>1, <1>2, <2>2, StaysIn
  <2> QED
    BY <2>1, <2>2
<1>4. qSeen' \in 0 .. QueueCap
  BY QueueNumbers
<1>5. MsgqTypes' /\ Stored' /\ InWrite'
  BY <1>1, <1>3, <1>4, QuietPop
<1>6. InRead'
  BY <1>2 DEF InRead, PopIsOldest, IsAt, Idle
<1> QED
  BY <1>3, <1>5, <1>6 DEF MsgqInv

LEMMA PopFailsInv == ASSUME MsgqInv, PopFails PROVE MsgqInv'
<1>1. /\ qPc[Consumer] # Idle /\ qPc' = [qPc EXCEPT ![Consumer] = Idle] /\ qOwner' = NoOne /\ qSeen' = 0
      /\ UNCHANGED <<queueVars, prodVars, qSent, qNextId>> /\ qSync' = qSync /\ qCall' = qCall
  BY DEF PopFails, IsAt, PopReturns, Unlock, Goto, Idle
<1> QED
  BY <1>1, PopLeaves

\* The first message is where outdex points to.
LEMMA AtOutdex == \A i, o \in Indices : Length(i, o) = 0 => i = o
<1> SUFFICES ASSUME NEW i \in Indices, NEW o \in Indices, Length(i, o) = 0 PROVE i = o
  OBVIOUS
<1>1. Advance(o, 0) = i
  BY Reaches
<1>2. Advance(o, 0) = o
  BY Reaches, SelfLength
<1> QED
  BY <1>1, <1>2

LEMMA FirstMessage ==
    ASSUME MsgqTypes, Stored, qSent # <<>>
    PROVE  /\ 1 \in 1 .. Len(qSent) /\ qSent[1] \in QueueMessage /\ qSent[1].at = qOutdex
           /\ HoldsAt(qBuf, qOutdex, MetaBytes(qSent[1].size))
           /\ HoldsAt(qBuf, qOutdex + MetaSize, DataBytes(qSent[1]))
<1>1. qSent \in Seq(QueueMessage) /\ qOutdex \in Indices
  BY StateTypes
<1>2. 1 \in 1 .. Len(qSent) /\ qSent[1] \in QueueMessage
  BY <1>1
<1>3. Length(qSent[1].at, qOutdex) = 0
  BY DEF Stored, Chained
<1>4. qSent[1].at = qOutdex
  BY <1>1, <1>2, <1>3, AtOutdex, EndNumbers
<1>5. /\ HoldsAt(qBuf, qSent[1].at, MetaBytes(qSent[1].size))
      /\ HoldsAt(qBuf, qSent[1].at + MetaSize, DataBytes(qSent[1]))
  BY <1>2 DEF Stored, Intact
<1> QED
  BY <1>2, <1>4, <1>5

LEMMA OldestSize ==
    ASSUME MsgqTypes, Stored, Length(qIndex, qOutdex) >= MetaSize
    PROVE  \E s \in Nat : NextSize(s) /\ HoldsAt(qBuf, qOutdex, MetaBytes(s))
<1>1. CASE qSent # <<>>
  <2>1. qSent[1].size \in Nat
    BY <1>1, FirstMessage DEF QueueMessage
  <2> QED
    BY <1>1, <2>1, FirstMessage DEF NextSize
<1>2. CASE qSent = <<>>
  <2>1. EndIn(qSent, qOutdex) = 0 /\ Length(qIndex, qOutdex) \in Nat
        /\ qIndex \in Indices /\ qOutdex \in Indices
    BY <1>2, StateTypes DEF EndIn
  <2>2. Length(qIndex, qOutdex) # 0
    BY <2>1, QueueNumbers
  <2>3. PICK th \in Producers : HalfOpen(qPc[th], qMsg[th])
    BY <2>1, <2>2 DEF Stored
  <2>4. /\ Length(qIndex, qOutdex) = 0 + MetaSize
        /\ HoldsAt(qBuf, Advance(qIndex, 0 - MetaSize), MetaBytes(qMsg[th].size))
    BY <2>1, <2>3 DEF Stored
  <2>5. PICK at \in Indices : at = Advance(qIndex, 0 - MetaSize)
    BY <2>1, AdvanceType, QueueNumbers
  <2>6. MetaSize \in Nat /\ MetaSize <= Length(qIndex, qOutdex)
    BY QueueNumbers
  <2>7. Length(at, qOutdex) = Length(qIndex, qOutdex) - MetaSize
    BY <2>1, <2>5, <2>6, Distances
  <2>8. Length(at, qOutdex) = 0
    BY <2>4, <2>6, <2>7
  <2>9. at = qOutdex
    BY <2>1, <2>8, AtOutdex
  <2>10. qMsg[th].size \in Nat /\ NextSize(qMsg[th].size)
    BY <1>2, <2>3, StateTypes DEF NextSize
  <2> QED
    BY <2>4, <2>5, <2>9, <2>10
<1> QED
  BY <1>1, <1>2

LEMMA ReadHeld ==
    ASSUME NEW buf, NEW o \in Indices, NEW t \in Nat, NEW n \in Nat, NEW bytes,
           bytes = [k \in 1 .. n |-> bytes[k]], Len(bytes) = n, HoldsAt(buf, o + t, bytes)
    PROVE  ReadBytes(buf, o, t, n) = bytes
<1>1. \A k \in 1 .. n : buf[(o + t + k - 1) % QueueCap] = bytes[k]
  BY DEF HoldsAt
<1>2. ReadBytes(buf, o, t, n) = [k \in 1 .. n |-> bytes[k]]
  BY <1>1 DEF ReadBytes
<1> QED
  BY <1>2

LEMMA ReadLength ==
    ASSUME NEW buf, NEW o, NEW t, NEW n \in Nat PROVE Len(ReadBytes(buf, o, t, n)) = n
  BY DEF ReadBytes

LEMMA PeekLengthInv ==
    ASSUME MsgqInv, PeekLength("lenMeta", "copyMeta") \/ PeekLength("lenData", "copyData")
    PROVE  MsgqInv'
<1>1. /\ MsgqTypes /\ Stored /\ InRead
      /\ Length(qIndex, qOutdex) \in 0 .. QueueCap /\ EndIn(qSent, qOutdex) \in Nat
  BY StateTypes, QueueNumbers DEF MsgqInv, Stored
<1>2. CASE PeekLength("lenMeta", "copyMeta")
  <2>1. /\ qPc[Consumer] # Idle /\ qSeen' = Length(qIndex, qOutdex)
        /\ qPc' = [qPc EXCEPT ![Consumer] = "copyMeta"] /\ "copyMeta" \in PopStages
        /\ UNCHANGED <<queueVars, prodVars, qSent, qNextId>>
        /\ qSync' = qSync /\ qOwner' = qOwner /\ qCall' = qCall
    BY <1>2 DEF PeekLength, IsAt, Goto, Idle, PopStages
  <2>2. qSeen' \in 0 .. QueueCap /\ qSeen' <= Length(qIndex', qOutdex')
    BY <1>1, <2>1 DEF queueVars
  <2>3. ASSUME qPc'[Consumer] = "copyMeta" PROVE InRead'
    BY <2>2, <2>3 DEF InRead, PopIsOldest, IsAt
  <2> QED
    BY <2>1, <2>2, <2>3, PopGoesOn
<1>3. CASE PeekLength("lenData", "copyData")
  <2>1. /\ qPc[Consumer] = "lenData" /\ qSeen' = Length(qIndex, qOutdex)
        /\ qPc' = [qPc EXCEPT ![Consumer] = "copyData"] /\ "copyData" \in PopStages
        /\ UNCHANGED <<queueVars, prodVars, qSent, qNextId>> /\ UNCHANGED <<qIndex, qOutdex, qSent, qMeta>>
        /\ qSync' = qSync /\ qOwner' = qOwner /\ qCall' = qCall
    BY <1>3 DEF PeekLength, IsAt, Goto, PopStages, queueVars
  <2>2. qSeen' \in 0 .. QueueCap /\ qSeen' <= Length(qIndex', qOutdex')
    BY <1>1, <2>1
  <2>3. PICK s \in Nat : qMeta = MetaBytes(s) /\ NextSize(s)
    BY <1>1, <2>1 DEF InRead, SizeRead
  <2>4. ASSUME qSeen' >= MetaSize + s PROVE qSent # <<>>
    <3>1. SUFFICES ASSUME qSent = <<>> PROVE FALSE
      OBVIOUS
    <3>2. PICK th \in Producers : HalfOpen(qPc[th], qMsg[th]) /\ qMsg[th].size = s
      BY <2>3, <3>1 DEF NextSize
    <3>3. Length(qIndex, qOutdex) = EndIn(qSent, qOutdex) + MetaSize /\ s # 0
      BY <1>1, <3>2 DEF Stored, HalfOpen
    <3>4. EndIn(qSent, qOutdex) = 0
      BY <3>1 DEF EndIn
    <3> QED
      BY <2>1, <2>4, <3>3, <3>4, QueueNumbers
  <2>5. ASSUME \A z \in Nat : NextSize(z) => NextSize(z)', qPc'[Consumer] = "copyData"
        PROVE  InRead'
    <3>1. SizeRead(s)'
      BY <2>1, <2>3, <2>4, <2>5 DEF SizeRead
    <3> QED
      BY <2>2, <2>5, <3>1 DEF InRead, PopIsOldest, IsAt
  <2>6. qPc[Consumer] # Idle
    BY <2>1 DEF Idle
  <2> QED
    BY <2>1, <2>2, <2>5, <2>6, PopGoesOn
<1> QED
  BY <1>2, <1>3

LEMMA PeekMetaInv == ASSUME MsgqInv, PeekMeta PROVE MsgqInv'
<1>1. /\ MsgqTypes /\ Stored /\ InRead /\ qPc[Consumer] = "copyMeta" /\ qPc[Consumer] # Idle
      /\ qSeen \in Nat /\ qSeen \in 0 .. QueueCap
      /\ UNCHANGED <<queueVars, prodVars, qSent, qNextId>> /\ qSync' = qSync /\ qCall' = qCall
      /\ UNCHANGED <<qIndex, qOutdex, qSent>>
  BY QueueNumbers DEF MsgqInv, MsgqTypes, MsgqTypeOK, PeekMeta, IsAt, Idle, queueVars
<1>2. PICK m : m = Peeked(0, MetaSize)
  OBVIOUS
<1>3. CASE Len(m) # MetaSize
  <2>1. /\ qPc' = [qPc EXCEPT ![Consumer] = Idle] /\ qSeen' = 0
        /\ qOwner' = NoOne \/ qOwner' = qOwner
    BY <1>2, <1>3 DEF PeekMeta, Goto
  <2> QED
    BY <1>1, <2>1, PopLeaves
<1>4. CASE Len(m) = MetaSize /\ (qCall = "size" \/ m[1][2] > BufSize)
  <2>1. PopReturns
    BY <1>2, <1>4 DEF PeekMeta
  <2>2. qPc' = [qPc EXCEPT ![Consumer] = Idle] /\ qSeen' = 0 /\ qOwner' = NoOne
    BY <2>1 DEF PopReturns, Unlock, Goto
  <2> QED
    BY <1>1, <2>2, PopLeaves
<1>5. CASE Len(m) = MetaSize /\ ~(qCall = "size" \/ m[1][2] > BufSize)
  <2>1. /\ qPc' = [qPc EXCEPT ![Consumer] = "lenData"] /\ qMeta' = m
        /\ qOwner' = qOwner /\ qSeen' = qSeen /\ "lenData" \in PopStages
    BY <1>2, <1>5 DEF PeekMeta, Goto, PopStages
  <2>2. PICK n \in Nat : n = IF qSeen <= 0 THEN 0 ELSE IF qSeen - 0 < MetaSize THEN qSeen - 0 ELSE MetaSize
    BY <1>1, QueueNumbers
  <2>3. m = ReadBytes(qBuf, qOutdex, 0, n)
    BY <1>2, <2>2 DEF Peeked
  <2>4. n = MetaSize
    BY <1>5, <2>3, ReadLength
  <2>5. qSeen >= MetaSize
    BY <1>1, <2>2, <2>4, QueueNumbers
  <2>6. Length(qIndex, qOutdex) >= MetaSize
    <3>1. qSeen <= Length(qIndex, qOutdex) /\ Length(qIndex, qOutdex) \in Nat
      BY <1>1, StateTypes DEF InRead
    <3> QED
      BY <1>1, <2>5, <3>1, QueueNumbers
  <2>7. PICK s \in Nat : NextSize(s) /\ HoldsAt(qBuf, qOutdex, MetaBytes(s))
    BY <1>1, <2>6, OldestSize
  <2>8. m = MetaBytes(s)
    <3>1. PICK bytes : bytes = MetaBytes(s) /\ Len(bytes) = MetaSize
      BY SizeBytes
    <3>2. bytes = [k \in 1 .. MetaSize |-> bytes[k]]
      BY <3>1 DEF MetaBytes
    <3>3. qOutdex \in Indices /\ qOutdex + 0 = qOutdex
      BY <1>1, StateTypes, QueueNumbers DEF Indices
    <3>4. HoldsAt(qBuf, qOutdex + 0, bytes) /\ MetaSize \in Nat
      BY <2>7, <3>1, <3>3, QueueNumbers
    <3>5. ReadBytes(qBuf, qOutdex, 0, MetaSize) = bytes
      BY <3>1, <3>2, <3>3, <3>4, ReadHeld
    <3> QED
      BY <2>3, <2>4, <3>1, <3>5
  <2>9. ASSUME \A z \in Nat : NextSize(z) => NextSize(z)', qPc'[Consumer] = "lenData"
        PROVE  InRead'
    <3>1. SizeRead(s)'
      BY <2>1, <2>7, <2>8, <2>9 DEF SizeRead
    <3> QED
      BY <2>9, <3>1 DEF InRead, PopIsOldest, IsAt
  <2> QED
    BY <1>1, <2>1, <2>9, PopGoesOn
<1> QED
  BY <1>3, <1>4, <1>5

LEMMA PeekDataInv == ASSUME MsgqInv, PeekData PROVE MsgqInv'
<1>1. /\ MsgqTypes /\ Stored /\ InRead /\ qPc[Consumer] = "copyData" /\ qPc[Consumer] # Idle
      /\ qSeen \in Nat /\ qSeen \in 0 .. QueueCap
      /\ UNCHANGED <<queueVars, prodVars, qSent, qNextId>> /\ qSync' = qSync /\ qCall' = qCall
      /\ UNCHANGED <<qIndex, qOutdex, qSent, qSeen, qMeta>> /\ qOwner' = qOwner
  BY QueueNumbers DEF MsgqInv, MsgqTypes, MsgqTypeOK, PeekData, IsAt, Idle, queueVars
<1>2. PICK s \in Nat : SizeRead(s)
  BY <1>1 DEF InRead
<1>3. qMeta[1][2] = s /\ qMeta = MetaBytes(s)
  BY <1>2, SizeBytes DEF SizeRead
<1>4. /\ qData' = Peeked(MetaSize, s)
      /\ qPc' = [qPc EXCEPT ![Consumer] = IF Len(qData') # s THEN "eio" ELSE "consume"]
  BY <1>3 DEF PeekData, Goto
<1>5. CASE Len(qData') # s
  <2>1. qPc' = [qPc EXCEPT ![Consumer] = "eio"] /\ "eio" \in PopStages
    BY <1>4, <1>5 DEF PopStages
  <2>2. ASSUME \A z \in Nat : NextSize(z) => NextSize(z)', qPc'[Consumer] = "eio"
        PROVE  InRead'
    <3>1. SizeRead(s)'
      BY <1>1, <1>2, <2>2 DEF SizeRead
    <3> QED
      BY <2>2, <3>1 DEF InRead, PopIsOldest, IsAt
  <2> QED
    BY <1>1, <2>1, <2>2, PopGoesOn
<1>6. CASE Len(qData') = s
  <2>1. qPc' = [qPc EXCEPT ![Consumer] = "consume"] /\ "consume" \in PopStages
    BY <1>4, <1>6 DEF PopStages
  <2>2. PICK n \in Nat : n = IF qSeen <= MetaSize THEN 0 ELSE IF qSeen - MetaSize < s THEN qSeen - MetaSize ELSE s
    <3>1. ASSUME ~(qSeen <= MetaSize) PROVE qSeen - MetaSize \in Nat
      BY <1>1, <3>1, QueueNumbers
    <3>2. (IF qSeen <= MetaSize THEN 0 ELSE IF qSeen - MetaSize < s THEN qSeen - MetaSize ELSE s) \in Nat
      BY <3>1
    <3> QED
      BY <3>2
  <2>3. qData' = ReadBytes(qBuf, qOutdex, MetaSize, n)
    BY <1>4, <2>2 DEF Peeked
  <2>4. n = s
    BY <1>6, <2>3, ReadLength
  <2>5. qSent # <<>>
    <3>1. CASE s = 0
      BY <1>2, <3>1 DEF SizeRead, NextSize, HalfOpen
    <3>2. CASE s # 0
      <4>1. qSeen >= MetaSize + s
        BY <1>1, <2>2, <2>4, <3>2, QueueNumbers
      <4> QED
        BY <1>1, <1>2, <4>1 DEF SizeRead
    <3> QED
      BY <3>1, <3>2
  <2>6. qSent[1].size = s
    BY <1>2, <2>5 DEF SizeRead, NextSize
  <2>7. qData' = DataBytes(qSent[1])
    <3>1. PICK bytes : bytes = DataBytes(qSent[1]) /\ Len(bytes) = s
      BY <2>6, MessageBytes
    <3>2. bytes = [k \in 1 .. s |-> bytes[k]]
      BY <2>6, <3>1 DEF DataBytes
    <3>3. HoldsAt(qBuf, qOutdex + MetaSize, bytes) /\ MetaSize \in Nat /\ qOutdex \in Indices
      BY <1>1, <2>5, <3>1, FirstMessage, StateTypes, QueueNumbers
    <3>4. ReadBytes(qBuf, qOutdex, MetaSize, s) = bytes
      BY <3>1, <3>2, <3>3, ReadHeld
    <3> QED
      BY <2>3, <2>4, <3>1, <3>4
  <2>8. ASSUME \A z \in Nat : NextSize(z) => NextSize(z)', qPc'[Consumer] = "consume"
        PROVE  InRead'
    <3>1. SizeRead(s)'
      BY <1>1, <1>2, <2>8 DEF SizeRead
    <3>2. PopIsOldest'
      BY <1>1, <1>3, <2>5, <2>6, <2>7 DEF PopIsOldest
    <3> QED
      BY <2>8, <3>1, <3>2 DEF InRead
  <2> QED
    BY <1>1, <2>1, <2>8, PopGoesOn
<1> QED
  BY <1>5, <1>6

\* With less in the ring a push knows no less.
LEMMA WritingLess ==
    ASSUME NEW pc, NEW m, m.size \in Nat, NEW avail, NEW buf, NEW i,
           NEW len \in Nat, NEW less \in Nat, less <= len, Writing(pc, m, avail, buf, i, len)
    PROVE  Writing(pc, m, avail, buf, i, less)
<1>1. /\ len + MetaSize + m.size <= QueueCap => less + MetaSize + m.size <= QueueCap
      /\ len + m.size <= QueueCap => less + m.size <= QueueCap
  BY QueueNumbers
<1> QED
  BY <1>1 DEF Writing

LEMMA PopConsumeInv == ASSUME MsgqInv, PopConsume PROVE MsgqInv'
<1>1. /\ MsgqTypes /\ OneAtATime /\ Stored /\ InWrite /\ PopIsOldest
      /\ qPc[Consumer] = "consume" /\ qPc[Consumer] # Idle /\ Consumer \in Threads
  BY ThreadFacts DEF MsgqInv, InRead, PopConsume, IsAt, Idle
<1>2. qSent # <<>> /\ qMeta = MetaBytes(qSent[1].size)
  BY <1>1 DEF PopIsOldest, IsAt
<1>3. /\ qIndex \in Indices /\ qOutdex \in Indices /\ qSent \in Seq(QueueMessage)
      /\ Length(qIndex, qOutdex) \in Nat /\ EndIn(qSent, qOutdex) \in Nat
      /\ \A th \in Producers : qMsg[th].size \in Nat
  BY <1>1, StateTypes
<1>4. 1 \in 1 .. Len(qSent) /\ qSent[1] \in QueueMessage /\ qSent[1].at = qOutdex
  BY <1>1, <1>2, FirstMessage
<1>5. PICK n \in Nat : n = MetaSize + qMeta[1][2] /\ n = EndOf(qSent[1], qOutdex)
  <2>1. qMeta[1][2] = qSent[1].size
    BY <1>2, SizeBytes
  <2>2. Length(qSent[1].at, qOutdex) = 0
    BY <1>3, <1>4, SelfLength
  <2>3. qSent[1].size \in Nat
    BY <1>4 DEF QueueMessage
  <2> QED
    BY <2>1, <2>2, <2>3, QueueNumbers DEF EndOf
<1>6. n <= EndIn(qSent, qOutdex) /\ n <= Length(qIndex, qOutdex)
  <2>1. n <= EndIn(qSent, qOutdex)
    BY <1>1, <1>3, <1>4, <1>5, ChainBound DEF Stored
  <2>2. EndIn(qSent, qOutdex) <= Length(qIndex, qOutdex)
    BY <1>1, EndWithin
  <2> QED
    BY <1>3, <2>1, <2>2
<1>7. /\ qOutdex' = Advance(qOutdex, n) /\ qSent' = Tail(qSent)
      /\ qPc' = [qPc EXCEPT ![Consumer] = Idle] /\ qOwner' = NoOne /\ qSeen' = 0
      /\ UNCHANGED <<qBuf, qIndex, qSync, qMsg, qAvail, qCall, qNextId>> /\ qSync' = qSync
  <2>1. ~(Length(qIndex, qOutdex) < n)
    BY <1>3, <1>6
  <2> QED
    BY <1>2, <1>5, <2>1 DEF PopConsume, PopReturns, Unlock, Goto, prodVars
<1>8. Idle \in PopStages
  BY DEF PopStages
<1>9. /\ qPc' \in [Threads -> PushStages \cup PopStages] /\ qPc'[Consumer] = Idle
      /\ \A t \in Producers : qPc'[t] = qPc[t] /\ qPc'[t] \in PushStages
      /\ \A t \in Threads : t # Consumer => qPc'[t] = qPc[t]
  BY <1>1, <1>7, <1>8, PopMoves
<1>10. OneAtATime' /\ qOwner' \in Threads \cup {NoOne}
  BY <1>1, <1>7, <1>9, Leaves
<1>11. /\ qSent' \in Seq(QueueMessage) /\ Chained(qSent', qOutdex')
       /\ EndIn(qSent', qOutdex') = EndIn(qSent, qOutdex) - n /\ Intact(qSent', qBuf')
  <2>1. Chained(qSent, qOutdex) /\ Intact(qSent, qBuf)
    BY <1>1 DEF Stored
  <2> QED
    BY <1>2, <1>3, <1>5, <1>7, <2>1, ChainTail, IntactTail
<1>12. qOutdex' \in Indices
  BY <1>3, <1>7, AdvanceType
<1>13. MsgqTypes'
  <2>1. qSeen' \in 0 .. QueueCap
    BY <1>7, QueueNumbers
  <2> QED
    BY <1>1, <1>7, <1>8, <1>9, <1>10, <1>11, <1>12, <2>1 DEF MsgqTypes, MsgqTypeOK
<1>14. PICK len \in Nat, less \in Nat : /\ len = Length(qIndex, qOutdex) /\ less = len - n
                                        /\ less = Length(qIndex', qOutdex')
  <2>1. Length(qIndex, Advance(qOutdex, n)) = Length(qIndex, qOutdex) - n
    BY <1>3, <1>6, Distances
  <2>2. Length(qIndex, qOutdex) - n \in Nat
    BY <1>3, <1>6
  <2> QED
    BY <1>3, <1>7, <2>1, <2>2
<1>15. InWrite'
  <2>1. ASSUME NEW t \in Producers
        PROVE  Writing(qPc'[t], qMsg'[t], qAvail'[t], qBuf', qIndex', Length(qIndex', qOutdex'))
    <3>1. Writing(qPc[t], qMsg[t], qAvail[t], qBuf, qIndex, len)
      BY <1>1, <1>14 DEF InWrite
    <3>2. less <= len
      BY <1>14
    <3>3. Writing(qPc[t], qMsg[t], qAvail[t], qBuf, qIndex, less)
      BY <1>3, <3>1, <3>2, WritingLess
    <3> QED
      BY <1>7, <1>9, <1>14, <3>3
  <2> QED
    BY <2>1 DEF InWrite
<1>16. Stored'
  <2>1. Length(qIndex', qOutdex') <= QueueCap
    <3>1. len <= QueueCap
      BY <1>1, <1>14 DEF Stored
    <3> QED
      BY <1>14, <3>1, QueueNumbers
  <2>2. ASSUME NEW t \in Producers, HalfOpen(qPc'[t], qMsg'[t])
        PROVE  /\ Length(qIndex', qOutdex') = EndIn(qSent', qOutdex') + MetaSize
               /\ HoldsAt(qBuf', Advance(qIndex', 0 - MetaSize), MetaBytes(qMsg'[t].size))
    <3>1. HalfOpen(qPc[t], qMsg[t])
      BY <1>7, <1>9, <2>2
    <3>2. /\ len = EndIn(qSent, qOutdex) + MetaSize
          /\ HoldsAt(qBuf, Advance(qIndex, 0 - MetaSize), MetaBytes(qMsg[t].size))
      BY <1>1, <1>14, <3>1 DEF Stored
    <3>3. less = (EndIn(qSent, qOutdex) - n) + MetaSize
      BY <1>3, <1>14, <3>2, QueueNumbers
    <3> QED
      BY <1>7, <1>11, <1>14, <3>2, <3>3
  <2>3. ASSUME \A t \in Producers : ~HalfOpen(qPc'[t], qMsg'[t])
        PROVE  Length(qIndex', qOutdex') = EndIn(qSent', qOutdex')
    <3>1. \A t \in Producers : ~HalfOpen(qPc[t], qMsg[t])
      BY <1>7, <1>9, <2>3
    <3>2. len = EndIn(qSent, qOutdex)
      BY <1>1, <1>14, <3>1 DEF Stored
    <3> QED
      BY <1>11, <1>14, <3>2
  <2> QED
    BY <1>11, <2>1, <2>2, <2>3 DEF Stored
<1>17. InRead'
  BY <1>9 DEF InRead, PopIsOldest, IsAt, Idle
<1> QED
  BY <1>10, <1>13, <1>15, <1>16, <1>17 DEF MsgqInv

LEMMA MsgqStep == MsgqInv /\ [MsgqNext]_msgqVars => MsgqInv'
<1> SUFFICES ASSUME MsgqInv, [MsgqNext]_msgqVars PROVE MsgqInv'
  OBVIOUS
<1>1. ASSUME NEW th \in Producers, NEW size \in Sizes, Push(th, size) PROVE MsgqInv'
  BY <1>1, PushInv
<1>2. ASSUME NEW th \in Producers, PushRoom(th) PROVE MsgqInv'
  BY <1>2, PushRoomInv
<1>3. ASSUME NEW th \in Producers,
             \/ WriteRoom(th, "writeMeta", "copyMeta")
             \/ WriteRoom(th, "writeData", "copyData")
      PROVE  MsgqInv'
  BY <1>3, WriteRoomInv
<1>4. ASSUME NEW th \in Producers,
             \/ WriteCopy(th, "copyMeta", "endMeta", MetaBytes(qMsg[th].size))
             \/ WriteCopy(th, "copyData", "endData", DataBytes(qMsg[th]))
      PROVE  MsgqInv'
  BY <1>4, WriteCopyInv
<1>5. ASSUME NEW th \in Producers, WriteMetaEnd(th) PROVE MsgqInv'
  BY <1>5, WriteMetaEndInv
<1>6. ASSUME NEW th \in Producers, WriteDataEnd(th) PROVE MsgqInv'
  BY <1>6, WriteDataEndInv
<1>7. ASSUME NEW c \in {"pop", "size"}, Call(c) PROVE MsgqInv'
  BY <1>7, CallInv
<1>8. CASE PeekLength("lenMeta", "copyMeta") \/ PeekLength("lenData", "copyData")
  BY <1>8, PeekLengthInv
<1>9. CASE PeekMeta
  BY <1>9, PeekMetaInv
<1>10. CASE PeekData
  BY <1>10, PeekDataInv
<1>11. CASE PopFails
  BY <1>11, PopFailsInv
<1>12. CASE PopConsume
  BY <1>12, PopConsumeInv
<1>13. CASE UNCHANGED msgqVars
  <2>1. /\ UNCHANGED <<qBuf, qIndex, qOutdex, qOwner, qPc, qMsg, qAvail, qCall, qSeen, qMeta, qData, qSent, qNextId>>
        /\ qSync' = qSync
    BY <1>13 DEF msgqVars, queueVars, prodVars, consVars
  <2>2. MsgqTypes' /\ OneAtATime'
    BY <2>1 DEF MsgqInv, MsgqTypes, MsgqTypeOK, OneAtATime
  <2>3. Stored' /\ InWrite'
    BY <2>1 DEF MsgqInv, Stored, InWrite
  <2>4. \A s \in Nat : SizeRead(s) => SizeRead(s)'
    BY <2>1 DEF SizeRead, NextSize
  <2>5. InRead'
    BY <2>1, <2>4 DEF MsgqInv, InRead, PopIsOldest, IsAt
  <2> QED
    BY <2>2, <2>3, <2>5 DEF MsgqInv
<1> QED
  BY <1>1, <1>2, <1>3, <1>4, <1>5, <1>6, <1>7, <1>8, <1>9, <1>10, <1>11, <1>12, <1>13 DEF MsgqNext

LEMMA MsgqInitInv == MsgqInit => MsgqInv
<1> SUFFICES ASSUME MsgqInit PROVE MsgqInv
  OBVIOUS
<1>1. 0 \in Indices /\ Idle \in PushStages /\ Idle \in PopStages
  BY QueueNumbers DEF Indices, PushStages, PopStages
<1>2. \A th \in Threads : qPc[th] = Idle
  BY DEF MsgqInit
<1>3. \A th \in Producers : qPc[th] = Idle
  BY <1>2, ThreadFacts
<1>4. MsgqTypes
  <2>1. MsgqTypeOK
    <3>1. qMsg \in [Producers -> [id : 0 .. QueueIds - 1, size : Sizes \cup {0}]]
      BY NoMessage DEF MsgqInit, NoMsg
    <3> QED
      BY <1>1, <3>1, QueueNumbers DEF MsgqInit, MsgqTypeOK
  <2>2. qPc \in [Threads -> PushStages \cup PopStages] /\ qPc[Consumer] \in PopStages
    BY <1>1, ThreadFacts DEF MsgqInit
  <2>3. qAvail \in [Producers -> Nat] /\ qNextId \in 0 .. QueueIds - 1 /\ qSent \in Seq(QueueMessage)
    BY MsgqAssumption DEF MsgqInit
  <2> QED
    BY <1>1, <1>3, <2>1, <2>2, <2>3 DEF MsgqTypes
<1>5. OneAtATime
  BY <1>2 DEF OneAtATime
<1>6. Length(qIndex, qOutdex) = 0 /\ EndIn(qSent, qOutdex) = 0
  BY <1>1, SelfLength DEF MsgqInit, EndIn
<1>7. Chained(qSent, qOutdex) /\ Intact(qSent, qBuf)
  BY DEF MsgqInit, Chained, Intact
<1>8. Stored
  BY <1>3, <1>6, <1>7, IdleIsNowhere, QueueNumbers DEF Stored, HalfOpen
<1>9. InWrite
  BY <1>3, IdleIsNowhere DEF InWrite, Writing, MetaStages, DataStages
<1>10. InRead
  BY <1>2, ThreadFacts DEF InRead, PopIsOldest, IsAt, Idle
<1> QED
  BY <1>4, <1>5, <1>8, <1>9, <1>10 DEF MsgqInv

LEMMA MsgqInvImplies == MsgqInv => MsgqExact
<1> SUFFICES ASSUME MsgqInv PROVE MsgqExact
  OBVIOUS
<1>1. MsgqTypes /\ Stored /\ MsgqTypeOK /\ PopIsOldest
  BY DEF MsgqInv, MsgqTypes, InRead
<1>2. /\ qIndex \in Indices /\ qOutdex \in Indices /\ qSent \in Seq(QueueMessage)
      /\ Length(qIndex, qOutdex) \in Nat /\ EndIn(qSent, qOutdex) \in Nat
  BY <1>1, StateTypes
<1>3. SentEnd = EndIn(qSent, qOutdex)
  BY DEF SentEnd, EndIn, EndOf, End, Offset
<1>4. ASSUME NEW k \in 1 .. Len(qSent)
      PROVE  /\ Offset(qSent[k].at) = IF k = 1 THEN 0 ELSE End(qSent[k - 1])
             /\ HoldsAt(qBuf, qSent[k].at, MetaBytes(qSent[k].size))
             /\ HoldsAt(qBuf, qSent[k].at + MetaSize, DataBytes(qSent[k]))
  <2>1. qSent # <<>> /\ Chained(qSent, qOutdex) /\ Intact(qSent, qBuf)
    BY <1>1, <1>2 DEF Stored
  <2>2. CASE k = 1
    BY <2>1, <2>2 DEF Chained, Offset, Intact
  <2>3. CASE k > 1
    BY <2>1, <2>3 DEF Chained, Offset, End, EndOf, Intact
  <2> QED
    BY <2>2, <2>3
<1>5. \A th \in Producers : th \in Halfway <=> HalfOpen(qPc[th], qMsg[th])
  BY DEF Halfway, HalfOpen, DataStages
<1>6. ASSUME NEW th \in Halfway
      PROVE  /\ Length(qIndex, qOutdex) = SentEnd + MetaSize
             /\ HoldsAt(qBuf, qOutdex + SentEnd, MetaBytes(qMsg[th].size))
  <2>1. th \in Producers /\ HalfOpen(qPc[th], qMsg[th])
    BY <1>5 DEF Halfway
  <2>2. /\ Length(qIndex, qOutdex) = EndIn(qSent, qOutdex) + MetaSize
        /\ HoldsAt(qBuf, Advance(qIndex, 0 - MetaSize), MetaBytes(qMsg[th].size))
        /\ Length(qIndex, qOutdex) <= QueueCap
    BY <1>1, <2>1 DEF Stored
  <2>3. PICK at \in Indices : at = Advance(qIndex, 0 - MetaSize)
    BY <1>2, AdvanceType, QueueNumbers
  <2>4. MetaSize \in Nat /\ MetaSize <= Length(qIndex, qOutdex)
    BY <1>2, <2>2, QueueNumbers
  <2>5. Length(at, qOutdex) = Length(qIndex, qOutdex) - MetaSize
    BY <1>2, <2>3, <2>4, Distances
  <2>6. PICK e \in -QueueCap .. QueueCap : e = EndIn(qSent, qOutdex) /\ e = Length(at, qOutdex)
    BY <1>2, <2>2, <2>4, <2>5, QueueNumbers
  <2>7. Advance(qOutdex, e) = at
    BY <1>2, <2>6, Reaches
  <2>8. PICK bytes : bytes = MetaBytes(qMsg[th].size) /\ Len(bytes) \in Nat
    BY SizeBytes, QueueNumbers
  <2>9. HoldsAt(qBuf, qOutdex + e, bytes)
    BY <1>2, <2>2, <2>3, <2>7, <2>8, HoldsWrapped
  <2> QED
    BY <1>3, <2>2, <2>6, <2>8, <2>9
<1>7. \/ Halfway = {} /\ Length(qIndex, qOutdex) = SentEnd
      \/ \E th \in Halfway :
           /\ Length(qIndex, qOutdex) = SentEnd + MetaSize
           /\ HoldsAt(qBuf, qOutdex + SentEnd, MetaBytes(qMsg[th].size))
  <2>1. CASE Halfway = {}
    <3>1. \A th \in Producers : ~HalfOpen(qPc[th], qMsg[th])
      BY <1>5, <2>1
    <3> QED
      BY <1>1, <1>3, <2>1, <3>1 DEF Stored
  <2>2. CASE Halfway # {}
    BY <1>6, <2>2
  <2> QED
    BY <2>1, <2>2
<1>8. RingHoldsMessages
  BY <1>1, <1>4, <1>7 DEF RingHoldsMessages, Stored
<1> QED
  BY <1>1, <1>8 DEF MsgqExact

\* msgq_push and msgq_pop, with and without msgq_set_sync: the ring always holds
\* the messages pushed and not popped, whole and in order, and a pop returns the
\* oldest although it copied size and data some steps before it consumes them.
THEOREM MessagesInOrder == MsgqSpec => []MsgqExact
<1>1. MsgqSpec => []MsgqInv
  BY MsgqInitInv, MsgqStep, PTL DEF MsgqSpec
<1> QED
  BY <1>1, MsgqInvImplies, PTL
=============================================================================
