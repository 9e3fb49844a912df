-------------------------------- MODULE Nvs ---------------------------------
(***************************************************************************)
(* The two key-value stores of the ports: ports/esp-idf/nvs_kvstore.c over *)
(* the NVS library of ESP-IDF (external), where a change is only sure to   *)
(* be on flash after nvs_commit; and ports/nrf52/nvs_kvstore.c over FDS    *)
(* (external), which queues writes, updates and deletions and executes     *)
(* them later, one step at a time.                                         *)
(***************************************************************************)
EXTENDS Naturals, Sequences, FiniteSets, FiniteSetsExt

CONSTANTS
    NvsKeys, NvsValues, NoBlob,
    FdsKeys, FdsValues, MaxOps, MaxRecords, NoRecord

ASSUME NvsAssumption ==
    /\ NoRecord \notin FdsValues
    /\ NoRecord \notin [key : FdsKeys, val : FdsValues]

VARIABLES
    nvs_opened,  \* self->handle is an open namespace
    nvs_ram,     \* external: the values NVS answers with
    nvs_flash,   \* external: those committed
    nvs_kept     \* ghost: the value of the last write that returned its size

VARIABLES
    fds_initialized,
    fds_records,     \* external: fds_records[id] = [key, val], or NoRecord once deleted
    fds_ops,         \* external: the queue of [op, id, key, val], where val is what
                     \* the caller's buffer, to which p_data points, holds now
    fds_expect,      \* ghost: the value (or NoRecord) last asked for, by key
    fds_asked,       \* ghost: all values that were asked for, by key
    fds_reused,      \* ghost: keys whose buffer changed before it was written
    fds_disturbed    \* ghost: those, the ones changed with an operation pending, and
                     \* the ones with an operation that failed

espNvsVars == <<nvs_opened, nvs_ram, nvs_flash, nvs_kept>>
fdsVars == <<fds_initialized, fds_records, fds_ops, fds_expect, fds_asked, fds_reused,
             fds_disturbed>>
nvsVars == <<espNvsVars, fdsVars>>

-----------------------------------------------------------------------------
\* ESP-IDF.
NvsEspInit ==
    /\ nvs_opened = FALSE
    /\ nvs_ram = [k \in NvsKeys |-> NoBlob]
    /\ nvs_flash = nvs_ram
    /\ nvs_kept = nvs_ram

NvsOpen == nvs_opened' = TRUE /\ UNCHANGED <<nvs_ram, nvs_flash, nvs_kept>>
NvsClose == nvs_opened /\ nvs_opened' = FALSE /\ UNCHANGED <<nvs_ram, nvs_flash, nvs_kept>>

\* A bug the runs must notice: the write returns before the commit.
NvsWriteUncommitted(k, v) ==
    /\ nvs_opened
    /\ nvs_ram' = [nvs_ram EXCEPT ![k] = v]
    /\ nvs_kept' = [nvs_kept EXCEPT ![k] = v]
    /\ UNCHANGED <<nvs_opened, nvs_flash>>

\* set_blob, then commit, either of which may fail: the size only if both worked.
NvsWrite(k, v) ==
    /\ nvs_opened
    /\ nvs_ram' = [nvs_ram EXCEPT ![k] = v]
    /\ \/ nvs_flash' = nvs_ram' /\ nvs_kept' = [nvs_kept EXCEPT ![k] = v]
       \/ UNCHANGED nvs_flash /\ nvs_kept' = [nvs_kept EXCEPT ![k] = NoBlob]
    /\ UNCHANGED nvs_opened

\* The erasure is not committed.
NvsErase(k) ==
    /\ nvs_opened /\ nvs_ram[k] # NoBlob
    /\ nvs_ram' = [nvs_ram EXCEPT ![k] = NoBlob]
    /\ nvs_kept' = [nvs_kept EXCEPT ![k] = NoBlob]
    /\ UNCHANGED <<nvs_opened, nvs_flash>>

NvsRead(k) == IF nvs_opened THEN nvs_ram[k] ELSE NoBlob

\* Power fails: of what was not committed, any part may have reached the flash.
NvsPowerLoss ==
    /\ nvs_opened' = FALSE
    /\ nvs_ram' \in [NvsKeys -> NvsValues \cup {NoBlob}]
    /\ \A k \in NvsKeys : nvs_ram'[k] \in {nvs_ram[k], nvs_flash[k]}
    /\ nvs_flash' = nvs_ram'
    /\ UNCHANGED nvs_kept

NvsEspNext ==
    \/ NvsOpen \/ NvsClose \/ NvsPowerLoss
    \/ \E k \in NvsKeys : NvsErase(k) \/ \E v \in NvsValues : NvsWrite(k, v)

-----------------------------------------------------------------------------
\* nRF52.
FdsInit ==
    /\ fds_initialized = FALSE
    /\ fds_records = <<>> /\ fds_ops = <<>>
    /\ fds_expect = [k \in FdsKeys |-> NoRecord]
    /\ fds_asked = [k \in FdsKeys |-> {}]
    /\ fds_reused = {} /\ fds_disturbed = {}

\* nvs_kvstore_new waits for the event of fds_init.
FdsNew ==
    /\ ~fds_initialized
    /\ fds_initialized' = TRUE
    /\ UNCHANGED <<fds_records, fds_ops, fds_expect, fds_asked, fds_reused, fds_disturbed>>

\* fds_record_find: the first record of the key, 0 when there is none.
HasRecord(k) ==
    LET found == {id \in DOMAIN fds_records : fds_records[id] # NoRecord /\ fds_records[id].key = k}
    IN  IF found = {} THEN 0 ELSE Min(found)

Pending(k) == \E i \in DOMAIN fds_ops : fds_ops[i].key = k

\* fds_record_write, _update and _delete put the operation in the queue and
\* return; the record's data stays where the caller has it.
FdsQueue(op, k, v) ==
    /\ fds_initialized /\ Len(fds_ops) < MaxOps
    /\ fds_ops' = Append(fds_ops, [op |-> op, id |-> HasRecord(k), key |-> k, val |-> v])
    /\ fds_disturbed' = IF Pending(k) THEN fds_disturbed \cup {k} ELSE fds_disturbed
    /\ fds_expect' = [fds_expect EXCEPT ![k] = v]
    /\ fds_asked' = [fds_asked EXCEPT ![k] = IF v = NoRecord THEN @ ELSE @ \cup {v}]
    /\ UNCHANGED <<fds_initialized, fds_records, fds_reused>>

\* A bug the runs must notice: a second record instead of an update.
FdsWriteNew(k, v) == FdsQueue("write", k, v)

FdsWrite(k, v) == FdsQueue(IF HasRecord(k) = 0 THEN "write" ELSE "update", k, v)

FdsDelete(k) == HasRecord(k) # 0 /\ FdsQueue("delete", k, NoRecord)

FdsRead(k) == IF HasRecord(k) = 0 THEN NoRecord ELSE fds_records[HasRecord(k)].val

\* The caller of a write that has returned uses its buffer for something else.
FdsBufferReused(i, v) ==
    /\ fds_ops[i].op # "delete"
    /\ fds_ops' = [fds_ops EXCEPT ![i].val = v]
    /\ fds_reused' = fds_reused \cup {fds_ops[i].key}
    /\ fds_disturbed' = fds_disturbed \cup {fds_ops[i].key}
    /\ UNCHANGED <<fds_initialized, fds_records, fds_expect, fds_asked>>

\* FDS: an update writes the new record, then deletes the one it was found as.
FdsExecute ==
    LET op == Head(fds_ops)
        added == IF op.op = "delete" THEN fds_records
                 ELSE Append(fds_records, [key |-> op.key, val |-> op.val])
    IN  /\ fds_ops # <<>> /\ Len(added) <= MaxRecords
        /\ fds_ops' = Tail(fds_ops)
        /\ fds_records' = IF op.op = "write" THEN added ELSE [added EXCEPT ![op.id] = NoRecord]
        /\ UNCHANGED <<fds_initialized, fds_expect, fds_asked, fds_reused, fds_disturbed>>

\* fds_evt_handler reports an operation that failed and that is all.
FdsFail ==
    /\ fds_ops # <<>>
    /\ fds_ops' = Tail(fds_ops)
    /\ fds_disturbed' = fds_disturbed \cup {Head(fds_ops).key}
    /\ UNCHANGED <<fds_initialized, fds_records, fds_expect, fds_asked, fds_reused>>

FdsCount == Cardinality({id \in DOMAIN fds_records : fds_records[id] # NoRecord})

FdsNext ==
    \/ FdsNew \/ FdsExecute \/ FdsFail
    \/ \E k \in FdsKeys : FdsDelete(k) \/ \E v \in FdsValues : FdsWrite(k, v)
    \/ \E i \in DOMAIN fds_ops, v \in FdsValues : FdsBufferReused(i, v)

-----------------------------------------------------------------------------
\* A device has one of the two.
NvsInit == NvsEspInit /\ FdsInit

NvsNext ==
    \/ NvsEspNext /\ UNCHANGED fdsVars
    \/ FdsNext /\ UNCHANGED espNvsVars

NvsSpec == NvsInit /\ [][NvsNext]_nvsVars

-----------------------------------------------------------------------------
\* A value whose write returned its size is read back, also after power was
\* lost.  (Nothing is promised of a key whose last write failed or was erased:
\* the erasure is not committed and the old value may come back.)
NvsWritesDurable == nvs_opened => \A k \in NvsKeys : nvs_kept[k] # NoBlob => NvsRead(k) = nvs_kept[k]

\* When the queue has run dry, a key none of whose operations failed, was asked
\* for with another pending or was written from a buffer its caller had used
\* again reads as the last call left it, and if all keys are such the store holds
\* one record for each.
FdsSettles ==
    fds_ops = <<>> =>
        /\ \A k \in FdsKeys \ fds_disturbed : FdsRead(k) = fds_expect[k]
        /\ fds_disturbed = {} => FdsCount = Cardinality({k \in FdsKeys : fds_expect[k] # NoRecord})

\* Operations that overlap may leave an old value or two records of a key, but
\* as long as the callers leave their buffers alone, what is read under a key,
\* with operations queued or not, was once written under it.
FdsNothingInvented ==
    \A k \in FdsKeys \ fds_reused : FdsRead(k) \in fds_asked[k] \cup {NoRecord}

\* On both vendors' stores an acknowledged write is read back: on ESP after a
\* loss of power, on nRF once its queued operation has run, if its buffer was
\* left alone until then and nothing else was queued for the key; and overlapping
\* operations on nRF mix up old and new values of a key, but nothing else.
NvsWritesKept == NvsWritesDurable /\ FdsSettles /\ FdsNothingInvented
=============================================================================
