------------------------------ MODULE MCStores ------------------------------
(***************************************************************************)
(* Small instances of the modules that keep data: the key-value stores     *)
(* (FlashKvstore, Nvs), the reports kept in one (MetricFs), the metric     *)
(* table (Metrics), firmware slots (OtaImg), log levels (Logging)          *)
(* and the ring buffer with the message queue on it (ByteRing, Msgq). One  *)
(* module explores them side by side: sel, chosen in the initial state,    *)
(* says which of them runs, so their state spaces add up and do not        *)
(* multiply.  FlashKvstore is an instance, the others are extended.        *)
(***************************************************************************)
EXTENDS OtaImg, MetricFs, Nvs, Metrics, Logging, ByteRing, Msgq, FiniteSets

CONSTANTS NoValue, k1, k2, v1, v2

\* One value fills two lines of the flash, the other one.
ValueLen == [v \in {v1, v2} |-> IF v = v1 THEN 4 ELSE 2]

\* What is written to the ring buffer.
InputSet == {<<1>>, <<2, 1>>, <<1, 2, 2>>}

VARIABLES
    sel,    \* the module whose behaviours this one explores
    kv_flash, kv_task, kv_want, kv_torn, kv_faults, kv_stale, kv_eraseFailed,
    kv_misread

kvVars == <<kv_flash, kv_task, kv_want, kv_torn, kv_faults, kv_stale,
            kv_eraseFailed, kv_misread>>
KV == INSTANCE FlashKvstore WITH
    Keys <- {k1, k2}, Vals <- {v1, v2}, None <- NoValue, LenOf <- ValueLen,
    Line <- 2, NSlots <- 4, DataSize <- 10, MaxFaults <- 1, flash <- kv_flash,
    task <- kv_task, want <- kv_want, torn <- kv_torn, faults <- kv_faults,
    stale <- kv_stale, eraseFailed <- kv_eraseFailed,
    misread <- kv_misread

-----------------------------------------------------------------------------
Components ==
    {"FlashKvstore", "MetricFs", "NvsEsp", "NvsNrf", "Metrics", "OtaImg",
     "Logging", "ByteRing", "Msgq"}

SuiteInit ==
    /\ sel \in Components
    /\ KV!Init /\ FsInit /\ NvsInit /\ TableInit /\ OtaInit
    /\ LogInit /\ RingInit /\ MsgqInit
    /\ sel # "OtaImg" => image = "v1"
    /\ sel # "Msgq" => qSync = FALSE

\* A step of the selected module; every other stays in its initial state.
SuiteNext ==
    /\ UNCHANGED sel
    /\ IF sel = "FlashKvstore" THEN KV!Next ELSE UNCHANGED kvVars
    /\ IF sel = "MetricFs" THEN FsNext ELSE UNCHANGED fsVars
    /\ IF sel = "NvsEsp" THEN NvsEspNext ELSE UNCHANGED espNvsVars
    /\ IF sel = "NvsNrf" THEN FdsNext ELSE UNCHANGED fdsVars
    /\ IF sel = "Metrics" THEN TableNext ELSE UNCHANGED tableVars
    /\ IF sel = "OtaImg" THEN OtaNext ELSE UNCHANGED otaVars
    /\ IF sel = "Logging" THEN LogNext ELSE UNCHANGED logVars
    /\ IF sel = "ByteRing" THEN RingNext ELSE UNCHANGED ringVars
    /\ IF sel = "Msgq" THEN MsgqNext ELSE UNCHANGED msgqVars

suiteVars == <<sel, kvVars, fsVars, nvsVars, tableVars, otaVars, logVars, ringVars,
               msgqVars>>

SuiteSpec == SuiteInit /\ [][SuiteNext]_suiteVars

-----------------------------------------------------------------------------
\* Without faults the flash store reads back what was last written, reclaims
\* included; and up to the state in which a fault leaves it, unless that fault
\* made a reclaim skip or confuse an entry, a partition holds every
\* acknowledged value.
KvstoreDurable == sel = "FlashKvstore" => KV!ReadsBack /\ KV!OnePartitionComplete

\* reclaim: `It should keep at least one validate partition even if an error
\* occurs in the middle of flash processing', a failing erase included.
OnePartitionWhateverFails == KV!OnePartitionWhateverFails
=============================================================================
