------------------------------ MODULE MetricFs ------------------------------
(***************************************************************************)
(* The queue of encoded reports of modules/metrics/src/metricfs.c, kept in *)
(* a key-value store: one record per report under its identifier, and the  *)
(* two counters index and outdex.  A step is one call of the store, so     *)
(* power may be lost, or the call may fail, between any two.  The store    *)
(* answers a write with the number of bytes written, as this module        *)
(* expects.  Identifiers wrap at IdSpace (2^16 in the code).               *)
(***************************************************************************)
EXTENDS Naturals, FiniteSets

CONSTANTS
    IdSpace, MaxMetrics,
    Reports,
    NoReport,       \* what the store answers for a key it does not have
    FsMaxFaults

\* A clear whose last call fails leaves the stored outdex behind.  The faults are
\* too few for it to fall behind by all identifiers.
ASSUME FsAssumption ==
    /\ IdSpace \in Nat /\ MaxMetrics \in Nat \ {0} /\ FsMaxFaults \in Nat
    /\ MaxMetrics * (FsMaxFaults + 1) < IdSpace

VARIABLES
    kv,        \* the store: [rec, index, outdex]
    fs,        \* struct metricfs: the counters in memory
    fsTask,    \* the call in progress
    held,      \* ghost: the report each identifier was acknowledged with
    fsFaults   \* ghost

fsVars == <<kv, fs, fsTask, held, fsFaults>>

Ids == 0..(IdSpace - 1)
Inc(id) == (id + 1) % IdSpace
FsIdle == [pc |-> "idle"]

CountMetrics(f) == ((f.index - f.outdex) + IdSpace) % IdSpace

\* The identifiers between outdex and index.
Window(f) == {id \in Ids : ((id + IdSpace) - f.outdex) % IdSpace < CountMetrics(f)}

FsInit ==
    /\ kv = [rec |-> [id \in Ids |-> NoReport], index |-> 0, outdex |-> 0]
    /\ fs = [index |-> 0, outdex |-> 0]
    /\ fsTask = FsIdle
    /\ held = [id \in Ids |-> NoReport]
    /\ fsFaults = 0

FsStart(pc) == fsTask = FsIdle /\ fsTask' = [pc |-> pc] /\ UNCHANGED <<kv, fs, held, fsFaults>>

FsWrite(d) ==
    /\ CountMetrics(fs) < MaxMetrics
    /\ fsTask = FsIdle
    /\ fsTask' = [pc |-> "data", data |-> d]
    /\ UNCHANGED <<kv, fs, held, fsFaults>>

WriteData ==
    /\ fsTask.pc = "data"
    /\ kv' = [kv EXCEPT !.rec[fs.index] = fsTask.data]
    /\ fsTask' = [fsTask EXCEPT !.pc = "index"]
    /\ UNCHANGED <<fs, held, fsFaults>>

\* A bug the runs must notice: the counter is only kept in memory.
WriteIndexVolatile ==
    /\ fsTask.pc = "index"
    /\ fs' = [fs EXCEPT !.index = Inc(@)]
    /\ held' = [held EXCEPT ![fs.index] = fsTask.data]
    /\ fsTask' = FsIdle
    /\ UNCHANGED <<kv, fsFaults>>

\* update_index persists the counter before the copy in memory follows.
WriteIndex ==
    /\ fsTask.pc = "index"
    /\ kv' = [kv EXCEPT !.index = Inc(fs.index)]
    /\ fs' = [fs EXCEPT !.index = Inc(@)]
    /\ held' = [held EXCEPT ![fs.index] = fsTask.data]
    /\ fsTask' = FsIdle
    /\ UNCHANGED fsFaults

\* metricfs_del_first, and metricfs_read_first once it has read (or has found nothing).
DelFirst == CountMetrics(fs) > 0 /\ FsStart("del")

DelRecord ==
    /\ fsTask.pc = "del"
    /\ kv' = [kv EXCEPT !.rec[fs.outdex] = NoReport]
    /\ held' = [held EXCEPT ![fs.outdex] = NoReport]
    /\ fsTask' = [fsTask EXCEPT !.pc = "outdex"]
    /\ UNCHANGED <<fs, fsFaults>>

DelOutdex ==
    /\ fsTask.pc = "outdex"
    /\ kv' = [kv EXCEPT !.outdex = Inc(fs.outdex)]
    /\ fs' = [fs EXCEPT !.outdex = Inc(@)]
    /\ fsTask' = FsIdle
    /\ UNCHANGED <<held, fsFaults>>

ClearAll == CountMetrics(fs) > 0 /\ FsStart("clear")

\* on_clear_iteration moves outdex in memory whether or not the record went.
ClearOne ==
    /\ fsTask.pc = "clear"
    /\ CountMetrics(fs) > 0
    /\ \/ kv' = [kv EXCEPT !.rec[fs.outdex] = NoReport] /\ UNCHANGED fsFaults
       \/ fsFaults < FsMaxFaults /\ fsFaults' = fsFaults + 1 /\ UNCHANGED kv
    /\ held' = [held EXCEPT ![fs.outdex] = NoReport]
    /\ fs' = [fs EXCEPT !.outdex = Inc(@)]
    /\ UNCHANGED fsTask

ClearOutdex ==
    /\ fsTask.pc = "clear"
    /\ CountMetrics(fs) = 0
    /\ kv' = [kv EXCEPT !.outdex = fs.outdex]
    /\ fsTask' = FsIdle
    /\ UNCHANGED <<fs, held, fsFaults>>

\* The pending call of the store fails and its error is returned.
CallFails ==
    /\ fsTask # FsIdle
    /\ fsTask.pc = "clear" => CountMetrics(fs) = 0
    /\ fsFaults < FsMaxFaults
    /\ fsFaults' = fsFaults + 1
    /\ fsTask' = FsIdle
    /\ UNCHANGED <<kv, fs, held>>

\* Power is lost; metricfs_create reads the counters back.
FsRestart ==
    /\ fsFaults < FsMaxFaults
    /\ fsFaults' = fsFaults + 1
    /\ fsTask' = FsIdle
    /\ fs' = [index |-> kv.index, outdex |-> kv.outdex]
    /\ UNCHANGED <<kv, held>>

FsNext ==
    \/ \E d \in Reports : FsWrite(d)
    \/ WriteData
    \/ WriteIndex
    \/ DelFirst
    \/ DelRecord
    \/ DelOutdex
    \/ ClearAll
    \/ ClearOne
    \/ ClearOutdex
    \/ CallFails
    \/ FsRestart

FsSpec == FsInit /\ [][FsNext]_fsVars

-----------------------------------------------------------------------------
\* A report metricfs_write acknowledged stays readable under its identifier
\* until it is deleted or cleared, across failing calls, restarts between any
\* two calls of the store, and the wrap of the identifiers.
ReportsReadable ==
    \A id \in Ids : held[id] # NoReport => id \in Window(fs) /\ kv.rec[id] = held[id]
=============================================================================
