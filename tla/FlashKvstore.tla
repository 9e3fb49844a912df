---------------------------- MODULE FlashKvstore ----------------------------
(***************************************************************************)
(* The key-value store of ports/kvstore/flash_kvstore.c: a table of meta   *)
(* entries followed by data lines, in a storage partition and in a scratch *)
(* partition of the same size, which reclaim uses to drop dead entries.    *)
(* A step is one flash operation, so that power may be lost, or a flash    *)
(* call may fail, between any two of them.  A key stands for its pair of   *)
(* hashes.  The build without FLASH_OVERWRITE, with a scratch partition.   *)
(***************************************************************************)
EXTENDS Naturals, FiniteSets, FiniteSetsExt, TLC

CONSTANTS
    Keys,
    Vals,
    None,        \* no value: the key does not exist
    LenOf,       \* LenOf[v] is the length of the value v in bytes
    Line,        \* FLASH_LINE_ALIGN_BYTES
    NSlots,      \* entries of the meta table
    DataSize,    \* bytes of the data area
    MaxFaults    \* bound on faults

VARIABLES
    flash,       \* the contents of both partitions
    task,        \* the flash operation in progress
    want,        \* ghost: what the acknowledged writes leave under each key
    torn,        \* ghost: keys whose meta entry is written and value is not
    faults,      \* ghost: number of faults so far
    stale,       \* ghost: an operation began on a damaged storage
    eraseFailed, \* ghost: an erase has failed
    misread      \* ghost: a failing read made a reclaim skip or confuse an entry

vars == <<flash, task, want, torn, faults, stale, eraseFailed, misread>>

Free == [free |-> TRUE]
Erased == <<>>              \* content of a byte of erased flash
Mixed == <<"mixed">>        \* and of one programmed twice
Blank == [meta |-> [s \in 1..NSlots |-> Free],
          data |-> [b \in 0..(DataSize - 1) |-> Erased]]
Idle == [pc |-> "idle"]
Size(v) == IF v = None THEN 0 ELSE LenOf[v]

Program(old, new) == IF old \in {Erased, new} THEN new ELSE Mixed

Align(n) == ((n + Line - 1) \div Line) * Line

-----------------------------------------------------------------------------
(* Lookups in one partition p, a record of its meta table and its data.    *)

IsFreeEntry(e) == e = Free

SlotsOf(p, k) == {s \in 1..NSlots : ~IsFreeEntry(p.meta[s]) /\ p.meta[s].key = k}

\* A bug the runs must notice: the first entry of a key instead of the last.
FindMetaFirst(p, k) == p.meta[Min(SlotsOf(p, k))]

\* The last entry of a key is the latest one.
FindMeta(p, k) == p.meta[Max(SlotsOf(p, k))]

FindKey(p, k) == SlotsOf(p, k) # {} /\ FindMeta(p, k).len > 0

\* The end of the data in use; an entry ending at the very end does not count.
NewDataOffset(p) ==
    Max({0} \cup {t \in {Align(p.meta[s].off + p.meta[s].len) :
                            s \in {x \in 1..NSlots : ~IsFreeEntry(p.meta[x])}} :
                    t < DataSize})

FreeSlots(p) == {s \in 1..NSlots : IsFreeEntry(p.meta[s])}

CanAlloc(p, size) == FreeSlots(p) # {} /\ NewDataOffset(p) + size < DataSize

AllocEntry(p, k, size) ==
    [slot |-> Min(FreeSlots(p)), entry |-> [key |-> k, off |-> NewDataOffset(p), len |-> size]]

WriteMeta(p, a) == [p EXCEPT !.meta[a.slot] = a.entry]

Bytes(v) == [i \in 0..(LenOf[v] - 1) |-> <<v, i>>]

WriteValue(p, v, e) ==
    IF v = None THEN p
    ELSE [p EXCEPT !.data = [b \in DOMAIN @ |->
            IF b \in e.off..(e.off + e.len - 1) THEN Program(@[b], Bytes(v)[b - e.off]) ELSE @[b]]]

\* What kvstore_read returns: None, a value, or bytes that are no value.
Read(p, k) ==
    IF ~FindKey(p, k) THEN None
    ELSE LET e == FindMeta(p, k) IN [i \in 0..(e.len - 1) |-> p.data[e.off + i]]

-----------------------------------------------------------------------------
Init ==
    /\ flash = [storage |-> Blank, scratch |-> Blank]
    /\ task = Idle
    /\ want = [k \in Keys |-> None]
    /\ torn = {}
    /\ faults = 0
    /\ stale = FALSE
    /\ eraseFailed = FALSE
    /\ misread = FALSE

Complete(p) ==
    \A k \in Keys \ torn :
        Read(flash[p], k) = IF want[k] = None THEN None ELSE Bytes(want[k])

\* do_write after alloc_entry: go on with the entry found, or give up.
Proceed(p, k, v) ==
    task' = IF CanAlloc(p, Size(v))
              THEN [pc |-> "meta", key |-> k, val |-> v, at |-> AllocEntry(p, k, Size(v))]
              ELSE Idle

Move(from, to, k, v) == task' = [pc |-> "erase", key |-> k, val |-> v, from |-> from, to |-> to]

DoWrite(k, v) ==
    /\ task = Idle
    /\ stale' = (stale \/ ~Complete("storage"))
    /\ IF CanAlloc(flash.storage, Size(v)) THEN Proceed(flash.storage, k, v)
       ELSE Move("storage", "scratch", k, v)
    /\ UNCHANGED <<flash, want, torn, faults, eraseFailed, misread>>

Write(k, v) == DoWrite(k, v)

\* flash_kvstore_erase writes an entry of length zero.
Clear(k) == FindKey(flash.storage, k) /\ DoWrite(k, None)

\* move_partition erases its target; what the erase returns is ignored.
ErasePartition ==
    /\ task.pc = "erase"
    /\ task' = [task EXCEPT !.pc = "scan"] @@ [i |-> 1]
    /\ \/ flash' = [flash EXCEPT ![task.to] = Blank] /\ UNCHANGED <<faults, eraseFailed>>
       \/ /\ faults < MaxFaults
          /\ faults' = faults + 1
          /\ eraseFailed' = TRUE
          /\ UNCHANGED flash
    /\ UNCHANGED <<want, torn, stale, misread>>

\* Entries of the source whose key has a value there.
Live(s) ==
    LET from == flash[task.from]
        e == from.meta[s]
    IN  /\ ~IsFreeEntry(e)
        /\ FindMeta(from, e.key).len > 0
        /\ FindMeta(from, e.key).off <= DataSize

\* The entries of its key in the target: find_meta(to).
Copies(s) == SlotsOf(flash[task.to], flash[task.from].meta[s].key)

\* They are copied unless the key is in the target already.
Movable(s) == Live(s) /\ Copies(s) = {}

\* A bug the runs must notice: the scan stops one entry early.
ToMoveShort == {s \in task.i..(NSlots - 1) : Movable(s)}

ToMove == {s \in task.i..NSlots : Movable(s)}

\* The latest entry of the key in slot s.
Latest(s) == FindMeta(flash[task.from], flash[task.from].meta[s].key)

\* alloc_entry and write_meta for what slot s and its lookups left in meta.
StartCopy(s, e) ==
    LET a == AllocEntry(flash[task.to], e.key, e.len)
    IN  IF CanAlloc(flash[task.to], e.len)
        THEN /\ flash' = [flash EXCEPT ![task.to] = WriteMeta(@, a)]
             /\ task' = [task EXCEPT !.pc = "copy", !.i = s + 1]
                             @@ [src |-> e.off, dst |-> a.entry.off, left |-> e.len]
        ELSE task' = Idle /\ UNCHANGED flash

\* The scan stops at the next entry to copy and writes its meta entry.
MoveMeta ==
    /\ task.pc = "scan"
    /\ ToMove # {}
    /\ StartCopy(Min(ToMove), Latest(Min(ToMove)))
    /\ UNCHANGED <<want, torn, faults, stale, eraseFailed, misread>>

\* A read fails in find_meta(from): the scan takes any error for an entry that
\* is not there, and goes on behind it.
SkipUnread ==
    /\ task.pc = "scan"
    /\ ToMove # {}
    /\ faults < MaxFaults
    /\ faults' = faults + 1
    /\ misread' = TRUE
    /\ task' = [task EXCEPT !.i = Min(ToMove) + 1]
    /\ UNCHANGED <<flash, want, torn, stale, eraseFailed>>

\* A read fails in find_meta(to): the scan takes it for a key that is not yet
\* in the target, and copies it again; from the place of the target's entry
\* when the read failed behind that one, which then is in meta.
CopyAgain ==
    /\ task.pc = "scan"
    /\ faults < MaxFaults
    /\ faults' = faults + 1
    /\ \E s \in {x \in task.i .. NSlots : Live(x) /\ Copies(x) # {}} :
         /\ \A m \in ToMove : s < m
         /\ \E e \in {Latest(s)} \cup {flash[task.to].meta[x] : x \in Copies(s)} :
              /\ StartCopy(s, e)
              /\ misread' = (misread \/ e # Latest(s))
    /\ UNCHANGED <<want, torn, stale, eraseFailed>>

\* The value follows line by line; the last line is copied whole.
CopyLine ==
    /\ task.pc = "copy"
    /\ flash' = [flash EXCEPT ![task.to].data = [b \in DOMAIN @ |->
            IF b \in task.dst..(task.dst + Line - 1)
            THEN Program(@[b], flash[task.from].data[task.src + (b - task.dst)]) ELSE @[b]]]
    /\ task' = IF task.left > Line
                 THEN [task EXCEPT !.src = @ + Line, !.dst = @ + Line, !.left = @ - Line]
                 ELSE [pc |-> "scan", key |-> task.key, val |-> task.val,
                       from |-> task.from, to |-> task.to, i |-> task.i]
    /\ UNCHANGED <<want, torn, faults, stale, eraseFailed, misread>>

\* reclaim copies back when the scratch has room for a line, then do_write tries again.
MoveDone ==
    /\ task.pc = "scan"
    /\ ToMove = {}
    /\ IF task.to = "scratch"
         THEN IF CanAlloc(flash.scratch, Line)
                THEN Move("scratch", "storage", task.key, task.val)
                ELSE task' = Idle
         ELSE Proceed(flash.storage, task.key, task.val)
    /\ UNCHANGED <<flash, want, torn, faults, stale, eraseFailed, misread>>

PutMeta ==
    /\ task.pc = "meta"
    /\ flash' = [flash EXCEPT !.storage = WriteMeta(@, task.at)]
    /\ task' = [task EXCEPT !.pc = "value"]
    /\ torn' = torn \cup {task.key}
    /\ UNCHANGED <<want, faults, stale, eraseFailed, misread>>

PutValue ==
    /\ task.pc = "value"
    /\ flash' = [flash EXCEPT !.storage = WriteValue(@, task.val, task.at.entry)]
    /\ want' = [want EXCEPT ![task.key] = task.val]
    /\ torn' = torn \ {task.key}
    /\ task' = Idle
    /\ UNCHANGED <<faults, stale, eraseFailed, misread>>

\* Power is lost, or a flash call fails whose result ends the operation:
\* nothing in RAM outlives it, and nothing looks at the scratch partition when
\* it is over.
Interrupt ==
    /\ task # Idle
    /\ faults < MaxFaults
    /\ faults' = faults + 1
    /\ task' = Idle
    /\ UNCHANGED <<flash, want, torn, stale, eraseFailed, misread>>

Next ==
    \/ \E k \in Keys, v \in Vals : Write(k, v)
    \/ \E k \in Keys : Clear(k)
    \/ ErasePartition
    \/ MoveMeta
    \/ SkipUnread
    \/ CopyAgain
    \/ CopyLine
    \/ MoveDone
    \/ PutMeta
    \/ PutValue
    \/ Interrupt

Spec == Init /\ [][Next]_vars

-----------------------------------------------------------------------------
\* Without faults, a read between two operations returns what the last
\* acknowledged write or clear of the key left, reclaims included.
ReadsBack == faults = 0 /\ task = Idle => Complete("storage")

\* reclaim: "It should keep at least one validate partition even if an error
\* occurs in the middle of flash processing."  From a storage that was intact
\* when the operation began, with erases that work and no lookup of the reclaim
\* misled by a failing read, every state up to and including the one a fault
\* leaves behind has a partition with all the keys (but the one being written,
\* once its meta entry is there).
OnePartitionComplete ==
    ~stale /\ ~eraseFailed /\ ~misread => Complete("storage") \/ Complete("scratch")

\* The same when an erase may fail as well: its result is ignored, the keys
\* still found in the target are skipped, and old values replace the new ones.
OnePartitionWhateverFails ==
    ~stale /\ ~misread => Complete("storage") \/ Complete("scratch")

\* And when a read of the reclaim's lookups may fail: a live entry is skipped,
\* and the storage is erased under it.
OnePartitionWhateverRead ==
    ~stale /\ ~eraseFailed => Complete("storage") \/ Complete("scratch")
=============================================================================
