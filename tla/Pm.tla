--------------------------------- MODULE Pm ---------------------------------
(***************************************************************************)
(* modules/pm/src/pm.c: callbacks called around a power mode, kept in a    *)
(* table of PmMaxLen slots ordered by priority.  A call holds slot_lock    *)
(* from beginning to end, so a call is a step.  The two loops that shift   *)
(* the table reach one slot past its end; what lies there is `behind'.     *)
(***************************************************************************)
EXTENDS Integers, FiniteSets, FiniteSetsExt

CONSTANTS
    Modes, Prios, Funcs,
    PmMaxLen,     \* PM_CALLBACK_MAXLEN
    NoItem        \* a slot whose func is NULL

VARIABLES
    slots,        \* the table
    behind,       \* the memory behind it, read as an item
    pmRegs,       \* ghost: the registered items
    pmOlder,      \* ghost: pairs of them, the first registered before the second
    pmJunk,       \* ghost: an item was copied in from behind the table
    pmCalled      \* ghost: what the last pm_enter called

pmVars == <<slots, behind, pmRegs, pmOlder, pmJunk, pmCalled>>

Items == [mode : Modes, prio : Prios, func : Funcs, exit : BOOLEAN]
Junk == [mode : Modes, prio : Prios, func : {"junk"}, exit : {FALSE}]
Slots == 1 .. PmMaxLen

ASSUME PmAssumption ==
    /\ PmMaxLen \in Nat \ {0} /\ Prios \subseteq Int
    /\ NoItem \notin Items \cup Junk

PmInit ==
    /\ slots = [i \in Slots |-> NoItem]
    /\ behind = NoItem
    /\ pmRegs = {} /\ pmOlder = {}
    /\ pmJunk = FALSE
    /\ pmCalled = <<>>

CountEmpty == Cardinality({i \in Slots : slots[i] = NoItem})

\* The table and what lies behind it, as the shifting loops see them.
Memory == [i \in 1 .. PmMaxLen + 1 |-> IF i \in Slots THEN slots[i] ELSE behind]

\* move_right on the memory x: the shift goes on until it overwrites an empty
\* slot, or the one behind the table.
MoveRight(x, i) ==
    LET last == Min({j \in i+1 .. PmMaxLen+1 : x[j] = NoItem} \cup {PmMaxLen + 1})
    IN  [j \in 1 .. PmMaxLen+1 |-> IF j \in i+1 .. last THEN x[j-1] ELSE x[j]]

\* move_left: up to an empty slot, which is where the last item was cleared, or
\* up to the one behind the table.
MoveLeft(x, i) ==
    LET last == Min({j \in i .. PmMaxLen : x[j+1] = NoItem} \cup {PmMaxLen + 1})
    IN  [j \in 1 .. PmMaxLen+1 |->
            IF j \in i .. last-1 THEN x[j+1]
            ELSE IF j = last /\ j \in Slots THEN NoItem ELSE x[j]]

\* A bug the runs must notice: a new item goes before its equals.
PlacesLifo(item) ==
    {i \in Slots : slots[i] = NoItem \/ slots[i].prio <= item.prio}

\* Where register_entry inserts.
Places(item) ==
    {i \in Slots : slots[i] = NoItem \/ slots[i].prio < item.prio}

Duplicate(item) ==
    \E i \in Slots : slots[i] = item /\ \A j \in Places(item) : i < j

SetTable(x) == slots' = [i \in Slots |-> x[i]] /\ behind' = x[PmMaxLen + 1]

Register(item) ==
    /\ CountEmpty > 0
    /\ ~Duplicate(item)
    /\ Places(item) # {}
    /\ LET i == Min(Places(item)) IN SetTable([MoveRight(Memory, i) EXCEPT ![i] = item])
    /\ pmRegs' = pmRegs \cup {item}
    /\ pmOlder' = pmOlder \cup {<<p, item>> : p \in pmRegs}
    /\ UNCHANGED <<pmJunk, pmCalled>>

\* The slots unregister_entry looks for: it stops at the first empty one.
Found(item) == {i \in Slots : slots[i] = item /\ \A j \in 1 .. i : slots[j] # NoItem}

Unregister(item) ==
    /\ Found(item) # {}
    /\ SetTable(MoveLeft(Memory, Min(Found(item))))
    /\ pmRegs' = pmRegs \ {item}
    /\ pmOlder' = {pair \in pmOlder : pair[1] # item /\ pair[2] # item}
    /\ pmJunk' = (pmJunk \/ (CountEmpty = 0 /\ behind # NoItem))
    /\ UNCHANGED pmCalled

\* The slots whose callbacks are called, from the first on.
Dispatch(mode, exit) ==
    {i \in Slots : slots[i] # NoItem /\ slots[i].mode = mode /\ slots[i].exit = exit}

\* pm_enter: the entry callbacks, the port's sleep, the exit callbacks.
PmEnter(mode) ==
    /\ pmCalled' = [exit \in BOOLEAN |-> [i \in Dispatch(mode, exit) |-> slots[i]]]
    /\ UNCHANGED <<slots, behind, pmRegs, pmOlder, pmJunk>>

\* What lies behind the table belongs to somebody else.
NeighbourWrites ==
    /\ behind' \in Junk \cup {NoItem}
    /\ UNCHANGED <<slots, pmRegs, pmOlder, pmJunk, pmCalled>>

PmNext ==
    \/ NeighbourWrites
    \/ \E item \in Items : Register(item) \/ Unregister(item)
    \/ \E mode \in Modes : PmEnter(mode)

PmSpec == PmInit /\ [][PmNext]_pmVars

-----------------------------------------------------------------------------
\* Whatever the order of registrations and removals, pm_enter calls each
\* registered callback of the mode exactly once, by descending priority and
\* among equals in the order of registration; an item copied in from behind
\* a full table is the one exception.
CalledByPriority ==
    ~pmJunk => \A mode \in Modes, exit \in BOOLEAN :
        LET calls == Dispatch(mode, exit)
        IN  /\ {slots[i] : i \in calls} = {p \in pmRegs : p.mode = mode /\ p.exit = exit}
            /\ \A i, j \in calls : i < j =>
                 \/ slots[i].prio > slots[j].prio
                 \/ slots[i].prio = slots[j].prio /\ <<slots[i], slots[j]>> \in pmOlder
                                                /\ <<slots[j], slots[i]>> \notin pmOlder
=============================================================================
