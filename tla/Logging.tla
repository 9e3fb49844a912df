------------------------------ MODULE Logging -------------------------------
(***************************************************************************)
(* modules/logging/src/logging.c: a table of tags with a minimum level     *)
(* each, a global level, and a table of backends every entry is handed to. *)
(* Calls run under logging_lock, except that logging_write_with_backend    *)
(* picks its default backend before it takes the lock.  A tag is compared  *)
(* by its address, so it is a value here; the text of a message is left    *)
(* out.  A backend is external: a queue of at most Cap entries.            *)
(***************************************************************************)
EXTENDS Naturals, Sequences, FiniteSets, FiniteSetsExt, SequencesExt

CONSTANTS
    Tags, MaxTags,           \* LOGGING_TAGS_MAXNUM
    TypeMax,                 \* LOGGING_TYPE_MAX: types and levels below it are valid
    Backends, MaxBackends,   \* LOGGING_MAX_BACKENDS
    Cap,
    Null

ASSUME LogAssumption ==
    /\ Null \notin Tags
    /\ MaxTags \in Nat \ {0} /\ TypeMax \in Nat

VARIABLES
    tags,      \* m.tags: slots with a tag and its minimum level
    global,    \* m.global_tag.min_log_level
    backends,  \* m.backends
    picked,    \* a writer that has picked its backend and waits for the lock
    queue,     \* the backends' entries
    named,     \* ghost: the tags in the order they were first named
    asked      \* ghost: the level last asked for, by tag

logVars == <<tags, global, backends, picked, queue, named, asked>>

Types == 0..TypeMax
EmptyTag == [tag |-> Null, level |-> 0]
Global == 0              \* obtain_tag's answer when the table is full

-----------------------------------------------------------------------------
SlotWith(tab, t) == {i \in 1..MaxTags : tab[i].tag = t}

RegisterTag(tab, t) ==
    IF SlotWith(tab, Null) = {} THEN tab
    ELSE [tab EXCEPT ![Min(SlotWith(tab, Null))].tag = t]

\* The table after obtain_tag, and the slot it returns.
ObtainTag(tab, t) == IF SlotWith(tab, t) # {} THEN tab ELSE RegisterTag(tab, t)
Obtained(tab, t) == IF SlotWith(tab, t) # {} THEN Min(SlotWith(tab, t)) ELSE Global

LevelOf(tab, slot) == IF slot = Global THEN global ELSE tab[slot].level

IsEnabled(tab, slot, type) ==
    /\ slot # Global => type >= global
    /\ type >= LevelOf(tab, slot)

IsValid(type) == type < TypeMax

Name(t) == named' = IF t \in Range(named) THEN named ELSE Append(named, t)

\* logging_count_tags: the index advances only over slots in use.
CountTags == Cardinality({i \in 1..MaxTags : \A j \in 1..i : tags[j].tag # Null})

Put(q, b, e) == IF b = Null \/ Len(q[b]) = Cap THEN q ELSE [q EXCEPT ![b] = Append(@, e)]

-----------------------------------------------------------------------------
\* The state logging_init leaves.
LogInit ==
    /\ tags = [i \in 1..MaxTags |-> EmptyTag]
    /\ global = 0
    /\ backends = [i \in 1..MaxBackends |-> Null]
    /\ picked = {}
    /\ queue = [b \in Backends |-> <<>>]
    /\ named = <<>>
    /\ asked = [t \in Tags |-> 0]

AddBackend(b) ==
    /\ \E i \in 1..MaxBackends : backends[i] = Null
    /\ backends' = [backends EXCEPT ![Min({i \in 1..MaxBackends : backends[i] = Null})] = b]
    /\ UNCHANGED <<tags, global, picked, queue, named, asked>>

RemoveBackend(b) ==
    /\ \E i \in 1..MaxBackends : backends[i] = b
    /\ backends' = [backends EXCEPT ![Min({i \in 1..MaxBackends : backends[i] = b})] = Null]
    /\ UNCHANGED <<tags, global, picked, queue, named, asked>>

\* A bug the runs must notice: a level for a tag without a slot goes to the last.
SetLevelTagAny(t, level) ==
    LET tab == ObtainTag(tags, t)
        slot == IF Obtained(tab, t) = Global THEN MaxTags ELSE Obtained(tab, t)
    IN  /\ Name(t)
        /\ asked' = [asked EXCEPT ![t] = IF level < TypeMax THEN level ELSE @]
        /\ tags' = IF level < TypeMax THEN [tab EXCEPT ![slot].level = level] ELSE tab
        /\ UNCHANGED <<global, backends, picked, queue>>

SetLevelTag(t, level) ==
    LET tab == ObtainTag(tags, t)
        slot == Obtained(tab, t)
    IN  /\ Name(t)
        /\ asked' = [asked EXCEPT ![t] = IF level < TypeMax THEN level ELSE @]
        /\ tags' = IF level < TypeMax /\ slot # Global THEN [tab EXCEPT ![slot].level = level] ELSE tab
        /\ UNCHANGED <<global, backends, picked, queue>>

\* Reading the level of an unknown tag registers it.
GetLevelTag(t) ==
    /\ tags' = ObtainTag(tags, t)
    /\ Name(t)
    /\ UNCHANGED <<global, backends, picked, queue, asked>>

SetLevelGlobal(level) ==
    /\ level < TypeMax
    /\ global' = level
    /\ UNCHANGED <<tags, backends, picked, queue, named, asked>>

\* The entry reaches every backend in the order of the table.
LogWrite(type, t) ==
    LET tab == ObtainTag(tags, t)
        slot == Obtained(tab, t)
        e == [type |-> type, tag |-> slot]
    IN  /\ tags' = tab
        /\ Name(t)
        /\ queue' = IF IsValid(type) /\ IsEnabled(tab, slot, type)
                      THEN FoldLeftDomain(LAMBDA q, i : Put(q, backends[i], e), queue, backends)
                      ELSE queue
        /\ UNCHANGED <<global, backends, picked, asked>>

\* logging_write_with_backend(NULL): the default is read before the lock is taken.
PickBackend ==
    /\ picked = {}
    /\ picked' = {backends[1]}
    /\ UNCHANGED <<tags, global, backends, queue, named, asked>>

\* The entry of this call has no tag: pack_log clears it and nothing sets it.
WriteWithBackend(type, t) ==
    LET tab == ObtainTag(tags, t)
        slot == Obtained(tab, t)
    IN  /\ picked # {}
        /\ picked' = {}
        /\ tags' = tab
        /\ Name(t)
        /\ queue' = IF IsValid(type) /\ IsEnabled(tab, slot, type)
                      THEN Put(queue, CHOOSE b \in picked : TRUE, [type |-> type, tag |-> Null])
                      ELSE queue
        /\ UNCHANGED <<global, backends, asked>>

\* logging_read, or logging_peek and logging_consume, on a backend or the default one.
LogRead(b) ==
    /\ b # Null
    /\ queue[b] # <<>>
    /\ queue' = [queue EXCEPT ![b] = Tail(@)]
    /\ UNCHANGED <<tags, global, backends, picked, named, asked>>

LogNext ==
    \/ \E b \in Backends : AddBackend(b) \/ RemoveBackend(b)
    \/ \E t \in Tags, n \in Types : SetLevelTag(t, n)
    \/ \E t \in Tags : GetLevelTag(t)
    \/ \E n \in Types : SetLevelGlobal(n)
    \/ \E t \in Tags, n \in Types : LogWrite(n, t) \/ WriteWithBackend(n, t)
    \/ PickBackend
    \/ \E b \in Backends \cup {backends[1]} : LogRead(b)

LogSpec == LogInit /\ [][LogNext]_logVars

-----------------------------------------------------------------------------
\* A tag that was named while the table had room is filtered by the level last
\* asked for it and by the global level, any later one by the global level
\* alone: whatever the order of registrations by writes, by reads of a level
\* and by changes of a level, no tag gets another's level; and
\* logging_count_tags counts the ones the table has kept, each once.
LevelsAsAsked ==
    /\ CountTags = Min({Len(named), MaxTags})
    /\ \A i \in 1..Len(named), type \in Types :
           LET t == named[i] IN
           IsEnabled(tags, Obtained(tags, t), type) <=>
               type >= global /\ (i <= MaxTags => type >= asked[t])
=============================================================================
