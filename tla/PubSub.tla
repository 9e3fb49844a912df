------------------------------- MODULE PubSub -------------------------------
(***************************************************************************)
(* The broker of modules/pubsub/src/pubsub.c: an array of subscriptions    *)
(* that doubles when it is full, halves when it is less than half full and *)
(* is compacted each time, under one lock that pubsub_publish also holds   *)
(* while it calls the subscribers' callbacks one after another.            *)
(***************************************************************************)
EXTENDS Integers, Sequences, FiniteSets, Functions, SequencesExt

CONSTANTS
    Handles,        \* struct subscription objects
    Filters,        \* topic filters subscribed to
    Topics,         \* topics published to
    MinCapacity,    \* PUBSUB_MIN_SUBSCRIPTION_CAPACITY
    CapLimit,       \* 2 ^ 8, the range of the uint8_t capacity
    Null

\* What the module takes the constants to be.
PubSubAssumption ==
    /\ Null \notin Handles
    /\ MinCapacity \in Nat \ {0} /\ CapLimit \in Nat

-----------------------------------------------------------------------------
\* Topic filters.  A topic is a list of levels; the code sees the characters, with
\* "/" between the levels, and walks through filter and topic side by side.

\* The characters of a list of levels.
Text(levels) == FlattenSeq(
    [k \in 1 .. Len(levels) |-> IF k = 1 THEN levels[k] ELSE <<"/">> \o levels[k]])

\* get_next_topic_word: the position of the next "/" or of the end.
NextWord(s, i) ==
    CHOOSE k \in i .. Len(s) + 1 :
        /\ k = Len(s) + 1 \/ s[k] = "/"
        /\ \A j \in i .. k - 1 : s[j] # "/"

\* A mutated form: a topic that goes on after the filter's end matches.
IsTopicMatchedPrefix(filter, topic) ==
    LET match[i \in 1 .. Len(filter) + 1, j \in 1 .. Len(topic) + 1] ==
            IF i > Len(filter) \/ j > Len(topic)
            THEN i > Len(filter)
            ELSE IF filter[i] = "#" THEN TRUE
            ELSE IF filter[i] = "+" THEN match[NextWord(filter, i), NextWord(topic, j)]
            ELSE filter[i] = topic[j] /\ match[i + 1, j + 1]
    IN match[1, 1]

\* is_topic_matched_with
IsTopicMatched(filter, topic) ==
    LET match[i \in 1 .. Len(filter) + 1, j \in 1 .. Len(topic) + 1] ==
            IF i > Len(filter) \/ j > Len(topic)
            THEN i > Len(filter) /\ j > Len(topic)
            ELSE IF filter[i] = "#" THEN TRUE
            ELSE IF filter[i] = "+" THEN match[NextWord(filter, i), NextWord(topic, j)]
            ELSE filter[i] = topic[j] /\ match[i + 1, j + 1]
    IN match[1, 1]

\* What a filter means, level by level: "+" stands for any one level, "#" for
\* one or more levels up to the end.
Means(filter, topic) ==
    LET many == {k \in 1 .. Len(filter) : filter[k] = <<"#">>}
        fixed == IF many = {} THEN Len(filter)
                 ELSE (CHOOSE k \in many : \A j \in many : k <= j) - 1
    IN /\ IF many = {} THEN Len(topic) = fixed ELSE Len(topic) > fixed
       /\ \A k \in 1 .. fixed : filter[k] \in {<<"+">>, topic[k]}

-----------------------------------------------------------------------------
VARIABLES
    pool,       \* m.subscription.pool, of m.subscription.capacity entries
    length,     \* m.subscription.length
    filter,     \* sub->topic_filter
    memory,     \* of a handle: "none", "filled", "subscribed", "removed"
    topic,      \* the topic being published, Null when the lock is free
    cursor,     \* the loop variable of publish_internal
    called,     \* the callbacks it has called, in order (observation)
    failed      \* an assert has failed

pubVars == <<topic, cursor, called>>
vars == <<pool, length, filter, memory, pubVars, failed>>

Capacity == Len(pool)
Empty(n) == [k \in 1 .. n |-> Null]
Unlocked == topic = Null /\ ~failed
Entries(p) == SelectSeq(p, LAMBDA h : h # Null)

\* copy_subscriptions into an array of this capacity.
Compact(p, n) == LET e == Entries(p) IN e \o Empty(n - Len(e))

Init ==
    /\ pool = Empty(MinCapacity)
    /\ length = 0
    /\ filter \in [Handles -> {CHOOSE f \in Filters : TRUE}]
    /\ memory = [h \in Handles |-> "none"]
    /\ topic = Null /\ cursor = 0 /\ called = <<>>
    /\ failed = FALSE

\* pubsub_subscribe and pubsub_subscribe_static fill the handle first.
Subscribe(h, f) ==
    /\ ~failed
    /\ memory[h] = "none"
    /\ memory' = [memory EXCEPT ![h] = "filled"]
    /\ filter' = [filter EXCEPT ![h] = f]
    /\ UNCHANGED <<pool, length, pubVars, failed>>

\* register_subscription: the first free entry of the array.
Place(h, p) ==
    LET k == CHOOSE k \in 1 .. Len(p) : p[k] = Null /\ \A j \in 1 .. k - 1 : p[j] # Null
    IN /\ pool' = [p EXCEPT ![k] = h]
       /\ length' = length + 1
       /\ memory' = [memory EXCEPT ![h] = "subscribed"]

\* register_subscription with room, under the lock.
Register(h) ==
    /\ Unlocked /\ memory[h] = "filled"
    /\ length < Capacity
    /\ Place(h, pool)
    /\ UNCHANGED <<filter, pubVars, failed>>

\* expand_subscription_capacity: calloc may fail, and then so does the call;
\* a capacity beyond its type, or a wrong count, fails an assert.
RegisterExpanding(h) ==
    /\ Unlocked /\ memory[h] = "filled"
    /\ length >= Capacity
    /\ \/ /\ memory' = [memory EXCEPT ![h] = "none"]
          /\ UNCHANGED <<pool, length, failed>>
       \/ LET n == Len(Entries(pool)) IN
          IF 2 * Capacity < CapLimit /\ n < 2 * Capacity /\ n = length
          THEN Place(h, Compact(pool, 2 * Capacity)) /\ UNCHANGED failed
          ELSE failed' = TRUE /\ UNCHANGED <<pool, length, memory>>
    /\ UNCHANGED <<filter, pubVars>>

\* A mutated form: an array that is just half full is halved too.
ShrinksEarly(count, cap) == cap > MinCapacity /\ 2 * count <= cap

\* The tests of shrink_subscription_capacity.
Shrinks(count, cap) == cap > MinCapacity /\ 2 * count < cap

\* shrink_subscription_capacity; when calloc fails the array stays as it is.
Shrink(p, count) ==
    \/ /\ Shrinks(count, Len(p))
       /\ LET n == Len(Entries(p)) IN
          IF n < Len(p) \div 2 /\ n = count
          THEN pool' = Compact(p, Len(p) \div 2) /\ UNCHANGED failed
          ELSE failed' = TRUE /\ pool' = p
    \/ pool' = p /\ UNCHANGED failed

\* A mutated form: the length is not updated.
RemoveUncounted(h) ==
    LET k == CHOOSE k \in 1 .. Capacity : pool[k] = h
    IN length' = length /\ Shrink([pool EXCEPT ![k] = Null], length')

\* unregister_subscription
Removal(h) ==
    LET k == CHOOSE k \in 1 .. Capacity : pool[k] = h
    IN length' = length - 1 /\ Shrink([pool EXCEPT ![k] = Null], length')

\* pubsub_unsubscribe, under the lock.
Unsubscribe(h) ==
    /\ Unlocked /\ memory[h] = "subscribed"
    /\ Removal(h)
    /\ memory' = [memory EXCEPT ![h] = "removed"]
    /\ UNCHANGED <<filter, pubVars>>

\* pubsub_unsubscribe: free of a dynamic handle, after the unlock; a static one
\* may be used again.
Free(h) ==
    /\ ~failed
    /\ memory[h] = "removed"
    /\ memory' = [memory EXCEPT ![h] = "none"]
    /\ UNCHANGED <<pool, length, filter, pubVars, failed>>

\* pubsub_publish takes the lock.
Publish(t) ==
    /\ Unlocked
    /\ topic' = t /\ cursor' = 1 /\ called' = <<>>
    /\ UNCHANGED <<pool, length, filter, memory, failed>>

\* A mutated form: every other entry is skipped.
PublishEntrySkips ==
    /\ topic # Null /\ cursor <= Capacity
    /\ LET h == pool[cursor] IN
       called' = IF h # Null /\ IsTopicMatched(Text(filter[h]), Text(topic))
                 THEN Append(called, h) ELSE called
    /\ cursor' = cursor + 2
    /\ UNCHANGED <<pool, length, filter, memory, topic, failed>>

\* publish_internal: one entry, whose callback is called when its filter matches.
PublishEntry ==
    /\ topic # Null /\ cursor <= Capacity
    /\ LET h == pool[cursor] IN
       called' = IF h # Null /\ IsTopicMatched(Text(filter[h]), Text(topic))
                 THEN Append(called, h) ELSE called
    /\ cursor' = cursor + 1
    /\ UNCHANGED <<pool, length, filter, memory, topic, failed>>

PublishEnd ==
    /\ topic # Null /\ cursor > Capacity
    /\ topic' = Null /\ cursor' = 0 /\ called' = <<>>
    /\ UNCHANGED <<pool, length, filter, memory, failed>>

\* pubsub_deinit frees the dynamic handles and the array; pubsub_init makes a
\* new one.  Nobody is subscribing or unsubscribing then.
Deinit ==
    /\ Unlocked
    /\ \A h \in Handles : memory[h] \in {"none", "subscribed"}
    /\ memory' = [h \in Handles |-> "none"]
    /\ pool' = Empty(MinCapacity) /\ length' = 0
    /\ UNCHANGED <<filter, pubVars, failed>>

Next ==
    \/ \E h \in Handles :
        \/ \E f \in Filters : Subscribe(h, f)
        \/ Register(h) \/ RegisterExpanding(h)
        \/ Unsubscribe(h) \/ Free(h)
    \/ \E t \in Topics : Publish(t)
    \/ PublishEntry \/ PublishEnd
    \/ Deinit

Spec == Init /\ [][Next]_vars

(***************************************************************************)
(* Properties                                                              *)
(***************************************************************************)
Subscribed == {h \in Handles : memory[h] = "subscribed"}

\* Every variable has its type; a cursor that is in use is inside the array or
\* just behind it.
TypeOK ==
    /\ pool \in Seq(Handles \cup {Null})
    /\ length \in 0 .. Capacity
    /\ filter \in [Handles -> Filters]
    /\ memory \in [Handles -> {"none", "filled", "subscribed", "removed"}]
    /\ topic \in Topics \cup {Null}
    /\ cursor \in 0 .. Capacity + 1

\* Across any growing, shrinking, compaction and failed allocation the array
\* holds each subscription exactly once and nothing else, and length counts
\* them: publish never reaches a handle that was freed.
PoolExact ==
    ~failed => /\ ToSet(Entries(pool)) = Subscribed
               /\ length = Cardinality(Subscribed)
               /\ Len(Entries(pool)) = length

\* The asserts of expand_subscription_capacity, shrink_subscription_capacity
\* and register_subscription hold as long as there are fewer subscriptions than
\* the largest capacity.
AssertsHold == ~failed

\* A publication calls each subscriber whose filter means the topic exactly once.
DeliveredExactly ==
    topic # Null /\ cursor > Capacity =>
        /\ ToSet(called) = {h \in Subscribed : Means(filter[h], topic)}
        /\ IsInjective(called)
=============================================================================
