----------------------------- MODULE PubSubTiny -----------------------------
(***************************************************************************)
(* modules/pubsub_tiny/src/pubsub_tiny.c: topics in a list, each with a    *)
(* list of subscriptions.  pubsub_list_lock covers the lists, but a new    *)
(* subscription is linked under the lock and gets its callback after it.   *)
(* A handle is heap memory or, for pubsub_subscribe_static, the caller's;  *)
(* the lowest bit of its context, set with the callback, says which.  The  *)
(* library never clears a handle: one of the caller's keeps its topic when *)
(* it is unsubscribed, and may be unsubscribed again or subscribed anew.   *)
(***************************************************************************)
EXTENDS Naturals, Sequences, FiniteSets, SequencesExt

CONSTANTS
    Names,        \* topic names
    Dynamic,      \* handles pubsub_subscribe may allocate
    Static,       \* handles of the application
    MaxTopics     \* bound on topics ever created

ASSUME TinyAssumption == MaxTopics \in Nat

VARIABLES
    topicOf,      \* topicOf[n] = the topic of that name, 0 for none
    subs,         \* subs[t] = subscriptions of topic t, newest first
    handle,       \* handle[h] = [mem, topic, pending, cb, bit]: its memory, the topic it
                  \* names, whether its subscription is under way, whether it has got a
                  \* callback, and the lowest bit of its context
    cut,          \* topics whose list goes round without the list head
    created,      \* topics created so far
    members,      \* ghost: the handles subscribed to a topic
    harm          \* ghost: what touched memory it should not have, or holds the lock for ever

tinyVars == <<topicOf, subs, handle, cut, created, members, harm>>

Handles == Dynamic \cup Static
Topics == 1..MaxTopics

\* A handle before its first use: heap memory comes zeroed from calloc, the
\* context of the caller's may hold anything.
Idle(h, b) == [mem |-> IF h \in Static THEN "own" ELSE "free", topic |-> 0,
               pending |-> FALSE, cb |-> FALSE, bit |-> b]
Fresh(h) == Idle(h, FALSE)

\* A traversal that never meets the list head never gives the lock back.
Unlocked == "spinning" \notin harm

\* list_add, and list_del of a node that is in the list at most once.  Of a node
\* that is not in it list_del unlinks the list head itself, which cuts it out of
\* the ring unless the list is empty.
ListAdd(list, h) == <<h>> \o list
ListDel(list, h) ==
    IF \E i \in DOMAIN list : list[i] = h
    THEN RemoveAt(list, CHOOSE i \in DOMAIN list : list[i] = h)
    ELSE list
CutsHead(list, h) == list # <<>> /\ \A i \in DOMAIN list : list[i] # h

\* find_topic compares the addresses of the names.
FindTopic(n) == topicOf[n]
CountSubscribers(n) == Len(subs[FindTopic(n)])

TinyInit ==
    /\ topicOf = [n \in Names |-> 0]
    /\ subs = [t \in Topics |-> <<>>]
    /\ \E b \in [Static -> BOOLEAN] :
           handle = [h \in Handles |-> IF h \in Static THEN Idle(h, b[h]) ELSE Fresh(h)]
    /\ cut = {}
    /\ created = 0
    /\ members = [t \in Topics |-> {}]
    /\ harm = {}

Create(n) ==
    /\ Unlocked
    /\ FindTopic(n) = 0
    /\ created < MaxTopics
    /\ created' = created + 1
    /\ topicOf' = [topicOf EXCEPT ![n] = created + 1]
    /\ UNCHANGED <<subs, handle, cut, members, harm>>

\* publish_internal: a handle that never got a callback is called through what
\* its memory holds, and a list without its head is called round and round.
PublishInternal(t) ==
    (IF \A i \in DOMAIN subs[t] : handle[subs[t][i]].cb THEN {} ELSE {"no_callback"})
        \cup (IF t \in cut THEN {"spinning"} ELSE {})

Publish(n) ==
    /\ Unlocked
    /\ FindTopic(n) # 0
    /\ harm' = harm \cup PublishInternal(FindTopic(n))
    /\ UNCHANGED <<topicOf, subs, handle, cut, created, members>>

\* remove_subscriptions frees a handle unless its context says it is static.
\* Topic t's callbacks get the destroy message first, and of a list without its
\* head nothing after that happens.
Destroy(n) ==
    LET t == FindTopic(n)
        freed == {h \in Range(subs[t]) : t \notin cut /\ ~handle[h].bit}
    IN  /\ Unlocked
        /\ t # 0
        /\ topicOf' = [topicOf EXCEPT ![n] = 0]
        /\ subs' = [subs EXCEPT ![t] = <<>>]
        /\ handle' = [h \in Handles |-> IF h \in freed THEN [handle[h] EXCEPT !.mem = "free"] ELSE handle[h]]
        /\ members' = [members EXCEPT ![t] = {}]
        /\ harm' = harm \cup PublishInternal(t)
                        \cup (IF freed \cap Static # {} THEN {"static_freed"} ELSE {})
        /\ UNCHANGED <<cut, created>>

\* subscribe_core up to its unlock.  A dynamic handle is freed again when there
\* is no such topic; a static one is the caller's to use again, but not while it
\* is subscribed.
SubscribeLink(h, n) ==
    LET t == FindTopic(n) IN
    /\ Unlocked
    /\ h \notin UNION Range(members) /\ ~handle[h].pending
    /\ h \in Static \/ handle[h] = Fresh(h)
    /\ t # 0
    /\ handle' = [handle EXCEPT ![h] = [@ EXCEPT !.mem = "own", !.topic = t, !.pending = TRUE]]
    /\ subs' = [subs EXCEPT ![t] = ListAdd(@, h)]
    /\ members' = [members EXCEPT ![t] = @ \cup {h}]
    /\ UNCHANGED <<topicOf, cut, created, harm>>

\* ... and the rest of it.
SubscribeSet(h) ==
    /\ handle[h].pending
    /\ handle' = [handle EXCEPT ![h] = [@ EXCEPT !.pending = FALSE, !.cb = TRUE, !.bit = h \in Static]]
    /\ harm' = IF handle[h].mem = "free" THEN harm \cup {"handle_freed"} ELSE harm
    /\ UNCHANGED <<topicOf, subs, cut, created, members>>

\* A bug the runs must notice: the handle stays in the list of its topic.
UnsubscribeLinked(h) ==
    LET t == handle[h].topic IN
    /\ Unlocked
    /\ t # 0 /\ ~handle[h].pending
    /\ handle' = IF handle[h].bit THEN handle ELSE [handle EXCEPT ![h] = Fresh(h)]
    /\ members' = [members EXCEPT ![t] = @ \ {h}]
    /\ harm' = harm \cup IF t \notin Range(topicOf) THEN {"topic_freed"} ELSE {}
    /\ UNCHANGED <<topicOf, subs, cut, created>>

\* The topic of the handle is looked up in the handle, not among the topics, so
\* after a destroy it is freed memory, as is the handle itself.  A static handle
\* stays as it is, so that a second call finds its topic again.  In a list
\* without its head the node may be found or not.
Unsubscribe(h) ==
    LET t == handle[h].topic IN
    /\ Unlocked
    /\ t # 0 /\ ~handle[h].pending
    /\ handle' = IF handle[h].bit THEN handle ELSE [handle EXCEPT ![h] = Fresh(h)]
    /\ subs' = [subs EXCEPT ![t] = ListDel(@, h)]
    /\ cut' = IF CutsHead(subs[t], h) THEN cut \cup {t} ELSE cut
    /\ members' = [members EXCEPT ![t] = @ \ {h}]
    /\ \E stuck \in {{}} \cup (IF t \in cut THEN {{"spinning"}} ELSE {}) :
           harm' = harm \cup stuck \cup IF t \notin Range(topicOf) THEN {"topic_freed"} ELSE {}
    /\ UNCHANGED <<topicOf, created>>

TinyNext ==
    \/ \E n \in Names : Create(n) \/ Destroy(n) \/ Publish(n)
    \/ \E h \in Handles : SubscribeSet(h) \/ Unsubscribe(h)
    \/ \E h \in Handles, n \in Names : SubscribeLink(h, n)

TinySpec == TinyInit /\ [][TinyNext]_tinyVars

-----------------------------------------------------------------------------
\* A topic's list holds exactly the subscribed handles, each once, all of them
\* memory that is still theirs, and one whose subscription has returned has its
\* callback.  It may fail only for a topic a handle of which was unsubscribed twice,
\* and once memory was touched that was given up: a topic destroyed under one of
\* its subscriptions that was still under way, or was unsubscribed afterwards.
PublishReachesMembers ==
    harm \subseteq {"no_callback", "spinning"} => \A n \in Names :
        FindTopic(n) # 0 /\ FindTopic(n) \notin cut =>
            LET s == subs[FindTopic(n)] IN
            /\ CountSubscribers(n) = Cardinality(members[FindTopic(n)])
            /\ Range(s) = members[FindTopic(n)]
            /\ \A h \in Range(s) :
                  /\ handle[h].mem = "own" /\ handle[h].topic = FindTopic(n)
                  /\ handle[h].cb \/ handle[h].pending

\* Not so, and both without anything freed: a second pubsub_unsubscribe of a
\* static handle leaves the other handles of its topic in a list that has no end,
\* and a publication meets a handle before its callback.
PublicationsEnd == Unlocked
CallbacksAreSet == "no_callback" \notin harm
=============================================================================
