---------------------------- MODULE EventManager ----------------------------
(***************************************************************************)
(* EventManager of async_events: groups of subscribers, each with a queue  *)
(* of limited size, publication to a group, and the periodic clean-up.     *)
(*                                                                         *)
(* The lock of the manager protects nothing that suspends, so it is never  *)
(* waited for, and every call is one step -- except publish_event(), which *)
(* waits for room in the queue of a slow subscriber.  A call of it runs to *)
(* its end or to the next full queue.                                      *)
(***************************************************************************)
EXTENDS Integers, FiniteSets, Sequences, Functions

CONSTANTS
    Subscribers, Groups, Events,
    NoGroup, Nobody,
    Topic,              \* the group_id a subscriber asks for, or NoGroup
    Group,              \* the group_id an event is published to
    DataGroup,          \* the group_id in its data when it is published, or NoGroup
    Calls,              \* the calls of publish_event()
    Event,              \* Event[c]: the event_id of call c
    Earlier,            \* Earlier[c]: calls of the same task that precede c
    Abortable,          \* calls whose task may be cancelled while they wait
    Aging,              \* bound: the events that may grow older than result_ttl
    Cap,                \* size of a queue: 100 in the code
    ProcessedLimit      \* size at which processed_tasks is emptied: 10000

ASSUME EventAssumption ==
    /\ Topic \in [Subscribers -> Groups \union {NoGroup}]
    /\ NoGroup \notin Groups
    /\ Group \in [Events -> Groups]
    /\ DataGroup \in [Events -> Groups \union {NoGroup}]
    /\ Event \in [Calls -> Events]
    /\ Earlier \in [Calls -> SUBSET Calls]
    /\ Nobody \notin Subscribers \union Calls
    /\ Aging \subseteq Events
    /\ Cap \in Nat \ {0}
    /\ ProcessedLimit \in Nat

VARIABLES
    running,                \* _running: the clean-up loop is alive
    subscribers,            \* the keys of the dictionary
    group_subscriptions,    \* a dictionary: group -> set of subscribers
    recent_results,         \* the keys of the dictionary
    processed_tasks,
    queue,                  \* the queue of each subscriber
    pc,                     \* of a call: "start", "waiting", "returned", "aborted"
    at,                     \* the subscriber whose queue a call waits for
    todo                    \* the subscribers it will come to after that

\* What happened, for the properties.
VARIABLES
    joined,                 \* subscriber ids that were given out
    past,                   \* the recent events a subscriber read when it joined
    seen,                   \* what it then took from its queue
    by,                     \* the last call that an event was accepted from
    expired,                \* those no longer among the recent ones
    excused,                \* what a subscriber cannot expect to get
    clears                  \* how often processed_tasks was emptied

manager == <<running, subscribers, group_subscriptions, recent_results, processed_tasks>>
calls == <<pc, at, todo>>
history == <<joined, past, seen, by, expired, excused, clears>>
vars == <<manager, queue, calls, history>>

Dictionary == UNION {[D -> SUBSET Subscribers] : D \in SUBSET Groups}

TypeOK ==
    /\ running \in BOOLEAN
    /\ subscribers \subseteq Subscribers
    /\ group_subscriptions \in Dictionary
    /\ recent_results \subseteq Events
    /\ processed_tasks \subseteq Events
    /\ queue \in [Subscribers -> Seq(Events)]
    /\ \A s \in Subscribers : Len(queue[s]) <= Cap
    /\ pc \in [Calls -> {"start", "waiting", "returned", "aborted"}]
    /\ at \in [Calls -> Subscribers \union {Nobody}]
    /\ todo \in [Calls -> SUBSET Subscribers]
    /\ joined \subseteq Subscribers
    /\ past \in [Subscribers -> SUBSET Events]
    /\ seen \in [Subscribers -> Seq(Events)]
    /\ by \in [Events -> Calls \union {Nobody}]
    /\ expired \subseteq Events
    /\ excused \in [Subscribers -> SUBSET Events]
    /\ clears \in Nat

Init ==
    /\ running = FALSE
    /\ subscribers = {}
    /\ group_subscriptions = [g \in {} |-> {}]
    /\ recent_results = {}
    /\ processed_tasks = {}
    /\ queue = [s \in Subscribers |-> <<>>]
    /\ pc = [c \in Calls |-> "start"]
    /\ at = [c \in Calls |-> Nobody]
    /\ todo = [c \in Calls |-> {}]
    /\ joined = {}
    /\ past = [s \in Subscribers |-> {}]
    /\ seen = [s \in Subscribers |-> <<>>]
    /\ by = [e \in Events |-> Nobody]
    /\ expired = {}
    /\ excused = [s \in Subscribers |-> {}]
    /\ clears = 0

Members(g) ==
    IF g \in DOMAIN group_subscriptions THEN group_subscriptions[g] ELSE {}

-----------------------------------------------------------------------------
(* start(), stop() and the clean-up loop between them.                     *)

Start ==
    /\ ~running
    /\ running' = TRUE
    /\ UNCHANGED <<subscribers, group_subscriptions, recent_results, processed_tasks>>
    /\ UNCHANGED <<queue, calls, history>>

Stop ==
    /\ running
    /\ running' = FALSE
    /\ UNCHANGED <<subscribers, group_subscriptions, recent_results, processed_tasks>>
    /\ UNCHANGED <<queue, calls, history>>

Emptied == Cardinality(processed_tasks) > ProcessedLimit

WithoutEmptyGroups_One ==   \* seeded fault: a group of one counts as empty
    [g \in {h \in DOMAIN group_subscriptions : Cardinality(group_subscriptions[h]) > 1} |->
        group_subscriptions[g]]
WithoutEmptyGroups ==
    [g \in {h \in DOMAIN group_subscriptions : group_subscriptions[h] # {}} |->
        group_subscriptions[g]]

\* One round of the loop.  The ages come from time.time(), which may be set
\* back: any of the recent events can be the ones that are too old.
CleanupRound ==
    /\ running
    /\ \E old \in SUBSET (recent_results \intersect Aging) :
          /\ recent_results' = recent_results \ old
          /\ expired' = expired \union old
    /\ processed_tasks' = IF Emptied THEN {} ELSE processed_tasks
    /\ clears' = IF Emptied THEN clears + 1 ELSE clears
    /\ group_subscriptions' = WithoutEmptyGroups
    /\ UNCHANGED <<running, subscribers, queue, calls>>
    /\ UNCHANGED <<joined, past, seen, by, excused>>

-----------------------------------------------------------------------------
(* Subscribers.                                                            *)

\* GroupFilter(group_id).match(): it looks at the data, in which publish_event()
\* has put the group of the event if there was none.
Matches(e, g) == (IF DataGroup[e] = NoGroup THEN Group[e] ELSE DataGroup[e]) = g

Recent(g) == {e \in recent_results : Matches(e, g)}

\* Recent events whose data names another group than the one they were
\* published to, where nobody finds them among the recent events.
Misfiled == {e \in recent_results : ~Matches(e, Group[e])}

\* subscribe() under a new id, and get_recent_events(), which the client calls
\* next: neither suspends.
Subscribe(s) ==
    /\ s \notin joined
    /\ joined' = joined \union {s}
    /\ subscribers' = subscribers \union {s}
    /\ group_subscriptions' =
          [g \in DOMAIN group_subscriptions \union ({Topic[s]} \ {NoGroup}) |->
              IF g = Topic[s] THEN Members(g) \union {s} ELSE Members(g)]
    /\ past' = [past EXCEPT ![s] = Recent(Topic[s])]
    /\ excused' = [excused EXCEPT ![s] = expired \union Misfiled]
    /\ UNCHANGED <<running, recent_results, processed_tasks, queue, calls>>
    /\ UNCHANGED <<seen, by, expired, clears>>

\* A call that waits for the queue of s keeps its reference to it.
Unsubscribe(s) ==
    /\ s \in subscribers
    /\ subscribers' = subscribers \ {s}
    /\ group_subscriptions' =
          [g \in DOMAIN group_subscriptions |-> group_subscriptions[g] \ {s}]
    /\ UNCHANGED <<running, recent_results, processed_tasks, queue, calls, history>>

\* The client takes an event from its queue, to which it has the reference too.
Consume(s) ==
    /\ queue[s] # <<>>
    /\ seen' = [seen EXCEPT ![s] = Append(@, Head(queue[s]))]
    /\ queue' = [queue EXCEPT ![s] = Tail(@)]
    /\ UNCHANGED <<manager, calls, joined, past, by, expired, excused, clears>>

-----------------------------------------------------------------------------
(* publish_event()                                                         *)

Full_Never(s) == FALSE          \* seeded fault: put_nowait() into an unbounded queue
Full(s) == Len(queue[s]) >= Cap

\* Those of `rest` a call comes to: who has unsubscribed is passed over.
Here_Unchecked(rest) == rest    \* seeded fault: the queues were looked up before
Here(rest) == rest \intersect subscribers

\* Call c has returned, or ended with its task.
Over_Accepted(c) == pc[c] # "start"     \* seeded fault: puts in the background
Over(c) == pc[c] \in {"returned", "aborted"}

\* The loop over the subscribers, `rest` of which are left, after the event was
\* put into the queue of those in `first`.  The order of a set is arbitrary.
Deliver(c, first, rest) ==
    LET full == {s \in Here(rest) : Full(s)}
    IN  \E served \in SUBSET (Here(rest) \ full) :
          /\ queue' = [s \in Subscribers |-> IF s \in first \union served
                                             THEN Append(queue[s], Event[c]) ELSE queue[s]]
          /\ \/ /\ served = Here(rest)
                /\ pc' = [pc EXCEPT ![c] = "returned"]
                /\ at' = [at EXCEPT ![c] = Nobody]
                /\ todo' = [todo EXCEPT ![c] = {}]
             \/ \E s \in full :
                   /\ pc' = [pc EXCEPT ![c] = "waiting"]
                   /\ at' = [at EXCEPT ![c] = s]
                   /\ todo' = [todo EXCEPT ![c] = Here(rest) \ (served \union {s})]

Ready(c) == pc[c] = "start" /\ \A b \in Earlier[c] : Over(b)

\* The event is known already.
PublishDuplicate(c) ==
    /\ Ready(c)
    /\ Event[c] \in processed_tasks
    /\ pc' = [pc EXCEPT ![c] = "returned"]
    /\ UNCHANGED <<manager, queue, at, todo, history>>

\* Seeded faults: the event is marked, or stored, only when there was no wait.
Publish_MarkedLast(c) ==
    /\ Ready(c)
    /\ Event[c] \notin processed_tasks
    /\ Deliver(c, {}, Members(Group[Event[c]]))
    /\ processed_tasks' = IF pc'[c] = "waiting" THEN processed_tasks
                          ELSE processed_tasks \union {Event[c]}
    /\ recent_results' = recent_results \union {Event[c]}
    /\ by' = [by EXCEPT ![Event[c]] = c]
    /\ expired' = expired \ {Event[c]}
    /\ UNCHANGED <<running, subscribers, group_subscriptions>>
    /\ UNCHANGED <<joined, past, seen, excused, clears>>
Publish_StoredLast(c) ==
    /\ Ready(c)
    /\ Event[c] \notin processed_tasks
    /\ Deliver(c, {}, Members(Group[Event[c]]))
    /\ processed_tasks' = processed_tasks \union {Event[c]}
    /\ recent_results' = IF pc'[c] = "waiting" THEN recent_results
                         ELSE recent_results \union {Event[c]}
    /\ by' = [by EXCEPT ![Event[c]] = c]
    /\ expired' = expired \ {Event[c]}
    /\ UNCHANGED <<running, subscribers, group_subscriptions>>
    /\ UNCHANGED <<joined, past, seen, excused, clears>>

\* It is marked and stored, and then goes to the members of its group.
Publish(c) ==
    /\ Ready(c)
    /\ Event[c] \notin processed_tasks
    /\ processed_tasks' = processed_tasks \union {Event[c]}
    /\ recent_results' = recent_results \union {Event[c]}
    /\ by' = [by EXCEPT ![Event[c]] = c]
    /\ expired' = expired \ {Event[c]}
    /\ Deliver(c, {}, Members(Group[Event[c]]))
    /\ UNCHANGED <<running, subscribers, group_subscriptions>>
    /\ UNCHANGED <<joined, past, seen, excused, clears>>

\* Seeded fault: after a wait the others are forgotten.
PublishResume_Ends(c) ==
    /\ pc[c] = "waiting"
    /\ ~Full(at[c])
    /\ Deliver(c, {at[c]}, {})
    /\ UNCHANGED <<manager, history>>

\* There is room in the queue that c waits for.
PublishResume(c) ==
    /\ pc[c] = "waiting"
    /\ ~Full(at[c])
    /\ Deliver(c, {at[c]}, todo[c])
    /\ UNCHANGED <<manager, history>>

\* The task that publishes is cancelled, by its timeout or by cancel_task():
\* CancelledError is no Exception and leaves publish_event().
PublishAborted(c) ==
    /\ c \in Abortable
    /\ pc[c] = "waiting"
    /\ pc' = [pc EXCEPT ![c] = "aborted"]
    /\ at' = [at EXCEPT ![c] = Nobody]
    /\ todo' = [todo EXCEPT ![c] = {}]
    /\ excused' = [s \in Subscribers |->
                      IF s \in todo[c] \union {at[c]}
                      THEN excused[s] \union {Event[c]} ELSE excused[s]]
    /\ UNCHANGED <<manager, queue, joined, past, seen, by, expired, clears>>

-----------------------------------------------------------------------------
Publishing(c) == PublishDuplicate(c) \/ Publish(c) \/ PublishResume(c) \/ PublishAborted(c)

Subscribing(s) == Subscribe(s) \/ Unsubscribe(s) \/ Consume(s)

Next ==
    \/ Start \/ Stop \/ CleanupRound
    \/ \E s \in Subscribers : Subscribing(s)
    \/ \E c \in Calls : Publishing(c)

Spec == Init /\ [][Next]_vars

\* The event loop resumes a call when there is room.
Resumes == \A c \in Calls : WF_vars(PublishResume(c))

\* Clients that read their queue to the end, and clients that read it as long
\* as they are subscribed.
DrainingSpec == Spec /\ Resumes /\ \A s \in Subscribers : WF_vars(Consume(s))
LeavingSpec ==
    Spec /\ Resumes /\ \A s \in Subscribers : WF_vars(s \in subscribers /\ Consume(s))

-----------------------------------------------------------------------------
\* What has come, or is sure to come, to s through its queue.
Stream(s) == seen[s] \o queue[s]

Heard(s) == past[s] \union Range(seen[s]) \union Range(queue[s])

\* Call c has still to put its event into the queue of s.
Owes(c, s) == pc[c] = "waiting" /\ s \in todo[c] \union {at[c]}

\* The groups hold those who are subscribed, and all of them.
IndexAgrees ==
    /\ \A g \in DOMAIN group_subscriptions : group_subscriptions[g] \subseteq subscribers
    /\ \A s \in subscribers : Topic[s] # NoGroup => s \in Members(Topic[s])

\* A client that reads the recent events when it subscribes, and then its
\* queue, misses nothing that was ever published to its group: neither what
\* was published before, unless it has expired or names another group in its
\* data, nor what is in the course of being published, unless the publisher was
\* cancelled.
NothingMissed ==
    \A s \in subscribers : \A e \in Events :
        by[e] # Nobody /\ Group[e] = Topic[s] =>
            e \in Heard(s) \union excused[s] \/ \E c \in Calls : Event[c] = e /\ Owes(c, s)

\* It gets an event once, over its queue and the recent events together, and
\* once more at most for every time the processed ids were forgotten.
HeardOnce ==
    \A s \in Subscribers, e \in Events :
        LET copies == Cardinality({i \in DOMAIN Stream(s) : Stream(s)[i] = e})
        IN  (IF e \in past[s] THEN copies + 1 ELSE copies) <= clears + 1

\* Events arrive in the order in which a task published them.  An event that
\* another task got in first with is not the task's: its call returns at once.
InOrder ==
    clears = 0 =>
        \A c \in Calls : \A b \in Earlier[c] :
            Event[b] # Event[c] /\ by[Event[b]] = b /\ by[Event[c]] = c =>
                \A s \in Subscribers : \A i \in DOMAIN Stream(s) :
                    Stream(s)[i] = Event[b] =>
                        /\ Event[c] \notin past[s]
                        /\ \A j \in 1 .. i : Stream(s)[j] # Event[c]

\* After unsubscribe() nothing is put into a queue but what a call was
\* waiting to put there.
QuietAfterUnsubscribe ==
    [][\A s \in joined \ subscribers :
          Len(queue'[s]) > Len(queue[s]) => \E c \in Calls : pc[c] = "waiting" /\ at[c] = s]_vars

\* Something published to the group of s has not reached it yet.
Behind(s) ==
    /\ s \in subscribers
    /\ \E e \in Events :
          by[e] # Nobody /\ Group[e] = Topic[s] /\ e \notin Heard(s) \union excused[s]

\* A slow subscriber delays the others and no more: in the end each member of
\* the group has got everything, as long as it stays.
EveryMemberHears == \A s \in Subscribers : Behind(s) ~> ~Behind(s)
=============================================================================
