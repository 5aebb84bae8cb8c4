------------------------- MODULE EventManagerProofs -------------------------
(***************************************************************************)
(* That a subscriber misses nothing, for any number of subscribers, events *)
(* and calls: EventInv is inductive and implies NothingMissed.             *)
(***************************************************************************)
EXTENDS EventManager, TLAPS

-----------------------------------------------------------------------------
(* Dictionaries and queues.                                                *)

\* A dictionary has groups for keys and sets of subscribers for values.
LEMMA DictionaryElements ==
    ASSUME NEW d \in Dictionary
    PROVE  /\ DOMAIN d \subseteq Groups
           /\ \A g \in DOMAIN d : d[g] \subseteq Subscribers
           /\ d = [g \in DOMAIN d |-> d[g]]
BY DEF Dictionary

\* Any function from some groups to sets of subscribers is one.
LEMMA DictionaryFrom ==
    ASSUME NEW D \in SUBSET Groups, NEW f \in [D -> SUBSET Subscribers]
    PROVE  f \in Dictionary
BY DEF Dictionary

\* Whoever is looked up in a dictionary of groups, what comes back is a set of
\* subscribers.
LEMMA MembersType ==
    ASSUME group_subscriptions \in Dictionary, NEW g
    PROVE  Members(g) \subseteq Subscribers
BY DictionaryElements DEF Members

\* An event put into a queue is in it, next to what was there before.
LEMMA RangeAppend ==
    ASSUME NEW q \in Seq(Events), NEW e \in Events
    PROVE  Range(Append(q, e)) = Range(q) \union {e}
<1>1. DOMAIN Append(q, e) = 1 .. Len(q) + 1 /\ DOMAIN q = 1 .. Len(q) /\ Len(q) \in Nat
  OBVIOUS
<1>2. \A i \in 1 .. Len(q) : Append(q, e)[i] = q[i]
  OBVIOUS
<1>3. Append(q, e)[Len(q) + 1] = e
  OBVIOUS
<1>4. 1 .. Len(q) + 1 = (1 .. Len(q)) \union {Len(q) + 1}
  BY <1>1
<1> QED
  BY <1>1, <1>2, <1>3, <1>4 DEF Range

\* What is not the first of a queue is still in it when the first is taken.
LEMMA RangeTail ==
    ASSUME NEW q \in Seq(Events), q # <<>>
    PROVE  Range(q) = Range(Tail(q)) \union {Head(q)}
<1>1. /\ Len(q) \in Nat /\ Len(q) >= 1 /\ DOMAIN q = 1 .. Len(q)
      /\ DOMAIN Tail(q) = 1 .. Len(q) - 1 /\ Head(q) = q[1]
  OBVIOUS
<1>2. \A i \in 1 .. Len(q) - 1 : Tail(q)[i] = q[i + 1]
  OBVIOUS
<1>3. \A j \in 1 .. Len(q) : j = 1 \/ (j - 1 \in 1 .. Len(q) - 1 /\ q[j] = Tail(q)[j - 1])
  <2> TAKE j \in 1 .. Len(q)
  <2>1. CASE j # 1
    <3>1. j - 1 \in 1 .. Len(q) - 1 /\ (j - 1) + 1 = j
      BY <2>1, <1>1
    <3> QED
      BY <3>1, <1>2
  <2> QED
    BY <2>1
<1>4. Range(q) \subseteq Range(Tail(q)) \union {Head(q)}
  BY <1>1, <1>3 DEF Range
<1>5. Range(Tail(q)) \union {Head(q)} \subseteq Range(q)
  <2>1. \A i \in 1 .. Len(q) - 1 : i + 1 \in 1 .. Len(q)
    BY <1>1
  <2> QED
    BY <1>1, <1>2, <2>1 DEF Range
<1> QED
  BY <1>4, <1>5

-----------------------------------------------------------------------------
(* The loop of publish_event().                                            *)

\* One run of the loop, up to its end or the next full queue: it takes nothing
\* out of a queue, keeps to the maximal size, leaves other calls alone, and
\* whoever it was to come to has got the event or is still to be served.
LEMMA DeliverRun ==
    ASSUME TypeOK, EventAssumption, NEW c \in Calls,
           NEW first \in SUBSET Subscribers, NEW rest \in SUBSET Subscribers,
           \A s \in first : ~Full(s),
           Deliver(c, first, rest)
    PROVE  /\ queue' \in [Subscribers -> Seq(Events)]
           /\ \A s \in Subscribers : Len(queue'[s]) <= Cap
           /\ pc' \in [Calls -> {"start", "waiting", "returned", "aborted"}]
           /\ at' \in [Calls -> Subscribers \union {Nobody}]
           /\ todo' \in [Calls -> SUBSET Subscribers]
           /\ \A b \in Calls \ {c} : pc'[b] = pc[b] /\ at'[b] = at[b] /\ todo'[b] = todo[b]
           /\ pc'[c] = "waiting" => at'[c] \in Subscribers
           /\ \A s \in Subscribers : Range(queue[s]) \subseteq Range(queue'[s])
           /\ \A s \in first : Event[c] \in Range(queue'[s])
           /\ \A s \in rest \intersect subscribers :
                 Event[c] \in Range(queue'[s]) \/ Owes(c, s)'
<1> DEFINE here == rest \intersect subscribers
           full == {s \in here : Full(s)}
<1>1. PICK served \in SUBSET (here \ full) :
          /\ queue' = [s \in Subscribers |-> IF s \in first \union served
                                             THEN Append(queue[s], Event[c]) ELSE queue[s]]
          /\ \/ /\ served = here
                /\ pc' = [pc EXCEPT ![c] = "returned"]
                /\ at' = [at EXCEPT ![c] = Nobody]
                /\ todo' = [todo EXCEPT ![c] = {}]
             \/ \E s \in full :
                   /\ pc' = [pc EXCEPT ![c] = "waiting"]
                   /\ at' = [at EXCEPT ![c] = s]
                   /\ todo' = [todo EXCEPT ![c] = here \ (served \union {s})]
  BY DEF Deliver, Here
<1>2. Event[c] \in Events
  BY DEF EventAssumption
<1>3. here \subseteq Subscribers /\ \A s \in served : s \in Subscribers /\ ~Full(s)
  BY <1>1
<1>4. \A s \in Subscribers : queue[s] \in Seq(Events) /\ Len(queue[s]) <= Cap
  BY DEF TypeOK
<1>5. \A s \in first \union served :
          /\ s \in Subscribers
          /\ queue'[s] = Append(queue[s], Event[c])
          /\ queue'[s] \in Seq(Events)
          /\ Len(queue'[s]) <= Cap
          /\ Range(queue'[s]) = Range(queue[s]) \union {Event[c]}
  <2> TAKE s \in first \union served
  <2>1. s \in Subscribers /\ ~Full(s) /\ queue'[s] = Append(queue[s], Event[c])
    BY <1>1, <1>3
  <2>2. queue[s] \in Seq(Events) /\ Len(queue[s]) < Cap /\ Cap \in Nat /\ Len(queue[s]) \in Nat
    BY <2>1, <1>4 DEF Full, EventAssumption
  <2>3. Append(queue[s], Event[c]) \in Seq(Events)
        /\ Len(Append(queue[s], Event[c])) = Len(queue[s]) + 1
    BY <2>2, <1>2
  <2> QED
    BY <2>1, <2>2, <2>3, <1>2, RangeAppend
<1>6. \A s \in Subscribers \ (first \union served) : queue'[s] = queue[s]
  BY <1>1
<1>7. /\ queue' \in [Subscribers -> Seq(Events)]
      /\ \A s \in Subscribers : Len(queue'[s]) <= Cap
      /\ \A s \in Subscribers : Range(queue[s]) \subseteq Range(queue'[s])
      /\ \A s \in first \union served : Event[c] \in Range(queue'[s])
  <2>1. DOMAIN queue' = Subscribers /\ queue' = [s \in Subscribers |-> queue'[s]]
    BY <1>1
  <2>2. \A s \in Subscribers : queue'[s] \in Seq(Events) /\ Len(queue'[s]) <= Cap
                             /\ Range(queue[s]) \subseteq Range(queue'[s])
    BY <1>4, <1>5, <1>6
  <2> QED
    BY <2>1, <2>2, <1>5
<1>8. CASE /\ served = here
           /\ pc' = [pc EXCEPT ![c] = "returned"]
           /\ at' = [at EXCEPT ![c] = Nobody]
           /\ todo' = [todo EXCEPT ![c] = {}]
  BY <1>7, <1>8 DEF TypeOK
<1>9. ASSUME NEW f \in full,
             pc' = [pc EXCEPT ![c] = "waiting"],
             at' = [at EXCEPT ![c] = f],
             todo' = [todo EXCEPT ![c] = here \ (served \union {f})]
      PROVE  /\ pc' \in [Calls -> {"start", "waiting", "returned", "aborted"}]
             /\ at' \in [Calls -> Subscribers \union {Nobody}]
             /\ todo' \in [Calls -> SUBSET Subscribers]
             /\ \A b \in Calls \ {c} : pc'[b] = pc[b] /\ at'[b] = at[b] /\ todo'[b] = todo[b]
             /\ at'[c] \in Subscribers
             /\ \A s \in here : s \in served \/ Owes(c, s)'
  BY <1>9, <1>3 DEF TypeOK, Owes
<1> QED
  BY <1>1, <1>7, <1>8, <1>9

-----------------------------------------------------------------------------
(* Types.                                                                  *)

\* A call waits for the queue of somebody.
WaitsForSomebody == \A c \in Calls : pc[c] = "waiting" => at[c] \in Subscribers

\* Every step of the manager, of its subscribers and of its publishers keeps
\* the types and the limit of the queues.
LEMMA TypeStep ==
    ASSUME EventAssumption, TypeOK, WaitsForSomebody, Next
    PROVE  TypeOK' /\ WaitsForSomebody'
<1>1. CASE Start \/ Stop
  BY <1>1 DEF Start, Stop, TypeOK, WaitsForSomebody, history, calls
<1>2. CASE CleanupRound
  <2>1. group_subscriptions' \in Dictionary
    <3> DEFINE D == {h \in DOMAIN group_subscriptions : group_subscriptions[h] # {}}
    <3>1. group_subscriptions' = [g \in D |-> group_subscriptions[g]]
      BY <1>2 DEF CleanupRound, WithoutEmptyGroups
    <3>2. D \subseteq Groups /\ \A g \in D : group_subscriptions[g] \subseteq Subscribers
      BY DictionaryElements DEF TypeOK
    <3> QED
      BY <3>1, <3>2, DictionaryFrom
  <2>2. clears' \in Nat
    BY <1>2 DEF CleanupRound, TypeOK
  <2>3. processed_tasks' \subseteq Events /\ recent_results' \subseteq Events /\ expired' \subseteq Events
    BY <1>2 DEF CleanupRound, TypeOK
  <2> QED
    BY <1>2, <2>1, <2>2, <2>3 DEF CleanupRound, TypeOK, WaitsForSomebody, calls
<1>3. ASSUME NEW s \in Subscribers, Subscribe(s)
      PROVE  TypeOK' /\ WaitsForSomebody'
  <2>1. group_subscriptions' \in Dictionary
    <3> DEFINE D == DOMAIN group_subscriptions \union ({Topic[s]} \ {NoGroup})
    <3>1. group_subscriptions' =
              [g \in D |-> IF g = Topic[s] THEN Members(g) \union {s} ELSE Members(g)]
      BY <1>3 DEF Subscribe
    <3>2. D \subseteq Groups
      BY DictionaryElements DEF TypeOK, EventAssumption
    <3>3. \A g \in D : Members(g) \subseteq Subscribers
      BY MembersType DEF TypeOK
    <3>4. group_subscriptions' \in [D -> SUBSET Subscribers]
      BY <3>1, <3>3
    <3> QED
      BY <3>2, <3>4, DictionaryFrom
  <2>2. past' \in [Subscribers -> SUBSET Events] /\ excused' \in [Subscribers -> SUBSET Events]
    BY <1>3 DEF Subscribe, TypeOK, Recent, Misfiled
  <2> QED
    BY <1>3, <2>1, <2>2 DEF Subscribe, TypeOK, WaitsForSomebody, calls
<1>4. ASSUME NEW s \in Subscribers, Unsubscribe(s)
      PROVE  TypeOK' /\ WaitsForSomebody'
  <2>1. group_subscriptions' \in Dictionary
    <3>1. /\ DOMAIN group_subscriptions \subseteq Groups
          /\ \A g \in DOMAIN group_subscriptions : group_subscriptions[g] \ {s} \subseteq Subscribers
      BY DictionaryElements DEF TypeOK
    <3> QED
      BY <1>4, <3>1, DictionaryFrom DEF Unsubscribe
  <2> QED
    BY <1>4, <2>1 DEF Unsubscribe, TypeOK, WaitsForSomebody, calls, history
<1>5. ASSUME NEW s \in Subscribers, Consume(s)
      PROVE  TypeOK' /\ WaitsForSomebody'
  <2>1. queue[s] \in Seq(Events) /\ Len(queue[s]) <= Cap /\ queue[s] # <<>>
    BY <1>5 DEF Consume, TypeOK
  <2>2. Tail(queue[s]) \in Seq(Events) /\ Len(Tail(queue[s])) <= Cap /\ Head(queue[s]) \in Events
    BY <2>1 DEF EventAssumption
  <2>3. /\ queue' \in [Subscribers -> Seq(Events)]
        /\ \A r \in Subscribers : Len(queue'[r]) <= Cap
    BY <1>5, <2>2 DEF Consume, TypeOK
  <2>4. seen' \in [Subscribers -> Seq(Events)]
    <3>1. seen[s] \in Seq(Events)
      BY DEF TypeOK
    <3>2. Append(seen[s], Head(queue[s])) \in Seq(Events)
      BY <3>1, <2>2
    <3> QED
      BY <1>5, <3>2 DEF Consume, TypeOK
  <2> QED
    BY <1>5, <2>3, <2>4 DEF Consume, TypeOK, WaitsForSomebody, manager, calls
<1>6. ASSUME NEW c \in Calls, PublishDuplicate(c)
      PROVE  TypeOK' /\ WaitsForSomebody'
  BY <1>6 DEF PublishDuplicate, TypeOK, WaitsForSomebody, manager, history
<1>7. ASSUME NEW c \in Calls, Publish(c)
      PROVE  TypeOK' /\ WaitsForSomebody'
  <2>1. Event[c] \in Events /\ Members(Group[Event[c]]) \in SUBSET Subscribers
    BY MembersType DEF EventAssumption, TypeOK
  <2>2. /\ Deliver(c, {}, Members(Group[Event[c]]))
        /\ {} \in SUBSET Subscribers
        /\ \A s \in {} : ~Full(s)
    BY <1>7 DEF Publish
  <2>3. /\ queue' \in [Subscribers -> Seq(Events)]
        /\ \A s \in Subscribers : Len(queue'[s]) <= Cap
        /\ pc' \in [Calls -> {"start", "waiting", "returned", "aborted"}]
        /\ at' \in [Calls -> Subscribers \union {Nobody}]
        /\ todo' \in [Calls -> SUBSET Subscribers]
        /\ \A b \in Calls \ {c} : pc'[b] = pc[b] /\ at'[b] = at[b]
        /\ pc'[c] = "waiting" => at'[c] \in Subscribers
    BY <2>1, <2>2, DeliverRun
  <2>4. by' \in [Events -> Calls \union {Nobody}]
    BY <1>7, <2>1 DEF Publish, TypeOK
  <2> QED
    BY <1>7, <2>1, <2>3, <2>4 DEF Publish, TypeOK, WaitsForSomebody
<1>8. ASSUME NEW c \in Calls, PublishResume(c)
      PROVE  TypeOK' /\ WaitsForSomebody'
  <2>1. /\ {at[c]} \in SUBSET Subscribers
        /\ \A s \in {at[c]} : ~Full(s)
        /\ todo[c] \in SUBSET Subscribers
        /\ Deliver(c, {at[c]}, todo[c])
    BY <1>8 DEF PublishResume, WaitsForSomebody, TypeOK
  <2>2. /\ queue' \in [Subscribers -> Seq(Events)]
        /\ \A s \in Subscribers : Len(queue'[s]) <= Cap
        /\ pc' \in [Calls -> {"start", "waiting", "returned", "aborted"}]
        /\ at' \in [Calls -> Subscribers \union {Nobody}]
        /\ todo' \in [Calls -> SUBSET Subscribers]
        /\ \A b \in Calls \ {c} : pc'[b] = pc[b] /\ at'[b] = at[b]
        /\ pc'[c] = "waiting" => at'[c] \in Subscribers
    BY <2>1, DeliverRun
  <2> QED
    BY <1>8, <2>2 DEF PublishResume, TypeOK, WaitsForSomebody, manager, history
<1>9. ASSUME NEW c \in Calls, PublishAborted(c)
      PROVE  TypeOK' /\ WaitsForSomebody'
  <2>1. Event[c] \in Events
    BY DEF EventAssumption
  <2>2. excused' \in [Subscribers -> SUBSET Events]
    BY <1>9, <2>1 DEF PublishAborted, TypeOK
  <2> QED
    BY <1>9, <2>2 DEF PublishAborted, TypeOK, WaitsForSomebody, manager
<1> QED
  BY <1>1, <1>2, <1>3, <1>4, <1>5, <1>6, <1>7, <1>8, <1>9 DEF Next, Subscribing, Publishing

\* The type invariant of EventManager, with the limit on every queue of a
\* subscriber, whoever publishes, subscribes, leaves or is cancelled.
THEOREM EventTypes == Spec => []TypeOK
<1> USE EventAssumption
<1>1. Init => TypeOK /\ WaitsForSomebody
  <2> SUFFICES ASSUME Init PROVE TypeOK /\ WaitsForSomebody
    OBVIOUS
  <2>1. group_subscriptions \in [{} -> SUBSET Subscribers]
    BY DEF Init
  <2>2. group_subscriptions \in Dictionary
    BY <2>1, DictionaryFrom
  <2>3. \A s \in Subscribers : Len(queue[s]) <= Cap
    BY DEF Init, EventAssumption
  <2>4. running \in BOOLEAN /\ clears \in Nat
    BY DEF Init
  <2>5. queue \in [Subscribers -> Seq(Events)] /\ seen \in [Subscribers -> Seq(Events)]
    BY DEF Init
  <2> QED
    BY <2>2, <2>3, <2>4, <2>5 DEF Init, TypeOK, WaitsForSomebody
<1>2. TypeOK /\ WaitsForSomebody /\ [Next]_vars => TypeOK' /\ WaitsForSomebody'
  <2> SUFFICES ASSUME TypeOK, WaitsForSomebody, [Next]_vars
               PROVE  TypeOK' /\ WaitsForSomebody'
    OBVIOUS
  <2>1. CASE Next
    BY <2>1, TypeStep
  <2>2. CASE UNCHANGED vars
    BY <2>2 DEF vars, manager, calls, history, TypeOK, WaitsForSomebody
  <2> QED
    BY <2>1, <2>2
<1> QED
  BY <1>1, <1>2, PTL DEF Spec

-----------------------------------------------------------------------------
(* Nothing is missed.                                                      *)

\* What was accepted is among the recent events until it expires.
Retained == \A e \in Events : by[e] # Nobody => e \in recent_results \union expired

Expected(s, e) ==
    e \in Heard(s) \union excused[s] \/ \E c \in Calls : Event[c] = e /\ Owes(c, s)

EventInv ==
    /\ TypeOK
    /\ WaitsForSomebody
    /\ IndexAgrees
    /\ Retained
    /\ NothingMissed

\* The index of the groups agrees with the subscribers after every step:
\* subscribe() and unsubscribe() change both, and the clean-up drops empty
\* groups only.
LEMMA IndexStep ==
    ASSUME EventAssumption, TypeOK, IndexAgrees, Next
    PROVE  IndexAgrees'
<1>1. CASE UNCHANGED <<subscribers, group_subscriptions>>
  BY <1>1 DEF IndexAgrees, Members
<1>2. CASE CleanupRound
  <2>1. subscribers' = subscribers /\ group_subscriptions' =
            [g \in {h \in DOMAIN group_subscriptions : group_subscriptions[h] # {}} |->
                group_subscriptions[g]]
    BY <1>2 DEF CleanupRound, WithoutEmptyGroups
  <2> QED
    BY <2>1 DEF IndexAgrees, Members
<1>3. ASSUME NEW s \in Subscribers, Subscribe(s)
      PROVE  IndexAgrees'
  <2>1. subscribers' = subscribers \union {s} /\ group_subscriptions' =
            [g \in DOMAIN group_subscriptions \union ({Topic[s]} \ {NoGroup}) |->
                IF g = Topic[s] THEN Members(g) \union {s} ELSE Members(g)]
    BY <1>3 DEF Subscribe
  <2>2. \A g : Members(g) \subseteq subscribers
    BY DEF IndexAgrees, Members
  <2>3. \A g \in DOMAIN group_subscriptions' : group_subscriptions'[g] \subseteq subscribers'
    BY <2>1, <2>2
  <2>4. ASSUME NEW r \in subscribers', Topic[r] # NoGroup
        PROVE  r \in Members(Topic[r])'
    <3>1. CASE r = s
      BY <2>1, <3>1, <2>4 DEF Members
    <3>2. CASE r # s
      <4>1. r \in Members(Topic[r])
        BY <2>1, <3>2, <2>4 DEF IndexAgrees
      <4>2. Topic[r] \in DOMAIN group_subscriptions
        BY <4>1 DEF Members
      <4> QED
        BY <2>1, <4>1, <4>2 DEF Members
    <3> QED
      BY <3>1, <3>2
  <2> QED
    BY <2>3, <2>4 DEF IndexAgrees
<1>4. ASSUME NEW s \in Subscribers, Unsubscribe(s)
      PROVE  IndexAgrees'
  <2>1. subscribers' = subscribers \ {s} /\ group_subscriptions' =
            [g \in DOMAIN group_subscriptions |-> group_subscriptions[g] \ {s}]
    BY <1>4 DEF Unsubscribe
  <2> QED
    BY <2>1 DEF IndexAgrees, Members
<1> QED
  BY <1>1, <1>2, <1>3, <1>4
  DEF Next, Start, Stop, Subscribing, Publishing, Consume, PublishDuplicate, Publish,
      PublishResume, PublishAborted, manager

\* The bookkeeping of expiry is complete: an event leaves the recent ones in
\* the clean-up only.
LEMMA RetainedStep ==
    ASSUME EventAssumption, TypeOK, Retained, Next
    PROVE  Retained'
<1>1. CASE UNCHANGED <<recent_results, expired, by>>
  BY <1>1 DEF Retained
<1>2. CASE CleanupRound
  BY <1>2 DEF CleanupRound, Retained
<1>3. ASSUME NEW c \in Calls, Publish(c)
      PROVE  Retained'
  BY <1>3 DEF Publish, Retained, TypeOK
<1> QED
  BY <1>1, <1>2, <1>3
  DEF Next, Start, Stop, Subscribing, Publishing, Subscribe, Unsubscribe, Consume,
      PublishDuplicate, PublishResume, PublishAborted, manager, history

\* A step that takes nothing away from what a subscriber has heard or is owed
\* leaves it with everything it could expect.
LEMMA ExpectedKept ==
    ASSUME NEW s, NEW e, Expected(s, e),
           Heard(s) \union excused[s] \subseteq (Heard(s) \union excused[s])',
           \A c \in Calls : Event[c] = e /\ Owes(c, s) =>
               Owes(c, s)' \/ e \in (Heard(s) \union excused[s])'
    PROVE  Expected(s, e)'
BY DEF Expected

\* No step makes a subscriber miss an event.
LEMMA MissedStep ==
    ASSUME EventAssumption, EventInv, Next, TypeOK'
    PROVE  NothingMissed'
<1> DEFINE Due(s, e) == by[e] # Nobody /\ Group[e] = Topic[s]
<1>a. NothingMissed <=> \A s \in subscribers : \A e \in Events : Due(s, e) => Expected(s, e)
  BY DEF NothingMissed, Expected
<1>b. NothingMissed' <=>
          \A s \in subscribers' : \A e \in Events : Due(s, e)' => Expected(s, e)'
  BY DEF NothingMissed, Expected
<1>c. subscribers \subseteq Subscribers /\ NothingMissed /\ TypeOK
  BY DEF EventInv, TypeOK
<1>1. CASE /\ subscribers' \subseteq subscribers
           /\ UNCHANGED <<by, pc, at, todo, past, seen, queue, excused>>
  <2>1. ASSUME NEW s \in subscribers', NEW e \in Events, Due(s, e)'
        PROVE  Expected(s, e)'
    <3>1. Expected(s, e)
      BY <1>1, <1>a, <1>c, <2>1
    <3> QED
      BY <3>1, <1>1 DEF Expected, Heard, Owes
  <2> QED
    BY <2>1, <1>b
<1>2. ASSUME NEW n \in Subscribers, Subscribe(n)
      PROVE  NothingMissed'
  <2>1. /\ past' = [past EXCEPT ![n] = Recent(Topic[n])]
        /\ excused' = [excused EXCEPT ![n] = expired \union Misfiled]
        /\ UNCHANGED <<by, pc, at, todo, seen, queue>>
        /\ subscribers' = subscribers \union {n}
    BY <1>2 DEF Subscribe, calls
  <2>2. ASSUME NEW s \in subscribers', NEW e \in Events, Due(s, e)'
        PROVE  Expected(s, e)'
    <3>1. CASE s = n
      <4>1. e \in recent_results \union expired
        BY <2>1, <2>2 DEF EventInv, Retained
      <4>2. e \in Recent(Topic[n]) \union expired \union Misfiled
        BY <4>1, <3>1, <2>1, <2>2 DEF Recent, Misfiled
      <4>3. past'[n] = Recent(Topic[n]) /\ excused'[n] = expired \union Misfiled
        BY <2>1 DEF EventInv, TypeOK
      <4> QED
        BY <3>1, <4>2, <4>3 DEF Expected, Heard
    <3>2. CASE s # n
      <4>1. Expected(s, e)
        BY <3>2, <2>1, <2>2, <1>a, <1>c
      <4>2. past'[s] = past[s] /\ excused'[s] = excused[s]
        BY <3>2, <2>1, <2>2, <1>c DEF TypeOK
      <4> QED
        BY <4>1, <4>2, <2>1 DEF Expected, Heard, Owes
    <3> QED
      BY <3>1, <3>2
  <2> QED
    BY <2>2, <1>b
<1>3. ASSUME NEW r \in Subscribers, Consume(r)
      PROVE  NothingMissed'
  <2>1. /\ queue[r] # <<>>
        /\ seen' = [seen EXCEPT ![r] = Append(seen[r], Head(queue[r]))]
        /\ queue' = [queue EXCEPT ![r] = Tail(queue[r])]
        /\ UNCHANGED <<by, pc, at, todo, past, excused, subscribers>>
    BY <1>3 DEF Consume, manager, calls
  <2>2. queue[r] \in Seq(Events) /\ seen[r] \in Seq(Events) /\ Head(queue[r]) \in Events
    BY <2>1, <1>c DEF TypeOK
  <2>3. /\ Range(queue[r]) = Range(Tail(queue[r])) \union {Head(queue[r])}
        /\ Range(Append(seen[r], Head(queue[r]))) = Range(seen[r]) \union {Head(queue[r])}
    BY <2>1, <2>2, RangeTail, RangeAppend
  <2>4. ASSUME NEW s \in Subscribers
        PROVE  Heard(s)' = Heard(s)
    <3>1. CASE s = r
      <4>1. queue'[r] = Tail(queue[r]) /\ seen'[r] = Append(seen[r], Head(queue[r]))
        BY <2>1, <1>c DEF TypeOK
      <4> QED
        BY <3>1, <4>1, <2>1, <2>3 DEF Heard
    <3>2. CASE s # r
      <4>1. queue'[s] = queue[s] /\ seen'[s] = seen[s]
        BY <2>1, <3>2, <1>c DEF TypeOK
      <4> QED
        BY <4>1, <2>1 DEF Heard
    <3> QED
      BY <3>1, <3>2
  <2>5. ASSUME NEW s \in subscribers', NEW e \in Events, Due(s, e)'
        PROVE  Expected(s, e)'
    <3>1. Expected(s, e) /\ Heard(s)' = Heard(s)
      BY <2>1, <2>4, <2>5, <1>a, <1>c
    <3> QED
      BY <3>1, <2>1 DEF Expected, Owes
  <2> QED
    BY <2>5, <1>b
<1>4. ASSUME NEW c \in Calls, PublishDuplicate(c)
      PROVE  NothingMissed'
  <2>1. /\ pc[c] = "start"
        /\ pc' = [pc EXCEPT ![c] = "returned"]
        /\ UNCHANGED <<by, at, todo, past, seen, queue, excused, subscribers>>
    BY <1>4 DEF PublishDuplicate, Ready, manager, history
  <2>2. ASSUME NEW s \in subscribers', NEW e \in Events, Due(s, e)'
        PROVE  Expected(s, e)'
    <3>1. Expected(s, e)
      BY <2>1, <2>2, <1>a, <1>c
    <3>2. \A b \in Calls : Owes(b, s) => Owes(b, s)'
      BY <2>1, <1>c DEF Owes, TypeOK
    <3> QED
      BY <3>1, <3>2, <2>1 DEF Expected, Heard
  <2> QED
    BY <2>2, <1>b
<1>5. ASSUME NEW c \in Calls, Publish(c)
      PROVE  NothingMissed'
  <2>1. /\ pc[c] = "start"
        /\ by' = [by EXCEPT ![Event[c]] = c]
        /\ Deliver(c, {}, Members(Group[Event[c]]))
        /\ UNCHANGED <<past, seen, excused, subscribers>>
    BY <1>5 DEF Publish, Ready
  <2>2. /\ Members(Group[Event[c]]) \in SUBSET Subscribers
        /\ {} \in SUBSET Subscribers
        /\ \A s \in {} : ~Full(s)
    BY <1>c, MembersType DEF TypeOK
  <2>3. /\ \A b \in Calls \ {c} : pc'[b] = pc[b] /\ at'[b] = at[b] /\ todo'[b] = todo[b]
        /\ \A s \in Subscribers : Range(queue[s]) \subseteq Range(queue'[s])
        /\ \A s \in Members(Group[Event[c]]) \intersect subscribers :
              Event[c] \in Range(queue'[s]) \/ Owes(c, s)'
    BY <2>1, <2>2, <1>c, DeliverRun
  <2>4. ASSUME NEW s \in subscribers', NEW e \in Events, Due(s, e)'
        PROVE  Expected(s, e)'
    <3>1. s \in subscribers /\ s \in Subscribers
      BY <2>1, <1>c
    <3>2. CASE e = Event[c]
      <4>1. Topic[s] # NoGroup /\ Topic[s] = Group[e]
        BY <2>4 DEF EventAssumption
      <4>2. s \in Members(Group[Event[c]])
        BY <4>1, <3>1, <3>2 DEF EventInv, IndexAgrees
      <4> QED
        BY <4>2, <3>1, <3>2, <2>3 DEF Expected, Heard
    <3>3. CASE e # Event[c]
      <4>1. Expected(s, e)
        BY <3>1, <3>3, <2>1, <2>4, <1>a, <1>c DEF TypeOK
      <4>2. \A b \in Calls : Owes(b, s) => Owes(b, s)'
        BY <2>1, <2>3 DEF Owes
      <4>3. Heard(s) \union excused[s] \subseteq (Heard(s) \union excused[s])'
        BY <3>1, <2>1, <2>3 DEF Heard
      <4> QED
        BY <4>1, <4>2, <4>3, ExpectedKept
    <3> QED
      BY <3>2, <3>3
  <2> QED
    BY <2>4, <1>b
<1>6. ASSUME NEW c \in Calls, PublishResume(c)
      PROVE  NothingMissed'
  <2>1. /\ {at[c]} \in SUBSET Subscribers
        /\ \A s \in {at[c]} : ~Full(s)
        /\ todo[c] \in SUBSET Subscribers
        /\ Deliver(c, {at[c]}, todo[c])
        /\ UNCHANGED <<by, past, seen, excused, subscribers>>
    BY <1>6 DEF PublishResume, EventInv, WaitsForSomebody, TypeOK, manager, history
  <2>2. /\ \A b \in Calls \ {c} : pc'[b] = pc[b] /\ at'[b] = at[b] /\ todo'[b] = todo[b]
        /\ \A s \in Subscribers : Range(queue[s]) \subseteq Range(queue'[s])
        /\ \A s \in {at[c]} : Event[c] \in Range(queue'[s])
        /\ \A s \in todo[c] \intersect subscribers :
              Event[c] \in Range(queue'[s]) \/ Owes(c, s)'
    BY <2>1, <1>c, DeliverRun
  <2>3. ASSUME NEW s \in subscribers', NEW e \in Events, Due(s, e)'
        PROVE  Expected(s, e)'
    <3>1. s \in subscribers /\ s \in Subscribers /\ Expected(s, e)
      BY <2>1, <2>3, <1>a, <1>c
    <3>2. \A b \in Calls \ {c} : Owes(b, s) => Owes(b, s)'
      BY <2>2 DEF Owes
    <3>3. Owes(c, s) => Owes(c, s)' \/ Event[c] \in Range(queue'[s])
      BY <3>1, <2>2 DEF Owes
    <3>4. Heard(s) \union excused[s] \subseteq (Heard(s) \union excused[s])'
      BY <3>1, <2>1, <2>2 DEF Heard
    <3>5. Range(queue'[s]) \subseteq (Heard(s) \union excused[s])'
      BY DEF Heard
    <3> QED
      BY <3>1, <3>2, <3>3, <3>4, <3>5, ExpectedKept
  <2> QED
    BY <2>3, <1>b
<1>7. ASSUME NEW c \in Calls, PublishAborted(c)
      PROVE  NothingMissed'
  <2>1. /\ pc' = [pc EXCEPT ![c] = "aborted"]
        /\ at' = [at EXCEPT ![c] = Nobody]
        /\ todo' = [todo EXCEPT ![c] = {}]
        /\ excused' = [s \in Subscribers |->
                          IF s \in todo[c] \union {at[c]}
                          THEN excused[s] \union {Event[c]} ELSE excused[s]]
        /\ UNCHANGED <<by, past, seen, queue, subscribers>>
    BY <1>7 DEF PublishAborted, manager
  <2>2. ASSUME NEW s \in subscribers', NEW e \in Events, Due(s, e)'
        PROVE  Expected(s, e)'
    <3>1. s \in subscribers /\ s \in Subscribers /\ Expected(s, e)
      BY <2>1, <2>2, <1>a, <1>c
    <3>2. \A b \in Calls \ {c} : Owes(b, s) => Owes(b, s)'
      BY <2>1, <1>c DEF Owes, TypeOK
    <3>3. Owes(c, s) => Event[c] \in excused'[s]
      BY <3>1, <2>1 DEF Owes
    <3>4. Heard(s) \union excused[s] \subseteq (Heard(s) \union excused[s])'
      BY <3>1, <2>1 DEF Heard
    <3> QED
      BY <3>1, <3>2, <3>3, <3>4, ExpectedKept
  <2> QED
    BY <2>2, <1>b
<1> QED
  <2>1. CASE Start \/ Stop \/ CleanupRound \/ \E s \in Subscribers : Unsubscribe(s)
    <3>1. /\ subscribers' \subseteq subscribers
          /\ UNCHANGED <<by, pc, at, todo, past, seen, queue, excused>>
      BY <2>1 DEF Start, Stop, CleanupRound, Unsubscribe, calls, history
    <3> QED
      BY <3>1, <1>1
  <2> QED
    BY <2>1, <1>2, <1>3, <1>4, <1>5, <1>6, <1>7 DEF Next, Subscribing, Publishing

\* The inductive invariant holds: types, the index of the groups, the
\* bookkeeping of expiry, and that nothing is missed.
LEMMA EventInvariant == Spec => []EventInv
<1> USE EventAssumption
<1>1. Init => IndexAgrees /\ Retained /\ NothingMissed /\ WaitsForSomebody
  BY DEF Init, IndexAgrees, Retained, NothingMissed, WaitsForSomebody
<1>2. TypeOK /\ TypeOK' /\ EventInv /\ [Next]_vars => EventInv'
  <2> SUFFICES ASSUME TypeOK, TypeOK', EventInv, [Next]_vars
               PROVE  EventInv'
    OBVIOUS
  <2>1. CASE Next
    BY <2>1, TypeStep, IndexStep, RetainedStep, MissedStep DEF EventInv
  <2>2. CASE UNCHANGED vars
    <3>1. WaitsForSomebody' /\ IndexAgrees' /\ Retained'
      BY <2>2 DEF vars, manager, calls, history, EventInv, WaitsForSomebody,
                  IndexAgrees, Members, Retained
    <3>2. NothingMissed'
      BY <2>2 DEF vars, manager, calls, history, EventInv, NothingMissed, Heard, Owes
    <3> QED
      BY <3>1, <3>2 DEF EventInv
  <2> QED
    BY <2>1, <2>2
<1>3. TypeOK /\ Init => EventInv
  BY <1>1 DEF EventInv
<1> QED
  BY <1>2, <1>3, EventTypes, PTL DEF Spec

\* subscribers and group_subscriptions of EventManager always agree.
THEOREM GroupsAgree == Spec => []IndexAgrees
<1>1. EventInv => IndexAgrees
  BY DEF EventInv
<1> QED
  BY <1>1, EventInvariant, PTL

\* A client that reads the recent events when it subscribes, and then its
\* queue, gets every event of its group that has not expired before and whose
\* publisher was not cancelled, whatever publishers wait and whoever leaves.
THEOREM NothingIsMissed == Spec => []NothingMissed
<1>1. EventInv => NothingMissed
  BY DEF EventInv
<1> QED
  BY <1>1, EventInvariant, PTL
=============================================================================
