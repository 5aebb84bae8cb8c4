------------------------ MODULE EventManagerDelivery ------------------------
(***************************************************************************)
(* That what is delivered is delivered once and in order, for any number   *)
(* of subscribers, events and calls: what has come to a subscriber and     *)
(* what it is still owed are counted together.                             *)
(***************************************************************************)
EXTENDS EventManagerProofs, SequenceTheorems, FiniteSetTheorems

-----------------------------------------------------------------------------
(* Sequences.                                                              *)

\* What is put into the queue comes at the end of the stream.
LEMMA StreamAppended ==
    ASSUME NEW p \in Seq(Events), NEW q \in Seq(Events), NEW e \in Events
    PROVE  p \o Append(q, e) = Append(p \o q, e)
<1>1. <<e>> \in Seq(Events) /\ p \o q \in Seq(Events)
  BY ConcatProperties
<1>2. Append(q, e) = q \o <<e>> /\ Append(p \o q, e) = (p \o q) \o <<e>>
  BY <1>1, AppendIsConcat
<1> QED
  BY <1>1, <1>2, ConcatAssociative

\* What is taken from the queue stays where it is in the stream.
LEMMA StreamConsumed ==
    ASSUME NEW p \in Seq(Events), NEW q \in Seq(Events), q # <<>>
    PROVE  Append(p, Head(q)) \o Tail(q) = p \o q
<1> DEFINE h == Head(q)
           r == Tail(q)
<1>1. /\ h \in Events /\ r \in Seq(Events)
      /\ Len(r) = Len(q) - 1 /\ \A i \in 1..Len(r) : r[i] = q[i + 1]
      /\ Len(q) \in Nat /\ Len(q) > 0 /\ h = q[1]
  BY HeadTailProperties
<1> HIDE DEF h, r
<1>2. <<h>> \in Seq(Events) /\ Len(<<h>>) = 1 /\ <<h>>[1] = h
  BY <1>1
<1>3. /\ <<h>> \o r \in Seq(Events)
      /\ Len(<<h>> \o r) = Len(q)
      /\ \A i \in 1..Len(q) : (<<h>> \o r)[i] = IF i <= 1 THEN <<h>>[i] ELSE r[i - 1]
  <2>1. /\ <<h>> \o r \in Seq(Events)
        /\ Len(<<h>> \o r) = Len(<<h>>) + Len(r)
        /\ \A i \in 1..Len(<<h>>) + Len(r) :
              (<<h>> \o r)[i] = IF i <= Len(<<h>>) THEN <<h>>[i] ELSE r[i - Len(<<h>>)]
    BY <1>1, <1>2, ConcatProperties
  <2>2. Len(<<h>>) + Len(r) = Len(q)
    BY <1>1, <1>2
  <2> QED
    BY <1>2, <2>1, <2>2
<1>4. \A i \in 1..Len(q) : (<<h>> \o r)[i] = q[i]
  <2> TAKE i \in 1..Len(q)
  <2>1. CASE i = 1
    BY <1>1, <1>2, <1>3, <2>1
  <2>2. CASE i # 1
    <3>1. i - 1 \in 1..Len(r) /\ (i - 1) + 1 = i /\ ~(i <= 1)
      BY <1>1, <2>2
    <3> QED
      BY <1>1, <1>3, <3>1
  <2> QED
    BY <2>1, <2>2
<1>5. <<h>> \o r = q
  BY <1>3, <1>4, SeqEqual
<1>6. Append(p, h) \o r = p \o (<<h>> \o r)
  <2>1. Append(p, h) = p \o <<h>>
    BY <1>1, AppendIsConcat
  <2> QED
    BY <1>1, <1>2, <2>1, ConcatAssociative
<1> QED
  BY <1>5, <1>6 DEF h, r

\* How often an event is in a sequence.
Occurrences(q, e) == Cardinality({i \in DOMAIN q : q[i] = e})

LEMMA OccurrencesType ==
    ASSUME NEW q \in Seq(Events), NEW e
    PROVE  /\ IsFiniteSet({i \in DOMAIN q : q[i] = e})
           /\ Occurrences(q, e) \in Nat
<1>1. DOMAIN q = 1..Len(q) /\ Len(q) \in Int
  BY LenProperties
<1>2. IsFiniteSet(DOMAIN q)
  BY <1>1, FS_Interval
<1>3. IsFiniteSet({i \in DOMAIN q : q[i] = e})
  BY <1>2, FS_Subset
<1> QED
  BY <1>3, FS_CardinalityType DEF Occurrences

LEMMA OneMoreOccurrence ==
    ASSUME NEW q \in Seq(Events), NEW e \in Events
    PROVE  /\ Occurrences(Append(q, e), e) = Occurrences(q, e) + 1
           /\ \A f : f # e => Occurrences(Append(q, e), f) = Occurrences(q, f)
<1> DEFINE r == Append(q, e)
           n == Len(q)
<1>1. /\ n \in Nat /\ DOMAIN q = 1..n /\ DOMAIN r = 1..(n + 1)
      /\ \A i \in 1..n : r[i] = q[i]
      /\ r[n + 1] = e
  BY LenProperties, AppendProperties
<1>2. DOMAIN r = DOMAIN q \union {n + 1} /\ n + 1 \notin DOMAIN q
  BY <1>1
<1> HIDE DEF r, n
<1>3. {i \in DOMAIN r : r[i] = e} = {i \in DOMAIN q : q[i] = e} \union {n + 1}
  BY <1>1, <1>2
<1>4. \A f : f # e => {i \in DOMAIN r : r[i] = f} = {i \in DOMAIN q : q[i] = f}
  BY <1>1, <1>2
<1>5. n + 1 \notin {i \in DOMAIN q : q[i] = e}
  BY <1>2
<1>6. Cardinality({i \in DOMAIN q : q[i] = e} \union {n + 1}) = Cardinality({i \in DOMAIN q : q[i] = e}) + 1
  <2> DEFINE S == {i \in DOMAIN q : q[i] = e}
  <2>1. IsFiniteSet(S) /\ n + 1 \notin S
    BY <1>5, OccurrencesType
  <2> HIDE DEF S
  <2>2. Cardinality(S \union {n + 1}) = Cardinality(S) + 1
    BY <2>1, FS_AddElement
  <2> QED
    BY <2>2 DEF S
<1> QED
  BY <1>3, <1>4, <1>6 DEF Occurrences, r

-----------------------------------------------------------------------------
(* What a step does to streams and debts.                                  *)

LEMMA StreamType ==
    ASSUME TypeOK, NEW s \in Subscribers
    PROVE  Stream(s) \in Seq(Events)
<1>1. seen[s] \in Seq(Events) /\ queue[s] \in Seq(Events)
  BY DEF TypeOK
<1> QED
  BY <1>1, ConcatProperties DEF Stream

\* One run of the loop serves each subscriber once, or not at all; whom it
\* still owes the event it has not served.
LEMMA DeliverOutcome ==
    ASSUME TypeOK, EventAssumption, NEW c \in Calls,
           NEW first \in SUBSET Subscribers, NEW rest \in SUBSET Subscribers,
           first \intersect rest = {},
           Deliver(c, first, rest), seen' = seen
    PROVE  /\ pc'[c] \in {"waiting", "returned"}
           /\ pc'[c] = "waiting" => at'[c] \notin todo'[c]
           /\ \A a \in Calls \ {c} : pc'[a] = pc[a] /\ at'[a] = at[a] /\ todo'[a] = todo[a]
           /\ \A s \in Subscribers :
                 \/ /\ s \in first \union (rest \intersect subscribers)
                    /\ Stream(s)' = Append(Stream(s), Event[c])
                    /\ ~Owes(c, s)'
                 \/ /\ Stream(s)' = Stream(s) /\ queue'[s] = queue[s]
                    /\ Owes(c, s)' => s \in rest \intersect subscribers
<1> DEFINE here == rest \intersect subscribers
           full == {s \in here : Full(s)}
<1>1. PICK served \in SUBSET (here \ full) :
          /\ queue' = [s \in Subscribers |-> IF s \in first \union served
                                             THEN Append(queue[s], Event[c]) ELSE queue[s]]
          /\ \/ /\ served = here
                /\ pc' = [pc EXCEPT ![c] = "returned"]
                /\ at' = [at EXCEPT ![c] = Nobody]
                /\ todo' = [todo EXCEPT ![c] = {}]
             \/ \E s \in full :
                   /\ pc' = [pc EXCEPT ![c] = "waiting"]
                   /\ at' = [at EXCEPT ![c] = s]
                   /\ todo' = [todo EXCEPT ![c] = here \ (served \union {s})]
  BY DEF Deliver, Here
<1>t. pc \in [Calls -> {"start", "waiting", "returned", "aborted"}]
      /\ at \in [Calls -> Subscribers \union {Nobody}] /\ todo \in [Calls -> SUBSET Subscribers]
  BY DEF TypeOK
<1>2. /\ pc'[c] \in {"waiting", "returned"}
      /\ pc'[c] = "waiting" => at'[c] \notin todo'[c]
      /\ \A a \in Calls \ {c} : pc'[a] = pc[a] /\ at'[a] = at[a] /\ todo'[a] = todo[a]
      /\ \A s : Owes(c, s)' => s \in here \ (first \union served)
  <2>1. CASE /\ pc' = [pc EXCEPT ![c] = "returned"]
             /\ at' = [at EXCEPT ![c] = Nobody]
             /\ todo' = [todo EXCEPT ![c] = {}]
    BY <1>t, <2>1 DEF Owes
  <2>2. ASSUME NEW f \in full,
               pc' = [pc EXCEPT ![c] = "waiting"],
               at' = [at EXCEPT ![c] = f],
               todo' = [todo EXCEPT ![c] = here \ (served \union {f})]
        PROVE  /\ pc'[c] \in {"waiting", "returned"}
               /\ pc'[c] = "waiting" => at'[c] \notin todo'[c]
               /\ \A a \in Calls \ {c} : pc'[a] = pc[a] /\ at'[a] = at[a] /\ todo'[a] = todo[a]
               /\ \A s : Owes(c, s)' => s \in here \ (first \union served)
    BY <1>t, <1>1, <2>2 DEF Owes
  <2> QED
    BY <1>1, <2>1, <2>2
<1>3. ASSUME NEW s \in Subscribers, s \in first \union served
      PROVE  Stream(s)' = Append(Stream(s), Event[c])
  <2>1. queue'[s] = Append(queue[s], Event[c]) /\ seen'[s] = seen[s]
    BY <1>1, <1>3
  <2>2. seen[s] \in Seq(Events) /\ queue[s] \in Seq(Events) /\ Event[c] \in Events
    BY DEF TypeOK, EventAssumption
  <2>3. seen[s] \o Append(queue[s], Event[c]) = Append(seen[s] \o queue[s], Event[c])
    <3> DEFINE p == seen[s]
               q == queue[s]
               e == Event[c]
    <3>1. p \in Seq(Events) /\ q \in Seq(Events) /\ e \in Events
      BY <2>2
    <3> HIDE DEF p, q, e
    <3>2. p \o Append(q, e) = Append(p \o q, e)
      BY <3>1, StreamAppended
    <3> QED
      BY <3>2 DEF p, q, e
  <2> QED
    BY <2>1, <2>3 DEF Stream
<1>4. ASSUME NEW s \in Subscribers, s \notin first \union served
      PROVE  Stream(s)' = Stream(s) /\ queue'[s] = queue[s]
  <2>1. queue'[s] = queue[s] /\ seen'[s] = seen[s]
    BY <1>1, <1>4
  <2> QED
    BY <2>1 DEF Stream
<1>5. ASSUME NEW s \in Subscribers
      PROVE  \/ /\ s \in first \union (rest \intersect subscribers)
                /\ Stream(s)' = Append(Stream(s), Event[c])
                /\ ~Owes(c, s)'
             \/ /\ Stream(s)' = Stream(s) /\ queue'[s] = queue[s]
                /\ Owes(c, s)' => s \in rest \intersect subscribers
  <2>1. CASE s \in first \union served
    BY <1>1, <1>2, <1>3, <2>1
  <2>2. CASE s \notin first \union served
    BY <1>2, <1>4, <2>2
  <2> QED
    BY <2>1, <2>2
<1> QED
  BY <1>2, <1>5

\* publish_event() up to its first wait, ...
LEMMA PublishOutcome ==
    ASSUME TypeOK, EventAssumption, NEW c \in Calls, Publish(c)
    PROVE  /\ pc'[c] \in {"waiting", "returned"}
           /\ pc'[c] = "waiting" => at'[c] \notin todo'[c]
           /\ \A a \in Calls \ {c} : pc'[a] = pc[a] /\ at'[a] = at[a] /\ todo'[a] = todo[a]
           /\ \A s \in Subscribers :
                 \/ /\ s \in subscribers
                    /\ Stream(s)' = Append(Stream(s), Event[c])
                    /\ ~Owes(c, s)'
                 \/ /\ Stream(s)' = Stream(s) /\ queue'[s] = queue[s]
                    /\ Owes(c, s)' => s \in subscribers
<1>1. Members(Group[Event[c]]) \in SUBSET Subscribers /\ {} \in SUBSET Subscribers
  BY MembersType DEF TypeOK
<1>2. Deliver(c, {}, Members(Group[Event[c]])) /\ seen' = seen
  BY DEF Publish
<1>3. {} \intersect Members(Group[Event[c]]) = {}
  OBVIOUS
<1> DEFINE rest == Members(Group[Event[c]])
<1> HIDE DEF rest
<1>4. /\ pc'[c] \in {"waiting", "returned"}
      /\ pc'[c] = "waiting" => at'[c] \notin todo'[c]
      /\ \A a \in Calls \ {c} : pc'[a] = pc[a] /\ at'[a] = at[a] /\ todo'[a] = todo[a]
      /\ \A s \in Subscribers :
            \/ /\ s \in {} \union (rest \intersect subscribers)
               /\ Stream(s)' = Append(Stream(s), Event[c])
               /\ ~Owes(c, s)'
            \/ /\ Stream(s)' = Stream(s) /\ queue'[s] = queue[s]
               /\ Owes(c, s)' => s \in rest \intersect subscribers
  BY <1>1, <1>2, <1>3, DeliverOutcome DEF rest
<1> QED
  BY <1>4

\* ... and from a wait to the next.
LEMMA ResumeOutcome ==
    ASSUME TypeOK, WaitsForSomebody, EventAssumption, NEW c \in Calls,
           at[c] \notin todo[c], PublishResume(c)
    PROVE  /\ pc'[c] \in {"waiting", "returned"}
           /\ pc'[c] = "waiting" => at'[c] \notin todo'[c]
           /\ \A a \in Calls \ {c} : pc'[a] = pc[a] /\ at'[a] = at[a] /\ todo'[a] = todo[a]
           /\ \A s \in Subscribers :
                 \/ /\ Owes(c, s) /\ (s = at[c] \/ s \in subscribers)
                    /\ Stream(s)' = Append(Stream(s), Event[c])
                    /\ ~Owes(c, s)'
                 \/ /\ Stream(s)' = Stream(s) /\ queue'[s] = queue[s]
                    /\ Owes(c, s)' => Owes(c, s)
<1>1. /\ pc[c] = "waiting"
      /\ {at[c]} \in SUBSET Subscribers /\ todo[c] \in SUBSET Subscribers
      /\ {at[c]} \intersect todo[c] = {}
      /\ Deliver(c, {at[c]}, todo[c]) /\ seen' = seen
  BY DEF PublishResume, WaitsForSomebody, TypeOK, history
<1>p. PICK first \in SUBSET Subscribers, rest \in SUBSET Subscribers :
         /\ first = {at[c]} /\ rest = todo[c]
         /\ first \intersect rest = {} /\ Deliver(c, first, rest)
  BY <1>1
<1>2. /\ pc'[c] \in {"waiting", "returned"}
      /\ pc'[c] = "waiting" => at'[c] \notin todo'[c]
      /\ \A a \in Calls \ {c} : pc'[a] = pc[a] /\ at'[a] = at[a] /\ todo'[a] = todo[a]
      /\ \A s \in Subscribers :
            \/ /\ s \in first \union (rest \intersect subscribers)
               /\ Stream(s)' = Append(Stream(s), Event[c])
               /\ ~Owes(c, s)'
            \/ /\ Stream(s)' = Stream(s) /\ queue'[s] = queue[s]
               /\ Owes(c, s)' => s \in rest \intersect subscribers
  <2>1. first \intersect rest = {} /\ Deliver(c, first, rest) /\ seen' = seen
    BY <1>1, <1>p
  <2> QED
    BY <2>1, DeliverOutcome
<1>3. \A s : s \in {at[c]} \union (todo[c] \intersect subscribers)
                => Owes(c, s) /\ (s = at[c] \/ s \in subscribers)
  BY <1>1 DEF Owes
<1> QED
  BY <1>2, <1>3, <1>p

\* Any other step: nothing is put into a queue, and no debt arises.
Silent == [Next]_vars /\ \A c \in Calls : ~Publish(c) /\ ~PublishResume(c)

\* What it does to the calls ...
LEMMA SilentCalls ==
    ASSUME TypeOK, Silent
    PROVE  /\ \A c \in Calls :
                 /\ pc'[c] = "waiting" => pc[c] = "waiting" /\ at'[c] = at[c] /\ todo'[c] = todo[c]
                 /\ pc[c] # "start" => pc'[c] # "start"
                 /\ Over(c) => Over(c)'
           /\ by' = by
<1>t. pc \in [Calls -> {"start", "waiting", "returned", "aborted"}]
      /\ at \in [Calls -> Subscribers \union {Nobody}] /\ todo \in [Calls -> SUBSET Subscribers]
  BY DEF TypeOK
<1>1. CASE UNCHANGED <<pc, at, todo, by>>
  BY <1>1 DEF Over
<1>2. CASE \/ Start \/ Stop \/ CleanupRound \/ UNCHANGED vars
           \/ \E s \in Subscribers : Subscribe(s) \/ Unsubscribe(s) \/ Consume(s)
  BY <1>1, <1>2 DEF Start, Stop, CleanupRound, Subscribe, Unsubscribe, Consume, vars, calls, history
<1>3. ASSUME NEW c \in Calls, PublishDuplicate(c) \/ PublishAborted(c)
      PROVE  /\ \A a \in Calls :
                   /\ pc'[a] = "waiting" => pc[a] = "waiting" /\ at'[a] = at[a] /\ todo'[a] = todo[a]
                   /\ pc[a] # "start" => pc'[a] # "start"
                   /\ Over(a) => Over(a)'
             /\ by' = by
  <2>1. /\ by' = by
        /\ pc'[c] \in {"returned", "aborted"} /\ pc'[c] # "start" /\ pc'[c] # "waiting"
        /\ \A a \in Calls \ {c} : pc'[a] = pc[a] /\ at'[a] = at[a] /\ todo'[a] = todo[a]
    BY <1>t, <1>3 DEF PublishDuplicate, PublishAborted, history
  <2> QED
    BY <2>1 DEF Over
<1> QED
  BY <1>2, <1>3 DEF Silent, Next, Subscribing, Publishing

\* ... and to the streams.
LEMMA SilentStreams ==
    ASSUME TypeOK, Silent, NEW s \in Subscribers
    PROVE  Stream(s)' = Stream(s) /\ Len(queue'[s]) <= Len(queue[s])
<1>t. seen[s] \in Seq(Events) /\ queue[s] \in Seq(Events) /\ Len(queue[s]) \in Nat
  BY LenProperties DEF TypeOK
<1>1. CASE UNCHANGED <<queue, seen>>
  BY <1>t, <1>1 DEF Stream
<1>2. CASE \/ Start \/ Stop \/ CleanupRound \/ UNCHANGED vars
           \/ \E r \in Subscribers : Subscribe(r) \/ Unsubscribe(r)
           \/ \E c \in Calls : PublishDuplicate(c) \/ PublishAborted(c)
  BY <1>1, <1>2 DEF Start, Stop, CleanupRound, Subscribe, Unsubscribe, PublishDuplicate, PublishAborted,
                    vars, calls, history
<1>3. ASSUME NEW r \in Subscribers, Consume(r)
      PROVE  Stream(s)' = Stream(s) /\ Len(queue'[s]) <= Len(queue[s])
  <2>1. CASE r # s
    <3>1. queue'[s] = queue[s] /\ seen'[s] = seen[s]
      BY <1>3, <2>1 DEF Consume, TypeOK
    <3> QED
      BY <1>t, <3>1 DEF Stream
  <2>2. CASE r = s
    <3>1. /\ queue[s] # <<>> /\ queue'[s] = Tail(queue[s])
          /\ seen'[s] = Append(seen[s], Head(queue[s]))
      BY <1>3, <2>2 DEF Consume, TypeOK
    <3>2. seen'[s] \o queue'[s] = seen[s] \o queue[s]
      BY <1>t, <3>1, StreamConsumed
    <3>3. Len(queue'[s]) = Len(queue[s]) - 1
      BY <1>t, <3>1, HeadTailProperties
    <3> QED
      BY <1>t, <3>2, <3>3 DEF Stream
  <2> QED
    BY <2>1, <2>2
<1> QED
  BY <1>2, <1>3 DEF Silent, Next, Subscribing, Publishing
-----------------------------------------------------------------------------
(* Once each.                                                              *)

\* A call comes once to whom it waits for.
OnceEach == \A c \in Calls : pc[c] = "waiting" => at[c] \notin todo[c]

\* Whoever has not joined yet has nothing, and nobody owes it anything.
Newcomers ==
    \A s \in Subscribers \ joined :
        /\ s \notin subscribers
        /\ past[s] = {}
        /\ Stream(s) = <<>>
        /\ \A c \in Calls : ~Owes(c, s)

\* A recent event was accepted, after or before the ids were forgotten.
Remembered == \A e \in recent_results : e \in processed_tasks \/ clears > 0

\* What has come to s of the event e, and what is still to come, is no more
\* than the event was accepted.
Debtors(s, e) == {c \in Calls : Event[c] = e /\ Owes(c, s)}
Before(s, e) == IF e \in past[s] THEN 1 ELSE 0
Accepted(e) == IF e \in processed_tasks THEN clears + 1 ELSE clears

Counted ==
    \A s \in Subscribers, e \in Events :
        /\ IsFiniteSet(Debtors(s, e))
        /\ Occurrences(Stream(s), e) + Cardinality(Debtors(s, e)) + Before(s, e) <= Accepted(e)

DeliveryInv == OnceEach /\ Newcomers /\ Remembered /\ Counted

LEMMA OnceEachStep ==
    ASSUME EventAssumption, EventInv, OnceEach, [Next]_vars
    PROVE  OnceEach'
<1>t. TypeOK /\ WaitsForSomebody
  BY DEF EventInv
<1>1. ASSUME NEW c \in Calls, Publish(c) PROVE OnceEach'
  <2>1. /\ pc'[c] = "waiting" => at'[c] \notin todo'[c]
        /\ \A a \in Calls \ {c} : pc'[a] = pc[a] /\ at'[a] = at[a] /\ todo'[a] = todo[a]
    BY <1>t, <1>1, PublishOutcome
  <2> QED
    BY <2>1 DEF OnceEach
<1>2. ASSUME NEW c \in Calls, PublishResume(c) PROVE OnceEach'
  <2>1. at[c] \notin todo[c]
    BY <1>2 DEF OnceEach, PublishResume
  <2>2. /\ pc'[c] = "waiting" => at'[c] \notin todo'[c]
        /\ \A a \in Calls \ {c} : pc'[a] = pc[a] /\ at'[a] = at[a] /\ todo'[a] = todo[a]
    BY <1>t, <1>2, <2>1, ResumeOutcome
  <2> QED
    BY <2>2 DEF OnceEach
<1>3. CASE Silent
  BY <1>t, <1>3, SilentCalls DEF OnceEach
<1> QED
  BY <1>1, <1>2, <1>3 DEF Silent

LEMMA NewcomersStep ==
    ASSUME EventAssumption, EventInv, OnceEach, Newcomers, [Next]_vars
    PROVE  Newcomers'
<1>t. TypeOK /\ WaitsForSomebody
  BY DEF EventInv
<1>1. joined \subseteq joined'
  BY DEF Next, Subscribing, Publishing, Start, Stop, CleanupRound, Subscribe, Unsubscribe, Consume,
         PublishDuplicate, Publish, PublishResume, PublishAborted, vars, history
<1>2. ASSUME NEW s \in Subscribers \ joined'
      PROVE  s \notin subscribers' /\ past'[s] = past[s]
  <2>1. s \notin subscribers
    BY <1>1, <1>2 DEF Newcomers
  <2>2. ASSUME NEW r \in Subscribers, Subscribe(r)
        PROVE  s \notin subscribers' /\ past'[s] = past[s]
    <3>1. s # r
      BY <1>2, <2>2 DEF Subscribe
    <3> QED
      BY <1>t, <2>1, <2>2, <3>1 DEF Subscribe, TypeOK
  <2>3. CASE past' = past /\ subscribers' \subseteq subscribers
    BY <2>1, <2>3
  <2> QED
    BY <2>2, <2>3
    DEF Next, Subscribing, Publishing, Start, Stop, CleanupRound, Unsubscribe, Consume,
        PublishDuplicate, Publish, PublishResume, PublishAborted, vars, history, manager
<1>3. ASSUME NEW s \in Subscribers \ joined
      PROVE  Stream(s)' = Stream(s) /\ \A c \in Calls : ~Owes(c, s)'
  <2>1. s \notin subscribers /\ \A c \in Calls : ~Owes(c, s)
    BY DEF Newcomers
  <2>2. ASSUME NEW c \in Calls, Publish(c)
        PROVE  Stream(s)' = Stream(s) /\ \A a \in Calls : ~Owes(a, s)'
    <3>1. /\ \A a \in Calls \ {c} : pc'[a] = pc[a] /\ at'[a] = at[a] /\ todo'[a] = todo[a]
          /\ Stream(s)' = Stream(s) /\ ~Owes(c, s)'
      BY <1>t, <2>1, <2>2, PublishOutcome
    <3>2. \A a \in Calls \ {c} : ~Owes(a, s)'
      BY <2>1, <3>1 DEF Owes
    <3> QED
      BY <3>1, <3>2
  <2>3. ASSUME NEW c \in Calls, PublishResume(c)
        PROVE  Stream(s)' = Stream(s) /\ \A a \in Calls : ~Owes(a, s)'
    <3>1. at[c] \notin todo[c]
      BY <2>3 DEF OnceEach, PublishResume
    <3>2. /\ \A a \in Calls \ {c} : pc'[a] = pc[a] /\ at'[a] = at[a] /\ todo'[a] = todo[a]
          /\ Stream(s)' = Stream(s) /\ ~Owes(c, s)'
      BY <1>t, <2>1, <2>3, <3>1, ResumeOutcome
    <3>3. \A a \in Calls \ {c} : ~Owes(a, s)'
      BY <2>1, <3>2 DEF Owes
    <3> QED
      BY <3>2, <3>3
  <2>4. CASE Silent
    <3>1. \A c \in Calls : Owes(c, s)' => Owes(c, s)
      BY <1>t, <2>4, SilentCalls DEF Owes
    <3> QED
      BY <1>t, <2>1, <2>4, <3>1, SilentStreams
  <2> QED
    BY <2>2, <2>3, <2>4 DEF Silent
<1> QED
  BY <1>1, <1>2, <1>3 DEF Newcomers

LEMMA RememberedStep ==
    ASSUME EventAssumption, TypeOK, Remembered, [Next]_vars
    PROVE  Remembered'
<1>1. CASE CleanupRound
  <2>1. clears \in Nat /\ recent_results' \subseteq recent_results
    BY <1>1 DEF CleanupRound, TypeOK
  <2>2. CASE Emptied
    <3>1. clears' = clears + 1
      BY <1>1, <2>2 DEF CleanupRound
    <3> QED
      BY <2>1, <3>1 DEF Remembered
  <2>3. CASE ~Emptied
    <3>1. clears' = clears /\ processed_tasks' = processed_tasks
      BY <1>1, <2>3 DEF CleanupRound
    <3> QED
      BY <2>1, <3>1 DEF Remembered
  <2> QED
    BY <2>2, <2>3
<1>2. ASSUME NEW c \in Calls, Publish(c) PROVE Remembered'
  BY <1>2 DEF Publish, Remembered
<1>3. CASE UNCHANGED <<recent_results, processed_tasks, clears>>
  BY <1>3 DEF Remembered
<1> QED
  BY <1>1, <1>2, <1>3
  DEF Next, Subscribing, Publishing, Start, Stop, Subscribe, Unsubscribe, Consume,
      PublishDuplicate, PublishResume, PublishAborted, vars, history, manager
\* The numbers that are compared.
LEMMA CountTypes ==
    ASSUME TypeOK, NEW s \in Subscribers, NEW e
    PROVE  /\ Occurrences(Stream(s), e) \in Nat
           /\ Before(s, e) \in 0..1
           /\ Accepted(e) \in Nat /\ clears <= Accepted(e) /\ Accepted(e) <= clears + 1
           /\ clears \in Nat
<1>1. clears \in Nat
  BY DEF TypeOK
<1>2. Stream(s) \in Seq(Events)
  BY StreamType
<1>3. Occurrences(Stream(s), e) \in Nat
  BY <1>2, OccurrencesType
<1>4. Before(s, e) \in 0..1
  BY DEF Before
<1> QED
  BY <1>1, <1>3, <1>4 DEF Accepted

\* What may happen to one count: it does not grow, or the event was accepted
\* once more, or a debt was paid.
LEMMA CountKept ==
    ASSUME TypeOK, TypeOK', NEW s \in Subscribers, NEW e \in Events, Counted,
           NEW D, D \subseteq Debtors(s, e), Debtors(s, e)' \subseteq D,
           Before(s, e)' = Before(s, e), Accepted(e) <= Accepted(e)',
           \/ Occurrences(Stream(s), e)' = Occurrences(Stream(s), e)
           \/ /\ Occurrences(Stream(s), e)' = Occurrences(Stream(s), e) + 1
              /\ \/ Accepted(e)' = Accepted(e) + 1
                 \/ \E c \in Debtors(s, e) : D = Debtors(s, e) \ {c}
    PROVE  /\ IsFiniteSet(Debtors(s, e)')
           /\ Occurrences(Stream(s), e)' + Cardinality(Debtors(s, e)') + Before(s, e)' <= Accepted(e)'
<1> DEFINE A == Debtors(s, e)
           B == Debtors(s, e)'
           o == Occurrences(Stream(s), e)
           n == Occurrences(Stream(s), e)'
           v == Accepted(e)
           w == Accepted(e)'
           x == Before(s, e)
<1>1. o \in Nat /\ n \in Nat /\ v \in Nat /\ w \in Nat /\ x \in 0..1 /\ Before(s, e)' = x
  <2>1. o \in Nat /\ v \in Nat /\ x \in 0..1
    BY CountTypes
  <2>2. clears' \in Nat
    BY DEF TypeOK
  <2>3. w \in Nat
    <3>1. clears' + 1 \in Nat
      <4>1. \A k \in Nat : k + 1 \in Nat
        OBVIOUS
      <4> QED
        BY <2>2, <4>1
    <3>2. w = clears' + 1 \/ w = clears'
      BY DEF Accepted
    <3> QED
      BY <2>2, <3>1, <3>2
  <2>4. n = o \/ n = o + 1
    OBVIOUS
  <2> HIDE DEF o, n, v, w, x
  <2>5. n \in Nat
    BY <2>1, <2>4
  <2> QED
    BY <2>1, <2>3, <2>5 DEF x
<1>2. IsFiniteSet(A) /\ o + Cardinality(A) + x <= v
  BY DEF Counted
<1>3. /\ v <= w /\ D \subseteq A /\ B \subseteq D
      /\ \/ n = o
         \/ n = o + 1 /\ (w = v + 1 \/ \E c \in A : D = A \ {c})
  OBVIOUS
<1> HIDE DEF A, B, o, n, v, w, x
<1>4. /\ IsFiniteSet(D) /\ Cardinality(D) <= Cardinality(A)
      /\ IsFiniteSet(B) /\ Cardinality(B) <= Cardinality(D)
  <2>1. IsFiniteSet(D) /\ Cardinality(D) <= Cardinality(A)
    BY <1>2, <1>3, FS_Subset
  <2> QED
    BY <1>3, <2>1, FS_Subset
<1>5. Cardinality(A) \in Nat /\ Cardinality(D) \in Nat /\ Cardinality(B) \in Nat
  BY <1>2, <1>4, FS_CardinalityType
<1>6. ASSUME NEW c \in A, D = A \ {c}
      PROVE  Cardinality(D) = Cardinality(A) - 1
  BY <1>2, <1>6, FS_RemoveElement
<1>7. n + Cardinality(B) + x <= w
  <2>1. CASE n = o
    BY <1>1, <1>2, <1>3, <1>4, <1>5, <2>1
  <2>2. CASE n = o + 1 /\ w = v + 1
    BY <1>1, <1>2, <1>3, <1>4, <1>5, <2>2
  <2>3. CASE n = o + 1 /\ \E c \in A : D = A \ {c}
    <3>1. Cardinality(D) = Cardinality(A) - 1
      BY <1>6, <2>3
    <3> QED
      BY <1>1, <1>2, <1>3, <1>4, <1>5, <2>3, <3>1
  <2> QED
    BY <1>3, <2>1, <2>2, <2>3
<1> QED
  BY <1>1, <1>4, <1>7 DEF A, B, o, n, v, w, x

\* An event that is accepted once more.
LEMMA CountedPublish ==
    ASSUME EventAssumption, EventInv, TypeOK', DeliveryInv, NEW c \in Calls, Publish(c)
    PROVE  Counted'
<1>t. TypeOK /\ Counted
  BY DEF EventInv, DeliveryInv
<1>1. /\ \A a \in Calls \ {c} : pc'[a] = pc[a] /\ at'[a] = at[a] /\ todo'[a] = todo[a]
      /\ \A s \in Subscribers :
            \/ Stream(s)' = Append(Stream(s), Event[c]) /\ ~Owes(c, s)'
            \/ Stream(s)' = Stream(s)
  BY <1>t, PublishOutcome
<1>2. /\ pc[c] = "start" /\ Event[c] \in Events /\ Event[c] \notin processed_tasks
      /\ processed_tasks' = processed_tasks \union {Event[c]}
      /\ past' = past /\ clears' = clears
  BY DEF Publish, Ready, EventAssumption
<1>3. clears \in Nat
  BY <1>t DEF TypeOK
<1> SUFFICES ASSUME NEW s \in Subscribers, NEW e \in Events
             PROVE  /\ IsFiniteSet(Debtors(s, e)')
                    /\ Occurrences(Stream(s), e)' + Cardinality(Debtors(s, e)') + Before(s, e)'
                          <= Accepted(e)'
  BY DEF Counted
<1>4. Before(s, e)' = Before(s, e)
  BY <1>2 DEF Before
<1>5. \A a \in Calls \ {c} : Owes(a, s)' => Owes(a, s)
  BY <1>1 DEF Owes
<1>6. CASE e # Event[c]
  <2>1. Accepted(e)' = Accepted(e) /\ Accepted(e) <= Accepted(e)'
    BY <1>2, <1>3, <1>6 DEF Accepted
  <2>2. Debtors(s, e)' \subseteq Debtors(s, e)
    BY <1>5, <1>6 DEF Debtors
  <2>3. Occurrences(Stream(s), e)' = Occurrences(Stream(s), e)
    <3>1. Occurrences(Append(Stream(s), Event[c]), e) = Occurrences(Stream(s), e)
      BY <1>t, <1>2, <1>6, StreamType, OneMoreOccurrence
    <3>2. Stream(s)' = Stream(s) \/ Stream(s)' = Append(Stream(s), Event[c])
      BY <1>1
    <3>3. Occurrences(Stream(s)', e) = Occurrences(Stream(s), e)
      BY <3>1, <3>2
    <3> QED
      BY <3>3 DEF Occurrences
  <2> QED
    BY <1>t, <1>4, <2>1, <2>2, <2>3, CountKept
<1>7. CASE e = Event[c]
  <2>1. Accepted(e)' = Accepted(e) + 1
    BY <1>2, <1>3, <1>7 DEF Accepted
  <2>2. Accepted(e) <= Accepted(e)'
    BY <1>t, <2>1, CountTypes
  <2>3. CASE Stream(s)' = Append(Stream(s), Event[c]) /\ ~Owes(c, s)'
    <3>1. Debtors(s, e)' \subseteq Debtors(s, e)
      BY <1>5, <2>3 DEF Debtors
    <3>2. Occurrences(Append(Stream(s), e), e) = Occurrences(Stream(s), e) + 1
      BY <1>t, StreamType, OneMoreOccurrence
    <3>3. Occurrences(Stream(s)', e) = Occurrences(Stream(s), e) + 1
      BY <1>7, <2>3, <3>2
    <3>4. Occurrences(Stream(s), e)' = Occurrences(Stream(s), e) + 1
      BY <3>3 DEF Occurrences
    <3> QED
      BY <1>t, <1>4, <2>1, <2>2, <3>1, <3>4, CountKept
  <2>4. CASE Stream(s)' = Stream(s)
    <3> DEFINE A == Debtors(s, e)
               B == Debtors(s, e)'
               o == Occurrences(Stream(s), e)
               x == Before(s, e)
               v == Accepted(e)
    <3>1. B \subseteq A \union {c}
      BY <1>5 DEF Debtors
    <3>2. IsFiniteSet(A) /\ o + Cardinality(A) + x <= v
      BY <1>t DEF Counted
    <3>3. Occurrences(Stream(s)', e) = o
      BY <2>4
    <3>4. Occurrences(Stream(s), e)' = o
      BY <3>3 DEF Occurrences
    <3>5. o \in Nat /\ x \in 0..1 /\ v \in Nat
      BY <1>t, CountTypes
    <3>6. Accepted(e)' = v + 1 /\ Before(s, e)' = x
      BY <1>4, <2>1
    <3> HIDE DEF A, B, o, x, v
    <3>7. IsFiniteSet(A \union {c}) /\ Cardinality(A \union {c}) <= Cardinality(A) + 1
      <4>1. Cardinality(A) \in Nat
        BY <3>2, FS_CardinalityType
      <4>2. IsFiniteSet(A \union {c})
            /\ Cardinality(A \union {c}) = IF c \in A THEN Cardinality(A) ELSE Cardinality(A) + 1
        BY <3>2, FS_AddElement
      <4> QED
        BY <4>1, <4>2
    <3>8. IsFiniteSet(B) /\ Cardinality(B) <= Cardinality(A \union {c})
      BY <3>1, <3>7, FS_Subset
    <3>9. Cardinality(A) \in Nat /\ Cardinality(B) \in Nat /\ Cardinality(A \union {c}) \in Nat
      BY <3>2, <3>7, <3>8, FS_CardinalityType
    <3>10. o + Cardinality(B) + x <= v + 1
      BY <3>2, <3>5, <3>7, <3>8, <3>9
    <3> QED
      BY <3>4, <3>6, <3>8, <3>10 DEF B
  <2> QED
    BY <1>1, <2>3, <2>4
<1> QED
  BY <1>6, <1>7

\* A debt that is paid.
LEMMA CountedResume ==
    ASSUME EventAssumption, EventInv, TypeOK', DeliveryInv, NEW c \in Calls, PublishResume(c)
    PROVE  Counted'
<1>t. TypeOK /\ WaitsForSomebody /\ Counted
  BY DEF EventInv, DeliveryInv
<1>0. at[c] \notin todo[c]
  BY DEF DeliveryInv, OnceEach, PublishResume
<1>1. /\ \A a \in Calls \ {c} : pc'[a] = pc[a] /\ at'[a] = at[a] /\ todo'[a] = todo[a]
      /\ \A s \in Subscribers :
            \/ Owes(c, s) /\ Stream(s)' = Append(Stream(s), Event[c]) /\ ~Owes(c, s)'
            \/ Stream(s)' = Stream(s) /\ (Owes(c, s)' => Owes(c, s))
  BY <1>t, <1>0, ResumeOutcome
<1>2. /\ Event[c] \in Events /\ past' = past /\ clears' = clears
      /\ processed_tasks' = processed_tasks
  BY DEF PublishResume, EventAssumption, manager, history
<1> SUFFICES ASSUME NEW s \in Subscribers, NEW e \in Events
             PROVE  /\ IsFiniteSet(Debtors(s, e)')
                    /\ Occurrences(Stream(s), e)' + Cardinality(Debtors(s, e)') + Before(s, e)'
                          <= Accepted(e)'
  BY DEF Counted
<1>3. Before(s, e)' = Before(s, e) /\ Accepted(e)' = Accepted(e)
  BY <1>2 DEF Before, Accepted
<1>4. Accepted(e) <= Accepted(e)'
  BY <1>t, <1>3, CountTypes
<1>5. \A a \in Calls \ {c} : Owes(a, s)' => Owes(a, s)
  BY <1>1 DEF Owes
<1>6. CASE Owes(c, s) /\ Stream(s)' = Append(Stream(s), Event[c]) /\ ~Owes(c, s)'
  <2>1. CASE e = Event[c]
    <3>1. c \in Debtors(s, e) /\ Debtors(s, e)' \subseteq Debtors(s, e) \ {c}
      BY <1>5, <1>6, <2>1 DEF Debtors
    <3>2. Occurrences(Append(Stream(s), e), e) = Occurrences(Stream(s), e) + 1
      BY <1>t, StreamType, OneMoreOccurrence
    <3>3. Occurrences(Stream(s)', e) = Occurrences(Stream(s), e) + 1
      BY <1>6, <2>1, <3>2
    <3>4. Occurrences(Stream(s), e)' = Occurrences(Stream(s), e) + 1
      BY <3>3 DEF Occurrences
    <3>5. PICK D \in SUBSET Debtors(s, e) : D = Debtors(s, e) \ {c}
      OBVIOUS
    <3>6. D \subseteq Debtors(s, e) /\ Debtors(s, e)' \subseteq D
      BY <3>1, <3>5
    <3> QED
      BY <1>t, <1>3, <1>4, <3>1, <3>4, <3>5, <3>6, CountKept
  <2>2. CASE e # Event[c]
    <3>1. Debtors(s, e)' \subseteq Debtors(s, e)
      BY <1>5, <2>2 DEF Debtors
    <3>2. Occurrences(Append(Stream(s), Event[c]), e) = Occurrences(Stream(s), e)
      BY <1>t, <1>2, <2>2, StreamType, OneMoreOccurrence
    <3>3. Occurrences(Stream(s)', e) = Occurrences(Stream(s), e)
      BY <1>6, <3>2
    <3>4. Occurrences(Stream(s), e)' = Occurrences(Stream(s), e)
      BY <3>3 DEF Occurrences
    <3> QED
      BY <1>t, <1>3, <1>4, <3>1, <3>4, CountKept
  <2> QED
    BY <2>1, <2>2
<1>7. CASE Stream(s)' = Stream(s) /\ (Owes(c, s)' => Owes(c, s))
  <2>1. Debtors(s, e)' \subseteq Debtors(s, e)
    BY <1>5, <1>7 DEF Debtors
  <2>2. Occurrences(Stream(s), e)' = Occurrences(Stream(s), e)
    BY <1>7 DEF Occurrences
  <2> QED
    BY <1>t, <1>3, <1>4, <2>1, <2>2, CountKept
<1> QED
  BY <1>1, <1>6, <1>7

\* A step that delivers nothing.
LEMMA CountedSilent ==
    ASSUME EventAssumption, EventInv, TypeOK', DeliveryInv, Silent
    PROVE  Counted'
<1>t. TypeOK /\ Counted
  BY DEF EventInv, DeliveryInv
<1> SUFFICES ASSUME NEW s \in Subscribers, NEW e \in Events
             PROVE  /\ IsFiniteSet(Debtors(s, e)')
                    /\ Occurrences(Stream(s), e)' + Cardinality(Debtors(s, e)') + Before(s, e)'
                          <= Accepted(e)'
  BY DEF Counted
<1>1. \A c \in Calls : Owes(c, s)' => Owes(c, s)
  BY <1>t, SilentCalls DEF Owes
<1>2. Debtors(s, e)' \subseteq Debtors(s, e)
  BY <1>1 DEF Debtors
<1>3. Stream(s)' = Stream(s)
  BY <1>t, SilentStreams
<1>4. Occurrences(Stream(s), e)' = Occurrences(Stream(s), e)
  BY <1>3 DEF Occurrences
<1>5. Accepted(e) <= Accepted(e)'
  <2>1. clears \in Nat
    BY <1>t DEF TypeOK
  <2>2. CASE CleanupRound
    BY <2>1, <2>2 DEF CleanupRound, Accepted
  <2>3. CASE UNCHANGED <<processed_tasks, clears>>
    BY <2>1, <2>3 DEF Accepted
  <2> QED
    BY <2>2, <2>3
    DEF Silent, Next, Subscribing, Publishing, Start, Stop, Subscribe, Unsubscribe, Consume,
        PublishDuplicate, PublishAborted, vars, history, manager
<1>6. CASE past'[s] = past[s]
  <2>1. Before(s, e)' = Before(s, e)
    BY <1>6 DEF Before
  <2> QED
    BY <1>t, <1>2, <1>4, <1>5, <2>1, CountKept
<1>7. CASE Subscribe(s)
  <2>1. s \notin joined /\ past' = [past EXCEPT ![s] = Recent(Topic[s])]
        /\ processed_tasks' = processed_tasks /\ clears' = clears
    BY <1>7 DEF Subscribe
  <2>2. Stream(s) = <<>> /\ Debtors(s, e) = {}
    BY <2>1 DEF DeliveryInv, Newcomers, Debtors
  <2>3. Debtors(s, e)' = {}
    BY <1>2, <2>2
  <2>4. Occurrences(Stream(s), e)' = 0
    <3>1. {i \in DOMAIN <<>> : <<>>[i] = e} = {}
      OBVIOUS
    <3>2. Occurrences(<<>>, e) = 0
      BY <3>1, FS_EmptySet DEF Occurrences
    <3>3. Occurrences(Stream(s), e) = 0
      BY <2>2, <3>2
    <3> QED
      BY <1>4, <3>3
  <2>5. e \in past'[s] => Accepted(e)' >= 1
    <3>1. past'[s] = Recent(Topic[s])
      BY <1>t, <2>1 DEF TypeOK
    <3>2. e \in past'[s] => e \in processed_tasks \/ clears > 0
      BY <3>1 DEF Recent, DeliveryInv, Remembered
    <3> QED
      BY <1>t, <2>1, <3>2 DEF Accepted, TypeOK
  <2>6. Accepted(e)' \in Nat
    <3>1. clears' \in Nat
      BY DEF TypeOK
    <3>2. clears' + 1 \in Nat
      <4>1. \A k \in Nat : k + 1 \in Nat
        OBVIOUS
      <4> QED
        BY <3>1, <4>1
    <3>3. Accepted(e)' = clears' + 1 \/ Accepted(e)' = clears'
      BY DEF Accepted
    <3> QED
      BY <3>1, <3>2, <3>3
  <2>7. Before(s, e)' <= Accepted(e)' /\ Before(s, e)' \in Nat
    BY <2>5, <2>6 DEF Before
  <2>8. 0 + 0 + Before(s, e)' <= Accepted(e)'
    BY <2>6, <2>7
  <2> QED
    BY <2>3, <2>4, <2>8, FS_EmptySet
<1> QED
  <2>1. ASSUME NEW r \in Subscribers, Subscribe(r) PROVE Subscribe(s) \/ past'[s] = past[s]
    BY <1>t, <2>1 DEF Subscribe, TypeOK
  <2>2. (\A r \in Subscribers : ~Subscribe(r)) => past' = past
    BY DEF Silent, Next, Subscribing, Publishing, Start, Stop, CleanupRound, Unsubscribe, Consume,
        PublishDuplicate, PublishAborted, vars, history
  <2> QED
    BY <1>6, <1>7, <2>1, <2>2

\* Whoever waits, resumes, subscribes or leaves: each subscriber gets each
\* event once for every time it was accepted, the recent events included.
LEMMA DeliveryInvariant == Spec => []DeliveryInv
<1> USE EventAssumption
<1>1. Init => DeliveryInv
  <2> SUFFICES ASSUME Init PROVE DeliveryInv
    OBVIOUS
  <2>1. \A s \in Subscribers : Stream(s) = <<>>
    <3>1. <<>> \o <<>> = <<>>
      BY EmptySeq, ConcatEmptySeq
    <3> QED
      BY <3>1 DEF Init, Stream
  <2>2. ASSUME NEW s \in Subscribers, NEW e \in Events
        PROVE  /\ IsFiniteSet(Debtors(s, e))
               /\ Occurrences(Stream(s), e) + Cardinality(Debtors(s, e)) + Before(s, e) <= Accepted(e)
    <3>1. Debtors(s, e) = {}
      BY DEF Init, Debtors, Owes
    <3>2. {i \in DOMAIN <<>> : <<>>[i] = e} = {}
      OBVIOUS
    <3>3. Occurrences(<<>>, e) = 0
      BY <3>2, FS_EmptySet DEF Occurrences
    <3>4. Before(s, e) = 0 /\ Accepted(e) = 0
      BY DEF Init, Before, Accepted
    <3>5. Occurrences(Stream(s), e) = 0
      BY <2>1, <3>3
    <3> QED
      BY <3>1, <3>4, <3>5, FS_EmptySet
  <2>3. OnceEach /\ Newcomers /\ Remembered
    BY <2>1 DEF Init, OnceEach, Newcomers, Remembered, Owes
  <2> QED
    BY <2>2, <2>3 DEF DeliveryInv, Counted
<1>2. DeliveryInv /\ EventInv /\ EventInv' /\ [Next]_vars => DeliveryInv'
  <2> SUFFICES ASSUME DeliveryInv, EventInv, TypeOK', [Next]_vars PROVE DeliveryInv'
    BY DEF EventInv
  <2>1. Counted'
    BY CountedPublish, CountedResume, CountedSilent DEF Silent
  <2> QED
    BY <2>1, OnceEachStep, NewcomersStep, RememberedStep DEF DeliveryInv, EventInv
<1> QED
  BY <1>1, <1>2, EventInvariant, PTL DEF Spec

\* A subscriber gets an event once, over its queue and the recent events it
\* read when it joined, and once more at most for every time the processed ids
\* were forgotten: for any number of calls that publish the same event.
THEOREM EventsAreHeardOnce == Spec => []HeardOnce
<1>1. EventInv /\ DeliveryInv => HeardOnce
  <2> SUFFICES ASSUME TypeOK, Counted, NEW s \in Subscribers, NEW e \in Events
               PROVE  (IF e \in past[s] THEN Occurrences(Stream(s), e) + 1
                                        ELSE Occurrences(Stream(s), e)) <= clears + 1
    BY DEF EventInv, DeliveryInv, HeardOnce, Occurrences
  <2>1. /\ IsFiniteSet(Debtors(s, e))
        /\ Occurrences(Stream(s), e) + Cardinality(Debtors(s, e)) + Before(s, e) <= Accepted(e)
    BY DEF Counted
  <2>2. Cardinality(Debtors(s, e)) \in Nat
    BY <2>1, FS_CardinalityType
  <2>3. /\ Occurrences(Stream(s), e) \in Nat
        /\ Accepted(e) \in Nat /\ Accepted(e) <= clears + 1 /\ clears \in Nat
    BY CountTypes
  <2>4. CASE e \in past[s]
    <3>1. Before(s, e) = 1
      BY <2>4 DEF Before
    <3> QED
      BY <2>1, <2>2, <2>3, <2>4, <3>1
  <2>5. CASE e \notin past[s]
    <3>1. Before(s, e) = 0
      BY <2>5 DEF Before
    <3> QED
      BY <2>1, <2>2, <2>3, <2>5, <3>1
  <2> QED
    BY <2>4, <2>5
<1> QED
  BY <1>1, EventInvariant, DeliveryInvariant, PTL

\* Whoever has unsubscribed gets nothing more but what a call was already
\* waiting to put into its queue.
THEOREM UnsubscribedIsQuiet == Spec => QuietAfterUnsubscribe
<1>1. EventInv /\ EventInv' /\ DeliveryInv /\ [Next]_vars =>
          [\A s \in joined \ subscribers :
              Len(queue'[s]) > Len(queue[s]) => \E c \in Calls : pc[c] = "waiting" /\ at[c] = s]_vars
  <2> SUFFICES ASSUME EventInv, TypeOK', DeliveryInv, [Next]_vars,
                      NEW s \in joined \ subscribers, Len(queue'[s]) > Len(queue[s])
               PROVE  \E c \in Calls : pc[c] = "waiting" /\ at[c] = s
    BY DEF EventInv
  <2>t. TypeOK /\ WaitsForSomebody /\ s \in Subscribers
    BY DEF EventInv, TypeOK
  <2>1. Len(queue[s]) \in Nat /\ Len(queue'[s]) \in Nat
    BY <2>t, LenProperties DEF TypeOK
  <2>2. queue'[s] # queue[s]
    BY <2>1
  <2>3. ASSUME NEW c \in Calls, Publish(c) PROVE FALSE
    BY <2>t, <2>2, <2>3, PublishOutcome, EventAssumption
  <2>4. ASSUME NEW c \in Calls, PublishResume(c) PROVE pc[c] = "waiting" /\ at[c] = s
    <3>1. pc[c] = "waiting" /\ at[c] \notin todo[c]
      BY <2>4 DEF PublishResume, DeliveryInv, OnceEach
    <3> QED
      BY <2>t, <2>2, <2>4, <3>1, ResumeOutcome, EventAssumption
  <2>5. CASE Silent
    <3>1. Len(queue'[s]) <= Len(queue[s])
      BY <2>t, <2>5, SilentStreams
    <3> QED
      BY <2>1, <3>1
  <2> QED
    BY <2>3, <2>4, <2>5 DEF Silent
<1> QED
  BY <1>1, EventInvariant, DeliveryInvariant, PTL DEF Spec, QuietAfterUnsubscribe

-----------------------------------------------------------------------------
(* In order.                                                               *)

\* The call that an event was accepted from has begun, and what its task
\* published before is over.
Begun ==
    \A e \in Events : by[e] # Nobody =>
        /\ Event[by[e]] = e
        /\ pc[by[e]] # "start"
        /\ \A b \in Earlier[by[e]] : Over(b)

\* As long as no id was forgotten, an event was accepted from one call, and
\* nothing is anywhere that was not accepted.
AcceptedOnce ==
    clears = 0 =>
        /\ \A e \in Events : by[e] # Nobody => e \in processed_tasks
        /\ recent_results \subseteq processed_tasks
        /\ \A c \in Calls : pc[c] = "waiting" => by[Event[c]] = c
        /\ \A s \in Subscribers :
              /\ past[s] \subseteq processed_tasks
              /\ \A i \in DOMAIN Stream(s) : Stream(s)[i] \in processed_tasks

OrderInv == Begun /\ AcceptedOnce /\ InOrder

\* What is over stays over.
LEMMA CallsGoOn ==
    ASSUME EventAssumption, EventInv, OnceEach, [Next]_vars, NEW a \in Calls
    PROVE  /\ pc[a] # "start" => pc'[a] # "start"
           /\ Over(a) => Over(a)'
<1>t. TypeOK /\ WaitsForSomebody
  BY DEF EventInv
<1>1. ASSUME NEW c \in Calls, Publish(c)
      PROVE  (pc[a] # "start" => pc'[a] # "start") /\ (Over(a) => Over(a)')
  <2>1. pc[c] = "start" /\ (a # c => pc'[a] = pc[a])
    BY <1>t, <1>1, PublishOutcome DEF Publish, Ready
  <2> QED
    BY <2>1 DEF Over
<1>2. ASSUME NEW c \in Calls, PublishResume(c)
      PROVE  (pc[a] # "start" => pc'[a] # "start") /\ (Over(a) => Over(a)')
  <2>1. pc[c] = "waiting" /\ at[c] \notin todo[c]
    BY <1>2 DEF PublishResume, OnceEach
  <2>2. pc'[c] \in {"waiting", "returned"} /\ (a # c => pc'[a] = pc[a])
    BY <1>t, <1>2, <2>1, ResumeOutcome
  <2> QED
    BY <2>1, <2>2 DEF Over
<1>3. CASE Silent
  BY <1>t, <1>3, SilentCalls
<1> QED
  BY <1>1, <1>2, <1>3 DEF Silent

LEMMA BegunStep ==
    ASSUME EventAssumption, EventInv, OnceEach, Begun, [Next]_vars
    PROVE  Begun'
<1>t. TypeOK /\ WaitsForSomebody
  BY DEF EventInv
<1>1. \A a \in Calls : (pc[a] # "start" => pc'[a] # "start") /\ (Over(a) => Over(a)')
  BY CallsGoOn
<1>2. \A c \in Calls : Earlier[c] \subseteq Calls
  BY DEF EventAssumption
<1>3. \A e \in Events : by[e] \in Calls \union {Nobody}
  BY <1>t DEF TypeOK
<1>4. ASSUME NEW e \in Events, by'[e] = by[e], by[e] # Nobody
      PROVE  Event[by'[e]] = e /\ pc'[by'[e]] # "start" /\ \A b \in Earlier[by'[e]] : Over(b)'
  <2>1. Event[by[e]] = e /\ pc[by[e]] # "start" /\ \A b \in Earlier[by[e]] : Over(b)
    BY <1>4 DEF Begun
  <2>2. by[e] \in Calls /\ Earlier[by[e]] \subseteq Calls
    BY <1>2, <1>3, <1>4
  <2> QED
    BY <1>1, <1>4, <2>1, <2>2
<1>5. ASSUME NEW c \in Calls, Publish(c) PROVE Begun'
  <2>1. /\ by' = [by EXCEPT ![Event[c]] = c] /\ Event[c] \in Events
        /\ \A b \in Earlier[c] : Over(b)
    BY <1>5 DEF Publish, Ready, EventAssumption
  <2>2. pc'[c] # "start"
    BY <1>t, <1>5, PublishOutcome
  <2>3. by'[Event[c]] = c /\ \A e \in Events \ {Event[c]} : by'[e] = by[e]
    BY <1>t, <2>1 DEF TypeOK
  <2>4. \A b \in Earlier[c] : Over(b)'
    BY <1>1, <1>2, <2>1
  <2> QED
    BY <1>4, <2>2, <2>3, <2>4 DEF Begun
<1>6. CASE by' = by
  BY <1>4, <1>6 DEF Begun
<1>7. ASSUME NEW c \in Calls, PublishResume(c) PROVE by' = by
  BY <1>7 DEF PublishResume, history
<1>8. Silent => by' = by
  BY <1>t, SilentCalls
<1> QED
  BY <1>5, <1>6, <1>7, <1>8 DEF Silent

\* An element of a sequence that may have become longer.
LEMMA OldOrNew ==
    ASSUME NEW q \in Seq(Events), NEW e \in Events, NEW r, r = q \/ r = Append(q, e),
           NEW i \in DOMAIN r
    PROVE  \/ r[i] = e
           \/ i \in DOMAIN q /\ i \in 1..i /\ \A j \in 1..i : j \in DOMAIN q /\ r[j] = q[j]
<1>1. DOMAIN q = 1..Len(q) /\ Len(q) \in Nat
  BY LenProperties
<1>2. CASE r = q
  BY <1>1, <1>2
<1>3. CASE r = Append(q, e)
  <2>1. /\ DOMAIN r = 1..(Len(q) + 1) /\ r[Len(q) + 1] = e
        /\ \A j \in 1..Len(q) : r[j] = q[j]
    BY <1>1, <1>3, AppendProperties, LenProperties
  <2> QED
    BY <1>1, <2>1
<1> QED
  BY <1>2, <1>3

\* The ids are forgotten in the clean-up only, which counts it.
LEMMA NeverForgotten ==
    ASSUME TypeOK, [Next]_vars, clears' = 0
    PROVE  clears = 0 /\ processed_tasks \subseteq processed_tasks'
<1>1. clears \in Nat
  BY DEF TypeOK
<1>2. CASE CleanupRound
  BY <1>1, <1>2 DEF CleanupRound
<1>3. CASE clears' = clears /\ processed_tasks \subseteq processed_tasks'
  BY <1>3
<1> QED
  BY <1>2, <1>3
  DEF Next, Subscribing, Publishing, Start, Stop, Subscribe, Unsubscribe, Consume,
      PublishDuplicate, Publish, PublishResume, PublishAborted, vars, history, manager

LEMMA AcceptedOnceStep ==
    ASSUME EventAssumption, EventInv, OnceEach, AcceptedOnce, [Next]_vars
    PROVE  AcceptedOnce'
<1> SUFFICES ASSUME clears' = 0
    PROVE  /\ \A e \in Events : by'[e] # Nobody => e \in processed_tasks'
           /\ recent_results' \subseteq processed_tasks'
           /\ \A c \in Calls : pc'[c] = "waiting" => by'[Event[c]] = c
           /\ \A s \in Subscribers :
                 /\ past'[s] \subseteq processed_tasks'
                 /\ \A i \in DOMAIN Stream(s)' : Stream(s)'[i] \in processed_tasks'
  BY DEF AcceptedOnce
<1>t. TypeOK /\ WaitsForSomebody
  BY DEF EventInv
<1>c. \A c \in Calls : Event[c] \in Events /\ c # Nobody
  BY DEF EventAssumption
<1>0. clears = 0 /\ processed_tasks \subseteq processed_tasks'
  BY <1>t, NeverForgotten
<1>1. /\ \A e \in Events : by[e] # Nobody => e \in processed_tasks
      /\ recent_results \subseteq processed_tasks
      /\ \A c \in Calls : pc[c] = "waiting" => by[Event[c]] = c
      /\ \A s \in Subscribers :
            /\ past[s] \subseteq processed_tasks
            /\ \A i \in DOMAIN Stream(s) : Stream(s)[i] \in processed_tasks
  BY <1>0 DEF AcceptedOnce
<1>2. ASSUME NEW c \in Calls, Event[c] \in processed_tasks', NEW s \in Subscribers,
             Stream(s)' = Stream(s) \/ Stream(s)' = Append(Stream(s), Event[c]),
             NEW i \in DOMAIN Stream(s)'
      PROVE  Stream(s)'[i] \in processed_tasks'
  <2>1. Stream(s) \in Seq(Events)
    BY <1>t, StreamType
  <2>2. \/ Stream(s)'[i] = Event[c]
        \/ i \in DOMAIN Stream(s) /\ i \in 1..i
           /\ \A j \in 1..i : j \in DOMAIN Stream(s) /\ Stream(s)'[j] = Stream(s)[j]
    BY <1>2, <1>c, <2>1, OldOrNew
  <2>3. i \in DOMAIN Stream(s) => Stream(s)[i] \in processed_tasks'
    BY <1>0, <1>1
  <2> QED
    BY <1>2, <2>2, <2>3
<1>3. ASSUME NEW c \in Calls, Publish(c)
      PROVE  /\ \A e \in Events : by'[e] # Nobody => e \in processed_tasks'
             /\ recent_results' \subseteq processed_tasks'
             /\ \A a \in Calls : pc'[a] = "waiting" => by'[Event[a]] = a
             /\ \A s \in Subscribers :
                   /\ past'[s] \subseteq processed_tasks'
                   /\ \A i \in DOMAIN Stream(s)' : Stream(s)'[i] \in processed_tasks'
  <2>1. /\ Event[c] \notin processed_tasks
        /\ processed_tasks' = processed_tasks \union {Event[c]}
        /\ recent_results' = recent_results \union {Event[c]}
        /\ by' = [by EXCEPT ![Event[c]] = c] /\ past' = past
    BY <1>3 DEF Publish
  <2>2. /\ \A a \in Calls \ {c} : pc'[a] = pc[a]
        /\ \A s \in Subscribers :
              Stream(s)' = Stream(s) \/ Stream(s)' = Append(Stream(s), Event[c])
    BY <1>t, <1>3, PublishOutcome
  <2>3. by'[Event[c]] = c /\ \A e \in Events \ {Event[c]} : by'[e] = by[e]
    BY <1>t, <1>c, <2>1 DEF TypeOK
  <2>4. ASSUME NEW a \in Calls, pc'[a] = "waiting" PROVE by'[Event[a]] = a
    <3>1. CASE a = c
      BY <2>3, <3>1
    <3>2. CASE a # c
      <4>1. by[Event[a]] = a
        BY <1>1, <2>2, <2>4, <3>2
      <4>2. Event[a] \in processed_tasks
        BY <1>1, <1>c, <4>1
      <4> QED
        BY <1>c, <2>1, <2>3, <4>1, <4>2
    <3> QED
      BY <3>1, <3>2
  <2>5. \A s \in Subscribers : \A i \in DOMAIN Stream(s)' : Stream(s)'[i] \in processed_tasks'
    <3>1. Event[c] \in processed_tasks'
      BY <2>1
    <3> QED
      BY <1>2, <2>2, <3>1
  <2>6. \A e \in Events : by'[e] # Nobody => e \in processed_tasks'
    BY <1>1, <2>1, <2>3
  <2> QED
    BY <1>1, <2>1, <2>4, <2>5, <2>6
<1>4. ASSUME NEW c \in Calls, PublishResume(c)
      PROVE  /\ \A e \in Events : by'[e] # Nobody => e \in processed_tasks'
             /\ recent_results' \subseteq processed_tasks'
             /\ \A a \in Calls : pc'[a] = "waiting" => by'[Event[a]] = a
             /\ \A s \in Subscribers :
                   /\ past'[s] \subseteq processed_tasks'
                   /\ \A i \in DOMAIN Stream(s)' : Stream(s)'[i] \in processed_tasks'
  <2>1. /\ pc[c] = "waiting" /\ at[c] \notin todo[c]
        /\ UNCHANGED <<processed_tasks, recent_results, by, past>>
    BY <1>4 DEF PublishResume, OnceEach, manager, history
  <2>2. /\ \A a \in Calls \ {c} : pc'[a] = pc[a]
        /\ \A s \in Subscribers :
              Stream(s)' = Stream(s) \/ Stream(s)' = Append(Stream(s), Event[c])
    BY <1>t, <1>4, <2>1, ResumeOutcome
  <2>3. Event[c] \in processed_tasks'
    BY <1>1, <1>c, <2>1
  <2>4. \A s \in Subscribers : \A i \in DOMAIN Stream(s)' : Stream(s)'[i] \in processed_tasks'
    BY <1>2, <2>2, <2>3
  <2> QED
    BY <1>1, <2>1, <2>2, <2>4
<1>5. ASSUME Silent
      PROVE  /\ \A e \in Events : by'[e] # Nobody => e \in processed_tasks'
             /\ recent_results' \subseteq processed_tasks'
             /\ \A a \in Calls : pc'[a] = "waiting" => by'[Event[a]] = a
             /\ \A s \in Subscribers :
                   /\ past'[s] \subseteq processed_tasks'
                   /\ \A i \in DOMAIN Stream(s)' : Stream(s)'[i] \in processed_tasks'
  <2>1. by' = by /\ \A a \in Calls : pc'[a] = "waiting" => pc[a] = "waiting"
    BY <1>t, <1>5, SilentCalls
  <2>2. \A s \in Subscribers : Stream(s)' = Stream(s)
    BY <1>t, <1>5, SilentStreams
  <2>3. recent_results' \subseteq recent_results
    BY <1>5
    DEF Silent, Next, Subscribing, Publishing, Start, Stop, CleanupRound, Subscribe, Unsubscribe,
        Consume, PublishDuplicate, PublishAborted, vars, history, manager
  <2>4. \A s \in Subscribers : past'[s] \subseteq past[s] \union recent_results
    <3>1. ASSUME NEW r \in Subscribers, Subscribe(r), NEW s \in Subscribers
          PROVE  past'[s] \subseteq past[s] \union recent_results
      BY <1>t, <3>1 DEF Subscribe, Recent, TypeOK
    <3>2. (\A r \in Subscribers : ~Subscribe(r)) => past' = past
      BY <1>5
      DEF Silent, Next, Subscribing, Publishing, Start, Stop, CleanupRound, Unsubscribe, Consume,
          PublishDuplicate, PublishAborted, vars, history
    <3> QED
      BY <3>1, <3>2
  <2> QED
    BY <1>0, <1>1, <2>1, <2>2, <2>3, <2>4
<1> QED
  BY <1>3, <1>4, <1>5 DEF Silent
LEMMA InOrderStep ==
    ASSUME EventAssumption, EventInv, DeliveryInv, OrderInv, [Next]_vars
    PROVE  InOrder'
<1>t. TypeOK /\ WaitsForSomebody /\ OnceEach /\ Newcomers
  BY DEF EventInv, DeliveryInv
<1> SUFFICES ASSUME clears' = 0, NEW c \in Calls, NEW b \in Earlier[c],
                    Event[b] # Event[c], by'[Event[b]] = b, by'[Event[c]] = c,
                    NEW s \in Subscribers, NEW i \in DOMAIN Stream(s)',
                    Stream(s)'[i] = Event[b]
             PROVE  /\ Event[c] \notin past'[s]
                    /\ \A j \in 1..i : Stream(s)'[j] # Event[c]
  BY DEF InOrder
<1>c. /\ b \in Calls /\ Event[b] \in Events /\ Event[c] \in Events
      /\ b # Nobody /\ c # Nobody
      /\ \A x \in Calls : Event[x] \in Events /\ x # Nobody
  BY DEF EventAssumption
<1>0. clears = 0
  BY <1>t, NeverForgotten
<1>q. Stream(s) \in Seq(Events)
  BY <1>t, StreamType
<1>1. ASSUME by[Event[c]] = c PROVE Over(b)
  BY <1>1, <1>c DEF OrderInv, Begun
<1>2. ASSUME by[Event[b]] = b, by[Event[c]] = c, past'[s] = past[s],
             i \in DOMAIN Stream(s), i \in 1..i,
             \A j \in 1..i : j \in DOMAIN Stream(s) /\ Stream(s)'[j] = Stream(s)[j]
      PROVE  /\ Event[c] \notin past'[s]
             /\ \A j \in 1..i : Stream(s)'[j] # Event[c]
  <2>1. Stream(s)[i] = Event[b]
    BY <1>2
  <2>2. Event[c] \notin past[s] /\ \A j \in 1..i : Stream(s)[j] # Event[c]
    BY <1>0, <1>2, <2>1 DEF OrderInv, InOrder
  <2> QED
    BY <1>2, <2>2
<1>3. ASSUME NEW x \in Calls, Publish(x)
      PROVE  /\ Event[c] \notin past'[s]
             /\ \A j \in 1..i : Stream(s)'[j] # Event[c]
  <2>1. /\ pc[x] = "start" /\ Event[x] \notin processed_tasks
        /\ by' = [by EXCEPT ![Event[x]] = x] /\ past' = past
    BY <1>3 DEF Publish, Ready
  <2>2. Stream(s)' = Stream(s) \/ Stream(s)' = Append(Stream(s), Event[x])
    BY <1>t, <1>3, PublishOutcome
  <2>3. \/ Stream(s)'[i] = Event[x]
        \/ i \in DOMAIN Stream(s) /\ i \in 1..i
           /\ \A j \in 1..i : j \in DOMAIN Stream(s) /\ Stream(s)'[j] = Stream(s)[j]
    BY <1>c, <1>q, <2>2, OldOrNew
  <2>4. by'[Event[x]] = x /\ \A e \in Events \ {Event[x]} : by'[e] = by[e]
    BY <1>t, <1>c, <2>1 DEF TypeOK
  <2>5. CASE x = c
    <3>1. /\ i \in DOMAIN Stream(s)
          /\ \A j \in 1..i : j \in DOMAIN Stream(s) /\ Stream(s)'[j] = Stream(s)[j]
      BY <2>3, <2>5
    <3>2. /\ past[s] \subseteq processed_tasks
          /\ \A j \in DOMAIN Stream(s) : Stream(s)[j] \in processed_tasks
      BY <1>0 DEF OrderInv, AcceptedOnce
    <3> QED
      BY <2>1, <2>5, <3>1, <3>2
  <2>6. CASE x # c
    <3>1. by[Event[c]] = c
      BY <1>c, <2>4, <2>6
    <3>2. x # b
      BY <1>1, <2>1, <3>1 DEF Over
    <3>3. by[Event[b]] = b /\ Event[x] # Event[b]
      BY <1>c, <2>4, <3>2
    <3> QED
      BY <1>2, <2>1, <2>3, <3>1, <3>3
  <2> QED
    BY <2>5, <2>6
<1>4. ASSUME NEW x \in Calls, PublishResume(x)
      PROVE  /\ Event[c] \notin past'[s]
             /\ \A j \in 1..i : Stream(s)'[j] # Event[c]
  <2>1. pc[x] = "waiting" /\ at[x] \notin todo[x] /\ by' = by /\ past' = past
    BY <1>t, <1>4 DEF PublishResume, OnceEach, history
  <2>2. Stream(s)' = Stream(s) \/ Stream(s)' = Append(Stream(s), Event[x])
    BY <1>t, <1>4, <2>1, ResumeOutcome
  <2>3. \/ Stream(s)'[i] = Event[x]
        \/ i \in DOMAIN Stream(s) /\ i \in 1..i
           /\ \A j \in 1..i : j \in DOMAIN Stream(s) /\ Stream(s)'[j] = Stream(s)[j]
    BY <1>c, <1>q, <2>2, OldOrNew
  <2>4. by[Event[x]] = x
    BY <1>0, <2>1 DEF OrderInv, AcceptedOnce
  <2>5. x # b
    BY <1>1, <2>1 DEF Over
  <2>6. Event[x] # Event[b]
    BY <2>1, <2>4, <2>5
  <2> QED
    BY <1>2, <2>1, <2>3, <2>6
<1>5. CASE Silent
  <2>1. by' = by /\ Stream(s)' = Stream(s)
    BY <1>t, <1>5, SilentCalls, SilentStreams
  <2>2. Stream(s) # <<>>
    BY <2>1
  <2>3. past'[s] = past[s]
    <3>1. ASSUME NEW r \in Subscribers, Subscribe(r) PROVE past'[s] = past[s]
      <4>1. r # s
        BY <1>t, <2>2, <3>1 DEF Subscribe, Newcomers
      <4> QED
        BY <1>t, <3>1, <4>1 DEF Subscribe, TypeOK
    <3>2. (\A r \in Subscribers : ~Subscribe(r)) => past' = past
      BY <1>5
      DEF Silent, Next, Subscribing, Publishing, Start, Stop, CleanupRound, Unsubscribe, Consume,
          PublishDuplicate, PublishAborted, vars, history
    <3> QED
      BY <3>1, <3>2
  <2>4. i \in DOMAIN Stream(s) /\ i \in 1..i /\ \A j \in 1..i : j \in DOMAIN Stream(s)
    <3>1. DOMAIN Stream(s) = 1..Len(Stream(s)) /\ Len(Stream(s)) \in Nat
      BY <1>q, LenProperties
    <3>2. i \in 1..Len(Stream(s))
      BY <2>1, <3>1
    <3> QED
      BY <3>1, <3>2
  <2> QED
    BY <1>2, <2>1, <2>3, <2>4
<1> QED
  BY <1>3, <1>4, <1>5 DEF Silent

\* As long as the processed ids are not forgotten, a subscriber gets what one
\* task published in the order in which that task published it, wherever the
\* calls waited and whoever published the same events.
THEOREM EventsComeInOrder == Spec => []InOrder
<1> USE EventAssumption
<1>1. Init => OrderInv
  <2> SUFFICES ASSUME Init PROVE OrderInv
    OBVIOUS
  <2>1. \A s \in Subscribers : Stream(s) = <<>>
    <3>1. <<>> \o <<>> = <<>>
      BY EmptySeq, ConcatEmptySeq
    <3> QED
      BY <3>1 DEF Init, Stream
  <2>2. Begun
    BY DEF Init, Begun
  <2>3. AcceptedOnce
    <3>1. \A s \in Subscribers : past[s] = {} /\ DOMAIN Stream(s) = {}
      BY <2>1 DEF Init
    <3> QED
      BY <3>1 DEF Init, AcceptedOnce
  <2>4. InOrder
    <3>1. \A s \in Subscribers : DOMAIN Stream(s) = {}
      BY <2>1
    <3> QED
      BY <3>1 DEF InOrder
  <2> QED
    BY <2>2, <2>3, <2>4 DEF OrderInv
<1>2. OrderInv /\ DeliveryInv /\ EventInv /\ [Next]_vars => OrderInv'
  <2> SUFFICES ASSUME OrderInv, DeliveryInv, EventInv, [Next]_vars PROVE OrderInv'
    OBVIOUS
  <2>1. OnceEach /\ Begun /\ AcceptedOnce
    BY DEF DeliveryInv, OrderInv
  <2> QED
    BY <2>1, BegunStep, AcceptedOnceStep, InOrderStep DEF OrderInv
<1>3. OrderInv => InOrder
  BY DEF OrderInv
<1> QED
  BY <1>1, <1>2, <1>3, EventInvariant, DeliveryInvariant, PTL DEF Spec
=============================================================================
