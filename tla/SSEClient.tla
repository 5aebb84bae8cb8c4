------------------------------ MODULE SSEClient ------------------------------
(***************************************************************************)
(* SSEClient (async_events/sse_client.py): start(), stop(), the task that  *)
(* connects, reads the stream and reconnects after an error, and the       *)
(* parser that makes events of lines.                                      *)
(*                                                                         *)
(* A reconnection runs in a new asyncio task that is not stored in _task.  *)
(* A slot of Tasks stands for one start() and the chain of tasks that      *)
(* follow each other from it; `current` is the slot whose latest task is   *)
(* _task itself, as long as that is not done.                              *)
(*                                                                         *)
(* A line of a block names its type, or is data, or is blank and ends the  *)
(* block; comments, ids and retry change nothing that is modelled.  Every  *)
(* block has a number of its own, over all streams, and a line of data is  *)
(* the number of its block.                                                *)
(* The reading side (get_event(), wait_for_event()) is left out.           *)
(***************************************************************************)
EXTENDS Naturals, Sequences, FiniteSets

CONSTANTS
    Tasks, NoTask,      \* slots for chains of connection tasks
    MaxStarts,          \* bound: how often start() takes effect
    NotJson,            \* the blocks whose data is not JSON
    MaxBlocks,          \* bound: blocks the server begins, over all streams
    MaxLines            \* bound: data lines of a block

ASSUME SSEAssumption ==
    /\ NoTask \notin Tasks
    /\ NotJson \subseteq 1..MaxBlocks
    /\ MaxStarts \in Nat /\ MaxBlocks \in Nat /\ MaxLines \in Nat

VARIABLES
    running,        \* _running
    current,        \* the slot of _task while it is not done
    client,         \* _client: the number of the start() that made it
    closed,         \* the clients that are closed
    pc,             \* the connection task of each slot
    on,             \* the client of its request, 0 if there is none
    cancelled,      \* slots whose task is cancelled and has not met it yet
    stopPc,         \* where the stop() in progress waits
    block,          \* the number of the block each stream is in
    parser,         \* event_type and event_data of each task
    lines, ended,   \* history: the data lines of each block, the ended blocks
    events          \* _events

lifecycle == <<running, client, closed, stopPc>>
server == <<lines, ended>>
vars == <<lifecycle, current, pc, on, cancelled, block, parser, server, events>>

\* event_type is the default; no data.
Fresh == [type |-> 0, data |-> <<>>]

Blocks == 1..Len(lines)

TypeOK ==
    /\ running \in BOOLEAN
    /\ current \in Tasks \union {NoTask}
    /\ current # NoTask => pc[current] # "none"
    /\ client \in 0..MaxStarts
    /\ closed \subseteq 1..MaxStarts
    /\ pc \in [Tasks -> {"none", "starting", "connecting", "streaming", "sleeping"}]
    /\ on \in [Tasks -> 0..MaxStarts]
    /\ cancelled \subseteq Tasks
    /\ stopPc \in {"none", "waiting", "closing"}
    /\ block \in [Tasks -> 0..Len(lines)]
    /\ parser \in [Tasks -> [type : 0..Len(lines), data : Seq(Blocks)]]
    /\ lines \in Seq(0..MaxLines) /\ Len(lines) <= MaxBlocks
    /\ ended \subseteq Blocks
    /\ events \in Seq([type : 0..Len(lines), data : Seq(Blocks)])

Init ==
    /\ running = FALSE
    /\ current = NoTask
    /\ client = 0
    /\ closed = {}
    /\ pc = [t \in Tasks |-> "none"]
    /\ on = [t \in Tasks |-> 0]
    /\ cancelled = {}
    /\ stopPc = "none"
    /\ block = [t \in Tasks |-> 0]
    /\ parser = [t \in Tasks |-> Fresh]
    /\ lines = <<>>
    /\ ended = {}
    /\ events = <<>>

-----------------------------------------------------------------------------
(* start(), possibly in the middle of a stop().                            *)

Start(t) ==
    /\ ~running
    /\ client < MaxStarts
    /\ pc[t] = "none"
    /\ running' = TRUE
    /\ client' = client + 1
    /\ current' = t
    /\ pc' = [pc EXCEPT ![t] = "starting"]
    /\ UNCHANGED <<closed, stopPc, on, cancelled, block, parser, server, events>>

-----------------------------------------------------------------------------
(* _connect_and_process()                                                  *)

\* The task of t is done, or goes on as p.
Leaves(t, p) ==
    /\ pc' = [pc EXCEPT ![t] = p]
    /\ on' = [on EXCEPT ![t] = 0]
    /\ block' = [block EXCEPT ![t] = 0]
    /\ parser' = [parser EXCEPT ![t] = Fresh]

\* Seeded fault: _task is taken for alive when it is done.
Done_Kept(t) == current

Done(t) == IF current = t THEN NoTask ELSE current

Acts(t, p) == pc[t] = p /\ t \notin cancelled

\* The first step of a task: a request on the client that _client is by now.
Request(t) ==
    /\ Acts(t, "starting")
    /\ client \notin closed
    /\ pc' = [pc EXCEPT ![t] = "connecting"]
    /\ on' = [on EXCEPT ![t] = client]
    /\ UNCHANGED <<lifecycle, current, cancelled, block, parser, server, events>>

\* The stream is open: a new block begins, with a fresh parser.
Connect(t) ==
    /\ Acts(t, "connecting")
    /\ on[t] \notin closed
    /\ Len(lines) < MaxBlocks
    /\ pc' = [pc EXCEPT ![t] = "streaming"]
    /\ lines' = Append(lines, 0)
    /\ block' = [block EXCEPT ![t] = Len(lines')]
    /\ parser' = [parser EXCEPT ![t] = Fresh]
    /\ UNCHANGED <<lifecycle, current, on, cancelled, ended, events>>

\* Seeded fault: the client retries whether it is running or not.
Failed_Always(t) ==
    /\ Leaves(t, "sleeping")
    /\ UNCHANGED <<current, lifecycle, cancelled, server, events>>

\* An exception: sleep before the reconnection if the client is running.
Failed(t) ==
    /\ Leaves(t, IF running THEN "sleeping" ELSE "none")
    /\ current' = IF running THEN current ELSE Done(t)
    /\ UNCHANGED <<lifecycle, cancelled, server, events>>

\* The request cannot be made on a client that is closed, or fails.
ConnectFails(t) ==
    /\ (Acts(t, "starting") /\ client \in closed) \/ Acts(t, "connecting")
    /\ Failed(t)

\* The stream breaks, at the latest when its client is closed.
StreamFails(t) == Acts(t, "streaming") /\ Failed(t)

\* The server ends the stream: so does the task, and nothing reconnects.
StreamEnds(t) ==
    /\ Acts(t, "streaming")
    /\ on[t] \notin closed
    /\ Leaves(t, "none")
    /\ current' = Done(t)
    /\ UNCHANGED <<lifecycle, cancelled, server, events>>

\* After 3 seconds, and without another look at _running, a new task takes
\* over; it is not stored in _task.
Wake(t) ==
    /\ Acts(t, "sleeping")
    /\ pc' = [pc EXCEPT ![t] = "starting"]
    /\ current' = Done(t)
    /\ UNCHANGED <<lifecycle, on, cancelled, block, parser, server, events>>

\* CancelledError, wherever the task is.
Cancelled(t) ==
    /\ t \in cancelled
    /\ cancelled' = cancelled \ {t}
    /\ Leaves(t, "none")
    /\ current' = Done(t)
    /\ UNCHANGED <<lifecycle, server, events>>

-----------------------------------------------------------------------------
(* The lines of a stream.                                                  *)

Reads(t) == Acts(t, "streaming") /\ on[t] \notin closed

EventLine(t) ==
    /\ Reads(t)
    /\ parser' = [parser EXCEPT ![t].type = block[t]]
    /\ UNCHANGED <<lifecycle, current, pc, on, cancelled, block, server, events>>

DataLine(t) ==
    /\ Reads(t)
    /\ lines[block[t]] < MaxLines
    /\ lines' = [lines EXCEPT ![block[t]] = @ + 1]
    /\ parser' = [parser EXCEPT ![t].data = Append(@, block[t])]
    /\ UNCHANGED <<lifecycle, current, pc, on, cancelled, block, ended, events>>

\* Seeded fault: the data is kept for the next event.
Dispatched_KeepsData(p) == [p EXCEPT !.type = 0]

\* The parser after a blank line: all is reset if there was data, nothing if
\* there was none.
Dispatched(p) == IF p.data # <<>> THEN Fresh ELSE p

\* _process_event() stores the event; data that is no JSON is dropped.
Processed(p) ==
    IF \E i \in DOMAIN p.data : p.data[i] \in NotJson THEN events ELSE Append(events, p)

BlankLine(t) ==
    /\ Reads(t)
    /\ Len(lines) < MaxBlocks
    /\ events' = IF parser[t].data # <<>> THEN Processed(parser[t]) ELSE events
    /\ parser' = [parser EXCEPT ![t] = Dispatched(@)]
    /\ ended' = ended \union {block[t]}
    /\ lines' = Append(lines, 0)
    /\ block' = [block EXCEPT ![t] = Len(lines')]
    /\ UNCHANGED <<lifecycle, current, pc, on, cancelled>>

-----------------------------------------------------------------------------
(* stop()                                                                  *)

\* The client is closed, and stop() waits for its connections to go.
Closes == closed' = closed \union {client} /\ stopPc' = "closing"

\* Only the task in _task is cancelled and waited for.
StopBegin ==
    /\ running
    /\ stopPc = "none"
    /\ running' = FALSE
    /\ IF current = NoTask
       THEN Closes /\ UNCHANGED cancelled
       ELSE /\ cancelled' = cancelled \union {current}
            /\ stopPc' = "waiting"
            /\ UNCHANGED closed
    /\ UNCHANGED <<client, current, pc, on, block, parser, server, events>>

\* The task is done: the client that _client is by now is closed.
StopClose ==
    /\ stopPc = "waiting"
    /\ cancelled = {}
    /\ Closes
    /\ UNCHANGED <<running, client, current, pc, on, cancelled, block, parser, server, events>>

StopReturn ==
    /\ stopPc = "closing"
    /\ stopPc' = "none"
    /\ UNCHANGED <<running, client, closed, current, pc, on, cancelled, block, parser, server, events>>

-----------------------------------------------------------------------------
Connection(t) ==
    \/ Request(t) \/ Connect(t) \/ ConnectFails(t) \/ Wake(t) \/ Cancelled(t)
    \/ on[t] \in closed /\ StreamFails(t)

Stream(t) ==
    \/ EventLine(t) \/ DataLine(t) \/ BlankLine(t)
    \/ StreamEnds(t) \/ StreamFails(t)

Stopping == StopClose \/ StopReturn

Next ==
    \/ \E t \in Tasks : Start(t) \/ Connection(t) \/ Stream(t)
    \/ StopBegin \/ Stopping

Spec == Init /\ [][Next]_vars

\* The event loop runs what is ready and fires what is due; a closed client
\* breaks its streams.  Nothing is assumed of servers and clients.
FairSpec ==
    /\ Spec
    /\ \A t \in Tasks : WF_vars(Connection(t))
    /\ WF_vars(Stopping)

-----------------------------------------------------------------------------
(* Properties.                                                             *)

\* The events are the blocks with data that a blank line ended, each once and
\* with all its lines and no others, however often the stream broke in the
\* middle of one and was opened again; data that is no JSON spoils no other.
EventsAreBlocks ==
    /\ \A i \in DOMAIN events :
          \E b \in ended : events[i].data = [j \in 1..lines[b] |-> b]
    /\ \A b \in ended \ NotJson : lines[b] > 0 =>
          Cardinality({i \in DOMAIN events : events[i].data[1] = b}) = 1

\* A start() in the middle of a stop() replaced the client before it was
\* closed, and nobody closes it any more.
Orphaned(c) == c # 0 /\ c # client /\ c \notin closed

\* A stopped client comes to rest: no stream and no reconnection goes on for
\* ever, although stop() knows but the first task of every chain.  Only on an
\* orphaned client does a stream go on until the server ends it.
StopSettles == ~running ~> running \/ \A t \in Tasks : pc[t] = "none" \/ Orphaned(on[t])
=============================================================================
