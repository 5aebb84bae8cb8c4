--------------------------- MODULE SSEClientProofs ---------------------------
(***************************************************************************)
(* Theorems about SSEClient, for any number of connections, streams,       *)
(* blocks and lines, and whenever start(), stop() and a failure meet them. *)
(***************************************************************************)
EXTENDS SSEClient, SequenceTheorems, FiniteSetTheorems, TLAPS

-----------------------------------------------------------------------------
(* A client that runs, or is being stopped, has been made.                 *)

ClientInv == (running \/ stopPc = "waiting") => client > 0

\* A stream is in a block of its own that has not ended, and its parser holds
\* the data of that block and nothing else; without a stream it holds nothing.
StreamInv ==
    \A t \in Tasks :
        /\ pc[t] = "streaming" =>
              /\ block[t] \in Blocks \ ended
              /\ parser[t].data = [j \in 1..lines[block[t]] |-> block[t]]
              /\ \A s \in Tasks \ {t} : block[s] # block[t]
        /\ pc[t] # "streaming" => block[t] = 0 /\ parser[t] = Fresh

-----------------------------------------------------------------------------
(* Types.                                                                  *)

\* What a parser, and an event, can be with n blocks.
Parsed(n) == [type : 0..n, data : Seq(1..n)]

LEMMA ParsedGrows ==
    ASSUME NEW m \in Nat, NEW n \in Nat, m <= n
    PROVE  Parsed(m) \subseteq Parsed(n)
<1>1. ASSUME NEW s \in Seq(1..m) PROVE s \in Seq(1..n)
  <2>1. Len(s) \in Nat /\ s \in [1..Len(s) -> 1..m]
    BY LenProperties
  <2>2. s \in [1..Len(s) -> 1..n]
    BY <2>1
  <2> QED
    BY <2>1, <2>2
<1>2. 0..m \subseteq 0..n
  OBVIOUS
<1> QED
  BY <1>1, <1>2 DEF Parsed

\* The lists of lines after a new block, and after a new line of block b.
LEMMA NewBlock ==
    ASSUME lines \in Seq(0..MaxLines), lines' = Append(lines, 0)
    PROVE  /\ Len(lines) \in Nat
           /\ Len(lines') = Len(lines) + 1
           /\ lines' \in Seq(0..MaxLines)
           /\ \A b \in Blocks : lines'[b] = lines[b]
           /\ lines'[Len(lines) + 1] = 0
           /\ Blocks' = Blocks \union {Len(lines) + 1}
<1>1. 0 \in 0..MaxLines
  BY SSEAssumption
<1>2. Len(lines) \in Nat
  BY LenProperties
<1> QED
  BY <1>1, <1>2, AppendProperties DEF Blocks

LEMMA NewLine ==
    ASSUME lines \in Seq(0..MaxLines), NEW b \in Blocks, lines[b] < MaxLines,
           lines' = [lines EXCEPT ![b] = @ + 1]
    PROVE  /\ Len(lines') = Len(lines)
           /\ lines' \in Seq(0..MaxLines)
           /\ \A c \in Blocks \ {b} : lines'[c] = lines[c]
           /\ lines[b] \in Nat /\ lines'[b] = lines[b] + 1
<1>1. lines[b] \in 0..MaxLines /\ DOMAIN lines = Blocks /\ Len(lines) \in Nat
  BY LenProperties, ElementOfSeq DEF Blocks
<1>2. lines[b] + 1 \in 0..MaxLines
  BY <1>1, SSEAssumption
<1>3. Len(lines') = Len(lines) /\ lines' \in Seq(0..MaxLines)
  BY <1>2, ExceptSeq DEF Blocks
<1> QED
  BY <1>1, <1>3

\* The types of what start(), stop() and the tasks share ...
ControlOK ==
    /\ running \in BOOLEAN
    /\ current \in Tasks \union {NoTask}
    /\ current # NoTask => pc[current] # "none"
    /\ client \in 0..MaxStarts
    /\ closed \subseteq 1..MaxStarts
    /\ pc \in [Tasks -> {"none", "starting", "connecting", "streaming", "sleeping"}]
    /\ on \in [Tasks -> 0..MaxStarts]
    /\ cancelled \subseteq Tasks
    /\ stopPc \in {"none", "waiting", "closing"}

\* ... and of what is read.
DataOK ==
    /\ block \in [Tasks -> 0..Len(lines)]
    /\ parser \in [Tasks -> Parsed(Len(lines))]
    /\ lines \in Seq(0..MaxLines) /\ Len(lines) <= MaxBlocks
    /\ ended \subseteq Blocks
    /\ events \in Seq(Parsed(Len(lines)))

LEMMA TypeParts == TypeOK <=> ControlOK /\ DataOK
  BY DEF TypeOK, ControlOK, DataOK, Parsed, Blocks

\* The connection task of t ends or sleeps.
LEMMA LeavingControl ==
    ASSUME ControlOK, NEW t \in Tasks, NEW p \in {"none", "sleeping"}, Leaves(t, p),
           current' = IF p = "none" THEN Done(t) ELSE current
    PROVE  /\ pc' \in [Tasks -> {"none", "starting", "connecting", "streaming", "sleeping"}]
           /\ on' \in [Tasks -> 0..MaxStarts]
           /\ current' \in Tasks \union {NoTask}
           /\ current' # NoTask => pc'[current'] # "none"
  BY SSEAssumption DEF ControlOK, Leaves, Done

LEMMA FailedControl ==
    ASSUME ControlOK, ClientInv, NEW t \in Tasks, Failed(t)
    PROVE  ControlOK' /\ ClientInv'
<1>1. PICK p \in {"none", "sleeping"} :
         Leaves(t, p) /\ current' = IF p = "none" THEN Done(t) ELSE current
  BY DEF Failed
<1>2. UNCHANGED <<running, client, closed, stopPc, cancelled>>
  BY DEF Failed, lifecycle
<1> QED
  BY <1>1, <1>2, LeavingControl DEF ControlOK, ClientInv

LEMMA ControlStep ==
    ASSUME ControlOK, ClientInv, [Next]_vars
    PROVE  ControlOK' /\ ClientInv'
<1> USE SSEAssumption
<1>1. ASSUME NEW t \in Tasks, Start(t)
      PROVE  ControlOK' /\ ClientInv'
  BY <1>1 DEF Start, ControlOK, ClientInv
<1>2. ASSUME NEW t \in Tasks, Connect(t)
      PROVE  ControlOK' /\ ClientInv'
  BY <1>2 DEF Connect, ControlOK, ClientInv, lifecycle
<1>9. ASSUME NEW t \in Tasks, Request(t)
      PROVE  ControlOK' /\ ClientInv'
  BY <1>9 DEF Request, ControlOK, ClientInv, lifecycle
<1>3. ASSUME NEW t \in Tasks, ConnectFails(t) \/ StreamFails(t)
      PROVE  ControlOK' /\ ClientInv'
  BY <1>3, FailedControl DEF ConnectFails, StreamFails
<1>4. ASSUME NEW t \in Tasks, StreamEnds(t) \/ Cancelled(t)
      PROVE  ControlOK' /\ ClientInv'
  <2>1. Leaves(t, "none") /\ current' = Done(t) /\ cancelled' \subseteq cancelled
    BY <1>4 DEF StreamEnds, Cancelled
  <2>2. UNCHANGED <<running, client, closed, stopPc>>
    BY <1>4 DEF StreamEnds, Cancelled, lifecycle
  <2> QED
    BY <2>1, <2>2, LeavingControl DEF ControlOK, ClientInv
<1>5. ASSUME NEW t \in Tasks, Wake(t)
      PROVE  ControlOK' /\ ClientInv'
  BY <1>5 DEF Wake, Done, ControlOK, ClientInv, lifecycle
<1>6. ASSUME NEW t \in Tasks, EventLine(t) \/ DataLine(t) \/ BlankLine(t)
      PROVE  ControlOK' /\ ClientInv'
  BY <1>6 DEF EventLine, DataLine, BlankLine, ControlOK, ClientInv, lifecycle
<1>7. CASE StopBegin \/ StopClose \/ StopReturn
  <2>1. UNCHANGED <<client, current, pc, on>>
    BY <1>7 DEF StopBegin, StopClose, StopReturn
  <2>2. client > 0 => closed \union {client} \subseteq 1..MaxStarts
    BY DEF ControlOK
  <2>3. CASE StopBegin
    BY <2>1, <2>2, <2>3 DEF StopBegin, Closes, ControlOK, ClientInv
  <2>4. CASE StopClose
    BY <2>1, <2>2, <2>4 DEF StopClose, Closes, ControlOK, ClientInv
  <2>5. CASE StopReturn
    BY <2>1, <2>5 DEF StopReturn, ControlOK, ClientInv
  <2> QED
    BY <1>7, <2>3, <2>4, <2>5
<1>8. CASE UNCHANGED vars
  BY <1>8 DEF vars, lifecycle, ControlOK, ClientInv
<1> QED
  BY <1>1, <1>2, <1>3, <1>4, <1>5, <1>6, <1>7, <1>8, <1>9 DEF Next, Connection, Stream, Stopping

-----------------------------------------------------------------------------
(* The streams and their parsers.                                          *)

\* What is stored stays of its type when the server begins a block.
LEMMA EventsGrow ==
    ASSUME NEW m \in Nat, NEW n \in Nat, m <= n
    PROVE  /\ Seq(Parsed(m)) \subseteq Seq(Parsed(n))
           /\ [Tasks -> Parsed(m)] \subseteq [Tasks -> Parsed(n)]
           /\ [Tasks -> 0..m] \subseteq [Tasks -> 0..n]
<1>1. Parsed(m) \subseteq Parsed(n)
  BY ParsedGrows
<1>2. ASSUME NEW s \in Seq(Parsed(m)) PROVE s \in Seq(Parsed(n))
  <2>1. Len(s) \in Nat /\ s \in [1..Len(s) -> Parsed(m)]
    BY LenProperties
  <2>2. s \in [1..Len(s) -> Parsed(n)]
    BY <1>1, <2>1
  <2> QED
    BY <2>1, <2>2
<1>3. 0..m \subseteq 0..n
  OBVIOUS
<1> QED
  BY <1>1, <1>2, <1>3

\* The server begins a block on the stream of t, and the block before it, if
\* there was one, has ended.
LEMMA BlockBegins ==
    ASSUME DataOK, StreamInv, NEW t \in Tasks,
           pc \in [Tasks -> {"none", "starting", "connecting", "streaming", "sleeping"}],
           pc' = [pc EXCEPT ![t] = "streaming"],
           Len(lines) < MaxBlocks,
           lines' = Append(lines, 0),
           block' = [block EXCEPT ![t] = Len(lines')],
           NEW p \in Parsed(Len(lines)), p.data = <<>>,
           parser' = [parser EXCEPT ![t] = p],
           \/ ended' = ended
           \/ pc[t] = "streaming" /\ ended' = ended \union {block[t]}
    PROVE  /\ block' \in [Tasks -> 0..Len(lines')]
           /\ parser' \in [Tasks -> Parsed(Len(lines'))]
           /\ lines' \in Seq(0..MaxLines) /\ Len(lines') <= MaxBlocks
           /\ ended' \subseteq Blocks'
           /\ events \in Seq(Parsed(Len(lines')))
           /\ StreamInv'
<1> DEFINE n == Len(lines)
<1>t. /\ n \in Nat /\ n + 1 \in Nat /\ n < MaxBlocks
      /\ lines \in Seq(0..MaxLines)
      /\ block \in [Tasks -> 0..n]
      /\ parser \in [Tasks -> Parsed(n)]
      /\ ended \subseteq Blocks
      /\ events \in Seq(Parsed(n))
      /\ p \in Parsed(n)
      /\ MaxBlocks \in Nat
  BY LenProperties, SSEAssumption DEF DataOK
<1>1. /\ Len(lines') = n + 1
      /\ lines' \in Seq(0..MaxLines)
      /\ \A b \in Blocks : lines'[b] = lines[b]
      /\ lines'[n + 1] = 0
      /\ Blocks' = Blocks \union {n + 1}
      /\ n + 1 \notin Blocks
  BY <1>t, NewBlock DEF Blocks
<1>2. block' = [block EXCEPT ![t] = n + 1]
  BY <1>1
<1>b. pc[t] = "streaming" => block[t] \in Blocks
  BY DEF StreamInv
<1> HIDE DEF n
<1>3. /\ block' \in [Tasks -> 0..Len(lines')]
      /\ parser' \in [Tasks -> Parsed(Len(lines'))]
      /\ events \in Seq(Parsed(Len(lines')))
  <2>1. n <= n + 1
    BY <1>t
  <2>2. /\ Seq(Parsed(n)) \subseteq Seq(Parsed(n + 1))
        /\ [Tasks -> 0..n] \subseteq [Tasks -> 0..(n + 1)]
        /\ [Tasks -> Parsed(n)] \subseteq [Tasks -> Parsed(n + 1)]
    BY <1>t, <2>1, EventsGrow
  <2>3. Parsed(n) \subseteq Parsed(n + 1)
    BY <1>t, <2>1, ParsedGrows
  <2>4. n + 1 \in 0..(n + 1)
    BY <1>t
  <2>5. block' \in [Tasks -> 0..(n + 1)]
    <3>1. block \in [Tasks -> 0..(n + 1)]
      BY <1>t, <2>2
    <3> QED
      BY <1>2, <2>4, <3>1
  <2>6. parser' \in [Tasks -> Parsed(n + 1)]
    <3>1. parser \in [Tasks -> Parsed(n + 1)] /\ p \in Parsed(n + 1)
      BY <1>t, <2>2, <2>3
    <3> QED
      BY <3>1
  <2> QED
    BY <1>t, <1>1, <2>2, <2>5, <2>6
<1>4. lines' \in Seq(0..MaxLines) /\ Len(lines') <= MaxBlocks /\ ended' \subseteq Blocks'
  BY <1>t, <1>1, <1>b
<1>5. StreamInv'
  <2>1. block'[t] = n + 1 /\ parser'[t] = p /\ pc'[t] = "streaming"
    BY <1>t, <1>2
  <2>2. ASSUME NEW s \in Tasks \ {t}
        PROVE  block'[s] = block[s] /\ parser'[s] = parser[s] /\ pc'[s] = pc[s] /\ block[s] # n + 1
    BY <1>t, <1>2, <2>2
  <2>3. [j \in 1..0 |-> n + 1] = <<>>
    OBVIOUS
  <2>4. ASSUME NEW s \in Tasks, pc'[s] = "streaming"
        PROVE  /\ block'[s] \in Blocks' \ ended'
               /\ parser'[s].data = [j \in 1..lines'[block'[s]] |-> block'[s]]
               /\ \A u \in Tasks \ {s} : block'[u] # block'[s]
    <3>1. CASE s = t
      <4>1. n + 1 \in Blocks' \ ended'
        BY <1>t, <1>1, <1>b
      <4>2. parser'[s].data = [j \in 1..lines'[n + 1] |-> n + 1]
        BY <1>1, <2>1, <2>3, <3>1
      <4> QED
        BY <2>1, <2>2, <3>1, <4>1, <4>2
    <3>2. CASE s # t
      <4>1. /\ block[s] \in Blocks \ ended
            /\ parser[s].data = [j \in 1..lines[block[s]] |-> block[s]]
            /\ \A u \in Tasks \ {s} : block[u] # block[s]
        BY <2>2, <2>4, <3>2 DEF StreamInv
      <4>2. block[s] \in Blocks' \ ended'
        BY <1>1, <3>2, <4>1
      <4>3. lines'[block[s]] = lines[block[s]]
        BY <1>1, <4>1
      <4>4. ASSUME NEW u \in Tasks \ {s} PROVE block'[u] # block[s]
        BY <2>1, <2>2, <3>2, <4>1
      <4>5. block'[s] = block[s] /\ parser'[s] = parser[s]
        BY <2>2, <3>2
      <4>6. parser'[s].data = [j \in 1..lines'[block'[s]] |-> block'[s]]
        BY <4>1, <4>3, <4>5
      <4> QED
        BY <4>2, <4>4, <4>5, <4>6
    <3> QED
      BY <3>1, <3>2
  <2>5. ASSUME NEW s \in Tasks, pc'[s] # "streaming"
        PROVE  block'[s] = 0 /\ parser'[s] = Fresh
    BY <2>1, <2>2, <2>5 DEF StreamInv
  <2> QED
    BY <2>4, <2>5 DEF StreamInv
<1> QED
  BY <1>3, <1>4, <1>5

LEMMA OneMoreLine ==
    ASSUME NEW n \in Nat, NEW b
    PROVE  Append([j \in 1..n |-> b], b) = [j \in 1..(n + 1) |-> b]
<1> DEFINE s == [j \in 1..n |-> b]
           r == [j \in 1..(n + 1) |-> b]
<1>1. s \in Seq({b}) /\ Len(s) = n /\ \A j \in 1..n : s[j] = b
  OBVIOUS
<1>2. r \in Seq({b}) /\ Len(r) = n + 1 /\ \A j \in 1..(n + 1) : r[j] = b
  OBVIOUS
<1> HIDE DEF s, r
<1>3. /\ Append(s, b) \in Seq({b})
      /\ Len(Append(s, b)) = n + 1
      /\ \A j \in 1..n : Append(s, b)[j] = b
      /\ Append(s, b)[n + 1] = b
  BY <1>1, AppendProperties
<1>4. \A j \in 1..(n + 1) : Append(s, b)[j] = r[j]
  BY <1>2, <1>3
<1>5. Append(s, b) = r
  BY <1>2, <1>3, <1>4, SeqEqual
<1> QED
  BY <1>5 DEF s, r

\* A parser without data after a blank line.
LEMMA DispatchedType ==
    ASSUME NEW n \in Nat, NEW p \in Parsed(n)
    PROVE  Dispatched(p) \in Parsed(n) /\ Dispatched(p).data = <<>>
<1>1. Fresh \in Parsed(n) /\ Fresh.data = <<>>
  BY EmptySeq DEF Fresh, Parsed
<1> QED
  BY <1>1 DEF Dispatched

LEMMA LinesData ==
    ASSUME ControlOK, DataOK, StreamInv, NEW t \in Tasks, EventLine(t) \/ DataLine(t)
    PROVE  DataOK' /\ StreamInv'
<1> DEFINE n == Len(lines)
           b == block[t]
<1>t. /\ n \in Nat
      /\ lines \in Seq(0..MaxLines)
      /\ block \in [Tasks -> 0..n]
      /\ parser \in [Tasks -> Parsed(n)]
      /\ ended \subseteq Blocks
      /\ events \in Seq(Parsed(n))
      /\ Blocks = 1..n
  BY LenProperties DEF DataOK, Blocks
<1>b. pc[t] = "streaming" /\ b \in Blocks \ ended /\ parser[t].data = [j \in 1..lines[b] |-> b]
  BY DEF EventLine, DataLine, Reads, Acts, StreamInv
<1>u. pc' = pc /\ block' = block /\ ended' = ended /\ events' = events
  BY DEF EventLine, DataLine, server
<1> HIDE DEF n, b
<1>p. parser[t] \in Parsed(n) /\ parser[t].type \in 0..n /\ parser[t].data \in Seq(Blocks)
  BY <1>t DEF Parsed
<1>1. CASE EventLine(t)
  <2>1. parser' = [parser EXCEPT ![t] = [type |-> b, data |-> parser[t].data]]
    <3>1. [parser[t] EXCEPT !.type = b] = [type |-> b, data |-> parser[t].data]
      BY <1>p DEF Parsed
    <3>2. parser' = [parser EXCEPT ![t] = [parser[t] EXCEPT !.type = b]]
      BY <1>1 DEF EventLine, b
    <3> QED
      BY <3>1, <3>2
  <2>2. lines' = lines
    BY <1>1 DEF EventLine, server
  <2>3. [type |-> b, data |-> parser[t].data] \in Parsed(n)
    BY <1>t, <1>b, <1>p DEF Parsed
  <2>4. parser' \in [Tasks -> Parsed(n)]
    BY <1>t, <2>1, <2>3
  <2>5. DataOK'
    BY <1>t, <1>u, <2>2, <2>4 DEF DataOK, Blocks, n
  <2>6. \A s \in Tasks : parser'[s].data = parser[s].data /\ (s # t => parser'[s] = parser[s])
    BY <1>t, <2>1
  <2>7. StreamInv'
    BY <1>b, <1>u, <2>2, <2>6 DEF StreamInv, Blocks
  <2> QED
    BY <2>5, <2>7
<1>2. CASE DataLine(t)
  <2>1. /\ Len(lines') = n
        /\ lines' \in Seq(0..MaxLines)
        /\ \A c \in Blocks \ {b} : lines'[c] = lines[c]
        /\ lines[b] \in Nat /\ lines'[b] = lines[b] + 1
    BY <1>t, <1>b, <1>2, NewLine DEF DataLine, b, n
  <2>2. parser' = [parser EXCEPT ![t] = [type |-> parser[t].type, data |-> Append(parser[t].data, b)]]
    <3>1. [parser[t] EXCEPT !.data = Append(parser[t].data, b)]
            = [type |-> parser[t].type, data |-> Append(parser[t].data, b)]
      <4>1. \A d : [parser[t] EXCEPT !.data = d] = [type |-> parser[t].type, data |-> d]
        BY <1>p DEF Parsed
      <4> QED
        BY <4>1
    <3>2. parser' = [parser EXCEPT ![t] = [parser[t] EXCEPT !.data = Append(parser[t].data, b)]]
      BY <1>2 DEF DataLine, b
    <3> QED
      BY <3>1, <3>2
  <2>3. Append(parser[t].data, b) \in Seq(Blocks)
    BY <1>b, <1>p, AppendProperties
  <2>4. [type |-> parser[t].type, data |-> Append(parser[t].data, b)] \in Parsed(n)
    BY <1>t, <1>p, <2>3 DEF Parsed
  <2>5. parser' \in [Tasks -> Parsed(n)]
    BY <1>t, <2>2, <2>4
  <2>6. Blocks' = Blocks
    BY <1>t, <2>1 DEF Blocks
  <2>7. DataOK'
    BY <1>t, <1>u, <2>1, <2>5, <2>6 DEF DataOK, n
  <2>8. parser'[t].data = [j \in 1..lines'[b] |-> b]
    BY <1>t, <1>b, <2>1, <2>2, OneMoreLine
  <2>9. ASSUME NEW s \in Tasks \ {t}
        PROVE  parser'[s] = parser[s] /\ (pc[s] = "streaming" => lines'[block[s]] = lines[block[s]])
    <3>1. parser'[s] = parser[s]
      BY <1>t, <2>2, <2>9
    <3>2. pc[s] = "streaming" => block[s] \in Blocks \ {b}
      BY <1>b, <2>9 DEF StreamInv, b
    <3> QED
      BY <2>1, <3>1, <3>2
  <2>10. ASSUME NEW s \in Tasks
         PROVE  /\ pc'[s] = "streaming" =>
                      /\ block'[s] \in Blocks' \ ended'
                      /\ parser'[s].data = [j \in 1..lines'[block'[s]] |-> block'[s]]
                      /\ \A u \in Tasks \ {s} : block'[u] # block'[s]
                /\ pc'[s] # "streaming" => block'[s] = 0 /\ parser'[s] = Fresh
    <3>1. CASE s = t
      BY <1>b, <1>u, <2>6, <2>8, <3>1 DEF StreamInv, b
    <3>2. CASE s # t
      <4>1. /\ parser'[s] = parser[s] /\ pc'[s] = pc[s] /\ block'[s] = block[s]
            /\ pc[s] = "streaming" => lines'[block[s]] = lines[block[s]]
        BY <1>u, <2>9, <3>2
      <4>2. /\ pc[s] = "streaming" =>
                  /\ block[s] \in Blocks \ ended
                  /\ parser[s].data = [j \in 1..lines[block[s]] |-> block[s]]
                  /\ \A u \in Tasks \ {s} : block[u] # block[s]
            /\ pc[s] # "streaming" => block[s] = 0 /\ parser[s] = Fresh
        BY DEF StreamInv
      <4>3. pc[s] = "streaming" =>
               parser'[s].data = [j \in 1..lines'[block'[s]] |-> block'[s]]
        BY <4>1, <4>2
      <4> QED
        BY <1>u, <2>6, <4>1, <4>2, <4>3
    <3> QED
      BY <3>1, <3>2
  <2> QED
    BY <2>7, <2>10 DEF StreamInv
<1> QED
  BY <1>1, <1>2

LEMMA BlankData ==
    ASSUME ControlOK, DataOK, StreamInv, NEW t \in Tasks, BlankLine(t)
    PROVE  DataOK' /\ StreamInv'
<1> DEFINE n == Len(lines)
           p == Dispatched(parser[t])
<1>t. /\ n \in Nat /\ n < MaxBlocks
      /\ parser[t] \in Parsed(n)
      /\ events \in Seq(Parsed(n))
      /\ pc \in [Tasks -> {"none", "starting", "connecting", "streaming", "sleeping"}]
      /\ pc[t] = "streaming"
  BY LenProperties DEF DataOK, ControlOK, BlankLine, Reads, Acts
<1>1. p \in Parsed(n) /\ p.data = <<>>
  BY <1>t, DispatchedType
<1> HIDE DEF p
<1>2. /\ pc' = [pc EXCEPT ![t] = "streaming"]
      /\ lines' = Append(lines, 0)
      /\ block' = [block EXCEPT ![t] = Len(lines')]
      /\ parser' = [parser EXCEPT ![t] = p]
      /\ ended' = ended \union {block[t]}
  BY <1>t DEF BlankLine, p
<1>3. /\ block' \in [Tasks -> 0..Len(lines')]
      /\ parser' \in [Tasks -> Parsed(Len(lines'))]
      /\ lines' \in Seq(0..MaxLines) /\ Len(lines') <= MaxBlocks
      /\ ended' \subseteq Blocks'
      /\ events \in Seq(Parsed(Len(lines')))
      /\ StreamInv'
  BY <1>t, <1>1, <1>2, BlockBegins
<1>4. events' = events \/ events' = Append(events, parser[t])
  BY DEF BlankLine, Processed
<1>5. parser[t] \in Parsed(Len(lines'))
  <2>1. Len(lines') = n + 1
    BY <1>2, NewBlock DEF DataOK
  <2> QED
    BY <1>t, <2>1, ParsedGrows
<1>6. events' \in Seq(Parsed(Len(lines')))
  <2> DEFINE S == Parsed(Len(lines'))
  <2>1. events \in Seq(S) /\ parser[t] \in S
    BY <1>3, <1>5
  <2> HIDE DEF S
  <2>2. Append(events, parser[t]) \in Seq(S)
    BY <2>1, AppendProperties
  <2>3. events' \in Seq(S)
    BY <1>4, <2>1, <2>2
  <2> QED
    BY <2>3 DEF S
<1> QED
  BY <1>3, <1>6 DEF DataOK

LEMMA DataStep ==
    ASSUME ControlOK, DataOK, StreamInv, [Next]_vars
    PROVE  DataOK' /\ StreamInv'
<1>t. /\ Len(lines) \in Nat
      /\ block \in [Tasks -> 0..Len(lines)]
      /\ parser \in [Tasks -> Parsed(Len(lines))]
      /\ pc \in [Tasks -> {"none", "starting", "connecting", "streaming", "sleeping"}]
  BY LenProperties DEF DataOK, ControlOK
<1>f. Fresh \in Parsed(Len(lines)) /\ Fresh.data = <<>>
  BY <1>t, EmptySeq DEF Fresh, Parsed
<1>1. ASSUME NEW t \in Tasks, Connect(t)
      PROVE  DataOK' /\ StreamInv'
  <2>1. /\ pc' = [pc EXCEPT ![t] = "streaming"]
        /\ Len(lines) < MaxBlocks
        /\ lines' = Append(lines, 0)
        /\ block' = [block EXCEPT ![t] = Len(lines')]
        /\ parser' = [parser EXCEPT ![t] = Fresh]
        /\ ended' = ended /\ events' = events
    BY <1>1 DEF Connect
  <2>2. /\ block' \in [Tasks -> 0..Len(lines')]
        /\ parser' \in [Tasks -> Parsed(Len(lines'))]
        /\ lines' \in Seq(0..MaxLines) /\ Len(lines') <= MaxBlocks
        /\ ended' \subseteq Blocks'
        /\ events \in Seq(Parsed(Len(lines')))
        /\ StreamInv'
    BY <1>t, <1>f, <2>1, BlockBegins
  <2> QED
    BY <2>1, <2>2 DEF DataOK
<1>2. ASSUME NEW t \in Tasks, NEW l \in {"none", "sleeping"}, Leaves(t, l), UNCHANGED <<server, events>>
      PROVE  DataOK' /\ StreamInv'
  <2>1. /\ block' = [block EXCEPT ![t] = 0]
        /\ parser' = [parser EXCEPT ![t] = Fresh]
        /\ pc' = [pc EXCEPT ![t] = l]
        /\ lines' = lines /\ ended' = ended /\ events' = events
    BY <1>2 DEF Leaves, server
  <2>2. DataOK'
    BY <1>t, <1>f, <2>1 DEF DataOK, Blocks
  <2>3. StreamInv'
    <3>1. block'[t] = 0 /\ parser'[t] = Fresh /\ pc'[t] # "streaming"
      BY <1>t, <2>1
    <3>2. \A s \in Tasks \ {t} : block'[s] = block[s] /\ parser'[s] = parser[s] /\ pc'[s] = pc[s]
      BY <1>t, <2>1
    <3>3. \A s \in Tasks \ {t} : pc[s] = "streaming" => block[s] # 0
      <4>1. 0 \notin Blocks
        BY <1>t DEF Blocks
      <4> QED
        BY <4>1 DEF StreamInv
    <3> QED
      BY <2>1, <3>1, <3>2, <3>3 DEF StreamInv, Blocks
  <2> QED
    BY <2>2, <2>3
<1>3. ASSUME NEW t \in Tasks, ConnectFails(t) \/ StreamFails(t) \/ StreamEnds(t) \/ Cancelled(t)
      PROVE  DataOK' /\ StreamInv'
  <2>1. PICK l \in {"none", "sleeping"} : Leaves(t, l) /\ UNCHANGED <<server, events>>
    BY <1>3 DEF ConnectFails, StreamFails, StreamEnds, Cancelled, Failed
  <2> QED
    BY <1>2, <2>1
<1>4. ASSUME NEW t \in Tasks, NEW l \in {"starting", "connecting"}, pc[t] # "streaming",
             pc' = [pc EXCEPT ![t] = l], UNCHANGED <<block, parser, server, events>>
      PROVE  DataOK' /\ StreamInv'
  BY <1>t, <1>4 DEF DataOK, StreamInv, Blocks, server
<1>5. ASSUME NEW t \in Tasks, Start(t) \/ Wake(t) \/ Request(t)
      PROVE  DataOK' /\ StreamInv'
  BY <1>4, <1>5 DEF Start, Wake, Request, Acts
<1>6. CASE StopBegin \/ StopClose \/ StopReturn \/ UNCHANGED vars
  <2>1. UNCHANGED <<pc, block, parser, server, events>>
    BY <1>6 DEF StopBegin, StopClose, StopReturn, vars
  <2> QED
    BY <2>1 DEF DataOK, StreamInv, Blocks, server
<1> QED
  BY <1>1, <1>3, <1>5, <1>6, LinesData, BlankData DEF Next, Connection, Stream, Stopping

\* What is read is what the server sent on this stream, whichever of the tasks
\* of a client reads, breaks or is cancelled.
LEMMA ReadingIsSound == Spec => [](ControlOK /\ DataOK /\ ClientInv /\ StreamInv)
<1>1. Init => ControlOK /\ DataOK /\ ClientInv /\ StreamInv
  <2> SUFFICES ASSUME Init PROVE ControlOK /\ DataOK /\ ClientInv /\ StreamInv
    OBVIOUS
  <2>1. Len(lines) = 0 /\ lines \in Seq(0..MaxLines) /\ events \in Seq(Parsed(0)) /\ Fresh \in Parsed(0)
    BY EmptySeq DEF Init, Fresh, Parsed
  <2>2. ControlOK /\ ClientInv
    <3>1. 0 \in 0..MaxStarts
      BY SSEAssumption
    <3>2. pc \in [Tasks -> {"none", "starting", "connecting", "streaming", "sleeping"}] /\ on \in [Tasks -> 0..MaxStarts]
      BY <3>1 DEF Init
    <3> QED
      BY <3>1, <3>2 DEF Init, ControlOK, ClientInv
  <2>3. DataOK
    <3>1. block \in [Tasks -> 0..0] /\ ended \subseteq Blocks
      BY DEF Init
    <3>2. parser \in [Tasks -> Parsed(0)]
      BY <2>1 DEF Init
    <3> QED
      BY <2>1, <3>1, <3>2, SSEAssumption DEF DataOK
  <2>4. StreamInv
    BY DEF Init, StreamInv
  <2> QED
    BY <2>2, <2>3, <2>4
<1>2. (ControlOK /\ DataOK /\ ClientInv /\ StreamInv) /\ [Next]_vars
        => (ControlOK /\ DataOK /\ ClientInv /\ StreamInv)'
  BY ControlStep, DataStep
<1> QED
  BY <1>1, <1>2, PTL DEF Spec

\* Types: in particular the task that stop() would cancel is one that runs, and
\* no client is closed that was never made.
THEOREM ClientTypes == Spec => []TypeOK
<1>1. ControlOK /\ DataOK => TypeOK
  BY TypeParts
<1> QED
  BY <1>1, ReadingIsSound, PTL

-----------------------------------------------------------------------------
(* The events.  EventsAreBlocks says of every event that it is a block and *)
(* counts the events of a block; what is inductive says also that the      *)
(* block of an event is JSON and has lines, and finds the block by the     *)
(* first line of the data.                                                 *)

\* An event is a block that has ended, ...
IsBlock == \A i \in DOMAIN events : \E b \in ended \ NotJson :
                  lines[b] > 0 /\ events[i].data = [j \in 1..lines[b] |-> b]

\* ... no two are the same block, ...
NoneTwice == \A i, j \in DOMAIN events : events[i].data[1] = events[j].data[1] => i = j

\* ... and every block with data that is JSON is there.
NoneLost == \A b \in ended \ NotJson :
                lines[b] > 0 => \E i \in DOMAIN events : events[i].data[1] = b

StoredInv == IsBlock /\ NoneTwice /\ NoneLost

\* Lines and blocks that have not ended concern no event.
LEMMA StoredKept ==
    ASSUME StoredInv, events' = events, ended' = ended, \A b \in ended : lines'[b] = lines[b]
    PROVE  StoredInv'
<1>1. IsBlock'
  <2> SUFFICES ASSUME NEW i \in DOMAIN events
               PROVE  \E b \in ended \ NotJson :
                         lines'[b] > 0 /\ events[i].data = [j \in 1..lines'[b] |-> b]
    BY DEF IsBlock
  <2>1. PICK b \in ended \ NotJson :
           lines[b] > 0 /\ events[i].data = [j \in 1..lines[b] |-> b]
    BY DEF StoredInv, IsBlock
  <2>2. lines'[b] = lines[b]
    OBVIOUS
  <2>3. lines'[b] > 0 /\ events[i].data = [j \in 1..lines'[b] |-> b]
    BY <2>1, <2>2
  <2> QED
    BY <2>3
<1>2. NoneTwice' /\ NoneLost'
  BY DEF StoredInv, NoneTwice, NoneLost
<1> QED
  BY <1>1, <1>2 DEF StoredInv

LEMMA LineCounts ==
    ASSUME DataOK, NEW b \in Blocks
    PROVE  lines[b] \in Nat
<1>1. lines \in [1..Len(lines) -> 0..MaxLines]
  BY LenProperties DEF DataOK
<1>2. lines[b] \in 0..MaxLines
  BY <1>1 DEF Blocks
<1> QED
  BY <1>2, SSEAssumption

\* The first line of an event is the number of its block.
LEMMA FirstLine ==
    ASSUME StoredInv, DataOK, NEW i \in DOMAIN events
    PROVE  events[i].data[1] \in ended
<1>1. PICK b \in ended \ NotJson :
         lines[b] > 0 /\ events[i].data = [j \in 1..lines[b] |-> b]
  BY DEF StoredInv, IsBlock
<1>2. lines[b] \in Nat
  BY LineCounts DEF DataOK
<1> QED
  BY <1>1, <1>2

\* A blank line ends a block, and stores it if it has data and is JSON.
LEMMA BlankOutcome ==
    ASSUME ControlOK, DataOK, StreamInv, NEW t \in Tasks, BlankLine(t)
    PROVE  /\ block[t] \in Blocks \ ended
           /\ ended' = ended \union {block[t]}
           /\ \A b \in Blocks : lines'[b] = lines[b]
           /\ parser[t].data = [j \in 1..lines[block[t]] |-> block[t]]
           /\ events' = IF lines[block[t]] > 0 /\ block[t] \notin NotJson
                        THEN Append(events, parser[t]) ELSE events
<1> DEFINE b == block[t]
           d == parser[t].data
<1>1. b \in Blocks \ ended /\ d = [j \in 1..lines[b] |-> b]
  BY DEF StreamInv, BlankLine, Reads, Acts
<1>2. \A c \in Blocks : lines'[c] = lines[c]
  BY NewBlock DEF DataOK, BlankLine
<1>3. lines[b] \in Nat
  BY <1>1, LineCounts
<1>4. events' = IF d # <<>> THEN Processed(parser[t]) ELSE events
  BY DEF BlankLine
<1>5. ended' = ended \union {b}
  BY DEF BlankLine
<1> HIDE DEF b
<1>6. CASE lines[b] > 0
  <2>1. 1 \in DOMAIN d /\ d[1] = b /\ d # <<>> /\ \A i \in DOMAIN d : d[i] = b
    BY <1>1, <1>3, <1>6
  <2>2. (\E i \in DOMAIN d : d[i] \in NotJson) <=> b \in NotJson
    BY <2>1
  <2> QED
    BY <1>1, <1>2, <1>4, <1>5, <1>6, <2>1, <2>2 DEF Processed, b
<1>7. CASE ~(lines[b] > 0)
  <2>1. lines[b] = 0
    BY <1>3, <1>7
  <2>2. d = <<>>
    BY <1>1, <2>1
  <2> QED
    BY <1>1, <1>2, <1>4, <1>5, <1>7, <2>2 DEF b
<1> QED
  BY <1>6, <1>7

LEMMA BlankStored ==
    ASSUME ControlOK, DataOK, StreamInv, StoredInv, NEW t \in Tasks, BlankLine(t)
    PROVE  StoredInv'
<1> DEFINE b == block[t]
           n == Len(events)
           e == parser[t]
<1>1. /\ b \in Blocks \ ended
      /\ ended' = ended \union {b}
      /\ \A c \in Blocks : lines'[c] = lines[c]
      /\ e.data = [j \in 1..lines[b] |-> b]
      /\ events' = IF lines[b] > 0 /\ b \notin NotJson THEN Append(events, e) ELSE events
  BY BlankOutcome
<1>2. ended \subseteq Blocks /\ lines[b] \in Nat /\ n \in Nat /\ DOMAIN events = 1..n
  <2>1. lines[b] \in Nat
    BY <1>1, LineCounts
  <2>2. ended \subseteq Blocks /\ events \in Seq(Parsed(Len(lines)))
    BY DEF DataOK
  <2> QED
    BY <2>1, <2>2, LenProperties
<1> HIDE DEF b, n, e
<1>3. \A i \in DOMAIN events : \E c \in ended \ NotJson :
         lines'[c] > 0 /\ events[i].data = [j \in 1..lines'[c] |-> c]
  <2> TAKE i \in DOMAIN events
  <2>1. PICK c \in ended \ NotJson :
           lines[c] > 0 /\ events[i].data = [j \in 1..lines[c] |-> c]
    BY DEF StoredInv, IsBlock
  <2>2. lines'[c] = lines[c]
    BY <1>1, <1>2
  <2>3. lines'[c] > 0 /\ events[i].data = [j \in 1..lines'[c] |-> c]
    BY <2>1, <2>2
  <2> QED
    BY <2>3
<1>4. CASE ~(lines[b] > 0 /\ b \notin NotJson)
  <2>1. events' = events
    BY <1>1, <1>4
  <2>2. IsBlock'
    BY <1>1, <1>3, <2>1 DEF IsBlock
  <2>3. NoneTwice'
    BY <2>1 DEF StoredInv, NoneTwice
  <2>4. NoneLost'
    BY <1>1, <1>2, <1>4, <2>1 DEF StoredInv, NoneLost
  <2> QED
    BY <2>2, <2>3, <2>4 DEF StoredInv
<1>5. CASE lines[b] > 0 /\ b \notin NotJson
  <2>1. /\ DOMAIN events' = 1..(n + 1)
        /\ \A i \in 1..n : events'[i] = events[i]
        /\ events'[n + 1] = e
    <3>1. events' = Append(events, e)
      BY <1>1, <1>5
    <3>2. events \in Seq(Parsed(Len(lines))) /\ e \in Parsed(Len(lines))
      BY DEF DataOK, e
    <3> QED
      BY <3>1, <3>2, AppendProperties, LenProperties DEF n
  <2>2. e.data[1] = b
    BY <1>1, <1>2, <1>5
  <2>3. IsBlock'
    <3>1. lines'[b] > 0 /\ e.data = [j \in 1..lines'[b] |-> b]
      <4>1. lines'[b] = lines[b]
        BY <1>1
      <4> QED
        BY <1>1, <1>5, <4>1
    <3> SUFFICES ASSUME NEW i \in 1..(n + 1)
                 PROVE  \E c \in ended' \ NotJson :
                           lines'[c] > 0 /\ events'[i].data = [j \in 1..lines'[c] |-> c]
      BY <2>1 DEF IsBlock
    <3>2. CASE i = n + 1
      BY <1>1, <1>5, <2>1, <3>1, <3>2
    <3>3. CASE i # n + 1
      <4>1. i \in 1..n
        BY <1>2, <3>3
      <4>2. PICK c \in ended \ NotJson :
               lines'[c] > 0 /\ events[i].data = [j \in 1..lines'[c] |-> c]
        BY <1>2, <1>3, <4>1
      <4>3. events'[i] = events[i] /\ c \in ended' \ NotJson
        BY <1>1, <2>1, <4>1
      <4>4. events'[i].data = [j \in 1..lines'[c] |-> c]
        BY <4>2, <4>3
      <4> QED
        BY <4>2, <4>3, <4>4
    <3> QED
      BY <3>2, <3>3
  <2>4. NoneTwice'
    <3>1. \A i \in 1..n : events'[i].data[1] = events[i].data[1] /\ events[i].data[1] # b
      BY <1>1, <1>2, <2>1, FirstLine
    <3>2. events'[n + 1].data[1] = b
      BY <2>1, <2>2
    <3>3. \A i, j \in 1..n : events[i].data[1] = events[j].data[1] => i = j
      BY <1>2 DEF StoredInv, NoneTwice
    <3>4. \A i \in 1..(n + 1) : i \in 1..n \/ i = n + 1
      BY <1>2
    <3>5. \A i, j \in 1..(n + 1) : events'[i].data[1] = events'[j].data[1] => i = j
      BY <3>1, <3>2, <3>3, <3>4
    <3> QED
      BY <2>1, <3>5 DEF NoneTwice
  <2>5. NoneLost'
    <3> SUFFICES ASSUME NEW c \in ended' \ NotJson, lines'[c] > 0
                 PROVE  \E i \in 1..(n + 1) : events'[i].data[1] = c
      BY <2>1 DEF NoneLost
    <3>1. CASE c = b
      <4>1. n + 1 \in 1..(n + 1)
        BY <1>2
      <4> QED
        BY <2>1, <2>2, <3>1, <4>1
    <3>2. CASE c # b
      <4>1. PICK i \in DOMAIN events : events[i].data[1] = c
        BY <1>1, <1>2, <3>2 DEF StoredInv, NoneLost
      <4>2. i \in 1..n /\ i \in 1..(n + 1)
        BY <1>2
      <4> QED
        BY <2>1, <4>1, <4>2
    <3> QED
      BY <3>1, <3>2
  <2> QED
    BY <2>3, <2>4, <2>5 DEF StoredInv
<1> QED
  BY <1>4, <1>5

LEMMA StoredStep ==
    ASSUME ControlOK, DataOK, StreamInv, StoredInv, [Next]_vars
    PROVE  StoredInv'
<1>1. ended \subseteq Blocks
  BY DEF DataOK
<1>2. ASSUME NEW t \in Tasks, Connect(t) PROVE StoredInv'
  <2>1. \A b \in Blocks : lines'[b] = lines[b]
    BY <1>2, NewBlock DEF Connect, DataOK
  <2> QED
    BY <1>1, <1>2, <2>1, StoredKept DEF Connect
<1>3. ASSUME NEW t \in Tasks, DataLine(t) PROVE StoredInv'
  <2>1. block[t] \in Blocks \ ended
    BY <1>3 DEF DataLine, Reads, Acts, StreamInv
  <2>2. \A b \in Blocks \ {block[t]} : lines'[b] = lines[b]
    BY <1>3, <2>1, NewLine DEF DataLine, DataOK
  <2> QED
    BY <1>1, <1>3, <2>1, <2>2, StoredKept DEF DataLine
<1>4. ASSUME NEW t \in Tasks, BlankLine(t) PROVE StoredInv'
  BY <1>4, BlankStored
<1>5. CASE UNCHANGED <<server, events>>
  BY <1>5, StoredKept DEF server
<1>6. ASSUME NEW t \in Tasks,
             \/ Start(t) \/ ConnectFails(t) \/ StreamFails(t) \/ StreamEnds(t)
             \/ Wake(t) \/ Request(t) \/ Cancelled(t) \/ EventLine(t)
      PROVE  UNCHANGED <<server, events>>
  BY <1>6 DEF Start, Request, ConnectFails, StreamFails, Failed, StreamEnds, Wake, Cancelled, EventLine
<1>7. StopBegin \/ StopClose \/ StopReturn \/ UNCHANGED vars => UNCHANGED <<server, events>>
  BY DEF StopBegin, StopClose, StopReturn, vars
<1> QED
  BY <1>2, <1>3, <1>4, <1>5, <1>6, <1>7 DEF Next, Connection, Stream, Stopping

LEMMA StoredMeans ==
    ASSUME StoredInv, DataOK
    PROVE  EventsAreBlocks
<1>1. \A i \in DOMAIN events : \E b \in ended : events[i].data = [j \in 1..lines[b] |-> b]
  BY DEF StoredInv, IsBlock
<1>2. ASSUME NEW b \in ended \ NotJson, lines[b] > 0
      PROVE  Cardinality({i \in DOMAIN events : events[i].data[1] = b}) = 1
  <2>1. PICK i \in DOMAIN events : events[i].data[1] = b
    BY <1>2 DEF StoredInv, NoneLost
  <2>2. {j \in DOMAIN events : events[j].data[1] = b} = {i}
    BY <2>1 DEF StoredInv, NoneTwice
  <2> QED
    BY <2>2, FS_Singleton
<1> QED
  BY <1>1, <1>2 DEF EventsAreBlocks

\* The events are the blocks that ended, each once and whole, whatever streams
\* break in the middle of a block, are opened again, end or are cancelled, of
\* however many clients at once.
THEOREM EventsAreWholeBlocks == Spec => []EventsAreBlocks
<1>1. Init => StoredInv
  BY DEF Init, StoredInv, IsBlock, NoneTwice, NoneLost
<1>2. StoredInv /\ ControlOK /\ DataOK /\ StreamInv /\ [Next]_vars => StoredInv'
  BY StoredStep
<1>3. StoredInv /\ DataOK => EventsAreBlocks
  BY StoredMeans
<1> QED
  BY <1>1, <1>2, <1>3, ReadingIsSound, PTL DEF Spec
=============================================================================
