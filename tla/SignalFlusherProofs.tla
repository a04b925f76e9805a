------------------------- MODULE SignalFlusherProofs -------------------------
(***************************************************************************)
(* Theorems about SignalFlusher, for every number of signals, failures and *)
(* exits: it implements SignalLog, and loses nothing silently.             *)
(***************************************************************************)
EXTENDS SignalFlusher, TLAPS, SequenceTheorems

-----------------------------------------------------------------------------
(* Facts about a line made of two parts. *)

\* Moving the head of the second part to the end of the first changes nothing.
LEMMA MoveHead ==
    ASSUME NEW S, NEW a \in Seq(S), NEW b \in Seq(S), b # <<>>
    PROVE  /\ Append(a, Head(b)) \in Seq(S)
           /\ Tail(b) \in Seq(S)
           /\ Append(a, Head(b)) \o Tail(b) = a \o b
  OBVIOUS

\* The first part leaves a line: it is its own front, the second is the rest.
LEMMA FrontAndRest ==
    ASSUME NEW S, NEW a \in Seq(S), NEW b \in Seq(S)
    PROVE  /\ a \o b \in Seq(S)
           /\ Len(a \o b) = Len(a) + Len(b)
           /\ SubSeq(a \o b, 1, Len(a)) = a
           /\ SubSeq(a \o b, Len(a) + 1, Len(a \o b)) = b
  OBVIOUS

\* Everything leaves a line.
LEMMA NothingLeft ==
    ASSUME NEW S, NEW a \in Seq(S)
    PROVE  SubSeq(a, Len(a) + 1, Len(a)) = <<>>
  OBVIOUS

\* Concatenation as an operator the provers do not look into.
Cat(a, b) == a \o b

\* Concatenation is associative.
LEMMA Associative ==
    ASSUME NEW S, NEW a \in Seq(S), NEW b \in Seq(S), NEW c \in Seq(S)
    PROVE  Cat(Cat(a, b), c) = Cat(a, Cat(b, c))
  BY SMTT(30) DEF Cat

\* The last two parts of a line may be cut elsewhere.
LEMMA CutElsewhere ==
    ASSUME NEW S, NEW a \in Seq(S), NEW b \in Seq(S), NEW c \in Seq(S),
           NEW d \in Seq(S), NEW e \in Seq(S), Cat(d, e) = Cat(b, c)
    PROVE  Cat(Cat(a, d), e) = Cat(Cat(a, b), c)
  BY Associative

\* An append to the last part of a line is one to the line.
LEMMA AppendToLast ==
    ASSUME NEW S, NEW a \in Seq(S), NEW b \in Seq(S), NEW x \in S
    PROVE  a \o Append(b, x) = Append(a \o b, x)
  OBVIOUS

-----------------------------------------------------------------------------
(* Type correctness. *)

\* Nothing is there at the start.
LEMMA InitTypeOK == Init => TypeOK
BY DEF Init, Start, TypeOK

\* A sequence of signals stays one when more have been sent.
LEMMA MoreSent ==
    ASSUME NEW n \in Nat, NEW m \in Nat, n <= m, NEW a \in Seq(1..n)
    PROVE  a \in Seq(1..m)
<1>1. \A i \in 1..Len(a) : a[i] \in 1..m
  OBVIOUS
<1> QED
  BY <1>1

\* A write stores the whole batch or nothing.
LEMMA InsertOutcome ==
    ASSUME NEW S, NEW batch \in Seq(S), signals \in Seq(S), failures \in Nat, Insert(batch)
    PROVE  /\ signals' \in Seq(S)
           /\ failures' \in Nat
           /\ \/ signals' = signals \o batch /\ failures' = failures
              \/ signals' = signals /\ failures' = failures + 1
<1>1. CASE Commit(batch)
  <2>1. signals' = signals \o batch /\ failures' = failures
    BY <1>1 DEF Commit
  <2>2. signals \o batch \in Seq(S)
    OBVIOUS
  <2> QED
    BY <2>1, <2>2
<1>2. CASE Rollback(batch)
  BY <1>2 DEF Rollback
<1> QED
  BY <1>1, <1>2 DEF Insert

\* Every step keeps every variable well typed.
LEMMA NextTypeOK == TypeOK /\ [Next]_vars => TypeOK'
<1> SUFFICES ASSUME TypeOK, [Next]_vars
             PROVE  TypeOK'
  OBVIOUS
<1> USE DEF TypeOK
<1>1. CASE Send
  <2>1. sent' \in Nat /\ sent <= sent' /\ sent' \in 1..sent'
    BY <1>1 DEF Send
  <2>2. /\ queue \in Seq(1..sent')
        /\ buffer \in Seq(1..sent')
        /\ signals \in Seq(1..sent')
    BY <2>1, MoreSent
  <2>3. Append(queue, sent') \in Seq(1..sent')
    BY <2>1, <2>2
  <2>4. flusher = "select"
    BY <1>1 DEF Send
  <2> QED
    BY <1>1, <2>1, <2>2, <2>3, <2>4 DEF Send, historyVars
<1>2. CASE PipelineReturns
  BY <1>2 DEF PipelineReturns, taskVars, historyVars
<1>3. CASE ReceiveSignal
  <2>1. Append(buffer, Head(queue)) \in Seq(1..sent) /\ Tail(queue) \in Seq(1..sent)
    BY <1>3, MoveHead DEF ReceiveSignal
  <2> QED
    BY <1>3, <2>1 DEF ReceiveSignal, InSelect, Buffered, historyVars
<1>4. CASE FlushTick
  <2>1. signals' \in Seq(1..sent) /\ failures' \in Nat
    BY <1>4, InsertOutcome DEF FlushTick
  <2> QED
    BY <1>4, <2>1 DEF FlushTick, InSelect, BufferDrained
<1>5. CASE FinalFlush
  <2>1. signals' \in Seq(1..sent) /\ failures' \in Nat
    BY <1>5, InsertOutcome DEF FinalFlush, FinalBatch
  <2> QED
    BY <1>5, <2>1 DEF FinalFlush
<1>6. CASE DropRuntime
  BY <1>6 DEF DropRuntime
<1>7. CASE ExitProcess
  BY <1>7 DEF ExitProcess
<1>8. CASE Restart
  BY <1>8 DEF Restart, historyVars
<1>9. CASE UNCHANGED vars
  BY <1>9 DEF vars, taskVars, historyVars
<1> QED
  BY <1>1, <1>2, <1>3, <1>4, <1>5, <1>6, <1>7, <1>8, <1>9 DEF Next

(* Every variable keeps its type, and the task outlives the pipeline with  *)
(* nothing left in it when it ends.                                        *)
THEOREM TypeCorrect == Spec => []TypeOK
BY InitTypeOK, NextTypeOK, PTL DEF Spec

-----------------------------------------------------------------------------
(* No silent loss. *)

\* Nothing has been sent at the start.
LEMMA InitNoLoss == Init => NoSilentLoss
<1> SUFFICES ASSUME Init PROVE signals \o buffer \o queue = [i \in 1..sent |-> i]
  BY DEF NoSilentLoss
<1>1. sent = 0 /\ signals = <<>> /\ buffer = <<>> /\ queue = <<>>
  BY DEF Init, Start
<1>2. [i \in 1..0 |-> i] = <<>>
  OBVIOUS
<1> QED
  BY <1>1, <1>2

\* A step that meets no failure, no cancellation and no exit moves a signal
\* along the line or adds the next one at its end.
LEMMA NextNoLoss == TypeOK /\ NoSilentLoss /\ [Next]_vars => NoSilentLoss'
<1> SUFFICES ASSUME TypeOK, NoSilentLoss, [Next]_vars,
                    failures' = 0, exits' = 0, ~cancelled'
             PROVE  (signals \o buffer \o queue = [i \in 1..sent |-> i])'
  BY DEF NoSilentLoss
<1> DEFINE S == 1..sent
<1>0. /\ sent \in Nat /\ failures \in Nat /\ exits \in Nat
      /\ queue \in Seq(S) /\ buffer \in Seq(S) /\ signals \in Seq(S)
  BY DEF TypeOK
<1>p. failures = 0 /\ exits = 0 /\ ~cancelled
  <2>1. CASE Send \/ PipelineReturns \/ ReceiveSignal \/ Restart \/ UNCHANGED vars
    BY <2>1 DEF Send, PipelineReturns, ReceiveSignal, Restart, vars, historyVars
  <2>2. CASE FlushTick
    BY <2>2, <1>0, InsertOutcome DEF FlushTick
  <2>3. CASE FinalFlush
    BY <2>3, <1>0, InsertOutcome DEF FinalFlush, FinalBatch
  <2>4. CASE DropRuntime
    BY <2>4 DEF DropRuntime
  <2>5. CASE ExitProcess
    BY <2>5, <1>0 DEF ExitProcess
  <2> QED
    BY <2>1, <2>2, <2>3, <2>4, <2>5 DEF Next
<1>h. signals \o buffer \o queue = [i \in 1..sent |-> i]
  BY <1>p DEF NoSilentLoss
<1>1. CASE Send
  <2> DEFINE T == 1..(sent + 1)
  <2>1. sent' = sent + 1 /\ queue' = Append(queue, sent + 1)
        /\ buffer' = buffer /\ signals' = signals
    BY <1>1 DEF Send
  <2>2. queue \in Seq(T) /\ buffer \in Seq(T) /\ signals \in Seq(T) /\ sent + 1 \in T
    BY <1>0, MoreSent
  <2>3. signals \o buffer \in Seq(T)
    BY <2>2
  <2> HIDE DEF T
  <2>4. (signals \o buffer) \o Append(queue, sent + 1)
            = Append(signals \o buffer \o queue, sent + 1)
    BY <2>2, <2>3, AppendToLast
  <2>5. Append([i \in 1..sent |-> i], sent + 1) = [i \in 1..(sent + 1) |-> i]
    BY <1>0
  <2> QED
    BY <2>1, <2>4, <2>5, <1>h
<1>2. CASE ReceiveSignal
  <2>1. /\ queue # <<>> /\ queue' = Tail(queue) /\ buffer' = Append(buffer, Head(queue))
        /\ signals' = signals /\ sent' = sent
    BY <1>2 DEF ReceiveSignal, Buffered
  <2>2. /\ Append(buffer, Head(queue)) \o Tail(queue) = buffer \o queue
        /\ Append(buffer, Head(queue)) \in Seq(S) /\ Tail(queue) \in Seq(S)
    BY <1>0, <2>1, MoveHead
  <2>3. signals \o buffer' \o queue' = signals \o buffer \o queue
    <3> HIDE DEF S
    <3>1. /\ signals \in Seq(S) /\ buffer \in Seq(S) /\ queue \in Seq(S)
          /\ buffer' \in Seq(S) /\ queue' \in Seq(S)
          /\ Cat(buffer', queue') = Cat(buffer, queue)
      BY <1>0, <2>1, <2>2 DEF Cat
    <3>2. Cat(Cat(signals, buffer'), queue') = Cat(Cat(signals, buffer), queue)
      BY <3>1, CutElsewhere
    <3> QED
      BY <3>2 DEF Cat
  <2> QED
    BY <2>1, <2>3, <1>h
<1>3. CASE FlushTick
  <2>1. signals' = signals \o buffer
    BY <1>3, <1>0, <1>p, InsertOutcome DEF FlushTick
  <2>2. buffer' = <<>> /\ queue' = queue /\ sent' = sent
    BY <1>3 DEF FlushTick, BufferDrained
  <2>3. (signals \o buffer) \o <<>> = signals \o buffer
    BY <1>0
  <2> QED
    BY <2>1, <2>2, <2>3, <1>h
<1>4. CASE FinalFlush
  <2>1. signals' = signals \o buffer
    <3>1. CASE buffer # <<>>
      BY <3>1, <1>4, <1>0, <1>p, InsertOutcome DEF FinalFlush, FinalBatch
    <3>2. CASE buffer = <<>>
      <4>1. signals' = signals
        BY <3>2, <1>4 DEF FinalFlush, FinalBatch
      <4> QED
        BY <4>1, <3>2, <1>0
    <3> QED
      BY <3>1, <3>2
  <2>2. buffer' = <<>> /\ queue' = queue /\ sent' = sent
    BY <1>4 DEF FinalFlush
  <2>3. (signals \o buffer) \o <<>> = signals \o buffer
    BY <1>0
  <2> QED
    BY <2>1, <2>2, <2>3, <1>h
<1>5. CASE PipelineReturns \/ Restart \/ UNCHANGED vars
  <2>1. sent' = sent /\ queue' = queue /\ buffer' = buffer /\ signals' = signals
    BY <1>5 DEF PipelineReturns, Restart, vars, taskVars
  <2> QED
    BY <2>1, <1>h
<1>6. CASE DropRuntime \/ ExitProcess
  <2>1. FALSE
    BY <1>6, <1>0 DEF DropRuntime, ExitProcess
  <2> QED
    BY <2>1
<1> QED
  BY <1>1, <1>2, <1>3, <1>4, <1>5, <1>6 DEF Next

(* Unless a write fails, the runtime drops the task or the process ends,   *)
(* table, buffer and channel hold every signal sent, once and in order.    *)
THEOREM NoLoss == Spec => []NoSilentLoss
BY InitTypeOK, NextTypeOK, InitNoLoss, NextNoLoss, PTL DEF Spec

-----------------------------------------------------------------------------
(* The flusher implements SignalLog. *)

\* The line is empty at the start.
LEMMA InitRefines == Init => Log!Init
BY DEF Init, Start, Log!Init

\* When nothing stays in the buffer and the channel, the line was given up.
LEMMA LineDropped ==
    ASSUME TypeOK, buffer' = <<>>, queue' = <<>>, sent' = sent, signals' = signals
    PROVE  Log!Next \/ UNCHANGED Log!vars
<1> DEFINE n == Len(buffer \o queue)
<1>0. buffer \o queue \in Seq(1..sent) /\ n \in Nat
  BY DEF TypeOK
<1>1. (buffer \o queue)' = <<>>
  OBVIOUS
<1>2. CASE n = 0
  <2>1. buffer \o queue = <<>>
    BY <1>0, <1>2
  <2> QED
    BY <1>1, <2>1 DEF Log!vars
<1>3. CASE n # 0
  <2>1. n \in 1..n
    BY <1>0, <1>3
  <2>2. SubSeq(buffer \o queue, n + 1, n) = <<>>
    BY <1>0
  <2>3. Log!GiveUp(n)
    BY <1>1, <2>2 DEF Log!GiveUp
  <2> QED
    BY <2>1, <2>3 DEF Log!Next
<1> QED
  BY <1>2, <1>3

\* When the buffer leaves the line, it was stored or given up.
LEMMA BufferLeft ==
    ASSUME TypeOK, buffer # <<>>, Insert(buffer),
           buffer' = <<>>, queue' = queue, sent' = sent
    PROVE  Log!Next
<1> DEFINE n == Len(buffer)
           line == buffer \o queue
<1>0. /\ buffer \in Seq(1..sent) /\ queue \in Seq(1..sent)
      /\ n \in Nat /\ n # 0
      /\ Len(line) = n + Len(queue) /\ Len(queue) \in Nat
  BY DEF TypeOK
<1>1. n \in 1..Len(line)
  BY <1>0
<1>2. SubSeq(line, 1, n) = buffer /\ SubSeq(line, n + 1, Len(line)) = queue
  <2> DEFINE S == 1..sent
  <2>1. buffer \in Seq(S) /\ queue \in Seq(S)
    BY <1>0
  <2> HIDE DEF S
  <2> QED
    BY <2>1, FrontAndRest
<1>3. (buffer \o queue)' = queue
  <2>1. <<>> \o queue = queue
    BY <1>0
  <2> QED
    BY <2>1
<1>4. CASE Commit(buffer)
  BY <1>1, <1>2, <1>3, <1>4 DEF Commit, Log!Next, Log!Store
<1>5. CASE Rollback(buffer)
  BY <1>1, <1>2, <1>3, <1>5 DEF Rollback, Log!Next, Log!GiveUp
<1> QED
  BY <1>4, <1>5 DEF Insert

\* Every step of the flusher is a step of the log, or none.
LEMMA NextRefines == TypeOK /\ [Next]_vars => [Log!Next]_(Log!vars)
<1> SUFFICES ASSUME TypeOK, [Next]_vars
             PROVE  Log!Next \/ UNCHANGED Log!vars
  OBVIOUS
<1> DEFINE S == 1..sent
<1>0. buffer \in Seq(S) /\ queue \in Seq(S) /\ sent \in Nat
  BY DEF TypeOK
<1>1. CASE Send
  <2> DEFINE T == 1..(sent + 1)
  <2>1. buffer \in Seq(T) /\ queue \in Seq(T) /\ sent + 1 \in T
    BY <1>0, MoreSent
  <2>2. sent' = sent + 1 /\ queue' = Append(queue, sent + 1)
        /\ buffer' = buffer /\ signals' = signals
    BY <1>1 DEF Send
  <2> HIDE DEF T
  <2>3. buffer \o Append(queue, sent + 1) = Append(buffer \o queue, sent + 1)
    BY <2>1, AppendToLast
  <2>4. Log!Emit
    BY <2>2, <2>3 DEF Log!Emit
  <2> QED
    BY <2>4 DEF Log!Next
<1>2. CASE ReceiveSignal
  <2>1. /\ queue # <<>> /\ queue' = Tail(queue) /\ buffer' = Append(buffer, Head(queue))
        /\ signals' = signals /\ sent' = sent
    BY <1>2 DEF ReceiveSignal, Buffered
  <2> HIDE DEF S
  <2>2. Append(buffer, Head(queue)) \o Tail(queue) = buffer \o queue
    BY <1>0, <2>1, MoveHead
  <2> QED
    BY <2>1, <2>2 DEF Log!vars
<1>3. CASE FlushTick
  <2>1. buffer # <<>> /\ Insert(buffer) /\ buffer' = <<>> /\ queue' = queue /\ sent' = sent
    BY <1>3 DEF FlushTick, BufferDrained
  <2> QED
    BY <2>1, BufferLeft
<1>4. CASE FinalFlush
  <2>1. queue = <<>> /\ buffer' = <<>> /\ queue' = queue /\ sent' = sent
    BY <1>4 DEF FinalFlush
  <2>2. CASE buffer # <<>>
    <3>1. Insert(buffer)
      BY <1>4, <2>2 DEF FinalFlush, FinalBatch
    <3> QED
      BY <2>1, <2>2, <3>1, BufferLeft
  <2>3. CASE buffer = <<>>
    <3>1. signals' = signals
      BY <1>4, <2>3 DEF FinalFlush, FinalBatch
    <3> QED
      BY <2>1, <2>3, <3>1 DEF Log!vars
  <2> QED
    BY <2>2, <2>3
<1>5. CASE DropRuntime \/ ExitProcess
  <2>1. buffer' = <<>> /\ queue' = <<>> /\ sent' = sent /\ signals' = signals
    BY <1>5 DEF DropRuntime, ExitProcess
  <2> QED
    BY <2>1, LineDropped
<1>6. CASE PipelineReturns \/ Restart \/ UNCHANGED vars
  BY <1>6 DEF PipelineReturns, Restart, vars, taskVars, Log!vars
<1> QED
  BY <1>1, <1>2, <1>3, <1>4, <1>5, <1>6 DEF Next

(* Through failed writes, cancellation and restarts, the table receives    *)
(* runs from the front of the line and nothing else: no signal is stored   *)
(* twice, out of order, or ahead of one that still waits.                  *)
THEOREM ImplementsLog == Spec => LogSpec
BY InitTypeOK, NextTypeOK, InitRefines, NextRefines, PTL
   DEF Spec, LogSpec, Log!Spec

-----------------------------------------------------------------------------
(* The table is in the order of emission. *)

Increasing(s) == \A i, j \in DOMAIN s : i < j => s[i] < s[j]

\* The strengthening: the whole line, table included, is increasing.
LineInOrder == Increasing(signals \o buffer \o queue)

\* A larger signal at the end keeps a line increasing.
LEMMA IncreasingAppend ==
    ASSUME NEW n \in Nat, NEW a \in Seq(1..n), Increasing(a)
    PROVE  Increasing(Append(a, n + 1))
BY DEF Increasing

\* A piece cut from the middle of a line leaves it increasing.
LEMMA IncreasingCut ==
    ASSUME NEW n \in Nat, NEW a \in Seq(1..n), NEW b \in Seq(1..n), NEW c \in Seq(1..n),
           Increasing(a \o b \o c)
    PROVE  /\ Increasing(a \o c)
           /\ Increasing(a)
<1> DEFINE l == a \o b \o c
<1>0. /\ Len(a) \in Nat /\ Len(b) \in Nat /\ Len(c) \in Nat
      /\ DOMAIN l = 1..(Len(a) + Len(b) + Len(c))
      /\ DOMAIN (a \o c) = 1..(Len(a) + Len(c))
      /\ DOMAIN a = 1..Len(a)
  OBVIOUS
<1>1. \A i \in 1..Len(a) : l[i] = a[i] /\ (a \o c)[i] = a[i]
  OBVIOUS
<1>2. \A i \in 1..Len(c) : /\ l[Len(a) + Len(b) + i] = c[i]
                            /\ (a \o c)[Len(a) + i] = c[i]
  OBVIOUS
<1>3. \A i, j \in DOMAIN l : i < j => l[i] < l[j]
  BY DEF Increasing
<1> HIDE DEF l
<1>4. ASSUME NEW i \in DOMAIN a, NEW j \in DOMAIN a, i < j
      PROVE  a[i] < a[j]
  <2>1. i \in DOMAIN l /\ j \in DOMAIN l
    BY <1>0, <1>4
  <2> QED
    BY <2>1, <1>0, <1>1, <1>3, <1>4
<1>5. ASSUME NEW i \in DOMAIN (a \o c), NEW j \in DOMAIN (a \o c), i < j
      PROVE  (a \o c)[i] < (a \o c)[j]
  <2>1. CASE j <= Len(a)
    <3>1. i \in DOMAIN a /\ j \in DOMAIN a
      BY <1>0, <1>5, <2>1
    <3> QED
      BY <3>1, <1>0, <1>1, <1>4, <1>5
  <2>2. CASE i <= Len(a) /\ j > Len(a)
    <3> DEFINE q == j - Len(a)
    <3>1. q \in 1..Len(c) /\ j = Len(a) + q /\ i \in 1..Len(a)
      BY <1>0, <1>5, <2>2
    <3> HIDE DEF q
    <3>2. i \in DOMAIN l /\ Len(a) + Len(b) + q \in DOMAIN l /\ i < Len(a) + Len(b) + q
      BY <1>0, <3>1
    <3>3. l[i] < l[Len(a) + Len(b) + q]
      BY <3>2, <1>3
    <3> QED
      BY <3>1, <3>3, <1>1, <1>2
  <2>3. CASE i > Len(a)
    <3>0. /\ i \in Nat /\ j \in Nat /\ j <= Len(a) + Len(c)
          /\ i > Len(a) /\ i < j
      BY <1>0, <1>5, <2>3
    <3> DEFINE o == i - Len(a)
               q == j - Len(a)
    <3>1. /\ o \in 1..Len(c) /\ i = Len(a) + o
          /\ q \in 1..Len(c) /\ j = Len(a) + q
          /\ o < q
      <4>1. Len(a) \in Nat /\ Len(c) \in Nat
        BY <1>0
      <4> QED
        BY ONLY <3>0, <4>1
    <3> HIDE DEF o, q
    <3>2. /\ Len(a) + Len(b) + o \in DOMAIN l
          /\ Len(a) + Len(b) + q \in DOMAIN l
          /\ Len(a) + Len(b) + o < Len(a) + Len(b) + q
      BY <1>0, <3>1
    <3>3. l[Len(a) + Len(b) + o] < l[Len(a) + Len(b) + q]
      BY <3>2, <1>3
    <3> QED
      BY <3>1, <3>3, <1>2
  <2> QED
    BY <2>1, <2>2, <2>3, <1>0
<1> QED
  BY <1>4, <1>5 DEF Increasing

\* The line is empty at the start.
LEMMA InitInOrder == Init => LineInOrder
<1> SUFFICES ASSUME Init PROVE LineInOrder
  OBVIOUS
<1>1. signals \o buffer \o queue = <<>>
  BY DEF Init, Start
<1> QED
  BY <1>1 DEF LineInOrder, Increasing

\* Every step appends the next number, moves inside the line, or cuts a piece.
LEMMA NextInOrder == TypeOK /\ LineInOrder /\ [Next]_vars => LineInOrder'
<1> SUFFICES ASSUME TypeOK, LineInOrder, [Next]_vars
             PROVE  LineInOrder'
  OBVIOUS
<1> DEFINE S == 1..sent
<1>0. /\ sent \in Nat
      /\ queue \in Seq(S) /\ buffer \in Seq(S) /\ signals \in Seq(S)
      /\ failures \in Nat
  BY DEF TypeOK
<1>l. Increasing(signals \o buffer \o queue)
  BY DEF LineInOrder
<1>e. \A a \in Seq(S) : a \o <<>> = a
  OBVIOUS
<1>1. CASE Send
  <2>1. sent' = sent + 1 /\ queue' = Append(queue, sent + 1)
        /\ buffer' = buffer /\ signals' = signals
    BY <1>1 DEF Send
  <2> DEFINE T == 1..(sent + 1)
  <2>2. queue \in Seq(T) /\ sent + 1 \in T /\ signals \in Seq(T) /\ buffer \in Seq(T)
    BY <1>0, MoreSent
  <2>3. signals \o buffer \in Seq(T) /\ signals \o buffer \o queue \in Seq(S)
    BY <1>0, <2>2
  <2>4. Increasing(Append(signals \o buffer \o queue, sent + 1))
    BY <1>0, <1>l, <2>3, IncreasingAppend
  <2> HIDE DEF T
  <2>5. (signals \o buffer) \o Append(queue, sent + 1)
            = Append(signals \o buffer \o queue, sent + 1)
    BY <2>2, <2>3, AppendToLast
  <2> QED
    BY <2>1, <2>4, <2>5 DEF LineInOrder, Increasing
<1>2. CASE ReceiveSignal
  <2>1. /\ queue # <<>> /\ queue' = Tail(queue) /\ buffer' = Append(buffer, Head(queue))
        /\ signals' = signals
    BY <1>2 DEF ReceiveSignal, Buffered
  <2> HIDE DEF S
  <2>2. /\ Append(buffer, Head(queue)) \o Tail(queue) = buffer \o queue
        /\ Append(buffer, Head(queue)) \in Seq(S) /\ Tail(queue) \in Seq(S)
    BY <1>0, <2>1, MoveHead
  <2>3. signals \o buffer' \o queue' = signals \o buffer \o queue
    <3>1. /\ signals \in Seq(S) /\ buffer \in Seq(S) /\ queue \in Seq(S)
          /\ buffer' \in Seq(S) /\ queue' \in Seq(S)
          /\ Cat(buffer', queue') = Cat(buffer, queue)
      BY <1>0, <2>1, <2>2 DEF Cat
    <3>2. Cat(Cat(signals, buffer'), queue') = Cat(Cat(signals, buffer), queue)
      BY <3>1, CutElsewhere
    <3> QED
      BY <3>2 DEF Cat
  <2> QED
    <3>1. (signals \o buffer \o queue)' = signals \o buffer \o queue
      BY <2>1, <2>3
    <3> QED
      BY <3>1, <1>l DEF LineInOrder, Increasing
<1>3. CASE FlushTick \/ FinalFlush
  <2>1. /\ buffer' = <<>> /\ queue' = queue
        /\ \/ signals' = signals \o buffer
           \/ signals' = signals
    <3>1. CASE FlushTick
      BY <3>1, <1>0, InsertOutcome DEF FlushTick, BufferDrained
    <3>2. CASE FinalFlush
      BY <3>2, <1>0, InsertOutcome DEF FinalFlush, FinalBatch
    <3> QED
      BY <1>3, <3>1, <3>2
  <2>2. CASE signals' = signals \o buffer
    <3>1. signals \o buffer \in Seq(S)
      BY <1>0
    <3>2. (signals \o buffer) \o <<>> = signals \o buffer
      BY <3>1, <1>e
    <3> QED
      BY <2>1, <2>2, <3>2, <1>l DEF LineInOrder, Increasing
  <2>3. CASE signals' = signals
    <3>1. Increasing(signals \o queue)
      BY <1>0, <1>l, IncreasingCut
    <3>2. signals \o <<>> = signals
      BY <1>0, <1>e
    <3> QED
      BY <2>1, <2>3, <3>1, <3>2 DEF LineInOrder, Increasing
  <2> QED
    BY <2>1, <2>2, <2>3
<1>4. CASE DropRuntime \/ ExitProcess
  <2>1. buffer' = <<>> /\ queue' = <<>> /\ signals' = signals
    BY <1>4 DEF DropRuntime, ExitProcess
  <2>2. Increasing(signals)
    BY <1>0, <1>l, IncreasingCut
  <2>3. signals \o <<>> \o <<>> = signals
    BY <1>0, <1>e
  <2> QED
    BY <2>1, <2>2, <2>3 DEF LineInOrder, Increasing
<1>5. CASE PipelineReturns \/ Restart \/ UNCHANGED vars
  <2>1. queue' = queue /\ buffer' = buffer /\ signals' = signals
    BY <1>5 DEF PipelineReturns, Restart, vars, taskVars
  <2> QED
    BY <2>1, <1>l DEF LineInOrder, Increasing
<1> QED
  BY <1>1, <1>2, <1>3, <1>4, <1>5 DEF Next

\* The table is the front of the line.
LEMMA LineGivesTable == TypeOK /\ LineInOrder => StoredInOrder
<1> SUFFICES ASSUME TypeOK, LineInOrder PROVE Increasing(signals)
  BY DEF StoredInOrder, Increasing
<1>1. sent \in Nat /\ queue \in Seq(1..sent) /\ buffer \in Seq(1..sent) /\ signals \in Seq(1..sent)
  BY DEF TypeOK
<1> QED
  BY <1>1, IncreasingCut DEF LineInOrder

(* The table never holds a signal twice or out of order. *)
THEOREM TableInOrder == Spec => []StoredInOrder
BY InitTypeOK, NextTypeOK, InitInOrder, NextInOrder, LineGivesTable, PTL DEF Spec
=============================================================================
