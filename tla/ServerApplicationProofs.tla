----------------------- MODULE ServerApplicationProofs -----------------------
(***************************************************************************)
(* Theorems about the HTTP application, its bridges and its streams.       *)
(***************************************************************************)
EXTENDS ServerApplication, FiniteSetTheorems, TLAPS

-----------------------------------------------------------------------------
(* The bridge.                                                             *)

\* The lines of b, those in the queue and those that wait, are the events
\* after the g-th up to the n-th.
InOrder(b, g, n) ==
    /\ g + Len(b.queue) + Len(b.waiting) = n
    /\ \A i \in 1..Len(b.queue) : b.queue[i].event = g + i
    /\ \A i \in 1..Len(b.waiting) :
          b.waiting[i].line.event = g + Len(b.queue) + i

\* d is b after an operation that neither ends the stream nor loses a line;
\* at most it finishes a stream that was closing.
Moves(b, d) ==
    /\ d \in Bridges /\ d.left = b.left /\ d.bound = b.bound
    /\ \/ d.state = b.state /\ (b.waiting = << >> => d.waiting = << >>)
       \/ b.state = "closing" /\ d.state = "closed" /\ d.waiting = << >>
    /\ \A g, n \in Nat : InOrder(b, g, n) => InOrder(d, g, n)

LEMMA MovesTwice ==
  ASSUME NEW a, NEW b, NEW d, Moves(a, b), Moves(b, d)
  PROVE  Moves(a, d)
  BY DEF Moves

LEMMA FinishMoves ==
  ASSUME NEW b \in Bridges
  PROVE  Moves(b, FinishIfReady(b))
<1>1. CASE b.state = "closing" /\ b.waiting = << >>
  <2> DEFINE d == [b EXCEPT !.state = "closed"]
  <2>1. d \in Bridges
    BY DEF Bridges, BridgeStates
  <2>2. /\ d.left = b.left /\ d.bound = b.bound /\ d.queue = b.queue
        /\ d.waiting = b.waiting /\ d.state = "closed"
    BY DEF Bridges
  <2>3. \A g, n \in Nat : InOrder(b, g, n) => InOrder(d, g, n)
    BY <2>2 DEF InOrder
  <2> QED
    BY <1>1, <2>1, <2>2, <2>3 DEF Moves, FinishIfReady
<1>2. CASE ~(b.state = "closing" /\ b.waiting = << >>)
  BY <1>2 DEF Moves, FinishIfReady
<1> QED
  BY <1>1, <1>2

\* The flags of the stream's pulls change nothing else.
LEMMA FlagsMove ==
  ASSUME NEW b \in Bridges, NEW d \in Bridges,
         d.state = b.state, d.queue = b.queue, d.waiting = b.waiting,
         d.left = b.left, d.bound = b.bound
  PROVE  Moves(b, d)
  BY DEF Moves, InOrder

LEMMA AdmissibleCount ==
  ASSUME NEW b \in Bridges
  PROVE  Admissible(b) \in 0..Len(b.waiting)
<1>1. Len(b.waiting) \in Nat
  BY DEF Bridges
<1>2. /\ IsFiniteSet(1..Len(b.waiting))
      /\ Cardinality(1..Len(b.waiting)) = Len(b.waiting)
  BY <1>1, FS_Interval
<1> DEFINE Fits(k) ==
        Used(b.queue) + Used([i \in 1..k |-> b.waiting[i].line]) <= MaxQueue
           F == {k \in 1..Len(b.waiting) : Fits(k)}
<1>3. F \subseteq 1..Len(b.waiting)
  OBVIOUS
<1>4. IsFiniteSet(F) /\ Cardinality(F) <= Len(b.waiting)
  BY <1>2, <1>3, FS_Subset
<1>5. Cardinality(F) \in Nat
  BY <1>4, FS_CardinalityType
<1>6. Admissible(b) = Cardinality(F)
  BY DEF Admissible
<1> QED
  BY <1>1, <1>4, <1>5, <1>6

LEMMA AdmitMoves ==
  ASSUME NEW b \in Bridges
  PROVE  Moves(b, AdmitWaiting(b))
<1> DEFINE W == [line : WireLines, producer : Producers]
<1>1. PICK n : n = Admissible(b)
  OBVIOUS
<1>2. n \in 0..Len(b.waiting) /\ n \in Nat /\ Len(b.waiting) \in Nat
  <2>1. Len(b.waiting) \in Nat
    BY DEF Bridges
  <2> QED
    BY <1>1, <2>1, AdmissibleCount
<1>20. PICK q \in Nat, w \in Nat : q = Len(b.queue) /\ w = Len(b.waiting)
  BY <1>2 DEF Bridges
<1>3. PICK lines : lines = [i \in 1..n |-> b.waiting[i].line]
  OBVIOUS
<1>4. lines \in Seq(WireLines) /\ Len(lines) = n
  <2>1. ASSUME NEW i \in 1..n PROVE b.waiting[i].line \in WireLines
    <3>1. b.waiting \in Seq(W)
      BY DEF Bridges
    <3>2. i \in 1..Len(b.waiting)
      BY <1>2
    <3> HIDE DEF W
    <3>3. b.waiting[i] \in W
      BY <3>1, <3>2
    <3> QED
      BY <3>3 DEF W
  <2> QED
    BY <1>2, <1>3, <2>1
<1>5. PICK rest : rest = SubSeq(b.waiting, n + 1, Len(b.waiting))
  OBVIOUS
<1>6. /\ rest \in Seq(W) /\ Len(rest) = Len(b.waiting) - n
      /\ \A i \in 1..Len(rest) : rest[i] = b.waiting[n + i]
  <2>1. b.waiting \in Seq(W)
    BY DEF Bridges
  <2> HIDE DEF W
  <2> QED
    BY <1>2, <1>5, <2>1
<1>7. PICK queue : queue = b.queue \o lines
  OBVIOUS
<1>8. /\ queue \in Seq(WireLines) /\ Len(queue) = Len(b.queue) + n
      /\ \A i \in 1..Len(b.queue) : queue[i] = b.queue[i]
      /\ \A i \in 1..n : queue[Len(b.queue) + i] = b.waiting[i].line
  BY <1>2, <1>3, <1>4, <1>7 DEF Bridges
<1>9. PICK again \in BOOLEAN :
         again = (b.again \/ (n > 0 /\ Used(b.queue) + lines[1].size < MaxQueue))
  BY ZenonT(20) DEF Bridges
<1> DEFINE d == [b EXCEPT !.queue = queue, !.waiting = rest, !.again = again]
<1>10. AdmitWaiting(b) = FinishIfReady(d)
  BY <1>1, <1>3, <1>5, <1>7, <1>9 DEF AdmitWaiting
<1>11. PICK e : e = [b EXCEPT !.queue = queue]
  OBVIOUS
<1>12. PICK f : f = [e EXCEPT !.waiting = rest]
  OBVIOUS
<1>13. d = [f EXCEPT !.again = again]
  BY <1>11, <1>12
<1> HIDE DEF d
<1>14. /\ e \in Bridges /\ e.left = b.left /\ e.bound = b.bound
       /\ e.state = b.state /\ e.queue = queue
  BY <1>8, <1>11 DEF Bridges
<1>15. /\ f \in Bridges /\ f.left = b.left /\ f.bound = b.bound
       /\ f.state = b.state /\ f.queue = queue /\ f.waiting = rest
  BY <1>6, <1>12, <1>14 DEF Bridges
<1>16. /\ d \in Bridges /\ d.left = b.left /\ d.bound = b.bound
       /\ d.state = b.state /\ d.queue = queue /\ d.waiting = rest
  BY <1>9, <1>13, <1>15 DEF Bridges
<1>17. ASSUME NEW g \in Nat, NEW m \in Nat, InOrder(b, g, m)
       PROVE  InOrder(d, g, m)
  <2>1. Len(b.queue) \in Nat
    BY DEF Bridges
  <2>2. g + Len(d.queue) + Len(d.waiting) = m
    <3>1. g + Len(b.queue) + Len(b.waiting) = m
      BY <1>17 DEF InOrder
    <3>2. Len(d.queue) = Len(b.queue) + n
      BY <1>8, <1>16
    <3>3. Len(d.waiting) = Len(b.waiting) - n
      BY <1>6, <1>16
    <3>4. n \in Nat
      BY <1>2
    <3>5. g + q + w = m => g + (q + n) + (w - n) = m
      BY <3>4
    <3> QED
      BY <1>20, <3>1, <3>2, <3>3, <3>5
  <2>3. ASSUME NEW i \in 1..Len(queue) PROVE queue[i].event = g + i
    <3>1. CASE i <= Len(b.queue)
      BY <1>8, <1>17, <2>1, <3>1 DEF InOrder
    <3>2. CASE i > Len(b.queue)
      <4>1. PICK j : j = i - Len(b.queue)
        OBVIOUS
      <4>2. j \in 1..n /\ j \in 1..Len(b.waiting) /\ i = Len(b.queue) + j
        BY <1>2, <1>8, <2>1, <3>2, <4>1
      <4>3. queue[i] = b.waiting[j].line
        BY <1>8, <4>2
      <4>4. b.waiting[j].line.event = g + Len(b.queue) + j
        BY <1>17, <4>2 DEF InOrder
      <4> QED
        BY <2>1, <4>2, <4>3, <4>4
    <3> QED
      BY <1>2, <1>8, <2>1, <3>1, <3>2
  <2>4. \A i \in 1..Len(rest) : rest[i].line.event = g + Len(queue) + i
    <3> SUFFICES ASSUME NEW i \in 1..Len(rest)
                 PROVE  rest[i].line.event = g + Len(queue) + i
      OBVIOUS
    <3>1. n + i \in 1..Len(b.waiting) /\ rest[i] = b.waiting[n + i]
      BY <1>2, <1>6
    <3>2. b.waiting[n + i].line.event = g + Len(b.queue) + (n + i)
      BY <1>17, <3>1 DEF InOrder
    <3>3. Len(queue) = Len(b.queue) + n /\ i \in Int
      BY <1>2, <1>6, <1>8
    <3>4. rest[i].line.event = g + Len(b.queue) + (n + i)
      BY <3>1, <3>2
    <3>5. n \in Nat /\ i \in Int
      BY <1>2, <3>3
    <3>6. g + q + (n + i) = g + (q + n) + i
      BY <3>5
    <3> QED
      BY <1>20, <3>3, <3>4, <3>6
  <2> QED
    BY <1>16, <2>2, <2>3, <2>4 DEF InOrder
<1>18. b.waiting = << >> => rest = << >>
  BY <1>2, <1>6
<1>19. Moves(b, d)
  BY <1>16, <1>17, <1>18 DEF Moves
<1> QED
  BY <1>10, <1>16, <1>19, FinishMoves, MovesTwice

LEMMA PullMoves ==
  ASSUME NEW b \in Bridges
  PROVE  Moves(b, Pull(b))
<1>0. Moves(b, b)
  BY DEF Moves
<1>1. Moves(b, [b EXCEPT !.again = TRUE])
  <2>1. [b EXCEPT !.again = TRUE] \in Bridges
    BY DEF Bridges
  <2> QED
    BY <2>1, FlagsMove DEF Bridges
<1>2. Moves(b, AdmitWaiting([b EXCEPT !.pulling = TRUE]))
  <2>1. [b EXCEPT !.pulling = TRUE] \in Bridges
    BY DEF Bridges
  <2>2. Moves(b, [b EXCEPT !.pulling = TRUE])
    BY <2>1, FlagsMove DEF Bridges
  <2> QED
    BY <2>1, <2>2, AdmitMoves, MovesTwice
<1> QED
  BY <1>0, <1>1, <1>2, Zenon DEF Pull

LEMMA StartMoves ==
  ASSUME NEW b \in Bridges
  PROVE  Moves(b, StreamStarts(b))
<1>1. [b EXCEPT !.started = TRUE] \in Bridges
  BY DEF Bridges
<1>2. Moves(b, [b EXCEPT !.started = TRUE])
  BY <1>1, FlagsMove DEF Bridges
<1> QED
  BY <1>1, <1>2, PullMoves, MovesTwice DEF StreamStarts

LEMMA PulledMoves ==
  ASSUME NEW b \in Bridges
  PROVE  Moves(b, Pulled(b))
<1> DEFINE d == [b EXCEPT !.pulling = FALSE, !.again = FALSE]
<1>1. d = [[b EXCEPT !.pulling = FALSE] EXCEPT !.again = FALSE]
  BY DEF Bridges
<1>2. d \in Bridges
  <2>1. [b EXCEPT !.pulling = FALSE] \in Bridges
    BY DEF Bridges
  <2> QED
    BY <1>1, <2>1 DEF Bridges
<1>3. Moves(b, d)
  BY <1>2, FlagsMove DEF Bridges
<1> QED
  BY <1>2, <1>3, PullMoves, MovesTwice, Zenon DEF Pulled

\* A line is published.
LEMMA PublishOrder ==
  ASSUME NEW b \in Bridges, NEW p \in Producers, NEW line \in WireLines
  PROVE  LET d == Publish(b, p, line)
         IN  /\ d \in Bridges /\ d.left = b.left /\ d.bound = b.bound
             /\ \/ d.state = b.state
                \/ b.state = "closing" /\ d.state = "closed"
             /\ \A g, n \in Nat : InOrder(b, g, n) /\ line.event = n + 1 =>
                                      InOrder(d, g, n + 1)
<1> DEFINE e == [b EXCEPT !.queue = Append(@, line)]
           w == [line |-> line, producer |-> p]
           f == [b EXCEPT !.waiting = Append(@, w)]
<1>1. Len(b.queue) \in Nat /\ Len(b.waiting) \in Nat
  BY DEF Bridges
<1>2. e \in Bridges /\ f \in Bridges
  <2>1. Append(b.queue, line) \in Seq(WireLines)
    BY DEF Bridges
  <2>2. Append(b.waiting, w) \in Seq([line : WireLines, producer : Producers])
    BY DEF Bridges
  <2> QED
    BY <2>1, <2>2 DEF Bridges
<1>3. /\ e.left = b.left /\ e.bound = b.bound /\ e.state = b.state
      /\ e.waiting = b.waiting /\ e.queue = Append(b.queue, line)
  BY DEF Bridges
<1>4. /\ f.left = b.left /\ f.bound = b.bound /\ f.state = b.state
      /\ f.queue = b.queue /\ f.waiting = Append(b.waiting, w)
  BY DEF Bridges
<1> HIDE DEF e, f
<1>5. ASSUME NEW g \in Nat, NEW n \in Nat, InOrder(b, g, n),
             line.event = n + 1, b.waiting = << >>
      PROVE  InOrder(e, g, n + 1)
  <2>1. Len(e.queue) = Len(b.queue) + 1
    BY <1>3 DEF Bridges
  <2>2. g + Len(e.queue) + Len(e.waiting) = n + 1
    BY <1>1, <1>3, <1>5, <2>1 DEF InOrder
  <2>3. ASSUME NEW i \in 1..Len(e.queue) PROVE e.queue[i].event = g + i
    <3>1. CASE i <= Len(b.queue)
      BY <1>1, <1>3, <1>5, <3>1 DEF InOrder, Bridges
    <3>2. CASE i = Len(b.queue) + 1
      <4>1. e.queue[i] = line
        BY <1>3, <3>2 DEF Bridges
      <4>2. Len(b.waiting) = 0
        BY <1>5
      <4> QED
        BY <1>1, <1>5, <3>2, <4>1, <4>2 DEF InOrder
    <3> QED
      BY <1>1, <2>1, <3>1, <3>2
  <2> QED
    BY <1>3, <1>5, <2>2, <2>3 DEF InOrder
<1>6. ASSUME NEW g \in Nat, NEW n \in Nat, InOrder(b, g, n),
             line.event = n + 1
      PROVE  InOrder(f, g, n + 1)
  <2>1. Len(f.waiting) = Len(b.waiting) + 1
    BY <1>4 DEF Bridges
  <2>2. g + Len(f.queue) + Len(f.waiting) = n + 1
    BY <1>1, <1>4, <1>6, <2>1 DEF InOrder
  <2>3. ASSUME NEW i \in 1..Len(f.waiting)
        PROVE  f.waiting[i].line.event = g + Len(f.queue) + i
    <3>1. CASE i <= Len(b.waiting)
      BY <1>1, <1>4, <1>6, <3>1 DEF InOrder, Bridges
    <3>2. CASE i = Len(b.waiting) + 1
      <4>1. f.waiting[i] = w
        BY <1>4, <3>2 DEF Bridges
      <4>2. w.line.event = n + 1
        BY <1>6
      <4>3. g + Len(b.queue) + Len(b.waiting) = n
        BY <1>6 DEF InOrder
      <4>4. PICK q \in Nat, u \in Nat : q = Len(b.queue) /\ u = Len(b.waiting)
        BY <1>1
      <4>5. g + q + u = n => n + 1 = g + q + (u + 1)
        OBVIOUS
      <4> QED
        BY <1>4, <3>2, <4>1, <4>2, <4>3, <4>4, <4>5
    <3> QED
      BY <1>1, <2>1, <3>1, <3>2
  <2> QED
    BY <1>4, <1>6, <2>2, <2>3 DEF InOrder
<1>7. CASE b.waiting = << >> /\ Room(b) >= line.size
  <2>1. Publish(b, p, line) = Pull(e)
    BY <1>7, Zenon DEF Publish, e
  <2>2. Moves(e, Pull(e))
    BY <1>2, PullMoves
  <2> QED
    BY <1>3, <1>5, <1>7, <2>1, <2>2 DEF Moves
<1>8. CASE ~(b.waiting = << >> /\ Room(b) >= line.size)
  <2>1. Publish(b, p, line) = f
    BY <1>8, Zenon DEF Publish, f
  <2> QED
    BY <1>2, <1>4, <1>6, <2>1
<1> QED
  BY <1>7, <1>8

\* The consumer takes a line.
LEMMA TakeOrder ==
  ASSUME NEW b \in Bridges, b.queue # << >>
  PROVE  LET d == Take(b)
         IN  /\ d \in Bridges /\ d.left = b.left /\ d.bound = b.bound
             /\ \/ d.state = b.state /\ (b.waiting = << >> => d.waiting = << >>)
                \/ b.state = "closing" /\ d.state = "closed" /\ d.waiting = << >>
             /\ \A g, n \in Nat : InOrder(b, g, n) =>
                   Head(b.queue).event = g + 1 /\ InOrder(d, g + 1, n)
<1> DEFINE e == [b EXCEPT !.queue = Tail(@)]
<1>1. Len(b.queue) \in Nat \ {0} /\ Len(b.waiting) \in Nat
  BY DEF Bridges
<1>2. /\ Tail(b.queue) \in Seq(WireLines) /\ Len(Tail(b.queue)) = Len(b.queue) - 1
      /\ \A i \in 1..Len(Tail(b.queue)) : Tail(b.queue)[i] = b.queue[i + 1]
      /\ Head(b.queue) = b.queue[1]
  BY DEF Bridges
<1>3. e \in Bridges
  BY <1>2 DEF Bridges
<1>4. /\ e.left = b.left /\ e.bound = b.bound /\ e.state = b.state
      /\ e.waiting = b.waiting /\ e.queue = Tail(b.queue)
  BY DEF Bridges
<1> HIDE DEF e
<1>5. ASSUME NEW g \in Nat, NEW n \in Nat, InOrder(b, g, n)
      PROVE  Head(b.queue).event = g + 1 /\ InOrder(e, g + 1, n)
  <2>1. /\ g + Len(b.queue) + Len(b.waiting) = n
        /\ \A i \in 1..Len(b.queue) : b.queue[i].event = g + i
        /\ \A i \in 1..Len(b.waiting) :
              b.waiting[i].line.event = g + Len(b.queue) + i
    BY <1>5 DEF InOrder
  <2>2. Head(b.queue).event = g + 1
    BY <1>1, <1>2, <2>1
  <2>3. ASSUME NEW i \in 1..Len(e.queue) PROVE e.queue[i].event = g + 1 + i
    <3>1. i + 1 \in 1..Len(b.queue) /\ e.queue[i] = b.queue[i + 1]
      BY <1>1, <1>2, <1>4
    <3>2. b.queue[i + 1].event = g + (i + 1)
      BY <2>1, <3>1
    <3> QED
      BY <3>1, <3>2
  <2>4. ASSUME NEW i \in 1..Len(e.waiting)
        PROVE  e.waiting[i].line.event = g + 1 + Len(e.queue) + i
    <3>1. b.waiting[i].line.event = g + Len(b.queue) + i
      BY <1>4, <2>1
    <3>2. Len(e.queue) = Len(b.queue) - 1 /\ i \in Int
      BY <1>2, <1>4
    <3>3. PICK q \in Nat : q = Len(b.queue)
      BY <1>1
    <3>4. i \in Int
      OBVIOUS
    <3>5. g + q + i = g + 1 + (q - 1) + i
      BY <3>4
    <3> QED
      BY <1>4, <3>1, <3>2, <3>3, <3>5
  <2>5. g + 1 + Len(e.queue) + Len(e.waiting) = n
    <3>1. PICK q \in Nat, w \in Nat : q = Len(b.queue) /\ w = Len(b.waiting)
      BY <1>1
    <3>2. g + q + w = n => g + 1 + (q - 1) + w = n
      OBVIOUS
    <3> QED
      BY <1>2, <1>4, <2>1, <3>1, <3>2
  <2> QED
    BY <2>2, <2>3, <2>4, <2>5 DEF InOrder
<1>6. Take(b) = Pull(e)
  BY Zenon DEF Take, e
<1>7. Moves(e, Pull(e))
  BY <1>3, PullMoves
<1> QED
  BY <1>4, <1>5, <1>6, <1>7 DEF Moves

-----------------------------------------------------------------------------
(* The inductive invariant.                                                *)

Reserving ==
    {"metadata", "lock", "recover", "begin", "started", "register", "store"}

\* Who is where, with what in hand.
RequestOK(q) ==
    /\ q.holds <=> (q.step \in Reserving \/ (q.step = "page" /\ q.run = NoRun))
    /\ q.step \in {"metadata", "begin", "started", "register", "bind"} =>
          q.kind = "run"
    /\ q.step \in {"lock", "recover"} => q.kind \in {"run", "read"}
    /\ q.step = "store" => q.kind = "delete"
    /\ q.step = "page" => q.kind = "read"
    /\ q.step = "publish" => q.kind = "decide" /\ q.run \in Runs
    /\ q.kind = "run" => q.run \in Runs
    /\ q.kind \in {"read", "delete"} /\ q.holds => q.run = NoRun

\* The entry of sessionOperations is that of the one request that holds it.
Reservation ==
    /\ \A c \in Callers : RequestOK(req[c])
    /\ \A c \in Callers : req[c].holds =>
          operation = OperationOf(req[c].kind) /\ bySession = NoRun
    /\ \A c, d \in Callers : req[c].holds /\ req[d].holds => c = d
    /\ operation # "none" => \E c \in Callers : req[c].holds

Working == {"live", "ending", "over"}

\* How far the run of a request is.
Progress ==
    \A c \in Callers : req[c].kind = "run" =>
       /\ req[c].step \in {"metadata", "lock", "recover", "begin"} =>
             run[req[c].run].state = "asked"
       /\ req[c].step = "started" => run[req[c].run].state = "starting"
       /\ req[c].step \in {"register", "bind"} =>
             run[req[c].run].state \in Working

\* A run at work is in the tables or still with the request that starts it.
Tables ==
    /\ \A r \in Owned :
          \/ bySession = r /\ r \in byRun
          \/ \E c \in Callers :
                req[c].run = r /\ req[c].step \in {"started", "register"}
    /\ \A r \in byRun : bySession = r /\ run[r].state \in Working
    /\ bySession # NoRun => bySession \in byRun

\* What a request may count on that shares the session with no run.
Alone ==
    /\ deleted => /\ Owned = {}
                  /\ \A c \in Callers :
                        req[c].step \notin {"begin", "started", "register"}
    /\ \A c \in Callers : req[c].holds /\ req[c].kind # "run" => Owned = {}
    /\ \A c \in Callers :
          req[c].step = "page" /\ req[c].run = NoRun => OpenRuns = {}

AskedOK ==
    /\ asked \subseteq byRun
    /\ \A r \in asked : run[r].abort \/ run[r].state \in {"ending", "over"}

\* A run x, its bridge b, and the g lines its consumer has received.
StreamOK(x, b, g) ==
    /\ b.state \in {"closing", "closed", "failed"} => x.state = "over"
    /\ b.state = "cancelled" => b.left
    /\ b.left => b.bound /\ b.state \in {"closed", "cancelled"}
    /\ b.bound => x.state \in Working
    /\ b.left /\ x.state \in {"starting", "live"} => x.abort
    /\ x.state \in {"absent", "asked"} => x.sent = 0
    /\ ~b.left /\ b.state # "failed" => InOrder(b, g, x.sent)
    /\ b.left \/ b.state = "failed" => b.queue = << >> /\ b.waiting = << >>
    /\ b.state = "closed" => b.waiting = << >>

ServerInv ==
    /\ ServerType /\ Reservation /\ Progress /\ Tables /\ Alone /\ AskedOK
    /\ \A r \in Runs : StreamOK(run[r], bridge[r], Len(got[r]))

LEMMA NoRunOutside == NoRun \notin Runs
  BY DEF NoRun, Runs

LEMMA NewBridgeTyped == NewBridge \in Bridges
<1>1. PICK q \in Seq(WireLines),
          w \in Seq([line : WireLines, producer : Producers]) :
             q = << >> /\ w = << >>
  <2>1. << >> \in Seq(WireLines)
        /\ << >> \in Seq([line : WireLines, producer : Producers])
    OBVIOUS
  <2> QED
    BY <2>1
<1>2. NewBridge = [state |-> "open", queue |-> q, waiting |-> w,
                   started |-> FALSE, pulling |-> FALSE, again |-> FALSE,
                   bound |-> FALSE, left |-> FALSE, failed |-> {}]
  BY <1>1 DEF NewBridge
<1>3. {} \in SUBSET Producers
  OBVIOUS
<1> QED
  BY <1>2, <1>3 DEF Bridges, BridgeStates

LEMMA ServerStarts == Init => ServerInv
<1> SUFFICES ASSUME Init PROVE ServerInv
  OBVIOUS
<1> USE DEF Init
<1>1. NoRecord \in RunRecords /\ NoRequest \in Requests
  BY DEF NoRecord, RunRecords, NoRequest, Requests, Kinds, Steps
<1>2. NewBridge \in Bridges
  BY NewBridgeTyped
<1>3. ServerType
  <2>1. << >> \in Seq(Nat)
    OBVIOUS
  <2>2. got \in [Runs -> Seq(Nat)] /\ bridge \in [Runs -> Bridges]
    BY <1>2, <2>1
  <2>3. req \in [Callers -> Requests] /\ run \in [Runs -> RunRecords]
    BY <1>1
  <2>4. log \in [Runs \cup {NoRun} -> {"absent", "open", "ended"}]
    OBVIOUS
  <2>5. /\ operation \in Operations \cup {"none"} /\ deleted \in BOOLEAN
        /\ bySession \in Runs \cup {NoRun} /\ byRun \subseteq Runs
        /\ asked \subseteq Runs
    OBVIOUS
  <2> QED
    BY <2>2, <2>3, <2>4, <2>5 DEF ServerType
<1>4. RequestOK(NoRequest)
  BY DEF RequestOK, NoRequest, Reserving
<1>5. Reservation /\ Progress
  BY <1>4 DEF Reservation, Progress, NoRequest
<1>6. Owned = {}
  BY DEF Owned, NoRecord
<1>7. Tables /\ Alone /\ AskedOK
  BY <1>6 DEF Tables, Alone, AskedOK, NoRequest
<1>8. StreamOK(NoRecord, NewBridge, Len(<< >>))
  BY DEF StreamOK, NoRecord, NewBridge, InOrder
<1> QED
  BY <1>3, <1>5, <1>7, <1>8 DEF ServerInv

\* A step of a run that is registered or not even asked for: the requests and
\* the tables stay as they are, and the run's state can only go on to its end.
LEMMA RunMoves ==
  ASSUME ServerInv, NEW r \in Runs, NEW x \in RunRecords, NEW b \in Bridges,
         NEW g \in Seq(Nat),
         run' = [run EXCEPT ![r] = x], bridge' = [bridge EXCEPT ![r] = b],
         got' = [got EXCEPT ![r] = g],
         StreamOK(x, b, Len(g)),
         \/ x.state = run[r].state
         \/ run[r].state \in {"live", "ending"} /\ x.state \in {"ending", "over"},
         run[r].abort => x.abort \/ x.state \in {"ending", "over"},
         UNCHANGED <<operation, bySession, byRun, req, deleted>>,
         \/ asked' = asked
         \/ /\ asked' = asked \cup {r} /\ r \in byRun
            /\ x.abort \/ x.state \in {"ending", "over"},
         \/ log' = log
         \/ log' = [log EXCEPT ![r] = "ended"]
  PROVE  ServerInv'
<1> USE DEF ServerInv
<1>1. ServerType'
  <2>1. /\ run' \in [Runs -> RunRecords] /\ bridge' \in [Runs -> Bridges]
        /\ got' \in [Runs -> Seq(Nat)]
    BY DEF ServerType
  <2>2. asked' \subseteq Runs
    BY DEF ServerType
  <2>3. log' \in [Runs \cup {NoRun} -> {"absent", "open", "ended"}]
    BY DEF ServerType
  <2> QED
    BY <2>1, <2>2, <2>3 DEF ServerType
<1>2. Reservation'
  BY DEF Reservation
<1>3. \A q \in Runs :
        run'[q].state = run[q].state \/
           (run[q].state \in {"live", "ending"} /\ run'[q].state \in Working)
  BY DEF ServerType, Working
<1>4. Progress'
  BY <1>3 DEF Progress, Reservation, RequestOK, Working
<1>5. Owned' \subseteq Owned
  BY <1>3 DEF Owned, Working
<1>6. Tables'
  BY <1>3, <1>5, Zenon DEF Tables, Working, ServerType
<1>7. OpenRuns' \subseteq OpenRuns
  BY DEF OpenRuns, ServerType
<1>8. Alone'
  BY <1>5, <1>7 DEF Alone
<1>9. AskedOK'
  <2>1. asked' \subseteq byRun'
    BY DEF AskedOK
  <2>2. ASSUME NEW q \in asked' PROVE (run[q].abort \/ run[q].state \in {"ending", "over"})'
    <3>1. CASE q = r
      <4>1. run'[q] = x
        BY <3>1 DEF ServerType
      <4> QED
        BY <3>1, <4>1 DEF AskedOK
    <3>2. CASE q # r
      <4>1. run'[q] = run[q] /\ q \in asked
        BY <2>2, <3>2 DEF ServerType
      <4> QED
        BY <4>1 DEF AskedOK
    <3> QED
      BY <3>1, <3>2
  <2> QED
    BY <2>1, <2>2 DEF AskedOK
<1>10. \A q \in Runs : StreamOK(run[q], bridge[q], Len(got[q]))'
  BY DEF ServerType
<1> QED
  BY <1>1, <1>2, <1>4, <1>6, <1>8, <1>9, <1>10

-----------------------------------------------------------------------------
(* The reservation.                                                        *)

\* A request goes on and keeps what it holds, or goes on without holding.
LEMMA GoesOn ==
  ASSUME Reservation, NEW c \in Callers, NEW q, req \in [Callers -> Requests],
         req' = [req EXCEPT ![c] = q], RequestOK(q),
         q.holds = req[c].holds, q.holds => q.kind = req[c].kind,
         UNCHANGED <<operation, bySession>>
  PROVE  Reservation'
<1>1. \A d \in Callers : req'[d] = IF d = c THEN q ELSE req[d]
  OBVIOUS
<1> QED
  BY <1>1 DEF Reservation

\* A request that gets a reservation found none.
LEMMA Reserves ==
  ASSUME Reservation, NEW c \in Callers, NEW q, req \in [Callers -> Requests],
         Free, req' = [req EXCEPT ![c] = q], RequestOK(q), q.holds,
         operation' = OperationOf(q.kind), UNCHANGED bySession
  PROVE  Reservation' /\ \A d \in Callers : ~req[d].holds
<1>1. \A d \in Callers : req'[d] = IF d = c THEN q ELSE req[d]
  OBVIOUS
<1>2. \A d \in Callers : ~req[d].holds
  BY DEF Reservation, Free, RequestOK, OperationOf, Reserving
<1> QED
  BY <1>1, <1>2 DEF Reservation, Free

\* Who lets go leaves nothing behind, and takes nothing from others.
LEMMA LetsGo ==
  ASSUME Reservation, NEW c \in Callers, NEW q, req \in [Callers -> Requests],
         req' = [req EXCEPT ![c] = q], RequestOK(q), ~q.holds, Release(c),
         req[c].holds \/ bySession' = bySession
  PROVE  Reservation'
<1>1. \A d \in Callers : req'[d] = IF d = c THEN q ELSE req[d]
  OBVIOUS
<1>2. CASE req[c].holds
  <2>1. operation' = "none" /\ \A d \in Callers : ~req'[d].holds
    BY <1>1, <1>2 DEF Reservation, Release
  <2> QED
    BY <1>1, <2>1 DEF Reservation
<1>3. CASE ~req[c].holds
  <2>1. operation' = operation /\ bySession' = bySession
    BY <1>3 DEF Release
  <2> QED
    BY <1>1, <1>3, <2>1 DEF Reservation
<1> QED
  BY <1>2, <1>3

LEMMA NoRequestOK ==
  /\ NoRequest \in Requests /\ RequestOK(NoRequest) /\ ~NoRequest.holds
  /\ NoRequest.kind = "none" /\ NoRequest.step = "idle"
  BY DEF NoRequest, Requests, Kinds, Steps, RequestOK, Reserving

\* Without a reservation the runtime has no run that the tables do not.
LEMMA FreeMeansIdle ==
  ASSUME ServerInv, bySession = NoRun,
         NEW c \in Callers,
         \A d \in Callers : req[d].holds =>
            d = c /\ req[d].step \notin {"started", "register"}
  PROVE  Owned = {}
  BY NoRunOutside DEF ServerInv, Tables, Owned, Reservation, RequestOK, Reserving

-----------------------------------------------------------------------------
(* Requests that change nothing but themselves, the entry of the session   *)
(* and what a recovery or a deletion does.                                 *)

\* The part of a request in the invariant that is about others.
Placed(q) ==
    /\ q.kind = "run" =>
          /\ q.step \in {"metadata", "lock", "recover", "begin"} =>
                run[q.run].state = "asked"
          /\ q.step = "started" => run[q.run].state = "starting"
          /\ q.step \in {"register", "bind"} => run[q.run].state \in Working
    /\ q.step \notin {"begin", "started", "register"}
    /\ q.holds /\ q.kind # "run" => Owned = {}
    /\ q.step = "page" /\ q.run = NoRun => OpenRuns' = {}

LEMMA RequestMoves ==
  ASSUME ServerInv, NEW c \in Callers, NEW q \in Requests,
         req' = [req EXCEPT ![c] = q], Reservation',
         \/ Placed(q)
         \/ q.step = "begin" /\ q.kind = "run" /\ ~deleted'
            /\ run[q.run].state = "asked",
         req[c].step \notin {"started", "register"},
         operation' \in Operations \cup {"none"}, deleted' \in BOOLEAN,
         (deleted' /\ ~deleted) => Owned = {} /\
            \A d \in Callers : req'[d].step \notin {"begin", "started", "register"},
         UNCHANGED <<bySession, byRun, asked, run, bridge, got>>,
         log' \in [Runs \cup {NoRun} -> {"absent", "open", "ended"}],
         \A r \in Runs \cup {NoRun} : log'[r] = "open" => log[r] = "open"
  PROVE  ServerInv'
<1> USE DEF ServerInv
<1>1. \A d \in Callers : req'[d] = IF d = c THEN q ELSE req[d]
  BY DEF ServerType
<1>2. ServerType'
  <2>1. req' \in [Callers -> Requests]
    BY DEF ServerType
  <2> QED
    BY <2>1 DEF ServerType
<1>3. Progress'
  BY <1>1 DEF Progress, Placed
<1>4. Owned' = Owned /\ OpenRuns' \subseteq OpenRuns
  BY DEF Owned, OpenRuns
<1>5. Tables'
  BY <1>1, <1>4 DEF Tables
<1>6. Alone'
  BY <1>1, <1>4 DEF Alone, Placed
<1>7. AskedOK'
  BY DEF AskedOK
<1>8. \A r \in Runs : StreamOK(run[r], bridge[r], Len(got[r]))'
  OBVIOUS
<1> QED
  BY <1>2, <1>3, <1>5, <1>6, <1>7, <1>8

\* The same, where the request returns.
LEMMA Returns ==
  ASSUME ServerInv, NEW c \in Callers, Return(c),
         req[c].step \notin {"started", "register"},
         deleted' \in BOOLEAN,
         (deleted' /\ ~deleted) => req[c].holds /\ Owned = {},
         UNCHANGED <<bySession, byRun, asked, run, bridge, got, log>>
  PROVE  ServerInv'
<1> USE DEF ServerInv
<1>1. req' = [req EXCEPT ![c] = NoRequest] /\ Release(c)
  BY DEF Return
<1>2. Reservation'
  BY <1>1, NoRequestOK, LetsGo DEF ServerType
<1>3. Placed(NoRequest)
  BY NoRequestOK, Zenon DEF Placed, NoRequest
<1>4. operation' \in Operations \cup {"none"}
  BY <1>1 DEF Release, ServerType
<1>5. (deleted' /\ ~deleted) =>
         \A d \in Callers : req'[d].step \notin {"begin", "started", "register"}
  BY <1>1, NoRequestOK DEF Reservation, RequestOK, Reserving, ServerType
<1>6. log' \in [Runs \cup {NoRun} -> {"absent", "open", "ended"}]
  BY DEF ServerType
<1> QED
  BY <1>1, <1>2, <1>3, <1>4, <1>5, <1>6, NoRequestOK, RequestMoves

LEMMA MetadataKeeps ==
  ASSUME ServerInv, NEW c \in Callers, Metadata(c)
  PROVE  ServerInv'
<1> USE DEF ServerInv
<1>1. CASE Return(c)
  BY <1>1, Returns DEF Metadata, At, same, wire, ServerType
<1>2. CASE Goes(c, "lock") /\ UNCHANGED operation
  <2> PICK q : q = [req[c] EXCEPT !.step = "lock"]
    OBVIOUS
  <2>1. /\ q \in Requests /\ q.step = "lock" /\ q.holds = req[c].holds
        /\ q.kind = req[c].kind /\ q.run = req[c].run
    BY DEF ServerType, Requests, Steps
  <2>2. req' = [req EXCEPT ![c] = q] /\ req[c].step = "metadata"
    BY <1>2 DEF Goes, Metadata, At
  <2>3. req[c].kind = "run" /\ req[c].holds /\ run[req[c].run].state = "asked"
    BY <2>2 DEF Reservation, RequestOK, Reserving, Progress
  <2>4. RequestOK(q)
    BY <2>1, <2>2, <2>3 DEF Reservation, RequestOK, Reserving
  <2>5. Placed(q)
    BY <2>1, <2>3 DEF Placed
  <2>6. Reservation'
    BY <1>2, <2>1, <2>2, <2>4, GoesOn DEF Metadata, same, ServerType
  <2> QED
    BY <1>2, <2>1, <2>2, <2>5, <2>6, RequestMoves
       DEF Metadata, same, wire, ServerType
<1> QED
  BY <1>1, <1>2 DEF Metadata

LEMMA PostRunKeeps ==
  ASSUME ServerInv, NEW c \in Callers, PostRun(c)
  PROVE  ServerInv'
<1> USE DEF ServerInv
<1>1. PICK r \in Runs :
         /\ run[r].state = "absent"
         /\ Reserve(c, "run", "starting", "metadata", r)
         /\ run' = [run EXCEPT ![r].state = "asked"]
  BY DEF PostRun
<1> PICK q : q = [kind |-> "run", step |-> "metadata", run |-> r, holds |-> TRUE]
  OBVIOUS
<1>2. /\ q \in Requests /\ RequestOK(q) /\ q.holds /\ q.kind = "run"
      /\ q.step = "metadata" /\ q.run = r
  BY NoRunOutside DEF Requests, Kinds, Steps, RequestOK, Reserving
<1>3. /\ req' = [req EXCEPT ![c] = q] /\ Free /\ operation' = "starting"
      /\ UNCHANGED <<bySession, byRun, asked, bridge, got, log, deleted>>
  BY <1>1 DEF Reserve, PostRun, same, wire
<1>4. Reservation' /\ \A d \in Callers : ~req[d].holds
  BY <1>2, <1>3, Reserves DEF ServerType, OperationOf
<1>5. \A d \in Callers : req'[d] = IF d = c THEN q ELSE req[d]
  BY <1>3 DEF ServerType
<1>6. PICK x : x = [run[r] EXCEPT !.state = "asked"]
  OBVIOUS
<1>7. /\ x \in RunRecords /\ x.state = "asked" /\ x.sent = run[r].sent
      /\ run' = [run EXCEPT ![r] = x]
  BY <1>1, <1>6 DEF ServerType, RunRecords
<1>8. \A p \in Runs : run'[p] = IF p = r THEN x ELSE run[p]
  BY <1>7 DEF ServerType
<1>9. ServerType'
  <2>1. req' \in [Callers -> Requests] /\ run' \in [Runs -> RunRecords]
    BY <1>2, <1>3, <1>7 DEF ServerType
  <2> QED
    BY <1>3, <2>1 DEF ServerType, Operations
<1>10. Progress'
  BY <1>1, <1>2, <1>5, <1>7, <1>8 DEF Progress, Working, Reservation, RequestOK
<1>11. Owned' = Owned
  BY <1>1, <1>7, <1>8 DEF Owned
<1>12. Tables'
  <2>1. \A p \in byRun : run'[p] = run[p]
    BY <1>1, <1>8 DEF Tables, Working, ServerType
  <2>2. \A d \in Callers : req[d].step \in {"started", "register"} => FALSE
    BY <1>4 DEF Reservation, RequestOK, Reserving
  <2> QED
    BY <1>3, <1>11, <2>1, <2>2 DEF Tables
<1>13. Alone'
  BY <1>2, <1>3, <1>5, <1>11 DEF Alone, OpenRuns
<1>14. AskedOK'
  BY <1>1, <1>3, <1>8 DEF AskedOK, Tables, Working, ServerType
<1>15. \A p \in Runs : StreamOK(run[p], bridge[p], Len(got[p]))'
  <2> SUFFICES ASSUME NEW p \in Runs
               PROVE  StreamOK(run'[p], bridge[p], Len(got[p]))
    BY <1>3
  <2>1. CASE p = r
    BY <1>1, <1>7, <1>8, <2>1 DEF StreamOK, Working
  <2>2. CASE p # r
    BY <1>8, <2>2
  <2> QED
    BY <2>1, <2>2
<1> QED
  BY <1>4, <1>9, <1>10, <1>12, <1>13, <1>14, <1>15

LEMMA DeleteKeeps ==
  ASSUME ServerInv, NEW c \in Callers, Delete(c)
  PROVE  ServerInv'
<1> USE DEF ServerInv
<1> PICK q : q = [kind |-> "delete", step |-> "store", run |-> NoRun, holds |-> TRUE]
  OBVIOUS
<1>2. /\ q \in Requests /\ RequestOK(q) /\ q.holds /\ q.kind = "delete"
      /\ q.step = "store"
  BY NoRunOutside DEF Requests, Kinds, Steps, RequestOK, Reserving
<1>3. /\ req' = [req EXCEPT ![c] = q] /\ Free /\ operation' = "deleting"
      /\ UNCHANGED <<bySession, byRun, asked, run, bridge, got, log, deleted>>
      /\ req[c].step = "idle"
  BY DEF Reserve, Delete, same, wire, At
<1>4. Reservation' /\ \A d \in Callers : ~req[d].holds
  BY <1>2, <1>3, Reserves DEF ServerType, OperationOf
<1>5. Owned = {}
  BY <1>3, <1>4, FreeMeansIdle DEF Free
<1>6. Placed(q)
  BY <1>2, <1>5 DEF Placed
<1> QED
  BY <1>2, <1>3, <1>4, <1>6, RequestMoves DEF ServerType, Operations

LEMMA ReadRecoveredKeeps ==
  ASSUME ServerInv, NEW c \in Callers, ReadRecovered(c)
  PROVE  ServerInv'
<1> USE DEF ServerInv
<1> PICK q : q = [kind |-> "read", step |-> "lock", run |-> NoRun, holds |-> TRUE]
  OBVIOUS
<1>2. /\ q \in Requests /\ RequestOK(q) /\ q.holds /\ q.kind = "read"
      /\ q.step = "lock"
  BY NoRunOutside DEF Requests, Kinds, Steps, RequestOK, Reserving
<1>3. /\ req' = [req EXCEPT ![c] = q] /\ Free /\ operation' = "recovering"
      /\ UNCHANGED <<bySession, byRun, asked, run, bridge, got, log, deleted>>
      /\ req[c].step = "idle"
  BY DEF Reserve, ReadRecovered, same, wire, At
<1>4. Reservation' /\ \A d \in Callers : ~req[d].holds
  BY <1>2, <1>3, Reserves DEF ServerType, OperationOf
<1>5. Owned = {}
  BY <1>3, <1>4, FreeMeansIdle DEF Free
<1>6. Placed(q)
  BY <1>2, <1>5 DEF Placed
<1> QED
  BY <1>2, <1>3, <1>4, <1>6, RequestMoves DEF ServerType, Operations

LEMMA DeletedKeeps ==
  ASSUME ServerInv, NEW c \in Callers, Deleted(c)
  PROVE  ServerInv'
<1> USE DEF ServerInv
<1>1. req[c].step = "store" /\ deleted' \in BOOLEAN /\ Return(c)
      /\ UNCHANGED <<bySession, byRun, asked, run, bridge, got, log>>
  BY DEF Deleted, At, same, wire, ServerType
<1>2. req[c].holds /\ Owned = {}
  BY <1>1 DEF Reservation, RequestOK, Reserving, Alone
<1> QED
  BY <1>1, <1>2, Returns

LEMMA ReadLiveKeeps ==
  ASSUME ServerInv, NEW c \in Callers, ReadLive(c)
  PROVE  ServerInv'
<1> USE DEF ServerInv
<1>0. PICK q : q = [NoRequest EXCEPT
                       !.kind = "read", !.step = "page", !.run = bySession]
  OBVIOUS
<1>1. q = [kind |-> "read", step |-> "page", run |-> bySession, holds |-> FALSE]
  BY <1>0 DEF NoRequest
<1>2. /\ q \in Requests /\ RequestOK(q) /\ ~q.holds /\ q.kind = "read"
      /\ q.step = "page" /\ q.run # NoRun
  BY <1>1 DEF Requests, Kinds, Steps, RequestOK, Reserving, ServerType, ReadLive
<1>3. /\ req' = [req EXCEPT ![c] = q]
      /\ UNCHANGED <<operation, bySession, byRun, asked, run, bridge, got, log,
                     deleted>>
      /\ req[c].step = "idle"
  BY <1>0, Zenon DEF ReadLive, tables, wire, At
<1>4. Reservation'
  <2>1. req[c].holds = FALSE /\ q.holds = FALSE
    BY <1>1, <1>3 DEF Reservation, RequestOK, Reserving, ServerType, Requests
  <2> QED
    BY <1>2, <1>3, <2>1, GoesOn DEF ServerType
<1>6. Placed(q)
  BY <1>2 DEF Placed
<1> QED
  BY <1>2, <1>3, <1>4, <1>6, RequestMoves DEF ServerType

LEMMA PageKeeps ==
  ASSUME ServerInv, NEW c \in Callers, Page(c)
  PROVE  ServerInv'
<1>1. req[c].step = "page" /\ Return(c)
      /\ UNCHANGED <<bySession, byRun, asked, run, bridge, got, log, deleted>>
  BY DEF Page, At, same, wire
<1> QED
  BY <1>1, Returns DEF ServerInv, ServerType

LEMMA DecidedKeeps ==
  ASSUME ServerInv, NEW c \in Callers, Decided(c)
  PROVE  ServerInv'
<1>1. req[c].step = "publish" /\ Return(c)
      /\ UNCHANGED <<bySession, byRun, asked, run, bridge, got, log, deleted>>
  BY DEF Decided, At, same, wire
<1> QED
  BY <1>1, Returns DEF ServerInv, ServerType

LEMMA TakeLockKeeps ==
  ASSUME ServerInv, NEW c \in Callers, TakeLock(c)
  PROVE  ServerInv'
<1> USE DEF ServerInv
<1>1. req[c].step = "lock"
      /\ UNCHANGED <<bySession, byRun, asked, run, bridge, got, log, deleted>>
  BY DEF TakeLock, At, same, wire
<1>2. /\ req[c].holds /\ req[c].kind \in {"run", "read"}
      /\ req[c].kind = "run" => run[req[c].run].state = "asked"
      /\ req[c].kind = "run" \/ Owned = {}
  BY <1>1 DEF Reservation, RequestOK, Reserving, Progress, Alone
<1>3. CASE Return(c)
  BY <1>1, <1>3, Returns DEF ServerType
<1>4. CASE Goes(c, "recover") /\ UNCHANGED operation
  <2> PICK q : q = [req[c] EXCEPT !.step = "recover"]
    OBVIOUS
  <2>1. /\ q \in Requests /\ q.step = "recover" /\ q.holds = req[c].holds
        /\ q.kind = req[c].kind /\ q.run = req[c].run
    BY DEF ServerType, Requests, Steps
  <2>2. req' = [req EXCEPT ![c] = q]
    BY <1>4 DEF Goes
  <2>4. RequestOK(q)
    BY <1>1, <1>2, <2>1 DEF Reservation, RequestOK, Reserving
  <2>5. Placed(q)
    BY <1>2, <2>1 DEF Placed
  <2>6. Reservation'
    BY <1>1, <1>4, <2>1, <2>2, <2>4, GoesOn DEF ServerType
  <2> QED
    BY <1>1, <1>4, <2>1, <2>2, <2>5, <2>6, RequestMoves DEF ServerType
<1> QED
  BY <1>2, <1>3, <1>4 DEF TakeLock, ToPage

LEMMA RecoverKeeps ==
  ASSUME ServerInv, NEW c \in Callers, Recover(c)
  PROVE  ServerInv'
<1> USE DEF ServerInv
<1>1. req[c].step = "recover"
      /\ UNCHANGED <<bySession, byRun, asked, run, bridge, got, deleted>>
  BY DEF Recover, At, same, wire
<1>2. /\ req[c].holds /\ req[c].kind \in {"run", "read"}
      /\ req[c].kind = "run" => run[req[c].run].state = "asked"
      /\ req[c].kind = "read" => Owned = {} /\ req[c].run = NoRun
  BY <1>1 DEF Reservation, RequestOK, Reserving, Progress, Alone
<1>3. CASE Return(c) /\ UNCHANGED log
  BY <1>1, <1>3, Returns DEF ServerType
<1>4. ASSUME NEW s \in {"page", "begin"}, s = "page" <=> req[c].kind = "read",
             ~deleted, Goes(c, s), UNCHANGED operation,
             log' = [r \in Runs \cup {NoRun} |->
                        IF r \in OpenRuns THEN "ended" ELSE log[r]]
      PROVE  ServerInv'
  <2> PICK q : q = [req[c] EXCEPT !.step = s]
    OBVIOUS
  <2>1. /\ q \in Requests /\ q.step = s /\ q.holds = req[c].holds
        /\ q.kind = req[c].kind /\ q.run = req[c].run
    BY DEF ServerType, Requests, Steps
  <2>2. req' = [req EXCEPT ![c] = q]
    BY <1>4 DEF Goes
  <2>3. RequestOK(q)
    BY <1>1, <1>2, <1>4, <2>1 DEF Reservation, RequestOK, Reserving
  <2>4. OpenRuns' = {}
    BY <1>4 DEF OpenRuns
  <2>5. \/ Placed(q)
        \/ q.step = "begin" /\ q.kind = "run" /\ ~deleted'
           /\ run[q.run].state = "asked"
    BY <1>1, <1>2, <1>4, <2>1, <2>4 DEF Placed
  <2>6. Reservation'
    BY <1>1, <1>4, <2>1, <2>2, <2>3, GoesOn DEF ServerType
  <2>7. /\ log' \in [Runs \cup {NoRun} -> {"absent", "open", "ended"}]
        /\ \A r \in Runs \cup {NoRun} : log'[r] = "open" => log[r] = "open"
    BY <1>4 DEF ServerType, OpenRuns
  <2> QED
    BY <1>1, <1>4, <2>1, <2>2, <2>5, <2>6, <2>7, RequestMoves DEF ServerType
<1> QED
  BY <1>2, <1>3, <1>4 DEF Recover, ToPage

-----------------------------------------------------------------------------
(* Deliveries.                                                             *)

\* The record of a run whose consumer threw.
LEMMA SinkFailedKeeps ==
  ASSUME NEW x \in RunRecords
  PROVE  /\ SinkFailed(x) \in RunRecords /\ SinkFailed(x).state = x.state
         /\ SinkFailed(x).sent = x.sent /\ (x.abort => SinkFailed(x).abort)
<1> PICK y : y = [x EXCEPT !.sink = FALSE]
  OBVIOUS
<1>1. /\ y \in RunRecords /\ y.state = x.state /\ y.sent = x.sent
      /\ y.abort = x.abort
  BY DEF RunRecords
<1>2. PICK z : z = [y EXCEPT !.abort = TRUE]
  OBVIOUS
<1>3. /\ z \in RunRecords /\ z.state = x.state /\ z.sent = x.sent /\ z.abort
  BY <1>1, <1>2 DEF RunRecords
<1>4. SinkFailed(x) = y \/ SinkFailed(x) = z
  BY <1>2 DEF SinkFailed, RequestAbort
<1> QED
  BY <1>1, <1>3, <1>4

LEMMA AbortKeeps ==
  ASSUME NEW x \in RunRecords
  PROVE  /\ RequestAbort(x) \in RunRecords /\ RequestAbort(x).state = x.state
         /\ RequestAbort(x).sent = x.sent /\ (x.abort => RequestAbort(x).abort)
         /\ x.state \in {"starting", "live"} => RequestAbort(x).abort
<1>1. PICK z : z = [x EXCEPT !.abort = TRUE]
  OBVIOUS
<1>2. /\ z \in RunRecords /\ z.state = x.state /\ z.sent = x.sent /\ z.abort
  BY <1>1 DEF RunRecords
<1>3. \/ RequestAbort(x) = x /\ x.state \notin {"starting", "live"}
      \/ RequestAbort(x) = z
  BY <1>1 DEF RequestAbort
<1> QED
  BY <1>2, <1>3

\* What a delivery does to a run and its bridge: nothing, or one event more
\* in an open stream.
LEMMA DeliverKeeps ==
  ASSUME NEW r \in Runs, run \in [Runs -> RunRecords],
         bridge \in [Runs -> Bridges], NEW x \in RunRecords,
         NEW p \in Producers, NEW size \in Nat, Deliver(r, x, p, size)
  PROVE  \E y \in RunRecords, d \in Bridges :
            /\ run' = [run EXCEPT ![r] = y] /\ bridge' = [bridge EXCEPT ![r] = d]
            /\ y.state = x.state /\ (x.abort => y.abort)
            /\ \/ y.sent = x.sent /\ d = bridge[r]
               \/ /\ y.sent = x.sent + 1 /\ bridge[r].state = "open"
                  /\ d.state = "open" /\ d.left = bridge[r].left
                  /\ d.bound = bridge[r].bound
                  /\ \A g \in Nat : InOrder(bridge[r], g, x.sent) =>
                                       InOrder(d, g, x.sent + 1)
<1> DEFINE line == [event |-> x.sent + 1, size |-> size]
<1>1. bridge[r] \in Bridges /\ bridge = [bridge EXCEPT ![r] = bridge[r]]
  OBVIOUS
<1>2. CASE run' = [run EXCEPT ![r] = x] /\ UNCHANGED bridge
  BY <1>1, <1>2
<1>3. CASE run' = [run EXCEPT ![r] = SinkFailed(x)] /\ UNCHANGED bridge
  <2> HIDE DEF line
  <2> QED
    BY <1>1, <1>3, SinkFailedKeeps
<1>4. CASE /\ ~Refuses(bridge[r], line)
           /\ run' = [run EXCEPT ![r] = [x EXCEPT !.sent = @ + 1]]
           /\ bridge' = [bridge EXCEPT ![r] = Publish(@, p, line)]
  <2>1. PICK y : y = [x EXCEPT !.sent = @ + 1]
    OBVIOUS
  <2>2. /\ y \in RunRecords /\ y.state = x.state /\ y.abort = x.abort
        /\ y.sent = x.sent + 1
    BY <2>1 DEF RunRecords
  <2>3. line \in WireLines /\ line.event = x.sent + 1 /\ x.sent \in Nat
    BY DEF WireLines, RunRecords
  <2>4. PICK d : d = Publish(bridge[r], p, line)
    OBVIOUS
  <2>5. bridge[r].state = "open"
    BY <1>4 DEF Refuses
  <2>6. /\ d \in Bridges /\ d.left = bridge[r].left
        /\ d.bound = bridge[r].bound /\ d.state = "open"
        /\ \A g \in Nat : InOrder(bridge[r], g, x.sent) =>
                             InOrder(d, g, x.sent + 1)
    <3> HIDE DEF line
    <3>1. LET e == Publish(bridge[r], p, line)
          IN  /\ e \in Bridges /\ e.left = bridge[r].left
              /\ e.bound = bridge[r].bound
              /\ \/ e.state = bridge[r].state
                 \/ bridge[r].state = "closing" /\ e.state = "closed"
              /\ \A g, n \in Nat : InOrder(bridge[r], g, n) /\ line.event = n + 1
                                      => InOrder(e, g, n + 1)
      BY <1>1, <2>3, PublishOrder
    <3> QED
      BY <2>3, <2>4, <2>5, <3>1
  <2>7. bridge' = [bridge EXCEPT ![r] = d] /\ run' = [run EXCEPT ![r] = y]
    BY <1>4, <2>1, <2>4
  <2> QED
    BY <2>2, <2>5, <2>6, <2>7
<1> QED
  BY <1>2, <1>3, <1>4, Zenon DEF Deliver

\* A stream keeps its order over a delivery.
LEMMA DeliverOrder ==
  ASSUME NEW z, NEW x \in RunRecords, NEW y \in RunRecords,
         NEW b \in Bridges, NEW d \in Bridges, NEW g \in Nat,
         StreamOK(z, b, g), x.sent = z.sent, y.state = x.state,
         \/ x.state = z.state
         \/ z.state = "asked" /\ x.state = "starting"
         \/ z.state = "live" /\ x.state = "ending",
         z.abort => y.abort,
         \/ y.sent = x.sent /\ d = b
         \/ /\ y.sent = x.sent + 1 /\ b.state = "open" /\ d.state = "open"
            /\ d.left = b.left /\ d.bound = b.bound
            /\ InOrder(b, g, x.sent) => InOrder(d, g, x.sent + 1),
         x.state \notin {"absent", "asked"}
  PROVE  StreamOK(y, d, g)
<1>1. CASE y.sent = x.sent /\ d = b
  BY <1>1 DEF StreamOK, Working
<1>2. CASE /\ y.sent = x.sent + 1 /\ b.state = "open" /\ d.state = "open"
           /\ d.left = b.left /\ d.bound = b.bound
           /\ InOrder(b, g, x.sent) => InOrder(d, g, x.sent + 1)
  BY <1>2 DEF StreamOK, Working
<1> QED
  BY <1>1, <1>2

-----------------------------------------------------------------------------
(* The steps of a run, its stream and its consumer.                        *)

LEMMA OneMoreEvent ==
  ASSUME NEW z \in RunRecords, NEW x, x = [z EXCEPT !.events = @ + 1]
  PROVE  /\ x \in RunRecords /\ x.state = z.state /\ x.sent = z.sent
         /\ x.abort = z.abort
  BY DEF RunRecords

Completed(outcome, n) ==
    [NoRecord EXCEPT !.state = "over", !.outcome = outcome, !.sent = n]

LEMMA OverRecord ==
  ASSUME NEW outcome \in {"resolved", "rejected"}, NEW n \in Nat
  PROVE  /\ Completed(outcome, n) \in RunRecords
         /\ Completed(outcome, n).state = "over"
         /\ Completed(outcome, n).sent = n
<1>1. PICK w : w = [NoRecord EXCEPT !.state = "over"]
  OBVIOUS
<1>2. PICK y : y = [w EXCEPT !.outcome = outcome]
  OBVIOUS
<1>3. PICK z : z = [y EXCEPT !.sent = n]
  OBVIOUS
<1>4. w \in RunRecords /\ w.state = "over" /\ ~w.abort
  BY <1>1 DEF NoRecord, RunRecords
<1>5. y \in RunRecords /\ y.state = "over" /\ ~y.abort
  BY <1>2, <1>4 DEF RunRecords
<1>6. z \in RunRecords /\ z.state = "over" /\ ~z.abort /\ z.sent = n
  BY <1>3, <1>5 DEF RunRecords
<1> QED
  <2>1. z = Completed(outcome, n)
    BY <1>1, <1>2, <1>3, Zenon DEF Completed
  <2> QED
    BY <1>6, <2>1

LEMMA EmitKeeps ==
  ASSUME ServerInv, NEW r \in Runs, Emit(r)
  PROVE  ServerInv'
<1> USE DEF ServerInv
<1>1. PICK size \in Sizes :
         Deliver(r, [run[r] EXCEPT !.events = @ + 1], Handler, size)
  BY DEF Emit
<1>2. PICK x : x = [run[r] EXCEPT !.events = @ + 1]
  OBVIOUS
<1>3. /\ x \in RunRecords /\ x.state = run[r].state /\ x.sent = run[r].sent
      /\ x.abort = run[r].abort
  BY <1>2, OneMoreEvent DEF ServerType
<1>4. Deliver(r, x, Handler, size) /\ size \in Nat /\ Handler \in Producers
  BY <1>1, <1>2, ServerAssumption
<1>5. PICK y \in RunRecords, d \in Bridges :
         /\ run' = [run EXCEPT ![r] = y] /\ bridge' = [bridge EXCEPT ![r] = d]
         /\ y.state = x.state /\ (x.abort => y.abort)
         /\ \/ y.sent = x.sent /\ d = bridge[r]
            \/ /\ y.sent = x.sent + 1 /\ bridge[r].state = "open"
               /\ d.state = "open" /\ d.left = bridge[r].left
               /\ d.bound = bridge[r].bound
               /\ \A g \in Nat : InOrder(bridge[r], g, x.sent) =>
                                    InOrder(d, g, x.sent + 1)
  BY <1>3, <1>4, DeliverKeeps DEF ServerType
<1>6. bridge[r] \in Bridges /\ got[r] \in Seq(Nat) /\ Len(got[r]) \in Nat
      /\ run[r].state = "live"
  BY DEF ServerType, Emit
<1>7. StreamOK(y, d, Len(got[r]))
  BY <1>3, <1>5, <1>6, DeliverOrder
<1>8. /\ got' = [got EXCEPT ![r] = got[r]] /\ log' = log /\ asked' = asked
      /\ UNCHANGED <<operation, bySession, byRun, req, deleted>>
  BY DEF Emit, tables, ServerType
<1> QED
  BY <1>3, <1>5, <1>6, <1>7, <1>8, RunMoves

LEMMA FinishKeeps ==
  ASSUME ServerInv, NEW r \in Runs, Finish(r)
  PROVE  ServerInv'
<1> USE DEF ServerInv
<1>1. PICK x : x = [run[r] EXCEPT !.state = "ending"]
  OBVIOUS
<1>2. /\ x \in RunRecords /\ x.state = "ending" /\ x.sent = run[r].sent
      /\ x.abort = run[r].abort /\ run[r].state = "live"
  BY <1>1 DEF ServerType, RunRecords, Finish
<1>3. Deliver(r, x, Handler, 1) /\ Handler \in Producers /\ 1 \in Nat
  BY <1>1, ServerAssumption DEF Finish
<1>4. PICK y \in RunRecords, d \in Bridges :
         /\ run' = [run EXCEPT ![r] = y] /\ bridge' = [bridge EXCEPT ![r] = d]
         /\ y.state = x.state /\ (x.abort => y.abort)
         /\ \/ y.sent = x.sent /\ d = bridge[r]
            \/ /\ y.sent = x.sent + 1 /\ bridge[r].state = "open"
               /\ d.state = "open" /\ d.left = bridge[r].left
               /\ d.bound = bridge[r].bound
               /\ \A g \in Nat : InOrder(bridge[r], g, x.sent) =>
                                    InOrder(d, g, x.sent + 1)
  BY <1>2, <1>3, DeliverKeeps DEF ServerType
<1>5. bridge[r] \in Bridges /\ got[r] \in Seq(Nat) /\ Len(got[r]) \in Nat
  BY DEF ServerType
<1>6. StreamOK(y, d, Len(got[r]))
  BY <1>2, <1>4, <1>5, DeliverOrder
<1>7. /\ got' = [got EXCEPT ![r] = got[r]] /\ log' = [log EXCEPT ![r] = "ended"]
      /\ UNCHANGED <<operation, bySession, byRun, asked, req, deleted>>
  BY DEF Finish, tables, ServerType
<1> QED
  BY <1>2, <1>4, <1>5, <1>6, <1>7, RunMoves

LEMMA CompleteKeeps ==
  ASSUME ServerInv, NEW r \in Runs, Complete(r)
  PROVE  ServerInv'
<1> USE DEF ServerInv
<1>1. PICK outcome \in {"resolved", "rejected"} :
         /\ run[r].state \in {"live", "ending"}
         /\ run' = [run EXCEPT ![r] = Completed(outcome, run[r].sent)]
  BY Zenon DEF Complete, Completed
<1>2. PICK n \in Nat : n = run[r].sent
  BY DEF ServerType, RunRecords
<1>3. PICK x : x = Completed(outcome, n)
  OBVIOUS
<1>4. x \in RunRecords /\ x.state = "over" /\ x.sent = run[r].sent
  BY <1>2, <1>3, OverRecord
<1>5. run' = [run EXCEPT ![r] = x]
  BY <1>1, <1>2, <1>3, Zenon
<1>6. bridge[r] \in Bridges /\ got[r] \in Seq(Nat)
      /\ StreamOK(run[r], bridge[r], Len(got[r]))
  BY DEF ServerType
<1>7. StreamOK(x, bridge[r], Len(got[r]))
  BY <1>1, <1>4, <1>6 DEF StreamOK, Working
<1>8. /\ got' = [got EXCEPT ![r] = got[r]] /\ bridge' = [bridge EXCEPT ![r] = bridge[r]]
      /\ log' = log
      /\ UNCHANGED <<operation, bySession, byRun, asked, req, deleted>>
  BY DEF Complete, tables, wire, ServerType
<1> QED
  BY <1>1, <1>4, <1>5, <1>6, <1>7, <1>8, RunMoves

\* A step that changes no state of a run and no bridge, but perhaps aborts.
LEMMA RunOnly ==
  ASSUME ServerInv, NEW r \in Runs, NEW x \in RunRecords,
         run' = [run EXCEPT ![r] = x], x.state = run[r].state,
         x.sent = run[r].sent, run[r].abort => x.abort,
         UNCHANGED <<operation, bySession, byRun, req, wire, log, deleted>>,
         \/ asked' = asked
         \/ /\ asked' = asked \cup {r} /\ r \in byRun
            /\ x.abort \/ x.state \in {"ending", "over"}
  PROVE  ServerInv'
<1>1. bridge[r] \in Bridges /\ got[r] \in Seq(Nat)
      /\ StreamOK(run[r], bridge[r], Len(got[r]))
  BY DEF ServerType, ServerInv
<1>2. StreamOK(x, bridge[r], Len(got[r]))
  BY <1>1 DEF StreamOK
<1>3. /\ got' = [got EXCEPT ![r] = got[r]] /\ bridge' = [bridge EXCEPT ![r] = bridge[r]]
      /\ log' = log
  BY DEF wire, ServerInv, ServerType
<1> QED
  BY <1>1, <1>2, <1>3, RunMoves

LEMMA CancelRunKeeps ==
  ASSUME ServerInv, NEW r \in Runs, CancelRun(r)
  PROVE  ServerInv'
<1>1. PICK x : x = RequestAbort(run[r])
  OBVIOUS
<1>2. /\ x \in RunRecords /\ x.state = run[r].state /\ x.sent = run[r].sent
      /\ run[r].abort => x.abort
      /\ x.state \in {"starting", "live"} => x.abort
  BY <1>1, AbortKeeps DEF ServerInv, ServerType
<1>3. r \in byRun /\ run[r].state \in Working
  BY DEF CancelRun, ServerInv, Tables
<1>4. x.abort \/ x.state \in {"ending", "over"}
  BY <1>2, <1>3 DEF Working
<1> QED
  BY <1>1, <1>2, <1>3, <1>4, RunOnly DEF CancelRun

LEMMA TimeoutKeeps ==
  ASSUME ServerInv, NEW r \in Runs, Timeout(r)
  PROVE  ServerInv'
<1>1. PICK x : x = RequestAbort(run[r])
  OBVIOUS
<1>2. /\ x \in RunRecords /\ x.state = run[r].state /\ x.sent = run[r].sent
      /\ run[r].abort => x.abort
  BY <1>1, AbortKeeps DEF ServerInv, ServerType
<1> QED
  BY <1>1, <1>2, RunOnly DEF Timeout, tables

LEMMA SignalFiresKeeps ==
  ASSUME ServerInv, NEW r \in Runs, SignalFires(r)
  PROVE  ServerInv'
<1>1. PICK x : x = [run[r] EXCEPT !.signal = TRUE]
  OBVIOUS
<1>2. /\ x \in RunRecords /\ x.state = run[r].state /\ x.sent = run[r].sent
      /\ x.abort = run[r].abort
  BY <1>1 DEF ServerInv, ServerType, RunRecords
<1>3. PICK y : y = IF x.linked THEN RequestAbort(x) ELSE x
  OBVIOUS
<1>4. /\ y \in RunRecords /\ y.state = run[r].state /\ y.sent = run[r].sent
      /\ run[r].abort => y.abort
  BY <1>2, <1>3, AbortKeeps
<1>5. run' = [run EXCEPT ![r] = y]
  BY <1>1, <1>3, Zenon DEF SignalFires
<1>6. UNCHANGED <<operation, bySession, byRun, asked, req, wire, log, deleted>>
  BY DEF SignalFires, tables
<1> QED
  BY <1>4, <1>5, <1>6, RunOnly

\* The application forgets a run that is over.
LEMMA CleanupKeeps ==
  ASSUME ServerInv, NEW r \in Runs, Cleanup(r)
  PROVE  ServerInv'
<1> USE DEF ServerInv
<1>1. /\ r \in byRun /\ run[r].state = "over" /\ byRun' = byRun \ {r}
      /\ asked' = asked \ {r} /\ bySession = r /\ bySession' = NoRun
      /\ UNCHANGED <<operation, req, run, bridge, got, log, deleted>>
  BY DEF Cleanup, wire, Tables
<1>2. ServerType'
  BY <1>1 DEF ServerType
<1>3. Reservation' /\ Progress'
  BY <1>1 DEF Reservation, Progress
<1>4. byRun = {r} /\ Owned' = Owned /\ r \notin Owned
  BY <1>1 DEF Tables, Owned
<1>5. Tables'
  BY <1>1, <1>4 DEF Tables
<1>6. Alone' /\ AskedOK'
  BY <1>1, <1>4 DEF Alone, AskedOK, OpenRuns
<1>7. \A p \in Runs : StreamOK(run[p], bridge[p], Len(got[p]))'
  BY <1>1
<1> QED
  BY <1>2, <1>3, <1>5, <1>6, <1>7

LEMMA SameOrder ==
  ASSUME NEW b, NEW d, d.queue = b.queue, d.waiting = b.waiting
  PROVE  \A g, n : InOrder(b, g, n) => InOrder(d, g, n)
  BY Zenon DEF InOrder

LEMMA CloseOrder ==
  ASSUME NEW b \in Bridges
  PROVE  LET d == Close(b)
         IN  /\ d \in Bridges /\ d.left = b.left /\ d.bound = b.bound
             /\ d.queue = b.queue /\ d.waiting = b.waiting
             /\ \/ d.state = b.state
                \/ b.state \in {"open", "closing"} /\ d.state = "closing"
                \/ b.state \in {"open", "closing"} /\ d.state = "closed"
                   /\ d.waiting = << >>
<1> PICK s : s = IF b.state = "open" THEN "closing" ELSE b.state
  OBVIOUS
<1>1. PICK e : e = [b EXCEPT !.state = s]
  OBVIOUS
<1>2. s \in BridgeStates
  BY DEF Bridges, BridgeStates
<1>3. /\ e \in Bridges /\ e.left = b.left /\ e.bound = b.bound
      /\ e.queue = b.queue /\ e.waiting = b.waiting /\ e.state = s
  BY <1>1, <1>2 DEF Bridges
<1>4. Close(b) = FinishIfReady(e)
  BY <1>1, Zenon DEF Close
<1>5. PICK f : f = [e EXCEPT !.state = "closed"]
  OBVIOUS
<1>6. /\ f \in Bridges /\ f.left = b.left /\ f.bound = b.bound
      /\ f.queue = b.queue /\ f.waiting = b.waiting /\ f.state = "closed"
  BY <1>3, <1>5 DEF Bridges, BridgeStates
<1>7. \/ Close(b) = e
      \/ Close(b) = f /\ e.state = "closing" /\ e.waiting = << >>
  BY <1>4, <1>5 DEF FinishIfReady
<1> QED
  BY <1>3, <1>6, <1>7

LEMMA RejectOrder ==
  ASSUME NEW b \in Bridges
  PROVE  LET d == RejectWaiting(b)
         IN  /\ d \in Bridges /\ d.left = b.left /\ d.bound = b.bound
             /\ d.queue = b.queue /\ d.waiting = << >> /\ d.state = b.state
<1> DEFINE W == [line : WireLines, producer : Producers]
<1>1. PICK F : F = b.failed \cup {b.waiting[i].producer : i \in DOMAIN b.waiting}
  OBVIOUS
<1>2. F \subseteq Producers
  <2>1. b.waiting \in Seq(W) /\ b.failed \subseteq Producers
    BY DEF Bridges
  <2>2. \A i \in DOMAIN b.waiting : b.waiting[i] \in W
    <3> HIDE DEF W
    <3> QED
      BY <2>1
  <2> QED
    BY <1>1, <2>1, <2>2
<1>3. PICK n \in Seq(W) : n = << >>
  <2>1. << >> \in Seq(W)
    OBVIOUS
  <2> QED
    BY <2>1
<1>4. PICK e : e = [b EXCEPT !.waiting = n]
  OBVIOUS
<1>5. /\ e \in Bridges /\ e.left = b.left /\ e.bound = b.bound
      /\ e.queue = b.queue /\ e.waiting = n /\ e.state = b.state
  BY <1>4 DEF Bridges
<1>6. PICK f : f = [e EXCEPT !.failed = F]
  OBVIOUS
<1>7. /\ f \in Bridges /\ f.left = b.left /\ f.bound = b.bound
      /\ f.queue = b.queue /\ f.waiting = n /\ f.state = b.state
  BY <1>2, <1>5, <1>6 DEF Bridges
<1>8. RejectWaiting(b) = f
  BY <1>1, <1>3, <1>4, <1>6 DEF RejectWaiting
<1> QED
  BY <1>3, <1>7, <1>8

LEMMA FailOrder ==
  ASSUME NEW b \in Bridges
  PROVE  LET d == Fail(b)
         IN  /\ d \in Bridges /\ d.left = b.left /\ d.bound = b.bound
             /\ \/ d = b /\ b.state \in Over
                \/ b.state \notin Over /\ d.state = "failed"
                   /\ d.queue = << >> /\ d.waiting = << >>
<1>1. CASE b.state \in Over
  BY <1>1 DEF Fail
<1>2. CASE b.state \notin Over
  <2>1. PICK e : e = RejectWaiting(b)
    OBVIOUS
  <2>2. PICK f : f = [e EXCEPT !.state = "failed"]
    OBVIOUS
  <2>3. PICK q \in Seq(WireLines) : q = << >>
    <3>1. << >> \in Seq(WireLines)
      OBVIOUS
    <3> QED
      BY <3>1
  <2>4. PICK h : h = [f EXCEPT !.queue = q]
    OBVIOUS
  <2>5. /\ e \in Bridges /\ e.left = b.left /\ e.bound = b.bound
        /\ e.waiting = << >>
    BY <2>1, RejectOrder
  <2>6. /\ f \in Bridges /\ f.left = b.left /\ f.bound = b.bound
        /\ f.waiting = << >> /\ f.state = "failed"
    BY <2>2, <2>5 DEF Bridges, BridgeStates
  <2>7. /\ h \in Bridges /\ h.left = b.left /\ h.bound = b.bound
        /\ h.waiting = << >> /\ h.state = "failed" /\ h.queue = q
    BY <2>4, <2>6 DEF Bridges
  <2>8. Fail(b) = h
    BY <1>2, <2>1, <2>2, <2>3, <2>4 DEF Fail
  <2> QED
    BY <1>2, <2>3, <2>7, <2>8
<1> QED
  BY <1>1, <1>2

LEMMA CancelOrder ==
  ASSUME NEW b \in Bridges
  PROVE  LET d == Cancel(b)
         IN  /\ d \in Bridges /\ d.left /\ d.bound = b.bound /\ d.queue = << >>
             /\ \/ b.state = "closed" /\ d.state = "closed"
                   /\ d.waiting = b.waiting
                \/ b.state # "closed" /\ d.state = "cancelled"
                   /\ d.waiting = << >>
<1> DEFINE Left(e) ==
        LET d == Leave(e)
        IN  /\ d \in Bridges /\ d.left /\ d.bound = e.bound /\ d.queue = << >>
            /\ d.state = e.state /\ d.waiting = e.waiting
<1>1. ASSUME NEW e \in Bridges PROVE Left(e)
  <2>1. PICK f : f = [e EXCEPT !.left = TRUE]
    OBVIOUS
  <2>2. PICK q \in Seq(WireLines) : q = << >>
    <3>1. << >> \in Seq(WireLines)
      OBVIOUS
    <3> QED
      BY <3>1
  <2>3. PICK h : h = [f EXCEPT !.queue = q]
    OBVIOUS
  <2>4. /\ f \in Bridges /\ f.left /\ f.bound = e.bound /\ f.state = e.state
        /\ f.waiting = e.waiting
    BY <2>1 DEF Bridges
  <2>5. /\ h \in Bridges /\ h.left /\ h.bound = e.bound /\ h.state = e.state
        /\ h.waiting = e.waiting /\ h.queue = q
    BY <2>3, <2>4 DEF Bridges
  <2>6. Leave(e) = h
    BY <2>1, <2>2, <2>3 DEF Leave
  <2> QED
    BY <2>2, <2>5, <2>6
<1>2. CASE b.state = "closed"
  <2>1. Cancel(b) = Leave(b) /\ Left(b)
    BY <1>1, <1>2 DEF Cancel
  <2> QED
    BY <1>2, <2>1
<1>3. CASE b.state # "closed"
  <2>1. PICK e : e = RejectWaiting(b)
    OBVIOUS
  <2>2. e \in Bridges /\ e.bound = b.bound /\ e.waiting = << >>
    BY <2>1, RejectOrder
  <2>3. PICK f : f = Leave(e)
    OBVIOUS
  <2>4. /\ f \in Bridges /\ f.left /\ f.bound = b.bound /\ f.queue = << >>
        /\ f.waiting = << >>
    BY <1>1, <2>2, <2>3
  <2>5. PICK h : h = [f EXCEPT !.state = "cancelled"]
    OBVIOUS
  <2>6. /\ h \in Bridges /\ h.left /\ h.bound = b.bound /\ h.queue = << >>
        /\ h.waiting = << >> /\ h.state = "cancelled"
    BY <2>4, <2>5 DEF Bridges, BridgeStates
  <2>7. Cancel(b) = h
    BY <1>3, <2>1, <2>3, <2>5 DEF Cancel
  <2> QED
    BY <1>3, <2>6, <2>7
<1> QED
  BY <1>2, <1>3

\* A step of the stream alone.
LEMMA BridgeOnly ==
  ASSUME ServerInv, NEW r \in Runs, NEW b \in Bridges, NEW g \in Seq(Nat),
         bridge' = [bridge EXCEPT ![r] = b], got' = [got EXCEPT ![r] = g],
         StreamOK(run[r], b, Len(g)),
         UNCHANGED <<operation, bySession, byRun, asked, req, run, log, deleted>>
  PROVE  ServerInv'
<1>1. run[r] \in RunRecords /\ run' = [run EXCEPT ![r] = run[r]]
  BY DEF ServerInv, ServerType
<1> QED
  BY <1>1, RunMoves

LEMMA MovesOK ==
  ASSUME NEW x \in RunRecords, NEW b \in Bridges, NEW d, NEW g \in Nat,
         StreamOK(x, b, g), Moves(b, d),
         \/ b.queue = << >> => d.queue = << >>
         \/ b.state \in {"open", "closing"} /\ ~b.left
  PROVE  StreamOK(x, d, g)
  BY DEF StreamOK, Moves, RunRecords

\* A pull of a stream that has ended moves nothing.
LEMMA PullOver ==
  ASSUME NEW b \in Bridges, b.state \notin {"open", "closing"}
  PROVE  Pull(b) = b
  BY DEF Pull

LEMMA StepOver ==
  ASSUME NEW b \in Bridges, NEW d,
         d = StreamStarts(b) \/ d = Pulled(b),
         b.state \notin {"open", "closing"}
  PROVE  d.queue = b.queue
<1>1. PICK e : e = [b EXCEPT !.started = TRUE]
  OBVIOUS
<1>2. e \in Bridges /\ e.state = b.state /\ e.queue = b.queue
  BY <1>1 DEF Bridges
<1>3. StreamStarts(b) = e
  BY <1>1, <1>2, PullOver DEF StreamStarts
<1>4. PICK f : f = [b EXCEPT !.pulling = FALSE]
  OBVIOUS
<1>5. f \in Bridges /\ f.state = b.state /\ f.queue = b.queue
  BY <1>4 DEF Bridges
<1>6. PICK h : h = [f EXCEPT !.again = FALSE]
  OBVIOUS
<1>7. h \in Bridges /\ h.state = b.state /\ h.queue = b.queue
  BY <1>5, <1>6 DEF Bridges
<1>8. Pulled(b) = h
  BY <1>4, <1>6, <1>7, PullOver DEF Pulled
<1> QED
  BY <1>2, <1>3, <1>7, <1>8

LEMMA StreamStepKeeps ==
  ASSUME ServerInv, NEW r \in Runs, StreamStep(r)
  PROVE  ServerInv'
<1> USE DEF ServerInv
<1>1. /\ bridge[r] \in Bridges /\ got[r] \in Seq(Nat) /\ run[r] \in RunRecords
      /\ StreamOK(run[r], bridge[r], Len(got[r])) /\ Len(got[r]) \in Nat
  BY DEF ServerType
<1>2. PICK d : /\ d = StreamStarts(bridge[r]) \/ d = Pulled(bridge[r])
               /\ bridge' = [bridge EXCEPT ![r] = d]
  BY DEF StreamStep
<1>3. Moves(bridge[r], d)
  BY <1>1, <1>2, StartMoves, PulledMoves
<1>4. bridge[r].state \in {"open", "closing"} \/ d.queue = bridge[r].queue
  BY <1>1, <1>2, StepOver
<1>5. StreamOK(run[r], d, Len(got[r]))
  <2>1. \/ bridge[r].queue = << >> => d.queue = << >>
        \/ bridge[r].state \in {"open", "closing"} /\ ~bridge[r].left
    <3>1. bridge[r].left => bridge[r].state \in {"closed", "cancelled"}
      BY <1>1 DEF StreamOK
    <3> QED
      BY <1>4, <3>1
  <2> QED
    BY <1>1, <1>3, <2>1, MovesOK
<1>6. /\ got' = [got EXCEPT ![r] = got[r]] /\ d \in Bridges
      /\ UNCHANGED <<operation, bySession, byRun, asked, req, run, log, deleted>>
  BY <1>3 DEF StreamStep, tables, ServerType, Moves
<1> QED
  BY <1>1, <1>2, <1>5, <1>6, BridgeOnly

LEMMA ReadKeeps ==
  ASSUME ServerInv, NEW r \in Runs, Read(r)
  PROVE  ServerInv'
<1> USE DEF ServerInv
<1>1. /\ bridge[r] \in Bridges /\ got[r] \in Seq(Nat) /\ run[r] \in RunRecords
      /\ StreamOK(run[r], bridge[r], Len(got[r])) /\ Len(got[r]) \in Nat
      /\ bridge[r].queue # << >>
  BY DEF ServerType, Read
<1>2. PICK d : d = Take(bridge[r])
  OBVIOUS
<1>3. PICK e : e = Head(bridge[r].queue).event
  OBVIOUS
<1>4. e \in Nat
  <2>1. bridge[r].queue \in Seq(WireLines)
    BY <1>1 DEF Bridges
  <2>2. Head(bridge[r].queue) \in WireLines
    BY <1>1, <2>1
  <2> QED
    BY <1>3, <2>2 DEF WireLines
<1>5. PICK g : g = Append(got[r], e)
  OBVIOUS
<1>6. g \in Seq(Nat) /\ Len(g) = Len(got[r]) + 1
  BY <1>1, <1>4, <1>5
<1>7. /\ d \in Bridges /\ d.left = bridge[r].left /\ d.bound = bridge[r].bound
      /\ \/ d.state = bridge[r].state
            /\ (bridge[r].waiting = << >> => d.waiting = << >>)
         \/ bridge[r].state = "closing" /\ d.state = "closed"
            /\ d.waiting = << >>
      /\ \A m, n \in Nat : InOrder(bridge[r], m, n) => InOrder(d, m + 1, n)
  BY <1>1, <1>2, TakeOrder
<1>8. run[r].sent \in Nat
  BY <1>1 DEF RunRecords
<1>9. ~bridge[r].left /\ bridge[r].state # "failed"
  BY <1>1 DEF StreamOK
<1>10. StreamOK(run[r], d, Len(g))
  BY <1>1, <1>6, <1>7, <1>8, <1>9 DEF StreamOK
<1>11. /\ got' = [got EXCEPT ![r] = g] /\ bridge' = [bridge EXCEPT ![r] = d]
       /\ UNCHANGED <<operation, bySession, byRun, asked, req, run, log, deleted>>
  BY <1>2, <1>3, <1>5 DEF Read, tables
<1> QED
  BY <1>6, <1>7, <1>10, <1>11, BridgeOnly

LEMMA LeaveStreamKeeps ==
  ASSUME ServerInv, NEW r \in Runs, LeaveStream(r)
  PROVE  ServerInv'
<1> USE DEF ServerInv
<1>1. /\ bridge[r] \in Bridges /\ got[r] \in Seq(Nat) /\ run[r] \in RunRecords
      /\ StreamOK(run[r], bridge[r], Len(got[r])) /\ Len(got[r]) \in Nat
      /\ bridge[r].bound /\ Readable(bridge[r])
  BY DEF ServerType, LeaveStream
<1>2. PICK d : d = Cancel(bridge[r])
  OBVIOUS
<1>3. PICK x : x = IF bridge[r].state \in Over THEN run[r] ELSE RequestAbort(run[r])
  OBVIOUS
<1>4. /\ x \in RunRecords /\ x.state = run[r].state /\ x.sent = run[r].sent
      /\ run[r].abort => x.abort
      /\ bridge[r].state \notin Over /\ x.state \in {"starting", "live"} =>
            x.abort
  BY <1>1, <1>3, AbortKeeps
<1>5. /\ d \in Bridges /\ d.left /\ d.bound = bridge[r].bound /\ d.queue = << >>
      /\ \/ bridge[r].state = "closed" /\ d.state = "closed"
            /\ d.waiting = bridge[r].waiting
         \/ bridge[r].state # "closed" /\ d.state = "cancelled"
            /\ d.waiting = << >>
  BY <1>1, <1>2, CancelOrder
<1>6. StreamOK(x, d, Len(got[r]))
  BY <1>1, <1>4, <1>5 DEF StreamOK, Readable, Over, Working
<1>7. /\ run' = [run EXCEPT ![r] = x] /\ bridge' = [bridge EXCEPT ![r] = d]
      /\ got' = [got EXCEPT ![r] = got[r]] /\ log' = log
      /\ UNCHANGED <<operation, bySession, byRun, asked, req, deleted>>
  BY <1>2, <1>3 DEF LeaveStream, tables, ServerType
<1> QED
  BY <1>1, <1>4, <1>5, <1>6, <1>7, RunMoves

LEMMA TellBridgeKeeps ==
  ASSUME ServerInv, NEW r \in Runs, TellBridge(r)
  PROVE  ServerInv'
<1> USE DEF ServerInv
<1>1. /\ bridge[r] \in Bridges /\ got[r] \in Seq(Nat) /\ run[r] \in RunRecords
      /\ StreamOK(run[r], bridge[r], Len(got[r])) /\ Len(got[r]) \in Nat
      /\ bridge[r].bound /\ run[r].state = "over"
  BY DEF ServerType, TellBridge
<1>2. PICK x : x = [run[r] EXCEPT !.told = TRUE]
  OBVIOUS
<1>3. /\ x \in RunRecords /\ x.state = "over" /\ x.sent = run[r].sent
      /\ x.abort = run[r].abort
  BY <1>1, <1>2 DEF RunRecords
<1>4. PICK d : d = IF run[r].outcome = "resolved" THEN Close(bridge[r])
                   ELSE Fail(bridge[r])
  OBVIOUS
<1>5. d \in Bridges /\ StreamOK(x, d, Len(got[r]))
  <2>1. CASE d = Close(bridge[r])
    <3>1. /\ d \in Bridges /\ d.left = bridge[r].left
          /\ d.bound = bridge[r].bound
          /\ d.queue = bridge[r].queue /\ d.waiting = bridge[r].waiting
          /\ \/ d.state = bridge[r].state
             \/ bridge[r].state \in {"open", "closing"} /\ d.state = "closing"
             \/ bridge[r].state \in {"open", "closing"} /\ d.state = "closed"
                /\ d.waiting = << >>
      BY <1>1, <2>1, CloseOrder
    <3>2. InOrder(bridge[r], Len(got[r]), run[r].sent) =>
             InOrder(d, Len(got[r]), x.sent)
      BY <1>3, <3>1, SameOrder
    <3> QED
      BY <1>1, <1>3, <3>1, <3>2 DEF StreamOK, Working
  <2>2. CASE d = Fail(bridge[r])
    <3>1. /\ d \in Bridges /\ d.left = bridge[r].left
          /\ d.bound = bridge[r].bound
          /\ \/ d = bridge[r] /\ bridge[r].state \in Over
             \/ bridge[r].state \notin Over /\ d.state = "failed"
                /\ d.queue = << >> /\ d.waiting = << >>
      BY <1>1, <2>2, FailOrder
    <3> QED
      BY <1>1, <1>3, <3>1 DEF StreamOK, Working, Over
  <2> QED
    BY <1>4, <2>1, <2>2
<1>6. /\ run' = [run EXCEPT ![r] = x] /\ bridge' = [bridge EXCEPT ![r] = d]
      /\ got' = [got EXCEPT ![r] = got[r]] /\ log' = log
      /\ UNCHANGED <<operation, bySession, byRun, asked, req, deleted>>
  BY <1>2, <1>4, Zenon DEF TellBridge, tables, ServerType
<1> QED
  BY <1>1, <1>3, <1>5, <1>6, RunMoves

LEMMA PublishRejectedKeeps ==
  ASSUME ServerInv, NEW r \in Runs, NEW p \in Producers, PublishRejected(r, p)
  PROVE  ServerInv'
<1> USE DEF ServerInv
<1>1. /\ bridge[r] \in Bridges /\ got[r] \in Seq(Nat) /\ run[r] \in RunRecords
      /\ StreamOK(run[r], bridge[r], Len(got[r]))
  BY DEF ServerType
<1>2. PICK d : d = [bridge[r] EXCEPT !.failed = @ \ {p}]
  OBVIOUS
<1>3. /\ d \in Bridges /\ d.left = bridge[r].left /\ d.bound = bridge[r].bound
      /\ d.state = bridge[r].state /\ d.queue = bridge[r].queue
      /\ d.waiting = bridge[r].waiting
  BY <1>1, <1>2 DEF Bridges
<1>4. PICK x : x = SinkFailed(run[r])
  OBVIOUS
<1>5. /\ x \in RunRecords /\ x.state = run[r].state /\ x.sent = run[r].sent
      /\ run[r].abort => x.abort
  BY <1>1, <1>4, SinkFailedKeeps
<1>6. StreamOK(x, d, Len(got[r]))
  <2>1. InOrder(bridge[r], Len(got[r]), run[r].sent) =>
           InOrder(d, Len(got[r]), x.sent)
    BY <1>3, <1>5, SameOrder
  <2> QED
    BY <1>1, <1>3, <1>5, <2>1 DEF StreamOK
<1>7. /\ run' = [run EXCEPT ![r] = x] /\ bridge' = [bridge EXCEPT ![r] = d]
      /\ got' = [got EXCEPT ![r] = got[r]] /\ log' = log
      /\ UNCHANGED <<operation, bySession, byRun, asked, req, deleted>>
  BY <1>2, <1>4 DEF PublishRejected, tables, ServerType
<1> QED
  BY <1>1, <1>3, <1>5, <1>6, <1>7, RunMoves

-----------------------------------------------------------------------------
(* The start of a run, and answers.                                        *)

LEMMA NewOver ==
  ASSUME NEW x, x = [NoRecord EXCEPT !.state = "over"]
  PROVE  x \in RunRecords /\ x.state = "over" /\ x.sent = 0
  BY DEF NoRecord, RunRecords

\* The run of a request goes on together with the request.
LEMMA StartAdvances ==
  ASSUME ServerInv, NEW c \in Callers, NEW r \in Runs, NEW q \in Requests,
         NEW x \in RunRecords, NEW b \in Bridges,
         req[c].kind = "run", req[c].run = r, req[c].holds,
         req[c].step \in {"begin", "started"},
         req' = [req EXCEPT ![c] = q], Reservation',
         run' = [run EXCEPT ![r] = x], bridge' = [bridge EXCEPT ![r] = b],
         StreamOK(x, b, Len(got[r])),
         \/ q.step = "idle" /\ q.kind = "none" /\ ~q.holds /\ x.state = "over"
         \/ q.kind = "run" /\ q.run = r /\ q.step = "started" /\ x.state = "starting"
         \/ q.kind = "run" /\ q.run = r /\ q.step = "register" /\ x.state = "live",
         operation' \in Operations \cup {"none"},
         log' \in [Runs \cup {NoRun} -> {"absent", "open", "ended"}],
         \A p \in (Runs \cup {NoRun}) \ {r} : log'[p] = log[p],
         UNCHANGED <<bySession, byRun, asked, got, deleted>>
  PROVE  ServerInv'
<1> USE DEF ServerInv
<1>1. \A d \in Callers : req'[d] = IF d = c THEN q ELSE req[d]
  BY DEF ServerType
<1>2. \A p \in Runs : run'[p] = IF p = r THEN x ELSE run[p]
  BY DEF ServerType
<1>3. ServerType'
  <2>1. /\ req' \in [Callers -> Requests] /\ run' \in [Runs -> RunRecords]
        /\ bridge' \in [Runs -> Bridges]
    BY DEF ServerType
  <2> QED
    BY <2>1 DEF ServerType
<1>4. bySession = NoRun /\ byRun = {} /\ asked = {}
  BY NoRunOutside DEF Reservation, Tables, AskedOK, ServerType
<1>5. run[r].state \in {"asked", "starting"} /\ ~deleted
  BY DEF Progress, Alone
<1>6. \A d \in Callers \ {c} : ~req[d].holds
  BY DEF Reservation
<1>7. Progress'
  <2> SUFFICES ASSUME NEW d \in Callers, req'[d].kind = "run"
               PROVE  /\ req'[d].step \in {"metadata", "lock", "recover", "begin"}
                            => run'[req'[d].run].state = "asked"
                      /\ req'[d].step = "started"
                            => run'[req'[d].run].state = "starting"
                      /\ req'[d].step \in {"register", "bind"}
                            => run'[req'[d].run].state \in Working
    BY DEF Progress
  <2>1. CASE d = c
    BY <1>1, <1>2, <2>1 DEF Working
  <2>2. CASE d # c
    <3>1. req'[d] = req[d] /\ ~req[d].holds /\ req[d].run \in Runs
      BY <1>1, <1>6, <2>2 DEF Reservation, RequestOK
    <3>2. req[d].step \notin Reserving
      BY <3>1 DEF Reservation, RequestOK
    <3>3. req[d].step = "bind" => run[req[d].run].state \in Working
      BY <3>1 DEF Progress
    <3> QED
      BY <1>2, <1>5, <3>1, <3>2, <3>3 DEF Reserving, Working
  <2> QED
    BY <2>1, <2>2
<1>8. Owned' \subseteq {r} /\ (q.step = "idle" => Owned' = {})
  <2>1. Owned \subseteq {r}
    BY <1>4, <1>6, NoRunOutside DEF Tables, Reservation, RequestOK, Reserving, Owned
  <2> QED
    BY <1>2, <2>1 DEF Owned
<1>9. Tables'
  BY <1>1, <1>4, <1>8 DEF Tables
<1>10. \A d \in Callers : ~(req[d].step = "page" /\ req[d].run = NoRun)
  BY <1>6 DEF Reservation, RequestOK
<1>11. Alone'
  BY <1>1, <1>5, <1>6, <1>10 DEF Alone
<1>12. AskedOK'
  BY <1>4 DEF AskedOK
<1>13. \A p \in Runs : StreamOK(run[p], bridge[p], Len(got[p]))'
  <2> SUFFICES ASSUME NEW p \in Runs
               PROVE  StreamOK(run'[p], bridge'[p], Len(got[p]))
    OBVIOUS
  <2>1. CASE p = r
    BY <1>2, <2>1 DEF ServerType
  <2>2. CASE p # r
    BY <1>2, <2>2 DEF ServerType
  <2> QED
    BY <2>1, <2>2
<1> QED
  BY <1>3, <1>7, <1>9, <1>11, <1>12, <1>13

LEMMA StartedRecord ==
  ASSUME NEW z \in RunRecords, NEW x,
         x = [z EXCEPT !.state = "starting", !.linked = TRUE, !.sink = TRUE]
  PROVE  /\ x \in RunRecords /\ x.state = "starting" /\ x.sent = z.sent
         /\ x.abort = z.abort
<1>1. PICK u : u = [z EXCEPT !.state = "starting"]
  OBVIOUS
<1>2. u \in RunRecords /\ u.state = "starting" /\ u.sent = z.sent
      /\ u.abort = z.abort
  BY <1>1 DEF RunRecords
<1>3. PICK v : v = [u EXCEPT !.linked = TRUE]
  OBVIOUS
<1>4. v \in RunRecords /\ v.state = "starting" /\ v.sent = z.sent
      /\ v.abort = z.abort
  BY <1>2, <1>3 DEF RunRecords
<1>5. PICK w : w = [v EXCEPT !.sink = TRUE]
  OBVIOUS
<1>6. w \in RunRecords /\ w.state = "starting" /\ w.sent = z.sent
      /\ w.abort = z.abort
  BY <1>4, <1>5 DEF RunRecords
<1>7. x = w
  BY <1>1, <1>3, <1>5, Zenon
<1> QED
  BY <1>6, <1>7

LEMMA BeginKeeps ==
  ASSUME ServerInv, NEW c \in Callers, Begin(c)
  PROVE  ServerInv'
<1> USE DEF ServerInv
<1>1. /\ req[c].step = "begin" /\ req[c].holds /\ req[c].kind = "run"
      /\ UNCHANGED <<bySession, byRun, asked, got, deleted>>
  BY DEF Begin, At, same, Reservation, RequestOK, Reserving
<1>2. PICK r \in Runs : r = req[c].run
  BY <1>1 DEF Reservation, RequestOK
<1>3. run[r].state = "asked"
  BY <1>1, <1>2 DEF Progress
<1>4. /\ bridge[r] \in Bridges /\ run[r] \in RunRecords
      /\ StreamOK(run[r], bridge[r], Len(got[r])) /\ Len(got[r]) \in Nat
  BY DEF ServerType
<1>5. CASE /\ log' = [log EXCEPT ![r] = "open"]
           /\ Deliver(r, [run[r] EXCEPT !.state = "starting", !.linked = TRUE,
                                        !.sink = TRUE], Handler, 1)
           /\ Goes(c, "started") /\ UNCHANGED operation
  <2>1. PICK x : x = [run[r] EXCEPT !.state = "starting", !.linked = TRUE,
                                    !.sink = TRUE]
    OBVIOUS
  <2>2. /\ x \in RunRecords /\ x.state = "starting" /\ x.sent = run[r].sent
        /\ x.abort = run[r].abort
    BY <1>4, <2>1, StartedRecord, Zenon
  <2>3. Deliver(r, x, Handler, 1) /\ Handler \in Producers /\ 1 \in Nat
    BY <1>5, <2>1, ServerAssumption
  <2>4. PICK y \in RunRecords, d \in Bridges :
           /\ run' = [run EXCEPT ![r] = y] /\ bridge' = [bridge EXCEPT ![r] = d]
           /\ y.state = x.state /\ (x.abort => y.abort)
           /\ \/ y.sent = x.sent /\ d = bridge[r]
              \/ /\ y.sent = x.sent + 1 /\ bridge[r].state = "open"
                 /\ d.state = "open" /\ d.left = bridge[r].left
                 /\ d.bound = bridge[r].bound
                 /\ \A g \in Nat : InOrder(bridge[r], g, x.sent) =>
                                      InOrder(d, g, x.sent + 1)
    BY <2>2, <2>3, DeliverKeeps DEF ServerType
  <2>5. StreamOK(y, d, Len(got[r]))
    BY <1>3, <1>4, <2>2, <2>4, DeliverOrder
  <2>6. PICK q : q = [req[c] EXCEPT !.step = "started"]
    OBVIOUS
  <2>7. /\ q \in Requests /\ q.step = "started" /\ q.holds = req[c].holds
        /\ q.kind = req[c].kind /\ q.run = req[c].run
    BY <2>6 DEF ServerType, Requests, Steps
  <2>8. RequestOK(q)
    BY <1>1, <2>7 DEF Reservation, RequestOK, Reserving
  <2>9. req' = [req EXCEPT ![c] = q]
    BY <1>5, <2>6 DEF Goes
  <2>10. Reservation'
    BY <1>1, <1>5, <2>7, <2>8, <2>9, GoesOn DEF ServerType
  <2>11. /\ log' \in [Runs \cup {NoRun} -> {"absent", "open", "ended"}]
         /\ \A p \in (Runs \cup {NoRun}) \ {r} : log'[p] = log[p]
    BY <1>5 DEF ServerType
  <2>12. operation' \in Operations \cup {"none"}
    BY <1>5 DEF ServerType
  <2> QED
    BY <1>1, <1>2, <2>2, <2>4, <2>5, <2>7, <2>9, <2>10, <2>11, <2>12, StartAdvances
<1>6. CASE /\ log' \in {log, [log EXCEPT ![r] = "open"]}
           /\ run' = [run EXCEPT ![r] = [NoRecord EXCEPT !.state = "over"]]
           /\ Return(c) /\ UNCHANGED bridge
  <2>1. PICK x : x = [NoRecord EXCEPT !.state = "over"]
    OBVIOUS
  <2>2. x \in RunRecords /\ x.state = "over" /\ x.sent = 0
    BY <2>1, NewOver
  <2>3. run' = [run EXCEPT ![r] = x] /\ bridge' = [bridge EXCEPT ![r] = bridge[r]]
    BY <1>6, <2>1 DEF ServerType
  <2>4. StreamOK(x, bridge[r], Len(got[r]))
    BY <1>3, <1>4, <2>2 DEF StreamOK, Working
  <2>5. req' = [req EXCEPT ![c] = NoRequest] /\ Release(c)
    BY <1>6 DEF Return
  <2>6. Reservation' /\ operation' \in Operations \cup {"none"}
    BY <1>1, <2>5, NoRequestOK, LetsGo DEF ServerType, Release
  <2>7. /\ log' \in [Runs \cup {NoRun} -> {"absent", "open", "ended"}]
        /\ \A p \in (Runs \cup {NoRun}) \ {r} : log'[p] = log[p]
    BY <1>6 DEF ServerType
  <2> QED
    BY <1>1, <1>2, <1>4, <2>2, <2>3, <2>4, <2>5, <2>6, <2>7, NoRequestOK,
       StartAdvances
<1> QED
  BY <1>2, <1>5, <1>6, Zenon DEF Begin

LEMMA BegunKeeps ==
  ASSUME ServerInv, NEW c \in Callers, Begun(c)
  PROVE  ServerInv'
<1> USE DEF ServerInv
<1>1. /\ req[c].step = "started" /\ req[c].holds /\ req[c].kind = "run"
      /\ UNCHANGED <<operation, bySession, byRun, asked, bridge, got, log, deleted>>
  BY DEF Begun, At, tables, wire, Reservation, RequestOK, Reserving
<1>2. PICK r \in Runs : r = req[c].run
  BY <1>1 DEF Reservation, RequestOK
<1>3. run[r].state = "starting"
  BY <1>1, <1>2 DEF Progress
<1>4. /\ bridge[r] \in Bridges /\ run[r] \in RunRecords
      /\ StreamOK(run[r], bridge[r], Len(got[r]))
  BY DEF ServerType
<1>5. PICK x : x = [run[r] EXCEPT !.state = "live"]
  OBVIOUS
<1>6. /\ x \in RunRecords /\ x.state = "live" /\ x.sent = run[r].sent
      /\ x.abort = run[r].abort
  BY <1>4, <1>5 DEF RunRecords
<1>7. StreamOK(x, bridge[r], Len(got[r]))
  BY <1>3, <1>4, <1>6 DEF StreamOK, Working
<1>8. PICK q : q = [req[c] EXCEPT !.step = "register"]
  OBVIOUS
<1>9. /\ q \in Requests /\ q.step = "register" /\ q.holds = req[c].holds
      /\ q.kind = req[c].kind /\ q.run = req[c].run
  BY <1>8 DEF ServerType, Requests, Steps
<1>10. RequestOK(q)
  BY <1>1, <1>9 DEF Reservation, RequestOK, Reserving
<1>11. req' = [req EXCEPT ![c] = q] /\ run' = [run EXCEPT ![r] = x]
       /\ bridge' = [bridge EXCEPT ![r] = bridge[r]]
  BY <1>1, <1>2, <1>5, <1>8 DEF Begun, Goes, ServerType
<1>12. Reservation'
  BY <1>1, <1>9, <1>10, <1>11, GoesOn DEF ServerType
<1>13. /\ log' \in [Runs \cup {NoRun} -> {"absent", "open", "ended"}]
       /\ \A p \in (Runs \cup {NoRun}) \ {r} : log'[p] = log[p]
       /\ operation' \in Operations \cup {"none"}
  BY <1>1 DEF ServerType
<1>14. q.kind = "run" /\ q.run = r /\ q.step = "register" /\ x.state = "live"
  BY <1>1, <1>2, <1>6, <1>9
<1>15. UNCHANGED <<bySession, byRun, asked, got, deleted>>
  BY <1>1
<1>16. req[c].step = "started" /\ req[c].holds /\ req[c].kind = "run"
  BY <1>1
<1> QED
  BY <1>2, <1>4, <1>6, <1>7, <1>9, <1>11, <1>12, <1>13, <1>14, <1>15, <1>16,
     StartAdvances

LEMMA RegisterKeeps ==
  ASSUME ServerInv, NEW c \in Callers, Register(c)
  PROVE  ServerInv'
<1> USE DEF ServerInv
<1>1. /\ req[c].step = "register" /\ req[c].holds /\ req[c].kind = "run"
      /\ UNCHANGED <<asked, run, bridge, got, log, deleted>>
  BY DEF Register, At, wire, Reservation, RequestOK, Reserving
<1>2. PICK r \in Runs : r = req[c].run
  BY <1>1 DEF Reservation, RequestOK
<1>3. run[r].state \in Working /\ bySession = NoRun /\ byRun = {}
  BY <1>1, <1>2, NoRunOutside DEF Progress, Reservation, Tables, ServerType
<1>4. PICK q : q = [req[c] EXCEPT !.step = "bind", !.holds = FALSE]
  OBVIOUS
<1>5. /\ q \in Requests /\ q.step = "bind" /\ q.holds = FALSE
      /\ q.kind = "run" /\ q.run = r
  <2>1. PICK u : u = [req[c] EXCEPT !.step = "bind"]
    OBVIOUS
  <2>2. /\ u \in Requests /\ u.step = "bind" /\ u.kind = "run" /\ u.run = r
    BY <1>1, <1>2, <2>1 DEF ServerType, Requests, Steps
  <2>3. q = [u EXCEPT !.holds = FALSE]
    BY <1>4, <2>1, Zenon
  <2> QED
    BY <2>2, <2>3 DEF Requests
<1>6. RequestOK(q)
  BY <1>5 DEF RequestOK, Reserving
<1>7. /\ req' = [req EXCEPT ![c] = q] /\ Release(c)
      /\ byRun' = {r} /\ bySession' = r
  <2>1. [req EXCEPT ![c].step = "bind", ![c].holds = FALSE] = [req EXCEPT ![c] = q]
    BY <1>4 DEF ServerType
  <2> QED
    BY <1>2, <1>3, <2>1 DEF Register
<1>8. Reservation'
  BY <1>1, <1>5, <1>6, <1>7, LetsGo DEF ServerType
<1>9. \A d \in Callers : req'[d] = IF d = c THEN q ELSE req[d]
  BY <1>7 DEF ServerType
<1>10. ServerType'
  <2>1. req' \in [Callers -> Requests] /\ operation' \in Operations \cup {"none"}
    BY <1>5, <1>7 DEF ServerType, Release
  <2> QED
    BY <1>1, <1>7, <2>1 DEF ServerType
<1>11. Progress'
  BY <1>1, <1>3, <1>5, <1>9 DEF Progress
<1>12. Owned' = Owned /\ OpenRuns' = OpenRuns
  BY <1>1 DEF Owned, OpenRuns
<1>13. Owned \subseteq {r}
  BY <1>1, <1>2, <1>3, NoRunOutside DEF Owned, Tables, Reservation, RequestOK, Reserving
<1>14. Tables'
  BY <1>1, <1>3, <1>7, <1>12, <1>13 DEF Tables
<1>15. Alone'
  BY <1>1, <1>5, <1>9, <1>12 DEF Alone
<1>16. AskedOK'
  BY <1>1, <1>3, <1>7 DEF AskedOK
<1> QED
  BY <1>1, <1>8, <1>10, <1>11, <1>14, <1>15, <1>16

\* A request that holds nothing returns or goes on, while its run, or the run
\* it speaks about, takes a step of its own.
LEMMA WithRun ==
  ASSUME ServerInv, NEW c \in Callers, NEW r \in Runs, NEW q \in Requests,
         NEW x \in RunRecords, NEW b \in Bridges,
         req[c].step \in {"idle", "bind"},
         q.step \in {"idle", "publish"}, q.holds = FALSE, RequestOK(q),
         q.kind # "run",
         req' = [req EXCEPT ![c] = q],
         run' = [run EXCEPT ![r] = x], bridge' = [bridge EXCEPT ![r] = b],
         StreamOK(x, b, Len(got[r])), x.state = run[r].state,
         run[r].abort => x.abort,
         UNCHANGED <<operation, bySession, byRun, asked, got, log, deleted>>
  PROVE  ServerInv'
<1> USE DEF ServerInv
<1>1. \A d \in Callers : req'[d] = IF d = c THEN q ELSE req[d]
  BY DEF ServerType
<1>2. \A p \in Runs : run'[p] = IF p = r THEN x ELSE run[p]
  BY DEF ServerType
<1>3. ServerType'
  <2>1. /\ req' \in [Callers -> Requests] /\ run' \in [Runs -> RunRecords]
        /\ bridge' \in [Runs -> Bridges]
    BY DEF ServerType
  <2> QED
    BY <2>1 DEF ServerType
<1>4. req[c].holds = FALSE
  BY DEF Reservation, RequestOK, Reserving, ServerType, Requests
<1>5. Reservation'
  BY <1>4, GoesOn DEF ServerType
<1>6. \A p \in Runs : run'[p].state = run[p].state
  BY <1>2
<1>7. Progress'
  BY <1>1, <1>6 DEF Progress, Reservation, RequestOK
<1>8. Owned' = Owned /\ OpenRuns' = OpenRuns
  BY <1>6 DEF Owned, OpenRuns
<1>9. Tables'
  <2>1. ASSUME NEW p \in Owned
        PROVE  \/ bySession = p /\ p \in byRun
               \/ \E d \in Callers :
                     req'[d].run = p /\ req'[d].step \in {"started", "register"}
    <3>1. CASE bySession = p /\ p \in byRun
      BY <3>1
    <3>2. ASSUME NEW d \in Callers, req[d].run = p,
                 req[d].step \in {"started", "register"}
          PROVE  req'[d].run = p /\ req'[d].step \in {"started", "register"}
      BY <1>1, <3>2
    <3> QED
      BY <2>1, <3>1, <3>2 DEF Tables
  <2>2. \A p \in byRun : bySession = p /\ run'[p].state \in Working
    BY <1>6 DEF Tables, ServerType
  <2> QED
    BY <1>8, <2>1, <2>2 DEF Tables
<1>10. Alone'
  BY <1>1, <1>8 DEF Alone
<1>11. AskedOK'
  BY <1>2 DEF AskedOK, ServerType
<1>12. \A p \in Runs : StreamOK(run[p], bridge[p], Len(got[p]))'
  <2> SUFFICES ASSUME NEW p \in Runs
               PROVE  StreamOK(run'[p], bridge'[p], Len(got[p]))
    OBVIOUS
  <2>1. CASE p = r
    BY <1>2, <2>1 DEF ServerType
  <2>2. CASE p # r
    BY <1>2, <2>2 DEF ServerType
  <2> QED
    BY <2>1, <2>2
<1> QED
  BY <1>3, <1>5, <1>7, <1>9, <1>10, <1>11, <1>12

LEMMA BindHandleKeeps ==
  ASSUME ServerInv, NEW c \in Callers, BindHandle(c)
  PROVE  ServerInv'
<1> USE DEF ServerInv
<1>1. /\ req[c].step = "bind" /\ req[c].kind = "run" /\ ~req[c].holds
      /\ UNCHANGED <<bySession, byRun, asked, got, log, deleted>>
  BY DEF BindHandle, At, same, Reservation, RequestOK, Reserving
<1>2. PICK r \in Runs : r = req[c].run
  BY <1>1 DEF Reservation, RequestOK
<1>3. run[r].state \in Working
  BY <1>1, <1>2 DEF Progress
<1>4. /\ bridge[r] \in Bridges /\ run[r] \in RunRecords
      /\ StreamOK(run[r], bridge[r], Len(got[r]))
  BY DEF ServerType
<1>5. PICK b : b = [bridge[r] EXCEPT !.bound = TRUE]
  OBVIOUS
<1>6. /\ b \in Bridges /\ b.bound /\ b.left = bridge[r].left
      /\ b.state = bridge[r].state /\ b.queue = bridge[r].queue
      /\ b.waiting = bridge[r].waiting
  BY <1>4, <1>5 DEF Bridges
<1>7. PICK x : x = IF BoundTooLate(bridge[r]) THEN RequestAbort(run[r]) ELSE run[r]
  OBVIOUS
<1>8. /\ x \in RunRecords /\ x.state = run[r].state /\ x.sent = run[r].sent
      /\ run[r].abort => x.abort
  BY <1>4, <1>7, AbortKeeps
<1>9. StreamOK(x, b, Len(got[r]))
  <2>1. InOrder(bridge[r], Len(got[r]), run[r].sent) =>
           InOrder(b, Len(got[r]), x.sent)
    BY <1>6, <1>8, SameOrder
  <2> QED
    BY <1>3, <1>4, <1>6, <1>8, <2>1 DEF StreamOK
<1>10. /\ req' = [req EXCEPT ![c] = NoRequest] /\ UNCHANGED operation
       /\ bridge' = [bridge EXCEPT ![r] = b]
  BY <1>1, <1>2, <1>5 DEF BindHandle, Return, Release
<1>11. run' = [run EXCEPT ![r] = x]
  BY <1>2, <1>4, <1>7 DEF BindHandle, ServerType
<1>12. NoRequest.holds = FALSE /\ NoRequest.kind # "run"
  BY DEF NoRequest
<1> QED
  BY <1>1, <1>6, <1>8, <1>9, <1>10, <1>11, <1>12, NoRequestOK, WithRun

LEMMA DecideKeeps ==
  ASSUME ServerInv, NEW c \in Callers, Decide(c)
  PROVE  ServerInv'
<1> USE DEF ServerInv
<1>1. PICK r \in Owned, size \in Sizes :
         /\ run[r].state = "live"
         /\ Deliver(r, [run[r] EXCEPT !.events = @ + 1], c, size)
         /\ req' = [req EXCEPT ![c] = [NoRequest EXCEPT
                        !.kind = "decide", !.step = "publish", !.run = r]]
  BY DEF Decide
<1>2. /\ r \in Runs /\ req[c].step = "idle"
      /\ UNCHANGED <<operation, bySession, byRun, asked, got, log, deleted>>
  BY DEF Decide, At, tables, Owned
<1>3. /\ bridge[r] \in Bridges /\ run[r] \in RunRecords /\ Len(got[r]) \in Nat
      /\ StreamOK(run[r], bridge[r], Len(got[r]))
  BY <1>2 DEF ServerType
<1>4. PICK x : x = [run[r] EXCEPT !.events = @ + 1]
  OBVIOUS
<1>5. /\ x \in RunRecords /\ x.state = run[r].state /\ x.sent = run[r].sent
      /\ x.abort = run[r].abort
  BY <1>3, <1>4, OneMoreEvent
<1>6. Deliver(r, x, c, size) /\ size \in Nat /\ c \in Producers
  BY <1>1, <1>4, ServerAssumption
<1>7. PICK y \in RunRecords, d \in Bridges :
         /\ run' = [run EXCEPT ![r] = y] /\ bridge' = [bridge EXCEPT ![r] = d]
         /\ y.state = x.state /\ (x.abort => y.abort)
         /\ \/ y.sent = x.sent /\ d = bridge[r]
            \/ /\ y.sent = x.sent + 1 /\ bridge[r].state = "open"
               /\ d.state = "open" /\ d.left = bridge[r].left
               /\ d.bound = bridge[r].bound
               /\ \A g \in Nat : InOrder(bridge[r], g, x.sent) =>
                                    InOrder(d, g, x.sent + 1)
  BY <1>2, <1>5, <1>6, DeliverKeeps DEF ServerType
<1>8. StreamOK(y, d, Len(got[r]))
  BY <1>1, <1>3, <1>5, <1>7, DeliverOrder
<1>9. PICK q : q = [NoRequest EXCEPT
                       !.kind = "decide", !.step = "publish", !.run = r]
  OBVIOUS
<1>10. q = [kind |-> "decide", step |-> "publish", run |-> r, holds |-> FALSE]
  BY <1>9 DEF NoRequest
<1>11. /\ q \in Requests /\ q.step = "publish" /\ q.holds = FALSE
       /\ q.kind = "decide" /\ RequestOK(q)
  BY <1>2, <1>10 DEF Requests, Kinds, Steps, RequestOK, Reserving
<1>12. req' = [req EXCEPT ![c] = q]
  BY <1>1, <1>9, Zenon
<1> QED
  BY <1>2, <1>5, <1>7, <1>8, <1>11, <1>12, WithRun

-----------------------------------------------------------------------------
(* The theorems.                                                           *)

LEMMA ServerSteps == ServerInv /\ [Next]_vars => ServerInv'
<1> SUFFICES ASSUME ServerInv, [Next]_vars PROVE ServerInv'
  OBVIOUS
<1>1. CASE UNCHANGED vars
  BY <1>1 DEF vars, tables, wire, ServerInv, ServerType, Reservation, Progress,
              Tables, Alone, AskedOK, Owned, OpenRuns
<1>2. ASSUME NEW c \in Callers, Call(c) PROVE ServerInv'
  BY <1>2, PostRunKeeps, DeleteKeeps, ReadLiveKeeps, ReadRecoveredKeeps,
     DecideKeeps DEF Call
<1>3. ASSUME NEW c \in Callers, Serve(c) PROVE ServerInv'
  BY <1>3, MetadataKeeps, DeletedKeeps, TakeLockKeeps, RecoverKeeps, PageKeeps,
     BeginKeeps, BegunKeeps, RegisterKeeps, BindHandleKeeps, DecidedKeeps
     DEF Serve
<1>4. ASSUME NEW r \in Runs, RunStep(r) PROVE ServerInv'
  BY <1>4, EmitKeeps, FinishKeeps, CompleteKeeps DEF RunStep
<1>5. ASSUME NEW r \in Runs, Settle(r) PROVE ServerInv'
  BY <1>5, CleanupKeeps, TellBridgeKeeps, StreamStepKeeps, PublishRejectedKeeps
     DEF Settle
<1>6. ASSUME NEW r \in Runs,
             \/ CancelRun(r) \/ Timeout(r) \/ Read(r) \/ LeaveStream(r)
             \/ SignalFires(r)
      PROVE  ServerInv'
  BY <1>6, CancelRunKeeps, TimeoutKeeps, ReadKeeps, LeaveStreamKeeps,
     SignalFiresKeeps
<1> QED
  BY <1>1, <1>2, <1>3, <1>4, <1>5, <1>6 DEF Next

\* The invariant the theorems below rest on.
THEOREM ServerInvariant == Spec => []ServerInv
  BY ServerStarts, ServerSteps, PTL DEF Spec

\* A run the runtime works on is known to the application (application.ts,
\* startRun and register), and a deletion is alone with its session, for any
\* number of requests, runs and events.
THEOREM AlwaysRegistered == Spec => []Registered
<1>1. ServerInv => Registered
  <2> SUFFICES ASSUME ServerInv PROVE Registered
    OBVIOUS
  <2> USE DEF ServerInv
  <2>1. ASSUME NEW r \in Owned
        PROVE  \/ bySession = r /\ r \in byRun
               \/ operation = "starting" /\ \E c \in Callers :
                     req[c].run = r /\ req[c].holds
    <3>1. CASE bySession = r /\ r \in byRun
      BY <3>1
    <3>2. ASSUME NEW c \in Callers, req[c].run = r,
                 req[c].step \in {"started", "register"}
          PROVE  operation = "starting" /\ req[c].holds
      BY <3>2 DEF Reservation, RequestOK, Reserving, OperationOf
    <3> QED
      BY <2>1, <3>1, <3>2 DEF Tables
  <2>2. deleted => Owned = {}
    BY DEF Alone
  <2>3. (\E c \in Callers : At(c, "store")) => Owned = {}
    BY DEF Alone, At, Reservation, RequestOK, Reserving
  <2> QED
    BY <2>1, <2>2, <2>3, Zenon DEF Registered
<1> QED
  BY <1>1, ServerInvariant, PTL

\* Who reads the events of a session without an active run reads a recovered
\* file (application.ts, the events of a session).
THEOREM PagesAreRecovered == Spec => []PagesRecovered
<1>1. ServerInv => PagesRecovered
  BY DEF ServerInv, Alone, PagesRecovered, At
<1> QED
  BY <1>1, ServerInvariant, PTL

\* A cancellation is heard, and a consumer that leaves takes its run with it
\* (application.ts, cancelRun; ndjson.ts, cancel and bindRunHandle).
THEOREM CancelsAreHeard == Spec => []CancelsHeard
<1>1. ServerInv => CancelsHeard
  BY DEF ServerInv, AskedOK, StreamOK, CancelsHeard
<1> QED
  BY <1>1, ServerInvariant, PTL

-----------------------------------------------------------------------------
(* The streams implement EventStreams.                                     *)

\* How the consumer of a bridge sees its stream.
SeenOf(b) ==
    CASE b.state = "closed" /\ b.queue = << >> /\ ~b.left -> "whole"
      [] b.left \/ b.state \in {"failed", "cancelled"} -> "broken"
      [] OTHER -> "open"

ChannelStep == [Channel!Next]_(Channel!vars)

\* Run r comes to n events sent, its bridge to b, its consumer to g.
ChannelTo(r, n, b, g) ==
    /\ \A p \in Runs : run'[p].sent = IF p = r THEN n ELSE run[p].sent
    /\ bridge' = [bridge EXCEPT ![r] = b] /\ got' = [got EXCEPT ![r] = g]

Unseen(r, n, b, g) ==
    n = run[r].sent /\ g = got[r] /\ SeenOf(b) = SeenOf(bridge[r])
Sends(r, n, b, g) ==
    /\ SeenOf(bridge[r]) = "open" /\ SeenOf(b) = "open"
    /\ n = run[r].sent + 1 /\ g = got[r]
Receives(r, n, b, g) ==
    /\ SeenOf(bridge[r]) = "open" /\ n = run[r].sent
    /\ Len(got[r]) < n /\ g = Append(got[r], Len(got[r]) + 1)
    /\ SeenOf(b) = "open" \/ (SeenOf(b) = "whole" /\ Len(g) = n)
Ends(r, n, b, g) ==
    /\ SeenOf(bridge[r]) = "open" /\ n = run[r].sent /\ g = got[r]
    /\ SeenOf(b) = "broken" \/ (SeenOf(b) = "whole" /\ Len(g) = n)

LEMMA StreamEvent ==
  ASSUME ServerInv, NEW r \in Runs, NEW n, NEW b, NEW g, ChannelTo(r, n, b, g),
         \/ Unseen(r, n, b, g) \/ Sends(r, n, b, g)
         \/ Receives(r, n, b, g) \/ Ends(r, n, b, g)
  PROVE  ChannelStep
<1> DEFINE S == [p \in Runs |-> run[p].sent]
           E == [p \in Runs |-> Seen(p)]
           E2 == [p \in Runs |-> Seen(p)']
           S2 == [p \in Runs |-> run'[p].sent]
<1>0. /\ \A p \in Runs : run'[p].sent = IF p = r THEN n ELSE run[p].sent
      /\ bridge' = [bridge EXCEPT ![r] = b] /\ got' = [got EXCEPT ![r] = g]
  BY DEF ChannelTo
<1>1. \A p \in Runs : Seen(p) = SeenOf(bridge[p]) /\ Seen(p)' = SeenOf(bridge'[p])
  BY Zenon DEF Seen, SeenOf
<1>2. /\ got \in [Runs -> Seq(Nat)]
      /\ \A p \in Runs : bridge'[p] = IF p = r THEN b ELSE bridge[p]
  BY <1>0 DEF ServerInv, ServerType
<1>3. E[r] = SeenOf(bridge[r]) /\ S[r] = run[r].sent
  BY <1>1
<1>4. S2 = [S EXCEPT ![r] = n]
  BY <1>0
<1>5. E2 = [E EXCEPT ![r] = SeenOf(b)]
  <2>1. \A p \in Runs : Seen(p)' = IF p = r THEN SeenOf(b) ELSE Seen(p)
    BY <1>1, <1>2
  <2>2. E2 = [p \in Runs |-> IF p = r THEN SeenOf(b) ELSE Seen(p)]
    BY <2>1, Zenon
  <2> QED
    BY <2>2
<1>6. n = run[r].sent => S2 = S
  BY <1>3, <1>4
<1>7. SeenOf(b) = SeenOf(bridge[r]) => E2 = E
  BY <1>3, <1>5
<1>8. g = got[r] => got' = got
  BY <1>0, <1>2
<1>9. got'[r] = g
  BY <1>0, <1>2
<1> HIDE DEF S, E, S2, E2
<1>10. CASE Unseen(r, n, b, g)
  <2>1. S2 = S /\ E2 = E /\ got' = got
    BY <1>6, <1>7, <1>8, <1>10 DEF Unseen
  <2> QED
    BY <2>1 DEF ChannelStep, Channel!vars, S, E, S2, E2
<1>11. CASE Sends(r, n, b, g)
  <2>1. /\ E[r] = "open" /\ S2 = [S EXCEPT ![r] = @ + 1]
        /\ E2 = E /\ got' = got
    BY <1>3, <1>4, <1>7, <1>8, <1>11 DEF Sends
  <2>2. Channel!Send(r)
    BY <2>1 DEF Channel!Send, S, E, S2, E2
  <2> QED
    BY <2>2 DEF ChannelStep, Channel!Next
<1>12. CASE Receives(r, n, b, g)
  <2>1. /\ E[r] = "open" /\ Len(got[r]) < S[r] /\ S2 = S
        /\ got' = [got EXCEPT ![r] = Append(@, Len(@) + 1)]
    BY <1>0, <1>3, <1>6, <1>12 DEF Receives
  <2>2. E2 = E \/ (Len(got'[r]) = S[r] /\ E2 = [E EXCEPT ![r] = "whole"])
    BY <1>3, <1>5, <1>7, <1>9, <1>12 DEF Receives
  <2>3. Channel!Receive(r)
    BY <2>1, <2>2 DEF Channel!Receive, S, E, S2, E2
  <2> QED
    BY <2>3 DEF ChannelStep, Channel!Next
<1>13. CASE Ends(r, n, b, g)
  <2>1. E[r] = "open" /\ S2 = S /\ got' = got
    BY <1>3, <1>6, <1>8, <1>13 DEF Ends
  <2>2. CASE SeenOf(b) = "broken"
    <3>1. Channel!Break(r)
      BY <1>5, <2>1, <2>2 DEF Channel!Break, S, E, S2, E2
    <3> QED
      BY <3>1 DEF ChannelStep, Channel!Next
  <2>3. CASE SeenOf(b) = "whole" /\ Len(g) = n
    <3>1. Len(got[r]) = S[r]
      BY <1>3, <1>13, <2>3 DEF Ends
    <3>2. Channel!Finish(r)
      BY <1>5, <2>1, <2>3, <3>1 DEF Channel!Finish, S, E, S2, E2
    <3> QED
      BY <3>2 DEF ChannelStep, Channel!Next
  <2> QED
    BY <1>13, <2>2, <2>3 DEF Ends
<1> QED
  BY <1>10, <1>11, <1>12, <1>13

LEMMA StreamStutters ==
  ASSUME UNCHANGED <<bridge, got>>,
         \A p \in Runs : run'[p].sent = run[p].sent
  PROVE  ChannelStep
<1>1. \A p \in Runs : Seen(p)' = Seen(p)
  BY DEF Seen
<1>2. [p \in Runs |-> run'[p].sent] = [p \in Runs |-> run[p].sent]
  OBVIOUS
<1>3. [p \in Runs |-> Seen(p)'] = [p \in Runs |-> Seen(p)]
  BY <1>1
<1> QED
  BY <1>2, <1>3 DEF ChannelStep, Channel!vars

\* A delivery sends one event, or none.
LEMMA DeliverStreams ==
  ASSUME ServerInv, NEW r \in Runs, NEW x \in RunRecords,
         x.sent = run[r].sent, NEW p \in Producers, NEW size \in Nat,
         Deliver(r, x, p, size), UNCHANGED got
  PROVE  ChannelStep
<1> USE DEF ServerInv
<1>1. PICK y \in RunRecords, d \in Bridges :
         /\ run' = [run EXCEPT ![r] = y] /\ bridge' = [bridge EXCEPT ![r] = d]
         /\ y.state = x.state /\ (x.abort => y.abort)
         /\ \/ y.sent = x.sent /\ d = bridge[r]
            \/ /\ y.sent = x.sent + 1 /\ bridge[r].state = "open"
               /\ d.state = "open" /\ d.left = bridge[r].left
               /\ d.bound = bridge[r].bound
               /\ \A g \in Nat : InOrder(bridge[r], g, x.sent) =>
                                    InOrder(d, g, x.sent + 1)
  BY DeliverKeeps DEF ServerType
<1>2. PICK n : n = y.sent
  OBVIOUS
<1>3. ChannelTo(r, n, d, got[r])
  BY <1>1, <1>2 DEF ServerType, ChannelTo
<1>4. bridge[r].state = "open" => ~bridge[r].left
  BY DEF StreamOK
<1>5. Unseen(r, n, d, got[r]) \/ Sends(r, n, d, got[r])
  BY <1>1, <1>2, <1>4 DEF SeenOf, Unseen, Sends
<1> QED
  BY <1>3, <1>5, StreamEvent

\* A step of one run that sends nothing, and leaves the stream as it is seen.
LEMMA SeenSame ==
  ASSUME ServerInv, NEW r \in Runs, NEW x, NEW b,
         run' = [run EXCEPT ![r] = x], x.sent = run[r].sent,
         bridge' = [bridge EXCEPT ![r] = b], UNCHANGED got,
         b.state = bridge[r].state, b.left = bridge[r].left,
         b.queue = bridge[r].queue
  PROVE  ChannelStep
<1> PICK n : n = x.sent
  OBVIOUS
<1>1. ChannelTo(r, n, b, got[r])
  BY DEF ServerInv, ServerType, ChannelTo
<1>2. Unseen(r, n, b, got[r])
  BY DEF SeenOf, Unseen
<1> QED
  BY <1>1, <1>2, StreamEvent

LEMMA RunSame ==
  ASSUME ServerInv, NEW r \in Runs, NEW x,
         run' = [run EXCEPT ![r] = x], x.sent = run[r].sent,
         UNCHANGED <<bridge, got>>
  PROVE  ChannelStep
<1>1. \A p \in Runs : run'[p].sent = run[p].sent
  BY DEF ServerInv, ServerType
<1> QED
  BY <1>1, StreamStutters

LEMMA CallStreams ==
  ASSUME ServerInv, NEW c \in Callers, Call(c)
  PROVE  ChannelStep
<1> USE DEF ServerInv
<1>1. CASE PostRun(c)
  <2>1. PICK r \in Runs : run' = [run EXCEPT ![r].state = "asked"]
    BY <1>1 DEF PostRun
  <2>2. PICK x : x = [run[r] EXCEPT !.state = "asked"]
    OBVIOUS
  <2>3. x.sent = run[r].sent /\ run' = [run EXCEPT ![r] = x]
    BY <2>1, <2>2 DEF ServerType, RunRecords
  <2> QED
    BY <1>1, <2>3, RunSame DEF PostRun, wire
<1>2. CASE Delete(c) \/ ReadLive(c) \/ ReadRecovered(c)
  BY <1>2, StreamStutters DEF Delete, ReadLive, ReadRecovered, wire
<1>3. CASE Decide(c)
  <2>1. PICK r \in Owned, size \in Sizes :
           Deliver(r, [run[r] EXCEPT !.events = @ + 1], c, size)
    BY <1>3 DEF Decide
  <2>2. PICK x : x = [run[r] EXCEPT !.events = @ + 1]
    OBVIOUS
  <2>3. r \in Runs /\ run[r] \in RunRecords
    BY DEF Owned, ServerType
  <2>4. x \in RunRecords /\ x.sent = run[r].sent
    BY <2>2, <2>3, OneMoreEvent
  <2>5. Deliver(r, x, c, size) /\ size \in Nat /\ c \in Producers
    BY <2>1, <2>2, ServerAssumption
  <2> QED
    BY <1>3, <2>3, <2>4, <2>5, DeliverStreams DEF Decide
<1> QED
  BY <1>1, <1>2, <1>3 DEF Call

LEMMA ServeStreams ==
  ASSUME ServerInv, NEW c \in Callers, Serve(c)
  PROVE  ChannelStep
<1> USE DEF ServerInv
<1>1. CASE \/ Metadata(c) \/ Deleted(c) \/ TakeLock(c) \/ Recover(c) \/ Page(c)
           \/ Register(c) \/ Decided(c)
  BY <1>1, StreamStutters DEF Metadata, Deleted, TakeLock, Recover, Page,
     Register, Decided, wire
<1>2. CASE Begin(c)
  <2>1. PICK r \in Runs : r = req[c].run
    BY <1>2 DEF Begin, At, Reservation, RequestOK
  <2>2. run[r].state = "asked" /\ run[r] \in RunRecords
        /\ StreamOK(run[r], bridge[r], Len(got[r]))
    BY <1>2, <2>1 DEF Begin, At, Reservation, RequestOK, Progress, ServerType
  <2>3. CASE Deliver(r, [run[r] EXCEPT !.state = "starting", !.linked = TRUE,
                                       !.sink = TRUE], Handler, 1)
    <3>1. PICK x : x = [run[r] EXCEPT !.state = "starting", !.linked = TRUE,
                                      !.sink = TRUE]
      OBVIOUS
    <3>2. x \in RunRecords /\ x.sent = run[r].sent
      BY <2>2, <3>1, StartedRecord, Zenon
    <3>3. Deliver(r, x, Handler, 1) /\ Handler \in Producers /\ 1 \in Nat
      BY <2>3, <3>1, ServerAssumption
    <3>4. UNCHANGED got
      BY <1>2 DEF Begin
    <3> QED
      BY <3>2, <3>3, <3>4, DeliverStreams
  <2>4. CASE /\ run' = [run EXCEPT ![r] = [NoRecord EXCEPT !.state = "over"]]
             /\ UNCHANGED bridge
    <3>1. PICK x : x = [NoRecord EXCEPT !.state = "over"]
      OBVIOUS
    <3>2. x.sent = 0 /\ run' = [run EXCEPT ![r] = x]
      BY <2>4, <3>1, NewOver
    <3>3. run[r].sent = 0
      BY <2>2 DEF StreamOK
    <3> QED
      BY <1>2, <2>4, <3>2, <3>3, RunSame DEF Begin
  <2> QED
    BY <1>2, <2>1, <2>3, <2>4, Zenon DEF Begin
<1>3. CASE Begun(c)
  <2>1. PICK r \in Runs : r = req[c].run
    BY <1>3 DEF Begun, At, Reservation, RequestOK
  <2>2. PICK x : x = [run[r] EXCEPT !.state = "live"]
    OBVIOUS
  <2>3. x.sent = run[r].sent /\ run' = [run EXCEPT ![r] = x]
    BY <1>3, <2>1, <2>2 DEF Begun, ServerType, RunRecords
  <2> QED
    BY <1>3, <2>3, RunSame DEF Begun, wire
<1>4. CASE BindHandle(c)
  <2>1. PICK r \in Runs : r = req[c].run
    BY <1>4 DEF BindHandle, At, Reservation, RequestOK
  <2>2. bridge[r] \in Bridges /\ run[r] \in RunRecords
    BY DEF ServerType
  <2>3. PICK b : b = [bridge[r] EXCEPT !.bound = TRUE]
    OBVIOUS
  <2>4. /\ b.left = bridge[r].left /\ b.state = bridge[r].state
        /\ b.queue = bridge[r].queue
    BY <2>2, <2>3 DEF Bridges
  <2>5. PICK x : x = IF BoundTooLate(bridge[r]) THEN RequestAbort(run[r])
                     ELSE run[r]
    OBVIOUS
  <2>6. x.sent = run[r].sent
    BY <2>2, <2>5, AbortKeeps
  <2>7. /\ run' = [run EXCEPT ![r] = x] /\ bridge' = [bridge EXCEPT ![r] = b]
        /\ UNCHANGED got
    BY <1>4, <2>1, <2>3, <2>5 DEF BindHandle, ServerType
  <2> QED
    BY <2>4, <2>6, <2>7, SeenSame
<1> QED
  BY <1>1, <1>2, <1>3, <1>4 DEF Serve

LEMMA RunStreams ==
  ASSUME ServerInv, NEW r \in Runs, RunStep(r)
  PROVE  ChannelStep
<1> USE DEF ServerInv
<1>0. run[r] \in RunRecords
  BY DEF ServerType
<1>1. CASE Emit(r)
  <2>1. PICK size \in Sizes :
           Deliver(r, [run[r] EXCEPT !.events = @ + 1], Handler, size)
    BY <1>1 DEF Emit
  <2>2. PICK x : x = [run[r] EXCEPT !.events = @ + 1]
    OBVIOUS
  <2>3. x \in RunRecords /\ x.sent = run[r].sent
    BY <1>0, <2>2, OneMoreEvent
  <2>4. Deliver(r, x, Handler, size) /\ size \in Nat /\ Handler \in Producers
    BY <2>1, <2>2, ServerAssumption
  <2> QED
    BY <1>1, <2>3, <2>4, DeliverStreams DEF Emit
<1>2. CASE Finish(r)
  <2>1. PICK x : x = [run[r] EXCEPT !.state = "ending"]
    OBVIOUS
  <2>2. x \in RunRecords /\ x.sent = run[r].sent
    BY <1>0, <2>1 DEF RunRecords
  <2>3. Deliver(r, x, Handler, 1) /\ Handler \in Producers /\ 1 \in Nat
    BY <1>2, <2>1, ServerAssumption DEF Finish
  <2> QED
    BY <1>2, <2>2, <2>3, DeliverStreams DEF Finish
<1>3. CASE Complete(r)
  <2>1. PICK outcome \in {"resolved", "rejected"} :
           run' = [run EXCEPT ![r] = Completed(outcome, run[r].sent)]
    BY <1>3, Zenon DEF Complete, Completed
  <2>2. run[r].sent \in Nat
    BY <1>0 DEF RunRecords
  <2>3. Completed(outcome, run[r].sent).sent = run[r].sent
    BY <2>2, OverRecord
  <2> QED
    BY <1>3, <2>1, <2>3, RunSame DEF Complete, wire
<1> QED
  BY <1>1, <1>2, <1>3 DEF RunStep

LEMMA SettleStreams ==
  ASSUME ServerInv, NEW r \in Runs, Settle(r)
  PROVE  ChannelStep
<1> USE DEF ServerInv
<1>1. CASE Cleanup(r)
  BY <1>1, StreamStutters DEF Cleanup, wire
<1>2. /\ bridge[r] \in Bridges /\ got[r] \in Seq(Nat) /\ run[r] \in RunRecords
      /\ StreamOK(run[r], bridge[r], Len(got[r])) /\ Len(got[r]) \in Nat
      /\ got = [got EXCEPT ![r] = got[r]]
  BY DEF ServerType
<1>3. PICK n \in Nat : n = run[r].sent
  BY <1>2 DEF RunRecords
\* A stream that closes closes behind its last line.
<1>4. ASSUME NEW d \in Bridges, d.waiting = << >>, d.queue = << >>,
             InOrder(d, Len(got[r]), n)
      PROVE  Len(got[r]) = n
  BY <1>2, <1>4 DEF InOrder
<1>5. CASE StreamStep(r)
  <2>1. PICK d : /\ d = StreamStarts(bridge[r]) \/ d = Pulled(bridge[r])
                 /\ bridge' = [bridge EXCEPT ![r] = d]
    BY <1>5 DEF StreamStep
  <2>2. Moves(bridge[r], d)
    BY <1>2, <2>1, StartMoves, PulledMoves
  <2>3. bridge[r].state \in {"open", "closing"} \/ d.queue = bridge[r].queue
    BY <1>2, <2>1, StepOver
  <2>4. \/ SeenOf(d) = SeenOf(bridge[r])
        \/ /\ SeenOf(bridge[r]) = "open" /\ SeenOf(d) = "whole"
           /\ d.queue = << >> /\ d.waiting = << >> /\ d \in Bridges
           /\ InOrder(d, Len(got[r]), n)
    BY <1>2, <1>3, <2>2, <2>3 DEF Moves, SeenOf, StreamOK
  <2>5. ChannelTo(r, n, d, got[r])
    BY <1>2, <1>3, <1>5, <2>1 DEF StreamStep, ChannelTo
  <2>6. Unseen(r, n, d, got[r]) \/ Ends(r, n, d, got[r])
    BY <1>3, <1>4, <2>4 DEF Unseen, Ends
  <2> QED
    BY <2>5, <2>6, StreamEvent
<1>6. CASE TellBridge(r)
  <2>1. PICK d : d = IF run[r].outcome = "resolved" THEN Close(bridge[r])
                     ELSE Fail(bridge[r])
    OBVIOUS
  <2>2. bridge' = [bridge EXCEPT ![r] = d] /\ UNCHANGED got
    BY <1>6, <2>1, Zenon DEF TellBridge
  <2>3. PICK x : x = [run[r] EXCEPT !.told = TRUE]
    OBVIOUS
  <2>4. x.sent = n /\ run' = [run EXCEPT ![r] = x]
    BY <1>2, <1>3, <1>6, <2>3 DEF TellBridge, RunRecords
  <2>5. ChannelTo(r, n, d, got[r])
    BY <1>2, <2>2, <2>4 DEF ServerType, ChannelTo
  <2>6. CASE d = Close(bridge[r])
    <3>1. /\ d \in Bridges /\ d.left = bridge[r].left
          /\ d.queue = bridge[r].queue /\ d.waiting = bridge[r].waiting
          /\ \/ d.state = bridge[r].state
             \/ bridge[r].state \in {"open", "closing"} /\ d.state = "closing"
             \/ bridge[r].state \in {"open", "closing"} /\ d.state = "closed"
                /\ d.waiting = << >>
      BY <1>2, <2>6, CloseOrder
    <3>2. InOrder(bridge[r], Len(got[r]), n) => InOrder(d, Len(got[r]), n)
      BY <3>1, SameOrder
    <3>3. \/ SeenOf(d) = SeenOf(bridge[r])
          \/ /\ SeenOf(bridge[r]) = "open" /\ SeenOf(d) = "whole"
             /\ d.queue = << >> /\ d.waiting = << >>
             /\ InOrder(d, Len(got[r]), n)
      BY <1>2, <1>3, <3>1, <3>2 DEF SeenOf, StreamOK
    <3>4. Unseen(r, n, d, got[r]) \/ Ends(r, n, d, got[r])
      BY <1>3, <1>4, <3>1, <3>3 DEF Unseen, Ends
    <3> QED
      BY <2>5, <3>4, StreamEvent
  <2>7. CASE d = Fail(bridge[r])
    <3>1. /\ d \in Bridges /\ d.left = bridge[r].left
          /\ \/ d = bridge[r] /\ bridge[r].state \in Over
             \/ bridge[r].state \notin Over /\ d.state = "failed"
      BY <1>2, <2>7, FailOrder
    <3>2. \/ SeenOf(d) = SeenOf(bridge[r])
          \/ SeenOf(bridge[r]) = "open" /\ SeenOf(d) = "broken"
      BY <1>2, <3>1 DEF SeenOf, StreamOK, Over
    <3>3. Unseen(r, n, d, got[r]) \/ Ends(r, n, d, got[r])
      BY <1>3, <3>2 DEF Unseen, Ends
    <3> QED
      BY <2>5, <3>3, StreamEvent
  <2> QED
    BY <2>1, <2>6, <2>7
<1>7. ASSUME NEW p \in Producers, PublishRejected(r, p) PROVE ChannelStep
  <2>1. PICK d : d = [bridge[r] EXCEPT !.failed = @ \ {p}]
    OBVIOUS
  <2>2. /\ d.left = bridge[r].left /\ d.state = bridge[r].state
        /\ d.queue = bridge[r].queue
    BY <1>2, <2>1 DEF Bridges
  <2>3. PICK x : x = SinkFailed(run[r])
    OBVIOUS
  <2>4. x.sent = run[r].sent
    BY <1>2, <2>3, SinkFailedKeeps
  <2>5. /\ run' = [run EXCEPT ![r] = x] /\ bridge' = [bridge EXCEPT ![r] = d]
        /\ UNCHANGED got
    BY <1>7, <2>1, <2>3 DEF PublishRejected, ServerType
  <2> QED
    BY <2>2, <2>4, <2>5, SeenSame
<1> QED
  BY <1>1, <1>5, <1>6, <1>7 DEF Settle

LEMMA ConsumerStreams ==
  ASSUME ServerInv, NEW r \in Runs,
         \/ CancelRun(r) \/ Timeout(r) \/ Read(r) \/ LeaveStream(r)
         \/ SignalFires(r)
  PROVE  ChannelStep
<1> USE DEF ServerInv
<1>1. /\ bridge[r] \in Bridges /\ got[r] \in Seq(Nat) /\ run[r] \in RunRecords
      /\ StreamOK(run[r], bridge[r], Len(got[r])) /\ Len(got[r]) \in Nat
  BY DEF ServerType
<1>2. PICK n \in Nat : n = run[r].sent
  BY <1>1 DEF RunRecords
<1>3. CASE CancelRun(r) \/ Timeout(r)
  <2>1. run' = [run EXCEPT ![r] = RequestAbort(run[r])] /\ UNCHANGED wire
    BY <1>3 DEF CancelRun, Timeout
  <2>2. RequestAbort(run[r]).sent = run[r].sent
    BY <1>1, AbortKeeps
  <2> QED
    BY <2>1, <2>2, RunSame DEF wire
<1>4. CASE SignalFires(r)
  <2>1. PICK x : x = [run[r] EXCEPT !.signal = TRUE]
    OBVIOUS
  <2>2. x \in RunRecords /\ x.sent = run[r].sent
    BY <1>1, <2>1 DEF RunRecords
  <2>3. PICK y : y = IF x.linked THEN RequestAbort(x) ELSE x
    OBVIOUS
  <2>4. y.sent = run[r].sent
    BY <2>2, <2>3, AbortKeeps
  <2>5. run' = [run EXCEPT ![r] = y]
    BY <1>4, <2>1, <2>3, Zenon DEF SignalFires
  <2> QED
    BY <1>4, <2>4, <2>5, RunSame DEF SignalFires, wire
<1>5. CASE Read(r)
  <2>1. bridge[r].queue # << >>
    BY <1>5 DEF Read
  <2>2. PICK d : d = Take(bridge[r])
    OBVIOUS
  <2>3. /\ d \in Bridges /\ d.left = bridge[r].left
        /\ \/ d.state = bridge[r].state
              /\ (bridge[r].waiting = << >> => d.waiting = << >>)
           \/ bridge[r].state = "closing" /\ d.state = "closed"
              /\ d.waiting = << >>
        /\ InOrder(bridge[r], Len(got[r]), n) =>
              /\ Head(bridge[r].queue).event = Len(got[r]) + 1
              /\ InOrder(d, Len(got[r]) + 1, n)
    BY <1>1, <1>2, <2>1, <2>2, TakeOrder
  <2>4. ~bridge[r].left /\ bridge[r].state \notin {"failed", "cancelled"}
    BY <1>1, <2>1 DEF StreamOK
  <2>5. InOrder(bridge[r], Len(got[r]), n)
    BY <1>1, <1>2, <2>4 DEF StreamOK
  <2>6. PICK g : g = Append(got[r], Len(got[r]) + 1)
    OBVIOUS
  <2>7. Len(g) = Len(got[r]) + 1
    BY <1>1, <2>6
  <2>8. ChannelTo(r, n, d, g)
    BY <1>2, <1>5, <2>2, <2>3, <2>5, <2>6 DEF Read, ChannelTo
  <2>9. Len(got[r]) < n
    <3>1. PICK q \in Nat, w \in Nat, m \in Nat :
             /\ q = Len(bridge[r].queue) /\ w = Len(bridge[r].waiting)
             /\ m = Len(got[r])
      BY <1>1 DEF Bridges
    <3>2. q # 0
      BY <1>1, <2>1, <3>1 DEF Bridges
    <3>3. m + q + w = n
      BY <2>5, <3>1 DEF InOrder
    <3>4. m < n
      BY <3>2, <3>3
    <3> QED
      BY <3>1, <3>4
  <2>10. SeenOf(bridge[r]) = "open"
    BY <2>1, <2>4 DEF SeenOf
  <2>11. SeenOf(d) = "open" \/ (SeenOf(d) = "whole" /\ Len(g) = n)
    <3>1. SeenOf(d) = "open" \/ (d.state = "closed" /\ d.queue = << >>)
      BY <2>3, <2>4 DEF SeenOf
    <3>2. ASSUME d.state = "closed", d.queue = << >>
          PROVE  SeenOf(d) = "whole" /\ Len(g) = n
      <4>1. d.waiting = << >>
        BY <1>1, <2>3, <3>2 DEF StreamOK
      <4>2. Len(got[r]) + 1 = n
        <5>1. InOrder(d, Len(got[r]) + 1, n)
          BY <2>3, <2>5
        <5>2. Len(got[r]) + 1 + Len(d.queue) + Len(d.waiting) = n
          BY <5>1 DEF InOrder
        <5>3. Len(d.queue) = 0 /\ Len(d.waiting) = 0
          BY <3>2, <4>1
        <5> QED
          BY <1>1, <5>2, <5>3
      <4>3. SeenOf(d) = "whole"
        BY <2>3, <2>4, <3>2 DEF SeenOf
      <4> QED
        BY <2>7, <4>2, <4>3
    <3> QED
      BY <3>1, <3>2
  <2>12. Receives(r, n, d, g)
    BY <1>2, <2>6, <2>9, <2>10, <2>11 DEF Receives
  <2> QED
    BY <2>8, <2>12, StreamEvent
<1>6. CASE LeaveStream(r)
  <2>1. PICK d : d = Cancel(bridge[r])
    OBVIOUS
  <2>2. PICK x : x = IF bridge[r].state \in Over THEN run[r]
                     ELSE RequestAbort(run[r])
    OBVIOUS
  <2>3. x.sent = n
    BY <1>1, <1>2, <2>2, AbortKeeps
  <2>4. d.left
    BY <1>1, <2>1, CancelOrder
  <2>5. SeenOf(bridge[r]) = "open" /\ SeenOf(d) = "broken"
    BY <1>6, <2>4 DEF LeaveStream, Readable, SeenOf
  <2>6. run' = [run EXCEPT ![r] = x] /\ bridge' = [bridge EXCEPT ![r] = d]
        /\ UNCHANGED got
    BY <1>6, <2>1, <2>2 DEF LeaveStream, ServerType
  <2>7. ChannelTo(r, n, d, got[r])
    BY <2>3, <2>6 DEF ServerType, ChannelTo
  <2>8. Ends(r, n, d, got[r])
    BY <1>2, <2>5 DEF Ends
  <2> QED
    BY <2>7, <2>8, StreamEvent
<1> QED
  BY <1>3, <1>4, <1>5, <1>6

\* Every event of a run reaches the consumer of its stream once and in order,
\* and a stream ends by itself only behind the last one: the bridges of
\* ndjson.ts, as the application and its routes use them, implement
\* EventStreams, whatever the sizes, the producers and the buffer.
THEOREM StreamsImplemented == Spec => Streams
<1>1. Init => Channel!Init
  <2> SUFFICES ASSUME Init PROVE Channel!Init
    OBVIOUS
  <2>1. \A r \in Runs : Seen(r) = "open" /\ run[r].sent = 0
    BY DEF Init, Seen, NewBridge, NoRecord
  <2>2. got = [r \in Runs |-> << >>]
    BY DEF Init
  <2> QED
    BY <2>1, <2>2, Zenon DEF Channel!Init
<1>2. ServerInv /\ [Next]_vars => [Channel!Next]_(Channel!vars)
  <2> SUFFICES ASSUME ServerInv, [Next]_vars PROVE ChannelStep
    BY DEF ChannelStep
  <2>1. CASE UNCHANGED vars
    BY <2>1, StreamStutters DEF vars, wire
  <2>2. CASE Next
    BY <2>2, CallStreams, ServeStreams, RunStreams, SettleStreams,
       ConsumerStreams DEF Next
  <2> QED
    BY <2>1, <2>2
<1> QED
  BY <1>1, <1>2, ServerInvariant, PTL DEF Spec, Streams, Channel!Spec

=============================================================================
