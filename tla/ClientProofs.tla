----------------------------- MODULE ClientProofs -----------------------------
(***************************************************************************)
(* Theorems about one browser tab and the server it talks to.              *)
(***************************************************************************)
EXTENDS ClientSession, FiniteSetTheorems, SequenceTheorems, TLAPS

-----------------------------------------------------------------------------
(* The invariant.                                                          *)

Wires ==
    [state : {"none", "asked", "open", "closed", "failed", "aborted"},
     session : Sessions \cup {NoSession}, run : Runs \cup {NoRun},
     queue : Seq(Nat)]

\* No ledger was thrown away.
Ledgers ==
    [status : {"idle", "loading", "ready", "error"},
     session : Sessions \cup {NoSession}, durable : SUBSET Nat, live : BOOLEAN]

Starts ==
    [step : {"idle", "starting", "reading"}, session : Sessions \cup {NoSession},
     id : Runs \cup {NoRun}, seen : BOOLEAN]

Requests ==
    [state : {"free", "asked", "read", "failed"}, data : SUBSET Sessions]

Types ==
    /\ file \in [Sessions -> Seq(Kinds)] /\ gone \subseteq Sessions
    /\ alive \in [Sessions -> Runs \cup {NoRun}] /\ asked \subseteq Runs
    /\ wire \in Wires /\ history \in Ledgers /\ run \in Starts
    /\ page \in Sessions \cup {NoSession} /\ runs \in 0..MaxRuns
    /\ catalog \in [status : {"loading", "ready", "error"},
                    data : SUBSET Sessions]
    /\ transport \in {"idle", "starting", "streaming", "stopping", "error"}
    /\ lists \in [Lists -> Requests] /\ loads \subseteq LoadType

\* What a load has read is in the file, and one load at most may commit.
LoadsInv ==
    /\ \A l \in loads : l.reply.last <= Last(l.session)
    /\ \A l \in loads : \A m \in loads : l.owns /\ m.owns => l = m

\* The stream is the one of the run that is being started or read; a run
\* that is alive was asked for before; a session that is being created rests.
RunInv ==
    /\ run.step = "idle" => wire = NoWire
    /\ run.step /= "idle" =>
          /\ run.session \in Sessions /\ wire.session = run.session
          /\ wire.run = runs /\ wire.run /= NoRun
    /\ wire.state \notin {"open", "closed"} => wire.queue = << >>
    /\ wire.state = "asked" => \A s \in Sessions : alive[s] /= wire.run
    /\ wire.state = "open" =>
          \A s \in Sessions : alive[s] = wire.run => s = wire.session
    /\ \A s \in Sessions : file[s] = << >> => alive[s] = NoRun
    /\ \A s \in Sessions : alive[s] <= runs
    /\ creation /= "none" => run.step = "idle"
    /\ creation \in Sessions => Last(creation) = 1 /\ alive[creation] = NoRun

\* A queue q of events that are in a file with top events, before a ledger
\* that shows D: the numbers rise, and one that is not shown is newer than
\* all that are.
Numbered(q, top, D) ==
    /\ \A i \in 1..Len(q) : q[i] <= top
    /\ \A i \in 1..Len(q) : \A j \in 1..Len(q) :
          i < j /\ q[j] /= Delta => q[i] < q[j]
    /\ \A i \in 1..Len(q) :
          q[i] /= Delta => q[i] \in D \/ \A m \in D : m < q[i]

\* What the tab shows of the session whose stream it reads.
Shown == IF Ready(wire.session) THEN history.durable ELSE {}

LedgerInv ==
    /\ history.status /= "idle" => history.session \in Sessions
    /\ history.status = "ready" => history.durable \subseteq 1..Last(history.session)
    /\ run.step /= "idle" => Numbered(wire.queue, Last(wire.session), Shown)

TabInv == Types /\ LoadsInv /\ RunInv /\ LedgerInv

-----------------------------------------------------------------------------
(* Queues.                                                                 *)

LEMMA NumberedNone ==
  ASSUME NEW top, NEW D
  PROVE  Numbered(<< >>, top, D)
<1>1. Len(<< >>) = 0
  OBVIOUS
<1> QED
  BY <1>1 DEF Numbered

LEMMA NumberedFew ==
  ASSUME NEW q, NEW top, NEW D, Numbered(q, top, D)
  PROVE  Numbered(q, top, {})
  BY DEF Numbered

LEMMA NumberedHigher ==
  ASSUME NEW q \in Seq(Nat), NEW top \in Nat, NEW more \in Nat, top <= more,
         NEW D, Numbered(q, top, D)
  PROVE  Numbered(q, more, D)
<1>1. \A i \in 1..Len(q) : q[i] \in Nat
  BY ElementOfSeq
<1> QED
  BY <1>1 DEF Numbered

LEMMA NumberedReload ==
  ASSUME NEW q \in Seq(Nat), NEW top, NEW D, Numbered(q, top, D), NEW n \in Nat
  PROVE  Numbered(q, top, 1..n)
<1>1. \A i \in 1..Len(q) : q[i] \in Nat
  BY ElementOfSeq
<1>2. ASSUME NEW i \in 1..Len(q), q[i] /= Delta
      PROVE  q[i] \in 1..n \/ \A m \in 1..n : m < q[i]
  BY <1>1, <1>2 DEF Delta
<1> QED
  BY <1>2 DEF Numbered

LEMMA NumberedMore ==
  ASSUME NEW q \in Seq(Nat), NEW top \in Nat, NEW D \in SUBSET (1..top),
         Numbered(q, top, D)
  PROVE  Append(q, top + 1) \in Seq(Nat) /\ Numbered(Append(q, top + 1), top + 1, D)
<1> PICK n \in Nat : n = Len(q)
  BY LenProperties
<1>0. top + 1 \in Nat
  OBVIOUS
<1> PICK r \in Seq(Nat) : r = Append(q, top + 1)
  BY <1>0, AppendProperties
<1>1. Len(r) = n + 1 /\ r[n + 1] = top + 1 /\ \A i \in 1..n : r[i] = q[i]
  BY AppendProperties
<1>2. \A i \in 1..n : q[i] \in Nat /\ q[i] <= top
  BY ElementOfSeq DEF Numbered
<1>3. \A i \in 1..(n + 1) : i \in 1..n \/ i = n + 1
  OBVIOUS
<1>4. ASSUME NEW i \in 1..(n + 1) PROVE r[i] <= top + 1
  BY <1>1, <1>2, <1>3
<1>5. ASSUME NEW i \in 1..(n + 1), NEW j \in 1..(n + 1), i < j, r[j] /= Delta
      PROVE  r[i] < r[j]
  <2>1. i \in 1..n
    BY <1>5
  <2>2. CASE j = n + 1
    BY <1>1, <1>2, <2>1, <2>2
  <2>3. CASE j \in 1..n
    <3>1. r[i] = q[i] /\ r[j] = q[j]
      BY <1>1, <2>1, <2>3
    <3> QED
      BY <1>5, <2>1, <2>3, <3>1 DEF Numbered
  <2> QED
    BY <1>3, <2>2, <2>3
<1>6. ASSUME NEW i \in 1..(n + 1), r[i] /= Delta
      PROVE  r[i] \in D \/ \A m \in D : m < r[i]
  <2>1. CASE i = n + 1
    BY <1>1, <2>1
  <2>2. CASE i \in 1..n
    BY <1>1, <1>6, <2>2 DEF Numbered
  <2> QED
    BY <1>3, <2>1, <2>2
<1> QED
  BY <1>1, <1>4, <1>5, <1>6 DEF Numbered

LEMMA NumberedDelta ==
  ASSUME NEW top \in Nat, NEW D
  PROVE  Append(<< >>, Delta) \in Seq(Nat) /\ Numbered(Append(<< >>, Delta), top, D)
<1> PICK one : one = Append(<< >>, Delta)
  OBVIOUS
<1>1. one \in Seq(Nat) /\ Len(one) = 1 /\ one[1] = Delta
  <2>1. << >> \in Seq(Nat) /\ Len(<< >>) = 0 /\ Delta \in Nat
    BY DEF Delta
  <2> QED
    BY <2>1, AppendProperties
<1>2. \A i \in 1..1 : i = 1
  OBVIOUS
<1> QED
  BY <1>1, <1>2 DEF Numbered, Delta

LEMMA NumberedNext ==
  ASSUME NEW q \in Seq(Nat), q /= << >>, NEW top \in Nat, NEW D,
         Numbered(q, top, D)
  PROVE  /\ Head(q) \in Nat /\ Head(q) <= top /\ Tail(q) \in Seq(Nat)
         /\ Head(q) /= Delta => Head(q) \in D \/ \A m \in D : m < Head(q)
         /\ Numbered(Tail(q), top, D)
         /\ Numbered(Tail(q), top, D \cup {Head(q)})
<1> PICK n \in Nat : n + 1 = Len(q)
  <2>1. Len(q) \in Nat /\ Len(q) /= 0
    BY EmptySeq
  <2>2. Len(q) - 1 \in Nat /\ (Len(q) - 1) + 1 = Len(q)
    BY <2>1
  <2> QED
    BY <2>2
<1> PICK r \in Seq(Nat) : r = Tail(q)
  BY HeadTailProperties
<1>1. Len(r) = n /\ \A i \in 1..n : r[i] = q[i + 1]
  BY HeadTailProperties
<1>2. Head(q) = q[1] /\ q[1] \in Nat /\ \A i \in 1..(n + 1) : q[i] \in Nat
  BY ElementOfSeq
<1>3. 1 \in 1..(n + 1) /\ \A i \in 1..n : i + 1 \in 1..(n + 1) /\ 1 < i + 1
  OBVIOUS
<1>4. q[1] <= top /\ (q[1] /= Delta => q[1] \in D \/ \A m \in D : m < q[1])
  BY <1>3 DEF Numbered
<1>5. \A i \in 1..n : r[i] <= top
  BY <1>1, <1>3 DEF Numbered
<1>6. ASSUME NEW i \in 1..n, NEW j \in 1..n, i < j, r[j] /= Delta
      PROVE  r[i] < r[j]
  <2>1. i + 1 < j + 1 /\ r[i] = q[i + 1] /\ r[j] = q[j + 1]
    BY <1>1, <1>6
  <2> QED
    BY <1>3, <1>6, <2>1 DEF Numbered
<1>7. ASSUME NEW i \in 1..n, r[i] /= Delta
      PROVE  /\ r[i] \in D \/ \A m \in D : m < r[i]
             /\ q[1] < r[i]
  <2>1. r[i] = q[i + 1] /\ i + 1 \in 1..(n + 1) /\ 1 < i + 1
    BY <1>1, <1>3
  <2> QED
    BY <1>3, <1>7, <2>1 DEF Numbered
<1>8. Numbered(r, top, D)
  BY <1>1, <1>5, <1>6, <1>7 DEF Numbered
<1>9. Numbered(r, top, D \cup {q[1]})
  BY <1>1, <1>5, <1>6, <1>7 DEF Numbered
<1> QED
  BY <1>2, <1>4, <1>8, <1>9

-----------------------------------------------------------------------------
(* Steps that leave a part of the invariant alone.                         *)

LEMMA Lasts ==
  ASSUME Types
  PROVE  \A s \in Sessions : file[s] \in Seq(Kinds) /\ Last(s) \in Nat
  BY LenProperties DEF Types, Last

LEMMA LoadsStay ==
  ASSUME LoadsInv, loads' = loads, file' = file
  PROVE  LoadsInv'
  BY DEF LoadsInv, Last

LEMMA RunStays ==
  ASSUME RunInv,
         UNCHANGED <<file, alive, wire, run, runs, creation>>
  PROVE  RunInv'
  BY DEF RunInv, Last

LEMMA LedgerStays ==
  ASSUME LedgerInv, UNCHANGED <<file, wire, run, history>>
  PROVE  LedgerInv'
  BY DEF LedgerInv, Last, Shown, Ready

LEMMA EventWritten ==
  ASSUME Types, NEW s \in Sessions, NEW kind \in Kinds,
         file' = [file EXCEPT ![s] = Append(@, kind)]
  PROVE  /\ file' \in [Sessions -> Seq(Kinds)]
         /\ Last(s)' = Last(s) + 1 /\ file'[s] /= << >>
         /\ \A t \in Sessions : t /= s => file'[t] = file[t] /\ Last(t)' = Last(t)
         /\ \A t \in Sessions : Last(t) \in Nat /\ Last(t)' \in Nat /\ Last(t) <= Last(t)'
<1>1. /\ file \in [Sessions -> Seq(Kinds)]
      /\ \A t \in Sessions : file[t] \in Seq(Kinds) /\ Last(t) \in Nat
  BY Lasts DEF Types
<1> PICK f \in Seq(Kinds) : f = Append(file[s], kind)
  BY <1>1, AppendProperties
<1>2. Len(f) = Last(s) + 1 /\ f /= << >>
  BY <1>1, AppendProperties DEF Last
<1>3. /\ file' \in [Sessions -> Seq(Kinds)] /\ file'[s] = f
      /\ \A t \in Sessions : t /= s => file'[t] = file[t]
  BY <1>1
<1>4. Last(s)' = Last(s) + 1
      /\ \A t \in Sessions : t /= s => Last(t)' = Last(t)
  BY <1>2, <1>3 DEF Last
<1> QED
  BY <1>1, <1>2, <1>3, <1>4

LEMMA LoadsKept ==
  ASSUME Types, LoadsInv, loads' = loads,
         \A t \in Sessions : Last(t) \in Nat /\ Last(t)' \in Nat /\ Last(t) <= Last(t)'
  PROVE  LoadsInv'
<1>1. \A l \in loads : l.session \in Sessions /\ l.reply.last \in Nat
  BY DEF Types, LoadType
<1>2. \A l \in loads : l.reply.last <= Last(l.session)'
  BY <1>1 DEF LoadsInv
<1> QED
  BY <1>2 DEF LoadsInv

LEMMA WireFields ==
  ASSUME Types
  PROVE  /\ wire.queue \in Seq(Nat) /\ wire.run \in Runs \cup {NoRun}
         /\ wire.session \in Sessions \cup {NoSession}
         /\ NoSession \notin Sessions
  BY ClientAssumption DEF Types, Wires

LEMMA DurableKept ==
  ASSUME LedgerInv,
         \A t \in Sessions : Last(t) \in Nat /\ Last(t)' \in Nat /\ Last(t) <= Last(t)'
  PROVE  history.status = "ready" =>
            history.durable \subseteq 1..Len(file'[history.session])
<1> SUFFICES ASSUME history.status = "ready"
             PROVE  history.durable \subseteq 1..Len(file'[history.session])
  OBVIOUS
<1>1. history.session \in Sessions /\ history.durable \subseteq 1..Last(history.session)
  BY DEF LedgerInv
<1> QED
  BY <1>1 DEF Last

LEMMA LedgerKept ==
  ASSUME Types, RunInv, LedgerInv, history' = history, wire' = wire, run' = run,
         \A t \in Sessions : Last(t) \in Nat /\ Last(t)' \in Nat /\ Last(t) <= Last(t)'
  PROVE  LedgerInv'
<1>1. history.status = "ready" => history.durable \subseteq 1..Len(file'[history.session])
  BY DurableKept
<1>2. Shown' = Shown
  BY DEF Shown, Ready
<1>3. ASSUME run.step /= "idle"
      PROVE  Numbered(wire.queue, Len(file'[wire.session]), Shown)
  <2>1. wire.session \in Sessions /\ Numbered(wire.queue, Last(wire.session), Shown)
    BY <1>3 DEF LedgerInv, RunInv
  <2> QED
    BY <2>1, WireFields, NumberedHigher DEF Last
<1> QED
  BY <1>1, <1>2, <1>3 DEF LedgerInv, Last

LEMMA ShownBelow ==
  ASSUME Types, LedgerInv, wire.session \in Sessions
  PROVE  Shown \in SUBSET (1..Last(wire.session))
  BY DEF LedgerInv, Shown, Ready

-----------------------------------------------------------------------------
(* The server.                                                             *)

LEMMA ServerStep ==
  ASSUME Types, LoadsInv, LedgerInv, RunInv',
         UNCHANGED <<page, catalog, history, transport, run, runs, lists, loads>>,
         file' \in [Sessions -> Seq(Kinds)], gone' \subseteq Sessions,
         alive' \in [Sessions -> Runs \cup {NoRun}], asked' \subseteq Runs,
         wire' \in Wires, wire'.session = wire.session,
         run.step /= "idle" => Numbered(wire'.queue, Len(file'[wire.session]), Shown),
         \A t \in Sessions : Last(t) \in Nat /\ Last(t)' \in Nat /\ Last(t) <= Last(t)'
  PROVE  TabInv'
<1>1. Types'
  BY DEF Types
<1>2. LoadsInv'
  BY LoadsKept
<1>3. Shown' = Shown
  BY DEF Shown, Ready
<1>4. history.status = "ready" => history.durable \subseteq 1..Len(file'[history.session])
  BY DurableKept
<1>5. LedgerInv'
  BY <1>3, <1>4 DEF LedgerInv, Last
<1> QED
  BY <1>1, <1>2, <1>5 DEF TabInv

LEMMA AcceptKeeps ==
  ASSUME TabInv, Accept
  PROVE  TabInv'
<1> PICK s : s = wire.session
  OBVIOUS
<1>1. /\ wire.state = "asked" /\ s \in Sessions /\ alive[s] = NoRun
      /\ file' = [file EXCEPT ![s] = Append(@, "started")]
      /\ alive' = [alive EXCEPT ![s] = wire.run]
      /\ wire' = [wire EXCEPT !.state = "open", !.queue = <<Last(s) + 1>>]
      /\ UNCHANGED <<gone, asked, tab, calls, effect>>
  BY DEF Accept, Exists
<1>2. Types /\ LoadsInv /\ RunInv /\ LedgerInv
  BY DEF TabInv
<1>3. UNCHANGED <<gone, asked, page, catalog, history, transport, run, runs,
                  creation, lists, loads>>
  BY <1>1 DEF tab, calls
<1>4. /\ file' \in [Sessions -> Seq(Kinds)]
      /\ Last(s)' = Last(s) + 1 /\ file'[s] /= << >>
      /\ \A t \in Sessions : t /= s => file'[t] = file[t] /\ Last(t)' = Last(t)
      /\ \A t \in Sessions : Last(t) \in Nat /\ Last(t)' \in Nat /\ Last(t) <= Last(t)'
  BY <1>1, <1>2, EventWritten DEF Kinds
<1>5. run.step /= "idle" /\ wire.session = run.session /\ wire.run = runs
      /\ wire.run /= NoRun /\ wire.queue = << >> /\ creation = "none"
  BY <1>1, <1>2 DEF RunInv, NoWire
<1> PICK q : q = <<Last(s) + 1>>
  OBVIOUS
<1>6. Numbered(q, Last(s) + 1, Shown) /\ q \in Seq(Nat)
  <2>1. << >> \in Seq(Nat) /\ Append(<< >>, Last(s) + 1) = q
    OBVIOUS
  <2>2. Shown \in SUBSET (1..Last(s)) /\ Last(s) \in Nat
    BY <1>1, <1>2, <1>4, ShownBelow
  <2>3. Numbered(<< >>, Last(s), Shown)
    BY NumberedNone
  <2>4. Append(<< >>, Last(s) + 1) \in Seq(Nat)
        /\ Numbered(Append(<< >>, Last(s) + 1), Last(s) + 1, Shown)
    BY <2>1, <2>2, <2>3, NumberedMore
  <2> QED
    BY <2>1, <2>4
<1>7. /\ wire' \in Wires /\ wire'.state = "open" /\ wire'.queue = q
      /\ wire'.session = s /\ wire'.run = wire.run
  BY <1>1, <1>2, <1>6 DEF Types, Wires
<1>8. /\ alive' \in [Sessions -> Runs \cup {NoRun}] /\ alive'[s] = wire.run
      /\ \A t \in Sessions : t /= s => alive'[t] = alive[t]
  BY <1>1, <1>2 DEF Types, Wires
<1>9. RunInv'
  <2>1. \A t \in Sessions : alive[t] /= wire.run /\ alive[t] <= runs
    BY <1>1, <1>2 DEF RunInv
  <2>2. ASSUME NEW t \in Sessions PROVE alive'[t] <= runs
    <3>1. runs <= runs
      BY <1>2 DEF Types
    <3>2. CASE t = s
      BY <1>5, <1>8, <3>1, <3>2
    <3>3. CASE t /= s
      BY <1>8, <2>1, <3>3
    <3> QED
      BY <3>2, <3>3
  <2>3. creation \notin Sessions
    BY <1>5, ClientAssumption
  <2>4. \A t \in Sessions : file'[t] = << >> => alive'[t] = NoRun
    BY <1>2, <1>4, <1>8 DEF RunInv
  <2> QED
    BY <1>3, <1>5, <1>7, <1>8, <2>1, <2>2, <2>3, <2>4, <1>1 DEF RunInv
<1>10. wire'.session = wire.session /\ Numbered(wire'.queue, Len(file'[wire.session]), Shown)
  BY <1>4, <1>6, <1>7 DEF Last
<1> QED
  BY <1>2, <1>3, <1>4, <1>7, <1>8, <1>9, <1>10, ServerStep DEF Types

LEMMA RefuseKeeps ==
  ASSUME TabInv, Refuse
  PROVE  TabInv'
<1>1. /\ wire.state = "asked" /\ wire' = [wire EXCEPT !.state = "failed"]
      /\ UNCHANGED <<file, gone, alive, asked, page, catalog, history, transport,
                     run, runs, creation, lists, loads>>
  BY DEF Refuse, server, tab, calls
<1>2. Types /\ LoadsInv /\ RunInv /\ LedgerInv
  BY DEF TabInv
<1>3. /\ wire' \in Wires /\ wire'.state = "failed" /\ wire'.queue = wire.queue
      /\ wire'.session = wire.session /\ wire'.run = wire.run
  BY <1>1, <1>2 DEF Types, Wires
<1>4. \A t \in Sessions : Last(t) \in Nat /\ Last(t)' = Last(t)
  BY <1>1, <1>2, Lasts DEF Last
<1>5. run.step /= "idle" /\ wire.queue = << >>
  BY <1>1, <1>2 DEF RunInv, NoWire
<1>6. RunInv'
  BY <1>1, <1>2, <1>3, <1>5 DEF RunInv, Last
<1>7. Numbered(wire'.queue, Len(file'[wire.session]), Shown)
  BY <1>3, <1>5, NumberedNone
<1> QED
  BY <1>1, <1>2, <1>3, <1>4, <1>6, <1>7, ServerStep DEF Types

\* An event of the run in session s is sent, if it is the tab's.
LEMMA SentKeeps ==
  ASSUME TabInv, NEW s \in Sessions, alive[s] /= NoRun,
         Last(s)' = Last(s) + 1,
         \A t \in Sessions : Last(t) \in Nat /\ Last(t)' \in Nat /\ Last(t) <= Last(t)',
         NEW w, w = Sent(s, Last(s) + 1)
  PROVE  /\ w \in Wires /\ w.session = wire.session /\ w.run = wire.run
         /\ w.state = wire.state
         /\ w.state \notin {"open", "closed"} => w.queue = wire.queue
         /\ run.step = "idle" => w = NoWire
         /\ run.step /= "idle" => Numbered(w.queue, Len(file'[wire.session]), Shown)
<1>1. Types /\ RunInv /\ LedgerInv
  BY DEF TabInv
<1>2. /\ Last(s)' = Last(s) + 1
      /\ \A t \in Sessions : Last(t) \in Nat /\ Last(t)' \in Nat /\ Last(t) <= Last(t)'
  OBVIOUS
<1>3. wire.queue \in Seq(Nat) /\ NoSession \notin Sessions
  BY <1>1, WireFields
<1>4. CASE wire.state = "open" /\ wire.run = alive[s]
  <2>1. run.step /= "idle" /\ wire.session = s
    BY <1>1, <1>4 DEF RunInv, NoWire
  <2> PICK top \in Nat : top = Last(s)
    BY <1>2
  <2> PICK q : q = Append(wire.queue, top + 1)
    OBVIOUS
  <2>2. q \in Seq(Nat) /\ Numbered(q, top + 1, Shown)
    <3>1. Shown \in SUBSET (1..top)
      BY <1>1, <2>1, ShownBelow
    <3>2. Numbered(wire.queue, top, Shown)
      BY <1>1, <2>1 DEF LedgerInv
    <3> QED
      BY <1>3, <3>1, <3>2, NumberedMore
  <2>3. w = [wire EXCEPT !.queue = q]
    BY <1>4 DEF Sent
  <2>4. /\ w \in Wires /\ w.session = wire.session /\ w.run = wire.run
        /\ w.state = wire.state /\ w.queue = q
    BY <1>1, <2>2, <2>3 DEF Types, Wires
  <2>5. Len(file'[wire.session]) = top + 1
    BY <1>2, <2>1 DEF Last
  <2> QED
    BY <1>4, <2>1, <2>2, <2>4, <2>5
<1>5. CASE ~(wire.state = "open" /\ wire.run = alive[s])
  <2>1. w = wire
    BY <1>5 DEF Sent
  <2>2. ASSUME run.step /= "idle"
        PROVE  Numbered(wire.queue, Len(file'[wire.session]), Shown)
    <3>1. wire.session \in Sessions /\ Numbered(wire.queue, Last(wire.session), Shown)
      BY <1>1, <2>2 DEF LedgerInv, RunInv
    <3> QED
      BY <1>2, <1>3, <3>1, NumberedHigher DEF Last
  <2> QED
    BY <1>1, <2>1, <2>2 DEF Types, RunInv
<1> QED
  BY <1>4, <1>5

LEMMA ProceedKeeps ==
  ASSUME TabInv, NEW s \in Sessions, Proceed(s)
  PROVE  TabInv'
<1>1. /\ alive[s] /= NoRun /\ file' = [file EXCEPT ![s] = Append(@, "message")]
      /\ UNCHANGED <<gone, alive, asked, page, catalog, history, transport,
                     run, runs, creation, lists, loads>>
  BY DEF Proceed, tab, calls
<1>2. Types /\ LoadsInv /\ RunInv /\ LedgerInv
  BY DEF TabInv
<1> PICK kind \in Kinds : kind = "message"
  BY DEF Kinds
<1>3. alive[s] /= NoRun /\ file' = [file EXCEPT ![s] = Append(@, kind)]
  BY <1>1
<1>4. /\ file' \in [Sessions -> Seq(Kinds)] /\ file'[s] /= << >>
      /\ Last(s)' = Last(s) + 1
      /\ \A t \in Sessions : t /= s => file'[t] = file[t] /\ Last(t)' = Last(t)
      /\ \A t \in Sessions : Last(t) \in Nat /\ Last(t)' \in Nat /\ Last(t) <= Last(t)'
  BY <1>2, <1>3, EventWritten
<1> PICK w : w = Sent(s, Last(s) + 1)
  OBVIOUS
<1>5. /\ w \in Wires /\ w.session = wire.session /\ w.run = wire.run
      /\ w.state = wire.state
      /\ w.state \notin {"open", "closed"} => w.queue = wire.queue
      /\ run.step = "idle" => w = NoWire
      /\ run.step /= "idle" => Numbered(w.queue, Len(file'[wire.session]), Shown)
  BY <1>3, <1>4, SentKeeps
<1>6. wire' = w
  BY DEF Proceed
<1>7. creation \in Sessions => creation /= s
  BY <1>1, <1>2 DEF RunInv
<1>8. RunInv'
  BY <1>1, <1>2, <1>4, <1>5, <1>6, <1>7 DEF RunInv
<1> QED
  BY <1>1, <1>2, <1>4, <1>5, <1>6, <1>8, ServerStep DEF Types

LEMMA EndKeeps ==
  ASSUME TabInv, NEW s \in Sessions, End(s)
  PROVE  TabInv'
<1>1. /\ alive[s] /= NoRun /\ file' = [file EXCEPT ![s] = Append(@, "terminal")]
      /\ alive' = [alive EXCEPT ![s] = NoRun] /\ asked' \subseteq asked
      /\ UNCHANGED <<gone, page, catalog, history, transport,
                     run, runs, creation, lists, loads>>
  BY DEF End, tab, calls
<1>2. Types /\ LoadsInv /\ RunInv /\ LedgerInv
  BY DEF TabInv
<1> PICK kind \in Kinds : kind = "terminal"
  BY DEF Kinds
<1>3. alive[s] /= NoRun /\ file' = [file EXCEPT ![s] = Append(@, kind)]
  BY <1>1
<1>4. /\ file' \in [Sessions -> Seq(Kinds)] /\ file'[s] /= << >>
      /\ Last(s)' = Last(s) + 1
      /\ \A t \in Sessions : t /= s => file'[t] = file[t] /\ Last(t)' = Last(t)
      /\ \A t \in Sessions : Last(t) \in Nat /\ Last(t)' \in Nat /\ Last(t) <= Last(t)'
  BY <1>2, <1>3, EventWritten
<1> PICK w : w = Sent(s, Last(s) + 1)
  OBVIOUS
<1>5. /\ w \in Wires /\ w.session = wire.session /\ w.run = wire.run
      /\ w.state = wire.state
      /\ w.state \notin {"open", "closed"} => w.queue = wire.queue
      /\ run.step = "idle" => w = NoWire
      /\ run.step /= "idle" => Numbered(w.queue, Len(file'[wire.session]), Shown)
  BY <1>3, <1>4, SentKeeps
<1>6. /\ wire' \in Wires /\ wire'.session = wire.session /\ wire'.run = wire.run
      /\ wire'.queue = w.queue
      /\ \/ wire' = w
         \/ wire'.state = "closed" /\ w.state = "open"
  <2>1. wire' = IF w.run = alive[s] /\ w.state = "open"
                THEN [w EXCEPT !.state = "closed"] ELSE w
    BY DEF End
  <2> QED
    BY <1>5, <2>1 DEF Wires
<1>7. creation \in Sessions => creation /= s
  BY <1>1, <1>2 DEF RunInv
<1>8. /\ alive' \in [Sessions -> Runs \cup {NoRun}] /\ alive'[s] = NoRun
      /\ \A t \in Sessions : t /= s => alive'[t] = alive[t]
  BY <1>1, <1>2 DEF Types
<1>9. NoRun <= runs
  BY <1>2 DEF Types, NoRun
<1>10. run.step = "idle" => wire' = NoWire
  <2>1. NoWire.state = "none"
    BY DEF NoWire
  <2> QED
    BY <1>5, <1>6, <2>1
<1>11. run.step /= "idle" =>
          /\ run.session \in Sessions /\ wire'.session = run.session
          /\ wire'.run = runs /\ wire'.run /= NoRun
  BY <1>2, <1>6 DEF RunInv
<1>12. wire'.state \notin {"open", "closed"} => wire'.queue = << >>
  BY <1>2, <1>5, <1>6 DEF RunInv
<1>13. wire'.state \in {"asked", "open"} =>
          /\ wire'.state = wire.state /\ wire.run /= NoRun
  <2>1. wire.state \in {"asked", "open"} => wire.run /= NoRun
    BY <1>2 DEF RunInv, NoWire
  <2> QED
    BY <1>5, <1>6, <2>1
<1>14. wire'.state = "asked" => \A t \in Sessions : alive'[t] /= wire'.run
  BY <1>2, <1>6, <1>8, <1>13 DEF RunInv
<1>15. wire'.state = "open" =>
          \A t \in Sessions : alive'[t] = wire'.run => t = wire'.session
  BY <1>2, <1>6, <1>8, <1>13 DEF RunInv
<1>16. \A t \in Sessions : (file'[t] = << >> => alive'[t] = NoRun) /\ alive'[t] <= runs
  BY <1>2, <1>4, <1>8, <1>9 DEF RunInv
<1>17. RunInv'
  BY <1>1, <1>2, <1>4, <1>7, <1>8, <1>10, <1>11, <1>12, <1>14, <1>15, <1>16 DEF RunInv
<1> QED
  BY <1>1, <1>2, <1>4, <1>5, <1>6, <1>8, <1>17, ServerStep DEF Types

LEMMA StreamKeeps ==
  ASSUME TabInv, NEW s \in Sessions, Stream(s)
  PROVE  TabInv'
<1>1. /\ wire' = Sent(s, Delta) /\ wire.state = "open" /\ wire.queue = << >>
      /\ wire.run = alive[s]
      /\ UNCHANGED <<file, gone, alive, asked, page, catalog, history, transport,
                     run, runs, creation, lists, loads>>
  BY DEF Stream, server, tab, calls
<1>2. Types /\ LoadsInv /\ RunInv /\ LedgerInv
  BY DEF TabInv
<1>3. \A t \in Sessions : Last(t) \in Nat /\ Last(t)' \in Nat /\ Last(t) <= Last(t)'
  BY <1>1, <1>2, Lasts DEF Last
<1> PICK q : q = Append(<< >>, Delta)
  OBVIOUS
<1>4. wire' = [wire EXCEPT !.queue = q]
  BY <1>1 DEF Sent
<1>5. q \in Seq(Nat)
  BY NumberedDelta
<1>6. /\ wire' \in Wires /\ wire'.session = wire.session /\ wire'.run = wire.run
      /\ wire'.state = "open" /\ wire'.queue = q
  BY <1>1, <1>2, <1>4, <1>5 DEF Types, Wires
<1>7. run.step /= "idle"
  BY <1>1, <1>2 DEF RunInv, NoWire
<1>8. RunInv'
  BY <1>1, <1>2, <1>6, <1>7 DEF RunInv, Last
<1>9. Numbered(wire'.queue, Len(file'[wire.session]), Shown)
  <2>1. Len(file'[wire.session]) \in Nat
    BY <1>2, <1>3, <1>7 DEF RunInv, Last
  <2> QED
    BY <1>6, <2>1, NumberedDelta
<1> QED
  BY <1>1, <1>2, <1>3, <1>6, <1>8, <1>9, ServerStep DEF Types

LEMMA CreationServedKeeps ==
  ASSUME TabInv, CreationServed
  PROVE  TabInv'
<1>1. /\ creation = "asked"
      /\ UNCHANGED <<gone, alive, asked, wire, page, catalog, history, transport,
                     run, runs, lists, loads>>
  BY DEF CreationServed, tab
<1>2. Types /\ LoadsInv /\ RunInv /\ LedgerInv
  BY DEF TabInv
<1>3. run.step = "idle" /\ \A t \in Sessions : Last(t) \in Nat
  BY <1>1, <1>2, Lasts DEF RunInv
<1>4. "failed" \notin Sessions
  BY ClientAssumption
<1>5. CASE creation' = "failed" /\ file' = file
  <2>1. RunInv'
    BY <1>1, <1>2, <1>3, <1>4, <1>5 DEF RunInv
  <2>2. \A t \in Sessions : Last(t)' = Last(t)
    BY <1>5 DEF Last
  <2> QED
    BY <1>1, <1>2, <1>3, <1>5, <2>1, <2>2, ServerStep DEF Types
<1>6. ASSUME NEW s \in Sessions, file[s] = << >>,
             file' = [file EXCEPT ![s] = <<"created">>],
             creation' \in {s, "failed"}
      PROVE  TabInv'
  <2>1. <<"created">> \in Seq(Kinds) /\ Len(<<"created">>) = 1
        /\ <<"created">> /= << >>
    BY DEF Kinds
  <2>2. /\ file' \in [Sessions -> Seq(Kinds)] /\ file'[s] = <<"created">>
        /\ \A t \in Sessions : t /= s => file'[t] = file[t]
    BY <1>2, <1>6, <2>1 DEF Types
  <2>3. Last(s) = 0 /\ Last(s)' = 1
        /\ \A t \in Sessions : t /= s => Last(t)' = Last(t)
    BY <1>6, <2>1, <2>2 DEF Last
  <2>4. \A t \in Sessions : Last(t)' \in Nat /\ Last(t) <= Last(t)'
    BY <1>3, <2>3
  <2>5. alive[s] = NoRun
    BY <1>2, <1>6 DEF RunInv
  <2>6. \A t \in Sessions : file'[t] = << >> => alive[t] = NoRun
    BY <1>2, <2>1, <2>2 DEF RunInv
  <2>7. creation' \in Sessions => Last(creation)' = 1 /\ alive[creation'] = NoRun
    BY <1>4, <1>6, <2>3, <2>5 DEF Last
  <2>8. RunInv'
    BY <1>1, <1>2, <1>3, <2>6, <2>7 DEF RunInv
  <2> QED
    BY <1>1, <1>2, <1>3, <2>2, <2>4, <2>8, ServerStep DEF Types
<1> QED
  BY <1>1, <1>5, <1>6 DEF CreationServed

-----------------------------------------------------------------------------
(* Steps beside the ledger, the loads and the run.                         *)

LEMMA PlainStep ==
  ASSUME TabInv,
         UNCHANGED <<file, alive, wire, run, runs, creation, history, loads>>,
         gone' \subseteq Sessions, asked' \subseteq Runs,
         page' \in Sessions \cup {NoSession},
         catalog' \in [status : {"loading", "ready", "error"},
                       data : SUBSET Sessions],
         transport' \in {"idle", "starting", "streaming", "stopping", "error"},
         lists' \in [Lists -> Requests]
  PROVE  TabInv'
<1>1. Types /\ LoadsInv /\ RunInv /\ LedgerInv
  BY DEF TabInv
<1>2. Types'
  BY <1>1 DEF Types
<1> QED
  BY <1>1, <1>2, LoadsStay, RunStays, LedgerStays DEF TabInv

LEMMA RequestFields ==
  ASSUME Types, NEW x \in Lists
  PROVE  lists[x] \in Requests /\ lists[x].data \subseteq Sessions
  BY DEF Types, Requests

LEMMA Asked ==
  ASSUME Types, NEW x \in Lists, AskList(x)
  PROVE  /\ lists' \in [Lists -> Requests]
         /\ catalog' \in [status : {"loading", "ready", "error"},
                          data : SUBSET Sessions]
  BY DEF AskList, Types, Requests

LEMMA PlainKeeps ==
  ASSUME TabInv,
         \/ DeletionServed \/ CloseDeletion \/ ConfirmDeletion
         \/ \E r \in Runs : CancelServed(r) \/ CancelFails(r)
         \/ \E x \in Lists : ListRead(x) \/ ListArrives(x) \/ RetryList(x)
         \/ \E s \in Sessions : Follow(s) \/ OpenDeletion(s)
         \/ \E s \in Sessions \cup {NoSession} : Back(s)
         \/ Stop \/ WorkspaceArrives
  PROVE  TabInv'
<1> USE DEF server, tab, calls
<1>1. Types
  BY DEF TabInv
<1>2. /\ gone \subseteq Sessions /\ asked \subseteq Runs
      /\ page \in Sessions \cup {NoSession}
      /\ catalog \in [status : {"loading", "ready", "error"},
                      data : SUBSET Sessions]
      /\ transport \in {"idle", "starting", "streaming", "stopping", "error"}
      /\ lists \in [Lists -> Requests]
  BY <1>1 DEF Types
<1>3. CASE DeletionServed
  <2>1. gone' \subseteq Sessions
    BY <1>2, <1>3 DEF DeletionServed, Exists
  <2>2. UNCHANGED <<file, alive, asked, wire, page, catalog, history, transport,
                    run, runs, creation, lists, loads>>
    BY <1>3 DEF DeletionServed
  <2> QED
    BY <1>2, <2>1, <2>2, PlainStep
<1>4. CASE CloseDeletion \/ ConfirmDeletion
  BY <1>2, <1>4, PlainStep DEF CloseDeletion, ConfirmDeletion
<1>5. ASSUME NEW r \in Runs, CancelServed(r) PROVE TabInv'
  <2>1. asked' \subseteq Runs
    BY <1>2, <1>5 DEF CancelServed
  <2>2. UNCHANGED <<file, gone, alive, wire, page, catalog, history, transport,
                    run, runs, creation, lists, loads>>
    BY <1>5 DEF CancelServed
  <2> QED
    BY <1>2, <2>1, <2>2, PlainStep
<1>6. ASSUME NEW r \in Runs, CancelFails(r) PROVE TabInv'
  BY <1>2, <1>6, PlainStep DEF CancelFails
<1>7. ASSUME NEW x \in Lists, ListRead(x) PROVE TabInv'
  <2>1. lists' \in [Lists -> Requests]
    BY <1>2, <1>7 DEF ListRead, Requests
  <2>2. UNCHANGED <<file, gone, alive, asked, wire, page, catalog, history,
                    transport, run, runs, creation, loads>>
    BY <1>7 DEF ListRead
  <2> QED
    BY <1>2, <2>1, <2>2, PlainStep
<1>8. ASSUME NEW x \in Lists, ListArrives(x) PROVE TabInv'
  <2>1. lists[x].data \subseteq Sessions
    BY <1>1, RequestFields
  <2>2. /\ catalog' \in [status : {"loading", "ready", "error"},
                         data : SUBSET Sessions]
        /\ lists' \in [Lists -> Requests]
    BY <1>2, <1>8, <2>1 DEF ListArrives, Requests
  <2>3. UNCHANGED <<file, gone, alive, asked, wire, page, history,
                    transport, run, runs, creation, loads>>
    BY <1>8 DEF ListArrives
  <2> QED
    BY <1>2, <2>2, <2>3, PlainStep
<1>9. ASSUME NEW x \in Lists, RetryList(x) PROVE TabInv'
  <2>1. /\ AskList(x)
        /\ UNCHANGED <<file, gone, alive, asked, wire, page, history,
                       transport, run, runs, creation, loads>>
    BY <1>9 DEF RetryList
  <2> QED
    BY <1>1, <1>2, <2>1, Asked, PlainStep
<1>10. ASSUME NEW s \in Sessions \cup {NoSession},
             Back(s) \/ (s \in Sessions /\ Follow(s))
       PROVE  TabInv'
  BY <1>2, <1>10, PlainStep DEF Back, Follow
<1>11. ASSUME NEW s \in Sessions, OpenDeletion(s) PROVE TabInv'
  BY <1>2, <1>11, PlainStep DEF OpenDeletion
<1>12. CASE Stop
  BY <1>2, <1>12, PlainStep DEF Stop
<1>13. CASE WorkspaceArrives
  BY <1>2, <1>13, PlainStep DEF WorkspaceArrives
<1> QED
  BY <1>3, <1>4, <1>5, <1>6, <1>7, <1>8, <1>9, <1>10, <1>11, <1>12, <1>13


-----------------------------------------------------------------------------
(* Steps of the loads, and what is shown after them.                       *)

LEMMA LoadStep ==
  ASSUME TabInv,
         UNCHANGED <<file, gone, alive, asked, wire, run, runs, creation>>,
         page' \in Sessions \cup {NoSession},
         catalog' \in [status : {"loading", "ready", "error"},
                       data : SUBSET Sessions],
         transport' \in {"idle", "starting", "streaming", "stopping", "error"},
         lists' \in [Lists -> Requests], loads' \subseteq LoadType,
         history' \in Ledgers, LoadsInv', LedgerInv'
  PROVE  TabInv'
<1>1. Types /\ RunInv
  BY DEF TabInv
<1>2. Types'
  BY <1>1 DEF Types
<1> QED
  BY <1>1, <1>2, RunStays DEF TabInv

LEMMA LedgerHidden ==
  ASSUME LedgerInv, UNCHANGED <<file, wire, run>>, history'.status /= "ready",
         history'.status /= "idle" => history'.session \in Sessions
  PROVE  LedgerInv'
<1>1. Shown' = {}
  BY DEF Shown, Ready
<1>2. run.step /= "idle" => Numbered(wire.queue, Last(wire.session), {})
  BY NumberedFew DEF LedgerInv
<1>3. Len(file'[wire'.session]) = Last(wire.session)
  BY DEF Last
<1> QED
  BY <1>1, <1>2, <1>3 DEF LedgerInv, Last

LEMMA LedgerReloaded ==
  ASSUME Types, LedgerInv, UNCHANGED <<file, wire, run>>,
         history'.status = "ready", NEW s \in Sessions, history'.session = s,
         NEW n \in Nat, n <= Last(s), history'.durable = 1..n
  PROVE  LedgerInv'
<1>1. Last(s) \in Nat /\ 1..n \subseteq 1..Last(s)
  BY Lasts
<1>2. Shown' = IF wire.session = s THEN 1..n ELSE {}
  BY DEF Shown, Ready
<1>3. ASSUME run.step /= "idle"
      PROVE  Numbered(wire.queue, Last(wire.session), Shown')
  <2>1. Numbered(wire.queue, Last(wire.session), Shown)
    BY <1>3 DEF LedgerInv
  <2>2. wire.queue \in Seq(Nat)
    BY WireFields
  <2>3. Numbered(wire.queue, Last(wire.session), 1..n)
    BY <2>1, <2>2, NumberedReload
  <2>4. Numbered(wire.queue, Last(wire.session), {})
    BY <2>1, NumberedFew
  <2> QED
    BY <1>2, <2>3, <2>4
<1>4. Len(file'[wire'.session]) = Last(wire.session) /\ Len(file'[s]) = Last(s)
  BY DEF Last
<1> QED
  BY <1>1, <1>3, <1>4 DEF LedgerInv, Last

LEMMA LoadFields ==
  ASSUME Types, NEW l \in loads
  PROVE  /\ l \in LoadType /\ l.session \in Sessions /\ l.reply.last \in Nat
         /\ l.reply.tail \in Nat /\ l.after \in Nat /\ l.owns \in BOOLEAN
  BY DEF Types, LoadType

LEMMA NewLoad ==
  ASSUME NEW s \in Sessions, NEW ofEffect \in BOOLEAN, NEW of \in Runs \cup {NoRun},
         NEW settles \in BOOLEAN
  PROVE  /\ Load(s, ofEffect, of, settles) \in LoadType
         /\ Load(s, ofEffect, of, settles).session = s
         /\ Load(s, ofEffect, of, settles).reply.last = 0
  BY DEF Load, LoadType, NoReply

LEMMA DisownedLoads ==
  ASSUME Types, LoadsInv, NEW L \in SUBSET loads
  PROVE  \A m \in Disowned(L) :
            m \in LoadType /\ ~m.owns /\ m.reply.last <= Last(m.session)
<1> SUFFICES ASSUME NEW m \in Disowned(L)
             PROVE  m \in LoadType /\ ~m.owns /\ m.reply.last <= Last(m.session)
  OBVIOUS
<1> PICK l \in L : m = [l EXCEPT !.owns = FALSE]
  BY DEF Disowned
<1>1. l \in LoadType /\ l.reply.last <= Last(l.session)
  BY LoadFields DEF LoadsInv
<1>2. m \in LoadType /\ ~m.owns /\ m.reply = l.reply /\ m.session = l.session
  BY <1>1 DEF LoadType
<1> QED
  BY <1>1, <1>2

LEMMA OnlyDisowned ==
  ASSUME Types, LoadsInv, NEW L \in SUBSET loads, file' = file,
         loads' = Disowned(L)
  PROVE  loads' \subseteq LoadType /\ LoadsInv'
<1>1. \A m \in loads' : m \in LoadType /\ ~m.owns /\ m.reply.last <= Last(m.session)
  BY DisownedLoads
<1>2. \A m \in loads' : m.reply.last <= Len(file'[m.session])
  BY <1>1 DEF Last
<1> QED
  BY <1>1, <1>2 DEF LoadsInv, Last

LEMMA OneOwner ==
  ASSUME Types, LoadsInv, NEW L \in SUBSET loads, file' = file,
         NEW l \in LoadType, l.reply.last = 0,
         loads' = Disowned(L) \cup {l}
  PROVE  loads' \subseteq LoadType /\ LoadsInv'
<1>1. \A m \in Disowned(L) :
         m \in LoadType /\ ~m.owns /\ m.reply.last <= Len(file'[m.session])
  BY DisownedLoads DEF Last
<1>2. l.session \in Sessions /\ Len(file'[l.session]) \in Nat
  BY Lasts DEF LoadType, Last
<1>3. \A m \in loads' : m.reply.last <= Len(file'[m.session])
  BY <1>1, <1>2
<1>4. \A m \in loads' : m.owns => m = l
  BY <1>1
<1> QED
  BY <1>1, <1>3, <1>4 DEF LoadsInv, Last

LEMMA FewerLoads ==
  ASSUME Types, LoadsInv, loads' \subseteq loads, file' = file
  PROVE  loads' \subseteq LoadType /\ LoadsInv'
<1>1. \A l \in loads' : l.reply.last <= Last(l.session) /\ Len(file'[l.session]) = Last(l.session)
  BY DEF LoadsInv, Last
<1>2. \A l \in loads' : \A m \in loads' : l.owns /\ m.owns => l = m
  BY DEF LoadsInv
<1>3. loads' \subseteq LoadType
  BY DEF Types
<1> QED
  BY <1>1, <1>2, <1>3 DEF LoadsInv, Last

LEMMA LoadMoves ==
  ASSUME Types, LoadsInv, file' = file, NEW l \in loads, NEW m \in LoadType,
         m.session = l.session, m.owns = l.owns,
         m.reply.last <= Last(l.session), loads' = (loads \ {l}) \cup {m}
  PROVE  loads' \subseteq LoadType /\ LoadsInv'
<1>1. \A k \in loads' : (k \in loads /\ k /= l) \/ k = m
  OBVIOUS
<1>2. \A k \in loads' : k.reply.last <= Last(k.session) /\ Len(file'[k.session]) = Last(k.session)
  BY <1>1 DEF LoadsInv, Last
<1>3. \A k \in loads' : \A j \in loads' : k.owns /\ j.owns => k = j
  BY <1>1 DEF LoadsInv
<1>4. loads' \subseteq LoadType
  BY <1>1 DEF Types
<1> QED
  BY <1>2, <1>3, <1>4 DEF LoadsInv, Last


LEMMA RecoverKeeps ==
  ASSUME TabInv, NEW L \in SUBSET loads, NEW l \in LoadType, l.reply.last = 0,
         Recover(L, l),
         UNCHANGED <<file, gone, alive, asked, wire, page, catalog, transport,
                     run, runs, creation, lists>>
  PROVE  TabInv'
<1>1. Types /\ LoadsInv /\ LedgerInv
  BY DEF TabInv
<1>2. loads' \subseteq LoadType /\ LoadsInv'
  BY <1>1, OneOwner DEF Recover
<1>3. l.session \in Sessions
  BY DEF LoadType
<1>4. CASE Ready(l.session)
  <2>1. history' = history
    BY <1>4 DEF Recover
  <2>2. LedgerInv'
    BY <1>1, <2>1, LedgerStays
  <2> QED
    BY <1>1, <1>2, <2>1, <2>2, LoadStep DEF Types
<1>5. CASE ~Ready(l.session)
  <2>1. /\ history' \in Ledgers /\ history'.status = "loading"
        /\ history'.session = l.session
    BY <1>3, <1>5 DEF Recover, Idle, Ledgers
  <2>2. LedgerInv'
    BY <1>1, <1>3, <2>1, LedgerHidden
  <2> QED
    BY <1>1, <1>2, <2>1, <2>2, LoadStep DEF Types
<1> QED
  BY <1>4, <1>5

LEMMA RenderKeeps ==
  ASSUME TabInv, Render
  PROVE  TabInv'
<1>1. /\ UNCHANGED <<file, gone, alive, asked, wire, page, catalog, transport,
                     run, runs, creation, lists>>
  BY DEF Render, server
<1>2. Types /\ LoadsInv /\ LedgerInv
  BY DEF TabInv
<1> PICK others : others = {l \in loads : ~l.effect}
  OBVIOUS
<1>3. others \in SUBSET loads
  OBVIOUS
<1>4. CASE Key.known /\ ~Key.ready /\ ~Key.running
  <2>1. page \in Sessions
    BY <1>2, <1>4 DEF Key, Listed, Types
  <2>2. NoRun \in Runs \cup {NoRun} /\ TRUE \in BOOLEAN /\ FALSE \in BOOLEAN
    OBVIOUS
  <2> PICK l : l = Load(page, TRUE, NoRun, FALSE)
    OBVIOUS
  <2>3. l \in LoadType /\ l.reply.last = 0
    BY <2>1, <2>2, NewLoad
  <2>4. Recover(others, l)
    BY <1>4 DEF Render
  <2> QED
    BY <1>1, <1>3, <2>3, <2>4, RecoverKeeps
<1>5. CASE ~(Key.known /\ ~Key.ready /\ ~Key.running)
  <2>1. loads' = others /\ history' = history
    BY <1>5 DEF Render
  <2>2. loads' \subseteq LoadType /\ LoadsInv'
    BY <1>1, <1>2, <1>3, <2>1, FewerLoads
  <2>3. LedgerInv'
    BY <1>1, <1>2, <2>1, LedgerStays
  <2> QED
    BY <1>1, <1>2, <2>1, <2>2, <2>3, LoadStep DEF Types
<1> QED
  BY <1>4, <1>5

LEMMA RetryKeeps ==
  ASSUME TabInv, Retry
  PROVE  TabInv'
<1>1. UNCHANGED <<file, gone, alive, asked, wire, page, catalog, transport,
                  run, runs, creation, lists>>
  BY DEF Retry, server
<1>2. page \in Sessions
  BY DEF Retry, TabInv, LedgerInv
<1>3. NoRun \in Runs \cup {NoRun} /\ FALSE \in BOOLEAN
  OBVIOUS
<1> PICK l : l = Load(page, FALSE, NoRun, FALSE)
  OBVIOUS
<1>4. l \in LoadType /\ l.reply.last = 0
  BY <1>2, <1>3, NewLoad
<1>5. Recover(loads, l) /\ loads \in SUBSET loads
  BY DEF Retry
<1> QED
  BY <1>1, <1>4, <1>5, RecoverKeeps

LEMMA PageKeeps ==
  ASSUME TabInv, NEW l \in loads, PageRead(l) \/ NextPage(l)
  PROVE  TabInv'
<1>1. Types /\ LoadsInv /\ LedgerInv
  BY DEF TabInv
<1>2. UNCHANGED <<file, gone, alive, asked, wire, page, catalog, history,
                  transport, run, runs, creation, lists>>
  BY DEF PageRead, NextPage, server, tab
<1>3. /\ l \in LoadType /\ l.session \in Sessions /\ l.reply.last \in Nat
      /\ l.reply.tail \in Nat /\ l.after \in Nat
      /\ Last(l.session) \in Nat /\ PageSize \in Nat
  BY <1>1, LoadFields, Lasts, ClientAssumption
<1>4. PICK m : /\ m \in LoadType /\ m.session = l.session /\ m.owns = l.owns
               /\ m.reply.last <= Last(l.session)
               /\ loads' = (loads \ {l}) \cup {m}
  <2>1. CASE PageRead(l)
    <3> PICK last \in Nat : last = Last(l.session)
      BY <1>3
    <3> PICK tail \in Nat : tail = IF l.after + PageSize < last
                                   THEN l.after + PageSize ELSE last
      <4>1. l.after + PageSize \in Nat
        BY <1>3
      <4> QED
        BY <4>1
    <3> PICK state \in {"read", "failed"} :
             loads' = (loads \ {l}) \cup {[l EXCEPT !.reply =
                 [state |-> state, tail |-> tail, last |-> last]]}
      BY <2>1 DEF PageRead
    <3> PICK m : m = [l EXCEPT !.reply =
                 [state |-> state, tail |-> tail, last |-> last]]
      OBVIOUS
    <3>1. m \in LoadType /\ m.session = l.session /\ m.owns = l.owns
          /\ m.reply.last = last
      BY <1>3 DEF LoadType
    <3>2. last <= last
      OBVIOUS
    <3> QED
      BY <3>1, <3>2
  <2>2. CASE NextPage(l)
    <3> PICK m : m = [l EXCEPT !.after = l.reply.tail,
                     !.stable = l.reply.last, !.reply = NoReply]
      OBVIOUS
    <3>1. m \in LoadType /\ m.session = l.session /\ m.owns = l.owns
          /\ m.reply.last = 0
      BY <1>3 DEF LoadType, NoReply
    <3>2. 0 <= Last(l.session)
      BY <1>3
    <3>3. loads' = (loads \ {l}) \cup {m}
      BY <2>2 DEF NextPage
    <3> QED
      BY <3>1, <3>2, <3>3
  <2> QED
    BY <2>1, <2>2
<1>5. loads' \subseteq LoadType /\ LoadsInv'
  BY <1>1, <1>2, <1>4, LoadMoves
<1>6. LedgerInv'
  BY <1>1, <1>2, LedgerStays
<1> QED
  BY <1>1, <1>2, <1>5, <1>6, LoadStep DEF Types

LEMMA ReturnKeeps ==
  ASSUME TabInv, NEW l \in loads, Commit(l) \/ LoadFails(l)
  PROVE  TabInv'
<1>1. Types /\ LoadsInv /\ LedgerInv
  BY DEF TabInv
<1>2. /\ loads' = loads \ {l} /\ transport' \in {transport, "idle"}
      /\ UNCHANGED <<file, gone, alive, asked, wire, page, catalog,
                     run, runs, creation, lists>>
  BY DEF Commit, LoadFails, Returns, server
<1>3. loads' \subseteq LoadType /\ LoadsInv'
  BY <1>1, <1>2, FewerLoads
<1>4. l.session \in Sessions /\ l.reply.last \in Nat /\ l.reply.last <= Last(l.session)
  BY <1>1, LoadFields DEF LoadsInv
<1>5. \/ history' = history
      \/ history' = [status |-> "ready", session |-> l.session,
                     durable |-> 1..l.reply.last, live |-> FALSE]
      \/ history' = [Idle EXCEPT !.status = "error", !.session = l.session]
  BY DEF Commit, LoadFails
<1>6. history' \in Ledgers /\ LedgerInv'
  <2>1. CASE history' = history
    BY <1>1, <1>2, <2>1, LedgerStays DEF Types
  <2>2. CASE history' = [status |-> "ready", session |-> l.session,
                         durable |-> 1..l.reply.last, live |-> FALSE]
    <3>1. /\ history'.status = "ready" /\ history'.session = l.session
          /\ history'.durable = 1..l.reply.last
      BY <2>2
    <3>2. 1..l.reply.last \subseteq Nat
      BY <1>4
    <3>3. history' \in Ledgers
      BY <1>4, <2>2, <3>2 DEF Ledgers
    <3> QED
      BY <1>1, <1>2, <1>4, <3>1, <3>3, LedgerReloaded
  <2>3. CASE history' = [Idle EXCEPT !.status = "error", !.session = l.session]
    <3>1. /\ history' \in Ledgers /\ history'.status = "error"
          /\ history'.session = l.session
      BY <1>4, <2>3 DEF Idle, Ledgers
    <3> QED
      BY <1>1, <1>2, <1>4, <3>1, LedgerHidden
  <2> QED
    BY <1>5, <2>1, <2>2, <2>3
<1>7. transport' \in {"idle", "starting", "streaming", "stopping", "error"}
  BY <1>1, <1>2 DEF Types
<1> QED
  BY <1>1, <1>2, <1>3, <1>6, <1>7, LoadStep DEF Types

LEMMA StartNewTaskKeeps ==
  ASSUME TabInv, StartNewTask \/ StartNewTaskInWorkspace
  PROVE  TabInv'
<1>1. Types /\ LoadsInv /\ LedgerInv
  BY DEF TabInv
<1>2. /\ loads' = Disowned(loads) /\ history' = Idle
      /\ page' \in {page, NoSession}
      /\ UNCHANGED <<file, gone, alive, asked, wire, catalog, transport,
                     run, runs, creation, lists>>
  BY DEF StartNewTask, StartNewTaskInWorkspace, LeaveHistory, server
<1>3. loads' \subseteq LoadType /\ LoadsInv'
  BY <1>1, <1>2, OnlyDisowned
<1>4. history' \in Ledgers /\ history'.status = "idle"
  BY <1>2 DEF Idle, Ledgers
<1>5. LedgerInv'
  BY <1>1, <1>2, <1>4, LedgerHidden
<1> QED
  BY <1>1, <1>2, <1>3, <1>4, <1>5, LoadStep DEF Types

LEMMA DeletionReturnsKeeps ==
  ASSUME TabInv, NEW x \in Lists, DeletionReturns(x)
  PROVE  TabInv'
<1>1. Types /\ LoadsInv /\ LedgerInv
  BY DEF TabInv
<1>2. /\ AskList(x)
      /\ UNCHANGED <<file, gone, alive, asked, wire, transport, run, runs,
                     creation>>
  BY DEF DeletionReturns, server
<1>3. /\ lists' \in [Lists -> Requests]
      /\ catalog' \in [status : {"loading", "ready", "error"},
                       data : SUBSET Sessions]
  BY <1>1, <1>2, Asked
<1>4. CASE UNCHANGED <<page, history, loads>>
  <2>1. LoadsInv' /\ LedgerInv'
    BY <1>1, <1>2, <1>4, LoadsStay, LedgerStays
  <2> QED
    BY <1>1, <1>2, <1>3, <1>4, <2>1, LoadStep DEF Types
<1>5. CASE page' = NoSession /\ history' = Idle /\ loads' = Disowned(loads)
  <2>1. loads' \subseteq LoadType /\ LoadsInv'
    BY <1>1, <1>2, <1>5, OnlyDisowned
  <2>2. history' \in Ledgers /\ history'.status = "idle"
    BY <1>5 DEF Idle, Ledgers
  <2>3. LedgerInv'
    BY <1>1, <1>2, <2>2, LedgerHidden
  <2> QED
    BY <1>1, <1>2, <1>3, <1>5, <2>1, <2>2, <2>3, LoadStep DEF Types
<1> QED
  BY <1>4, <1>5 DEF DeletionReturns


-----------------------------------------------------------------------------
(* Runs.                                                                   *)

LEMMA RunStep ==
  ASSUME TabInv, UNCHANGED <<file, gone, alive, lists>>,
         asked' \subseteq Runs, page' \in Sessions \cup {NoSession},
         catalog' \in [status : {"loading", "ready", "error"},
                       data : SUBSET Sessions],
         transport' \in {"idle", "starting", "streaming", "stopping", "error"},
         wire' \in Wires, run' \in Starts, runs' \in 0..MaxRuns,
         history' \in Ledgers, loads' \subseteq LoadType,
         LoadsInv', RunInv', LedgerInv'
  PROVE  TabInv'
<1>1. Types'
  BY DEF Types, TabInv
<1> QED
  BY <1>1 DEF TabInv

LEMMA RunTypes ==
  ASSUME TabInv
  PROVE  /\ asked \subseteq Runs /\ page \in Sessions \cup {NoSession}
         /\ catalog \in [status : {"loading", "ready", "error"},
                         data : SUBSET Sessions]
         /\ transport \in {"idle", "starting", "streaming", "stopping", "error"}
         /\ wire \in Wires /\ run \in Starts /\ runs \in 0..MaxRuns
         /\ history \in Ledgers /\ loads \subseteq LoadType
         /\ LoadsInv /\ RunInv /\ LedgerInv /\ Types
         /\ NoSession \notin Sessions
  BY ClientAssumption DEF TabInv, Types

LEMMA CreateKeeps ==
  ASSUME TabInv, Create \/ CreationFails
  PROVE  TabInv'
<1>1. /\ UNCHANGED <<file, gone, alive, asked, wire, page, catalog, history,
                     transport, run, runs, lists, loads>>
      /\ run.step = "idle" /\ creation' \notin Sessions
  <2>1. creation = "failed" => run.step = "idle"
    BY DEF TabInv, RunInv
  <2>2. "none" \notin Sessions /\ "asked" \notin Sessions
    BY ClientAssumption
  <2> QED
    BY <2>1, <2>2 DEF Create, CreationFails, Locked, server, tab
<1>2. RunInv'
  BY <1>1 DEF TabInv, RunInv, Last
<1>3. LoadsInv' /\ LedgerInv'
  BY <1>1, LoadsStay, LedgerStays DEF TabInv
<1> QED
  BY <1>1, <1>2, <1>3, RunTypes, RunStep

\* Whatever is shown then.
LEMMA AskKeeps ==
  ASSUME TabInv, NEW s \in Sessions, Ask(s), creation' = "none",
         UNCHANGED <<file, gone, alive, asked, lists, loads>>,
         page' \in Sessions \cup {NoSession},
         catalog' \in [status : {"loading", "ready", "error"},
                       data : SUBSET Sessions],
         history' \in Ledgers,
         history'.status /= "idle" => history'.session \in Sessions,
         history'.status = "ready" =>
            history'.durable \subseteq 1..Len(file[history'.session])
  PROVE  TabInv'
<1>1. /\ runs' = runs + 1 /\ runs < MaxRuns /\ transport' = "starting"
      /\ run' = [step |-> "starting", session |-> s, id |-> NoRun, seen |-> FALSE]
      /\ wire' = [state |-> "asked", session |-> s, run |-> runs + 1,
                  queue |-> << >>]
  BY DEF Ask
<1>2. /\ runs \in 0..MaxRuns /\ MaxRuns \in Nat /\ RunInv /\ Types /\ LoadsInv
      /\ asked \subseteq Runs /\ loads \subseteq LoadType
  BY RunTypes, ClientAssumption
<1>3. runs + 1 \in Runs /\ runs + 1 \in 0..MaxRuns /\ runs + 1 /= NoRun
  BY <1>1, <1>2 DEF Runs, NoRun
<1>4. << >> \in Seq(Nat)
  OBVIOUS
<1>5. wire' \in Wires /\ run' \in Starts
  BY <1>1, <1>3, <1>4 DEF Wires, Starts
<1>6. \A t \in Sessions : alive[t] <= runs + 1 /\ alive[t] /= runs + 1
  <2>1. \A t \in Sessions : alive[t] <= runs /\ alive[t] \in Nat
    <3>1. \A t \in Sessions : alive[t] \in Runs \cup {NoRun}
      BY <1>2 DEF Types
    <3> QED
      BY <1>2, <3>1 DEF RunInv, Runs, NoRun
  <2> QED
    BY <1>2, <2>1
<1>7. \A t \in Sessions : file[t] = << >> => alive[t] = NoRun
  BY <1>2 DEF RunInv
<1>8. creation' \notin Sessions
  BY ClientAssumption
<1>9. RunInv'
  BY <1>1, <1>3, <1>6, <1>7, <1>8 DEF RunInv
<1>10. LedgerInv'
  BY <1>1, NumberedNone DEF LedgerInv, Last
<1>11. LoadsInv'
  BY <1>2, LoadsStay
<1>12. transport' \in {"idle", "starting", "streaming", "stopping", "error"}
  BY <1>1
<1> QED
  BY <1>1, <1>2, <1>3, <1>5, <1>9, <1>10, <1>11, <1>12, RunStep

LEMMA SubmitKeeps ==
  ASSUME TabInv, Submit
  PROVE  TabInv'
<1>1. /\ Ask(page) /\ creation = "none" /\ page \in catalog.data
      /\ UNCHANGED <<file, gone, alive, asked, page, catalog, history,
                     creation, lists, loads>>
  BY DEF Submit, Locked, Listed, server
<1>2. page \in Sessions
  BY <1>1, RunTypes
<1>3. /\ history.status /= "idle" => history.session \in Sessions
      /\ history.status = "ready" =>
            history.durable \subseteq 1..Len(file[history.session])
  BY RunTypes DEF LedgerInv, Last
<1> QED
  BY <1>1, <1>2, <1>3, RunTypes, AskKeeps

LEMMA CreationReturnsKeeps ==
  ASSUME TabInv, CreationReturns
  PROVE  TabInv'
<1> PICK s \in Sessions : s = creation
  BY DEF CreationReturns
<1>1. /\ Ask(s) /\ creation' = "none" /\ page' = s
      /\ history' = [status |-> "ready", session |-> s, durable |-> {1},
                     live |-> FALSE]
      /\ catalog' = [status |-> "ready", data |-> {s} \cup catalog.data]
      /\ UNCHANGED <<file, gone, alive, asked, lists, loads>>
  BY DEF CreationReturns, server
<1>2. Len(file[s]) = 1
  BY RunTypes DEF RunInv, Last
<1>3. {1} \subseteq Nat /\ {1} \subseteq 1..1
  OBVIOUS
<1>4. /\ history' \in Ledgers /\ history'.session = s
      /\ history'.durable \subseteq 1..Len(file[history'.session])
  BY <1>1, <1>2, <1>3 DEF Ledgers
<1>5. catalog.data \subseteq Sessions
  BY RunTypes
<1>6. /\ catalog' \in [status : {"loading", "ready", "error"},
                       data : SUBSET Sessions]
      /\ page' \in Sessions \cup {NoSession}
  BY <1>1, <1>5
<1> QED
  BY <1>1, <1>4, <1>6, AskKeeps

LEMMA RespondsKeeps ==
  ASSUME TabInv, Responds
  PROVE  TabInv'
<1>1. /\ run' = [run EXCEPT !.step = "reading"] /\ run.step = "starting"
      /\ transport' = "streaming"
      /\ UNCHANGED <<file, gone, alive, asked, wire, page, catalog, history,
                     runs, creation, lists, loads>>
  BY DEF Responds, server
<1>2. run' \in Starts /\ run'.step = "reading" /\ run'.session = run.session
  BY <1>1, RunTypes DEF Starts
<1>3. RunInv'
  BY <1>1, <1>2, RunTypes DEF RunInv, Last
<1>4. Shown' = Shown
  BY <1>1 DEF Shown, Ready
<1>5. LedgerInv'
  BY <1>1, <1>2, <1>4, RunTypes DEF LedgerInv, Last
<1>6. LoadsInv'
  BY <1>1, RunTypes, LoadsStay
<1>7. transport' \in {"idle", "starting", "streaming", "stopping", "error"}
  BY <1>1
<1> QED
  BY <1>1, <1>2, <1>3, <1>5, <1>6, <1>7, RunTypes, RunStep

LEMMA AbandonedRuns ==
  Abandoned(wire) \subseteq Runs
  BY DEF Abandoned

LEMMA StopStartingKeeps ==
  ASSUME TabInv, StopStarting
  PROVE  TabInv'
<1>1. /\ run.step = "starting" /\ asked' = asked \cup Abandoned(wire)
      /\ wire' = [wire EXCEPT !.state = "aborted", !.queue = << >>]
      /\ UNCHANGED <<file, gone, alive, page, catalog, history, transport,
                     run, runs, creation, lists, loads>>
  BY DEF StopStarting, tab, calls
<1>2. << >> \in Seq(Nat)
  OBVIOUS
<1>3. /\ wire' \in Wires /\ wire'.state = "aborted" /\ wire'.queue = << >>
      /\ wire'.session = wire.session /\ wire'.run = wire.run
  BY <1>1, <1>2, RunTypes DEF Wires
<1>4. RunInv'
  BY <1>1, <1>3, RunTypes DEF RunInv, Last
<1>5. LedgerInv'
  BY <1>1, <1>3, RunTypes, NumberedNone DEF LedgerInv, Last
<1>6. LoadsInv'
  BY <1>1, RunTypes, LoadsStay
<1>7. asked' \subseteq Runs
  BY <1>1, RunTypes, AbandonedRuns
<1> QED
  BY <1>1, <1>3, <1>4, <1>5, <1>6, <1>7, RunTypes, RunStep

\* The end of startRunForSession.
LEMMA FinallyKeeps ==
  ASSUME TabInv, run.step /= "idle", asked' \subseteq Runs,
         NEW t \in {"idle", "error"}, Finally(t)
  PROVE  TabInv'
<1>1. /\ run' = NoCall /\ wire' = NoWire
      /\ UNCHANGED <<file, gone, alive, page, catalog, history, runs, creation,
                     lists>>
      /\ transport' \in {t, "idle"}
      /\ \/ loads' = loads
         \/ loads' = Disowned(loads)
                     \cup {Load(run.session, FALSE, runs, run.seen)}
  BY DEF Finally
<1>2. << >> \in Seq(Nat) /\ NoSession \in Sessions \cup {NoSession}
      /\ NoRun \in Runs \cup {NoRun}
  OBVIOUS
<1>3. wire' \in Wires /\ run' \in Starts
  BY <1>1, <1>2 DEF NoWire, NoCall, Wires, Starts
<1>4. run'.step = "idle" /\ wire'.state = "none" /\ wire'.queue = << >>
  BY <1>1 DEF NoWire, NoCall
<1>5. creation = "none" /\ "none" \notin Sessions
  BY RunTypes, ClientAssumption DEF RunInv
<1>6. RunInv'
  BY <1>1, <1>4, <1>5, RunTypes DEF RunInv
<1>7. LedgerInv'
  BY <1>1, <1>4, RunTypes DEF LedgerInv, Last
<1>8. loads' \subseteq LoadType /\ LoadsInv'
  <2>1. CASE loads' = loads
    BY <1>1, <2>1, RunTypes, LoadsStay
  <2>2. CASE loads' = Disowned(loads)
                      \cup {Load(run.session, FALSE, runs, run.seen)}
    <3>1. run.session \in Sessions /\ run.seen \in BOOLEAN /\ FALSE \in BOOLEAN
      BY RunTypes DEF RunInv, Starts
    <3>2. runs \in Runs \cup {NoRun}
      BY RunTypes, ClientAssumption DEF Runs, NoRun
    <3> PICK l : l = Load(run.session, FALSE, runs, run.seen)
      OBVIOUS
    <3>3. l \in LoadType /\ l.reply.last = 0
      BY <3>1, <3>2, NewLoad, ZenonT(40)
    <3>4. loads \in SUBSET loads /\ loads' = Disowned(loads) \cup {l}
      BY <2>2
    <3> QED
      BY <1>1, <3>3, <3>4, RunTypes, OneOwner
  <2> QED
    BY <1>1, <2>1, <2>2
<1>9. transport' \in {"idle", "starting", "streaming", "stopping", "error"}
  BY <1>1
<1> QED
  BY <1>1, <1>3, <1>6, <1>7, <1>8, <1>9, RunTypes, RunStep

LEMMA RunEndsKeeps ==
  ASSUME TabInv, StreamEnds \/ StreamBreaks \/ StartFails
  PROVE  TabInv'
<1>1. run.step /= "idle"
  BY DEF StreamEnds, StreamBreaks, StartFails
<1>2. \E t \in {"idle", "error"} : Finally(t)
  BY DEF StreamEnds, StreamBreaks, StartFails
<1>3. asked' \subseteq Runs
  BY RunTypes, AbandonedRuns DEF StreamEnds, StreamBreaks, StartFails
<1> QED
  BY <1>1, <1>2, <1>3, FinallyKeeps


\* What one event of the stream does to the ledger that shows its session:
\* it is not refused.
LEMMA Merged ==
  ASSUME NEW h \in Ledgers, NEW n \in Nat, NEW kind,
         n /= Delta => n \in h.durable \/ \A m \in h.durable : m < n
  PROVE  /\ Merge(h, n, kind) \in Ledgers
         /\ Merge(h, n, kind).status = h.status
         /\ Merge(h, n, kind).session = h.session
         /\ Merge(h, n, kind).durable \in {h.durable, h.durable \cup {n}}
         /\ n = Delta => Merge(h, n, kind).durable = h.durable
<1>1. CASE n = Delta
  BY <1>1 DEF Merge, Ledgers
<1>2. CASE n /= Delta /\ n \in h.durable
  BY <1>2 DEF Merge
<1>3. CASE n /= Delta /\ n \notin h.durable
  <2> PICK b \in BOOLEAN : b = (h.live /\ kind \notin {"message", "terminal"})
    OBVIOUS
  <2> PICK D \in SUBSET Nat : D = h.durable \cup {n}
    BY DEF Ledgers
  <2>1. \A m \in h.durable : m < n
    BY <1>3
  <2>2. Merge(h, n, kind) = [h EXCEPT !.durable = D, !.live = b]
    BY <1>3, <2>1 DEF Merge
  <2>3. [h EXCEPT !.durable = D, !.live = b] \in Ledgers
        /\ [h EXCEPT !.durable = D, !.live = b].status = h.status
        /\ [h EXCEPT !.durable = D, !.live = b].session = h.session
        /\ [h EXCEPT !.durable = D, !.live = b].durable = D
    BY DEF Ledgers
  <2> QED
    BY <1>3, <2>2, <2>3
<1> QED
  BY <1>1, <1>2, <1>3

\* The next event, and the ledger after it.
LEMMA Received ==
  ASSUME TabInv, Receive
  PROVE  /\ history' \in Ledgers /\ history'.status = history.status
         /\ history'.session = history.session
         /\ history.durable \subseteq history'.durable
         /\ Ready(wire.session) =>
               history'.durable \in {history.durable,
                                     history.durable \cup {Head(wire.queue)}}
         /\ ~Ready(wire.session) => history' = history
         /\ Head(wire.queue) = Delta => history'.durable = history.durable
         /\ Head(wire.queue) \in Nat /\ Head(wire.queue) <= Last(wire.session)
         /\ Tail(wire.queue) \in Seq(Nat)
         /\ Numbered(Tail(wire.queue), Last(wire.session), Shown)
         /\ Numbered(Tail(wire.queue), Last(wire.session),
                     Shown \cup {Head(wire.queue)})
<1>1. run.step = "reading" /\ wire.queue /= << >>
  BY DEF Receive
<1>2. /\ wire.session = run.session /\ wire.session \in Sessions
      /\ wire.queue \in Seq(Nat) /\ Numbered(wire.queue, Last(wire.session), Shown)
      /\ Last(wire.session) \in Nat
  BY <1>1, RunTypes, WireFields, Lasts DEF RunInv, LedgerInv
<1> PICK n \in Nat : n = Head(wire.queue)
  BY <1>1, <1>2, NumberedNext
<1>3. /\ n <= Last(wire.session) /\ Tail(wire.queue) \in Seq(Nat)
      /\ n /= Delta => n \in Shown \/ \A m \in Shown : m < n
      /\ Numbered(Tail(wire.queue), Last(wire.session), Shown)
      /\ Numbered(Tail(wire.queue), Last(wire.session), Shown \cup {n})
  BY <1>1, <1>2, NumberedNext
<1> PICK kind : kind = IF n = Delta THEN "delta" ELSE file[run.session][n]
  OBVIOUS
<1>4. history' = IF Ready(run.session) THEN Merge(history, n, kind) ELSE history
  BY DEF Receive
<1>5. history \in Ledgers
  BY RunTypes
<1>6. CASE Ready(wire.session)
  <2>1. Shown = history.durable
    BY <1>6 DEF Shown
  <2>2. history' = Merge(history, n, kind)
    BY <1>2, <1>4, <1>6
  <2>3. n /= Delta => n \in history.durable \/ \A m \in history.durable : m < n
    BY <1>3, <2>1
  <2>4. /\ history' \in Ledgers
        /\ history'.status = history.status
        /\ history'.session = history.session
        /\ history'.durable \in {history.durable, history.durable \cup {n}}
        /\ n = Delta => history'.durable = history.durable
    BY <1>5, <2>2, <2>3, Merged
  <2> QED
    BY <1>3, <1>6, <2>4
<1>7. CASE ~Ready(wire.session)
  BY <1>2, <1>3, <1>4, <1>5, <1>7
<1> QED
  BY <1>6, <1>7

LEMMA ReceiveKeeps ==
  ASSUME TabInv, Receive
  PROVE  TabInv'
<1>1. /\ run.step = "reading" /\ wire.queue /= << >>
      /\ wire' = [wire EXCEPT !.queue = Tail(@)]
      /\ UNCHANGED <<file, gone, alive, asked, page, catalog, transport,
                     runs, creation, lists, loads>>
  BY DEF Receive, server
<1> PICK n : n = Head(wire.queue)
  OBVIOUS
<1> PICK q : q = Tail(wire.queue)
  OBVIOUS
<1> PICK top : top = Last(wire.session)
  OBVIOUS
<1>2. /\ history' \in Ledgers /\ history'.status = history.status
      /\ history'.session = history.session
      /\ Ready(wire.session) => history'.durable \in {history.durable,
                                                      history.durable \cup {n}}
      /\ ~Ready(wire.session) => history' = history
      /\ n = Delta => history'.durable = history.durable
      /\ n \in Nat /\ n <= top /\ q \in Seq(Nat)
      /\ Numbered(q, top, Shown) /\ Numbered(q, top, Shown \cup {n})
  BY Received
<1>3. /\ wire' \in Wires /\ wire'.queue = q /\ wire'.state = wire.state
      /\ wire'.session = wire.session /\ wire'.run = wire.run
  BY <1>1, <1>2, RunTypes DEF Wires
<1>4. wire.state \in {"open", "closed"} /\ wire.session = run.session
      /\ wire.session \in Sessions
  BY <1>1, RunTypes DEF RunInv
<1>5. run' \in Starts /\ run'.step = "reading" /\ run'.session = run.session
  <2> PICK kind : kind = IF n = Delta THEN "delta" ELSE file[run.session][n]
    OBVIOUS
  <2> PICK id : id = IF kind = "started" THEN wire.run ELSE run.id
    OBVIOUS
  <2> PICK seen \in BOOLEAN : seen = (run.seen \/ kind = "terminal")
    OBVIOUS
  <2>1. run' = [run EXCEPT !.id = id, !.seen = seen]
    BY DEF Receive
  <2>2. id \in Runs \cup {NoRun} /\ run \in Starts
    BY RunTypes DEF Wires, Starts
  <2> QED
    BY <1>1, <2>1, <2>2 DEF Starts
<1>6. RunInv'
  BY <1>1, <1>3, <1>4, <1>5, RunTypes DEF RunInv, Last
<1>7. Numbered(q, top, Shown')
  <2>1. Ready(wire.session)' = Ready(wire.session)
    BY <1>2, <1>3 DEF Ready
  <2>2. CASE Ready(wire.session)
    <3>1. Shown = history.durable /\ Shown' = history'.durable
      BY <2>1, <2>2 DEF Shown
    <3> QED
      BY <1>2, <2>2, <3>1
  <2>3. CASE ~Ready(wire.session)
    <3>1. Shown = {} /\ Shown' = {}
      BY <2>1, <2>3 DEF Shown
    <3> QED
      BY <1>2, <3>1
  <2> QED
    BY <2>2, <2>3
<1>8. history'.status = "ready" =>
         history'.durable \subseteq 1..Last(history'.session)
  <2>1. history.status = "ready" =>
           history.durable \subseteq 1..Last(history.session)
    BY RunTypes DEF LedgerInv
  <2>2. Last(wire.session) \in Nat
    BY <1>4, RunTypes, Lasts
  <2>3. n /= Delta => n \in 1..top
    BY <1>2, <2>2 DEF Delta
  <2>4. CASE Ready(wire.session)
    <3>1. history'.session = wire.session
      BY <1>2, <2>4 DEF Ready
    <3>2. history.durable \subseteq 1..top
      BY <2>1, <2>4 DEF Ready
    <3> QED
      BY <1>2, <2>3, <2>4, <3>1, <3>2
  <2>5. CASE ~Ready(wire.session)
    BY <1>2, <2>1, <2>5
  <2> QED
    BY <2>4, <2>5
<1>9. history'.status /= "idle" => history'.session \in Sessions
  BY <1>2, RunTypes DEF LedgerInv
<1>10. LedgerInv'
  BY <1>1, <1>3, <1>5, <1>7, <1>8, <1>9 DEF LedgerInv, Last
<1>11. LoadsInv'
  BY <1>1, RunTypes, LoadsStay
<1> QED
  BY <1>1, <1>2, <1>3, <1>5, <1>6, <1>10, <1>11, RunTypes, RunStep


-----------------------------------------------------------------------------
(* Every step.                                                             *)

LEMMA TabStarts ==
  ASSUME Init
  PROVE  TabInv
<1>1. << >> \in Seq(Kinds) /\ << >> \in Seq(Nat) /\ <<"created">> \in Seq(Kinds)
  BY DEF Kinds
<1>2. Old \subseteq Sessions /\ MaxRuns \in Nat /\ "none" \notin Sessions
  BY ClientAssumption
<1>3. /\ file \in [Sessions -> Seq(Kinds)]
      /\ alive \in [Sessions -> Runs \cup {NoRun}]
  BY <1>1 DEF Init
<1>4. wire \in Wires /\ history \in Ledgers /\ run \in Starts
  BY <1>1 DEF Init, NoWire, Wires, Idle, Ledgers, NoCall, Starts
<1>5. lists \in [Lists -> Requests]
  BY DEF Init, Requests
<1>6. Types
  BY <1>2, <1>3, <1>4, <1>5 DEF Init, Types
<1>7. LoadsInv
  BY DEF Init, LoadsInv
<1>8. RunInv
  BY <1>2 DEF Init, RunInv, NoWire, NoCall, NoRun
<1>9. LedgerInv
  BY DEF Init, LedgerInv, Idle, NoCall
<1> QED
  BY <1>6, <1>7, <1>8, <1>9 DEF TabInv

LEMMA TabRests ==
  ASSUME TabInv, UNCHANGED vars
  PROVE  TabInv'
<1>1. UNCHANGED <<file, gone, alive, asked, wire, page, catalog, history,
                  transport, run, runs, creation, lists, loads>>
  BY DEF vars, server, tab, calls
<1> QED
  BY <1>1, RunTypes, PlainStep DEF Types

LEMMA TabSteps ==
  ASSUME TabInv, [Next]_vars
  PROVE  TabInv'
<1>1. CASE Serves
  <2>1. ASSUME NEW x \in Lists, ListRead(x) PROVE TabInv'
    BY <2>1, PlainKeeps
  <2>2. ASSUME NEW r \in Runs, CancelServed(r) PROVE TabInv'
    BY <2>2, PlainKeeps
  <2>3. CASE DeletionServed
    BY <2>3, PlainKeeps
  <2> QED
    BY <1>1, <2>1, <2>2, <2>3, AcceptKeeps, RefuseKeeps, CreationServedKeeps,
       PageKeeps DEF Serves
<1>2. CASE Works
  BY <1>2, ProceedKeeps, StreamKeeps, EndKeeps DEF Works
<1>3. CASE Render
  BY <1>3, RenderKeeps
<1>4. CASE Answers
  <2>1. ASSUME NEW x \in Lists, ListArrives(x) PROVE TabInv'
    BY <2>1, PlainKeeps
  <2>2. ASSUME NEW r \in Runs, CancelFails(r) PROVE TabInv'
    BY <2>2, PlainKeeps
  <2>3. CASE WorkspaceArrives
    BY <2>3, PlainKeeps
  <2> QED
    BY <1>4, <2>1, <2>2, <2>3, PageKeeps, ReturnKeeps, DeletionReturnsKeeps,
       CreationReturnsKeeps, CreateKeeps, RespondsKeeps, ReceiveKeeps,
       RunEndsKeeps DEF Answers
<1>5. CASE Clicks
  <2>1. ASSUME NEW s \in Sessions, Follow(s) \/ OpenDeletion(s) PROVE TabInv'
    BY <2>1, PlainKeeps
  <2>2. ASSUME NEW x \in Lists, RetryList(x) PROVE TabInv'
    BY <2>2, PlainKeeps
  <2>3. CASE Stop
    BY <2>3, PlainKeeps
  <2> QED
    BY <1>5, <2>1, <2>2, <2>3, StartNewTaskKeeps, RetryKeeps, CreateKeeps,
       SubmitKeeps, StopStartingKeeps DEF Clicks
<1>6. CASE Dialog
  <2>1. ASSUME NEW s \in Sessions \cup {NoSession}, Back(s) PROVE TabInv'
    BY <2>1, PlainKeeps
  <2>2. CASE CloseDeletion \/ ConfirmDeletion
    BY <2>2, PlainKeeps
  <2> QED
    BY <1>6, <2>1, <2>2 DEF Dialog
<1>7. CASE Breaks
  BY <1>7, RunEndsKeeps DEF Breaks
<1>8. CASE UNCHANGED vars
  BY <1>8, TabRests
<1> QED
  BY <1>1, <1>2, <1>3, <1>4, <1>5, <1>6, <1>7, <1>8 DEF Next

\* The inductive invariant: a stream is the one of the run the tab starts or
\* reads, what it still brings is numbered upwards and is either shown or newer
\* than everything shown, whatever loads replace the ledger in the meantime,
\* and one load at most may replace it (startRunForSession, recoverHistory,
\* HistoryLoadOwnership, mergeAgentEvent).
THEOREM TabInvariant == Spec => []TabInv
<1>1. Init => TabInv
  BY TabStarts
<1>2. TabInv /\ [Next]_vars => TabInv'
  BY TabSteps
<1> QED
  BY <1>1, <1>2, PTL DEF Spec

-----------------------------------------------------------------------------
(* What the user sees.                                                     *)

LEMMA OneLoadOwns ==
  ASSUME TabInv
  PROVE  Cardinality({l \in loads : l.owns}) <= 1
<1> PICK O : O = {l \in loads : l.owns}
  OBVIOUS
<1>1. \A l \in O : \A m \in O : l = m
  BY RunTypes DEF LoadsInv
<1>2. CASE O = {}
  BY <1>2, FS_EmptySet
<1>3. ASSUME NEW l \in O PROVE Cardinality(O) <= 1
  <2>1. O = {l}
    BY <1>1
  <2>2. Cardinality({l}) = 1
    BY FS_Singleton
  <2> QED
    BY <2>1, <2>2
<1> QED
  BY <1>2, <1>3

LEMMA TabTypes ==
  ASSUME TabInv
  PROVE  ClientType
<1>1. Types
  BY RunTypes
<1>2. wire \in Wires /\ history \in Ledgers /\ run \in Starts
  BY RunTypes
<1>3. /\ wire.state \in {"none", "asked", "open", "closed", "failed", "aborted"}
      /\ wire.session \in Sessions \cup {NoSession}
      /\ wire.run \in Runs \cup {NoRun} /\ wire.queue \in Seq(Nat)
      /\ history.status \in {"idle", "loading", "ready", "error", "thrown"}
      /\ history.durable \subseteq Nat /\ history.live \in BOOLEAN
      /\ run.step \in {"idle", "starting", "reading"}
  BY <1>2 DEF Wires, Ledgers, Starts
<1> QED
  BY <1>1, <1>3 DEF Types, ClientType

\* The ledger on screen is sound: one load at most may replace it, and the
\* state updater that merges the events of a stream never throws, whatever
\* reloads were ahead of the stream (HistoryLoadOwnership, mergeAgentEvent).
THEOREM LedgersSound == Spec => []LedgerSound
<1>1. ASSUME TabInv PROVE LedgerSound
  <2>1. history.status /= "thrown"
    <3>1. history \in Ledgers
      BY <1>1, RunTypes
    <3> QED
      BY <3>1 DEF Ledgers
  <2> QED
    BY <1>1, <2>1, OneLoadOwns, TabTypes DEF LedgerSound
<1> QED
  BY <1>1, TabInvariant, PTL

\* What VisibleGrows says of one step.
Grows ==
    \A s \in Sessions :
       Ready(s) /\ history'.session = s =>
          Ready(s)' /\ history.durable \subseteq history'.durable

LEMMA GrowsAt ==
  ASSUME \A s \in Sessions :
            history.status = "ready" /\ history.session = s
            /\ history'.session = s =>
               history'.status = "ready" /\ history.durable \subseteq history'.durable
  PROVE  Grows
  BY DEF Grows, Ready

LEMMA SameShown ==
  ASSUME history' = history
  PROVE  Grows
  BY DEF Grows, Ready

LEMMA OtherShown ==
  ASSUME history'.session \notin Sessions \/ ~Ready(history'.session)
  PROVE  Grows
  BY DEF Grows, Ready

LEMMA RecoverGrows ==
  ASSUME NEW L, NEW l, Recover(L, l)
  PROVE  Grows
<1>1. CASE Ready(l.session)
  BY <1>1, SameShown DEF Recover
<1>2. CASE ~Ready(l.session)
  <2>1. history'.session = l.session
    BY <1>2 DEF Recover, Idle
  <2> QED
    BY <1>2, <2>1, OtherShown
<1> QED
  BY <1>1, <1>2

LEMMA CommitGrows ==
  ASSUME TabInv, NEW l \in loads, Commit(l)
  PROVE  Grows
<1>1. CASE ~(l.owns /\ CanCommit(l))
  BY <1>1, SameShown DEF Commit
<1>2. CASE l.owns /\ CanCommit(l)
  <2>1. history' = [status |-> "ready", session |-> l.session,
                    durable |-> 1..l.reply.last, live |-> FALSE]
    BY <1>2 DEF Commit
  <2>2. /\ history'.status = "ready" /\ history'.session = l.session
        /\ history'.durable = 1..l.reply.last
    BY <2>1
  <2>3. l.session \in Sessions /\ l.reply.last \in Nat
    BY RunTypes, LoadFields
  <2>4. ASSUME Ready(l.session)
        PROVE  history.durable \subseteq 1..l.reply.last
    <3>1. history.durable \subseteq 1..Last(l.session) /\ Last(l.session) \in Nat
      BY <2>3, <2>4, RunTypes, Lasts DEF LedgerInv, Ready
    <3> PICK top \in Nat : top = Last(l.session)
      BY <3>1
    <3>2. IsFiniteSet(1..top)
      BY FS_Interval
    <3>3. IsFiniteSet(history.durable)
      BY <3>1, <3>2, FS_Subset
    <3>4. Cardinality(history.durable) \in Nat
      BY <3>3, FS_CardinalityType
    <3>5. /\ history.durable = 1..Cardinality(history.durable)
          /\ Cardinality(history.durable) <= l.reply.last
      BY <1>2, <2>4 DEF CanCommit
    <3> PICK n \in Nat : n = Cardinality(history.durable)
      BY <3>4
    <3> PICK last \in Nat : last = l.reply.last
      BY <2>3
    <3>6. history.durable = 1..n /\ n <= last
      BY <3>5
    <3>7. 1..n \subseteq 1..last
      BY <3>6
    <3> QED
      BY <3>6, <3>7
  <2> QED
    BY <2>2, <2>4, GrowsAt DEF Ready
<1> QED
  BY <1>1, <1>2

LEMMA LoadFailsGrows ==
  ASSUME NEW l, LoadFails(l)
  PROVE  Grows
<1>1. CASE ~(l.owns /\ ~Ready(l.session))
  BY <1>1, SameShown DEF LoadFails
<1>2. CASE l.owns /\ ~Ready(l.session)
  <2>1. history'.session = l.session
    BY <1>2 DEF LoadFails, Idle
  <2> QED
    BY <1>2, <2>1, OtherShown
<1> QED
  BY <1>1, <1>2

LEMMA LeavesGrows ==
  ASSUME history' = Idle
  PROVE  Grows
<1>1. history'.session = NoSession /\ NoSession \notin Sessions
  BY ClientAssumption DEF Idle
<1> QED
  BY <1>1, OtherShown

LEMMA CreationGrows ==
  ASSUME TabInv, CreationReturns
  PROVE  Grows
<1> PICK s \in Sessions : s = creation
  BY DEF CreationReturns
<1>1. history'.session = s /\ history'.status = "ready" /\ history'.durable = {1}
  BY DEF CreationReturns
<1>2. Last(s) = 1
  BY RunTypes DEF RunInv
<1>3. Ready(s) => history.durable \subseteq 1..1
  BY <1>2, RunTypes DEF LedgerInv, Ready
<1>4. 1..1 \subseteq {1}
  OBVIOUS
<1> QED
  BY <1>1, <1>3, <1>4, GrowsAt DEF Ready

LEMMA VisibleSteps ==
  ASSUME TabInv, [Next]_vars
  PROVE  Grows
<1> USE DEF server, tab, calls
<1>1. CASE Serves \/ Works
  <2>1. history' = history
    BY <1>1 DEF Serves, Accept, Refuse, CreationServed, DeletionServed,
       CancelServed, ListRead, PageRead, Works, Proceed, Stream, End
  <2> QED
    BY <2>1, SameShown
<1>2. CASE Render
  <2>1. (\E L, l : Recover(L, l)) \/ history' = history
    BY <1>2 DEF Render
  <2> QED
    BY <2>1, RecoverGrows, SameShown
<1>3. CASE Answers
  <2>1. ASSUME NEW l \in loads, NextPage(l) PROVE Grows
    BY <2>1, SameShown DEF NextPage
  <2>2. ASSUME NEW x \in Lists, ListArrives(x) PROVE Grows
    BY <2>2, SameShown DEF ListArrives
  <2>3. ASSUME NEW x \in Lists, DeletionReturns(x) PROVE Grows
    <3>1. history' = history \/ history' = Idle
      BY <2>3 DEF DeletionReturns
    <3> QED
      BY <3>1, SameShown, LeavesGrows
  <2>4. CASE \/ CreationFails \/ Responds \/ WorkspaceArrives
             \/ \E r \in Runs : CancelFails(r)
    <3>1. history' = history
      BY <2>4 DEF CreationFails, Responds, WorkspaceArrives, CancelFails
    <3> QED
      BY <3>1, SameShown
  <2>5. CASE StreamEnds \/ StartFails
    <3>1. history' = history
      BY <2>5 DEF StreamEnds, StartFails, Finally
    <3> QED
      BY <3>1, SameShown
  <2>6. CASE Receive
    <3>1. history'.status = history.status /\ history.durable \subseteq history'.durable
      BY <2>6, Received
    <3> QED
      BY <3>1, GrowsAt
  <2> QED
    BY <1>3, <2>1, <2>2, <2>3, <2>4, <2>5, <2>6, CommitGrows, LoadFailsGrows,
       CreationGrows DEF Answers
<1>4. CASE Clicks
  <2>1. CASE StartNewTask \/ StartNewTaskInWorkspace
    BY <2>1, LeavesGrows DEF StartNewTask, StartNewTaskInWorkspace, LeaveHistory
  <2>2. CASE Retry
    BY <2>2, RecoverGrows DEF Retry
  <2>3. ASSUME \/ \E s \in Sessions : Follow(s) \/ OpenDeletion(s)
               \/ \E x \in Lists : RetryList(x)
               \/ Create \/ Submit \/ StopStarting \/ Stop
        PROVE  Grows
    <3>1. history' = history
      BY <2>3 DEF Follow, OpenDeletion, RetryList, Create, Submit, StopStarting,
         Stop
    <3> QED
      BY <3>1, SameShown
  <2> QED
    BY <1>4, <2>1, <2>2, <2>3 DEF Clicks
<1>5. CASE Dialog \/ Breaks
  <2>1. history' = history
    BY <1>5 DEF Dialog, CloseDeletion, ConfirmDeletion, Back, Breaks,
       StreamBreaks, Finally
  <2> QED
    BY <2>1, SameShown
<1>6. CASE UNCHANGED vars
  BY <1>6, SameShown DEF vars
<1> QED
  BY <1>1, <1>2, <1>3, <1>4, <1>5, <1>6 DEF Next

\* What is shown of a session only grows and is not given up for a reload of
\* it, whatever loads, streams and failures overlap: canCommitCompleteHistory,
\* the ownership of loads, the catch of recoverHistory, mergeAgentEvent.
THEOREM VisibleOnlyGrows == Spec => VisibleGrows
<1>1. ASSUME TabInv, [Next]_vars
      PROVE  [\A s \in Sessions :
                Ready(s) /\ history'.session = s =>
                    /\ Ready(s)' /\ history.durable \subseteq history'.durable]_vars
  BY <1>1, VisibleSteps DEF Grows
<1> QED
  BY <1>1, TabInvariant, PTL DEF Spec, VisibleGrows

=============================================================================
