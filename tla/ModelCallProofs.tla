--------------------------- MODULE ModelCallProofs ---------------------------
(***************************************************************************)
(* Theorems about one call of the model client.                            *)
(***************************************************************************)
EXTENDS ModelCall, FiniteSetTheorems, SequenceTheorems, TLAPS

Accumulators ==
    [semantic : BOOLEAN, id : {"none", "own", "other"}, text : Nat,
     solid : BOOLEAN, calls : [{0, 1} -> {"none", "string", "object"}],
     finish : {"none", "stop", "tools", "length", "busy"},
     err : {"none", "limited", "protocol", "large"}]

\* The accumulator of an attempt that has shown n deltas, and of one more
\* that is with the caller.
Counted(a, n) ==
    /\ a.text > 0 => a.semantic
    /\ pc \in {"fetching", "denied", "busy", "reading", "parsing"} => n = a.text
    /\ pc = "delta" => n + 1 = a.text
    /\ outcome = "completed" => n = a.text
    /\ n <= a.text

CallInv ==
    /\ ModelCallType
    /\ acc \in Accumulators /\ shown \in [1..MaxAttempts -> Nat]
    /\ pc \in {"begin", "sleeping"} =>
          attempt < MaxAttempts /\ \A a \in 1..MaxAttempts : shown[a] = 0
    /\ pc \notin {"begin", "done"} => attempt > 0
    /\ pc \in {"fetching", "denied", "busy", "reading", "parsing", "delta"} =>
          acc.err = "none"
    /\ pc \in {"fetching", "denied", "busy"} => acc = EmptyAcc
    /\ \A a \in 1..MaxAttempts : a # attempt => shown[a] = 0
    /\ pc \notin {"begin", "sleeping"} /\ outcome \in {"none", "completed"} =>
          Counted(acc, shown[attempt])
    /\ outcome = "completed" => attempt > 0 /\ acc.err = "none" /\ Whole(acc)
    /\ pc \in {"begin", "sleeping", "fetching"} => body # "open"
    /\ outcome \in {"aborted", "timeout", "failed"} => body # "open"

-----------------------------------------------------------------------------
(* The accumulator.                                                        *)

LEMMA EmptyFields ==
  ASSUME NEW e, e = EmptyAcc
  PROVE  /\ e \in Accumulators /\ e.text = 0 /\ e.err = "none"
         /\ e.finish = "none" /\ e.semantic = FALSE /\ e.solid = FALSE
         /\ e.calls = [i \in {0, 1} |-> "none"] /\ e.id = "none"
  BY DEF EmptyAcc, Accumulators

LEMMA AccFields ==
  ASSUME NEW a \in Accumulators
  PROVE  /\ a.semantic \in BOOLEAN /\ a.id \in {"none", "own", "other"}
         /\ a.text \in Nat /\ a.solid \in BOOLEAN
         /\ a.calls \in [{0, 1} -> {"none", "string", "object"}]
         /\ a.finish \in {"none", "stop", "tools", "length", "busy"}
         /\ a.err \in {"none", "limited", "protocol", "large"}
  BY DEF Accumulators

LEMMA ErrSet ==
  ASSUME NEW a \in Accumulators, NEW e \in {"limited", "protocol", "large"},
         NEW p, p = [a EXCEPT !.err = e]
  PROVE  /\ p \in Accumulators /\ p.text = a.text /\ p.semantic = a.semantic
         /\ p.solid = a.solid /\ p.calls = a.calls /\ p.finish = a.finish
         /\ p.err = e
  BY DEF Accumulators

LEMMA SemanticSet ==
  ASSUME NEW a \in Accumulators, NEW s \in BOOLEAN, NEW p,
         p = [a EXCEPT !.semantic = s]
  PROVE  /\ p \in Accumulators /\ p.text = a.text /\ p.semantic = s
         /\ p.solid = a.solid /\ p.calls = a.calls /\ p.finish = a.finish
         /\ p.err = a.err
  BY DEF Accumulators

LEMMA CallsSet ==
  ASSUME NEW a \in Accumulators,
         NEW calls \in [{0, 1} -> {"none", "string", "object"}],
         NEW f \in {"none", "stop", "tools", "length", "busy"},
         NEW p, p = [semantic |-> a.semantic, id |-> a.id, text |-> a.text,
                     solid |-> a.solid, calls |-> calls, finish |-> f,
                     err |-> a.err]
  PROVE  /\ p \in Accumulators /\ p.text = a.text /\ p.semantic = a.semantic
         /\ p.solid = a.solid /\ p.calls = calls /\ p.finish = f
         /\ p.err = a.err
  BY AccFields DEF Accumulators

LEMMA ContentSet ==
  ASSUME NEW a \in Accumulators, NEW i \in {"own", "other"},
         NEW s \in BOOLEAN, NEW e \in {"none", "large"}, NEW n \in Nat,
         NEW d \in BOOLEAN, NEW p,
         p = [semantic |-> s, id |-> i, text |-> n, solid |-> d,
              calls |-> a.calls, finish |-> a.finish, err |-> e]
  PROVE  /\ p \in Accumulators /\ p.text = n /\ p.semantic = s
         /\ p.solid = d /\ p.calls = a.calls /\ p.finish = a.finish
         /\ p.err = e
  BY AccFields DEF Accumulators

\* What the checks and the visible text make of the accumulator.
LEMMA BeforeTyped ==
  ASSUME NEW a \in Accumulators, NEW c, NEW p, p = BeforeDelta(a, c),
         a.text > 0 => a.semantic
  PROVE  /\ p \in Accumulators /\ p.text \in {a.text, a.text + 1}
         /\ p.text > 0 => p.semantic
         /\ p.err = "none" =>
               p.text = IF Deltas(c) THEN a.text + 1 ELSE a.text
<1> a.text \in Nat /\ a.semantic \in BOOLEAN /\ a.solid \in BOOLEAN
  BY AccFields
<1>1. Refusal(a, c) \in {"limited", "protocol", "none"}
  BY DEF Refusal
<1>2. CASE Refusal(a, c) # "none"
  <2>1. p = [a EXCEPT !.err = Refusal(a, c)]
    BY <1>2 DEF BeforeDelta
  <2>2. p \in Accumulators /\ p.text = a.text /\ p.semantic = a.semantic
        /\ p.err = Refusal(a, c)
    BY <1>1, <1>2, <2>1, ErrSet
  <2> QED
    BY <1>2, <2>2
<1>3. CASE Refusal(a, c) = "none"
  <2> DEFINE s == a.semantic \/ {"usage", "text", "blank", "flood"} \cap c # {}
             e == IF "flood" \in c THEN "large" ELSE "none"
             n == IF Deltas(c) THEN a.text + 1 ELSE a.text
             d == a.solid \/ "text" \in c
             i == Id(c)
  <2>1. p = [a EXCEPT !.id = i, !.semantic = s, !.err = e, !.text = n,
                      !.solid = d]
    BY <1>3 DEF BeforeDelta
  <2>2. s \in BOOLEAN /\ d \in BOOLEAN
    OBVIOUS
  <2>3. n \in Nat /\ n \in {a.text, a.text + 1}
    OBVIOUS
  <2>4. i \in {"own", "other"} /\ e \in {"none", "large"}
    BY DEF Id
  <2>5. Deltas(c) => s
    BY DEF Deltas
  <2>6. n > 0 => s
    BY <2>5
  <2>7. n = IF Deltas(c) THEN a.text + 1 ELSE a.text
    OBVIOUS
  <2> HIDE DEF s, e, n, d, i
  <2>8. p = [semantic |-> s, id |-> i, text |-> n, solid |-> d,
             calls |-> a.calls, finish |-> a.finish, err |-> e]
    BY <2>1, ZenonT(30) DEF Accumulators
  <2>9. p \in Accumulators /\ p.text = n /\ p.semantic = s
    BY <2>2, <2>3, <2>4, <2>8, ContentSet
  <2> QED
    BY <2>3, <2>6, <2>7, <2>9
<1> QED
  BY <1>2, <1>3

\* The rest of a chunk leaves the text alone.
LEMMA AfterTyped ==
  ASSUME NEW a \in Accumulators, NEW c, NEW p, p = AfterDelta(a, c)
  PROVE  /\ p \in Accumulators /\ p.text = a.text
         /\ a.semantic => p.semantic
<1> DEFINE pieces == c \cap Fragments
           output == pieces \cup Finish(c) \cup ({"reasoning"} \cap c)
           s == a.semantic \/ output # {}
           b == [a EXCEPT !.semantic = s]
           calls == [i \in {0, 1} |->
                        IF \E part \in pieces : IndexOf(part) = i
                        THEN KindOf(CHOOSE part \in pieces : IndexOf(part) = i)
                        ELSE b.calls[i]]
           f == IF Finish(c) = {} THEN b.finish ELSE CHOOSE g \in Finish(c) : TRUE
<1>1. a.semantic \in BOOLEAN
  BY AccFields
<1>2. s \in BOOLEAN /\ (a.semantic => s)
  BY <1>1
<1>3. \/ p = [b EXCEPT !.err = "protocol"]
      \/ p = [b EXCEPT !.calls = calls, !.finish = f]
  BY DEF AfterDelta
<1>4. b = [a EXCEPT !.semantic = s]
  OBVIOUS
<1> HIDE DEF b, s
<1>5. b \in Accumulators /\ b.text = a.text /\ b.semantic = s
  BY <1>2, <1>4, SemanticSet
<1>6. CASE p = [b EXCEPT !.err = "protocol"]
  BY <1>2, <1>5, <1>6, ErrSet
<1>7. CASE p = [b EXCEPT !.calls = calls, !.finish = f]
  <2>1. b.calls \in [{0, 1} -> {"none", "string", "object"}]
        /\ b.finish \in {"none", "stop", "tools", "length", "busy"}
    BY <1>5, AccFields
  <2>2. \A part : KindOf(part) \in {"none", "string", "object"}
    BY DEF KindOf
  <2>3. calls \in [{0, 1} -> {"none", "string", "object"}]
    BY <2>1, <2>2
  <2>4. Finish(c) # {} => (CHOOSE g \in Finish(c) : TRUE) \in Finish(c)
    OBVIOUS
  <2>5. f \in {"none", "stop", "tools", "length", "busy"}
    BY <2>1, <2>4 DEF Finish
  <2> HIDE DEF calls, f
  <2> QED
    <3>1. p = [semantic |-> b.semantic, id |-> b.id, text |-> b.text,
               solid |-> b.solid, calls |-> calls, finish |-> f,
               err |-> b.err]
      BY <1>5, <1>7, ZenonT(30) DEF Accumulators
    <3> QED
      BY <1>2, <1>5, <2>3, <2>5, <3>1, CallsSet
<1> QED
  BY <1>3, <1>6, <1>7

-----------------------------------------------------------------------------
(* The steps of a call keep the invariant.                                 *)

LEMMA CallTyped ==
  ASSUME CallInv
  PROVE  /\ attempt \in Nat /\ attempt <= MaxAttempts /\ MaxAttempts \in Nat
         /\ attempt > 0 => attempt \in 1..MaxAttempts /\ shown[attempt] \in Nat
         /\ acc \in Accumulators /\ acc.text \in Nat /\ acc.semantic \in BOOLEAN
BY ModelCallBounds, AccFields DEF CallInv, ModelCallType

\* catch and finally: an attempt that fails without having shown anything may
\* be repeated, every other one ends the call.
LEMMA CatchKeeps ==
  ASSUME CallInv, NEW cause, NEW a \in Accumulators, Catch(cause, a),
         pc \in {"fetching", "denied", "busy", "reading", "parsing", "delta"},
         a.text > 0 => a.semantic, attempt' = attempt, aborted' = aborted,
         shown' \in [1..MaxAttempts -> Nat], shown'[attempt] <= a.text,
         \A n \in 1..MaxAttempts : n # attempt => shown'[n] = shown[n]
  PROVE  CallInv'
<1>1. /\ attempt \in Nat /\ attempt <= MaxAttempts /\ MaxAttempts \in Nat
      /\ attempt \in 1..MaxAttempts /\ shown'[attempt] \in Nat
      /\ a.text \in Nat /\ attempt > 0 /\ outcome = "none"
      /\ \A n \in 1..MaxAttempts : n # attempt => shown'[n] = 0
  BY CallTyped, AccFields DEF CallInv, ModelCallType
<1>2. /\ timer' = "off" /\ acc' = a /\ body' = CloseBody
      /\ \/ pc' = "done" /\ outcome' \in {"aborted", "timeout", "failed"}
         \/ /\ pc' = "sleeping" /\ outcome' = "none"
            /\ attempt < MaxAttempts /\ ~a.semantic
  BY <1>1 DEF Catch, Settle, Retryable
<1>3. body' # "open" /\ body' \in {"none", "open", "closed"}
  BY <1>2 DEF CloseBody, CallInv, ModelCallType
<1>4. acc'.calls \in [{0, 1} -> {"none", "string", "object"}]
  BY <1>2, AccFields
<1>5. ModelCallType'
  BY <1>1, <1>2, <1>3, <1>4 DEF ModelCallType, CallInv
<1>6. pc' = "sleeping" => \A n \in 1..MaxAttempts : shown'[n] = 0
  <2> SUFFICES ASSUME pc' = "sleeping" PROVE shown'[attempt] = 0
    BY <1>1
  <2>1. a.text = 0
    BY <1>1, <1>2
  <2> QED
    BY <1>1, <2>1
<1>7. CASE pc' = "done"
  BY <1>1, <1>2, <1>3, <1>5, <1>7 DEF CallInv
<1>8. CASE pc' = "sleeping"
  BY <1>1, <1>2, <1>3, <1>5, <1>6, <1>8 DEF CallInv
<1> QED
  BY <1>2, <1>7, <1>8

\* A step that leaves the attempt, the accumulator and the outcome alone.
LEMMA GoesOn ==
  ASSUME CallInv, pc' \in {"reading", "parsing"},
         pc \in {"fetching", "reading", "parsing"},
         timer' = timer, body' \in {"none", "open", "closed"},
         UNCHANGED <<attempt, aborted, acc, shown, outcome>>
  PROVE  CallInv'
<1>1. pc' # "done" /\ outcome = "none" /\ attempt > 0 /\ acc.err = "none"
  BY DEF CallInv, ModelCallType
<1>2. ModelCallType'
  BY <1>1 DEF CallInv, ModelCallType
<1>3. Counted(acc, shown[attempt])'
  BY <1>1 DEF CallInv, Counted
<1> QED
  BY <1>1, <1>2, <1>3 DEF CallInv

LEMMA BeginKeeps ==
  ASSUME CallInv, Begin
  PROVE  CallInv'
<1>1. /\ pc = "begin" /\ attempt < MaxAttempts /\ outcome = "none"
      /\ \A a \in 1..MaxAttempts : shown[a] = 0
      /\ attempt \in Nat /\ MaxAttempts \in Nat /\ body # "open"
  BY CallTyped DEF Begin, CallInv, ModelCallType
<1>2. CASE StartAttempt
  <2>1. /\ pc' = "fetching" /\ attempt' = attempt + 1 /\ timer' = "armed"
        /\ body' = "none" /\ acc' = EmptyAcc
        /\ UNCHANGED <<aborted, shown, outcome>>
    BY <1>2 DEF StartAttempt
  <2>2. /\ acc' \in Accumulators /\ acc'.text = 0 /\ acc'.err = "none"
        /\ acc'.semantic = FALSE
        /\ acc'.calls \in [{0, 1} -> {"none", "string", "object"}]
    BY <2>1, EmptyFields
  <2>3. ModelCallType'
    BY <1>1, <2>1, <2>2 DEF CallInv, ModelCallType
  <2>4. attempt' \in 1..MaxAttempts /\ shown'[attempt'] = 0 /\ attempt' > 0
    BY <1>1, <2>1
  <2>5. Counted(acc, shown[attempt])'
    BY <1>1, <2>1, <2>2, <2>4 DEF Counted
  <2> QED
    BY <1>1, <2>1, <2>2, <2>3, <2>4, <2>5 DEF CallInv
<1>3. CASE /\ pc' = "done" /\ outcome' = "aborted"
           /\ UNCHANGED <<attempt, aborted, timer, body, stream, parser, acc,
                          rest, shown>>
  <2>1. ModelCallType'
    BY <1>1, <1>3 DEF CallInv, ModelCallType
  <2> QED
    BY <1>1, <1>3, <2>1 DEF CallInv
<1> QED
  BY <1>2, <1>3 DEF Begin

LEMMA WakeKeeps ==
  ASSUME CallInv, Wake
  PROVE  CallInv'
<1>1. /\ pc = "sleeping" /\ attempt < MaxAttempts /\ outcome = "none"
      /\ UNCHANGED <<attempt, aborted, timer, body, acc, shown>>
      /\ \/ pc' = "done" /\ outcome' = "aborted"
         \/ pc' = "begin" /\ outcome' = outcome
  BY DEF Wake, CallInv, ModelCallType
<1>2. ModelCallType'
  BY <1>1 DEF CallInv, ModelCallType
<1> QED
  BY <1>1, <1>2 DEF CallInv

LEMMA WaitsKeep ==
  ASSUME CallInv, Accepted \/ Refused \/ Timeout \/ Abort
  PROVE  CallInv'
<1>1. CASE Accepted
  BY <1>1, GoesOn DEF Accepted, KeepsTimer
<1>2. CASE Refused
  <2>1. /\ pc' \in {"denied", "busy"} /\ body' = "open" /\ pc = "fetching"
        /\ outcome = "none" /\ attempt > 0
        /\ UNCHANGED <<attempt, aborted, timer, acc, shown, outcome>>
    BY <1>2 DEF Refused, CallInv, ModelCallType
  <2>2. ModelCallType'
    BY <2>1 DEF CallInv, ModelCallType
  <2>3. Counted(acc, shown[attempt])'
    BY <2>1 DEF CallInv, Counted
  <2> QED
    BY <2>1, <2>2, <2>3 DEF CallInv
<1>3. CASE Timeout
  <2>1. /\ timer = "armed" /\ timer' = "fired"
        /\ UNCHANGED <<pc, attempt, aborted, body, acc, shown, outcome>>
    BY <1>3 DEF Timeout
  <2>2. ModelCallType'
    BY <2>1 DEF CallInv, ModelCallType
  <2> QED
    BY <2>1, <2>2 DEF CallInv, Counted
<1>4. CASE Abort
  <2>1. /\ aborted' = TRUE
        /\ UNCHANGED <<pc, attempt, timer, body, acc, shown, outcome>>
    BY <1>4 DEF Abort
  <2>2. ModelCallType'
    BY <2>1 DEF CallInv, ModelCallType
  <2> QED
    BY <2>1, <2>2 DEF CallInv, Counted
<1> QED
  BY <1>1, <1>2, <1>3, <1>4

LEMMA CaughtHere ==
  ASSUME CallInv, NEW cause, Catch(cause, acc),
         pc \in {"fetching", "denied", "busy", "reading", "parsing", "delta"},
         UNCHANGED <<attempt, aborted, shown>>
  PROVE  CallInv'
<1>1. outcome = "none"
  BY DEF CallInv, ModelCallType
<1>2. Counted(acc, shown[attempt]) /\ acc \in Accumulators
      /\ shown \in [1..MaxAttempts -> Nat]
  BY <1>1 DEF CallInv
<1> QED
  BY <1>2, CatchKeeps DEF Counted

LEMMA PreviewReadKeeps ==
  ASSUME CallInv, PreviewRead
  PROVE  CallInv'
<1>1. pc \in {"denied", "busy"} /\ UNCHANGED <<attempt, aborted, shown>>
  BY DEF PreviewRead
<1>2. CASE Catch("network", acc)
  BY <1>1, <1>2, CaughtHere
<1>3. CASE /\ timer' = "off" /\ body' = CloseBody
           /\ Settle(pc = "busy", "failed")
           /\ UNCHANGED <<acc, rest>>
  <2>1. /\ attempt \in 1..MaxAttempts /\ shown[attempt] \in Nat
        /\ outcome = "none" /\ acc = EmptyAcc /\ MaxAttempts \in Nat
        /\ Counted(acc, shown[attempt])
    BY <1>1, CallTyped DEF CallInv, ModelCallType
  <2>2. shown[attempt] = 0
    BY <1>1, <2>1, EmptyFields DEF Counted
  <2>3. body' # "open" /\ body' \in {"none", "open", "closed"}
    BY <1>3 DEF CloseBody, CallInv, ModelCallType
  <2>4. \/ pc' = "done" /\ outcome' = "failed"
        \/ pc' = "sleeping" /\ outcome' = "none" /\ attempt < MaxAttempts
    BY <1>3, <2>1 DEF Settle
  <2>5. ModelCallType'
    BY <1>1, <1>3, <2>1, <2>3, <2>4 DEF CallInv, ModelCallType
  <2>6. \A a \in 1..MaxAttempts : shown[a] = 0
    BY <2>2 DEF CallInv
  <2> QED
    BY <1>1, <1>3, <2>1, <2>3, <2>4, <2>5, <2>6 DEF CallInv
<1> QED
  BY <1>2, <1>3 DEF PreviewRead

LEMMA FailuresKeep ==
  ASSUME CallInv, FetchFails \/ ReadFails \/ DeltaFails
  PROVE  CallInv'
BY CaughtHere DEF FetchFails, ReadFails, DeltaFails

LEMMA StreamKeeps ==
  ASSUME CallInv, Write \/ KeepAlive \/ WriteLast \/ Read \/ ReadEnd
  PROVE  CallInv'
<1>1. body \in {"none", "open", "closed"}
  BY DEF CallInv, ModelCallType
<1>2. CASE Write \/ KeepAlive \/ WriteLast
  <2>1. /\ pc = "reading"
        /\ UNCHANGED <<pc, attempt, aborted, timer, body, acc, shown, outcome>>
    BY <1>2 DEF Write, KeepAlive, WriteLast, Writing
  <2> QED
    BY <1>1, <2>1, GoesOn
<1>3. CASE Read
  BY <1>1, <1>3, GoesOn DEF Read
<1>4. CASE ReadEnd
  BY <1>1, <1>4, GoesOn DEF ReadEnd
<1> QED
  BY <1>2, <1>3, <1>4

\* A chunk is done with, or refused.
LEMMA AbsorbKeeps ==
  ASSUME CallInv, pc \in {"parsing", "delta"}, NEW a \in Accumulators, NEW c,
         Absorb(a, c), attempt' = attempt, aborted' = aborted,
         shown' \in [1..MaxAttempts -> Nat], shown'[attempt] <= a.text,
         \A n \in 1..MaxAttempts : n # attempt => shown'[n] = shown[n],
         a.text > 0 => a.semantic,
         a.err = "none" => shown'[attempt] = a.text
  PROVE  CallInv'
<1>1. CASE a.err # "none"
  <2>1. Catch(a.err, a)
    BY <1>1 DEF Absorb
  <2> QED
    BY <2>1, CatchKeeps
<1>2. CASE a.err = "none"
  <2>1. /\ pc' = "parsing" /\ acc' = a /\ UNCHANGED <<timer, body, outcome>>
        /\ outcome = "none" /\ attempt > 0
        /\ a.calls \in [{0, 1} -> {"none", "string", "object"}]
    BY <1>2, AccFields DEF Absorb, CallInv, ModelCallType
  <2>2. ModelCallType'
    BY <2>1 DEF CallInv, ModelCallType
  <2>3. a.text \in Nat /\ Counted(acc, shown[attempt])'
    BY <1>2, <2>1, AccFields DEF Counted
  <2>4. \A n \in 1..MaxAttempts : n # attempt => shown'[n] = 0
    BY DEF CallInv
  <2> QED
    BY <1>2, <2>1, <2>2, <2>3, <2>4 DEF CallInv
<1> QED
  BY <1>1, <1>2

LEMMA DeltaTakenKeeps ==
  ASSUME CallInv, DeltaTaken
  PROVE  CallInv'
<1>1. /\ pc = "delta" /\ shown' = [shown EXCEPT ![attempt] = @ + 1]
      /\ Absorb(AfterDelta(acc, rest), {})
      /\ attempt' = attempt /\ aborted' = aborted
  BY DEF DeltaTaken
<1>2. /\ attempt \in 1..MaxAttempts /\ shown[attempt] \in Nat
      /\ acc \in Accumulators /\ acc.text \in Nat
      /\ shown \in [1..MaxAttempts -> Nat] /\ Counted(acc, shown[attempt])
  BY <1>1, CallTyped DEF CallInv, ModelCallType
<1> PICK a : a = AfterDelta(acc, rest)
  OBVIOUS
<1>3. a \in Accumulators /\ a.text = acc.text /\ (acc.semantic => a.semantic)
  BY <1>2, AfterTyped
<1>4. /\ shown' \in [1..MaxAttempts -> Nat]
      /\ shown'[attempt] = shown[attempt] + 1
      /\ \A n \in 1..MaxAttempts : n # attempt => shown'[n] = shown[n]
  BY <1>1, <1>2
<1>5. shown'[attempt] = a.text /\ (a.text > 0 => a.semantic)
  BY <1>1, <1>2, <1>3, <1>4 DEF Counted
<1>6. shown'[attempt] <= a.text
  BY <1>2, <1>3, <1>5
<1> QED
  BY <1>1, <1>3, <1>4, <1>5, <1>6, AbsorbKeeps

\* The loop is left with a completion, or it is no completion.
LEMMA CompleteKeeps ==
  ASSUME CallInv, pc = "parsing", Complete(acc),
         UNCHANGED <<attempt, aborted, shown>>
  PROVE  CallInv'
<1>1. CASE Catch("protocol", acc)
  BY <1>1, CaughtHere
<1>2. CASE /\ Whole(acc) /\ pc' = "done" /\ outcome' = "completed"
           /\ timer' = "off" /\ UNCHANGED <<body, acc, rest>>
  <2>1. /\ acc.err = "none" /\ attempt > 0 /\ outcome = "none"
        /\ Counted(acc, shown[attempt])
    BY DEF CallInv, ModelCallType
  <2>2. ModelCallType'
    BY <1>2, <2>1 DEF CallInv, ModelCallType
  <2>3. Counted(acc, shown[attempt])'
    BY <1>2, <2>1 DEF Counted
  <2>4. Whole(acc)'
    BY <1>2 DEF Whole, Called
  <2> QED
    BY <1>2, <2>1, <2>2, <2>3, <2>4 DEF CallInv
<1> QED
  BY <1>1, <1>2 DEF Complete

LEMMA TakeKeeps ==
  ASSUME CallInv, pc = "parsing", NEW event, Take(event),
         UNCHANGED <<attempt, aborted, shown>>
  PROVE  CallInv'
<1>1. /\ attempt \in 1..MaxAttempts /\ shown[attempt] \in Nat
      /\ acc \in Accumulators /\ acc.text \in Nat /\ outcome = "none"
      /\ shown \in [1..MaxAttempts -> Nat] /\ Counted(acc, shown[attempt])
      /\ acc.err = "none"
  BY CallTyped DEF CallInv, ModelCallType
<1>2. shown[attempt] = acc.text /\ (acc.text > 0 => acc.semantic)
  BY <1>1 DEF Counted
<1>3. CASE event = Done
  BY <1>3, CompleteKeeps DEF Take
<1>4. CASE event # Done
  <2> PICK c : c = event.chunk
    OBVIOUS
  <2> PICK a : a = BeforeDelta(acc, c)
    OBVIOUS
  <2>1. /\ a \in Accumulators /\ a.text \in {acc.text, acc.text + 1}
        /\ a.text > 0 => a.semantic
        /\ a.err = "none" =>
              a.text = IF Deltas(c) THEN acc.text + 1 ELSE acc.text
    BY <1>1, <1>2, BeforeTyped
  <2>2. a.text \in Nat /\ shown[attempt] <= a.text
    BY <1>1, <1>2, <2>1
  <2>3. CASE a.err = "none" /\ Deltas(c)
    <3>1. /\ pc' = "delta" /\ acc' = a /\ UNCHANGED <<timer, body, outcome>>
          /\ a.calls \in [{0, 1} -> {"none", "string", "object"}]
      BY <1>4, <2>1, <2>3, AccFields DEF Take
    <3>2. ModelCallType'
      BY <1>1, <3>1 DEF CallInv, ModelCallType
    <3>3. Counted(acc, shown[attempt])'
      BY <1>1, <1>2, <2>1, <2>2, <2>3, <3>1 DEF Counted
    <3> QED
      BY <1>1, <2>1, <2>3, <3>1, <3>2, <3>3 DEF CallInv
  <2>4. CASE a.err = "none" /\ ~Deltas(c)
    <3>1. Absorb(AfterDelta(a, c), {})
      BY <1>4, <2>4 DEF Take
    <3> PICK b : b = AfterDelta(a, c)
      OBVIOUS
    <3>2. b \in Accumulators /\ b.text = a.text /\ (a.semantic => b.semantic)
      BY <2>1, AfterTyped
    <3>3. b.text = shown[attempt]
      BY <1>2, <2>1, <2>4, <3>2
    <3> QED
      BY <1>1, <2>1, <2>2, <3>1, <3>2, <3>3, AbsorbKeeps
  <2>5. CASE a.err # "none"
    <3>1. Absorb(a, {})
      BY <1>4, <2>5 DEF Take
    <3> QED
      BY <1>1, <2>1, <2>2, <2>5, <3>1, AbsorbKeeps
  <2> QED
    BY <2>3, <2>4, <2>5
<1> QED
  BY <1>3, <1>4

LEMMA ParsingKeeps ==
  ASSUME CallInv, ParseLine \/ ParseBlank \/ ParseRest
  PROVE  CallInv'
<1>1. /\ pc = "parsing" /\ UNCHANGED <<attempt, aborted, shown>>
      /\ body \in {"none", "open", "closed"}
  BY DEF ParseLine, ParseBlank, ParseRest, Parsing, CallInv, ModelCallType
<1>2. CASE ParseLine
  <2>1. \/ Catch("large", acc)
        \/ UNCHANGED <<pc, timer, body, acc, rest, outcome>>
    BY <1>2 DEF ParseLine
  <2> QED
    BY <1>1, <2>1, CaughtHere, GoesOn
<1>3. CASE ParseBlank
  <2>1. \/ UNCHANGED <<pc, timer, body, due, acc, rest, outcome>>
        \/ Take(Event(data))
    BY <1>3 DEF ParseBlank
  <2> QED
    BY <1>1, <2>1, TakeKeeps, GoesOn
<1>4. CASE ParseRest
  <2>1. \/ pc' = "reading" /\ UNCHANGED <<timer, body, due, acc, rest, outcome>>
        \/ Take(Event(data))
        \/ Catch("protocol", acc)
    BY <1>4 DEF ParseRest
  <2> QED
    BY <1>1, <2>1, TakeKeeps, CaughtHere, GoesOn
<1> QED
  BY <1>2, <1>3, <1>4

LEMMA CallStarts == Init => CallInv
<1> SUFFICES ASSUME Init PROVE CallInv
  OBVIOUS
<1>1. /\ pc = "begin" /\ attempt = 0 /\ aborted = FALSE /\ timer = "off"
      /\ body = "none" /\ outcome = "none" /\ acc = EmptyAcc
      /\ shown = [a \in 1..MaxAttempts |-> 0]
  BY DEF Init
<1>2. acc \in Accumulators
      /\ acc.calls \in [{0, 1} -> {"none", "string", "object"}]
  BY <1>1, EmptyFields
<1>3. ModelCallType
  <2>1. attempt \in 0..MaxAttempts
    BY <1>1, ModelCallBounds
  <2>2. (pc = "done") = (outcome # "none")
    BY <1>1
  <2>3. aborted \in BOOLEAN
    BY <1>1
  <2> QED
    BY <1>1, <1>2, <2>1, <2>2, <2>3 DEF ModelCallType
<1> QED
  BY <1>1, <1>2, <1>3, ModelCallBounds DEF CallInv

LEMMA CallKeeps ==
  ASSUME CallInv, [Next]_vars
  PROVE  CallInv'
<1>1. CASE UNCHANGED vars
  <2>1. UNCHANGED <<pc, attempt, aborted, timer, body, acc, shown, outcome>>
    BY <1>1 DEF vars
  <2>2. ModelCallType'
    BY <2>1 DEF CallInv, ModelCallType
  <2> QED
    BY <2>1, <2>2 DEF CallInv, Counted, Whole, Called
<1>2. CASE Client
  BY <1>2, BeginKeeps, StreamKeeps, ParsingKeeps, DeltaTakenKeeps,
     PreviewReadKeeps, WakeKeeps DEF Client
<1>3. CASE Provider
  BY <1>3, WaitsKeep, FailuresKeep, StreamKeeps DEF Provider
<1>4. CASE Timeout \/ Abort
  BY <1>4, WaitsKeep
<1> QED
  BY <1>1, <1>2, <1>3, <1>4 DEF Next, Ended

\* The invariant of the call holds throughout: complete of client.ts.
THEOREM CallInvariant == Spec => []CallInv
<1> QED
  BY CallStarts, CallKeeps, PTL DEF Spec

\* Visible text comes from one attempt only, for any number of attempts, any
\* chunks and any way to cut the bytes: the retries of client.ts.
THEOREM ShownOnce == Spec => []OutputOnce
<1>1. ASSUME CallInv PROVE OutputOnce
  <2> DEFINE seen == {a \in 1..MaxAttempts : shown[a] > 0}
  <2>1. seen \subseteq {attempt}
    BY <1>1 DEF CallInv
  <2>2. Cardinality(seen) <= 1
    <3>1. IsFiniteSet({attempt}) /\ Cardinality({attempt}) = 1
      BY FS_Singleton
    <3> HIDE DEF seen
    <3>2. Cardinality(seen) <= Cardinality({attempt})
      BY <2>1, <3>1, FS_Subset
    <3> QED
      BY <3>1, <3>2
  <2>3. ASSUME outcome = "completed", NEW a \in 1..MaxAttempts
        PROVE  shown[a] = IF a = attempt THEN acc.text ELSE 0
    <3>1. pc = "done"
      BY <1>1, <2>3 DEF CallInv, ModelCallType
    <3> QED
      BY <1>1, <2>3, <3>1 DEF CallInv, Counted
  <2>4. ModelCallType
    BY <1>1 DEF CallInv
  <2> QED
    BY <2>2, <2>3, <2>4 DEF OutputOnce
<1> QED
  BY <1>1, CallInvariant, PTL

\* No attempt is begun, and no failure is told, over a body still open.
THEOREM NoBodyLeftOpen == Spec => []BodiesClosed
<1>1. CallInv => BodiesClosed
  BY DEF CallInv, BodiesClosed
<1> QED
  BY <1>1, CallInvariant, PTL

-----------------------------------------------------------------------------
(* The stream as a reader goes through it, token by token.                 *)

Texts == {Comment, Done, Huge, Half} \cup {Data(c) : c \in SUBSET Parts}
Tokens == Texts \cup {CR, LF}

\* What a provider may say in an event.
Said == {Done, Huge} \cup {Data(c) : c \in SUBSET Parts}

\* Where the reader stands: at the start of a line, behind the text of one,
\* or inside a line end of two bytes; the data lines of the event it is in;
\* and the events it has still to meet.
Places == [at : {"start", "text", "half"}, lines : Seq(Texts), left : Seq(Said)]

Place(at, lines, left) == [at |-> at, lines |-> lines, left |-> left]

\* Behind the first byte of a line end.
Behind(e) == IF Len(e) = 1 THEN "start" ELSE "half"

With(lines, t) == IF t = Comment THEN lines ELSE Append(lines, t)

\* One token takes the reader from place a to place b: the text of a line,
\* the end of it, a blank line that ends the event that is due, or the second
\* byte of a line end.
Go(e, a, t, b) ==
    \/ a.at = "start" /\ t \in Texts /\ b = Place("text", With(a.lines, t), a.left)
    \/ a.at = "text" /\ t = e[1] /\ b = Place(Behind(e), a.lines, a.left)
    \/ /\ a.at = "start" /\ t = e[1] /\ a.lines # <<>>
       /\ a.left # <<>> /\ Head(a.left) = Event(a.lines)
       /\ b = Place(Behind(e), <<>>, Tail(a.left))
    \/ /\ a.at = "half" /\ Len(e) = 2 /\ t = e[2]
       /\ b = Place("start", a.lines, a.left)

Reaches(e, s, a, b) ==
    \E r \in [0..Len(s) -> Places] :
        /\ r[0] = a /\ r[Len(s)] = b
        /\ \A i \in 1..Len(s) : Go(e, r[i - 1], s[i], r[i])

LEMMA TokenKinds ==
  /\ \A t \in Texts : t.kind \notin {"CR", "LF", "lost"}
  /\ \A t \in Texts : t # CR /\ t # LF
  /\ \A t \in Said : t # Lost /\ t \in Texts
  /\ CR # LF /\ Texts \subseteq Tokens /\ CR \in Tokens /\ LF \in Tokens
  BY DEF Texts, Tokens, Said, CR, LF, Comment, Done, Huge, Half, Data, Lost

LEMMA EndsOfLines ==
  ASSUME NEW e \in LineEnds
  PROVE  \/ e = <<LF>> /\ Len(e) = 1 /\ e[1] = LF
         \/ e = <<CR>> /\ Len(e) = 1 /\ e[1] = CR
         \/ e = <<CR, LF>> /\ Len(e) = 2 /\ e[1] = CR /\ e[2] = LF
  BY DEF LineEnds

LEMMA PlaceFields ==
  /\ \A at, lines, left :
        /\ Place(at, lines, left).at = at
        /\ Place(at, lines, left).lines = lines
        /\ Place(at, lines, left).left = left
  /\ \A at \in {"start", "text", "half"} : \A lines \in Seq(Texts) :
        \A left \in Seq(Said) : Place(at, lines, left) \in Places
  BY DEF Place, Places

LEMMA InPlaces ==
  ASSUME NEW p \in Places
  PROVE  /\ p.at \in {"start", "text", "half"} /\ p.lines \in Seq(Texts)
         /\ p.left \in Seq(Said) /\ p = Place(p.at, p.lines, p.left)
  BY DEF Place, Places

LEMMA ReachNothing ==
  /\ \A e, a, b : Reaches(e, <<>>, a, b) => a = b
  /\ \A e : \A a \in Places : Reaches(e, <<>>, a, a)
<1>1. Len(<<>>) = 0
  OBVIOUS
<1>2. ASSUME NEW e, NEW a, NEW b, Reaches(e, <<>>, a, b) PROVE a = b
  BY <1>1, <1>2 DEF Reaches
<1>3. ASSUME NEW e, NEW a \in Places PROVE Reaches(e, <<>>, a, a)
  <2> DEFINE r == [i \in 0..0 |-> a]
  <2>1. r \in [0..Len(<<>>) -> Places] /\ r[0] = a /\ r[Len(<<>>)] = a
    BY <1>1
  <2>2. \A i \in 1..Len(<<>>) : Go(e, r[i - 1], <<>>[i], r[i])
    BY <1>1
  <2> QED
    BY <2>1, <2>2 DEF Reaches
<1> QED
  BY <1>2, <1>3

\* One token more.
LEMMA ReachMore ==
  ASSUME NEW e, NEW s \in Seq(Tokens), NEW t \in Tokens, NEW a, NEW b,
         Reaches(e, s, a, b), NEW c \in Places, Go(e, b, t, c)
  PROVE  Reaches(e, s \o <<t>>, a, c)
<1> PICK r \in [0..Len(s) -> Places] :
        /\ r[0] = a /\ r[Len(s)] = b
        /\ \A i \in 1..Len(s) : Go(e, r[i - 1], s[i], r[i])
  BY DEF Reaches
<1> PICK n \in Nat : n = Len(s)
  OBVIOUS
<1> PICK z : z = s \o <<t>>
  OBVIOUS
<1>1. /\ Len(z) = n + 1 /\ z[n + 1] = t
      /\ \A i \in 1..n : z[i] = s[i]
  OBVIOUS
<1> DEFINE q == [i \in 0..(n + 1) |-> IF i = n + 1 THEN c ELSE r[i]]
<1>2. q \in [0..(n + 1) -> Places]
  OBVIOUS
<1>3. /\ q[0] = a /\ q[n + 1] = c /\ q[n] = b
      /\ \A i \in 0..n : q[i] = r[i]
  OBVIOUS
<1> HIDE DEF q
<1>4. ASSUME NEW i \in 1..(n + 1) PROVE Go(e, q[i - 1], z[i], q[i])
  <2>1. CASE i = n + 1
    BY <1>1, <1>3, <2>1
  <2>2. CASE i # n + 1
    <3>1. i \in 1..n /\ i - 1 \in 0..n /\ i \in 0..n
      BY <2>2
    <3>2. q[i - 1] = r[i - 1] /\ q[i] = r[i] /\ z[i] = s[i]
      BY <1>1, <1>3, <3>1
    <3> QED
      BY <3>1, <3>2
  <2> QED
    BY <2>1, <2>2
<1> QED
  BY <1>1, <1>2, <1>3, <1>4 DEF Reaches

\* The first token, and what is left of the way.
LEMMA ReachFirst ==
  ASSUME NEW e, NEW s \in Seq(Tokens), s # <<>>, NEW a, NEW b,
         Reaches(e, s, a, b)
  PROVE  \E c \in Places : Go(e, a, s[1], c) /\ Reaches(e, Tail(s), c, b)
<1> PICK r \in [0..Len(s) -> Places] :
        /\ r[0] = a /\ r[Len(s)] = b
        /\ \A i \in 1..Len(s) : Go(e, r[i - 1], s[i], r[i])
  BY Zenon DEF Reaches
<1> PICK n \in Nat : n + 1 = Len(s)
  <2>1. Len(s) \in Nat /\ Len(s) # 0
    BY EmptySeq
  <2>2. Len(s) - 1 \in Nat /\ (Len(s) - 1) + 1 = Len(s)
    BY <2>1
  <2> QED
    BY <2>2, Zenon
<1> PICK z : z = Tail(s)
  OBVIOUS
<1>1. Len(z) = n /\ \A i \in 1..n : z[i] = s[i + 1]
  BY HeadTailProperties
<1> DEFINE q == [i \in 0..n |-> r[i + 1]]
<1>2. q \in [0..n -> Places]
  BY SMTT(40)
<1>3. q[0] = r[1] /\ q[n] = b /\ \A i \in 0..n : q[i] = r[i + 1]
  OBVIOUS
<1>4. r[1] \in Places /\ Go(e, a, s[1], r[1])
  <2>1. 1 \in 1..Len(s) /\ 1 - 1 = 0 /\ 1 \in 0..Len(s)
    OBVIOUS
  <2> QED
    BY <2>1
<1> HIDE DEF q
<1>5. ASSUME NEW i \in 1..n PROVE Go(e, q[i - 1], z[i], q[i])
  <2>1. i + 1 \in 1..Len(s) /\ (i + 1) - 1 = i /\ i - 1 \in 0..n /\ i \in 0..n
        /\ (i - 1) + 1 = i
    OBVIOUS
  <2>2. q[i - 1] = r[i] /\ q[i] = r[i + 1] /\ z[i] = s[i + 1]
    BY <1>1, <1>3, <2>1
  <2>3. Go(e, r[(i + 1) - 1], s[i + 1], r[i + 1])
    BY <2>1
  <2> QED
    BY <2>1, <2>2, <2>3
<1>6. Reaches(e, z, q[0], b)
  BY <1>1, <1>2, <1>3, <1>5 DEF Reaches
<1> QED
  BY <1>3, <1>4, <1>6

\* An event more that the reader has still to meet.
More(p, x) == Place(p.at, p.lines, Append(p.left, x))

LEMMA MoreFields ==
  ASSUME NEW p \in Places, NEW x \in Said
  PROVE  /\ More(p, x) \in Places /\ More(p, x).at = p.at
         /\ More(p, x).lines = p.lines /\ More(p, x).left = Append(p.left, x)
<1>1. Append(p.left, x) \in Seq(Said)
  BY InPlaces, AppendProperties
<1> PICK l \in Seq(Said) : l = Append(p.left, x)
  BY <1>1
<1> PICK q : q = More(p, x)
  OBVIOUS
<1> PICK at \in {"start", "text", "half"}, lines \in Seq(Texts) :
        at = p.at /\ lines = p.lines
  BY InPlaces
<1>2. q = Place(at, lines, l)
  BY DEF More
<1>3. q \in Places
  BY <1>2, PlaceFields, ZenonT(40)
<1>4. q.at = at /\ q.lines = lines /\ q.left = l
  BY <1>2 DEF Place
<1> QED
  BY <1>3, <1>4

LEMMA GoMore ==
  ASSUME NEW e, NEW a \in Places, NEW b \in Places, NEW t, NEW x \in Said,
         Go(e, a, t, b)
  PROVE  Go(e, More(a, x), t, More(b, x))
<1> PICK c : c = More(a, x)
  OBVIOUS
<1>1. c.at = a.at /\ c.lines = a.lines /\ c.left = Append(a.left, x)
  BY MoreFields
<1>2. More(b, x) = Place(b.at, b.lines, Append(b.left, x))
  BY DEF More
<1>3. a.left \in Seq(Said)
  BY InPlaces
<1>4. c.left # <<>>
      /\ (a.left # <<>> => /\ Head(c.left) = Head(a.left)
                           /\ Tail(c.left) = Append(Tail(a.left), x))
  BY <1>1, <1>3, HeadTailAppend, AppendProperties
<1>5. ASSUME NEW at, NEW lines, NEW left, b = Place(at, lines, left)
      PROVE  More(b, x) = Place(at, lines, Append(left, x))
  BY <1>5 DEF More, Place
<1>6. CASE a.at = "start" /\ t \in Texts
           /\ b = Place("text", With(a.lines, t), a.left)
  BY <1>1, <1>5, <1>6 DEF Go
<1>7. CASE a.at = "text" /\ t = e[1] /\ b = Place(Behind(e), a.lines, a.left)
  BY <1>1, <1>5, <1>7 DEF Go
<1>8. CASE /\ a.at = "start" /\ t = e[1] /\ a.lines # <<>>
           /\ a.left # <<>> /\ Head(a.left) = Event(a.lines)
           /\ b = Place(Behind(e), <<>>, Tail(a.left))
  <2>1. More(b, x) = Place(Behind(e), <<>>, Tail(c.left))
    BY <1>4, <1>5, <1>8
  <2> QED
    BY <1>1, <1>4, <1>8, <2>1 DEF Go
<1>9. CASE /\ a.at = "half" /\ Len(e) = 2 /\ t = e[2]
           /\ b = Place("start", a.lines, a.left)
  BY <1>1, <1>5, <1>9 DEF Go
<1> QED
  BY <1>6, <1>7, <1>8, <1>9 DEF Go

LEMMA ReachLonger ==
  ASSUME NEW e, NEW s \in Seq(Tokens), NEW a, NEW b, NEW x \in Said,
         Reaches(e, s, a, b)
  PROVE  Reaches(e, s, More(a, x), More(b, x))
<1> PICK r \in [0..Len(s) -> Places] :
        /\ r[0] = a /\ r[Len(s)] = b
        /\ \A i \in 1..Len(s) : Go(e, r[i - 1], s[i], r[i])
  BY DEF Reaches
<1> PICK n \in Nat : n = Len(s)
  OBVIOUS
<1> DEFINE q == [i \in 0..n |-> More(r[i], x)]
<1>1. q \in [0..n -> Places]
  BY MoreFields
<1>2. \A i \in 0..n : q[i] = More(r[i], x)
  OBVIOUS
<1> HIDE DEF q
<1>3. ASSUME NEW i \in 1..n PROVE Go(e, q[i - 1], s[i], q[i])
  <2>1. i - 1 \in 0..n /\ i \in 0..n
    OBVIOUS
  <2>2. Go(e, r[i - 1], s[i], r[i]) /\ r[i - 1] \in Places /\ r[i] \in Places
    BY <2>1
  <2> QED
    BY <1>2, <2>1, <2>2, GoMore
<1>4. q[0] = More(a, x) /\ q[n] = More(b, x)
  BY <1>2
<1> QED
  BY <1>1, <1>3, <1>4 DEF Reaches

-----------------------------------------------------------------------------
(* What the provider adds to the stream.                                   *)

LEMMA Joined ==
  ASSUME NEW s \in Seq(Tokens), NEW t \in Seq(Tokens), NEW u \in Seq(Tokens)
  PROVE  (s \o t) \o u = s \o (t \o u) /\ s \o t \in Seq(Tokens)
<1>1. (s \o t) \o u = s \o (t \o u)
  BY ConcatAssociative
<1>2. s \o t \in Seq(Tokens)
  BY ConcatProperties
<1> QED
  BY <1>1, <1>2

LEMMA ShortSequences ==
  ASSUME NEW S, NEW x \in S, NEW y \in S
  PROVE  /\ <<x>> \in Seq(S) /\ Len(<<x>>) = 1 /\ <<x>>[1] = x
         /\ <<x>> # <<>> /\ Head(<<x>>) = x /\ Tail(<<x>>) = <<>>
         /\ <<x, y>> \in Seq(S) /\ <<x, y>> # <<>> /\ Len(<<x, y>>) = 2
         /\ <<x>> \o <<y>> = <<x, y>>
         /\ Append(<<>>, x) = <<x>> /\ Append(<<x>>, y) = <<x, y>>
<1>1. /\ <<x>> \in Seq(S) /\ Len(<<x>>) = 1 /\ <<x>>[1] = x
      /\ <<x>> # <<>> /\ Head(<<x>>) = x
  OBVIOUS
<1>2. Tail(<<x>>) = <<>>
  BY <1>1, HeadTailProperties, EmptySeq
<1>3. <<x, y>> \in Seq(S) /\ <<x, y>> # <<>> /\ Len(<<x, y>>) = 2
  OBVIOUS
<1>4. <<x>> \o <<y>> = <<x, y>>
  <2>0. <<y>> \in Seq(S) /\ Len(<<y>>) = 1 /\ <<y>>[1] = y
    OBVIOUS
  <2> PICK s \in Seq(S) : s = <<x>>
    BY <1>1
  <2> PICK t \in Seq(S) : t = <<y>>
    BY <2>0
  <2> PICK u \in Seq(S) : u = <<x, y>>
    BY <1>3
  <2> PICK v \in Seq(S) : v = s \o t
    BY ConcatProperties
  <2>1. Len(s) = 1 /\ Len(t) = 1 /\ s[1] = x /\ t[1] = y
    BY <1>1, <2>0
  <2>2. Len(u) = 2 /\ u[1] = x /\ u[2] = y
    BY <1>3
  <2>3. Len(v) = 2 /\ v[1] = x /\ v[2] = y
    BY <2>1, ConcatProperties
  <2>6. \A i \in 1..2 : i = 1 \/ i = 2
    OBVIOUS
  <2>4. \A i \in 1..Len(v) : v[i] = u[i]
    BY <2>2, <2>3, <2>6, Zenon
  <2>5. v = u
    BY <2>2, <2>3, <2>4, SeqEqual, ZenonT(40)
  <2> QED
    BY <2>5
<1>5. Append(<<>>, x) = <<x>>
  OBVIOUS
<1>6. Append(<<x>>, y) = <<x, y>>
  BY <1>1, <1>4, AppendIsConcat
<1> QED
  BY <1>1, <1>2, <1>3, <1>4, <1>5, <1>6

LEMMA LineEndTokens ==
  ASSUME NEW e \in LineEnds
  PROVE  e \in Seq(Tokens)
<1> PICK x \in Tokens, y \in Tokens : x = CR /\ y = LF
  BY TokenKinds
<1>1. /\ <<x>> \in Seq(Tokens) /\ <<y>> \in Seq(Tokens)
      /\ <<x, y>> \in Seq(Tokens)
  BY ShortSequences
<1> QED
  BY <1>1 DEF LineEnds

\* The end of a line: from behind its text, or from its start if it is blank.
LEMMA EndAdded ==
  ASSUME NEW e \in LineEnds, NEW s \in Seq(Tokens), NEW a, NEW b,
         Reaches(e, s, a, b), NEW lines \in Seq(Texts), NEW left \in Seq(Said),
         Go(e, b, e[1], Place(Behind(e), lines, left))
  PROVE  Reaches(e, s \o e, a, Place("start", lines, left))
<1>1. CR \in Tokens /\ LF \in Tokens
  BY TokenKinds
<1> PICK c : c = Place(Behind(e), lines, left)
  OBVIOUS
<1> PICK d : d = Place("start", lines, left)
  OBVIOUS
<1>2. c \in Places /\ c.at = Behind(e) /\ c.lines = lines /\ c.left = left
  BY PlaceFields DEF Behind
<1>3. d \in Places
  BY PlaceFields
<1>4. CASE Len(e) = 1
  <2>1. e = <<e[1]>> /\ e[1] \in Tokens /\ Behind(e) = "start"
    BY <1>1, <1>4, EndsOfLines DEF Behind
  <2>2. Reaches(e, s \o <<e[1]>>, a, c)
    BY <1>2, <2>1, ReachMore
  <2> QED
    BY <2>1, <2>2
<1>5. CASE Len(e) = 2
  <2> PICK x \in Tokens : x = CR
    BY <1>1
  <2> PICK y \in Tokens : y = LF
    BY <1>1
  <2>1. /\ e = <<x>> \o <<y>> /\ x = e[1] /\ y = e[2] /\ Behind(e) = "half"
    <3>1. e = <<CR, LF>> /\ e[1] = CR /\ e[2] = LF
      BY <1>5, EndsOfLines, SMTT(40)
    <3>2. <<x>> \o <<y>> = <<x, y>>
      BY ShortSequences
    <3>3. e = <<x, y>> /\ x = e[1] /\ y = e[2]
      BY <3>1, Zenon
    <3>4. Behind(e) = "half"
      BY <1>5 DEF Behind
    <3> QED
      BY <3>2, <3>3, <3>4, Zenon
  <2>8. Go(e, b, x, c)
    BY <2>1, Zenon
  <2>2. Reaches(e, s \o <<x>>, a, c)
    BY <1>2, <2>8, ReachMore
  <2>3. Go(e, c, y, d)
    BY <1>2, <1>5, <2>1 DEF Go
  <2>4. s \o <<x>> \in Seq(Tokens)
    BY Joined
  <2>5. Reaches(e, (s \o <<x>>) \o <<y>>, a, d)
    BY <1>3, <2>2, <2>3, <2>4, ReachMore
  <2>6. (s \o <<x>>) \o <<y>> = s \o (<<x>> \o <<y>>)
    BY Joined
  <2>7. s \o (<<x>> \o <<y>>) = s \o e
    BY <2>1
  <2> QED
    BY <2>5, <2>6, <2>7
<1> QED
  BY <1>4, <1>5, EndsOfLines

LEMMA WithText ==
  ASSUME NEW lines \in Seq(Texts), NEW x \in Texts
  PROVE  With(lines, x) \in Seq(Texts)
  BY AppendProperties DEF With

LEMMA TextAdded ==
  ASSUME NEW e, NEW s \in Seq(Tokens), NEW a, NEW x \in Texts,
         NEW lines \in Seq(Texts), NEW left \in Seq(Said),
         Reaches(e, s, a, Place("start", lines, left))
  PROVE  Reaches(e, s \o <<x>>, a, Place("text", With(lines, x), left))
<1> PICK b : b = Place("start", lines, left)
  OBVIOUS
<1> PICK c : c = Place("text", With(lines, x), left)
  OBVIOUS
<1>1. b.at = "start" /\ b.lines = lines /\ b.left = left
  BY PlaceFields
<1>2. c \in Places
  BY WithText, PlaceFields
<1>3. Go(e, b, x, c)
  BY <1>1 DEF Go
<1>4. x \in Tokens
  BY TokenKinds
<1> QED
  BY <1>2, <1>3, <1>4, ReachMore

LEMMA LineAdded ==
  ASSUME NEW e \in LineEnds, NEW s \in Seq(Tokens), NEW a, NEW x \in Texts,
         NEW lines \in Seq(Texts), NEW left \in Seq(Said),
         Reaches(e, s, a, Place("start", lines, left))
  PROVE  Reaches(e, (s \o <<x>>) \o e, a, Place("start", With(lines, x), left))
<1> PICK l \in Seq(Texts) : l = With(lines, x)
  BY WithText
<1> PICK z : z = s \o <<x>>
  OBVIOUS
<1> PICK b : b = Place("text", l, left)
  OBVIOUS
<1>1. x \in Tokens
  BY TokenKinds
<1>2. z \in Seq(Tokens)
  BY <1>1, Joined
<1>3. Reaches(e, z, a, b)
  BY TextAdded
<1>4. b.at = "text" /\ b.lines = l /\ b.left = left
  BY PlaceFields
<1>5. Go(e, b, e[1], Place(Behind(e), l, left))
  BY <1>4 DEF Go
<1> QED
  BY <1>2, <1>3, <1>5, EndAdded

LEMMA BlankAdded ==
  ASSUME NEW e \in LineEnds, NEW s \in Seq(Tokens), NEW a,
         NEW lines \in Seq(Texts), lines # <<>>,
         Event(lines) \in Said,
         Reaches(e, s, a, Place("start", lines, <<Event(lines)>>))
  PROVE  Reaches(e, s \o e, a, Place("start", <<>>, <<>>))
<1> PICK x \in Said : x = Event(lines)
  OBVIOUS
<1> PICK left \in Seq(Said) : left = <<x>>
  BY ShortSequences
<1> PICK b : b = Place("start", lines, left)
  OBVIOUS
<1> PICK none : none = <<>>
  OBVIOUS
<1>1. b.at = "start" /\ b.lines = lines /\ b.left = left
  BY PlaceFields
<1>2. left # <<>> /\ Head(left) = x /\ Tail(left) = none
  BY ShortSequences
<1>3. none \in Seq(Texts) /\ none \in Seq(Said)
  OBVIOUS
<1>4. Go(e, b, e[1], Place(Behind(e), none, none))
  BY <1>1, <1>2 DEF Go
<1> QED
  BY <1>3, <1>4, EndAdded

\* What an event amounts to.
LEMMA EventsSay ==
  /\ \A x \in Texts : x # Half => Event(<<x>>) = x
  /\ Event(<<Half, Half>>) = Data({"text"})
  /\ \A event \in Events :
        /\ \/ \E x \in Said : x # Comment /\ event = <<x>> /\ Len(event) = 1
           \/ event = <<Half, Half>> /\ Len(event) = 2
        /\ Event(event) \in Said
        /\ Event(event) = Done => event = <<Done>>
<1>1. ASSUME NEW x \in Texts, x # Half PROVE Event(<<x>>) = x
  <2>1. <<x>> # <<Half, Half>> /\ Len(<<x>>) = 1 /\ <<x>> # <<Half>>
        /\ <<x>>[1] = x
    BY <1>1
  <2> QED
    BY <2>1 DEF Event
<1>2. Event(<<Half, Half>>) = Data({"text"})
  <2>1. Len(<<Half, Half>>) = 2
    OBVIOUS
  <2> QED
    BY <2>1 DEF Event
<1>3. /\ \A x \in Said : x # Comment /\ x # Half /\ x \in Texts
      /\ Data({"text"}) \in Said /\ Data({"text"}) # Done
  BY DEF Said, Comment, Done, Huge, Half, Data, Texts, Parts
<1>4. ASSUME NEW event \in Events
      PROVE  \/ \E x \in Said : x # Comment /\ event = <<x>> /\ Len(event) = 1
             \/ event = <<Half, Half>> /\ Len(event) = 2
  <2>1. Chunks \subseteq SUBSET Parts
    BY ModelCallBounds
  <2>2. \/ \E x \in Said : event = <<x>>
        \/ event = <<Half, Half>>
    BY <2>1 DEF Events, Said
  <2> QED
    BY <1>3, <2>2
<1>5. ASSUME NEW event \in Events
      PROVE  Event(event) \in Said /\ (Event(event) = Done => event = <<Done>>)
  <2>1. CASE event = <<Half, Half>>
    BY <1>2, <1>3, <2>1
  <2>2. ASSUME NEW x \in Said, event = <<x>>
        PROVE  Event(event) = x
    BY <1>1, <1>3, <2>2
  <2> QED
    BY <1>4, <2>1, <2>2
<1> QED
  BY <1>1, <1>2, <1>4, <1>5

\* An event behind everything that was written.
LEMMA EventAdded ==
  ASSUME NEW e \in LineEnds, NEW s \in Seq(Tokens), NEW a \in Places,
         NEW event \in Events, NEW wire,
         wire = IF Len(event) = 2
                THEN (((<<event[1]>> \o e) \o <<event[2]>>) \o e) \o e
                ELSE (<<event[1]>> \o e) \o e,
         Reaches(e, s, a, Place("start", <<>>, <<>>))
  PROVE  /\ Reaches(e, s \o wire, More(a, Event(event)), Place("start", <<>>, <<>>))
         /\ wire \in Seq(Tokens)
<1> PICK y \in Said : y = Event(event)
  BY EventsSay
<1> PICK b : b = More(a, y)
  OBVIOUS
<1> PICK left \in Seq(Said) : left = <<y>>
  BY ShortSequences
<1> PICK none : none = <<>>
  OBVIOUS
<1>1. none \in Seq(Texts) /\ none \in Seq(Said) /\ Append(none, y) = left
  BY ShortSequences
<1>2. Reaches(e, s, b, Place("start", none, left))
  <2>1. Reaches(e, s, b, More(Place("start", none, none), y))
    BY ReachLonger
  <2> PICK p : p = Place("start", none, none)
    OBVIOUS
  <2>2. p.at = "start" /\ p.lines = none /\ p.left = none
    BY <1>1, PlaceFields
  <2>3. More(p, y) = Place("start", none, left)
    BY <1>1, <2>2 DEF More
  <2> QED
    BY <2>1, <2>3
<1>3. e \in Seq(Tokens) /\ \A x \in Texts : <<x>> \in Seq(Tokens)
  BY LineEndTokens, TokenKinds, ShortSequences
<1>4. CASE Len(event) = 1
  <2>0. Len(event) # 2
    BY <1>4
  <2> PICK x \in Said : x # Comment /\ event = <<x>>
    BY <2>0, EventsSay, Zenon
  <2>1. x \in Texts /\ event[1] = x /\ With(none, x) = event
    BY TokenKinds, ShortSequences DEF With
  <2> PICK z : z = (s \o <<x>>) \o e
    OBVIOUS
  <2>2. Reaches(e, z, b, Place("start", event, left))
    BY <1>1, <1>2, <2>1, LineAdded
  <2>3. z \in Seq(Tokens) /\ s \o <<x>> \in Seq(Tokens)
    BY <1>3, <2>1, Joined
  <2>4. event \in Seq(Texts) /\ event # <<>>
    BY <2>1, ShortSequences
  <2>5. Reaches(e, z \o e, b, Place("start", none, none))
    BY <2>2, <2>3, <2>4, BlankAdded
  <2>6. wire = (<<x>> \o e) \o e
    BY <1>4, <2>1
  <2>7. <<x>> \o e \in Seq(Tokens) /\ wire \in Seq(Tokens)
    BY <1>3, <2>1, <2>6, Joined
  <2>8. z \o e = s \o wire
    <3>1. z = s \o (<<x>> \o e)
      BY <1>3, <2>1, Joined
    <3> QED
      BY <1>3, <2>6, <2>7, <3>1, Joined
  <2> QED
    BY <2>5, <2>7, <2>8
<1>5. CASE event = <<Half, Half>> /\ Len(event) = 2
  <2> PICK x \in Texts : x = Half
    BY DEF Texts
  <2>1. event = <<x, x>> /\ event[1] = x /\ event[2] = x /\ x # Comment
    BY <1>5 DEF Half, Comment
  <2> PICK one \in Seq(Texts) : one = <<x>>
    BY ShortSequences
  <2>2. With(none, x) = one /\ With(one, x) = event /\ event \in Seq(Texts)
        /\ event # <<>>
    BY <2>1, ShortSequences DEF With
  <2> PICK w : w = <<x>> \o e
    OBVIOUS
  <2> PICK z : z = s \o w
    OBVIOUS
  <2>3. w \in Seq(Tokens) /\ z \in Seq(Tokens) /\ z = (s \o <<x>>) \o e
    BY <1>3, Joined, ZenonT(40)
  <2>4. Reaches(e, z, b, Place("start", one, left))
    BY <1>1, <1>2, <2>2, <2>3, LineAdded, ZenonT(60)
  <2>5. Reaches(e, (z \o <<x>>) \o e, b, Place("start", event, left))
    BY <2>2, <2>3, <2>4, LineAdded
  <2>6. (z \o <<x>>) \o e = z \o w /\ z \o w \in Seq(Tokens)
    BY <1>3, <2>3, Joined, SMTT(40)
  <2>7. Reaches(e, (z \o w) \o e, b, Place("start", none, none))
    BY <2>2, <2>5, <2>6, BlankAdded
  <2>8. wire = ((w \o <<x>>) \o e) \o e
    BY <1>5, <2>1
  <2>9. (w \o <<x>>) \o e = w \o w /\ w \o w \in Seq(Tokens)
    BY <1>3, <2>3, Joined, SMTT(40)
  <2>10. wire = (w \o w) \o e
    BY <2>8, <2>9
  <2> PICK v \in Seq(Tokens) : v = w \o w
    BY <2>9
  <2>12. v \o e \in Seq(Tokens) /\ wire = v \o e
    BY <1>3, <2>10, Joined
  <2>14. (s \o w) \o w = s \o (w \o w)
    BY <2>3, Joined, SMTT(40)
  <2>11. s \o (w \o w) = z \o w
    BY <2>14
  <2>15. (s \o v) \o e = s \o (v \o e)
    BY <1>3, Joined, SMTT(40)
  <2>13. s \o wire = (s \o v) \o e
    BY <2>12, <2>15
  <2> QED
    BY <2>7, <2>11, <2>12, <2>13
<1> QED
  BY <1>4, <1>5, EventsSay

-----------------------------------------------------------------------------
(* What the parser takes from the stream.                                  *)

\* b \o p from token k of b on.
Ahead(b, k, p) == SubSeq(b, k, Len(b)) \o p

LEMMA OneInFront ==
  ASSUME NEW S, NEW x \in S, NEW w \in Seq(S)
  PROVE  /\ <<x>> \o w \in Seq(S) /\ <<x>> \o w # <<>>
         /\ (<<x>> \o w)[1] = x /\ Tail(<<x>> \o w) = w
<1> PICK one \in Seq(S) : one = <<x>>
  BY ShortSequences
<1>1. Len(one) = 1 /\ one[1] = x
  OBVIOUS
<1> PICK s \in Seq(S) : s = one \o w
  BY ConcatProperties
<1> PICK n \in Nat : n = Len(w)
  OBVIOUS
<1>2. Len(s) = n + 1
      /\ \A i \in 1..(n + 1) : s[i] = IF i <= 1 THEN one[i] ELSE w[i - 1]
  BY <1>1, ConcatProperties
<1>3. s # <<>> /\ s[1] = x
  <2>1. 1 \in 1..(n + 1) /\ 1 <= 1
    OBVIOUS
  <2>2. s[1] = x
    BY <1>1, <1>2, <2>1
  <2>3. Len(s) # 0
    BY <1>2
  <2> QED
    BY <2>2, <2>3, EmptySeq
<1> PICK t \in Seq(S) : t = Tail(s)
  BY <1>3, HeadTailProperties
<1>4. Len(t) = n /\ \A i \in 1..n : t[i] = s[i + 1]
  <2>1. Len(t) = Len(s) - 1 /\ \A i \in 1..Len(t) : t[i] = s[i + 1]
    BY <1>3, HeadTailProperties
  <2>2. Len(s) - 1 = n
    BY <1>2
  <2> QED
    BY <2>1, <2>2
<1>5. ASSUME NEW i \in 1..n PROVE t[i] = w[i]
  <2>1. i + 1 \in 1..(n + 1) /\ ~(i + 1 <= 1) /\ (i + 1) - 1 = i
    OBVIOUS
  <2>2. s[i + 1] = w[(i + 1) - 1]
    BY <1>2, <2>1
  <2> QED
    BY <1>4, <2>1, <2>2
<1>6. t = w
  BY <1>4, <1>5, SeqEqual
<1> QED
  BY <1>3, <1>6

LEMMA FrontAhead ==
  ASSUME NEW x \in Tokens, NEW v \in Seq(Tokens), NEW p \in Seq(Tokens)
  PROVE  /\ (<<x>> \o v) \o p # <<>> /\ ((<<x>> \o v) \o p)[1] = x
         /\ Tail((<<x>> \o v) \o p) = v \o p
<1> PICK one \in Seq(Tokens) : one = <<x>>
  BY ShortSequences
<1>1. (one \o v) \o p = one \o (v \o p) /\ v \o p \in Seq(Tokens)
  BY Joined
<1> PICK w \in Seq(Tokens) : w = v \o p
  BY <1>1
<1>2. (<<x>> \o v) \o p = <<x>> \o w
  BY <1>1
<1>3. <<x>> \o w # <<>> /\ (<<x>> \o w)[1] = x /\ Tail(<<x>> \o w) = w
  BY OneInFront
<1> QED
  BY <1>2, <1>3, Zenon

LEMMA AheadFacts ==
  ASSUME NEW b \in Seq(Tokens), NEW p \in Seq(Tokens), NEW k \in 1..(Len(b) + 1)
  PROVE  /\ SubSeq(b, k, Len(b)) \in Seq(Tokens)
         /\ Ahead(b, k, p) \in Seq(Tokens)
         /\ k = 1 => Ahead(b, k, p) = b \o p
         /\ k = Len(b) + 1 => Ahead(b, k, p) = p
         /\ k <= Len(b) => /\ Ahead(b, k, p) # <<>> /\ Ahead(b, k, p)[1] = b[k]
                           /\ Tail(Ahead(b, k, p)) = Ahead(b, k + 1, p)
<1>0. \A x \in Tokens : \A v \in Seq(Tokens) :
        /\ (<<x>> \o v) \o p # <<>> /\ ((<<x>> \o v) \o p)[1] = x
        /\ Tail((<<x>> \o v) \o p) = v \o p
  BY FrontAhead
<1> PICK n \in Nat : n = Len(b)
  OBVIOUS
<1>1. \A i \in 1..n : b[i] \in Tokens
  BY ElementOfSeq
<1>2. ASSUME NEW i \in 1..(n + 1) PROVE SubSeq(b, i, n) \in Seq(Tokens)
  <2>1. \A j \in i..n : b[j] \in Tokens
    BY <1>1
  <2> QED
    BY <2>1, SubSeqProperties
<1>3. Ahead(b, k, p) \in Seq(Tokens)
  BY <1>2, ConcatProperties DEF Ahead
<1>4. ASSUME k = 1 PROVE Ahead(b, k, p) = b \o p
  BY <1>4, SubSeqFull DEF Ahead
<1>5. ASSUME k = n + 1 PROVE Ahead(b, k, p) = p
  <2>1. n < k /\ k \in Int /\ n \in Int
    BY <1>5
  <2>2. SubSeq(b, k, n) = <<>>
    BY <2>1, SubSeqEmpty
  <2>3. <<>> \o p = p
    BY ConcatEmptySeq
  <2> QED
    BY <2>2, <2>3 DEF Ahead
<1>6. ASSUME k <= n
      PROVE  /\ Ahead(b, k, p) # <<>> /\ Ahead(b, k, p)[1] = b[k]
             /\ Tail(Ahead(b, k, p)) = Ahead(b, k + 1, p)
  <2>1. k \in 1..n /\ n \in k..n /\ k + 1 \in 1..(n + 1)
    BY <1>6
  <2> PICK x \in Tokens : x = b[k]
    BY <1>1, <2>1
  <2> PICK v \in Seq(Tokens) : v = SubSeq(b, k + 1, n)
    BY <1>2, <2>1
  <2>2. SubSeq(b, k, n) = <<x>> \o v
    BY <2>1, SubSeqRecursiveFirst
  <2>3. /\ (<<x>> \o v) \o p # <<>> /\ ((<<x>> \o v) \o p)[1] = x
        /\ Tail((<<x>> \o v) \o p) = v \o p
    BY <1>0, Zenon
  <2>4. Ahead(b, k, p) = (<<x>> \o v) \o p /\ Ahead(b, k + 1, p) = v \o p
    BY <2>2 DEF Ahead
  <2> QED
    BY <2>3, <2>4
<1> QED
  BY <1>2, <1>3, <1>4, <1>5, <1>6

LEMMA AheadNext ==
  ASSUME NEW b \in Seq(Tokens), NEW p \in Seq(Tokens), NEW k \in 1..Len(b)
  PROVE  /\ Ahead(b, k + 1, p) \in Seq(Tokens)
         /\ k = Len(b) => Ahead(b, k + 1, p) = p
         /\ k < Len(b) => /\ Ahead(b, k + 1, p) # <<>>
                          /\ Ahead(b, k + 1, p)[1] = b[k + 1]
                          /\ Tail(Ahead(b, k + 1, p)) = Ahead(b, k + 2, p)
<1> PICK m \in 1..(Len(b) + 1) : m = k + 1
  OBVIOUS
<1>1. /\ Ahead(b, m, p) \in Seq(Tokens)
      /\ m = Len(b) + 1 => Ahead(b, m, p) = p
      /\ m <= Len(b) => /\ Ahead(b, m, p) # <<>> /\ Ahead(b, m, p)[1] = b[m]
                        /\ Tail(Ahead(b, m, p)) = Ahead(b, m + 1, p)
  BY AheadFacts, ZenonT(60)
<1>2. m + 1 = k + 2 /\ (k = Len(b) => m = Len(b) + 1)
      /\ (k < Len(b) => m <= Len(b))
  OBVIOUS
<1> QED
  BY <1>1, <1>2

LEMMA NoTokens ==
  ASSUME NEW b
  PROVE  SubSeq(b, 1, 0) = <<>>
  BY SubSeqEmpty

LEMMA FirstLineEnd ==
  ASSUME NEW b \in Seq(Tokens), NEW k \in 1..Len(b), b[k] \in {CR, LF},
         \A i \in 1..Len(b) : i < k => b[i] \notin {CR, LF}
  PROVE  LineEnd(b) = k
<1> DEFINE S == {i \in DOMAIN b : b[i] \in {CR, LF}}
<1>1. DOMAIN b = 1..Len(b)
  OBVIOUS
<1>2. k \in S /\ \A i \in S : i \in Nat /\ k <= i
  BY <1>1
<1>3. \A x \in S : (\A y \in S : x <= y) => x = k
  BY <1>2
<1> HIDE DEF S
<1>4. (CHOOSE x \in S : \A y \in S : x <= y) = k
  BY <1>2, <1>3
<1> QED
  BY <1>4 DEF LineEnd, Min, S

\* Behind the first byte of the end of a line.
LEMMA EndTaken ==
  ASSUME NEW e \in LineEnds, NEW b \in Seq(Tokens), NEW p \in Seq(Tokens),
         NEW k \in 1..Len(b), b[k] = e[1],
         NEW lines \in Seq(Texts), NEW left \in Seq(Said),
         NEW z \in Places, z.at # "half",
         (k = Len(b) /\ b[k] = CR) => p = <<>>,
         Reaches(e, Ahead(b, k + 1, p), Place(Behind(e), lines, left), z)
  PROVE  /\ k + Width(b, k) \in 1..(Len(b) + 1)
         /\ Reaches(e, Ahead(b, k + Width(b, k), p),
                    Place("start", lines, left), z)
<1> PICK n \in Nat : n = Len(b)
  OBVIOUS
<1> PICK u : u = Ahead(b, k + 1, p)
  OBVIOUS
<1> PICK a : a = Place(Behind(e), lines, left)
  OBVIOUS
<1>0. k + 1 \in 1..(n + 1)
  OBVIOUS
<1>1. /\ u \in Seq(Tokens)
      /\ k = n => u = p
      /\ k < n => /\ u # <<>> /\ u[1] = b[k + 1]
                  /\ Tail(u) = Ahead(b, k + 2, p)
  <2>1. /\ Ahead(b, k + 1, p) \in Seq(Tokens)
        /\ k = Len(b) => Ahead(b, k + 1, p) = p
        /\ k < Len(b) => /\ Ahead(b, k + 1, p) # <<>>
                         /\ Ahead(b, k + 1, p)[1] = b[k + 1]
                         /\ Tail(Ahead(b, k + 1, p)) = Ahead(b, k + 2, p)
    BY AheadNext
  <2> QED
    BY <2>1, Zenon
<1>2. Reaches(e, u, a, z)
  OBVIOUS
<1>3. a.at = Behind(e) /\ a.lines = lines /\ a.left = left
  BY DEF Place
<1>4. CASE Behind(e) = "start" /\ Width(b, k) = 1
  BY <1>0, <1>2, <1>4
<1>5. CASE k = n
  <2>1. Width(b, k) = 1
    BY <1>5 DEF Width
  <2>2. CASE Len(e) = 2 /\ e[1] = CR
    <3>1. p = <<>>
      BY <1>5, <2>2
    <3>4. u = <<>>
      BY <1>1, <1>5, <3>1
    <3>5. Reaches(e, <<>>, a, z)
      BY <1>2, <3>4
    <3>2. a = z
      BY <3>5, ReachNothing
    <3>3. Behind(e) = "half"
      BY <2>2 DEF Behind
    <3> QED
      BY <1>3, <3>2, <3>3
  <2>3. CASE Len(e) = 1
    <3>1. Behind(e) = "start"
      BY <2>3 DEF Behind
    <3> QED
      BY <1>4, <2>1, <3>1
  <2> QED
    BY <2>2, <2>3, EndsOfLines
<1>6. CASE k < n
  <2> PICK c \in Places : Go(e, a, b[k + 1], c) /\ Reaches(e, Tail(u), c, z)
    BY <1>1, <1>2, <1>6, ReachFirst
  <2>1. CASE Len(e) = 1 /\ e[1] = LF
    <3>1. Behind(e) = "start" /\ Width(b, k) = 1
      BY <2>1, TokenKinds DEF Behind, Width
    <3> QED
      BY <1>4, <3>1
  <2>2. CASE Len(e) = 1 /\ e[1] = CR
    <3>1. Behind(e) = "start"
      BY <2>2 DEF Behind
    <3>2. b[k + 1] \in Texts \/ b[k + 1] = CR
      BY <1>3, <2>2, <3>1 DEF Go
    <3>3. b[k + 1] # LF
      BY <3>2, TokenKinds
    <3>4. Width(b, k) = 1
      BY <3>3 DEF Width
    <3> QED
      BY <1>4, <3>1, <3>4
  <2>3. CASE Len(e) = 2 /\ e[1] = CR /\ e[2] = LF
    <3>1. Behind(e) = "half"
      BY <2>3 DEF Behind
    <3>2. b[k + 1] = LF /\ c = Place("start", lines, left)
      BY <1>3, <2>3, <3>1 DEF Go
    <3>3. Width(b, k) = 2
      BY <1>6, <2>3, <3>2 DEF Width
    <3>4. k + 2 \in 1..(n + 1)
      BY <1>6
    <3> QED
      BY <1>1, <1>6, <3>2, <3>3, <3>4
  <2> QED
    BY <2>1, <2>2, <2>3, EndsOfLines
<1> QED
  BY <1>5, <1>6

\* The next line the parser sees is the next one of the stream.
LEMMA LineTaken ==
  ASSUME NEW e \in LineEnds, NEW b \in Seq(Tokens), NEW p \in Seq(Tokens),
         b # <<>>, NEW lines \in Seq(Texts), NEW left \in Seq(Said),
         NEW z \in Places, z.at # "half",
         eof => p = <<>>, HasLine(b) \/ eof,
         Reaches(e, b \o p, Place("start", lines, left), z)
  PROVE  /\ Remainder(b) \in Seq(Tokens)
         /\ \/ /\ NextLine(b) = <<>> /\ lines # <<>> /\ left # <<>>
               /\ Head(left) = Event(lines)
               /\ Reaches(e, Remainder(b) \o p, Place("start", <<>>, Tail(left)), z)
            \/ \E x \in Texts :
                  /\ NextLine(b) = <<x>>
                  /\ \/ Reaches(e, Remainder(b) \o p,
                                Place("start", With(lines, x), left), z)
                     \/ /\ Remainder(b) = <<>> /\ p = <<>>
                        /\ z = Place("text", With(lines, x), left)
<1>0. \A k \in 1..(Len(b) + 1) :
        /\ SubSeq(b, k, Len(b)) \in Seq(Tokens)
        /\ Ahead(b, k, p) \in Seq(Tokens)
        /\ k = 1 => Ahead(b, k, p) = b \o p
        /\ k = Len(b) + 1 => Ahead(b, k, p) = p
        /\ k <= Len(b) => /\ Ahead(b, k, p) # <<>> /\ Ahead(b, k, p)[1] = b[k]
                          /\ Tail(Ahead(b, k, p)) = Ahead(b, k + 1, p)
  BY AheadFacts
<1> PICK n \in Nat : n = Len(b) /\ n > 0
  BY EmptySeq
<1> PICK a : a = Place("start", lines, left)
  OBVIOUS
<1> PICK u : u = Ahead(b, 2, p)
  OBVIOUS
<1>1. a.at = "start" /\ a.lines = lines /\ a.left = left
  BY DEF Place
<1> PICK s : s = b \o p
  OBVIOUS
<1>2. s \in Seq(Tokens) /\ s # <<>> /\ s[1] = b[1] /\ Tail(s) = u
  <2>1. 1 \in 1..(n + 1) /\ 1 <= n /\ 1 + 1 = 2
    OBVIOUS
  <2>2. /\ Ahead(b, 1, p) \in Seq(Tokens) /\ Ahead(b, 1, p) = s
        /\ Ahead(b, 1, p) # <<>> /\ Ahead(b, 1, p)[1] = b[1]
        /\ Tail(Ahead(b, 1, p)) = Ahead(b, 1 + 1, p)
    BY <1>0, <2>1, ZenonT(40)
  <2> QED
    BY <2>1, <2>2
<1> PICK c \in Places : Go(e, a, b[1], c) /\ Reaches(e, u, c, z)
  BY <1>2, ReachFirst
<1>3. ASSUME NEW k \in 1..n, b[k] = e[1], LineEnd(b) = k
      PROVE  /\ HasLine(b) /\ NextLine(b) = SubSeq(b, 1, k - 1)
             /\ Remainder(b) = SubSeq(b, k + Width(b, k), n)
             /\ (k = n /\ b[k] = CR) => p = <<>>
  <2>1. b[k] \in {CR, LF} /\ DOMAIN b = 1..n
    BY <1>3, EndsOfLines
  <2>2. HasLine(b)
    BY <1>3, <2>1 DEF HasLine
  <2>3. (k = n /\ b[k] = CR) => p = <<>>
    BY <1>3, <2>2 DEF HasLine
  <2> QED
    BY <1>3, <2>2, <2>3 DEF NextLine, Remainder
<1>6. ASSUME NEW i \in 1..(n + 1)
      PROVE  SubSeq(b, i, n) \in Seq(Tokens) /\ Ahead(b, i, p) = SubSeq(b, i, n) \o p
  BY AheadFacts DEF Ahead
<1>4. CASE b[1] = e[1] /\ lines # <<>> /\ left # <<>> /\ Head(left) = Event(lines)
           /\ c = Place(Behind(e), <<>>, Tail(left))
  <2>1. LineEnd(b) = 1
    <3>1. b[1] \in {CR, LF} /\ 1 \in 1..Len(b)
          /\ \A i \in 1..Len(b) : ~(i < 1)
      BY <1>4, EndsOfLines
    <3> QED
      BY <3>1, FirstLineEnd
  <2>2. 1 \in 1..n /\ 1 - 1 = 0 /\ 1 + 1 = 2
    OBVIOUS
  <2>3. /\ HasLine(b) /\ NextLine(b) = SubSeq(b, 1, 0)
        /\ Remainder(b) = SubSeq(b, 1 + Width(b, 1), n)
        /\ (1 = n /\ b[1] = CR) => p = <<>>
    BY <1>3, <1>4, <2>1, <2>2
  <2>4. SubSeq(b, 1, 0) = <<>>
    BY NoTokens
  <2> PICK none \in Seq(Texts) : none = <<>>
    BY EmptySeq
  <2> PICK later \in Seq(Said) : later = Tail(left)
    BY <1>4, HeadTailProperties
  <2>5. Reaches(e, Ahead(b, 1 + 1, p), Place(Behind(e), none, later), z)
    BY <1>4, <2>2
  <2>6. /\ 1 + Width(b, 1) \in 1..(n + 1)
        /\ Reaches(e, Ahead(b, 1 + Width(b, 1), p), Place("start", none, later), z)
    BY <1>4, <2>2, <2>3, <2>5, EndTaken
  <2>7. Remainder(b) \in Seq(Tokens)
        /\ Reaches(e, Remainder(b) \o p, Place("start", none, later), z)
    BY <1>6, <2>3, <2>6
  <2> QED
    BY <1>4, <2>3, <2>4, <2>7
<1>5. CASE b[1] \in Texts /\ c = Place("text", With(lines, b[1]), left)
  <2> PICK x \in Texts : x = b[1]
    BY <1>5
  <2> PICK l \in Seq(Texts) : l = With(lines, x)
    BY WithText
  <2>0. c.at = "text" /\ c.lines = l /\ c.left = left
    BY <1>5 DEF Place
  <2>1. CASE n = 1
    <3>1. b[1] \notin {CR, LF}
      BY <1>5, TokenKinds
    <3>10. DOMAIN b = 1..Len(b)
      BY LenProperties
    <3>12. \A i \in 1..1 : i = 1
      OBVIOUS
    <3>7. \A i \in DOMAIN b : i = 1
      BY <2>1, <3>10, <3>12, Zenon
    <3>2. ~HasLine(b)
      BY <3>1, <3>7 DEF HasLine
    <3>3. p = <<>> /\ NextLine(b) = b /\ Remainder(b) = <<>>
      BY <3>2 DEF NextLine, Remainder
    <3>4. b = <<x>>
      <4>1. <<x>> \in Seq(Texts) /\ Len(<<x>>) = 1 /\ <<x>>[1] = x
        BY ShortSequences
      <4>2. <<x>> \in Seq(Tokens)
        BY TokenKinds, ShortSequences
      <4>3. \A i \in 1..1 : i = 1
        OBVIOUS
      <4> PICK one \in Seq(Tokens) : one = <<x>>
        BY <4>2
      <4>4. Len(one) = 1 /\ one[1] = x
        BY <4>1
      <4>5. \A i \in 1..Len(one) : one[i] = b[i]
        BY <4>3, <4>4
      <4> QED
        BY <2>1, <4>4, <4>5, SeqEqual, ZenonT(40)
    <3>5. u = <<>>
      <4>1. 2 \in 1..(n + 1) /\ 2 = n + 1
        BY <2>1
      <4>2. u = p
        BY <4>1, AheadFacts
      <4> QED
        BY <3>3, <4>2
    <3>11. Reaches(e, <<>>, c, z)
      BY <3>5
    <3>6. c = z
      BY <3>11, ReachNothing
    <3> QED
      BY <1>5, <3>3, <3>4, <3>6
  <2>2. CASE n > 1
    <3>4. 2 \in 1..n /\ 2 \in 1..(n + 1) /\ 2 <= n /\ 2 - 1 = 1 /\ 2 + 1 = 3
      BY <2>2
    <3>1. /\ u \in Seq(Tokens) /\ u # <<>> /\ u[1] = b[2]
          /\ Tail(u) = Ahead(b, 2 + 1, p)
      BY <1>0, <3>4, ZenonT(60)
    <3> PICK d \in Places : Go(e, c, b[2], d) /\ Reaches(e, Tail(u), d, z)
      BY <3>1, ReachFirst
    <3>2. b[2] = e[1] /\ d = Place(Behind(e), l, left)
      BY <2>0 DEF Go
    <3>3. LineEnd(b) = 2
      <4>1. b[2] \in {CR, LF} /\ b[1] \notin {CR, LF}
        BY <1>5, <3>2, EndsOfLines, TokenKinds
      <4>2. 2 \in 1..Len(b) /\ \A i \in 1..Len(b) : i < 2 => i = 1
        BY <2>2
      <4> QED
        BY <4>1, <4>2, FirstLineEnd
    <3>5. /\ HasLine(b) /\ NextLine(b) = SubSeq(b, 1, 1)
          /\ Remainder(b) = SubSeq(b, 2 + Width(b, 2), n)
          /\ (2 = n /\ b[2] = CR) => p = <<>>
      BY <1>3, <3>2, <3>3, <3>4
    <3>6. SubSeq(b, 1, 1) = <<x>>
      <4>1. SubSeq(b, 1, 1) \in Seq(Tokens) /\ Len(SubSeq(b, 1, 1)) = 1
            /\ SubSeq(b, 1, 1)[1] = x
        <5>1. \A i \in 1..1 : b[i] \in Tokens
          BY ElementOfSeq
        <5>2. 1 <= 1 /\ 1 - 1 + 1 = 1 /\ 1 + 1 - 1 = 1 /\ 1 \in Int /\ 1 \in 1..1
          OBVIOUS
        <5>3. /\ SubSeq(b, 1, 1) \in Seq(Tokens)
              /\ Len(SubSeq(b, 1, 1)) = IF 1 <= 1 THEN 1 - 1 + 1 ELSE 0
              /\ \A i \in 1..(1 - 1 + 1) : SubSeq(b, 1, 1)[i] = b[1 + i - 1]
          BY <5>1, <5>2, SubSeqProperties
        <5> QED
          BY <5>2, <5>3
      <4> PICK one \in Seq(Tokens) : one = <<x>>
        BY TokenKinds, ShortSequences
      <4>2. Len(one) = 1 /\ one[1] = x /\ \A i \in 1..1 : i = 1
        OBVIOUS
      <4> PICK v \in Seq(Tokens) : v = SubSeq(b, 1, 1)
        BY <4>1
      <4>3. \A i \in 1..Len(v) : v[i] = one[i]
        BY <4>1, <4>2
      <4>4. v = one
        BY <4>1, <4>2, <4>3, SeqEqual, ZenonT(40)
      <4> QED
        BY <4>4
    <3>7. Reaches(e, Ahead(b, 2 + 1, p), Place(Behind(e), l, left), z)
      BY <3>1, <3>2
    <3>8. /\ 2 + Width(b, 2) \in 1..(n + 1)
          /\ Reaches(e, Ahead(b, 2 + Width(b, 2), p), Place("start", l, left), z)
      BY <3>2, <3>4, <3>5, <3>7, EndTaken
    <3>9. Remainder(b) \in Seq(Tokens)
          /\ Reaches(e, Remainder(b) \o p, Place("start", l, left), z)
      BY <1>6, <3>5, <3>8
    <3> QED
      BY <3>5, <3>6, <3>9
  <2> QED
    BY <2>1, <2>2
<1> QED
  BY <1>1, <1>4, <1>5 DEF Go

-----------------------------------------------------------------------------
(* The steps of a call keep the stream.                                    *)

\* Where a reader of all that is on its way ends: between two events, or
\* behind a last one that has no blank line.
Home(z, last) ==
    \/ z = Place("start", <<>>, <<>>)
    \/ /\ last /\ z.at \in {"start", "text"} /\ z.lines # <<>>
       /\ z.left = <<Event(z.lines)>>

\* From where the parser stands, what is on its way brings what is due.
Framed ==
    \E z \in Places :
        /\ Reaches(eol, buffer \o pipe, Place("start", data, due), z)
        /\ Home(z, closing)

StreamInv ==
    /\ eol \in LineEnds
    /\ buffer \in Seq(Tokens) /\ pipe \in Seq(Tokens)
    /\ data \in Seq(Texts) /\ due \in Seq(Said)
    /\ pc = "fetching" =>
          /\ buffer = <<>> /\ pipe = <<>> /\ data = <<>> /\ due = <<>>
          /\ ~closing /\ ~eof
    /\ pc \in {"reading", "parsing", "delta"} =>
          /\ Framed /\ (eof => pipe = <<>>)
          /\ \A i \in 1..Len(due) : i < Len(due) => due[i] # Done
    /\ pc = "reading" => ~eof
    /\ outcome = "completed" => due = <<>>

LEMMA SaidTexts ==
  ASSUME NEW x \in Said
  PROVE  x \in Texts /\ x # Comment /\ x # Half /\ Event(<<x>>) = x
<1>1. x \in Texts /\ x # Comment /\ x # Half
  BY DEF Said, Comment, Done, Huge, Half, Data, Texts
<1> QED
  BY <1>1, EventsSay

LEMMA HomeAt ==
  ASSUME NEW z, NEW last, Home(z, last)
  PROVE  z.at # "half"
  BY DEF Home, Place

\* An attempt that is over asks nothing of its stream.
LEMMA RestsWell ==
  ASSUME eol' \in LineEnds, buffer' \in Seq(Tokens), pipe' \in Seq(Tokens),
         data' \in Seq(Texts), due' \in Seq(Said),
         pc' \notin {"fetching", "reading", "parsing", "delta"},
         outcome' # "completed"
  PROVE  StreamInv'
  BY DEF StreamInv

LEMMA CatchEnds ==
  ASSUME CallInv, NEW cause, NEW a, Catch(cause, a), pc # "done"
  PROVE  pc' \in {"sleeping", "done"} /\ outcome' # "completed"
<1>1. outcome = "none"
  BY DEF CallInv, ModelCallType
<1> QED
  BY <1>1 DEF Catch, Settle

LEMMA WaitsStream ==
  ASSUME CallInv, StreamInv,
         \/ Begin \/ Wake \/ Accepted \/ Refused \/ Timeout \/ Abort
         \/ PreviewRead \/ FetchFails \/ ReadFails \/ DeltaFails
  PROVE  StreamInv'
<1> USE DEF stream, parser
<1>0. /\ eol \in LineEnds /\ buffer \in Seq(Tokens) /\ pipe \in Seq(Tokens)
      /\ data \in Seq(Texts) /\ due \in Seq(Said)
  BY DEF StreamInv
<1>1. CASE Begin
  <2>1. CASE StartAttempt
    <3>1. /\ pc' = "fetching" /\ eol' = eol /\ buffer' = <<>> /\ pipe' = <<>>
          /\ data' = <<>> /\ due' = <<>> /\ ~closing' /\ ~eof'
      BY <2>1 DEF StartAttempt
    <3>2. /\ buffer' \in Seq(Tokens) /\ pipe' \in Seq(Tokens)
          /\ data' \in Seq(Texts) /\ due' \in Seq(Said)
      BY <3>1, EmptySeq
    <3> QED
      BY <1>0, <3>1, <3>2 DEF StreamInv
  <2>2. CASE pc' = "done" /\ outcome' = "aborted" /\ UNCHANGED <<stream, parser>>
    BY <1>0, <2>2, RestsWell
  <2> QED
    BY <1>1, <2>1, <2>2 DEF Begin
<1>2. CASE Wake
  <2>1. UNCHANGED <<stream, parser>> /\ pc' \in {"done", "begin"}
        /\ outcome' # "completed"
    BY <1>2 DEF Wake, CallInv, ModelCallType
  <2> QED
    BY <1>0, <2>1, RestsWell
<1>3. CASE Accepted
  <2>1. /\ pc = "fetching" /\ pc' = "reading" /\ eol' \in LineEnds
        /\ UNCHANGED <<pipe, closing, due, parser, outcome>>
    BY <1>3 DEF Accepted
  <2>2. /\ buffer' = <<>> /\ pipe' = <<>> /\ data' = <<>> /\ due' = <<>>
        /\ ~eof'
    BY <2>1 DEF StreamInv
  <2> PICK s : s = <<>>
    OBVIOUS
  <2> PICK a \in Places : a = Place("start", s, s)
    <3>1. s \in Seq(Texts) /\ s \in Seq(Said)
      BY EmptySeq
    <3> QED
      BY <3>1, PlaceFields
  <2>3. Reaches(eol', s, a, a)
    BY ReachNothing
  <2>4. buffer' \o pipe' = s
    <3>1. <<>> \in Seq(Tokens)
      BY EmptySeq
    <3> QED
      BY <2>2, <3>1, ConcatEmptySeq
  <2>5. Home(a, closing')
    BY DEF Home
  <2>6. Framed'
    BY <2>2, <2>3, <2>4, <2>5 DEF Framed
  <2>7. \A i \in 1..Len(due') : ~(i < Len(due'))
    <3>1. Len(due') = 0
      BY <2>2, EmptySeq
    <3> QED
      BY <3>1
  <2>8. due' = <<>> /\ pc' = "reading" /\ ~eof'
    BY <2>1, <2>2
  <2> QED
    BY <1>0, <2>1, <2>6, <2>7, <2>8 DEF StreamInv
<1>4. CASE Refused
  <2>1. UNCHANGED <<stream, parser>> /\ pc' \in {"denied", "busy"}
        /\ outcome' # "completed"
    BY <1>4 DEF Refused, CallInv, ModelCallType
  <2> QED
    BY <1>0, <2>1, RestsWell
<1>5. CASE Timeout \/ Abort
  <2>1. UNCHANGED <<stream, parser, pc, outcome>>
    BY <1>5 DEF Timeout, Abort
  <2> QED
    BY <2>1 DEF StreamInv, Framed, Home
<1>6. CASE PreviewRead
  <2>1. UNCHANGED <<stream, parser>> /\ pc # "done" /\ outcome # "completed"
    BY <1>6 DEF PreviewRead, CallInv, ModelCallType
  <2>2. CASE Catch("network", acc)
    <3>1. pc' \in {"sleeping", "done"} /\ outcome' # "completed"
      BY <2>1, <2>2, CatchEnds
    <3> QED
      BY <1>0, <2>1, <3>1, RestsWell
  <2>3. CASE Settle(pc = "busy", "failed")
    <3>1. pc' \in {"sleeping", "done"} /\ outcome' # "completed"
      BY <2>1, <2>3 DEF Settle
    <3> QED
      BY <1>0, <2>1, <3>1, RestsWell
  <2> QED
    BY <1>6, <2>2, <2>3 DEF PreviewRead
<1>7. CASE FetchFails \/ ReadFails \/ DeltaFails
  <2>1. UNCHANGED <<stream, parser>> /\ pc # "done" /\ \E cause : Catch(cause, acc)
    BY <1>7 DEF FetchFails, ReadFails, DeltaFails
  <2>2. pc' \in {"sleeping", "done"} /\ outcome' # "completed"
    BY <2>1, CatchEnds
  <2> QED
    BY <1>0, <2>1, <2>2, RestsWell
<1> QED
  BY <1>1, <1>2, <1>3, <1>4, <1>5, <1>6, <1>7

\* A step that adds to the stream and leaves a reader of all of it at home.
LEMMA Extends ==
  ASSUME CallInv, StreamInv, pc = "reading", pc' = pc, outcome' = outcome,
         eol' = eol, buffer' = buffer, data' = data, eof' = eof,
         NEW w \in Seq(Tokens), pipe' = pipe \o w, due' \in Seq(Said),
         \A i \in 1..Len(due') : i < Len(due') => due'[i] # Done,
         NEW z \in Places, Home(z, closing'),
         Reaches(eol, (buffer \o pipe) \o w, Place("start", data, due'), z)
  PROVE  StreamInv'
<1>1. outcome # "completed" /\ ~eof
  BY DEF CallInv, ModelCallType, StreamInv
<1>2. buffer \in Seq(Tokens) /\ pipe \in Seq(Tokens)
  BY DEF StreamInv
<1>3. pipe' \in Seq(Tokens) /\ buffer' \o pipe' = (buffer \o pipe) \o w
  <2>1. (buffer \o pipe) \o w = buffer \o (pipe \o w) /\ pipe \o w \in Seq(Tokens)
    BY <1>2, Joined, SMTT(40)
  <2> QED
    BY <2>1
<1>4. Framed'
  BY <1>3 DEF Framed
<1>5. /\ eol' \in LineEnds /\ buffer' \in Seq(Tokens) /\ data' \in Seq(Texts)
  BY DEF StreamInv
<1> QED
  BY <1>1, <1>3, <1>4, <1>5 DEF StreamInv

LEMMA WritesStream ==
  ASSUME CallInv, StreamInv, Write \/ KeepAlive \/ WriteLast
  PROVE  StreamInv'
<1> USE DEF parser
<1>1. /\ pc = "reading" /\ pc' = pc /\ outcome' = outcome /\ eol' = eol
      /\ buffer' = buffer /\ data' = data /\ eof' = eof /\ ~closing
      /\ \A i \in DOMAIN due : due[i] # Done
  BY DEF Write, KeepAlive, WriteLast, Writing
<1>2. /\ eol \in LineEnds /\ buffer \in Seq(Tokens) /\ pipe \in Seq(Tokens)
      /\ data \in Seq(Texts) /\ due \in Seq(Said) /\ Framed
      /\ \A i \in 1..Len(due) : i < Len(due) => due[i] # Done
  BY <1>1 DEF StreamInv
<1> PICK s \in Seq(Tokens) : s = buffer \o pipe
  BY <1>2, Joined
<1> PICK a \in Places : a = Place("start", data, due)
  BY <1>2, PlaceFields
<1> PICK none : none = <<>>
  OBVIOUS
<1>3. none \in Seq(Texts) /\ none \in Seq(Said) /\ none \in Seq(Tokens)
  BY EmptySeq
<1> PICK h \in Places : h = Place("start", none, none)
  BY <1>3, PlaceFields
<1>4. Reaches(eol, s, a, h)
  BY <1>1, <1>2 DEF Framed, Home
<1>5. Home(h, closing')
  BY DEF Home
<1>6. ASSUME NEW x \in Said
      PROVE  /\ Append(due, x) \in Seq(Said)
             /\ More(a, x) = Place("start", data, Append(due, x))
             /\ \A i \in 1..Len(Append(due, x)) :
                   i < Len(Append(due, x)) => Append(due, x)[i] # Done
  <2>1. /\ Append(due, x) \in Seq(Said) /\ Len(Append(due, x)) = Len(due) + 1
        /\ \A i \in 1..Len(due) : Append(due, x)[i] = due[i]
    BY <1>2, AppendProperties
  <2>2. DOMAIN due = 1..Len(due) /\ Len(due) \in Nat
    BY <1>2, LenProperties
  <2>3. a.at = "start" /\ a.lines = data /\ a.left = due
    BY DEF Place
  <2>4. \A i \in 1..Len(Append(due, x)) : i < Len(Append(due, x)) => i \in 1..Len(due)
    BY <2>1, <2>2
  <2> QED
    BY <1>1, <2>1, <2>2, <2>3, <2>4 DEF More
<1>7. CASE Write
  <2> PICK event \in Events : pipe' = pipe \o Wire(event)
                              /\ due' = Append(due, Event(event))
    BY <1>7 DEF Write
  <2> PICK x \in Said : x = Event(event)
    BY EventsSay
  <2> PICK w : w = Wire(event)
    OBVIOUS
  <2>1. Reaches(eol, s \o w, More(a, x), h) /\ w \in Seq(Tokens)
    <3>1. w = IF Len(event) = 2
              THEN (((<<event[1]>> \o eol) \o <<event[2]>>) \o eol) \o eol
              ELSE (<<event[1]>> \o eol) \o eol
      BY DEF Wire
    <3>2. Reaches(eol, s, a, Place("start", <<>>, <<>>))
      BY <1>4
    <3>3. /\ Reaches(eol, s \o w, More(a, Event(event)), Place("start", <<>>, <<>>))
          /\ w \in Seq(Tokens)
      BY <1>2, <3>1, <3>2, EventAdded
    <3> QED
      BY <3>3
  <2>2. /\ due' \in Seq(Said)
        /\ \A i \in 1..Len(due') : i < Len(due') => due'[i] # Done
        /\ More(a, x) = Place("start", data, due')
    BY <1>6
  <2> QED
    BY <1>1, <1>5, <2>1, <2>2, Extends
<1>8. CASE KeepAlive
  <2>1. pipe' = (pipe \o <<Comment>>) \o eol /\ due' = due
    BY <1>8 DEF KeepAlive
  <2> PICK x \in Texts : x = Comment
    BY DEF Texts
  <2>2. <<x>> \in Seq(Tokens) /\ eol \in Seq(Tokens)
    BY <1>2, LineEndTokens, TokenKinds, ShortSequences
  <2> PICK w \in Seq(Tokens) : w = <<x>> \o eol
    BY <2>2, Joined
  <2>3. With(none, x) = none
    BY DEF With
  <2>4. Reaches(eol, (s \o <<x>>) \o eol, a, h)
    BY <1>2, <1>3, <1>4, <2>3, LineAdded
  <2>5. (s \o <<x>>) \o eol = s \o w
    BY <2>2, Joined, SMTT(40)
  <2>6. pipe' = pipe \o w
    <3>1. (pipe \o <<x>>) \o eol = pipe \o (<<x>> \o eol)
      BY <1>2, <2>2, Joined
    <3> QED
      BY <2>1, <3>1
  <2>7. Reaches(eol, s \o w, Place("start", data, due'), h)
    BY <2>1, <2>4, <2>5
  <2>8. /\ due' \in Seq(Said)
        /\ \A i \in 1..Len(due') : i < Len(due') => due'[i] # Done
    BY <1>2, <2>1
  <2> QED
    BY <1>1, <1>5, <2>6, <2>7, <2>8, Extends
<1>9. CASE WriteLast
  <2> PICK event \in {e \in Events : Len(e) = 1}, end \in {<<>>, eol} :
          /\ pipe' = (pipe \o event) \o end /\ due' = Append(due, event[1])
          /\ closing' = TRUE
    BY <1>9 DEF WriteLast
  <2>1. Len(event) # 2 /\ event \in Events
    <3>1. Len(event) = 1
      BY Zenon
    <3>2. Len(event) # 2
      BY <3>1
    <3>3. event \in Events
      BY Zenon
    <3> QED
      BY <3>2, <3>3
  <2> PICK x \in Said : event = <<x>>
    BY <2>1, EventsSay, Zenon
  <2>2. x \in Texts /\ x # Comment /\ Event(<<x>>) = x /\ event[1] = x
    BY SaidTexts, ShortSequences
  <2> PICK left \in Seq(Said) : left = <<x>>
    BY ShortSequences
  <2> PICK line \in Seq(Texts) : line = <<x>>
    BY <2>2, ShortSequences
  <2>3. line # <<>> /\ With(none, x) = line /\ Append(none, x) = left
    BY <2>2, ShortSequences DEF With
  <2>4. <<x>> \in Seq(Tokens) /\ eol \in Seq(Tokens)
    BY <1>2, <2>2, LineEndTokens, TokenKinds, ShortSequences
  <2>5. /\ due' \in Seq(Said)
        /\ \A i \in 1..Len(due') : i < Len(due') => due'[i] # Done
        /\ More(a, x) = Place("start", data, due')
    BY <1>6, <2>2
  <2> PICK b : b = More(a, x)
    OBVIOUS
  <2>6. Reaches(eol, s, b, Place("start", none, left))
    <3>1. Reaches(eol, s, b, More(h, x))
      BY <1>4, ReachLonger
    <3>2. h.at = "start" /\ h.lines = none /\ h.left = none
      BY DEF Place
    <3>3. More(h, x) = Place("start", none, left)
      BY <2>3, <3>2 DEF More
    <3> QED
      BY <3>1, <3>3
  <2>7. CASE end = <<>>
    <3>1. Reaches(eol, s \o <<x>>, b, Place("text", line, left))
      BY <1>3, <2>2, <2>3, <2>6, TextAdded
    <3> PICK z \in Places : z = Place("text", line, left)
      BY PlaceFields
    <3>2. z.at = "text" /\ z.lines = line /\ z.left = left
      BY DEF Place
    <3>3. Home(z, closing')
      BY <2>2, <2>3, <3>2 DEF Home
    <3> PICK w \in Seq(Tokens) : w = <<x>>
      BY <2>4
    <3>4. pipe' = pipe \o w
      <4>1. pipe \o w \in Seq(Tokens)
        BY <1>2, Joined
      <4>2. (pipe \o w) \o <<>> = pipe \o w
        BY <4>1, ConcatEmptySeq
      <4> QED
        BY <2>7, <4>2
    <3>5. Reaches(eol, s \o w, Place("start", data, due'), z)
      BY <2>5, <3>1
    <3> QED
      BY <1>1, <2>5, <3>3, <3>4, <3>5, Extends
  <2>8. CASE end = eol
    <3>1. Reaches(eol, (s \o <<x>>) \o eol, b, Place("start", line, left))
      BY <1>2, <1>3, <2>2, <2>3, <2>6, LineAdded
    <3> PICK z \in Places : z = Place("start", line, left)
      BY PlaceFields
    <3>2. z.at = "start" /\ z.lines = line /\ z.left = left
      BY DEF Place
    <3>3. Home(z, closing')
      BY <2>2, <2>3, <3>2 DEF Home
    <3> PICK w \in Seq(Tokens) : w = <<x>> \o eol
      BY <2>4, Joined
    <3>4. pipe' = pipe \o w
      <4>1. (pipe \o <<x>>) \o eol = pipe \o (<<x>> \o eol)
        BY <1>2, <2>4, Joined, SMTT(40)
      <4> QED
        BY <2>8, <4>1
    <3>5. (s \o <<x>>) \o eol = s \o w
      BY <2>4, Joined, SMTT(40)
    <3>6. Reaches(eol, s \o w, Place("start", data, due'), z)
      BY <2>5, <3>1, <3>5
    <3> QED
      BY <1>1, <2>5, <3>3, <3>4, <3>6, Extends
  <2> QED
    BY <2>7, <2>8
<1> QED
  BY <1>7, <1>8, <1>9

LEMMA StaysFramed ==
  ASSUME eol' \in LineEnds, buffer' \in Seq(Tokens), pipe' \in Seq(Tokens),
         data' \in Seq(Texts), due' \in Seq(Said),
         pc' \in {"reading", "parsing", "delta"}, outcome' # "completed",
         Framed', eof' => pipe' = <<>>, pc' = "reading" => ~eof',
         \A i \in 1..Len(due') : i < Len(due') => due'[i] # Done
  PROVE  StreamInv'
  BY DEF StreamInv

\* A read moves the cut between what was read and what was not.
LEMMA CutMoved ==
  ASSUME NEW b \in Seq(Tokens), NEW p \in Seq(Tokens), NEW n \in 1..Len(p)
  PROVE  /\ SubSeq(p, n + 1, Len(p)) \in Seq(Tokens)
         /\ b \o SubSeq(p, 1, n) \in Seq(Tokens)
         /\ (b \o SubSeq(p, 1, n)) \o SubSeq(p, n + 1, Len(p)) = b \o p
<1>0. \A s \in Seq(Tokens) : \A t \in Seq(Tokens) :
          (b \o s) \o t = b \o (s \o t) /\ b \o s \in Seq(Tokens)
  BY Joined
<1> PICK m \in Nat : m = Len(p)
  BY LenProperties
<1>1. (\A i \in 1..m : p[i] \in Tokens)
      /\ 1 \in Int /\ n \in Int /\ m \in Int /\ n + 1 \in Int
  BY ElementOfSeq
<1>2. SubSeq(p, 1, n) \in Seq(Tokens)
  <2>1. \A i \in 1..n : p[i] \in Tokens
    BY <1>1
  <2> QED
    BY <1>1, <2>1, SubSeqProperties, Zenon
<1>3. SubSeq(p, n + 1, m) \in Seq(Tokens)
  <2>1. \A i \in (n + 1)..m : p[i] \in Tokens
    BY <1>1
  <2> QED
    BY <1>1, <2>1, SubSeqProperties, Zenon
<1>4. SubSeq(p, 1, n) \o SubSeq(p, n + 1, m) = p
  <2>1. 1 \in 1..(Len(p) + 1) /\ n \in (1 - 1)..Len(p) /\ m \in n..Len(p)
    OBVIOUS
  <2>2. SubSeq(p, 1, n) \o SubSeq(p, n + 1, m) = SubSeq(p, 1, m)
    BY <2>1, ConcatAdjacentSubSeq
  <2>3. SubSeq(p, 1, m) = p
    BY SubSeqFull
  <2> QED
    BY <2>2, <2>3
<1> PICK s \in Seq(Tokens) : s = SubSeq(p, 1, n)
  BY <1>2
<1> PICK t \in Seq(Tokens) : t = SubSeq(p, n + 1, m)
  BY <1>3
<1>5. (b \o s) \o t = b \o (s \o t) /\ b \o s \in Seq(Tokens)
  BY <1>0, Zenon
<1> QED
  BY <1>4, <1>5

LEMMA ReadsStream ==
  ASSUME CallInv, StreamInv, Read \/ ReadEnd
  PROVE  StreamInv'
<1>1. /\ eol \in LineEnds /\ buffer \in Seq(Tokens) /\ pipe \in Seq(Tokens)
      /\ data \in Seq(Texts) /\ due \in Seq(Said)
  BY DEF StreamInv
<1>2. /\ pc = "reading" /\ pc' = "parsing" /\ outcome' = outcome /\ eol' = eol
      /\ data' = data /\ due' = due
  BY DEF Read, ReadEnd
<1>3. /\ Framed /\ ~eof /\ outcome # "completed"
      /\ \A i \in 1..Len(due) : i < Len(due) => due[i] # Done
  BY <1>2 DEF StreamInv, CallInv, ModelCallType
<1> PICK z \in Places :
        /\ Reaches(eol, buffer \o pipe, Place("start", data, due), z)
        /\ Home(z, closing)
  BY <1>3 DEF Framed
<1>4. CASE Read
  <2> PICK n \in 1..Len(pipe) :
          /\ buffer' = buffer \o SubSeq(pipe, 1, n)
          /\ pipe' = SubSeq(pipe, n + 1, Len(pipe))
    BY <1>4 DEF Read
  <2>1. /\ pipe' \in Seq(Tokens) /\ buffer' \in Seq(Tokens)
        /\ buffer' \o pipe' = buffer \o pipe
    BY <1>1, CutMoved
  <2>5. closing' = closing /\ eof' = eof
    BY <1>4 DEF Read
  <2>6. Framed'
    <3>1. Reaches(eol', buffer' \o pipe', Place("start", data', due'), z)
      BY <1>2, <2>1
    <3>2. Home(z, closing')
      BY <2>5
    <3> QED
      BY <3>1, <3>2 DEF Framed
  <2> QED
    BY <1>1, <1>2, <1>3, <2>1, <2>5, <2>6, StaysFramed
<1>5. CASE ReadEnd
  <2>1. pipe = <<>> /\ pipe' = pipe /\ buffer' = buffer /\ closing' = TRUE
    BY <1>5 DEF ReadEnd
  <2>2. Framed'
    <3>1. Home(z, closing')
      BY <2>1 DEF Home
    <3>2. Reaches(eol', buffer' \o pipe', Place("start", data', due'), z)
      BY <1>2, <2>1
    <3> QED
      BY <3>1, <3>2 DEF Framed
  <2> QED
    BY <1>1, <1>2, <1>3, <2>1, <2>2, StaysFramed
<1> QED
  BY <1>4, <1>5

\* The accumulator is given the event that was due.
LEMMA TakeFollows ==
  ASSUME CallInv, StreamInv, pc = "parsing", due # <<>>, Take(Head(due)),
         eol' = eol, pipe' = pipe, closing' = closing, eof' = eof,
         buffer' \in Seq(Tokens), data' = <<>>,
         NEW z \in Places, Home(z, closing),
         Reaches(eol, buffer' \o pipe, Place("start", <<>>, Tail(due)), z)
  PROVE  StreamInv'
<1>1. /\ eol \in LineEnds /\ pipe \in Seq(Tokens) /\ due \in Seq(Said)
      /\ (eof => pipe = <<>>)
      /\ \A i \in 1..Len(due) : i < Len(due) => due[i] # Done
  BY DEF StreamInv
<1> PICK later \in Seq(Said) : later = Tail(due)
  BY <1>1, HeadTailProperties
<1> PICK event \in Said : event = Head(due)
  BY <1>1, HeadTailProperties
<1>2. due' = later
  BY DEF Take
<1>3. Len(later) = Len(due) - 1 /\ \A i \in 1..Len(later) : later[i] = due[i + 1]
  BY <1>1, HeadTailProperties
<1>4. \A i \in 1..Len(due') : i < Len(due') => due'[i] # Done
  <2>1. Len(due) \in Nat /\ Len(later) \in Nat
    BY <1>1, LenProperties
  <2>2. \A i \in 1..Len(later) : i < Len(later) =>
            i + 1 \in 1..Len(due) /\ i + 1 < Len(due)
    BY <1>3, <2>1
  <2> QED
    BY <1>1, <1>2, <1>3, <2>2
<1>5. event = Done => due' = <<>>
  <2>1. due[1] = event /\ Len(due) \in Nat /\ Len(due) # 0
    BY <1>1, EmptySeq
  <2>2. event = Done => ~(1 < Len(due))
    BY <1>1, <2>1
  <2>3. event = Done => Len(later) = 0
    BY <1>3, <2>1, <2>2
  <2> QED
    BY <1>2, <2>3, EmptySeq
<1>6. data' \in Seq(Texts) /\ outcome = "none"
  BY EmptySeq DEF CallInv, ModelCallType
<1>7. Framed'
  BY <1>2 DEF Framed
<1>8. ASSUME NEW cause, NEW a, Catch(cause, a) PROVE StreamInv'
  <2>1. pc' \in {"sleeping", "done"} /\ outcome' # "completed"
    BY <1>8, CatchEnds
  <2> QED
    BY <1>1, <1>2, <1>6, <2>1, RestsWell
<1>9. ASSUME pc' \in {"parsing", "delta"}, outcome' = outcome PROVE StreamInv'
  BY <1>1, <1>2, <1>4, <1>6, <1>7, <1>9, StaysFramed
<1>10. ASSUME NEW a, NEW c, Absorb(a, c) PROVE StreamInv'
  <2>1. CASE Catch(a.err, a)
    BY <1>8, <2>1
  <2>2. CASE pc' = "parsing" /\ outcome' = outcome
    BY <1>9, <2>2
  <2> QED
    BY <1>10, <2>1, <2>2 DEF Absorb
<1>11. CASE event = Done
  <2>1. Complete(acc)
    BY <1>11 DEF Take
  <2>2. CASE pc' = "done" /\ outcome' = "completed"
    <3>1. due' = <<>>
      BY <1>5, <1>11
    <3> QED
      BY <1>1, <1>2, <1>6, <2>2, <3>1 DEF StreamInv
  <2>3. CASE Catch("protocol", acc)
    BY <1>8, <2>3
  <2> QED
    BY <2>1, <2>2, <2>3 DEF Complete
<1>12. CASE event # Done
  <2>1. \/ pc' = "delta" /\ outcome' = outcome
        \/ \E a, c : Absorb(a, c)
    BY <1>12 DEF Take
  <2> QED
    BY <1>9, <1>10, <2>1
<1> QED
  BY <1>11, <1>12

LEMMA ParsesStream ==
  ASSUME CallInv, StreamInv, ParseLine \/ ParseBlank
  PROVE  StreamInv'
<1>1. /\ pc = "parsing" /\ eol' = eol /\ pipe' = pipe /\ closing' = closing
      /\ eof' = eof /\ Available /\ buffer' = Remainder(buffer)
  BY DEF ParseLine, ParseBlank, Parsing
<1>2. /\ eol \in LineEnds /\ buffer \in Seq(Tokens) /\ pipe \in Seq(Tokens)
      /\ data \in Seq(Texts) /\ due \in Seq(Said) /\ Framed
      /\ (eof => pipe = <<>>)
      /\ \A i \in 1..Len(due) : i < Len(due) => due[i] # Done
  BY <1>1 DEF StreamInv
<1>3. outcome = "none" /\ pc # "done"
  BY <1>1 DEF CallInv, ModelCallType
<1> PICK z \in Places :
        /\ Reaches(eol, buffer \o pipe, Place("start", data, due), z)
        /\ Home(z, closing)
  BY <1>2 DEF Framed
<1>4. z.at # "half"
  BY HomeAt
<1>5. buffer # <<>> /\ (HasLine(buffer) \/ eof)
  <2>1. HasLine(buffer) => buffer # <<>>
    <3>1. DOMAIN <<>> = {}
      OBVIOUS
    <3> QED
      BY <3>1 DEF HasLine
  <2> QED
    BY <1>1, <2>1 DEF Available
<1>6. /\ Remainder(buffer) \in Seq(Tokens)
      /\ \/ /\ NextLine(buffer) = <<>> /\ data # <<>> /\ due # <<>>
            /\ Head(due) = Event(data)
            /\ Reaches(eol, Remainder(buffer) \o pipe,
                       Place("start", <<>>, Tail(due)), z)
         \/ \E x \in Texts :
               /\ NextLine(buffer) = <<x>>
               /\ \/ Reaches(eol, Remainder(buffer) \o pipe,
                             Place("start", With(data, x), due), z)
                  \/ /\ Remainder(buffer) = <<>> /\ pipe = <<>>
                     /\ z = Place("text", With(data, x), due)
  BY <1>2, <1>4, <1>5, LineTaken
<1>7. CASE ParseLine
  <2>1. NextLine(buffer) # <<>>
    BY <1>7 DEF ParseLine
  <2> PICK x \in Texts :
          /\ NextLine(buffer) = <<x>>
          /\ \/ Reaches(eol, Remainder(buffer) \o pipe,
                        Place("start", With(data, x), due), z)
             \/ /\ Remainder(buffer) = <<>> /\ pipe = <<>>
                /\ z = Place("text", With(data, x), due)
    BY <1>6, <2>1
  <2>2. NextLine(buffer)[1] = x
    BY ShortSequences
  <2>3. due' = due
    BY <1>7 DEF ParseLine
  <2>4. CASE x = Huge
    <3>1. Catch("large", acc) /\ data' = data
      BY <1>7, <2>2, <2>4 DEF ParseLine
    <3>2. pc' \in {"sleeping", "done"} /\ outcome' # "completed"
      BY <1>3, <3>1, CatchEnds
    <3> QED
      BY <1>1, <1>2, <1>6, <2>3, <3>1, <3>2, RestsWell
  <2>5. CASE x # Huge
    <3>1. data' = With(data, x) /\ pc' = pc /\ outcome' = outcome
      BY <1>7, <2>2, <2>5 DEF ParseLine, With
    <3> PICK lines \in Seq(Texts) : lines = With(data, x)
      BY <1>2, WithText
    <3>2. Framed'
      <4>1. CASE Reaches(eol, Remainder(buffer) \o pipe,
                         Place("start", lines, due), z)
        BY <1>1, <2>3, <3>1, <4>1 DEF Framed
      <4>2. CASE Remainder(buffer) = <<>> /\ pipe = <<>>
                 /\ z = Place("text", lines, due)
        <5> PICK y \in Places : y = Place("start", lines, due)
          BY <1>2, PlaceFields
        <5>1. /\ y.at = "start" /\ y.lines = lines /\ y.left = due
              /\ z.at = "text" /\ z.lines = lines /\ z.left = due
          BY <4>2 DEF Place
        <5>2. closing /\ lines # <<>> /\ due = <<Event(lines)>>
          <6>1. z # Place("start", <<>>, <<>>)
            BY <5>1 DEF Place
          <6> QED
            BY <5>1, <6>1 DEF Home
        <5>3. Home(y, closing')
          BY <1>1, <5>1, <5>2 DEF Home
        <5>4. buffer' \o pipe' = <<>>
          BY <1>1, <4>2, EmptySeq, ConcatEmptySeq
        <5>5. Reaches(eol', <<>>, y, y)
          BY ReachNothing
        <5>6. Place("start", data', due') = y
          BY <2>3, <3>1
        <5> QED
          BY <5>3, <5>4, <5>5, <5>6 DEF Framed
      <4> QED
        BY <4>1, <4>2
    <3> QED
      BY <1>1, <1>2, <1>3, <1>6, <2>3, <3>1, <3>2, StaysFramed
  <2> QED
    BY <2>4, <2>5
<1>8. CASE ParseBlank
  <2>1. NextLine(buffer) = <<>>
    BY <1>8 DEF ParseBlank
  <2>2. \A x \in Texts : NextLine(buffer) # <<x>>
    BY <2>1, ShortSequences
  <2>3. /\ data # <<>> /\ due # <<>> /\ Head(due) = Event(data)
        /\ Reaches(eol, Remainder(buffer) \o pipe,
                   Place("start", <<>>, Tail(due)), z)
    BY <1>6, <2>2
  <2>4. Take(Event(data)) /\ data' = <<>>
    BY <1>8, <2>3 DEF ParseBlank
  <2>5. Take(Head(due))
    BY <2>3, <2>4
  <2> QED
    BY <1>1, <1>6, <2>3, <2>4, <2>5, TakeFollows
<1> QED
  BY <1>7, <1>8

LEMMA RestsStream ==
  ASSUME CallInv, StreamInv, ParseRest
  PROVE  StreamInv'
<1>1. /\ pc = "parsing" /\ eol' = eol /\ pipe' = pipe /\ closing' = closing
      /\ eof' = eof /\ buffer' = buffer /\ ~Available
      /\ data' = IF eof THEN <<>> ELSE data
  BY DEF ParseRest, Parsing
<1>2. /\ eol \in LineEnds /\ buffer \in Seq(Tokens) /\ pipe \in Seq(Tokens)
      /\ data \in Seq(Texts) /\ due \in Seq(Said) /\ Framed
      /\ (eof => pipe = <<>>)
      /\ \A i \in 1..Len(due) : i < Len(due) => due[i] # Done
  BY <1>1 DEF StreamInv
<1>3. outcome = "none" /\ pc # "done"
  BY <1>1 DEF CallInv, ModelCallType
<1>4. CASE ~eof
  <2>1. pc' = "reading" /\ outcome' = outcome /\ due' = due /\ data' = data
    BY <1>1, <1>4 DEF ParseRest
  <2>2. Framed'
    BY <1>1, <1>2, <2>1 DEF Framed
  <2> QED
    BY <1>1, <1>2, <1>3, <1>4, <2>1, <2>2, StaysFramed
<1>5. CASE eof
  <2> PICK z \in Places :
          /\ Reaches(eol, buffer \o pipe, Place("start", data, due), z)
          /\ Home(z, closing)
    BY <1>2 DEF Framed
  <2>1. buffer = <<>> /\ pipe = <<>>
    BY <1>1, <1>2, <1>5 DEF Available
  <2>2. buffer \o pipe = <<>>
    BY <1>2, <2>1, ConcatEmptySeq
  <2>3. z = Place("start", data, due)
    <3>1. Reaches(eol, <<>>, Place("start", data, due), z)
      BY <2>2
    <3> QED
      BY <3>1, ReachNothing
  <2>4. z.lines = data /\ z.left = due
    BY <2>3 DEF Place
  <2>5. CASE data # <<>>
    <3>1. due = <<Event(data)>>
      <4>1. z # Place("start", <<>>, <<>>)
        BY <2>4, <2>5 DEF Place
      <4> QED
        BY <2>4, <4>1 DEF Home
    <3> PICK x : x = Event(data)
      OBVIOUS
    <3>2. due # <<>> /\ Head(due) = x /\ Tail(due) = <<>>
      <4>1. x \in {x}
        OBVIOUS
      <4>2. <<x>> # <<>> /\ Head(<<x>>) = x /\ Tail(<<x>>) = <<>>
        BY <4>1, ShortSequences
      <4> QED
        BY <3>1, <4>2
    <3>3. Take(Event(data))
      BY <1>5, <2>5 DEF ParseRest
    <3>4. Take(Head(due))
      BY <3>2, <3>3
    <3> PICK none : none = <<>>
      OBVIOUS
    <3>5. none \in Seq(Texts) /\ none \in Seq(Said)
      BY EmptySeq
    <3> PICK y \in Places : y = Place("start", none, none)
      BY <3>5, PlaceFields
    <3>6. Home(y, closing)
      BY DEF Home
    <3>7. Reaches(eol, <<>>, y, y)
      BY ReachNothing
    <3>8. Reaches(eol, buffer' \o pipe, Place("start", <<>>, Tail(due)), y)
      BY <1>1, <2>2, <3>2, <3>7
    <3>9. data' = <<>>
      BY <1>1, <1>5
    <3> QED
      BY <1>1, <1>2, <3>2, <3>4, <3>6, <3>8, <3>9, TakeFollows
  <2>6. CASE data = <<>>
    <3>1. Catch("protocol", acc) /\ due' = due
      BY <1>5, <2>6 DEF ParseRest
    <3>2. pc' \in {"sleeping", "done"} /\ outcome' # "completed"
      BY <1>3, <3>1, CatchEnds
    <3>3. data' \in Seq(Texts)
      BY <1>1, <1>2, EmptySeq
    <3> QED
      BY <1>1, <1>2, <3>1, <3>2, <3>3, RestsWell
  <2> QED
    BY <2>5, <2>6
<1> QED
  BY <1>4, <1>5

LEMMA DeltasStream ==
  ASSUME CallInv, StreamInv, DeltaTaken
  PROVE  StreamInv'
<1>1. pc = "delta" /\ UNCHANGED <<stream, parser>>
      /\ Absorb(AfterDelta(acc, rest), {})
  BY DEF DeltaTaken
<1>2. /\ eol' = eol /\ pipe' = pipe /\ closing' = closing /\ due' = due
      /\ buffer' = buffer /\ data' = data /\ eof' = eof
  BY <1>1 DEF stream, parser
<1>3. /\ eol \in LineEnds /\ buffer \in Seq(Tokens) /\ pipe \in Seq(Tokens)
      /\ data \in Seq(Texts) /\ due \in Seq(Said) /\ Framed
      /\ (eof => pipe = <<>>)
      /\ \A i \in 1..Len(due) : i < Len(due) => due[i] # Done
  BY <1>1 DEF StreamInv
<1>4. outcome = "none" /\ pc # "done"
  BY <1>1 DEF CallInv, ModelCallType
<1>5. CASE \E cause, a : Catch(cause, a)
  <2>1. pc' \in {"sleeping", "done"} /\ outcome' # "completed"
    BY <1>4, <1>5, CatchEnds
  <2> QED
    BY <1>2, <1>3, <2>1, RestsWell
<1>6. CASE pc' = "parsing" /\ outcome' = outcome
  <2>1. Framed'
    BY <1>2, <1>3 DEF Framed
  <2> QED
    BY <1>2, <1>3, <1>4, <1>6, <2>1, StaysFramed
<1> QED
  BY <1>1, <1>5, <1>6 DEF Absorb

LEMMA StreamStarts == Init => StreamInv
<1> SUFFICES ASSUME Init PROVE StreamInv
  OBVIOUS
<1>1. /\ pc = "begin" /\ outcome = "none" /\ eol = <<LF>> /\ pipe = <<>>
      /\ due = <<>> /\ buffer = <<>> /\ data = <<>>
  BY DEF Init
<1>2. eol \in LineEnds
  BY <1>1 DEF LineEnds
<1>3. /\ buffer \in Seq(Tokens) /\ pipe \in Seq(Tokens)
      /\ data \in Seq(Texts) /\ due \in Seq(Said)
  BY <1>1, EmptySeq
<1> QED
  BY <1>1, <1>2, <1>3 DEF StreamInv

LEMMA StreamSteps == CallInv /\ StreamInv /\ [Next]_vars => StreamInv'
<1> SUFFICES ASSUME CallInv, StreamInv, [Next]_vars PROVE StreamInv'
  OBVIOUS
<1>1. CASE UNCHANGED vars
  <2>1. UNCHANGED <<pc, eol, pipe, closing, due, buffer, data, eof, outcome>>
    BY <1>1 DEF vars, stream, parser
  <2> QED
    BY <2>1 DEF StreamInv, Framed
<1>2. CASE Client
  BY <1>2, WaitsStream, ReadsStream, ParsesStream, RestsStream, DeltasStream
     DEF Client
<1>3. CASE Provider
  BY <1>3, WaitsStream, WritesStream, ReadsStream DEF Provider
<1>4. CASE Timeout \/ Abort
  BY <1>4, WaitsStream
<1> QED
  BY <1>1, <1>2, <1>3, <1>4 DEF Next, Ended

\* Wherever the parser stands, the bytes on their way spell the events that
\* are due: extractLines and processLine of sse.ts.
THEOREM StreamInvariant == Spec => []StreamInv
<1>1. CallInv /\ StreamInv /\ [Next]_vars => StreamInv'
  BY StreamSteps
<1> QED
  BY <1>1, StreamStarts, CallInvariant, PTL DEF Spec

\* Whatever the line ends and however the network cuts the bytes, the
\* accumulator is given what the provider wrote, in its order, for any number
\* of events and attempts: parseSseStream of sse.ts.
THEOREM StreamRead == Spec => []StreamAsWritten
<1>1. StreamInv => StreamAsWritten
  <2> SUFFICES ASSUME StreamInv PROVE \A i \in DOMAIN due : due[i] # Lost
    BY DEF StreamAsWritten
  <2>1. due \in Seq(Said)
    BY DEF StreamInv
  <2>2. \A i \in DOMAIN due : due[i] \in Said
    BY <2>1, LenProperties, ElementOfSeq
  <2> QED
    BY <2>2, TokenKinds
<1> QED
  BY <1>1, StreamInvariant, PTL

\* A completion is told only of a stream read to its end that carries an
\* answer or a call: accumulateChatCompletion of chat-accumulator.ts.
THEOREM CompletionsHonest == Spec => []HonestCompletion
<1>1. CallInv /\ StreamInv => HonestCompletion
  BY DEF CallInv, StreamInv, HonestCompletion, Whole
<1> QED
  BY <1>1, CallInvariant, StreamInvariant, PTL

=============================================================================
