-------------------------- MODULE ConversationProofs --------------------------
(***************************************************************************)
(* Theorems about what the model is told (Conversation): no round is       *)
(* forgotten, no refused text is sent back, calls and answers are paired,  *)
(* and the outputs of a prompt share its room.                             *)
(*                                                                         *)
(* The inductive invariant PromptInv has four parts.  ConversationInv: the *)
(* rounds lie in the file one after another, every compaction covers what  *)
(* lies before the rounds kept, and the context of a request mirrors the   *)
(* rounds it does not cover.  NumbersHold: no two rounds share a call.     *)
(* TurnsHold: each turn kept for the provider has the calls of one round,  *)
(* and no other turn has them.  WireHolds: what was sent is paired, and    *)
(* has the goal once.  That buildChatRequest sends each message as exactly *)
(* one message (WireIs) follows from the second and the third; the rest is *)
(* about sequences that are filtered (FilteredIs) and put together         *)
(* (FlattenIs), for which the library has no theorem.  The last part is    *)
(* about the functions of OutputProjection: sums (TotalIs), a pass that    *)
(* satisfies an output or spends what is left (SharesMeet, PassKeeps), all *)
(* passes (FairIs) and all rounds (ExtendIs).                              *)
(***************************************************************************)
EXTENDS Conversation, FiniteSetTheorems, FunctionTheorems, SequenceTheorems,
        TLAPS

-----------------------------------------------------------------------------
(* Some of the elements of a sequence.                                     *)

Before(P, i) == {j \in P : j < i}
Rank(P, i) == Cardinality(Before(P, i)) + 1

LEMMA RankType ==
  ASSUME NEW n \in Nat, NEW P \in SUBSET (1..n)
  PROVE  /\ IsFiniteSet(P) /\ Cardinality(P) \in Nat
         /\ \A i \in P : Rank(P, i) \in 1..Cardinality(P)
<1>1. IsFiniteSet(P)
  <2>1. IsFiniteSet(1..n)
    BY FS_Interval
  <2> QED
    BY <2>1, FS_Subset
<1> PICK N \in Nat : N = Cardinality(P)
  BY <1>1, FS_CardinalityType
<1>2. ASSUME NEW i \in P PROVE Rank(P, i) \in 1..N
  <2>1. Before(P, i) \in SUBSET (P \ {i})
    BY DEF Before
  <2>2. IsFiniteSet(P \ {i}) /\ Cardinality(P \ {i}) = N - 1
    BY <1>1, FS_RemoveElement
  <2>3. IsFiniteSet(Before(P, i)) /\ Cardinality(Before(P, i)) <= N - 1
    BY <2>1, <2>2, FS_Subset
  <2>4. Cardinality(Before(P, i)) \in Nat
    BY <2>3, FS_CardinalityType
  <2> QED
    BY <2>3, <2>4 DEF Rank
<1> QED
  BY <1>1, <1>2

LEMMA RankRises ==
  ASSUME NEW n \in Nat, NEW P \in SUBSET (1..n), NEW i \in P, NEW j \in P, i < j
  PROVE  Rank(P, i) < Rank(P, j)
<1> PICK A, B : A = Before(P, i) /\ B = Before(P, j)
  OBVIOUS
<1>1. IsFiniteSet(P)
  BY RankType
<1>2. A \in SUBSET P /\ B \in SUBSET P /\ A \in SUBSET (B \ {i}) /\ i \in B
  <2>1. \A k \in P : k \in Int
    OBVIOUS
  <2>2. A \in SUBSET P /\ B \in SUBSET P /\ i \in B
    BY DEF Before
  <2>3. ASSUME NEW k \in A PROVE k \in B \ {i}
    <3>1. k \in P /\ k < i
      BY <2>3 DEF Before
    <3>2. k < j /\ k # i
      BY <2>1, <3>1
    <3> QED
      BY <3>1, <3>2 DEF Before
  <2> QED
    BY <2>2, <2>3
<1>3. IsFiniteSet(A) /\ IsFiniteSet(B)
  BY <1>1, <1>2, FS_Subset
<1>4. Cardinality(A) \in Nat /\ Cardinality(B) \in Nat
  BY <1>3, FS_CardinalityType
<1>5. IsFiniteSet(B \ {i}) /\ Cardinality(B \ {i}) = Cardinality(B) - 1
  BY <1>2, <1>3, FS_RemoveElement
<1>6. Cardinality(A) <= Cardinality(B \ {i})
  BY <1>2, <1>5, FS_Subset
<1> QED
  BY <1>4, <1>5, <1>6 DEF Rank

\* f lists the places of P from the lowest to the highest.
Lists(f, P) ==
    /\ Cardinality(P) \in Nat
    /\ f \in [1..Cardinality(P) -> P]
    /\ \A i, j \in 1..Cardinality(P) : i < j => f[i] < f[j]
    /\ \A k \in P : \E i \in 1..Cardinality(P) : f[i] = k

Selects(f, P, s, r) ==
    Lists(f, P) /\ r = [i \in 1..Cardinality(P) |-> s[f[i]]]

LEMMA FilteredIs ==
  ASSUME NEW s, NEW n \in Nat, NEW P \in SUBSET (1..n)
  PROVE  \E f : Selects(f, P, s, Filtered(s, P))
<1> PICK N \in Nat : N = Cardinality(P)
  BY RankType
<1> PICK F : F = [i \in P |-> Rank(P, i)]
  OBVIOUS
<1>0. \A i \in P : i \in Int
  OBVIOUS
<1>1. F \in [P -> 1..N] /\ \A i \in P : F[i] = Rank(P, i)
  BY RankType
<1>2. \A i, j \in P : i < j => F[i] < F[j]
  BY <1>1, RankRises
<1>3. \A i, j \in P : F[i] \in Int /\ i \in Int
  BY <1>1
<1>4. \A i, j \in P : F[i] = F[j] => i = j
  BY <1>2, <1>3
<1>5. F \in Injection(P, 1..N)
  BY <1>1, <1>4, Fun_IsInj
<1>6. IsFiniteSet(1..N) /\ Cardinality(1..N) = N /\ IsFiniteSet(P)
  <2>1. IsFiniteSet(P)
    BY RankType
  <2>2. 1..N = 1..N /\ 1 \in Int /\ N \in Int
    OBVIOUS
  <2>3. IsFiniteSet(1..N) /\ Cardinality(1..N) = N
    BY <2>2, FS_Interval
  <2> QED
    BY <2>1, <2>3
<1>7. F \in Surjection(P, 1..N)
  BY <1>5, <1>6, FS_Injection
<1>8. \A m \in 1..N : \E i \in P : F[i] = m
  BY <1>7 DEF Surjection
<1> PICK f : f = [m \in 1..N |-> CHOOSE i \in P : F[i] = m]
  OBVIOUS
<1>9. \A m \in 1..N : f[m] \in P /\ F[f[m]] = m
  BY <1>8
<1>10. f \in [1..N -> P]
  BY <1>9
<1>11. ASSUME NEW i \in 1..N, NEW j \in 1..N, i < j PROVE f[i] < f[j]
  <2>1. f[i] \in P /\ f[j] \in P /\ F[f[i]] = i /\ F[f[j]] = j
    BY <1>9
  <2> PICK k, l \in P : k = f[i] /\ l = f[j]
    BY <2>1
  <2>2. F[k] = i /\ F[l] = j /\ i \in Int /\ j \in Int
    BY <2>1
  <2>3. l < k => j < i
    BY <1>2, <2>2
  <2>4. k # l /\ ~(l < k)
    BY <1>11, <2>2, <2>3
  <2>5. k \in Int /\ l \in Int
    BY <1>0
  <2> QED
    BY <2>4, <2>5
<1>12. \A k \in P : \E i \in 1..N : f[i] = k
  <2> SUFFICES ASSUME NEW k \in P PROVE \E i \in 1..N : f[i] = k
    OBVIOUS
  <2>1. F[k] \in 1..N
    BY <1>1
  <2>2. f[F[k]] = k
    BY <1>4, <1>9, <2>1
  <2> QED
    BY <2>1, <2>2
<1>13. Lists(f, P)
  BY <1>10, <1>11, <1>12 DEF Lists
<1>14. Filtered(s, P) = [i \in 1..N |-> s[f[i]]]
  <2>1. Filtered(s, P) = [m \in 1..N |->
            s[CHOOSE i \in P : Cardinality({j \in P : j < i}) + 1 = m]]
    BY DEF Filtered
  <2>2. \A i \in P : F[i] = Cardinality({j \in P : j < i}) + 1
    BY <1>1 DEF Rank, Before
  <2>3. ASSUME NEW m \in 1..N
        PROVE  (CHOOSE i \in P : Cardinality({j \in P : j < i}) + 1 = m) = f[m]
    <3>1. f[m] = CHOOSE i \in P : F[i] = m
      OBVIOUS
    <3> QED
      BY <2>2, <3>1
  <2> QED
    BY <2>1, <2>3
<1> QED
  <2>1. Selects(f, P, s, Filtered(s, P))
    BY <1>13, <1>14 DEF Selects
  <2> QED
    BY <2>1

LEMMA FunctionSeq ==
  ASSUME NEW n \in Nat, NEW S, NEW s \in [1..n -> S]
  PROVE  s \in Seq(S) /\ Len(s) = n
  OBVIOUS

-----------------------------------------------------------------------------
(* The invariant.                                                          *)

CallIds == Nat \X Nat
CallRecords == [id : CallIds, ok : BOOLEAN]
RoundRecords ==
    [run : Nat, kind : {"tools", "final", "proposal", "plan"}, from : Nat,
     to : Nat, calls : Seq(CallRecords), outputs : Seq(Nat),
     text : {"kept", "none"}]
OpenRounds ==
    [from : Nat, calls : Seq(CallRecords), outputs : Seq(Nat),
     text : {"kept", "none", "bad"}]
TurnRecords == [ids : Seq(CallIds), text : {"kept", "none"}]

ConversationType ==
    /\ pc \in {"idle", "build", "estimate", "summary", "compact", "request",
               "model", "tools", "plan", "refused"}
    /\ run \in Nat /\ requests \in Nat /\ last \in Nat \ {0}
    /\ rounds \in Seq(RoundRecords) /\ open \in OpenRounds
    /\ turns \in Seq(TurnRecords)

\* The rounds of the session follow each other, and each is whole.
RoundsWhole ==
    /\ \A i \in DOMAIN rounds :
          /\ 0 < rounds[i].from /\ rounds[i].from <= rounds[i].to
          /\ rounds[i].to <= last
          /\ Len(rounds[i].calls) = Len(rounds[i].outputs)
    /\ \A i, j \in DOMAIN rounds : i < j => rounds[i].to < rounds[j].from

\* The round that is being answered is behind them.
RoundOpen ==
    /\ pc \in {"model", "tools"} =>
          /\ 0 < open.from /\ open.from <= last
          /\ \A i \in DOMAIN rounds : rounds[i].to < open.from
    /\ pc = "model" => open.calls = <<>> /\ open.outputs = <<>>
    /\ pc = "tools" => /\ Len(open.outputs) < Len(open.calls)
                       /\ open.text # "bad"
    /\ pc = "plan" => rounds # <<>>

\* What a compaction leaves out is in its summary.
Remembered(from, covers) ==
    \A i \in DOMAIN rounds : rounds[i].to >= from \/ rounds[i].from \in covers

Advances(new) ==
    /\ new.through \in Nat /\ new.from = new.through + 1
    /\ new.to \in Nat /\ new.to <= last /\ new.from <= last
    /\ Remembered(new.from, new.covers)

CompactionsHold ==
    /\ accepted = TRUE
    /\ Advances(latest)
    /\ pc = "compact" => Advances(draft) /\ draft.through > latest.through

\* A round as it is shown: its outputs may be shorter.
Copy(shown, r) ==
    /\ shown = [r EXCEPT !.outputs = shown.outputs]
    /\ Len(shown.outputs) = Len(r.outputs)

\* shown has rounds of the history, those of f, in their order; the others
\* are in covers.
Mirrors(f, shown, history, covers) ==
    /\ Len(shown) \in Nat /\ DOMAIN shown = 1..Len(shown)
    /\ f \in [1..Len(shown) -> DOMAIN history]
    /\ \A i, j \in 1..Len(shown) : i < j => f[i] < f[j]
    /\ \A k \in 1..Len(shown) : Copy(shown[k], history[f[k]])
    /\ \A i \in DOMAIN history :
          history[i].from \in covers \/ \E k \in 1..Len(shown) : f[k] = i

Mirrored(shown, history, covers) ==
    \E f \in [1..Len(shown) -> DOMAIN history] :
        Mirrors(f, shown, history, covers)

ContextHolds ==
    /\ pc \in {"estimate", "summary"} =>
          context = [rounds |-> Shown(CurrentRounds), covers |-> latest.covers]
    /\ pc = "summary" => Evictions # {}
    /\ pc = "compact" => context.covers = draft.covers
    /\ pc \in {"compact", "request", "model"} =>
          Mirrored(context.rounds, rounds, context.covers)

ConversationInv ==
    /\ ConversationType /\ RoundsWhole /\ RoundOpen /\ CompactionsHold
    /\ ContextHolds

LEMMA ConversationStarts == Init => ConversationInv
<1> SUFFICES ASSUME Init PROVE ConversationInv
  OBVIOUS
<1> USE DEF Init
<1>1. ConversationType
  BY EmptySeq DEF ConversationType, OpenRounds, NoRound
<1>2. RoundsWhole /\ RoundOpen
  BY DEF RoundsWhole, RoundOpen
<1>3. CompactionsHold
  BY DEF CompactionsHold, Advances, Remembered, NoCompaction
<1>4. ContextHolds
  BY DEF ContextHolds
<1> QED
  BY <1>1, <1>2, <1>3, <1>4 DEF ConversationInv

-----------------------------------------------------------------------------
(* The context of a request.                                               *)

LEMMA ShownIs ==
  ASSUME NEW history \in Seq(RoundRecords)
  PROVE  /\ DOMAIN Shown(history) = 1..Len(history)
         /\ Len(Shown(history)) = Len(history)
         /\ \E V : Shown(history) \in Seq(V)
         /\ \A k \in 1..Len(history) : Copy(Shown(history)[k], history[k])
<1> PICK n \in Nat : n = Len(history)
  OBVIOUS
<1> PICK s : s = Shown(history)
  OBVIOUS
<1> PICK outputs : outputs = ProjectedOutputs(Outputs(history))
  OBVIOUS
<1>1. s = [k \in 1..n |-> [history[k] EXCEPT !.outputs = outputs[k]]]
  BY DEF Shown
<1>2. DOMAIN s = 1..n /\ Len(s) = n
  BY <1>1
<1>3. \A k \in 1..n : history[k] \in RoundRecords
  OBVIOUS
<1>4. Outputs(history) = [k \in 1..n |-> history[k].outputs]
  BY DEF Outputs
<1>5. ASSUME NEW k \in 1..n PROVE Len(outputs[k]) = Len(history[k].outputs)
  <2> PICK room : room = Allocation(Outputs(history))
    OBVIOUS
  <2>1. Outputs(history)[k] = history[k].outputs
    BY <1>4
  <2>2. DOMAIN Outputs(history) = 1..n
    BY <1>4
  <2> PICK o \in Seq(Nat) : o = history[k].outputs
    BY <1>3 DEF RoundRecords
  <2>3. DOMAIN outputs[k] = DOMAIN o
    BY <2>1, <2>2 DEF ProjectedOutputs
  <2>4. outputs[k] = [i \in 1..Len(o) |-> outputs[k][i]]
    BY <2>1, <2>2, <2>3 DEF ProjectedOutputs
  <2> QED
    BY <2>4
<1>6. ASSUME NEW k \in 1..n PROVE Copy(s[k], history[k])
  <2>1. s[k] = [history[k] EXCEPT !.outputs = outputs[k]]
    BY <1>1
  <2>2. s[k].outputs = outputs[k]
    BY <1>3, <2>1 DEF RoundRecords
  <2> QED
    BY <1>5, <2>1, <2>2 DEF Copy
<1>7. \E V : s \in Seq(V)
  <2> PICK V : V = {s[k] : k \in 1..n}
    OBVIOUS
  <2>1. s \in [1..n -> V]
    BY <1>1
  <2>2. s \in Seq(V)
    BY <2>1, FunctionSeq
  <2> QED
    BY <2>2
<1> QED
  BY <1>2, <1>6, <1>7

\* A copy differs from its round in nothing but the outputs.
LEMMA CopyIs ==
  ASSUME NEW s, NEW r \in RoundRecords, Copy(s, r)
  PROVE  /\ s.run = r.run /\ s.kind = r.kind /\ s.from = r.from /\ s.to = r.to
         /\ s.calls = r.calls /\ s.text = r.text
         /\ Len(s.outputs) = Len(r.outputs)
<1> PICK o : o = s.outputs
  OBVIOUS
<1>1. s = [r EXCEPT !.outputs = o]
  BY DEF Copy
<1> QED
  BY <1>1 DEF Copy, RoundRecords

LEMMA CurrentIs ==
  ASSUME ConversationInv
  PROVE  /\ CurrentRounds \in Seq(RoundRecords)
         /\ Mirrored(Shown(CurrentRounds), rounds, latest.covers)
<1> PICK N \in Nat : N = Len(rounds)
  BY DEF ConversationInv, ConversationType
<1> PICK h \in Seq(RoundRecords) : h = rounds
  BY DEF ConversationInv, ConversationType
<1>1. DOMAIN h = 1..N /\ \A i \in 1..N : h[i] \in RoundRecords
  OBVIOUS
<1> PICK P : P = {i \in 1..N : h[i].to >= latest.from}
  OBVIOUS
<1>2. P \in SUBSET (1..N) /\ CurrentRounds = Filtered(h, P)
  BY <1>1 DEF CurrentRounds
<1> PICK f : Selects(f, P, h, CurrentRounds)
  BY <1>2, FilteredIs
<1> PICK M \in Nat : M = Cardinality(P)
  BY DEF Selects, Lists
<1>3. /\ f \in [1..M -> P] /\ \A i, j \in 1..M : i < j => f[i] < f[j]
      /\ \A k \in P : \E i \in 1..M : f[i] = k
      /\ CurrentRounds = [i \in 1..M |-> h[f[i]]]
  BY DEF Selects, Lists
<1> PICK c \in Seq(RoundRecords) : c = CurrentRounds
  <2>1. \A i \in 1..M : h[f[i]] \in RoundRecords
    BY <1>1, <1>2, <1>3
  <2>2. CurrentRounds \in [1..M -> RoundRecords]
    BY <1>3, <2>1
  <2>3. CurrentRounds \in Seq(RoundRecords)
    BY <2>2, FunctionSeq
  <2> QED
    BY <2>3
<1>4. Len(c) = M /\ \A k \in 1..M : c[k] = h[f[k]]
  BY <1>3
<1> PICK s : s = Shown(c)
  OBVIOUS
<1>5. DOMAIN s = 1..M /\ Len(s) = M /\ \A k \in 1..M : Copy(s[k], c[k])
  BY <1>4, ShownIs
<1>6. \A i \in 1..N : h[i].from \in latest.covers \/ \E k \in 1..M : f[k] = i
  <2> SUFFICES ASSUME NEW i \in 1..N, h[i].from \notin latest.covers
               PROVE  \E k \in 1..M : f[k] = i
    OBVIOUS
  <2>1. h[i].to >= latest.from
    BY <1>1 DEF ConversationInv, CompactionsHold, Advances, Remembered
  <2> QED
    BY <1>3, <2>1
<1>7. f \in [1..M -> DOMAIN h]
  BY <1>1, <1>2, <1>3
<1>8. Mirrors(f, s, h, latest.covers)
  BY <1>1, <1>3, <1>4, <1>5, <1>6, <1>7 DEF Mirrors
<1> QED
  BY <1>5, <1>7, <1>8 DEF Mirrored

LEMMA LeastIs ==
  ASSUME NEW n \in Nat, NEW T \in SUBSET (1..n), T # {}
  PROVE  Min(T) \in T /\ \A y \in T : Min(T) <= y
<1>0. \A k \in T : k \in Int
  OBVIOUS
<1> PICK f : Selects(f, T, T, Filtered(T, T))
  BY FilteredIs
<1> PICK M \in Nat : M = Cardinality(T)
  BY DEF Selects, Lists
<1>1. /\ f \in [1..M -> T] /\ \A i, j \in 1..M : i < j => f[i] < f[j]
      /\ \A k \in T : \E i \in 1..M : f[i] = k
  BY DEF Selects, Lists
<1>2. 1 \in 1..M
  <2> PICK k \in T : TRUE
    OBVIOUS
  <2> PICK i \in 1..M : f[i] = k
    BY <1>1
  <2> QED
    OBVIOUS
<1>3. ASSUME NEW y \in T PROVE f[1] <= y
  <2> PICK i \in 1..M : f[i] = y
    BY <1>1
  <2>1. i = 1 \/ 1 < i
    OBVIOUS
  <2>2. f[1] \in Int /\ f[i] \in Int
    <3>1. f[1] \in T /\ f[i] \in T
      BY <1>1, <1>2
    <3> QED
      BY <1>0, <3>1
  <2> QED
    BY <1>1, <1>2, <2>1, <2>2
<1>4. \E x \in T : \A y \in T : x <= y
  BY <1>1, <1>2, <1>3
<1> QED
  BY <1>4 DEF Min

LEMMA RoundsRise ==
  ASSUME ConversationInv, NEW i \in DOMAIN rounds, NEW j \in DOMAIN rounds, i <= j
  PROVE  /\ rounds[i].from \in Nat \ {0} /\ rounds[j].from \in Nat
         /\ rounds[j].to \in Nat /\ rounds[i].from <= rounds[j].from
         /\ rounds[j].from <= rounds[j].to
         /\ i < j => rounds[i].from < rounds[j].from
<1> PICK h \in Seq(RoundRecords) : h = rounds
  BY DEF ConversationInv, ConversationType
<1>0. i \in Nat /\ j \in Nat /\ h[i] \in RoundRecords /\ h[j] \in RoundRecords
  OBVIOUS
<1>1. /\ rounds[i].from \in Nat /\ rounds[i].to \in Nat
      /\ rounds[j].from \in Nat /\ rounds[j].to \in Nat /\ i \in Nat /\ j \in Nat
  BY <1>0 DEF RoundRecords
<1>2. /\ 0 < rounds[i].from /\ rounds[i].from <= rounds[i].to
      /\ rounds[j].from <= rounds[j].to
  BY DEF ConversationInv, RoundsWhole
<1>3. i < j => rounds[i].to < rounds[j].from
  BY DEF ConversationInv, RoundsWhole
<1> QED
  BY <1>1, <1>2, <1>3

\* from is where what is left of s begins, without its first m rounds, which
\* are in all.
Evicted(s, m, covers, from, all) ==
    from = s[m + 1].from /\ all = covers \cup {s[i].from : i \in 1..m}

LEMMA EvictedIs ==
  ASSUME ConversationInv, NEW f, NEW s, NEW covers,
         Mirrors(f, s, rounds, covers),
         NEW m \in 1..Len(s), m < Len(s), NEW from, NEW all,
         Evicted(s, m, covers, from, all)
  PROVE  /\ from \in Nat \ {0} /\ from <= last
         /\ Remembered(from, all)
         /\ Mirrored(Filtered(s, {k \in DOMAIN s : s[k].from >= from}), rounds, all)
<1> from = s[m + 1].from /\ all = covers \cup {s[i].from : i \in 1..m}
  BY DEF Evicted
<1> PICK h \in Seq(RoundRecords) : h = rounds
  BY DEF ConversationInv, ConversationType
<1> PICK N \in Nat : N = Len(h)
  OBVIOUS
<1>1. DOMAIN h = 1..N /\ \A i \in 1..N : h[i] \in RoundRecords
  OBVIOUS
<1> PICK M \in Nat : M = Len(s)
  BY DEF Mirrors
<1>2. /\ DOMAIN s = 1..M /\ f \in [1..M -> 1..N]
      /\ \A i, j \in 1..M : i < j => f[i] < f[j]
      /\ \A k \in 1..M : Copy(s[k], h[f[k]])
      /\ \A i \in 1..N : h[i].from \in covers \/ \E k \in 1..M : f[k] = i
  BY <1>1 DEF Mirrors
<1>3. ASSUME NEW k \in 1..M PROVE f[k] \in 1..N /\ s[k].from = h[f[k]].from
  <2> PICK x \in RoundRecords : x = h[f[k]]
    BY <1>1, <1>2
  <2> PICK y : y = s[k]
    OBVIOUS
  <2>1. Copy(y, x) /\ f[k] \in 1..N
    BY <1>2
  <2>2. y.from = x.from
    BY <2>1, CopyIs
  <2> QED
    BY <2>1, <2>2
<1>4. m + 1 \in 1..M /\ m \in Nat
  OBVIOUS
<1>5. from \in Nat \ {0} /\ from = h[f[m + 1]].from /\ from <= last
  <2> PICK i \in 1..N : i = f[m + 1]
    BY <1>3, <1>4
  <2>1. from = h[i].from
    BY <1>3, <1>4
  <2>2. h[i].from \in Nat \ {0} /\ h[i].to \in Nat /\ h[i].from <= h[i].to
    BY <1>1, RoundsRise
  <2>3. h[i].to <= last /\ last \in Nat
    BY <1>1 DEF ConversationInv, ConversationType, RoundsWhole
  <2> QED
    BY <2>1, <2>2, <2>3
<1>6. ASSUME NEW k \in 1..M
      PROVE  h[f[k]].from \in all \/ (s[k].from >= from /\ h[f[k]].to >= from)
  <2>1. CASE k <= m
    <3>1. k \in 1..m
      BY <2>1
    <3> QED
      BY <1>3, <3>1
  <2>2. CASE k > m
    <3>1. f[m + 1] \in 1..N /\ f[k] \in 1..N /\ f[m + 1] <= f[k]
      <4>1. k = m + 1 \/ m + 1 < k
        BY <2>2
      <4>2. f[m + 1] \in 1..N /\ f[k] \in 1..N
        BY <1>3, <1>4
      <4> QED
        BY <1>2, <1>4, <4>1, <4>2
    <3>2. /\ h[f[m + 1]].from \in Nat /\ h[f[k]].from \in Nat /\ h[f[k]].to \in Nat
          /\ h[f[m + 1]].from <= h[f[k]].from /\ h[f[k]].from <= h[f[k]].to
      BY <1>1, <3>1, RoundsRise
    <3> QED
      BY <1>3, <1>5, <3>2
  <2> QED
    BY <1>4, <2>1, <2>2
<1>7. Remembered(from, all)
  <2> SUFFICES ASSUME NEW i \in 1..N PROVE h[i].to >= from \/ h[i].from \in all
    BY <1>1 DEF Remembered
  <2>1. CASE h[i].from \in covers
    BY <2>1
  <2>2. CASE \E k \in 1..M : f[k] = i
    BY <1>6, <2>2
  <2> QED
    BY <1>2, <2>1, <2>2
<1> PICK Q : Q = {k \in 1..M : s[k].from >= from}
  OBVIOUS
<1>8. Q \in SUBSET (1..M) /\ Q = {k \in DOMAIN s : s[k].from >= from}
  BY <1>2
<1> PICK e : e = Filtered(s, Q)
  OBVIOUS
<1> PICK g : Selects(g, Q, s, e)
  BY <1>8, FilteredIs
<1> PICK K \in Nat : K = Cardinality(Q)
  BY DEF Selects, Lists
<1>9. /\ g \in [1..K -> Q] /\ \A i, j \in 1..K : i < j => g[i] < g[j]
      /\ \A k \in Q : \E i \in 1..K : g[i] = k
      /\ e = [i \in 1..K |-> s[g[i]]]
  BY DEF Selects, Lists
<1>10. DOMAIN e = 1..K /\ Len(e) = K /\ \A i \in 1..K : g[i] \in 1..M /\ e[i] = s[g[i]]
  <2>1. DOMAIN e = 1..K /\ Len(e) = K
    BY <1>9
  <2>2. \A i \in 1..K : g[i] \in Q
    BY <1>9
  <2> QED
    BY <1>8, <1>9, <2>1, <2>2
<1> PICK c : c = [i \in 1..K |-> f[g[i]]]
  OBVIOUS
<1>11. c \in [1..K -> 1..N] /\ \A i \in 1..K : c[i] = f[g[i]]
  BY <1>3, <1>10
<1>12. \A i, j \in 1..K : i < j => c[i] < c[j]
  BY <1>2, <1>9, <1>10, <1>11
<1>13. \A i \in 1..K : Copy(e[i], h[c[i]])
  BY <1>2, <1>10, <1>11
<1>14. ASSUME NEW i \in 1..N PROVE h[i].from \in all \/ \E k \in 1..K : c[k] = i
  <2>1. CASE h[i].from \in covers
    BY <2>1
  <2>2. CASE \E k \in 1..M : f[k] = i
    <3> PICK k \in 1..M : f[k] = i
      BY <2>2
    <3>1. CASE k \in Q
      <4> PICK j \in 1..K : g[j] = k
        BY <1>9, <3>1
      <4> QED
        BY <1>11
    <3>2. CASE k \notin Q
      BY <1>6, <3>2
    <3> QED
      BY <3>1, <3>2
  <2> QED
    BY <1>2, <2>1, <2>2
<1>15. Mirrors(c, e, h, all)
  BY <1>1, <1>10, <1>11, <1>12, <1>13, <1>14 DEF Mirrors
<1>16. Mirrored(e, h, all)
  BY <1>1, <1>10, <1>11, <1>15 DEF Mirrored
<1> QED
  BY <1>5, <1>7, <1>8, <1>16

-----------------------------------------------------------------------------
(* The steps.                                                              *)

\* The rounds, the compaction and what is known of them stay.
LEMMA MemoryStays ==
  ASSUME ConversationInv, UNCHANGED <<rounds, latest>>, last' \in Nat, last <= last'
  PROVE  /\ RoundsWhole' /\ Advances(latest)'
         /\ rounds' \in Seq(RoundRecords) /\ last' \in Nat \ {0}
<1>1. last \in Nat \ {0} /\ rounds \in Seq(RoundRecords)
  BY DEF ConversationInv, ConversationType
<1>2. \A i \in DOMAIN rounds : rounds[i].to <= last /\ rounds[i].to \in Nat
  <2>1. \A i \in DOMAIN rounds : rounds[i] \in RoundRecords
    BY <1>1
  <2> QED
    BY <2>1 DEF ConversationInv, RoundsWhole, RoundRecords
<1>3. RoundsWhole'
  BY <1>1, <1>2 DEF ConversationInv, RoundsWhole
<1>4. Advances(latest)'
  BY <1>1 DEF ConversationInv, CompactionsHold, Advances, Remembered
<1> QED
  BY <1>1, <1>3, <1>4

LEMMA EndRunKeeps ==
  ASSUME ConversationInv, EndRun PROVE ConversationInv'
<1> USE DEF EndRun
<1>1. last \in Nat /\ last' = last + 1
  BY DEF ConversationInv, ConversationType
<1>2. RoundsWhole' /\ Advances(latest)' /\ last' \in Nat \ {0}
  BY <1>1, MemoryStays
<1>3. ConversationType'
  BY <1>2, EmptySeq DEF ConversationInv, ConversationType, OpenRounds, NoRound
<1>4. RoundOpen' /\ ContextHolds'
  BY DEF RoundOpen, ContextHolds
<1>5. CompactionsHold'
  BY <1>2 DEF ConversationInv, CompactionsHold
<1> QED
  BY <1>2, <1>3, <1>4, <1>5 DEF ConversationInv

LEMMA StartRunKeeps ==
  ASSUME ConversationInv, StartRun PROVE ConversationInv'
<1> USE DEF StartRun
<1>1. last \in Nat /\ last' = last + 2
  BY DEF ConversationInv, ConversationType
<1>2. RoundsWhole' /\ Advances(latest)' /\ last' \in Nat \ {0}
  BY <1>1, MemoryStays
<1>3. ConversationType'
  BY <1>2 DEF ConversationInv, ConversationType
<1>4. RoundOpen' /\ ContextHolds'
  BY DEF RoundOpen, ContextHolds
<1>5. CompactionsHold'
  BY <1>2 DEF ConversationInv, CompactionsHold
<1> QED
  BY <1>2, <1>3, <1>4, <1>5 DEF ConversationInv

LEMMA BuildKeeps ==
  ASSUME ConversationInv, Build PROVE ConversationInv'
<1> USE DEF Build
<1>1. ConversationType' /\ RoundsWhole'
  BY DEF ConversationInv, ConversationType, RoundsWhole
<1>2. RoundOpen'
  BY DEF RoundOpen
<1>3. CompactionsHold'
  BY DEF ConversationInv, CompactionsHold, Advances, Remembered
<1>4. CurrentRounds' = CurrentRounds
  BY DEF CurrentRounds
<1>5. ContextHolds'
  BY <1>4 DEF ContextHolds
<1> QED
  BY <1>1, <1>2, <1>3, <1>5 DEF ConversationInv

LEMMA ChooseKeeps ==
  ASSUME ConversationInv, Choose PROVE ConversationInv'
<1> USE DEF Choose
<1>1. ConversationType' /\ RoundsWhole'
  BY DEF ConversationInv, ConversationType, RoundsWhole
<1>2. RoundOpen'
  BY DEF RoundOpen
<1>3. CompactionsHold'
  BY DEF ConversationInv, CompactionsHold, Advances, Remembered
<1>4. context = [rounds |-> Shown(CurrentRounds), covers |-> latest.covers]
      /\ Mirrored(Shown(CurrentRounds), rounds, latest.covers)
  BY CurrentIs DEF ConversationInv, ContextHolds
<1>5. ContextHolds'
  <2>1. CurrentRounds' = CurrentRounds
    BY DEF CurrentRounds
  <2>2. Evictions' = Evictions
    BY DEF Evictions
  <2>3. Mirrored(context'.rounds, rounds', context'.covers)
    BY <1>4
  <2> QED
    BY <1>4, <2>1, <2>2, <2>3 DEF ContextHolds
<1> QED
  BY <1>1, <1>2, <1>3, <1>5 DEF ConversationInv

LEMMA DraftIs ==
  ASSUME ConversationInv, pc = "summary", NEW size, NEW new,
         new = Draft(Min(Evictions), size)
  PROVE  /\ Advances(new) /\ new.through > latest.through
         /\ Mirrored(Filtered(context.rounds,
                              {k \in DOMAIN context.rounds :
                                  context.rounds[k].from >= new.from}),
                     rounds, new.covers)
<1> PICK s, covers : s = context.rounds /\ covers = latest.covers
  OBVIOUS
<1>1. s = Shown(CurrentRounds) /\ Evictions # {}
  BY DEF ConversationInv, ContextHolds
<1> PICK f : Mirrors(f, s, rounds, covers)
  BY <1>1, CurrentIs DEF Mirrored
<1> PICK M \in Nat : M = Len(s)
  BY DEF Mirrors
<1> PICK T : T = Evictions
  OBVIOUS
<1>2. T \in SUBSET (1..M)
  BY DEF Evictions
<1> PICK m \in T : m = Min(T)
  BY <1>1, <1>2, LeastIs
<1>3. m \in 1..M /\ m < M /\ s[m + 1].from - 1 > latest.through
  BY <1>2 DEF Evictions
<1> PICK from, all : from = s[m + 1].from
                     /\ all = covers \cup {s[i].from : i \in 1..m}
  OBVIOUS
<1>4. new.from = from /\ new.through = from - 1 /\ new.to = last
  BY DEF Draft
<1>5. new.covers = all
  <2>1. new.covers = covers \cup
            {SubSeq(s, 1, m)[i].from : i \in DOMAIN SubSeq(s, 1, m)}
    BY DEF Draft, Covered
  <2> PICK V : s \in Seq(V)
    BY <1>1, CurrentIs, ShownIs
  <2> PICK q : q = SubSeq(s, 1, m)
    OBVIOUS
  <2>2. m \in 1..Len(s) /\ 1 \in 1..(Len(s) + 1) /\ m \in (1 - 1)..Len(s)
        /\ m - 1 + 1 = m /\ \A i \in 1..m : 1 + i - 1 = i
    BY <1>3
  <2>3. q \in Seq(V) /\ Len(q) = m
    BY <2>2, SubSeqProperties
  <2>4. \A i \in 1..m : q[i] = s[i]
    BY <2>2, SubSeqProperties
  <2>5. DOMAIN q = 1..m
    BY <2>3
  <2>6. {q[i].from : i \in DOMAIN q} = {s[i].from : i \in 1..m}
    BY <2>4, <2>5
  <2>7. new.covers = covers \cup {q[i].from : i \in DOMAIN q}
    BY <2>1
  <2> QED
    BY <2>6, <2>7
<1>6. /\ from \in Nat \ {0} /\ from <= last /\ Remembered(from, all)
      /\ Mirrored(Filtered(s, {k \in DOMAIN s : s[k].from >= from}), rounds, all)
  <2>1. Mirrors(f, s, rounds, covers)
    OBVIOUS
  <2>2. m \in 1..Len(s) /\ m < Len(s)
    BY <1>3
  <2>3. Evicted(s, m, covers, from, all)
    BY DEF Evicted
  <2>4. ConversationInv
    OBVIOUS
  <2> QED
    BY ONLY <2>1, <2>2, <2>3, <2>4, EvictedIs
<1>7. last \in Nat
  BY DEF ConversationInv, ConversationType
<1>8. Advances(new) /\ new.through > latest.through
  BY <1>3, <1>4, <1>5, <1>6, <1>7 DEF Advances
<1> QED
  BY <1>4, <1>5, <1>6, <1>8

LEMMA SummarizeKeeps ==
  ASSUME ConversationInv, Summarize PROVE ConversationInv'
<1> PICK size \in ModelSummaries \cup FallbackSummaries :
       LET new == Draft(Min(Evictions), size)
           kept == Filtered(context.rounds,
                       {k \in DOMAIN context.rounds :
                           context.rounds[k].from >= new.from})
       IN IF Estimate(kept, size) >= Budget THEN EndRun
          ELSE /\ draft' = new
               /\ context' = [rounds |-> kept, covers |-> new.covers]
               /\ pc' = "compact"
               /\ UNCHANGED <<run, requests, last, rounds, open, latest,
                              turns, wire, accepted>>
  BY DEF Summarize
<1> PICK new : new = Draft(Min(Evictions), size)
  OBVIOUS
<1> PICK kept : kept = Filtered(context.rounds,
                           {k \in DOMAIN context.rounds :
                               context.rounds[k].from >= new.from})
  OBVIOUS
<1>1. \/ EndRun
      \/ /\ draft' = new
         /\ context' = [rounds |-> kept, covers |-> new.covers]
         /\ pc' = "compact"
         /\ UNCHANGED <<run, requests, last, rounds, open, latest,
                        turns, wire, accepted>>
  OBVIOUS
<1>2. /\ Advances(new) /\ new.through > latest.through
      /\ Mirrored(kept, rounds, new.covers)
  BY DraftIs DEF Summarize
<1>3. CASE EndRun
  BY <1>3, EndRunKeeps
<1>4. CASE ~EndRun
  <2>1. /\ draft' = new
        /\ context' = [rounds |-> kept, covers |-> new.covers]
        /\ pc' = "compact"
        /\ UNCHANGED <<run, requests, last, rounds, open, latest,
                       turns, wire, accepted>>
    BY <1>1, <1>4
  <2>2. ConversationType' /\ RoundsWhole'
    BY <2>1 DEF ConversationInv, ConversationType, RoundsWhole
  <2>3. RoundOpen'
    BY <2>1 DEF RoundOpen
  <2>4. Advances(latest)' /\ Advances(draft)'
    BY <1>2, <2>1 DEF ConversationInv, CompactionsHold, Advances, Remembered
  <2>5. CompactionsHold'
    BY <1>2, <2>1, <2>4 DEF ConversationInv, CompactionsHold
  <2>6. ContextHolds'
    BY <1>2, <2>1 DEF ContextHolds
  <2> QED
    BY <2>2, <2>3, <2>5, <2>6 DEF ConversationInv
<1> QED
  BY <1>3, <1>4

LEMMA CompactKeeps ==
  ASSUME ConversationInv, Compact PROVE ConversationInv'
<1> USE DEF Compact
<1>1. last \in Nat /\ last' = last + 1
  BY DEF ConversationInv, ConversationType
<1>2. /\ Advances(draft) /\ Advances(latest) /\ accepted = TRUE
      /\ draft.through > latest.through /\ context.covers = draft.covers
      /\ Mirrored(context.rounds, rounds, context.covers)
  BY DEF ConversationInv, CompactionsHold, ContextHolds
<1>3. RangeValid(draft, last + 1)
  BY <1>1, <1>2 DEF RangeValid, Advances
<1>4. accepted' = TRUE
  BY <1>2, <1>3
<1>5. Advances(latest)'
  BY <1>1, <1>2 DEF Advances, Remembered
<1>6. ConversationType'
  BY <1>1 DEF ConversationInv, ConversationType
<1>7. RoundsWhole'
  <2>1. \A i \in DOMAIN rounds : rounds[i].to \in Nat
    <3>1. \A i \in DOMAIN rounds : rounds[i] \in RoundRecords
      BY DEF ConversationInv, ConversationType
    <3> QED
      BY <3>1 DEF RoundRecords
  <2> QED
    BY <1>1, <2>1 DEF ConversationInv, RoundsWhole
<1>8. RoundOpen'
  BY DEF RoundOpen
<1>9. CompactionsHold'
  BY <1>4, <1>5 DEF CompactionsHold
<1>10. ContextHolds'
  BY <1>2 DEF ContextHolds
<1> QED
  BY <1>6, <1>7, <1>8, <1>9, <1>10 DEF ConversationInv

LEMMA RequestKeeps ==
  ASSUME ConversationInv, Request PROVE ConversationInv'
<1> USE DEF Request
<1>1. last \in Nat /\ last' = last + 1 /\ requests \in Nat
  BY DEF ConversationInv, ConversationType
<1>2. RoundsWhole' /\ Advances(latest)' /\ last' \in Nat \ {0}
  BY <1>1, MemoryStays
<1>3. ConversationType'
  <2> PICK none : none = <<>>
    OBVIOUS
  <2> PICK new : new = open'
    OBVIOUS
  <2>1. new = [from |-> last + 1, calls |-> none, outputs |-> none, text |-> "none"]
    BY DEF NoRound
  <2>2. none \in Seq(CallRecords) /\ none \in Seq(Nat) /\ last + 1 \in Nat
    BY <1>1, EmptySeq
  <2>4. "none" \in {"kept", "none", "bad"}
    OBVIOUS
  <2>5. new \in OpenRounds
    BY ONLY <2>1, <2>2, <2>4 DEF OpenRounds
  <2>3. open' \in OpenRounds
    BY <2>5
  <2>6. requests' \in Nat /\ pc' = "model"
    BY <1>1
  <2> QED
    BY <1>2, <2>3, <2>6 DEF ConversationInv, ConversationType
<1>4. RoundOpen'
  <2>1. open' = [NoRound EXCEPT !.from = last + 1]
    OBVIOUS
  <2>2. open'.from = last + 1 /\ open'.calls = <<>> /\ open'.outputs = <<>>
    BY <2>1 DEF NoRound
  <2>3. \A i \in DOMAIN rounds : rounds[i].to < last + 1
    <3>1. \A i \in DOMAIN rounds : rounds[i] \in RoundRecords
      BY DEF ConversationInv, ConversationType
    <3>2. \A i \in DOMAIN rounds : rounds[i].to \in Nat /\ rounds[i].to <= last
      BY <3>1 DEF ConversationInv, RoundsWhole, RoundRecords
    <3> QED
      BY <1>1, <3>2
  <2> QED
    BY <1>1, <2>2, <2>3 DEF RoundOpen
<1>5. CompactionsHold'
  BY <1>2 DEF ConversationInv, CompactionsHold
<1>6. ContextHolds'
  BY DEF ConversationInv, ContextHolds
<1> QED
  BY <1>2, <1>3, <1>4, <1>5, <1>6 DEF ConversationInv

LEMMA WellFormedType ==
  ASSUME NEW r, r.calls \in Seq(CallRecords)
  PROVE  WellFormedIds(r) \in Seq(CallIds)
<1> PICK c \in Seq(CallRecords) : c = r.calls
  OBVIOUS
<1> PICK n \in Nat : n = Len(c)
  OBVIOUS
<1>1. \A i \in 1..n : c[i] \in CallRecords
  OBVIOUS
<1> PICK P : P = {i \in DOMAIN c : c[i].ok}
  OBVIOUS
<1>2. P \in SUBSET (1..n)
  OBVIOUS
<1> PICK v : v = Filtered(c, P)
  OBVIOUS
<1> PICK f : Selects(f, P, c, v)
  BY <1>2, FilteredIs
<1> PICK m \in Nat : m = Cardinality(P)
  BY DEF Selects, Lists
<1>3. f \in [1..m -> P] /\ v = [i \in 1..m |-> c[f[i]]]
  BY DEF Selects, Lists
<1>4. DOMAIN v = 1..m /\ \A i \in 1..m : v[i] \in CallRecords
  BY <1>1, <1>2, <1>3
<1> PICK ids : ids = WellFormedIds(r)
  OBVIOUS
<1>5. ids = [i \in 1..m |-> v[i].id]
  BY <1>4 DEF WellFormedIds
<1>6. ids \in [1..m -> CallIds]
  BY <1>4, <1>5 DEF CallRecords
<1> QED
  BY <1>6, FunctionSeq

LEMMA CallsType ==
  ASSUME ConversationInv, NEW batch \in Batches
  PROVE  Calls(batch) \in Seq(CallRecords) /\ Len(Calls(batch)) = Len(batch)
         /\ Len(batch) \in Nat \ {0}
<1>1. batch \in Seq({"ok", "bad"}) /\ batch # <<>>
  BY ConversationBounds
<1> PICK n \in Nat : n = Len(batch)
  BY <1>1
<1>2. DOMAIN batch = 1..n /\ n # 0
  BY <1>1, EmptySeq
<1>3. requests \in Nat
  BY DEF ConversationInv, ConversationType
<1>4. Calls(batch) = [i \in 1..n |-> [id |-> <<requests, i>>, ok |-> batch[i] = "ok"]]
  BY <1>2 DEF Calls
<1>5. \A i \in 1..n : [id |-> <<requests, i>>, ok |-> batch[i] = "ok"] \in CallRecords
  BY <1>3 DEF CallRecords, CallIds
<1>6. Calls(batch) \in [1..n -> CallRecords]
  BY <1>4, <1>5
<1> QED
  BY <1>2, <1>6, FunctionSeq

LEMMA KeptType ==
  ASSUME ConversationInv, NEW calls \in Seq(CallRecords), NEW text \in {"kept", "bad"}
  PROVE  Suppressed(Kept(calls, text), text) \in Seq(TurnRecords)
<1> PICK ids \in Seq(CallIds) : ids = WellFormedIds([calls |-> calls])
  BY WellFormedType
<1> PICK ts \in Seq(TurnRecords) : ts = turns
  BY DEF ConversationInv, ConversationType
<1> PICK kept : kept = Kept(calls, text)
  OBVIOUS
<1> PICK new : new = [ids |-> ids, text |-> text]
  OBVIOUS
<1>1. /\ ids = <<>> => kept = ts
      /\ ids # <<>> => kept = Append(ts, new)
  BY DEF Kept
<1>2. CASE text = "kept"
  <2>1. new \in TurnRecords
    BY <1>2 DEF TurnRecords
  <2>2. Suppressed(kept, text) = kept
    BY <1>2 DEF Suppressed
  <2>3. Append(ts, new) \in Seq(TurnRecords)
    BY <2>1, AppendProperties
  <2>4. ids = <<>> \/ ids # <<>>
    OBVIOUS
  <2>5. kept \in Seq(TurnRecords)
    BY <1>1, <2>3, <2>4
  <2> QED
    BY <2>2, <2>5
<1>3. CASE text = "bad"
  <2> PICK Loose : Loose = [ids : Seq(CallIds), text : {"kept", "none", "bad"}]
    OBVIOUS
  <2>0. TurnRecords \in SUBSET Loose
    BY DEF TurnRecords
  <2>9. \A i \in 1..Len(ts) : ts[i] \in TurnRecords
    OBVIOUS
  <2>1. kept \in Seq(Loose)
    <3> PICK l \in Nat : l = Len(ts)
      OBVIOUS
    <3>0. \A i \in 1..l : ts[i] \in Loose
      BY <2>0, <2>9
    <3>1. ts \in [1..l -> Loose]
      BY <3>0
    <3>2. ts \in Seq(Loose)
      BY <3>1, FunctionSeq
    <3>3. new \in Loose
      BY <1>3
    <3>4. Append(ts, new) \in Seq(Loose)
      BY <3>2, <3>3, AppendProperties
    <3>5. ids = <<>> \/ ids # <<>>
      OBVIOUS
    <3> QED
      BY <1>1, <3>2, <3>4, <3>5
  <2> PICK n \in Nat : n = Len(kept)
    BY <2>1
  <2>2. \A i \in 1..n : i # n => kept[i] \in TurnRecords
    <3>2. CASE ids = <<>>
      <4>1. kept = ts
        BY <1>1, <3>2
      <4> QED
        BY <2>9, <4>1
    <3>3. CASE ids # <<>>
      <4>0. kept = Append(ts, new)
        BY <1>1, <3>3
      <4>1. n = Len(ts) + 1 /\ \A i \in 1..Len(ts) : kept[i] = ts[i]
        BY <4>0
      <4>2. \A i \in 1..n : i # n => i \in 1..Len(ts)
        BY <4>1
      <4> QED
        BY <2>9, <4>1, <4>2
    <3> QED
      BY <3>2, <3>3
  <2>3. CASE kept = <<>>
    BY <1>3, <2>3, EmptySeq DEF Suppressed
  <2>4. CASE kept # <<>>
    <3>1. n # 0
      BY <2>1, <2>4, EmptySeq
    <3>2. Suppressed(kept, text) = [kept EXCEPT ![n].text = "none"]
      BY <1>3, <2>4 DEF Suppressed
    <3>3. kept[n] \in Loose
      <4>1. n \in 1..Len(kept)
        BY <3>1
      <4> QED
        BY ONLY <2>1, <4>1
    <3>4. [kept[n] EXCEPT !.text = "none"] \in TurnRecords
      BY <3>3 DEF TurnRecords
    <3>5. [kept EXCEPT ![n].text = "none"] \in [1..n -> TurnRecords]
      BY <2>1, <2>2, <3>1, <3>4
    <3> QED
      BY <3>2, <3>5, FunctionSeq
  <2> QED
    BY <2>3, <2>4
<1> QED
  BY <1>2, <1>3

LEMMA ToolTurnKeeps ==
  ASSUME ConversationInv, ToolTurn PROVE ConversationInv'
<1> PICK batch \in Batches, text \in {"kept", "bad"} :
       /\ turns' = Suppressed(Kept(Calls(batch), text), text)
       /\ open' = [open EXCEPT !.calls = Calls(batch),
                               !.text = IF text = "bad" THEN "none" ELSE text]
       /\ last' = last + Len(batch) + 2
  BY DEF ToolTurn
<1> PICK calls \in Seq(CallRecords) : calls = Calls(batch)
  BY CallsType
<1>1. Len(calls) \in Nat \ {0} /\ Len(batch) = Len(calls)
  BY CallsType
<1>2. /\ pc = "model" /\ pc' = "tools"
      /\ UNCHANGED <<run, requests, rounds, latest, draft, context, wire, accepted>>
  BY DEF ToolTurn
<1>3. last \in Nat /\ open \in OpenRounds
  BY DEF ConversationInv, ConversationType
<1>4. RoundsWhole' /\ Advances(latest)' /\ last' \in Nat \ {0}
  BY <1>1, <1>2, <1>3, MemoryStays
<1>5. /\ open' \in OpenRounds /\ open'.calls = calls /\ open'.text # "bad"
      /\ open'.from = open.from /\ open'.outputs = open.outputs
  BY <1>3 DEF OpenRounds
<1>6. ConversationType'
  BY <1>2, <1>4, <1>5, KeptType DEF ConversationInv, ConversationType
<1>7. RoundOpen'
  <2>1. /\ 0 < open.from /\ open.from <= last
        /\ \A i \in DOMAIN rounds : rounds[i].to < open.from
        /\ open.outputs = <<>>
    BY <1>2 DEF ConversationInv, RoundOpen
  <2>2. open.from \in Nat
    BY <1>3 DEF OpenRounds
  <2> QED
    BY <1>1, <1>2, <1>3, <1>5, <2>1, <2>2 DEF RoundOpen
<1>8. CompactionsHold'
  BY <1>2, <1>4 DEF ConversationInv, CompactionsHold
<1>9. ContextHolds'
  BY <1>2 DEF ContextHolds
<1> QED
  BY <1>4, <1>6, <1>7, <1>8, <1>9 DEF ConversationInv

\* A round that ends the session so far.
Whole(r, until) ==
    /\ r \in RoundRecords /\ r.from = open.from
    /\ last <= r.to /\ r.to <= until /\ Len(r.calls) = Len(r.outputs)

LEMMA RoundAdded ==
  ASSUME ConversationInv, pc \in {"model", "tools"}, NEW r, Whole(r, last'),
         rounds' = Append(rounds, r), latest' = latest, last' \in Nat
  PROVE  /\ RoundsWhole' /\ Advances(latest)' /\ last' \in Nat \ {0}
         /\ rounds' \in Seq(RoundRecords) /\ rounds' # <<>>
<1> PICK h \in Seq(RoundRecords) : h = rounds
  BY DEF ConversationInv, ConversationType
<1> PICK n \in Nat : n = Len(h)
  OBVIOUS
<1> PICK g : g = Append(h, r)
  OBVIOUS
<1>1. r \in RoundRecords
  BY DEF Whole
<1>2. g \in Seq(RoundRecords) /\ Len(g) = n + 1 /\ g[n + 1] = r
      /\ \A i \in 1..n : g[i] = h[i]
  BY <1>1, AppendProperties
<1>3. DOMAIN h = 1..n /\ DOMAIN g = 1..(n + 1)
  BY <1>2
<1>4. /\ last \in Nat \ {0} /\ open.from \in Nat /\ 0 < open.from
      /\ open.from <= last /\ \A i \in 1..n : h[i].to < open.from
  <2>1. open \in OpenRounds /\ last \in Nat \ {0}
    BY DEF ConversationInv, ConversationType
  <2>2. open.from \in Nat
    BY <2>1 DEF OpenRounds
  <2> QED
    BY <1>3, <2>1, <2>2 DEF ConversationInv, RoundOpen
<1>5. /\ r.from = open.from /\ r.to \in Nat /\ last <= r.to /\ r.to <= last'
      /\ Len(r.calls) = Len(r.outputs)
  BY DEF Whole, RoundRecords
<1>6. \A i \in 1..n : h[i].to \in Nat /\ h[i].from \in Nat
  <2>1. \A i \in 1..n : h[i] \in RoundRecords
    BY <1>3
  <2> QED
    BY <2>1 DEF RoundRecords
<1>7. ASSUME NEW i \in 1..(n + 1)
      PROVE  /\ 0 < g[i].from /\ g[i].from <= g[i].to /\ g[i].to <= last'
             /\ Len(g[i].calls) = Len(g[i].outputs)
  <2>1. CASE i = n + 1
    BY <1>2, <1>4, <1>5, <2>1
  <2>2. CASE i # n + 1
    <3>1. i \in 1..n
      BY <2>2
    <3>2. /\ 0 < h[i].from /\ h[i].from <= h[i].to /\ h[i].to <= last
          /\ Len(h[i].calls) = Len(h[i].outputs)
      BY <1>3, <3>1 DEF ConversationInv, RoundsWhole
    <3>3. last <= last'
      BY <1>4, <1>5
    <3> QED
      BY <1>2, <1>4, <1>6, <3>1, <3>2, <3>3
  <2> QED
    BY <2>1, <2>2
<1>8. ASSUME NEW i \in 1..(n + 1), NEW j \in 1..(n + 1), i < j
      PROVE  g[i].to < g[j].from
  <2>1. i \in 1..n
    BY <1>8
  <2>2. CASE j = n + 1
    BY <1>2, <1>4, <1>5, <2>1, <2>2
  <2>3. CASE j # n + 1
    <3>1. j \in 1..n
      BY <2>3
    <3>2. h[i].to < h[j].from
      BY <1>3, <1>8, <2>1, <3>1 DEF ConversationInv, RoundsWhole
    <3> QED
      BY <1>2, <2>1, <3>1, <3>2
  <2> QED
    BY <2>2, <2>3
<1>9. RoundsWhole'
  BY <1>3, <1>7, <1>8 DEF RoundsWhole
<1>10. Advances(latest)'
  <2>1. /\ latest.through \in Nat /\ latest.from = latest.through + 1
        /\ latest.to \in Nat /\ latest.to <= last /\ latest.from <= last
        /\ \A i \in 1..n : h[i].to >= latest.from \/ h[i].from \in latest.covers
    BY <1>3 DEF ConversationInv, CompactionsHold, Advances, Remembered
  <2>2. \A i \in 1..(n + 1) : g[i].to >= latest.from \/ g[i].from \in latest.covers
    <3>1. g[n + 1].to >= latest.from
      BY <1>2, <1>4, <1>5, <2>1
    <3>2. \A i \in 1..(n + 1) : i = n + 1 \/ i \in 1..n
      OBVIOUS
    <3> QED
      BY <1>2, <2>1, <3>1, <3>2
  <2>3. latest.to <= last' /\ latest.from <= last'
    BY <1>4, <1>5, <2>1
  <2>4. Remembered(latest.from, latest.covers)'
    BY <1>3, <2>2 DEF Remembered
  <2> QED
    BY <2>1, <2>3, <2>4 DEF Advances
<1>11. g # <<>>
  BY <1>2, EmptySeq
<1> QED
  BY <1>2, <1>4, <1>5, <1>9, <1>10, <1>11

LEMMA RoundIs ==
  ASSUME ConversationInv, pc \in {"model", "tools"}, NEW kind, NEW to \in Nat,
         \/ kind = "tools" /\ pc = "tools"
         \/ kind \in {"final", "proposal"}
  PROVE  /\ Round(kind, to) \in RoundRecords
         /\ Round(kind, to).from = open.from /\ Round(kind, to).to = to
         /\ Round(kind, to).calls = open.calls
         /\ Round(kind, to).outputs = open.outputs
<1>1. open \in OpenRounds /\ run \in Nat
  BY DEF ConversationInv, ConversationType
<1>2. pc = "tools" => open.text # "bad"
  BY DEF ConversationInv, RoundOpen
<1> PICK text : text = IF kind = "tools" THEN open.text ELSE "kept"
  OBVIOUS
<1>3. text \in {"kept", "none"}
  BY <1>1, <1>2 DEF OpenRounds
<1>4. Round(kind, to) = [run |-> run, kind |-> kind, from |-> open.from, to |-> to,
                         calls |-> open.calls, outputs |-> open.outputs,
                         text |-> text]
  BY DEF Round
<1>5. open.from \in Nat /\ open.calls \in Seq(CallRecords) /\ open.outputs \in Seq(Nat)
  BY <1>1 DEF OpenRounds
<1>6. kind \in {"tools", "final", "proposal", "plan"}
  OBVIOUS
<1> QED
  BY <1>1, <1>3, <1>4, <1>5, <1>6 DEF RoundRecords

LEMMA NoRoundType == NoRound \in OpenRounds
<1> PICK none : none = <<>>
  OBVIOUS
<1>1. none \in Seq(CallRecords) /\ none \in Seq(Nat)
  BY EmptySeq
<1>2. NoRound = [from |-> 0, calls |-> none, outputs |-> none, text |-> "none"]
  BY DEF NoRound
<1> PICK new : new = NoRound
  OBVIOUS
<1>3. new \in OpenRounds
  BY <1>1, <1>2 DEF OpenRounds
<1> QED
  BY <1>3

LEMMA ToolResultKeeps ==
  ASSUME ConversationInv, ToolResult PROVE ConversationInv'
<1> PICK size \in OutputSizes :
       LET call == open.calls[Len(open.outputs) + 1]
           outputs == Append(open.outputs, IF call.ok THEN size ELSE 0)
       IN IF Answered(open.calls, outputs)
          THEN /\ rounds' = Append(rounds,
                      [Round("tools", last + 1) EXCEPT !.outputs = outputs])
               /\ open' = NoRound /\ pc' = "build"
          ELSE /\ open' = [open EXCEPT !.outputs = outputs]
               /\ UNCHANGED <<rounds, pc>>
  BY DEF ToolResult
<1> PICK more : more = IF open.calls[Len(open.outputs) + 1].ok THEN size ELSE 0
  OBVIOUS
<1> PICK outputs : outputs = Append(open.outputs, more)
  OBVIOUS
<1>1. \/ /\ Answered(open.calls, outputs)
         /\ rounds' = Append(rounds,
                      [Round("tools", last + 1) EXCEPT !.outputs = outputs])
         /\ open' = NoRound /\ pc' = "build"
      \/ /\ ~Answered(open.calls, outputs)
         /\ open' = [open EXCEPT !.outputs = outputs]
         /\ UNCHANGED <<rounds, pc>>
  OBVIOUS
<1>2. /\ pc = "tools" /\ last' = last + 1
      /\ UNCHANGED <<run, requests, latest, draft, context, turns, wire, accepted>>
  BY DEF ToolResult
<1>3. last \in Nat /\ open \in OpenRounds
  BY DEF ConversationInv, ConversationType
<1> PICK calls \in Seq(CallRecords), old \in Seq(Nat) :
       calls = open.calls /\ old = open.outputs
  BY <1>3 DEF OpenRounds
<1>4. Len(old) < Len(calls) /\ open.text # "bad"
  BY <1>2 DEF ConversationInv, RoundOpen
<1>5. outputs \in Seq(Nat) /\ Len(outputs) = Len(old) + 1
  <2>1. size \in Nat
    BY ConversationBounds
  <2>2. more \in Nat
    BY <2>1
  <2> QED
    BY <2>2, AppendProperties
<1>6. CASE /\ Answered(open.calls, outputs)
           /\ rounds' = Append(rounds,
                        [Round("tools", last + 1) EXCEPT !.outputs = outputs])
           /\ open' = NoRound /\ pc' = "build"
  <2> PICK r : r = [Round("tools", last + 1) EXCEPT !.outputs = outputs]
    OBVIOUS
  <2>1. last + 1 \in Nat
    BY <1>3
  <2> PICK w \in RoundRecords : /\ w = Round("tools", last + 1) /\ w.from = open.from
                                /\ w.to = last + 1 /\ w.calls = calls
    BY <1>2, <2>1, RoundIs
  <2>2. r = [w EXCEPT !.outputs = outputs]
    OBVIOUS
  <2>3. /\ r \in RoundRecords /\ r.from = open.from /\ r.to = last + 1
        /\ r.calls = calls /\ r.outputs = outputs
    BY <1>5, <2>2 DEF RoundRecords
  <2>4. Len(outputs) = Len(calls)
    BY <1>6 DEF Answered
  <2>5. Whole(r, last')
    BY <1>2, <1>3, <2>3, <2>4 DEF Whole
  <2>10. /\ ConversationInv /\ pc \in {"model", "tools"} /\ last' \in Nat
         /\ rounds' = Append(rounds, r) /\ latest' = latest
    BY <1>2, <1>3, <1>6
  <2>6. /\ RoundsWhole' /\ Advances(latest)' /\ last' \in Nat \ {0}
        /\ rounds' \in Seq(RoundRecords)
    BY ONLY <2>5, <2>10, RoundAdded
  <2>7. ConversationType'
    BY <1>2, <1>6, <2>6, NoRoundType DEF ConversationInv, ConversationType
  <2>8. RoundOpen' /\ ContextHolds'
    BY <1>6 DEF RoundOpen, ContextHolds
  <2>9. CompactionsHold'
    BY <1>2, <1>6, <2>6 DEF ConversationInv, CompactionsHold
  <2> QED
    BY <2>6, <2>7, <2>8, <2>9 DEF ConversationInv
<1>7. CASE /\ ~Answered(open.calls, outputs)
           /\ open' = [open EXCEPT !.outputs = outputs]
           /\ UNCHANGED <<rounds, pc>>
  <2>1. RoundsWhole' /\ Advances(latest)' /\ last' \in Nat \ {0}
    BY <1>2, <1>3, <1>7, MemoryStays
  <2>2. /\ open' \in OpenRounds /\ open'.outputs = outputs /\ open'.calls = calls
        /\ open'.from = open.from /\ open'.text = open.text
    BY <1>3, <1>5, <1>7 DEF OpenRounds
  <2>3. Len(outputs) < Len(calls)
    <3>1. Len(outputs) # Len(calls)
      BY <1>7 DEF Answered
    <3>2. Len(old) \in Nat /\ Len(calls) \in Nat
      OBVIOUS
    <3> QED
      BY <1>4, <1>5, <3>1, <3>2
  <2>4. ConversationType'
    BY <1>2, <1>7, <2>1, <2>2 DEF ConversationInv, ConversationType
  <2>5. RoundOpen'
    <3>1. /\ 0 < open.from /\ open.from <= last
          /\ \A i \in DOMAIN rounds : rounds[i].to < open.from
      BY <1>2 DEF ConversationInv, RoundOpen
    <3>2. open.from \in Nat
      BY <1>3 DEF OpenRounds
    <3>3. open.from <= last'
      BY <1>2, <1>3, <3>1, <3>2
    <3> QED
      BY <1>2, <1>4, <1>7, <2>2, <2>3, <3>1, <3>3 DEF RoundOpen
  <2>6. CompactionsHold'
    BY <1>2, <1>7, <2>1 DEF ConversationInv, CompactionsHold
  <2>7. ContextHolds'
    BY <1>2, <1>7 DEF ContextHolds
  <2> QED
    BY <2>1, <2>4, <2>5, <2>6, <2>7 DEF ConversationInv
<1> QED
  BY <1>1, <1>6, <1>7

LEMMA StopRejectedKeeps ==
  ASSUME ConversationInv, StopRejected PROVE ConversationInv'
<1> USE DEF StopRejected
<1>1. last \in Nat /\ last' = last + 2
  BY DEF ConversationInv, ConversationType
<1>2. RoundsWhole' /\ Advances(latest)' /\ last' \in Nat \ {0}
  BY <1>1, MemoryStays
<1>3. open' \in OpenRounds
  <2>1. open' = [NoRound EXCEPT !.text = "bad"]
    OBVIOUS
  <2> QED
    BY <2>1, NoRoundType DEF OpenRounds
<1>4. ConversationType'
  BY <1>2, <1>3, EmptySeq DEF ConversationInv, ConversationType
<1>5. RoundOpen' /\ ContextHolds'
  BY DEF RoundOpen, ContextHolds
<1>6. CompactionsHold'
  BY <1>2 DEF ConversationInv, CompactionsHold
<1> QED
  BY <1>2, <1>4, <1>5, <1>6 DEF ConversationInv

\* The answer of the model becomes a round of its own.
LEMMA AnswerAdded ==
  ASSUME ConversationInv, pc = "model", NEW kind \in {"final", "proposal"},
         rounds' = Append(rounds, Round(kind, last + 2)), latest' = latest,
         last' \in {last + 2, last + 3}
  PROVE  /\ RoundsWhole' /\ Advances(latest)' /\ last' \in Nat \ {0}
         /\ rounds' \in Seq(RoundRecords) /\ rounds' # <<>>
<1>1. last \in Nat
  BY DEF ConversationInv, ConversationType
<1>2. last + 2 \in Nat /\ last' \in Nat
  BY <1>1
<1> PICK r \in RoundRecords :
       /\ r = Round(kind, last + 2) /\ r.from = open.from /\ r.to = last + 2
       /\ r.calls = open.calls /\ r.outputs = open.outputs
  BY <1>2, RoundIs
<1>3. r.calls = <<>> /\ r.outputs = <<>>
  BY DEF ConversationInv, RoundOpen
<1>4. Whole(r, last')
  BY <1>1, <1>3 DEF Whole
<1> QED
  BY <1>2, <1>4, RoundAdded

LEMMA FinalAnswerKeeps ==
  ASSUME ConversationInv, FinalAnswer PROVE ConversationInv'
<1> USE DEF FinalAnswer
<1>1. last' = last + 3 /\ rounds' = Append(rounds, Round("final", last + 2))
  OBVIOUS
<1>2. /\ RoundsWhole' /\ Advances(latest)' /\ last' \in Nat \ {0}
      /\ rounds' \in Seq(RoundRecords)
  BY <1>1, AnswerAdded
<1>3. ConversationType'
  BY <1>2, NoRoundType, EmptySeq DEF ConversationInv, ConversationType
<1>4. RoundOpen' /\ ContextHolds'
  BY DEF RoundOpen, ContextHolds
<1>5. CompactionsHold'
  BY <1>2 DEF ConversationInv, CompactionsHold
<1> QED
  BY <1>2, <1>3, <1>4, <1>5 DEF ConversationInv

LEMMA ProposePlanKeeps ==
  ASSUME ConversationInv, ProposePlan PROVE ConversationInv'
<1> USE DEF ProposePlan
<1>1. last' = last + 2 /\ rounds' = Append(rounds, Round("proposal", last + 2))
  OBVIOUS
<1>2. /\ RoundsWhole' /\ Advances(latest)' /\ last' \in Nat \ {0}
      /\ rounds' \in Seq(RoundRecords) /\ rounds' # <<>>
  BY <1>1, AnswerAdded
<1>3. ConversationType'
  BY <1>2, NoRoundType DEF ConversationInv, ConversationType
<1>4. RoundOpen' /\ ContextHolds'
  BY <1>2 DEF RoundOpen, ContextHolds
<1>5. CompactionsHold'
  BY <1>2 DEF ConversationInv, CompactionsHold
<1> QED
  BY <1>2, <1>3, <1>4, <1>5 DEF ConversationInv

\* The plan is decided: its round changes its kind.
LEMMA PlanDecided ==
  ASSUME ConversationInv, pc = "plan", latest' = latest,
         rounds' = [rounds EXCEPT ![Len(rounds)].kind = "plan"],
         last' \in {last + 1, last + 2}
  PROVE  /\ RoundsWhole' /\ Advances(latest)' /\ last' \in Nat \ {0}
         /\ rounds' \in Seq(RoundRecords)
<1> PICK h \in Seq(RoundRecords) : h = rounds
  BY DEF ConversationInv, ConversationType
<1> PICK n \in Nat : n = Len(h)
  OBVIOUS
<1>1. last \in Nat \ {0} /\ last' \in Nat \ {0} /\ last <= last'
  BY DEF ConversationInv, ConversationType
<1>2. h # <<>> /\ n # 0
  <2>1. rounds # <<>>
    BY DEF ConversationInv, RoundOpen
  <2> QED
    BY <2>1, EmptySeq
<1> PICK g : g = [h EXCEPT ![n].kind = "plan"]
  OBVIOUS
<1>3. DOMAIN h = 1..n /\ DOMAIN g = 1..n
      /\ \A i \in 1..n : g[i] = IF i = n THEN [h[i] EXCEPT !.kind = "plan"] ELSE h[i]
  OBVIOUS
<1>4. ASSUME NEW i \in 1..n
      PROVE  /\ g[i] \in RoundRecords /\ g[i].from = h[i].from /\ g[i].to = h[i].to
             /\ g[i].calls = h[i].calls /\ g[i].outputs = h[i].outputs
             /\ h[i].to \in Nat
  <2> PICK x \in RoundRecords : x = h[i]
    BY <1>3
  <2> PICK y : y = g[i]
    OBVIOUS
  <2>1. y = IF i = n THEN [x EXCEPT !.kind = "plan"] ELSE x
    BY <1>3
  <2>2. /\ y \in RoundRecords /\ y.from = x.from /\ y.to = x.to
        /\ y.calls = x.calls /\ y.outputs = x.outputs /\ x.to \in Nat
    BY <2>1 DEF RoundRecords
  <2> QED
    BY <2>2
<1>5. g \in Seq(RoundRecords)
  <2>1. \A i \in 1..n : g[i] \in RoundRecords
    BY <1>4
  <2>2. g = [i \in 1..n |-> g[i]]
    BY <1>3
  <2>3. g \in [1..n -> RoundRecords]
    BY <2>1, <2>2
  <2> QED
    BY <2>3, FunctionSeq
<1>6. rounds' = g
  OBVIOUS
<1>7. RoundsWhole'
  <2>1. /\ \A i \in 1..n : /\ 0 < h[i].from /\ h[i].from <= h[i].to
                           /\ h[i].to <= last
                           /\ Len(h[i].calls) = Len(h[i].outputs)
        /\ \A i, j \in 1..n : i < j => h[i].to < h[j].from
    BY <1>3 DEF ConversationInv, RoundsWhole
  <2>2. \A i \in 1..n : h[i].to <= last'
    BY <1>1, <1>4, <2>1
  <2> QED
    BY <1>3, <1>4, <1>6, <2>1, <2>2 DEF RoundsWhole
<1>8. Advances(latest)'
  <2>1. /\ latest.through \in Nat /\ latest.from = latest.through + 1
        /\ latest.to \in Nat /\ latest.to <= last /\ latest.from <= last
        /\ \A i \in 1..n : h[i].to >= latest.from \/ h[i].from \in latest.covers
    BY <1>3 DEF ConversationInv, CompactionsHold, Advances, Remembered
  <2>2. latest.to <= last' /\ latest.from <= last'
    BY <1>1, <2>1
  <2>3. Remembered(latest.from, latest.covers)'
    BY <1>3, <1>4, <1>6, <2>1 DEF Remembered
  <2> QED
    BY <2>1, <2>2, <2>3 DEF Advances
<1> QED
  BY <1>1, <1>5, <1>6, <1>7, <1>8

LEMMA ApprovePlanKeeps ==
  ASSUME ConversationInv, ApprovePlan PROVE ConversationInv'
<1> USE DEF ApprovePlan
<1>1. last' \in {last + 1, last + 2}
  OBVIOUS
<1>2. /\ RoundsWhole' /\ Advances(latest)' /\ last' \in Nat \ {0}
      /\ rounds' \in Seq(RoundRecords)
  BY <1>1, PlanDecided
<1>3. ConversationType'
  BY <1>2, EmptySeq DEF ConversationInv, ConversationType
<1>4. RoundOpen' /\ ContextHolds'
  BY DEF RoundOpen, ContextHolds
<1>5. CompactionsHold'
  BY <1>2 DEF ConversationInv, CompactionsHold
<1> QED
  BY <1>2, <1>3, <1>4, <1>5 DEF ConversationInv

LEMMA RejectPlanKeeps ==
  ASSUME ConversationInv, RejectPlan PROVE ConversationInv'
<1> USE DEF RejectPlan
<1>1. last' \in {last + 1, last + 2}
  OBVIOUS
<1>2. /\ RoundsWhole' /\ Advances(latest)' /\ last' \in Nat \ {0}
      /\ rounds' \in Seq(RoundRecords)
  BY <1>1, PlanDecided
<1>3. ConversationType'
  BY <1>2, EmptySeq DEF ConversationInv, ConversationType
<1>4. RoundOpen' /\ ContextHolds'
  BY DEF RoundOpen, ContextHolds
<1>5. CompactionsHold'
  BY <1>2 DEF ConversationInv, CompactionsHold
<1> QED
  BY <1>2, <1>3, <1>4, <1>5 DEF ConversationInv

LEMMA ConversationKept ==
  ConversationInv /\ [Next]_vars => ConversationInv'
<1> SUFFICES ASSUME ConversationInv, [Next]_vars PROVE ConversationInv'
  OBVIOUS
<1>1. CASE UNCHANGED vars
  <2>1. CurrentRounds' = CurrentRounds /\ Evictions' = Evictions
    BY <1>1 DEF vars, CurrentRounds, Evictions
  <2>2. ConversationType' /\ RoundsWhole' /\ RoundOpen'
    BY <1>1 DEF vars, ConversationInv, ConversationType, RoundsWhole, RoundOpen
  <2>3. CompactionsHold'
    BY <1>1 DEF vars, ConversationInv, CompactionsHold, Advances, Remembered
  <2>4. ContextHolds'
    BY <1>1, <2>1 DEF vars, ConversationInv, ContextHolds
  <2> QED
    BY <2>2, <2>3, <2>4 DEF ConversationInv
<1>2. CASE StartRun
  BY <1>2, StartRunKeeps
<1>3. CASE Build
  BY <1>3, BuildKeeps
<1>4. CASE Choose
  BY <1>4, ChooseKeeps
<1>5. CASE BuildFails
  BY <1>5, EndRunKeeps DEF BuildFails
<1>6. CASE Summarize
  BY <1>6, SummarizeKeeps
<1>7. CASE Compact
  BY <1>7, CompactKeeps
<1>8. CASE Request
  BY <1>8, RequestKeeps
<1>9. CASE ToolTurn
  BY <1>9, ToolTurnKeeps
<1>10. CASE ToolResult
  BY <1>10, ToolResultKeeps
<1>11. CASE StopRejected
  BY <1>11, StopRejectedKeeps
<1>12. CASE FinalAnswer
  BY <1>12, FinalAnswerKeeps
<1>13. CASE ProposePlan
  BY <1>13, ProposePlanKeeps
<1>14. CASE ApprovePlan
  BY <1>14, ApprovePlanKeeps
<1>15. CASE RejectPlan
  BY <1>15, RejectPlanKeeps
<1>16. CASE Abort
  BY <1>16, EndRunKeeps DEF Abort
<1> QED
  BY <1>1, <1>2, <1>3, <1>4, <1>5, <1>6, <1>7, <1>8, <1>9, <1>10, <1>11, <1>12,
     <1>13, <1>14, <1>15, <1>16 DEF Next

-----------------------------------------------------------------------------
(* Sequences that are put together from others.                            *)

LEMMA Everywhere ==
  ASSUME NEW n \in Nat, NEW G, 0 \in G, \A k \in 1..n : k - 1 \in G => k \in G
  PROVE  \A k \in 0..n : k \in G
<1> SUFFICES ASSUME NEW l \in 0..n, l \notin G PROVE FALSE
  OBVIOUS
<1> PICK T : T = {k \in 1..n : k \notin G}
  OBVIOUS
<1>1. T \in SUBSET (1..n) /\ l \in T
  OBVIOUS
<1>6. Min(T) \in T /\ \A y \in T : Min(T) <= y
  BY ONLY <1>1, n \in Nat, LeastIs
<1> PICK m \in T : \A y \in T : m <= y
  BY <1>6
<1>2. m \in 1..n /\ m \notin G
  BY <1>1
<1>3. m - 1 \notin G
  BY <1>2
<1>4. m - 1 \notin T
  BY <1>2
<1>5. m - 1 = 0
  BY <1>2, <1>3, <1>4
<1> QED
  BY <1>3, <1>5


\* f[k] is what the first k sequences of s make together.
Joins(f, n, s) ==
    f = [k \in 1..n |-> IF k = 1 THEN s[k] ELSE f[k - 1] \o s[k]]

LEMMA JoinsExists ==
  ASSUME NEW s, NEW n \in Nat PROVE \E f : Joins(f, n, s)
<1> PICK G : G = {k \in 0..n : \E f : Joins(f, k, s)}
  OBVIOUS
<1>1. 0 \in G
  <2>1. Joins([k \in 1..0 |-> 0], 0, s)
    BY DEF Joins
  <2> QED
    BY <2>1
<1>2. ASSUME NEW k \in 1..n, k - 1 \in G PROVE k \in G
  <2> PICK f : Joins(f, k - 1, s)
    BY <1>2
  <2>1. f = [j \in 1..(k - 1) |-> IF j = 1 THEN s[j] ELSE f[j - 1] \o s[j]]
    BY DEF Joins
  <2> PICK g : g = [j \in 1..k |-> IF j = k
                                   THEN IF j = 1 THEN s[j] ELSE f[j - 1] \o s[j]
                                   ELSE f[j]]
    OBVIOUS
  <2>2. \A j \in 1..k : j # 1 => g[j - 1] = f[j - 1]
    OBVIOUS
  <2>6. \A j \in 1..(k - 1) : f[j] = IF j = 1 THEN s[j] ELSE f[j - 1] \o s[j]
    BY <2>1
  <2>7. ASSUME NEW j \in 1..k
        PROVE  g[j] = IF j = 1 THEN s[j] ELSE f[j - 1] \o s[j]
    <3>1. CASE j = k
      BY <3>1
    <3>2. CASE j # k
      <4>1. j \in 1..(k - 1) /\ g[j] = f[j]
        BY <3>2
      <4> QED
        BY <2>6, <4>1
    <3> QED
      BY <3>1, <3>2
  <2>3. \A j \in 1..k : g[j] = IF j = 1 THEN s[j] ELSE g[j - 1] \o s[j]
    BY <2>2, <2>7
  <2>4. g = [j \in 1..k |-> IF j = 1 THEN s[j] ELSE g[j - 1] \o s[j]]
    BY <2>3
  <2>5. Joins(g, k, s)
    BY <2>4 DEF Joins
  <2> QED
    BY <2>5
<1>3. \A k \in 1..n : k - 1 \in G => k \in G
  BY <1>2
<1>4. \A k \in 0..n : k \in G
  BY ONLY <1>1, <1>3, n \in Nat, Everywhere
<1> QED
  BY <1>4

\* f lists what the first sequences of s make together, from none to all.
Gathers(f, s, S) ==
    /\ f \in [0..Len(s) -> Seq(S)] /\ f[0] = <<>>
    /\ \A k \in 1..Len(s) : f[k] = f[k - 1] \o s[k]
    /\ FlattenSeq(s) = f[Len(s)]

LEMMA FlattenIs ==
  ASSUME NEW S, NEW s \in Seq(Seq(S)) PROVE \E f : Gathers(f, s, S)
<1> PICK n \in Nat : n = Len(s)
  OBVIOUS
<1> PICK none : none = <<>>
  OBVIOUS
<1>0. none \in Seq(S) /\ \A k \in 1..n : s[k] \in Seq(S)
  BY EmptySeq
<1> PICK g : Joins(g, n, s)
  BY JoinsExists
<1> PICK h : h = CHOOSE e : e = [k \in 1..n |-> IF k = 1 THEN s[k] ELSE e[k - 1] \o s[k]]
  OBVIOUS
<1>1. h = [k \in 1..n |-> IF k = 1 THEN s[k] ELSE h[k - 1] \o s[k]]
  BY DEF Joins
<1>6. /\ \A k \in 1..n : k = 1 => h[k] = s[k]
      /\ \A k \in 1..n : k # 1 => h[k] = h[k - 1] \o s[k]
  BY <1>1

<1> PICK f : f = [k \in 0..n |-> IF k = 0 THEN none ELSE h[k]]
  OBVIOUS
<1>8. \A k \in 1..n : /\ f[k] = h[k]
                      /\ k = 1 => f[k - 1] = none
                      /\ k # 1 => f[k - 1] = h[k - 1]
  <2> SUFFICES ASSUME NEW k \in 1..n
               PROVE  /\ f[k] = h[k]
                      /\ k = 1 => f[k - 1] = none
                      /\ k # 1 => f[k - 1] = h[k - 1]
    OBVIOUS
  <2>1. k \in 0..n /\ k - 1 \in 0..n /\ (k = 1 => k - 1 = 0) /\ (k # 1 => k - 1 # 0)
    OBVIOUS
  <2> QED
    BY <2>1
<1>2. \A k \in 0..n : f[k] \in Seq(S)
  <2> PICK G : G = {k \in 0..n : f[k] \in Seq(S)}
    OBVIOUS
  <2>1. 0 \in G
    BY <1>0
  <2>2. ASSUME NEW k \in 1..n, k - 1 \in G PROVE k \in G
    <3>0. f[k] = h[k] /\ k \in 0..n
      OBVIOUS
    <3>1. CASE k = 1
      <4>1. f[k] \in Seq(S)
        BY <1>0, <1>6, <3>0, <3>1
      <4> QED
        BY <3>0, <4>1
    <3>2. CASE k # 1
      <4>1. f[k] = h[k - 1] \o s[k] /\ h[k - 1] = f[k - 1]
        BY <1>6, <1>8, <3>2
      <4>2. f[k - 1] \in Seq(S) /\ s[k] \in Seq(S)
        BY <1>0, <2>2
      <4>3. f[k - 1] \o s[k] \in Seq(S)
        BY ONLY <4>2, ConcatProperties
      <4> QED
        BY <3>0, <4>1, <4>3
    <3> QED
      BY <3>1, <3>2
  <2>3. \A k \in 0..n : k \in G
    BY <2>1, <2>2, Everywhere
  <2> QED
    BY <2>3
<1>3. f \in [0..n -> Seq(S)] /\ f[0] = <<>>
  BY <1>2
<1>4. ASSUME NEW k \in 1..n PROVE f[k] = f[k - 1] \o s[k]
  <2>1. CASE k = 1
    <3>1. f[k] = s[k] /\ f[k - 1] = none
      BY <1>6, <1>8, <2>1
    <3>2. <<>> \o s[k] = s[k]
      BY <1>0, ConcatEmptySeq
    <3> QED
      BY <3>1, <3>2
  <2>2. CASE k # 1
    <3>1. f[k] = h[k - 1] \o s[k] /\ h[k - 1] = f[k - 1]
      BY <1>6, <1>8, <2>2
    <3> QED
      BY <3>1
  <2> QED
    BY <2>1, <2>2
<1>5. FlattenSeq(s) = f[n]
  <2>1. CASE n = 0
    <3>1. FlattenSeq(s) = s
      BY <2>1 DEF FlattenSeq
    <3>2. s = <<>>
      BY <2>1, EmptySeq
    <3>3. f[0] = none
      OBVIOUS
    <3> QED
      BY <2>1, <3>1, <3>2, <3>3
  <2>2. CASE n # 0
    <3>1. FlattenSeq(s) = h[n]
      BY <2>2 DEF FlattenSeq
    <3> QED
      BY <2>2, <3>1
  <2> QED
    BY <2>1, <2>2
<1>7. Gathers(f, s, S)
  BY <1>3, <1>4, <1>5 DEF Gathers
<1> QED
  BY <1>7

-----------------------------------------------------------------------------
(* What is sent for each message.                                          *)

Roles == {"assistant", "tool", "goal", "system", "user"}
Ids == CallIds \cup Nat
MessageRecords == [role : Roles, ids : Seq(Ids), text : {"kept", "none"}]

Asks(w, i, n) == w[i].role = "assistant" /\ Len(w[i].ids) >= n

\* The calls of w are followed by their answers, as in WirePaired.
PairedIn(w) ==
    /\ \A i \in DOMAIN w : \A n \in 1..Len(w[i].ids) :
          w[i].role = "assistant" =>
              /\ i + n \in DOMAIN w
              /\ w[i + n].role = "tool" /\ w[i + n].ids = <<w[i].ids[n]>>
    /\ \A k \in DOMAIN w : w[k].role = "tool" =>
          \E i \in 1..(k - 1) : Asks(w, i, k - i)

\* One kept turn stands for ids, and for nothing else, or none does.
Known(ids) ==
    TurnsOf(ids) # {} => \E t \in DOMAIN turns : TurnsOf(ids) = {t} /\ turns[t].ids = ids

Apart(M) ==
    \A i, j \in DOMAIN M : M[i].role = "assistant" /\ M[j].role = "assistant" /\ i < j =>
        \A a \in DOMAIN M[i].ids, b \in DOMAIN M[j].ids : M[i].ids[a] # M[j].ids[b]

Sendable(M) ==
    /\ M \in Seq(MessageRecords) /\ PairedIn(M) /\ Apart(M)
    /\ \A i \in DOMAIN M : M[i].role = "assistant" => Known(M[i].ids)

\* What is sent in the place of a message.
Sent(m) ==
    IF m.role = "assistant"
    THEN IF TurnsOf(m.ids) = {} THEN [m EXCEPT !.ids = Own(@, "own")]
                                ELSE Stored(CHOOSE t : t \in TurnsOf(m.ids))
    ELSE IF m.role = "tool"
    THEN [m EXCEPT !.ids = Own(@, IF TurnsOf(m.ids) = {} THEN "own" ELSE "provider")]
    ELSE m

ShownBy(M, n) ==
    {t \in DOMAIN turns : \E i \in 1..n : M[i].role = "assistant" /\ t \in TurnsOf(M[i].ids)}

\* The wire after the first n messages.
WireUntil(M, n) ==
    [sent |-> [i \in 1..n |-> Sent(M[i])], shown |-> ShownBy(M, n), ok |-> TRUE]

LEMMA FilteredFew ==
  ASSUME NEW s, NEW n \in Nat
  PROVE  /\ Filtered(s, {}) = <<>>
         /\ \A t \in 1..n : Filtered(s, {t}) = <<s[t]>>
<1>1. Filtered(s, {}) = <<>>
  <2>1. {} \in SUBSET (1..n)
    OBVIOUS
  <2> PICK f : Selects(f, {}, s, Filtered(s, {}))
    BY <2>1, FilteredIs
  <2>2. Cardinality({}) = 0
    BY FS_EmptySet
  <2>3. Filtered(s, {}) = [i \in 1..0 |-> s[f[i]]]
    BY <2>2 DEF Selects
  <2> QED
    BY <2>3
<1>2. ASSUME NEW t \in 1..n PROVE Filtered(s, {t}) = <<s[t]>>
  <2>1. {t} \in SUBSET (1..n)
    OBVIOUS
  <2> PICK f : Selects(f, {t}, s, Filtered(s, {t}))
    BY <2>1, FilteredIs
  <2>2. Cardinality({t}) = 1
    BY FS_Singleton
  <2>3. Filtered(s, {t}) = [i \in 1..1 |-> s[f[i]]] /\ f \in [1..1 -> {t}]
    BY <2>2 DEF Selects, Lists
  <2>4. f[1] = t
    BY <2>3
  <2>5. Filtered(s, {t}) = [i \in 1..1 |-> s[t]]
    BY <2>3, <2>4
  <2> QED
    BY <2>5
<1> QED
  BY <1>1, <1>2

LEMMA TurnsIn ==
  ASSUME NEW t, NEW ids
  PROVE  t \in TurnsOf(ids) <=>
            t \in DOMAIN turns /\ \E i \in DOMAIN ids, j \in DOMAIN turns[t].ids :
                                      ids[i] = turns[t].ids[j]
BY DEF TurnsOf

\* A message is sent as Sent says, whatever comes before it.
LEMMA WireAdds ==
  ASSUME turns \in Seq(TurnRecords), NEW M, Sendable(M), NEW n \in 1..Len(M)
  PROVE  WireMessage(WireUntil(M, n - 1), M[n]) = WireUntil(M, n)
<1> PICK l \in Nat : l = Len(M)
  BY DEF Sendable
<1>1. DOMAIN M = 1..l /\ \A i \in 1..l : M[i] \in MessageRecords
  BY DEF Sendable
<1> PICK m \in MessageRecords : m = M[n]
  BY <1>1
<1> PICK old : old = [i \in 1..(n - 1) |-> Sent(M[i])]
  OBVIOUS
<1> PICK shown : shown = ShownBy(M, n - 1)
  OBVIOUS
<1> PICK w : w = WireUntil(M, n - 1)
  OBVIOUS
<1>2. w = [sent |-> old, shown |-> shown, ok |-> TRUE]
  BY DEF WireUntil
<1>11. w.sent = old /\ w.shown = shown
  BY <1>2
<1>12. ASSUME NEW x, NEW y
       PROVE  /\ [w EXCEPT !.sent = x] = [sent |-> x, shown |-> shown, ok |-> TRUE]
              /\ [w EXCEPT !.sent = x, !.shown = y]
                    = [sent |-> x, shown |-> y, ok |-> TRUE]
  <2> PICK yes : yes = TRUE
    OBVIOUS
  <2>1. w = [sent |-> old, shown |-> shown, ok |-> yes]
    BY <1>2
  <2>2. [w EXCEPT !.sent = x] = [sent |-> x, shown |-> shown, ok |-> yes]
    BY ONLY <2>1
  <2> PICK v : v = [w EXCEPT !.sent = x]
    OBVIOUS
  <2>4. [w EXCEPT !.sent = x, !.shown = y] = [v EXCEPT !.shown = y]
    OBVIOUS
  <2>6. v = [sent |-> x, shown |-> shown, ok |-> yes]
    BY <2>2
  <2>5. [v EXCEPT !.shown = y] = [sent |-> x, shown |-> y, ok |-> yes]
    BY ONLY <2>6
  <2>3. [w EXCEPT !.sent = x, !.shown = y] = [sent |-> x, shown |-> y, ok |-> yes]
    BY <2>4, <2>5
  <2> QED
    BY <2>2, <2>3
<1> PICK held : held = TurnsOf(m.ids)
  OBVIOUS
<1> PICK S : S = {Sent(M[i]) : i \in 1..l}
  OBVIOUS
<1>3. old \in Seq(S) /\ Len(old) = n - 1 /\ Sent(m) \in S
  <2>1. old \in [1..(n - 1) -> S] /\ n - 1 \in Nat /\ Sent(m) \in S
    OBVIOUS
  <2> QED
    BY <2>1, FunctionSeq
<1>4. Append(old, Sent(m)) = [i \in 1..n |-> Sent(M[i])]
  <2> PICK new : new = Append(old, Sent(m))
    OBVIOUS
  <2>1. Len(new) = n /\ new \in Seq(S) /\ new[n] = Sent(m)
        /\ \A i \in 1..(n - 1) : new[i] = old[i]
    BY <1>3, AppendProperties
  <2>2. \A i \in 1..n : new[i] = Sent(M[i])
    <3>1. \A i \in 1..n : i = n \/ i \in 1..(n - 1)
      OBVIOUS
    <3> QED
      BY <2>1, <3>1
  <2>3. new = [i \in 1..n |-> new[i]]
    BY <2>1
  <2> QED
    BY <2>2, <2>3
<1>5. ASSUME NEW more, ShownBy(M, n) = more,
             WireMessage(w, m) = [sent |-> Append(old, Sent(m)), shown |-> more,
                                  ok |-> TRUE]
      PROVE  WireMessage(w, m) = WireUntil(M, n)
  BY <1>4, <1>5 DEF WireUntil
<1>6. \A t : t \in ShownBy(M, n) <=> t \in shown \/ (m.role = "assistant" /\ t \in held)
  <2>1. \A i \in 1..n : i = n \/ i \in 1..(n - 1)
    OBVIOUS
  <2>2. n \in 1..n /\ \A i \in 1..(n - 1) : i \in 1..n
    OBVIOUS
  <2>3. \A t \in held : t \in DOMAIN turns
    BY DEF TurnsOf
  <2> QED
    BY <2>1, <2>2, <2>3 DEF ShownBy
<1>7. CASE m.role = "assistant" /\ held = {}
  <2>1. WireMessage(w, m) =
            [w EXCEPT !.sent = Append(@, [m EXCEPT !.ids = Own(@, "own")])]
    BY <1>7 DEF WireMessage, WireAssistant
  <2>2. Sent(m) = [m EXCEPT !.ids = Own(@, "own")]
    BY <1>7 DEF Sent
  <2>3. ShownBy(M, n) = shown
    BY <1>6, <1>7
  <2>4. WireMessage(w, m) = [sent |-> Append(old, Sent(m)), shown |-> shown, ok |-> TRUE]
    BY <1>11, <1>12, <2>1, <2>2
  <2> QED
    BY <1>5, <2>3, <2>4
<1>8. CASE m.role = "assistant" /\ held # {}
  <2>1. Known(m.ids)
    BY <1>8, <1>1 DEF Sendable
  <2> PICK t \in DOMAIN turns : held = {t} /\ turns[t].ids = m.ids
    BY <1>8, <2>1 DEF Known
  <2>2. Cardinality(held) = 1
    BY FS_Singleton
  <2>3. \A i \in DOMAIN m.ids : TurnsOf(<<m.ids[i]>>) # {}
    <3> SUFFICES ASSUME NEW i \in DOMAIN m.ids PROVE t \in TurnsOf(<<m.ids[i]>>)
      OBVIOUS
    <3> PICK one : one = <<m.ids[i]>>
      OBVIOUS
    <3>1. 1 \in DOMAIN one /\ one[1] = turns[t].ids[i] /\ i \in DOMAIN turns[t].ids
      OBVIOUS
    <3>2. t \in TurnsOf(one)
      BY <3>1, TurnsIn
    <3> QED
      BY <3>2
  <2>4. t \notin shown
    <3> SUFFICES ASSUME t \in shown PROVE FALSE
      OBVIOUS
    <3> PICK i \in 1..(n - 1) : M[i].role = "assistant" /\ t \in TurnsOf(M[i].ids)
      BY DEF ShownBy
    <3>1. i \in DOMAIN M /\ n \in DOMAIN M /\ i < n
      BY <1>1
    <3> PICK a \in DOMAIN M[i].ids, b \in DOMAIN turns[t].ids :
           M[i].ids[a] = turns[t].ids[b]
      BY TurnsIn
    <3>2. \A x \in DOMAIN M[i].ids, y \in DOMAIN M[n].ids : M[i].ids[x] # M[n].ids[y]
      BY <1>8, <3>1 DEF Sendable, Apart
    <3>3. b \in DOMAIN M[n].ids /\ M[n].ids[b] = turns[t].ids[b]
      OBVIOUS
    <3> QED
      BY <3>2, <3>3
  <2>5. WireMessage(w, m) = Put(w, held)
    <3>1. WireMessage(w, m) = WireAssistant(w, m)
      BY <1>8 DEF WireMessage
    <3>2. ~(Cardinality(TurnsOf(m.ids)) > 1) /\ TurnsOf(m.ids) # {}
      BY <1>8, <2>2
    <3>3. WireAssistant(w, m) = Put(w, TurnsOf(m.ids))
      BY ONLY <2>3, <3>2 DEF WireAssistant
    <3> QED
      BY <3>1, <3>3
  <2> PICK stored : stored = [u \in DOMAIN turns |-> Stored(u)]
    OBVIOUS
  <2>6. Filtered(stored, held \ w.shown) = <<Stored(t)>>
    <3>1. held \ w.shown = {t}
      BY <1>2, <2>4
    <3>2. Len(turns) \in Nat /\ t \in 1..Len(turns)
      OBVIOUS
    <3>3. Filtered(stored, {t}) = <<stored[t]>>
      BY <3>2, FilteredFew
    <3> QED
      BY <3>1, <3>3
  <2>7. Sent(m) = Stored(t)
    BY <1>8 DEF Sent
  <2>8. old \o <<Sent(m)>> = Append(old, Sent(m))
    BY <1>3, AppendIsConcat
  <2>9. ShownBy(M, n) = shown \cup held
    BY <1>6, <1>8
  <2>10. Put(w, held) = [w EXCEPT !.sent = @ \o Filtered(stored, held \ w.shown),
                                  !.shown = @ \cup held]
    BY DEF Put
  <2> PICK x, y : x = Append(old, Sent(m)) /\ y = shown \cup held
    OBVIOUS
  <2>12. w.sent \o Filtered(stored, held \ w.shown) = x /\ w.shown \cup held = y
    BY <1>11, <2>6, <2>7, <2>8
  <2>13. Put(w, held) = [w EXCEPT !.sent = x, !.shown = y]
    BY <2>10, <2>12
  <2>14. WireMessage(w, m) = [sent |-> x, shown |-> y, ok |-> TRUE]
    BY <1>12, <2>5, <2>13
  <2>11. WireMessage(w, m) = [sent |-> Append(old, Sent(m)), shown |-> shown \cup held,
                              ok |-> TRUE]
    BY <2>14
  <2> QED
    BY <1>5, <2>9, <2>11
<1>9. CASE m.role = "tool"
  <2>1. \E i \in 1..(n - 1) : Asks(M, i, n - i)
    BY <1>1, <1>9 DEF Sendable, PairedIn
  <2> PICK i \in 1..(n - 1) : Asks(M, i, n - i)
    BY <2>1
  <2> PICK k \in Nat : k = n - i
    OBVIOUS
  <2>2. /\ i \in 1..l /\ M[i].role = "assistant" /\ Len(M[i].ids) >= k
        /\ k \in 1..Len(M[i].ids) /\ i + k = n
    <3>1. i \in 1..l /\ M[i].role = "assistant" /\ Len(M[i].ids) >= k
      BY DEF Asks
    <3>2. Len(M[i].ids) \in Nat
      <4>1. M[i] \in MessageRecords
        BY <1>1, <3>1
      <4> QED
        BY <4>1 DEF MessageRecords
    <3> QED
      BY <3>1, <3>2
  <2> PICK ids \in Seq(Ids) : ids = M[i].ids
    BY <1>1, <2>2 DEF MessageRecords
  <2>3. m.ids = <<ids[k]>> /\ k \in DOMAIN ids
    <3>1. M[i + k].ids = <<M[i].ids[k]>>
      BY <1>1, <2>2 DEF Sendable, PairedIn
    <3>2. DOMAIN ids = 1..Len(ids)
      OBVIOUS
    <3> QED
      BY <2>2, <3>1, <3>2
  <2>4. held \in SUBSET shown
    <3> SUFFICES ASSUME NEW t \in held PROVE t \in shown
      OBVIOUS
    <3>1. t \in DOMAIN turns /\ \E a \in DOMAIN m.ids, b \in DOMAIN turns[t].ids :
                                    m.ids[a] = turns[t].ids[b]
      BY TurnsIn
    <3> PICK one : one = <<ids[k]>>
      OBVIOUS
    <3>2. DOMAIN one = {1} /\ one[1] = ids[k]
      OBVIOUS
    <3>3. \E b \in DOMAIN turns[t].ids : ids[k] = turns[t].ids[b]
      BY <2>3, <3>1, <3>2
    <3>4. t \in TurnsOf(ids)
      BY <2>3, <3>1, <3>3, TurnsIn
    <3> QED
      BY <2>2, <3>1, <3>4 DEF ShownBy
  <2>5. Put(w, held) = w
    <3>1. held \ w.shown = {} /\ w.shown \cup held = w.shown
      BY <1>2, <2>4
    <3>2. Filtered([t \in DOMAIN turns |-> Stored(t)], {}) = <<>>
      <4>1. 0 \in Nat
        OBVIOUS
      <4> QED
        BY <4>1, FilteredFew
    <3>3. old \o <<>> = old
      BY <1>3, ConcatEmptySeq
    <3>4. Put(w, held) = [w EXCEPT !.sent = @ \o <<>>, !.shown = w.shown]
      BY <3>1, <3>2 DEF Put
    <3> QED
      BY <1>2, <1>11, <1>12, <3>3, <3>4
  <2>6. WireMessage(w, m) = [w EXCEPT !.sent = Append(@, Sent(m))]
    <3>1. WireMessage(w, m) =
             [w EXCEPT !.sent = Append(@, [m EXCEPT !.ids = Own(@,
                 IF held = {} THEN "own" ELSE "provider")])]
      BY <1>9, <2>5 DEF WireMessage, WireTool
    <3>2. Sent(m) = [m EXCEPT !.ids = Own(@,
                        IF held = {} THEN "own" ELSE "provider")]
      BY <1>9 DEF Sent
    <3> QED
      BY <3>1, <3>2
  <2>7. ShownBy(M, n) = shown
    BY <1>6, <1>9
  <2>8. WireMessage(w, m) = [sent |-> Append(old, Sent(m)), shown |-> shown, ok |-> TRUE]
    BY <1>11, <1>12, <2>6
  <2> QED
    BY <1>5, <2>7, <2>8
<1>10. CASE m.role # "assistant" /\ m.role # "tool"
  <2>1. WireMessage(w, m) = [w EXCEPT !.sent = Append(@, m)] /\ Sent(m) = m
    BY <1>10 DEF WireMessage, Sent
  <2>2. ShownBy(M, n) = shown
    BY <1>6, <1>10
  <2>3. WireMessage(w, m) = [sent |-> Append(old, Sent(m)), shown |-> shown, ok |-> TRUE]
    BY <1>11, <1>12, <2>1
  <2> QED
    BY <1>5, <2>2, <2>3
<1> QED
  BY <1>7, <1>8, <1>9, <1>10

LEMMA WireIs ==
  ASSUME turns \in Seq(TurnRecords), NEW M, Sendable(M)
  PROVE  Wire(M) = WireUntil(M, Len(M))
<1> PICK l \in Nat : l = Len(M)
  BY DEF Sendable
<1> PICK g : g = [n \in 0..l |-> WireUntil(M, n)]
  OBVIOUS
<1>1. WireUntil(M, 0) = NoWire
  <2>1. ShownBy(M, 0) = {}
    BY DEF ShownBy
  <2>2. [i \in 1..0 |-> Sent(M[i])] = <<>>
    OBVIOUS
  <2> QED
    BY <2>1, <2>2 DEF WireUntil, NoWire
<1>2. \A n \in 1..l : WireMessage(WireUntil(M, n - 1), M[n]) = WireUntil(M, n)
  BY WireAdds
<1>3. g = [n \in 0..l |-> IF n = 0 THEN NoWire ELSE WireMessage(g[n - 1], M[n])]
  <2>1. ASSUME NEW n \in 0..l
        PROVE  g[n] = IF n = 0 THEN NoWire ELSE WireMessage(g[n - 1], M[n])
    <3>1. CASE n = 0
      BY <1>1, <3>1
    <3>2. CASE n # 0
      <4>1. n \in 1..l /\ n - 1 \in 0..l
        BY <3>2
      <4>2. g[n - 1] = WireUntil(M, n - 1) /\ g[n] = WireUntil(M, n)
        BY <4>1
      <4> QED
        BY <1>2, <3>2, <4>1, <4>2
    <3> QED
      BY <3>1, <3>2
  <2> QED
    BY <2>1
<1> PICK f : f = CHOOSE e : e = [n \in 0..l |-> IF n = 0 THEN NoWire
                                               ELSE WireMessage(e[n - 1], M[n])]
  OBVIOUS
<1>4. f = [n \in 0..l |-> IF n = 0 THEN NoWire ELSE WireMessage(f[n - 1], M[n])]
  <2>1. \E e : e = [n \in 0..l |-> IF n = 0 THEN NoWire
                                   ELSE WireMessage(e[n - 1], M[n])]
    BY <1>3
  <2> QED
    BY <2>1
<1>5. /\ f[0] = NoWire
      /\ \A n \in 1..l : f[n] = WireMessage(f[n - 1], M[n])
  <2>1. \A n \in 0..l : f[n] = IF n = 0 THEN NoWire ELSE WireMessage(f[n - 1], M[n])
    BY <1>4
  <2>2. 0 \in 0..l /\ \A n \in 1..l : n \in 0..l /\ n # 0
    OBVIOUS
  <2> QED
    BY <2>1, <2>2
<1>6. Wire(M) = f[l]
  BY DEF Wire
<1> PICK G : G = {n \in 0..l : f[n] = WireUntil(M, n)}
  OBVIOUS
<1>7. 0 \in G
  BY <1>1, <1>5
<1>8. \A n \in 1..l : n - 1 \in G => n \in G
  <2> SUFFICES ASSUME NEW n \in 1..l, n - 1 \in G PROVE f[n] = WireUntil(M, n)
    OBVIOUS
  <2>1. f[n - 1] = WireUntil(M, n - 1)
    OBVIOUS
  <2> QED
    BY <1>2, <1>5, <2>1
<1>9. \A n \in 0..l : n \in G
  BY ONLY <1>7, <1>8, l \in Nat, Everywhere
<1> QED
  BY <1>6, <1>9

Name(ids) == IF TurnsOf(ids) = {} THEN "own" ELSE "provider"

LEMMA OwnIs ==
  ASSUME NEW ids \in Seq(Ids), NEW name
  PROVE  /\ DOMAIN Own(ids, name) = 1..Len(ids) /\ Len(Own(ids, name)) = Len(ids)
         /\ \A i \in 1..Len(ids) : Own(ids, name)[i] = <<name, ids[i]>>
<1> PICK n \in Nat : n = Len(ids)
  OBVIOUS
<1>1. Own(ids, name) = [i \in 1..n |-> <<name, ids[i]>>]
  BY DEF Own
<1> QED
  BY <1>1

LEMMA OneName ==
  ASSUME NEW ids, Known(ids), NEW a \in DOMAIN ids
  PROVE  Name(<<ids[a]>>) = Name(ids)
<1> PICK one : one = <<ids[a]>>
  OBVIOUS
<1>1. DOMAIN one = {1} /\ one[1] = ids[a]
  OBVIOUS
<1>2. CASE TurnsOf(ids) = {}
  <2>1. TurnsOf(one) = {}
    <3> SUFFICES ASSUME NEW t \in TurnsOf(one) PROVE FALSE
      OBVIOUS
    <3>1. t \in DOMAIN turns /\ \E b \in DOMAIN turns[t].ids : ids[a] = turns[t].ids[b]
      BY <1>1, TurnsIn
    <3>2. t \in TurnsOf(ids)
      BY <3>1, TurnsIn
    <3> QED
      BY <1>2, <3>2
  <2> QED
    BY <1>2, <2>1 DEF Name
<1>3. CASE TurnsOf(ids) # {}
  <2> PICK t \in DOMAIN turns : TurnsOf(ids) = {t} /\ turns[t].ids = ids
    BY <1>3 DEF Known
  <2>1. t \in TurnsOf(one)
    BY <1>1, TurnsIn
  <2> QED
    BY <1>3, <2>1 DEF Name
<1> QED
  BY <1>2, <1>3

LEMMA SentIs ==
  ASSUME turns \in Seq(TurnRecords), NEW m \in MessageRecords,
         m.role = "assistant" => Known(m.ids)
  PROVE  /\ Sent(m).role = m.role /\ Sent(m).text \in {"kept", "none"}
         /\ m.role \in {"assistant", "tool"} => Sent(m).ids = Own(m.ids, Name(m.ids))
         /\ m.role \notin {"assistant", "tool"} => Sent(m) = m
<1>1. CASE m.role = "assistant" /\ TurnsOf(m.ids) # {}
  <2> PICK t \in DOMAIN turns : TurnsOf(m.ids) = {t} /\ turns[t].ids = m.ids
    BY <1>1 DEF Known
  <2>1. Sent(m) = Stored(t)
    BY <1>1 DEF Sent
  <2>2. Name(m.ids) = "provider"
    BY <1>1 DEF Name
  <2>3. turns[t].text \in {"kept", "none"}
    <3>1. turns[t] \in TurnRecords
      OBVIOUS
    <3> QED
      BY <3>1 DEF TurnRecords
  <2>4. Sent(m) = [role |-> "assistant", ids |-> Own(m.ids, "provider"),
                   text |-> turns[t].text]
    BY <2>1 DEF Stored, Message
  <2> QED
    BY <1>1, <2>2, <2>3, <2>4
<1>2. CASE m.role = "assistant" /\ TurnsOf(m.ids) = {}
  <2>1. Sent(m) = [m EXCEPT !.ids = Own(m.ids, "own")] /\ Name(m.ids) = "own"
    BY <1>2 DEF Sent, Name, MessageRecords
  <2> QED
    BY <1>2, <2>1 DEF MessageRecords
<1>3. CASE m.role = "tool"
  <2>1. Sent(m) = [m EXCEPT !.ids = Own(m.ids, Name(m.ids))]
    BY <1>3 DEF Sent, Name, MessageRecords
  <2> QED
    BY <1>3, <2>1 DEF MessageRecords
<1>4. CASE m.role \notin {"assistant", "tool"}
  <2>1. Sent(m) = m
    BY <1>4 DEF Sent
  <2> QED
    BY <1>4, <2>1 DEF MessageRecords
<1> QED
  BY <1>1, <1>2, <1>3, <1>4

LEMMA SentPaired ==
  ASSUME turns \in Seq(TurnRecords), NEW M, Sendable(M)
  PROVE  /\ Wire(M).ok = TRUE /\ DOMAIN Wire(M).sent = DOMAIN M
         /\ \A i \in DOMAIN M : Wire(M).sent[i] = Sent(M[i])
         /\ PairedIn(Wire(M).sent)
<1> PICK l \in Nat : l = Len(M)
  BY DEF Sendable
<1>1. DOMAIN M = 1..l /\ \A i \in 1..l : M[i] \in MessageRecords
  BY DEF Sendable
<1> PICK w : w = [i \in 1..l |-> Sent(M[i])]
  OBVIOUS
<1>2. Wire(M).sent = w /\ Wire(M).ok = TRUE
  BY WireIs DEF WireUntil
<1>3. ASSUME NEW i \in 1..l
      PROVE  /\ w[i] = Sent(M[i]) /\ w[i].role = M[i].role
             /\ M[i].role \in {"assistant", "tool"} =>
                    w[i].ids = Own(M[i].ids, Name(M[i].ids))
             /\ M[i].role = "assistant" => Known(M[i].ids)
  <2> PICK m \in MessageRecords : m = M[i]
    BY <1>1
  <2>1. m.role = "assistant" => Known(m.ids)
    BY <1>1 DEF Sendable
  <2>2. /\ Sent(m).role = m.role
        /\ m.role \in {"assistant", "tool"} => Sent(m).ids = Own(m.ids, Name(m.ids))
    BY <2>1, SentIs
  <2> QED
    BY <2>1, <2>2
<1>4. ASSUME NEW i \in 1..l, M[i].role = "assistant"
      PROVE  /\ M[i].ids \in Seq(Ids) /\ Len(w[i].ids) = Len(M[i].ids)
             /\ DOMAIN M[i].ids = 1..Len(M[i].ids)
             /\ \A n \in 1..Len(M[i].ids) : w[i].ids[n] = <<Name(M[i].ids), M[i].ids[n]>>
  <2> PICK ids \in Seq(Ids) : ids = M[i].ids
    BY <1>1 DEF MessageRecords
  <2>1. w[i].ids = Own(ids, Name(ids))
    BY <1>3, <1>4
  <2>2. /\ Len(w[i].ids) = Len(ids)
        /\ \A n \in 1..Len(ids) : w[i].ids[n] = <<Name(ids), ids[n]>>
    BY <2>1, OwnIs
  <2> QED
    BY <2>2
<1>5. ASSUME NEW i \in 1..l, NEW n \in 1..Len(w[i].ids), w[i].role = "assistant"
      PROVE  /\ i + n \in 1..l /\ w[i + n].role = "tool"
             /\ w[i + n].ids = <<w[i].ids[n]>>
  <2>1. M[i].role = "assistant"
    BY <1>3, <1>5
  <2> PICK ids \in Seq(Ids) : ids = M[i].ids
    BY <1>4, <2>1
  <2>2. /\ n \in 1..Len(ids) /\ DOMAIN ids = 1..Len(ids)
        /\ w[i].ids[n] = <<Name(ids), ids[n]>>
    BY <1>4, <2>1
  <2>3. i + n \in 1..l /\ M[i + n].role = "tool" /\ M[i + n].ids = <<ids[n]>>
    BY <1>1, <2>1, <2>2 DEF Sendable, PairedIn
  <2> PICK one : one = <<ids[n]>>
    OBVIOUS
  <2>4. w[i + n].role = "tool" /\ w[i + n].ids = Own(one, Name(one))
    BY <1>3, <2>3
  <2>5. Name(one) = Name(ids)
    BY <1>3, <2>1, <2>2, OneName
  <2>6. Own(one, Name(ids)) = <<(<<Name(ids), ids[n]>>)>>
    BY DEF Own
  <2> QED
    BY <2>2, <2>3, <2>4, <2>5, <2>6
<1>6. ASSUME NEW k \in 1..l, w[k].role = "tool"
      PROVE  \E i \in 1..(k - 1) : Asks(w, i, k - i)
  <2>1. M[k].role = "tool"
    BY <1>3, <1>6
  <2> PICK i \in 1..(k - 1) : Asks(M, i, k - i)
    BY <1>1, <2>1 DEF Sendable, PairedIn
  <2>2. i \in 1..l /\ M[i].role = "assistant" /\ Len(M[i].ids) >= k - i
    BY DEF Asks
  <2>3. w[i].role = "assistant" /\ Len(w[i].ids) >= k - i
    BY <1>3, <1>4, <2>2
  <2> QED
    BY <2>3 DEF Asks
<1>7. DOMAIN w = 1..l
  OBVIOUS
<1>8. PairedIn(w)
  <2>1. \A i \in 1..l : \A n \in 1..Len(w[i].ids) :
           w[i].role = "assistant" =>
               /\ i + n \in 1..l
               /\ w[i + n].role = "tool" /\ w[i + n].ids = <<w[i].ids[n]>>
    BY <1>5
  <2>2. \A k \in 1..l : w[k].role = "tool" => \E i \in 1..(k - 1) : Asks(w, i, k - i)
    BY <1>6
  <2> QED
    BY ONLY <1>7, <2>1, <2>2 DEF PairedIn
<1> QED
  BY <1>1, <1>2, <1>3, <1>7, <1>8

-----------------------------------------------------------------------------
(* The messages of a history.                                              *)

Distinct(x, y) == \A i \in DOMAIN x, j \in DOMAIN y : x[i] # y[j]

\* A part of a prompt, the calls of which are those of the sequences in W.
Part(M, W) ==
    /\ M \in Seq(MessageRecords) /\ PairedIn(M) /\ Apart(M)
    /\ \A i \in DOMAIN M : M[i].role = "assistant" => M[i].ids \in W

OnceIn(M, g) ==
    \E i \in DOMAIN M : IsGoal(M[i], g) /\ \A j \in DOMAIN M : IsGoal(M[j], g) => j = i
NoneIn(M, g) == \A i \in DOMAIN M : ~IsGoal(M[i], g)

LEMMA ConcatIs ==
  ASSUME NEW S, NEW a \in Seq(S), NEW b \in Seq(S)
  PROVE  /\ a \o b \in Seq(S) /\ DOMAIN (a \o b) = 1..(Len(a) + Len(b))
         /\ DOMAIN a = 1..Len(a) /\ DOMAIN b = 1..Len(b)
         /\ Len(a) \in Nat /\ Len(b) \in Nat
         /\ \A i \in 1..Len(a) : (a \o b)[i] = a[i]
         /\ \A i \in 1..Len(b) : (a \o b)[Len(a) + i] = b[i]
         /\ \A i \in 1..(Len(a) + Len(b)) :
               i \in 1..Len(a) \/ \E j \in 1..Len(b) : i = Len(a) + j
<1>1. /\ DOMAIN a = 1..Len(a) /\ DOMAIN b = 1..Len(b)
      /\ Len(a) \in Nat /\ Len(b) \in Nat
  OBVIOUS
<1>2. a \o b \in Seq(S) /\ DOMAIN (a \o b) = 1..(Len(a) + Len(b))
  OBVIOUS
<1>3. \A i \in 1..Len(a) : (a \o b)[i] = a[i]
  OBVIOUS
<1>4. \A i \in 1..Len(b) : (a \o b)[Len(a) + i] = b[i]
  OBVIOUS
<1>5. ASSUME NEW i \in 1..(Len(a) + Len(b)), i \notin 1..Len(a)
      PROVE  \E j \in 1..Len(b) : i = Len(a) + j
  <2>1. i - Len(a) \in 1..Len(b) /\ i = Len(a) + (i - Len(a))
    BY <1>1, <1>5
  <2> QED
    BY <2>1
<1> QED
  BY <1>1, <1>2, <1>3, <1>4, <1>5

LEMMA MessageOf ==
  ASSUME NEW M \in Seq(MessageRecords), NEW i \in DOMAIN M
  PROVE  /\ M[i] \in MessageRecords /\ M[i].ids \in Seq(Ids)
         /\ DOMAIN M[i].ids = 1..Len(M[i].ids) /\ Len(M[i].ids) \in Nat
<1> PICK m \in MessageRecords : m = M[i]
  OBVIOUS
<1> PICK ids \in Seq(Ids) : ids = m.ids
  BY DEF MessageRecords
<1>1. DOMAIN ids = 1..Len(ids) /\ Len(ids) \in Nat
  OBVIOUS
<1> QED
  BY <1>1

LEMMA PairedTogether ==
  ASSUME NEW a \in Seq(MessageRecords), NEW b \in Seq(MessageRecords),
         PairedIn(a), PairedIn(b)
  PROVE  PairedIn(a \o b)
<1> PICK l \in Nat, m \in Nat : l = Len(a) /\ m = Len(b)
  OBVIOUS
<1> PICK c : c = a \o b
  OBVIOUS
<1>1. /\ DOMAIN c = 1..(l + m) /\ DOMAIN a = 1..l /\ DOMAIN b = 1..m
      /\ \A i \in 1..l : c[i] = a[i]
      /\ \A i \in 1..m : c[l + i] = b[i]
      /\ \A i \in 1..(l + m) : i \in 1..l \/ \E j \in 1..m : i = l + j
  BY ConcatIs
<1>4. \A i \in 1..l : \A n \in 1..Len(a[i].ids) : a[i].role = "assistant" =>
         i + n \in 1..l /\ a[i + n].role = "tool" /\ a[i + n].ids = <<a[i].ids[n]>>
  <2>1. DOMAIN a = 1..l /\ PairedIn(a)
    BY <1>1
  <2> QED
    BY ONLY <2>1 DEF PairedIn
<1>5. \A i \in 1..m : \A n \in 1..Len(b[i].ids) : b[i].role = "assistant" =>
         i + n \in 1..m /\ b[i + n].role = "tool" /\ b[i + n].ids = <<b[i].ids[n]>>
  <2>1. DOMAIN b = 1..m /\ PairedIn(b)
    BY <1>1
  <2> QED
    BY ONLY <2>1 DEF PairedIn
<1>2. ASSUME NEW i \in 1..(l + m), NEW n \in 1..Len(c[i].ids), c[i].role = "assistant"
      PROVE  /\ i + n \in 1..(l + m)
             /\ c[i + n].role = "tool" /\ c[i + n].ids = <<c[i].ids[n]>>
  <2>1. CASE i \in 1..l
    <3>1. c[i] = a[i]
      BY <1>1, <2>1
    <3>2. i + n \in 1..l /\ a[i + n].role = "tool" /\ a[i + n].ids = <<a[i].ids[n]>>
      BY <1>2, <1>4, <2>1, <3>1
    <3>3. c[i + n] = a[i + n] /\ i + n \in 1..(l + m)
      BY <1>1, <3>2
    <3> QED
      BY <3>1, <3>2, <3>3
  <2>2. CASE \E j \in 1..m : i = l + j
    <3> PICK j \in 1..m : i = l + j
      BY <2>2
    <3>1. c[i] = b[j]
      BY <1>1
    <3>2. j + n \in 1..m /\ b[j + n].role = "tool" /\ b[j + n].ids = <<b[j].ids[n]>>
      BY <1>2, <1>5, <3>1
    <3>3. n \in Nat
      <4>1. Len(b[j].ids) \in Nat
        BY <1>1, MessageOf
      <4> QED
        BY <3>1, <4>1
    <3>4. i + n = l + (j + n) /\ i + n \in 1..(l + m)
      BY <3>2, <3>3
    <3>5. c[i + n] = b[j + n]
      BY <1>1, <3>2, <3>4
    <3> QED
      BY <3>1, <3>2, <3>4, <3>5
  <2> QED
    BY <1>1, <2>1, <2>2
<1>3. ASSUME NEW k \in 1..(l + m), c[k].role = "tool"
      PROVE  \E i \in 1..(k - 1) : Asks(c, i, k - i)
  <2>1. CASE k \in 1..l
    <3> PICK i \in 1..(k - 1) : Asks(a, i, k - i)
      BY <1>1, <1>3, <2>1 DEF PairedIn
    <3>1. i \in 1..l
      BY <2>1
    <3>2. Asks(c, i, k - i)
      BY <1>1, <3>1 DEF Asks
    <3> QED
      BY <3>2
  <2>2. CASE \E j \in 1..m : k = l + j
    <3> PICK j \in 1..m : k = l + j
      BY <2>2
    <3> PICK i \in 1..(j - 1) : Asks(b, i, j - i)
      BY <1>1, <1>3 DEF PairedIn
    <3>1. i \in 1..m /\ l + i \in 1..(k - 1) /\ k - (l + i) = j - i
      OBVIOUS
    <3>2. Asks(c, l + i, k - (l + i))
      BY <1>1, <3>1 DEF Asks
    <3> QED
      BY <3>1, <3>2
  <2> QED
    BY <1>1, <2>1, <2>2
<1> QED
  <2>1. \A i \in 1..(l + m) : \A n \in 1..Len(c[i].ids) :
           c[i].role = "assistant" =>
               /\ i + n \in 1..(l + m)
               /\ c[i + n].role = "tool" /\ c[i + n].ids = <<c[i].ids[n]>>
    BY <1>2
  <2>2. \A k \in 1..(l + m) : c[k].role = "tool" =>
           \E i \in 1..(k - 1) : Asks(c, i, k - i)
    BY <1>3
  <2>3. DOMAIN c = 1..(l + m)
    BY <1>1
  <2>4. PairedIn(c)
    BY ONLY <2>1, <2>2, <2>3 DEF PairedIn
  <2> QED
    BY <2>4

LEMMA Together ==
  ASSUME NEW a, NEW b, NEW V, NEW W, Part(a, V), Part(b, W),
         \A x \in V, y \in W : Distinct(x, y)
  PROVE  Part(a \o b, V \cup W)
<1>1. a \in Seq(MessageRecords) /\ b \in Seq(MessageRecords)
  BY DEF Part
<1> PICK l \in Nat, m \in Nat : l = Len(a) /\ m = Len(b)
  BY <1>1
<1> PICK c : c = a \o b
  OBVIOUS
<1>2. /\ DOMAIN c = 1..(l + m) /\ DOMAIN a = 1..l /\ DOMAIN b = 1..m
      /\ \A i \in 1..l : c[i] = a[i]
      /\ \A i \in 1..m : c[l + i] = b[i]
      /\ \A i \in 1..(l + m) : i \in 1..l \/ \E j \in 1..m : i = l + j
      /\ c \in Seq(MessageRecords)
  BY <1>1, ConcatIs
<1>3. PairedIn(c)
  BY <1>1, PairedTogether DEF Part
<1>4. ASSUME NEW i \in 1..l, a[i].role = "assistant" PROVE a[i].ids \in V
  BY <1>2, <1>4 DEF Part
<1>5. ASSUME NEW i \in 1..m, b[i].role = "assistant" PROVE b[i].ids \in W
  BY <1>2, <1>5 DEF Part
<1>6. \A i \in DOMAIN c : c[i].role = "assistant" => c[i].ids \in V \cup W
  BY <1>2, <1>4, <1>5
<1>10. \A i, j \in 1..l : a[i].role = "assistant" /\ a[j].role = "assistant" /\ i < j
                             => Distinct(a[i].ids, a[j].ids)
  <2>1. DOMAIN a = 1..l /\ Apart(a)
    BY <1>2 DEF Part
  <2> QED
    BY ONLY <2>1 DEF Apart, Distinct
<1>11. \A i, j \in 1..m : b[i].role = "assistant" /\ b[j].role = "assistant" /\ i < j
                             => Distinct(b[i].ids, b[j].ids)
  <2>1. DOMAIN b = 1..m /\ Apart(b)
    BY <1>2 DEF Part
  <2> QED
    BY ONLY <2>1 DEF Apart, Distinct
<1>7. ASSUME NEW i \in 1..(l + m), NEW j \in 1..(l + m), i < j,
             c[i].role = "assistant", c[j].role = "assistant"
      PROVE  Distinct(c[i].ids, c[j].ids)
  <2>1. CASE i \in 1..l /\ j \in 1..l
    BY <1>2, <1>7, <1>10, <2>1
  <2>2. CASE i \in 1..l /\ j \notin 1..l
    <3> PICK k \in 1..m : j = l + k
      BY <1>2, <2>2
    <3> QED
      BY <1>2, <1>4, <1>5, <1>7, <2>2
  <2>3. CASE i \notin 1..l
    <3> PICK k \in 1..m : i = l + k
      BY <1>2, <2>3
    <3>1. j \notin 1..l
      BY <1>7, <2>3
    <3> PICK n \in 1..m : j = l + n
      BY <1>2, <3>1
    <3>2. k < n
      BY <1>7
    <3> QED
      BY <1>2, <1>7, <1>11, <3>2
  <2> QED
    BY <2>1, <2>2, <2>3
<1>8. Apart(c)
  <2>1. DOMAIN c = 1..(l + m)
    BY <1>2
  <2>2. \A i, j \in 1..(l + m) :
           c[i].role = "assistant" /\ c[j].role = "assistant" /\ i < j
              => Distinct(c[i].ids, c[j].ids)
    BY <1>7
  <2> QED
    BY ONLY <2>1, <2>2 DEF Apart, Distinct
<1>9. Part(c, V \cup W)
  BY <1>2, <1>3, <1>6, <1>8 DEF Part
<1> QED
  BY <1>9

LEMMA GoalsTogether ==
  ASSUME NEW a \in Seq(MessageRecords), NEW b \in Seq(MessageRecords), NEW g
  PROVE  /\ NoneIn(a, g) /\ NoneIn(b, g) => NoneIn(a \o b, g)
         /\ OnceIn(a, g) /\ NoneIn(b, g) => OnceIn(a \o b, g)
         /\ NoneIn(a, g) /\ OnceIn(b, g) => OnceIn(a \o b, g)
<1> PICK l \in Nat, m \in Nat : l = Len(a) /\ m = Len(b)
  OBVIOUS
<1> PICK c : c = a \o b
  OBVIOUS
<1>1. /\ DOMAIN c = 1..(l + m) /\ DOMAIN a = 1..l /\ DOMAIN b = 1..m
      /\ \A i \in 1..l : c[i] = a[i]
      /\ \A i \in 1..m : c[l + i] = b[i]
      /\ \A i \in 1..(l + m) : i \in 1..l \/ \E j \in 1..m : i = l + j
  BY ConcatIs
<1>5. /\ NoneIn(a, g) <=> \A i \in 1..l : ~IsGoal(a[i], g)
      /\ NoneIn(b, g) <=> \A i \in 1..m : ~IsGoal(b[i], g)
      /\ NoneIn(c, g) <=> \A i \in 1..(l + m) : ~IsGoal(c[i], g)
  <2>1. DOMAIN c = 1..(l + m) /\ DOMAIN a = 1..l /\ DOMAIN b = 1..m
    BY <1>1
  <2> QED
    BY ONLY <2>1 DEF NoneIn
<1>6. /\ OnceIn(a, g) <=>
             \E i \in 1..l :
                 IsGoal(a[i], g) /\ \A j \in 1..l : IsGoal(a[j], g) => j = i
      /\ OnceIn(b, g) <=>
             \E i \in 1..m :
                 IsGoal(b[i], g) /\ \A j \in 1..m : IsGoal(b[j], g) => j = i
      /\ OnceIn(c, g) <=>
             \E i \in 1..(l + m) :
                 /\ IsGoal(c[i], g)
                 /\ \A j \in 1..(l + m) : IsGoal(c[j], g) => j = i
  <2>1. DOMAIN c = 1..(l + m) /\ DOMAIN a = 1..l /\ DOMAIN b = 1..m
    BY <1>1
  <2> QED
    BY ONLY <2>1 DEF OnceIn
<1>2. ASSUME NoneIn(a, g), NoneIn(b, g) PROVE NoneIn(c, g)
  <2>1. \A i \in 1..(l + m) : ~IsGoal(c[i], g)
    BY <1>1, <1>2, <1>5
  <2> QED
    BY <1>5, <2>1
<1>3. ASSUME OnceIn(a, g), NoneIn(b, g) PROVE OnceIn(c, g)
  <2> PICK i \in 1..l : IsGoal(a[i], g) /\ \A j \in 1..l : IsGoal(a[j], g) => j = i
    BY <1>3, <1>6
  <2>1. i \in 1..(l + m) /\ IsGoal(c[i], g)
    BY <1>1
  <2>2. \A j \in 1..(l + m) : IsGoal(c[j], g) => j = i
    BY <1>1, <1>3, <1>5
  <2> QED
    BY <1>6, <2>1, <2>2
<1>4. ASSUME NoneIn(a, g), OnceIn(b, g) PROVE OnceIn(c, g)
  <2> PICK i \in 1..m : IsGoal(b[i], g) /\ \A j \in 1..m : IsGoal(b[j], g) => j = i
    BY <1>4, <1>6
  <2>1. l + i \in 1..(l + m) /\ IsGoal(c[l + i], g)
    BY <1>1
  <2>2. ASSUME NEW j \in 1..(l + m), IsGoal(c[j], g) PROVE j = l + i
    <3>1. j \notin 1..l
      BY <1>1, <1>4, <1>5, <2>2
    <3> PICK n \in 1..m : j = l + n
      BY <1>1, <3>1
    <3>2. IsGoal(b[n], g)
      BY <1>1, <2>2
    <3> QED
      BY <3>2
  <2> QED
    BY <1>6, <2>1, <2>2
<1> QED
  BY <1>2, <1>3, <1>4

LEMMA WellFormedIn ==
  ASSUME NEW r, r.calls \in Seq(CallRecords), NEW i \in DOMAIN WellFormedIds(r)
  PROVE  \E c \in DOMAIN r.calls : WellFormedIds(r)[i] = r.calls[c].id
<1> PICK c \in Seq(CallRecords) : c = r.calls
  OBVIOUS
<1> PICK n \in Nat : n = Len(c)
  OBVIOUS
<1>1. DOMAIN c = 1..n
  OBVIOUS
<1> PICK P : P = {k \in DOMAIN c : c[k].ok}
  OBVIOUS
<1>2. P \in SUBSET (1..n)
  OBVIOUS
<1> PICK v : v = Filtered(c, P)
  OBVIOUS
<1> PICK f : Selects(f, P, c, v)
  BY <1>2, FilteredIs
<1> PICK m \in Nat : m = Cardinality(P)
  BY DEF Selects, Lists
<1>3. f \in [1..m -> P] /\ v = [k \in 1..m |-> c[f[k]]]
  BY DEF Selects, Lists
<1>4. DOMAIN v = 1..m
  BY <1>3
<1> PICK ids : ids = WellFormedIds(r)
  OBVIOUS
<1>5. ids = [k \in 1..m |-> v[k].id]
  BY <1>4 DEF WellFormedIds
<1>6. i \in 1..m /\ ids[i] = v[i].id
  BY <1>5
<1>7. f[i] \in DOMAIN c /\ v[i] = c[f[i]]
  BY <1>1, <1>2, <1>3, <1>6
<1>8. ids[i] = c[f[i]].id
  BY <1>6, <1>7
<1> QED
  BY <1>7, <1>8

\* One message that is neither a call nor an answer.
LEMMA OneMessage ==
  ASSUME NEW m \in MessageRecords, m.role \notin {"assistant", "tool"}
  PROVE  Part(<<m>>, {}) /\ \A g : ~IsGoal(m, g) => NoneIn(<<m>>, g)
<1> PICK s : s = <<m>>
  OBVIOUS
<1>1. s \in Seq(MessageRecords) /\ DOMAIN s = 1..1 /\ s[1] = m
  OBVIOUS
<1>2. \A i \in 1..1 : s[i] = m
  BY <1>1
<1>3. PairedIn(s)
  BY <1>1, <1>2 DEF PairedIn
<1>4. Apart(s)
  BY <1>1, <1>2 DEF Apart
<1>5. Part(s, {})
  BY <1>1, <1>2, <1>3, <1>4 DEF Part
<1>6. \A g : ~IsGoal(m, g) => NoneIn(s, g)
  BY <1>1, <1>2 DEF NoneIn
<1> QED
  BY <1>5, <1>6

LEMMA NoMessage == Part(<<>>, {}) /\ \A g : NoneIn(<<>>, g)
<1> PICK s : s = <<>>
  OBVIOUS
<1>1. s \in Seq(MessageRecords) /\ DOMAIN s = {}
  BY EmptySeq
<1>2. PairedIn(s) /\ Apart(s)
  BY <1>1 DEF PairedIn, Apart
<1>3. Part(s, {})
  BY <1>1, <1>2 DEF Part
<1>4. \A g : NoneIn(s, g)
  BY <1>1 DEF NoneIn
<1> QED
  BY <1>3, <1>4

\* No goal of a run.
Plain(M) == \A i \in DOMAIN M : M[i].role # "goal"

LEMMA SaidAndAnswered ==
  ASSUME NEW ids \in Seq(CallIds), NEW text \in {"kept", "none"}, NEW a,
         a = <<Message("assistant", ids, text)>>
                 \o [i \in DOMAIN ids |-> Message("tool", <<ids[i]>>, "none")]
  PROVE  Part(a, {ids}) /\ Plain(a)
<1> PICK n \in Nat : n = Len(ids)
  OBVIOUS
<1>1. DOMAIN ids = 1..n /\ \A i \in 1..n : ids[i] \in CallIds /\ ids[i] \in Ids
  BY DEF Ids
<1> PICK m : m = Message("assistant", ids, text)
  OBVIOUS
<1>2. m.role = "assistant" /\ m.ids = ids /\ m \in MessageRecords
  <2>1. m = [role |-> "assistant", ids |-> ids, text |-> text]
    BY DEF Message
  <2>2. ids \in Seq(Ids)
    <3>1. ids = [i \in 1..n |-> ids[i]]
      OBVIOUS
    <3>2. ids \in [1..n -> Ids]
      BY <1>1, <3>1
    <3> QED
      BY <3>2, FunctionSeq
  <2> QED
    BY <2>1, <2>2 DEF MessageRecords, Roles
<1> PICK t : t = [i \in 1..n |-> Message("tool", <<ids[i]>>, "none")]
  OBVIOUS
<1>3. ASSUME NEW i \in 1..n
      PROVE  t[i] \in MessageRecords /\ t[i].role = "tool" /\ t[i].ids = <<ids[i]>>
  <2> PICK one, x : one = <<ids[i]>> /\ x = t[i]
    OBVIOUS
  <2>1. x = [role |-> "tool", ids |-> one, text |-> "none"]
    BY DEF Message
  <2>2. one \in Seq(Ids)
    BY <1>1
  <2>3. "tool" \in Roles /\ "none" \in {"kept", "none"}
    BY DEF Roles
  <2>4. x \in MessageRecords /\ x.role = "tool" /\ x.ids = one
    BY ONLY <2>1, <2>2, <2>3 DEF MessageRecords
  <2> QED
    BY <2>4
<1>4. t \in Seq(MessageRecords) /\ Len(t) = n
  <2>1. t \in [1..n -> MessageRecords]
    BY <1>3
  <2> QED
    BY <2>1, FunctionSeq
<1> PICK s : s = <<m>>
  OBVIOUS
<1>5. s \in Seq(MessageRecords) /\ Len(s) = 1 /\ s[1] = m
  BY <1>2
<1>6. a = s \o t
  BY <1>1
<1>7. /\ a \in Seq(MessageRecords) /\ DOMAIN a = 1..(1 + n)
      /\ a[1] = m /\ \A i \in 1..n : a[1 + i] = t[i]
  <2>1. /\ s \o t \in Seq(MessageRecords) /\ DOMAIN (s \o t) = 1..(Len(s) + Len(t))
        /\ \A i \in 1..Len(s) : (s \o t)[i] = s[i]
        /\ \A i \in 1..Len(t) : (s \o t)[Len(s) + i] = t[i]
    <3>1. s \in Seq(MessageRecords) /\ t \in Seq(MessageRecords)
      BY <1>4, <1>5
    <3> QED
      BY ONLY <3>1, ConcatIs
  <2>2. 1 \in 1..1
    OBVIOUS
  <2> QED
    BY <1>4, <1>5, <1>6, <2>1, <2>2
<1>8. \A i \in 1..(1 + n) : i = 1 \/ \E j \in 1..n : i = 1 + j
  <2> SUFFICES ASSUME NEW i \in 1..(1 + n), i # 1 PROVE \E j \in 1..n : i = 1 + j
    OBVIOUS
  <2>1. i - 1 \in 1..n /\ i = 1 + (i - 1)
    OBVIOUS
  <2> QED
    BY <2>1
<1>9. \A i \in 1..(1 + n) : (a[i].role = "assistant" <=> i = 1)
                            /\ a[i].role \in {"assistant", "tool"}
  <2> SUFFICES ASSUME NEW i \in 1..(1 + n)
               PROVE  (a[i].role = "assistant" <=> i = 1)
                      /\ a[i].role \in {"assistant", "tool"}
    OBVIOUS
  <2>1. CASE i = 1
    BY <1>2, <1>7, <2>1
  <2>2. CASE \E j \in 1..n : i = 1 + j
    BY <1>3, <1>7, <2>2
  <2> QED
    BY <1>8, <2>1, <2>2
<1>10. PairedIn(a)
  <2>1. \A i \in 1..(1 + n) : \A k \in 1..Len(a[i].ids) : a[i].role = "assistant" =>
            /\ i + k \in 1..(1 + n)
            /\ a[i + k].role = "tool" /\ a[i + k].ids = <<a[i].ids[k]>>
    <3>1. ASSUME NEW k \in 1..n
          PROVE  1 + k \in 1..(1 + n) /\ a[1 + k].role = "tool"
                 /\ a[1 + k].ids = <<ids[k]>>
      BY <1>3, <1>7
    <3> SUFFICES ASSUME NEW i \in 1..(1 + n), NEW k \in 1..Len(a[i].ids),
                        a[i].role = "assistant"
                 PROVE  /\ i + k \in 1..(1 + n)
                        /\ a[i + k].role = "tool" /\ a[i + k].ids = <<a[i].ids[k]>>
      OBVIOUS
    <3>2. i = 1
      BY <1>9
    <3>3. a[i].ids = ids
      BY <1>2, <1>7, <3>2
    <3>4. k \in 1..n
      BY <3>3
    <3> QED
      BY <3>1, <3>2, <3>3, <3>4
  <2>2. \A k \in 1..(1 + n) : a[k].role = "tool" => \E i \in 1..(k - 1) : Asks(a, i, k - i)
    <3> SUFFICES ASSUME NEW k \in 1..(1 + n), a[k].role = "tool"
                 PROVE  \E i \in 1..(k - 1) : Asks(a, i, k - i)
      OBVIOUS
    <3>1. k # 1
      BY <1>9
    <3>2. 1 \in 1..(k - 1) /\ n >= k - 1
      BY <3>1
    <3>3. Asks(a, 1, k - 1)
      BY <1>2, <1>7, <3>2 DEF Asks
    <3> QED
      BY <3>2, <3>3
  <2>3. DOMAIN a = 1..(1 + n)
    BY <1>7
  <2> QED
    BY ONLY <2>1, <2>2, <2>3 DEF PairedIn
<1>11. Apart(a)
  <2>1. DOMAIN a = 1..(1 + n)
    BY <1>7
  <2>2. \A i, j \in 1..(1 + n) : ~(a[i].role = "assistant" /\ a[j].role = "assistant" /\ i < j)
    BY <1>9
  <2> QED
    BY ONLY <2>1, <2>2 DEF Apart
<1>12. \A i \in DOMAIN a : a[i].role = "assistant" => a[i].ids \in {ids}
  BY <1>2, <1>7, <1>9
<1>13. Part(a, {ids})
  BY <1>7, <1>10, <1>11, <1>12 DEF Part
<1>14. Plain(a)
  BY <1>7, <1>9 DEF Plain
<1> QED
  BY <1>13, <1>14

LEMMA PlainTogether ==
  ASSUME NEW a \in Seq(MessageRecords), NEW b \in Seq(MessageRecords),
         Plain(a), Plain(b)
  PROVE  Plain(a \o b)
<1> PICK c, l, m : c = a \o b /\ l = Len(a) /\ m = Len(b)
  OBVIOUS
<1>1. /\ DOMAIN c = 1..(l + m) /\ DOMAIN a = 1..l /\ DOMAIN b = 1..m
      /\ \A i \in 1..l : c[i] = a[i]
      /\ \A i \in 1..m : c[l + i] = b[i]
      /\ \A i \in 1..(l + m) : i \in 1..l \/ \E j \in 1..m : i = l + j
  BY ConcatIs
<1>2. \A i \in 1..l : a[i].role # "goal"
  BY <1>1 DEF Plain
<1>3. \A i \in 1..m : b[i].role # "goal"
  BY <1>1 DEF Plain
<1>4. \A i \in 1..(l + m) : c[i].role # "goal"
  BY <1>1, <1>2, <1>3
<1> QED
  BY <1>1, <1>4 DEF Plain

\* A remark or nothing.
LEMMA Aside ==
  ASSUME NEW role \in {"system", "user"}, NEW a,
         a \in {<<>>, <<Message(role, <<>>, "none")>>}
  PROVE  Part(a, {}) /\ Plain(a)
<1> PICK none : none = <<>>
  OBVIOUS
<1> PICK m : m = Message(role, none, "none")
  OBVIOUS
<1>1. m \in MessageRecords /\ m.role = role
  <2>1. none \in Seq(Ids)
    BY EmptySeq
  <2>2. m = [role |-> role, ids |-> none, text |-> "none"]
    BY DEF Message
  <2>3. role \in Roles /\ "none" \in {"kept", "none"}
    BY DEF Roles
  <2> QED
    BY ONLY <2>1, <2>2, <2>3 DEF MessageRecords
<1> PICK s : s = <<m>>
  OBVIOUS
<1>2. Part(s, {}) /\ DOMAIN s = 1..1 /\ s[1] = m
  BY <1>1, OneMessage
<1>3. Plain(s)
  <2>1. \A i \in 1..1 : s[i] = m
    BY <1>2
  <2> QED
    BY <1>1, <1>2, <2>1 DEF Plain
<1>4. Part(none, {}) /\ DOMAIN none = {}
  BY NoMessage
<1>5. Plain(none)
  BY <1>4 DEF Plain
<1> QED
  BY <1>2, <1>3, <1>4, <1>5

LEMMA RoundMessagesAre ==
  ASSUME NEW r, r.calls \in Seq(CallRecords), r.text \in {"kept", "none"}
  PROVE  Part(RoundMessages(r), {WellFormedIds(r)}) /\ Plain(RoundMessages(r))
<1> PICK ids \in Seq(CallIds) : ids = WellFormedIds(r)
  BY WellFormedType
<1> PICK none : none = <<>>
  OBVIOUS
<1> PICK said : said = IF ids # none \/ r.text # "none"
                       THEN <<Message("assistant", ids, r.text)>> ELSE none
  OBVIOUS
<1> PICK answers : answers = [i \in DOMAIN ids |-> Message("tool", <<ids[i]>>, "none")]
  OBVIOUS
<1> PICK remark : remark = IF Len(ids) < Len(r.calls)
                           THEN <<Message("system", none, "none")>> ELSE none
  OBVIOUS
<1> PICK decision : decision = IF r.kind = "plan"
                               THEN <<Message("user", none, "none")>> ELSE none
  OBVIOUS
<1>1. RoundMessages(r) = said \o answers \o remark \o decision
  BY DEF RoundMessages
<1>2. Part(remark, {}) /\ Plain(remark)
  <2>1. remark \in {none, <<Message("system", none, "none")>>}
    OBVIOUS
  <2>2. "system" \in {"system", "user"}
    OBVIOUS
  <2> QED
    BY <2>1, <2>2, Aside
<1>3. Part(decision, {}) /\ Plain(decision)
  <2>1. decision \in {none, <<Message("user", none, "none")>>}
    OBVIOUS
  <2>2. "user" \in {"system", "user"}
    OBVIOUS
  <2> QED
    BY <2>1, <2>2, Aside
<1>4. Part(said \o answers, {ids}) /\ Plain(said \o answers)
  <2>1. CASE ids # none \/ r.text # "none"
    <3>1. said \o answers = <<Message("assistant", ids, r.text)>>
              \o [i \in DOMAIN ids |-> Message("tool", <<ids[i]>>, "none")]
      BY <2>1
    <3> QED
      BY <3>1, SaidAndAnswered
  <2>2. CASE ids = none /\ r.text = "none"
    <3>1. said = none
      BY <2>2
    <3>2. answers = none
      <4>1. DOMAIN ids = {}
        BY <2>2
      <4>2. answers = [i \in {} |-> Message("tool", <<ids[i]>>, "none")]
        BY <4>1
      <4> QED
        BY <4>2
    <3>3. said \o answers = none
      BY <3>1, <3>2
    <3>4. Part(none, {}) /\ DOMAIN none = {}
      BY NoMessage
    <3>5. Part(none, {ids}) /\ Plain(none)
      BY <3>4 DEF Part, Plain
    <3> QED
      BY <3>3, <3>5
  <2> QED
    BY <2>1, <2>2
<1> PICK a : a = said \o answers
  OBVIOUS
<1> PICK b : b = a \o remark
  OBVIOUS
<1> PICK c : c = b \o decision
  OBVIOUS
<1>5. Part(b, {ids}) /\ Plain(b)
  <2>1. Part(a, {ids}) /\ Plain(a)
    BY <1>4
  <2>2. \A x \in {ids}, y \in {} : Distinct(x, y)
    OBVIOUS
  <2>3. Part(b, {ids} \cup {})
    BY <1>2, <2>1, <2>2, Together
  <2>4. a \in Seq(MessageRecords) /\ remark \in Seq(MessageRecords)
    BY <1>2, <2>1 DEF Part
  <2> QED
    BY <1>2, <2>1, <2>3, <2>4, PlainTogether
<1>6. Part(c, {ids}) /\ Plain(c)
  <2>1. \A x \in {ids}, y \in {} : Distinct(x, y)
    OBVIOUS
  <2>2. Part(c, {ids} \cup {})
    BY <1>3, <1>5, <2>1, Together
  <2>3. b \in Seq(MessageRecords) /\ decision \in Seq(MessageRecords)
    BY <1>3, <1>5 DEF Part
  <2> QED
    BY <1>3, <1>5, <2>2, <2>3, PlainTogether
<1> QED
  BY <1>1, <1>6

\* Different rounds have different calls; a request numbers them.
NumbersHold ==
    /\ \A i \in DOMAIN rounds : \A c \in DOMAIN rounds[i].calls :
          /\ rounds[i].calls[c].id[1] <= requests
          /\ pc \in {"model", "tools"} => rounds[i].calls[c].id[1] < requests
    /\ \A i, j \in DOMAIN rounds :
          \A c \in DOMAIN rounds[i].calls, d \in DOMAIN rounds[j].calls :
              rounds[i].calls[c].id = rounds[j].calls[d].id => i = j
    /\ pc = "tools" => \A c \in DOMAIN open.calls : open.calls[c].id[1] = requests

\* A turn that is kept has the calls of one round of the run, and no other has.
TurnsHold ==
    /\ \A t \in DOMAIN turns :
          /\ turns[t].ids # <<>>
          /\ \/ \E i \in DOMAIN rounds : turns[t].ids = WellFormedIds(rounds[i])
             \/ pc = "tools" /\ turns[t].ids = WellFormedIds(open)
    /\ \A t, u \in DOMAIN turns : t # u => Distinct(turns[t].ids, turns[u].ids)

LEMMA GoalIs ==
  ASSUME NEW n \in Nat, NEW g \in Nat
  PROVE  /\ Part(<<Goal(n)>>, {}) /\ <<Goal(n)>> \in Seq(MessageRecords)
         /\ n # g => NoneIn(<<Goal(n)>>, g)
         /\ n = g => OnceIn(<<Goal(n)>>, g)
<1> PICK m, one : m = Goal(n) /\ one = <<n>>
  OBVIOUS
<1>1. m = [role |-> "goal", ids |-> one, text |-> "none"]
  BY DEF Goal, Message
<1>2. one \in Seq(Ids) /\ "goal" \in Roles /\ "none" \in {"kept", "none"}
  BY DEF Ids, Roles
<1>3. m \in MessageRecords /\ m.role = "goal" /\ m.ids = one
  BY ONLY <1>1, <1>2 DEF MessageRecords
<1>4. Part(<<m>>, {}) /\ (~IsGoal(m, g) => NoneIn(<<m>>, g))
  BY <1>3, OneMessage
<1>5. IsGoal(m, g) <=> n = g
  BY <1>3 DEF IsGoal
<1> PICK s : s = <<m>>
  OBVIOUS
<1>6. s \in Seq(MessageRecords) /\ DOMAIN s = 1..1 /\ s[1] = m
  BY <1>3
<1>7. IsGoal(m, g) => OnceIn(s, g)
  BY <1>6 DEF OnceIn
<1> QED
  BY <1>4, <1>5, <1>6, <1>7

LEMMA PlainNone ==
  ASSUME NEW M, Plain(M), NEW g PROVE NoneIn(M, g)
BY DEF Plain, NoneIn, IsGoal

LEMMA DistinctRounds ==
  ASSUME ConversationInv, NumbersHold,
         NEW i \in DOMAIN rounds, NEW j \in DOMAIN rounds, i # j
  PROVE  Distinct(WellFormedIds(rounds[i]), WellFormedIds(rounds[j]))
<1> PICK h \in Seq(RoundRecords) : h = rounds
  BY DEF ConversationInv, ConversationType
<1>1. h[i] \in RoundRecords /\ h[j] \in RoundRecords
  OBVIOUS
<1> PICK r, s : r = rounds[i] /\ s = rounds[j]
  OBVIOUS
<1>2. r.calls \in Seq(CallRecords) /\ s.calls \in Seq(CallRecords)
  BY <1>1 DEF RoundRecords
<1>3. \A c \in DOMAIN r.calls, d \in DOMAIN s.calls : r.calls[c].id # s.calls[d].id
  BY DEF NumbersHold
<1>4. \A a \in DOMAIN WellFormedIds(r) :
         \E c \in DOMAIN r.calls : WellFormedIds(r)[a] = r.calls[c].id
  BY <1>2, WellFormedIn
<1>5. \A a \in DOMAIN WellFormedIds(s) :
         \E c \in DOMAIN s.calls : WellFormedIds(s)[a] = s.calls[c].id
  BY <1>2, WellFormedIn
<1>6. Distinct(WellFormedIds(r), WellFormedIds(s))
  BY ONLY <1>3, <1>4, <1>5 DEF Distinct
<1> QED
  BY <1>6

LEMMA MessagesAre ==
  ASSUME ConversationInv, NumbersHold, NEW shown, NEW covers,
         Mirrored(shown, rounds, covers)
  PROVE  /\ Part(Messages(shown), {WellFormedIds(shown[j]) : j \in 1..Len(shown)})
         /\ OnceIn(Messages(shown), run)
         /\ \A j \in 1..Len(shown) :
               \E i \in DOMAIN rounds : WellFormedIds(shown[j]) = WellFormedIds(rounds[i])
<1> PICK f : Mirrors(f, shown, rounds, covers)
  BY DEF Mirrored
<1> PICK N \in Nat : N = Len(shown)
  BY DEF Mirrors
<1> PICK h \in Seq(RoundRecords) : h = rounds
  BY DEF ConversationInv, ConversationType
<1>0. run \in Nat
  BY DEF ConversationInv, ConversationType
<1>1. /\ DOMAIN shown = 1..N /\ f \in [1..N -> DOMAIN h]
      /\ \A i, j \in 1..N : i < j => f[i] < f[j]
      /\ \A k \in 1..N : Copy(shown[k], h[f[k]])
  BY DEF Mirrors
<1>2. ASSUME NEW k \in 1..N
      PROVE  /\ f[k] \in DOMAIN h /\ shown[k].calls = h[f[k]].calls
             /\ shown[k].calls \in Seq(CallRecords)
             /\ shown[k].text \in {"kept", "none"} /\ shown[k].run \in Nat
  <2>1. f[k] \in DOMAIN h
    BY <1>1
  <2> PICK r \in RoundRecords : r = h[f[k]]
    BY <2>1
  <2>2. Copy(shown[k], r)
    BY <1>1
  <2>3. shown[k].calls = r.calls /\ shown[k].text = r.text /\ shown[k].run = r.run
    BY <2>2, CopyIs
  <2> QED
    BY <2>1, <2>3 DEF RoundRecords
<1> PICK wf : wf = [k \in 1..N |-> WellFormedIds(shown[k])]
  OBVIOUS
<1>3. \A k \in 1..N : wf[k] = WellFormedIds(h[f[k]]) /\ wf[k] = WellFormedIds(shown[k])
  <2> SUFFICES ASSUME NEW k \in 1..N PROVE wf[k] = WellFormedIds(h[f[k]])
    OBVIOUS
  <2>1. shown[k].calls = h[f[k]].calls
    BY <1>2
  <2>2. WellFormedIds(shown[k]) = WellFormedIds(h[f[k]])
    BY ONLY <2>1 DEF WellFormedIds
  <2> QED
    BY <2>2
<1>4. ASSUME NEW j \in 1..N, NEW k \in 1..N, j < k PROVE Distinct(wf[j], wf[k])
  <2> PICK i, l \in DOMAIN h : i = f[j] /\ l = f[k]
    BY <1>2
  <2>1. i < l /\ i \in Int /\ l \in Int
    BY <1>1, <1>4
  <2>2. i # l
    BY <2>1
  <2>3. Distinct(WellFormedIds(h[i]), WellFormedIds(h[l]))
    BY <2>2, DistinctRounds
  <2> QED
    BY <1>3, <2>3
<1> DEFINE Met(k) == \E j \in 1..k : shown[j].run = run
           Told(k) == \E j \in 1..(k - 1) : shown[j].run = shown[k].run
<1> PICK B : B = [k \in 1..N |-> (IF Told(k) THEN <<>> ELSE <<Goal(shown[k].run)>>)
                                 \o RoundMessages(shown[k])]
  OBVIOUS
<1>5. ASSUME NEW k \in 1..N
      PROVE  /\ Part(B[k], {wf[k]}) /\ B[k] \in Seq(MessageRecords)
             /\ ~Told(k) /\ shown[k].run = run => OnceIn(B[k], run)
             /\ Told(k) \/ shown[k].run # run => NoneIn(B[k], run)
  <2> PICK told \in BOOLEAN : told = Told(k)
    OBVIOUS
  <2> PICK goal : goal = IF told THEN <<>> ELSE <<Goal(shown[k].run)>>
    OBVIOUS
  <2> PICK said : said = RoundMessages(shown[k])
    OBVIOUS
  <2> PICK of : of = shown[k].run
    OBVIOUS
  <2>1. B[k] = goal \o said
    OBVIOUS
  <2>2. Part(said, {wf[k]}) /\ Plain(said)
    BY <1>2, <1>3, RoundMessagesAre
  <2>3. said \in Seq(MessageRecords) /\ NoneIn(said, run)
    BY <2>2, PlainNone DEF Part
  <2>4. of \in Nat
    BY <1>2
  <2>5. /\ Part(goal, {}) /\ goal \in Seq(MessageRecords)
        /\ (told \/ of # run) => NoneIn(goal, run)
        /\ (~told /\ of = run) => OnceIn(goal, run)
    <3>1. CASE told
      <4>1. goal = <<>>
        BY <3>1
      <4> QED
        BY <3>1, <4>1, NoMessage DEF Part
    <3>2. CASE ~told
      <4>1. goal = <<Goal(of)>>
        BY <3>2
      <4>2. /\ Part(<<Goal(of)>>, {}) /\ <<Goal(of)>> \in Seq(MessageRecords)
            /\ of # run => NoneIn(<<Goal(of)>>, run)
            /\ of = run => OnceIn(<<Goal(of)>>, run)
        BY ONLY <1>0, <2>4, GoalIs
      <4> QED
        BY <3>2, <4>1, <4>2
    <3> QED
      BY <3>1, <3>2
  <2> HIDE DEF Told
  <2>6. \A x \in {}, y \in {wf[k]} : Distinct(x, y)
    OBVIOUS
  <2>7. Part(goal \o said, {} \cup {wf[k]})
    BY ONLY <2>2, <2>5, <2>6, Together
  <2>8. {} \cup {wf[k]} = {wf[k]}
    OBVIOUS
  <2>9. Part(B[k], {wf[k]})
    BY <2>1, <2>7, <2>8
  <2>10. /\ NoneIn(goal, run) => NoneIn(goal \o said, run)
         /\ OnceIn(goal, run) => OnceIn(goal \o said, run)
    BY <2>3, <2>5, GoalsTogether
  <2>11. B[k] \in Seq(MessageRecords)
    BY <2>9 DEF Part
  <2> QED
    BY <2>1, <2>5, <2>9, <2>10, <2>11
<1>6. B \in Seq(Seq(MessageRecords)) /\ Len(B) = N
  <2>1. B \in [1..N -> Seq(MessageRecords)]
    BY <1>5
  <2> QED
    BY <2>1, FunctionSeq
<1> PICK F : Gathers(F, B, MessageRecords)
  BY <1>6, FlattenIs
<1>7. /\ F \in [0..N -> Seq(MessageRecords)] /\ F[0] = <<>>
      /\ \A k \in 1..N : F[k] = F[k - 1] \o B[k]
      /\ FlattenSeq(B) = F[N]
  BY <1>6 DEF Gathers
<1> PICK W : W = [k \in 0..N |-> {wf[j] : j \in 1..k}]
  OBVIOUS
<1>16. \A k \in 0..N : W[k] = {wf[j] : j \in 1..k}
  OBVIOUS
<1> DEFINE Good(k) == /\ Part(F[k], W[k])
                      /\ Met(k) => OnceIn(F[k], run)
                      /\ ~Met(k) => NoneIn(F[k], run)
<1> PICK G : G = {k \in 0..N : Good(k)}
  OBVIOUS
<1> HIDE DEF Good
<1>17. \A k \in 0..N : k \in G <=> Good(k)
  OBVIOUS
<1>8. 0 \in G
  <2>1. W[0] = {} /\ ~Met(0)
    OBVIOUS
  <2>2. Part(F[0], {}) /\ NoneIn(F[0], run)
    BY <1>7, NoMessage
  <2>3. Good(0)
    BY <2>1, <2>2 DEF Good
  <2> QED
    BY <1>17, <2>3
<1>9. ASSUME NEW k \in 1..N, k - 1 \in G PROVE k \in G
  <2>0. Good(k - 1)
    <3>1. k - 1 \in 0..N
      OBVIOUS
    <3> QED
      BY <1>9, <1>17, <3>1
  <2> PICK a, b : a = F[k - 1] /\ b = B[k]
    OBVIOUS
  <2>1. F[k] = a \o b /\ a \in Seq(MessageRecords) /\ b \in Seq(MessageRecords)
    <3>1. k - 1 \in 0..N
      OBVIOUS
    <3> QED
      BY <1>5, <1>7, <3>1
  <2>2. W[k] = W[k - 1] \cup {wf[k]}
    <3>1. \A j \in 1..k : j = k \/ j \in 1..(k - 1)
      OBVIOUS
    <3>2. k \in 1..k /\ \A j \in 1..(k - 1) : j \in 1..k
      OBVIOUS
    <3>3. W[k] = {wf[j] : j \in 1..k} /\ W[k - 1] = {wf[j] : j \in 1..(k - 1)}
      <4>1. k \in 0..N /\ k - 1 \in 0..N
        OBVIOUS
      <4> QED
        BY <1>16, <4>1
    <3> QED
      BY <3>1, <3>2, <3>3
  <2>3. \A x \in W[k - 1], y \in {wf[k]} : Distinct(x, y)
    <3> SUFFICES ASSUME NEW x \in W[k - 1] PROVE Distinct(x, wf[k])
      OBVIOUS
    <3>1. W[k - 1] = {wf[j] : j \in 1..(k - 1)}
      <4>1. k - 1 \in 0..N
        OBVIOUS
      <4> QED
        BY <1>16, <4>1
    <3> PICK j \in 1..(k - 1) : x = wf[j]
      BY <3>1
    <3>2. j \in 1..N /\ j < k
      OBVIOUS
    <3> QED
      BY <1>4, <3>2
  <2>4. Part(a, W[k - 1]) /\ Part(b, {wf[k]})
    BY <1>5, <2>0 DEF Good
  <2>5. Part(a \o b, W[k - 1] \cup {wf[k]})
    BY ONLY <2>3, <2>4, Together
  <2>6. Part(F[k], W[k])
    BY <2>1, <2>2, <2>5
  <2>7. Met(k) <=> Met(k - 1) \/ shown[k].run = run
    <3>1. \A j \in 1..k : j = k \/ j \in 1..(k - 1)
      OBVIOUS
    <3>2. k \in 1..k /\ \A j \in 1..(k - 1) : j \in 1..k
      OBVIOUS
    <3> QED
      BY <3>1, <3>2
  <2>8. shown[k].run = run => (Told(k) <=> Met(k - 1))
    OBVIOUS
  <2> PICK met, before, of, told \in BOOLEAN :
         /\ met = Met(k) /\ before = Met(k - 1) /\ of = (shown[k].run = run)
         /\ told = Told(k)
    OBVIOUS
  <2>9. /\ before => OnceIn(a, run)
        /\ ~before => NoneIn(a, run)
    BY <2>0 DEF Good
  <2>10. /\ ~told /\ of => OnceIn(b, run)
         /\ told \/ ~of => NoneIn(b, run)
    BY <1>5
  <2>11. (met <=> before \/ of) /\ (of => (told <=> before))
    BY <2>7, <2>8
  <2>12. /\ NoneIn(a, run) /\ NoneIn(b, run) => NoneIn(a \o b, run)
         /\ OnceIn(a, run) /\ NoneIn(b, run) => OnceIn(a \o b, run)
         /\ NoneIn(a, run) /\ OnceIn(b, run) => OnceIn(a \o b, run)
    BY <2>1, GoalsTogether
  <2>13. (met => OnceIn(a \o b, run)) /\ (~met => NoneIn(a \o b, run))
    BY ONLY <2>9, <2>10, <2>11, <2>12
  <2>14. Good(k)
    BY <2>1, <2>6, <2>13 DEF Good
  <2> QED
    BY <1>17, <2>14
<1>10. Good(N)
  <2>1. \A k \in 1..N : k - 1 \in G => k \in G
    BY <1>9
  <2>2. \A k \in 0..N : k \in G
    BY ONLY <1>8, <2>1, N \in Nat, Everywhere
  <2>3. N \in 0..N
    OBVIOUS
  <2> QED
    BY <1>17, <2>2, <2>3
<1> PICK rest : rest = IF Met(N) THEN <<>> ELSE <<Goal(run)>>
  OBVIOUS
<1>11. Messages(shown) = F[N] \o rest
  <2>1. Messages(shown) = FlattenSeq(B) \o rest
    BY <1>1 DEF Messages
  <2> QED
    BY <1>7, <2>1
<1>12. /\ Part(rest, {}) /\ rest \in Seq(MessageRecords)
       /\ Met(N) => NoneIn(rest, run)
       /\ ~Met(N) => OnceIn(rest, run)
  <2>1. CASE Met(N)
    <3>1. rest = <<>>
      BY <2>1
    <3> QED
      BY <2>1, <3>1, NoMessage DEF Part
  <2>2. CASE ~Met(N)
    <3>1. rest = <<Goal(run)>>
      BY <2>2
    <3> QED
      BY <1>0, <2>2, <3>1, GoalIs
  <2> QED
    BY <2>1, <2>2
<1>13. W[N] = {WellFormedIds(shown[j]) : j \in 1..N}
  <2>1. N \in 0..N
    OBVIOUS
  <2>2. W[N] = {wf[j] : j \in 1..N}
    BY <1>16, <2>1
  <2> QED
    BY <1>3, <2>2
<1>14. Part(F[N] \o rest, W[N])
  <2>1. Part(F[N], W[N]) /\ Part(rest, {})
    BY <1>10, <1>12 DEF Good
  <2>2. \A x \in W[N], y \in {} : Distinct(x, y)
    OBVIOUS
  <2>3. Part(F[N] \o rest, W[N] \cup {})
    BY ONLY <2>1, <2>2, Together
  <2>4. W[N] \cup {} = W[N]
    OBVIOUS
  <2> QED
    BY <2>3, <2>4
<1>15. OnceIn(F[N] \o rest, run)
  <2> PICK a, met : a = F[N] /\ met = Met(N)
    OBVIOUS
  <2>1. a \in Seq(MessageRecords)
    BY <1>10 DEF Good, Part
  <2>2. (OnceIn(a, run) /\ NoneIn(rest, run)) \/ (NoneIn(a, run) /\ OnceIn(rest, run))
    BY <1>10, <1>12 DEF Good
  <2> QED
    BY <1>12, <2>1, <2>2, GoalsTogether
<1> QED
  BY <1>2, <1>3, <1>11, <1>13, <1>14, <1>15

-----------------------------------------------------------------------------
(* The calls and the turns, step by step.                                  *)

LEMMA SameCalls ==
  ASSUME NEW r, NEW s, r.calls = s.calls PROVE WellFormedIds(r) = WellFormedIds(s)
BY DEF WellFormedIds

\* Neither a call nor a round is new; the turns are kept or dropped.
LEMMA QuietKeeps ==
  ASSUME NumbersHold, TurnsHold, UNCHANGED <<rounds, requests>>,
         \/ turns' = turns /\ pc # "tools"
         \/ turns' = <<>>,
         pc' \notin {"model", "tools"}
  PROVE  NumbersHold' /\ TurnsHold'
<1>1. NumbersHold'
  BY DEF NumbersHold
<1>2. CASE turns' = turns /\ pc # "tools"
  BY <1>1, <1>2 DEF TurnsHold
<1>3. CASE turns' = <<>>
  <2> PICK none : none = <<>>
    OBVIOUS
  <2>1. DOMAIN none = {} /\ turns' = none
    BY <1>3
  <2>2. TurnsHold'
    BY <2>1 DEF TurnsHold
  <2> QED
    BY <1>1, <2>2
<1> QED
  BY <1>2, <1>3

\* The identifiers of a round that is added are not those of another.
Fresh(r) ==
    /\ \A c \in DOMAIN r.calls : r.calls[c].id[1] <= requests'
    /\ \A i \in DOMAIN rounds : \A c \in DOMAIN rounds[i].calls, d \in DOMAIN r.calls :
          rounds[i].calls[c].id # r.calls[d].id

LEMMA AddedKeeps ==
  ASSUME ConversationInv, NumbersHold, NEW r \in RoundRecords,
         rounds' = Append(rounds, r), requests' = requests, Fresh(r),
         pc' \notin {"model", "tools"}
  PROVE  /\ NumbersHold'
         /\ \A i \in DOMAIN rounds : i \in DOMAIN rounds' /\ rounds'[i] = rounds[i]
         /\ \E i \in DOMAIN rounds' : rounds'[i] = r
<1> PICK h \in Seq(RoundRecords) : h = rounds
  BY DEF ConversationInv, ConversationType
<1> PICK n \in Nat : n = Len(h)
  OBVIOUS
<1> PICK g : g = rounds'
  OBVIOUS
<1>1. /\ DOMAIN h = 1..n /\ DOMAIN g = 1..(n + 1)
      /\ \A i \in 1..n : g[i] = h[i]
      /\ g[n + 1] = r
  BY AppendProperties
<1>2. \A i \in 1..(n + 1) : i = n + 1 \/ i \in 1..n
  OBVIOUS
<1>3. \A i \in 1..n : \A c \in DOMAIN h[i].calls : h[i].calls[c].id[1] <= requests
  BY <1>1 DEF NumbersHold
<1>4. \A i \in 1..(n + 1) : \A c \in DOMAIN g[i].calls : g[i].calls[c].id[1] <= requests'
  BY <1>1, <1>2, <1>3 DEF Fresh
<1>5. \A i, j \in 1..n : \A c \in DOMAIN h[i].calls, d \in DOMAIN h[j].calls :
         h[i].calls[c].id = h[j].calls[d].id => i = j
  BY <1>1 DEF NumbersHold
<1>6. \A i \in 1..n : \A c \in DOMAIN h[i].calls, d \in DOMAIN r.calls :
         h[i].calls[c].id # r.calls[d].id
  BY <1>1 DEF Fresh
<1>7. ASSUME NEW i \in 1..(n + 1), NEW j \in 1..(n + 1),
             NEW c \in DOMAIN g[i].calls, NEW d \in DOMAIN g[j].calls,
             g[i].calls[c].id = g[j].calls[d].id
      PROVE  i = j
  <2>1. CASE i \in 1..n /\ j \in 1..n
    BY <1>1, <1>5, <1>7, <2>1
  <2>2. CASE i = n + 1 /\ j \in 1..n
    BY <1>1, <1>6, <1>7, <2>2
  <2>3. CASE i \in 1..n /\ j = n + 1
    BY <1>1, <1>6, <1>7, <2>3
  <2>4. CASE i = n + 1 /\ j = n + 1
    BY <2>4
  <2> QED
    BY <1>2, <2>1, <2>2, <2>3, <2>4
<1>8. NumbersHold'
  BY <1>1, <1>4, <1>7 DEF NumbersHold
<1>9. \A i \in DOMAIN h : i \in DOMAIN g /\ g[i] = h[i]
  BY <1>1
<1>10. \E i \in DOMAIN g : g[i] = r
  BY <1>1
<1> QED
  BY <1>8, <1>9, <1>10

\* A round without calls ends the answer.
LEMMA AnswerKeeps ==
  ASSUME ConversationInv, NumbersHold, TurnsHold, pc = "model",
         NEW kind \in {"final", "proposal"}, NEW to \in Nat,
         rounds' = Append(rounds, Round(kind, to)),
         requests' = requests, turns' \in {turns, <<>>}, pc' \notin {"model", "tools"}
  PROVE  NumbersHold' /\ TurnsHold'
<1> PICK r \in RoundRecords : r = Round(kind, to) /\ r.calls = open.calls
  BY RoundIs
<1>1. r.calls = <<>>
  BY DEF ConversationInv, RoundOpen
<1>2. DOMAIN r.calls = {}
  BY <1>1
<1>3. Fresh(r)
  BY <1>2 DEF Fresh
<1>4. /\ NumbersHold'
      /\ \A i \in DOMAIN rounds : i \in DOMAIN rounds' /\ rounds'[i] = rounds[i]
  BY <1>3, AddedKeeps
<1>5. CASE turns' = turns
  <2>1. \A t \in DOMAIN turns : turns[t].ids # <<>>
           /\ \E i \in DOMAIN rounds : turns[t].ids = WellFormedIds(rounds[i])
    BY DEF TurnsHold
  <2>2. \A t \in DOMAIN turns :
           \E i \in DOMAIN rounds' : turns[t].ids = WellFormedIds(rounds'[i])
    BY <1>4, <2>1
  <2>3. TurnsHold'
    BY <1>5, <2>1, <2>2 DEF TurnsHold
  <2> QED
    BY <1>4, <2>3
<1>6. CASE turns' = <<>>
  <2> PICK none : none = <<>>
    OBVIOUS
  <2>1. DOMAIN none = {} /\ turns' = none
    BY <1>6
  <2>2. TurnsHold'
    BY <2>1 DEF TurnsHold
  <2> QED
    BY <1>4, <2>2
<1> QED
  BY <1>5, <1>6

LEMMA DecisionKeeps ==
  ASSUME ConversationInv, NumbersHold, TurnsHold, pc = "plan", turns' = <<>>,
         rounds' = [rounds EXCEPT ![Len(rounds)].kind = "plan"],
         requests' = requests, pc' \notin {"model", "tools"}
  PROVE  NumbersHold' /\ TurnsHold'
<1> PICK h \in Seq(RoundRecords) : h = rounds
  BY DEF ConversationInv, ConversationType
<1> PICK n \in Nat : n = Len(h)
  OBVIOUS
<1> PICK g : g = [h EXCEPT ![n].kind = "plan"]
  OBVIOUS
<1>1. DOMAIN h = 1..n /\ DOMAIN g = 1..n
      /\ \A i \in 1..n : g[i] = IF i = n THEN [h[i] EXCEPT !.kind = "plan"] ELSE h[i]
  OBVIOUS
<1>2. ASSUME NEW i \in 1..n PROVE g[i].calls = h[i].calls
  <2> PICK x \in RoundRecords : x = h[i]
    BY <1>1
  <2>1. g[i] = IF i = n THEN [x EXCEPT !.kind = "plan"] ELSE x
    BY <1>1
  <2> QED
    BY <2>1 DEF RoundRecords
<1>3. NumbersHold'
  <2>1. \A i \in 1..n : \A c \in DOMAIN h[i].calls : h[i].calls[c].id[1] <= requests
    BY <1>1 DEF NumbersHold
  <2>2. \A i, j \in 1..n : \A c \in DOMAIN h[i].calls, d \in DOMAIN h[j].calls :
           h[i].calls[c].id = h[j].calls[d].id => i = j
    BY <1>1 DEF NumbersHold
  <2>3. DOMAIN rounds' = 1..n /\ \A i \in 1..n : rounds'[i].calls = h[i].calls
    BY <1>1, <1>2
  <2> QED
    BY <2>1, <2>2, <2>3 DEF NumbersHold
<1>4. TurnsHold'
  <2> PICK none : none = <<>>
    OBVIOUS
  <2>1. DOMAIN none = {} /\ turns' = none
    OBVIOUS
  <2> QED
    BY <2>1 DEF TurnsHold
<1> QED
  BY <1>3, <1>4

LEMMA RequestNumbers ==
  ASSUME ConversationInv, NumbersHold, TurnsHold, Request
  PROVE  NumbersHold' /\ TurnsHold'
<1>1. /\ pc = "request" /\ pc' = "model" /\ requests' = requests + 1
      /\ UNCHANGED <<rounds, turns>>
  BY DEF Request
<1>2. requests \in Nat
  BY DEF ConversationInv, ConversationType
<1>3. \A i \in DOMAIN rounds : \A c \in DOMAIN rounds[i].calls :
         /\ rounds[i].calls[c].id[1] < requests + 1
         /\ rounds[i].calls[c].id[1] <= requests + 1
  <2> SUFFICES ASSUME NEW i \in DOMAIN rounds, NEW c \in DOMAIN rounds[i].calls
               PROVE  /\ rounds[i].calls[c].id[1] < requests + 1
                      /\ rounds[i].calls[c].id[1] <= requests + 1
    OBVIOUS
  <2>1. rounds[i] \in RoundRecords
    BY DEF ConversationInv, ConversationType
  <2> PICK calls \in Seq(CallRecords) : calls = rounds[i].calls
    BY <2>1 DEF RoundRecords
  <2>2. calls[c] \in CallRecords
    OBVIOUS
  <2>3. calls[c].id[1] \in Nat
    BY <2>2 DEF CallRecords, CallIds
  <2>4. calls[c].id[1] <= requests
    BY DEF NumbersHold
  <2> QED
    BY <1>2, <2>3, <2>4
<1>4. \A i, j \in DOMAIN rounds :
         \A c \in DOMAIN rounds[i].calls, d \in DOMAIN rounds[j].calls :
            rounds[i].calls[c].id = rounds[j].calls[d].id => i = j
  BY DEF NumbersHold
<1>6. NumbersHold'
  BY <1>1, <1>3, <1>4 DEF NumbersHold
<1>7. TurnsHold'
  BY <1>1 DEF TurnsHold
<1> QED
  BY <1>6, <1>7

\* What is kept of an answer: the turns before, and its well-formed calls.
LEMMA KeptIs ==
  ASSUME ConversationInv, NEW calls \in Seq(CallRecords), NEW text \in {"kept", "bad"},
         NEW T, T = Suppressed(Kept(calls, text), text),
         NEW ids, ids = WellFormedIds([calls |-> calls])
  PROVE  /\ \A t \in DOMAIN turns : t \in DOMAIN T /\ T[t].ids = turns[t].ids
         /\ \A t \in DOMAIN T : t \in DOMAIN turns \/ (T[t].ids = ids /\ ids # <<>>)
         /\ \A t, u \in DOMAIN T : t \notin DOMAIN turns /\ u \notin DOMAIN turns => t = u
<1> PICK ts \in Seq(TurnRecords) : ts = turns
  BY DEF ConversationInv, ConversationType
<1> PICK n \in Nat : n = Len(ts)
  OBVIOUS
<1> PICK new : new = [ids |-> ids, text |-> text]
  OBVIOUS
<1> PICK kept : kept = Kept(calls, text)
  OBVIOUS
<1>1. /\ ids = <<>> => kept = ts
      /\ ids # <<>> => kept = Append(ts, new)
  BY DEF Kept
<1>2. DOMAIN ts = 1..n
  OBVIOUS
<1> PICK Loose : Loose = TurnRecords \cup {new}
  OBVIOUS
<1>3. ts \in Seq(Loose) /\ new \in Loose
  <2>1. \A i \in 1..n : ts[i] \in Loose
    BY <1>2
  <2>2. ts \in [1..n -> Loose]
    BY <1>2, <2>1
  <2> QED
    BY <2>2, FunctionSeq
<1>4. /\ \A t \in 1..n : t \in DOMAIN kept /\ kept[t].ids = ts[t].ids
      /\ \A t \in DOMAIN kept : t \in 1..n \/ (t = n + 1 /\ kept[t].ids = ids /\ ids # <<>>)
      /\ \E k \in Nat : k = Len(kept) /\ DOMAIN kept = 1..k
      /\ \A t \in DOMAIN kept : [kept[t] EXCEPT !.text = "none"].ids = kept[t].ids
  <2>1. CASE ids = <<>>
    <3>1. kept = ts
      BY <1>1, <2>1
    <3>2. \A t \in 1..n : [ts[t] EXCEPT !.text = "none"].ids = ts[t].ids
      <4> SUFFICES ASSUME NEW t \in 1..n
                   PROVE  [ts[t] EXCEPT !.text = "none"].ids = ts[t].ids
        OBVIOUS
      <4> PICK x \in TurnRecords : x = ts[t]
        BY <1>2
      <4> QED
        BY DEF TurnRecords
    <3> QED
      BY <1>2, <3>1, <3>2
  <2>2. CASE ids # <<>>
    <3>1. kept = Append(ts, new)
      BY <1>1, <2>2
    <3>2. /\ Len(kept) = n + 1 /\ DOMAIN kept = 1..(n + 1)
          /\ \A i \in 1..n : kept[i] = ts[i]
          /\ kept[n + 1] = new
      BY ONLY <3>1, <1>3, n \in Nat, n = Len(ts), AppendProperties
    <3>3. \A t \in 1..(n + 1) : t = n + 1 \/ t \in 1..n
      OBVIOUS
    <3>4. \A t \in 1..n : [ts[t] EXCEPT !.text = "none"].ids = ts[t].ids
      <4> SUFFICES ASSUME NEW t \in 1..n
                   PROVE  [ts[t] EXCEPT !.text = "none"].ids = ts[t].ids
        OBVIOUS
      <4> PICK x \in TurnRecords : x = ts[t]
        BY <1>2
      <4> QED
        BY DEF TurnRecords
    <3>5. new.ids = ids /\ [new EXCEPT !.text = "none"].ids = ids
      OBVIOUS
    <3> QED
      BY <2>2, <3>2, <3>3, <3>4, <3>5
  <2> QED
    BY <2>1, <2>2
<1>5. DOMAIN T = DOMAIN kept /\ \A t \in DOMAIN kept : T[t].ids = kept[t].ids
  <2>1. CASE text = "bad" /\ kept # <<>>
    <3> PICK k \in Nat : k = Len(kept) /\ DOMAIN kept = 1..k
      BY <1>4
    <3>1. T = [kept EXCEPT ![k].text = "none"]
      BY <2>1 DEF Suppressed
    <3>2. DOMAIN T = DOMAIN kept
      BY <3>1
    <3>3. \A t \in DOMAIN kept : T[t] = IF t = k THEN [kept[t] EXCEPT !.text = "none"]
                                                 ELSE kept[t]
      BY <3>1
    <3> QED
      BY <1>4, <3>2, <3>3
  <2>2. CASE ~(text = "bad" /\ kept # <<>>)
    BY <2>2 DEF Suppressed
  <2> QED
    BY <2>1, <2>2
<1>6. \A t \in DOMAIN T : t \in 1..n \/ (t = n + 1 /\ T[t].ids = ids /\ ids # <<>>)
  BY <1>4, <1>5
<1> QED
  BY <1>2, <1>4, <1>5, <1>6

LEMMA ToolTurnNumbers ==
  ASSUME ConversationInv, NumbersHold, TurnsHold, ToolTurn
  PROVE  NumbersHold' /\ TurnsHold'
<1> PICK batch \in Batches, text \in {"kept", "bad"} :
       /\ turns' = Suppressed(Kept(Calls(batch), text), text)
       /\ open' = [open EXCEPT !.calls = Calls(batch),
                               !.text = IF text = "bad" THEN "none" ELSE text]
  BY DEF ToolTurn
<1> PICK calls \in Seq(CallRecords) : calls = Calls(batch)
  BY CallsType
<1>1. pc = "model" /\ pc' = "tools" /\ UNCHANGED <<requests, rounds>>
  BY DEF ToolTurn
<1>2. open \in OpenRounds
  BY DEF ConversationInv, ConversationType
<1>3. open'.calls = calls
  BY <1>2 DEF OpenRounds
<1>4. \A c \in DOMAIN calls : calls[c].id[1] = requests
  BY DEF Calls
<1>5. NumbersHold'
  <2>1. \A i \in DOMAIN rounds : \A c \in DOMAIN rounds[i].calls :
           /\ rounds[i].calls[c].id[1] <= requests
           /\ rounds[i].calls[c].id[1] < requests
    BY <1>1 DEF NumbersHold
  <2>2. \A i, j \in DOMAIN rounds :
           \A c \in DOMAIN rounds[i].calls, d \in DOMAIN rounds[j].calls :
              rounds[i].calls[c].id = rounds[j].calls[d].id => i = j
    BY DEF NumbersHold
  <2> QED
    BY <1>1, <1>3, <1>4, <2>1, <2>2 DEF NumbersHold
<1> PICK ids : ids = WellFormedIds([calls |-> calls])
  OBVIOUS
<1> PICK T : T = turns'
  OBVIOUS
<1>6. /\ \A t \in DOMAIN turns : t \in DOMAIN T /\ T[t].ids = turns[t].ids
      /\ \A t \in DOMAIN T : t \in DOMAIN turns \/ (T[t].ids = ids /\ ids # <<>>)
      /\ \A t, u \in DOMAIN T : t \notin DOMAIN turns /\ u \notin DOMAIN turns => t = u
  <2>1. T = Suppressed(Kept(calls, text), text)
    OBVIOUS
  <2> QED
    BY <2>1, KeptIs
<1>7. ids = WellFormedIds(open')
  BY <1>3, SameCalls
<1>8. \A t \in DOMAIN turns : turns[t].ids # <<>>
         /\ \E i \in DOMAIN rounds : turns[t].ids = WellFormedIds(rounds[i])
  BY <1>1 DEF TurnsHold
<1>9. \A t, u \in DOMAIN turns : t # u => Distinct(turns[t].ids, turns[u].ids)
  BY DEF TurnsHold
<1>10. ASSUME NEW t \in DOMAIN turns
       PROVE  Distinct(turns[t].ids, ids) /\ Distinct(ids, turns[t].ids)
  <2> PICK i \in DOMAIN rounds : turns[t].ids = WellFormedIds(rounds[i])
    BY <1>8
  <2>1. rounds[i] \in RoundRecords
    BY DEF ConversationInv, ConversationType
  <2> PICK r : r = rounds[i]
    OBVIOUS
  <2>2. r.calls \in Seq(CallRecords)
    BY <2>1 DEF RoundRecords
  <2>3. \A a \in DOMAIN WellFormedIds(r) :
           \E c \in DOMAIN r.calls : WellFormedIds(r)[a] = r.calls[c].id
    BY <2>2, WellFormedIn
  <2> PICK s : s = [calls |-> calls]
    OBVIOUS
  <2>4. s.calls = calls
    OBVIOUS
  <2>5. \A a \in DOMAIN WellFormedIds(s) :
           \E c \in DOMAIN s.calls : WellFormedIds(s)[a] = s.calls[c].id
    BY <2>4, WellFormedIn
  <2>6. \A c \in DOMAIN r.calls : r.calls[c].id[1] # requests
    <3> SUFFICES ASSUME NEW c \in DOMAIN r.calls PROVE r.calls[c].id[1] # requests
      OBVIOUS
    <3> PICK cs \in Seq(CallRecords) : cs = r.calls
      BY <2>2
    <3>1. cs[c] \in CallRecords
      OBVIOUS
    <3>2. cs[c].id[1] \in Nat
      BY <3>1 DEF CallRecords, CallIds
    <3>3. cs[c].id[1] < requests
      BY <1>1 DEF NumbersHold
    <3>4. requests \in Nat
      BY DEF ConversationInv, ConversationType
    <3> QED
      BY <3>2, <3>3, <3>4
  <2>7. \A a \in DOMAIN turns[t].ids : turns[t].ids[a][1] # requests
    BY <2>3, <2>6
  <2>8. \A a \in DOMAIN ids : ids[a][1] = requests
    BY <1>4, <2>4, <2>5
  <2>9. \A a \in DOMAIN turns[t].ids, b \in DOMAIN ids : turns[t].ids[a] # ids[b]
    BY <2>7, <2>8
  <2> QED
    BY ONLY <2>9 DEF Distinct
<1>11. ASSUME NEW t \in DOMAIN T, NEW u \in DOMAIN T, t # u
       PROVE  Distinct(T[t].ids, T[u].ids)
  <2>1. CASE t \in DOMAIN turns /\ u \in DOMAIN turns
    BY <1>6, <1>9, <1>11, <2>1
  <2>2. CASE t \in DOMAIN turns /\ u \notin DOMAIN turns
    BY <1>6, <1>10, <2>2
  <2>3. CASE t \notin DOMAIN turns /\ u \in DOMAIN turns
    BY <1>6, <1>10, <2>3
  <2>4. CASE t \notin DOMAIN turns /\ u \notin DOMAIN turns
    BY <1>6, <1>11, <2>4
  <2> QED
    BY <2>1, <2>2, <2>3, <2>4
<1>12. ASSUME NEW t \in DOMAIN T
       PROVE  /\ T[t].ids # <<>>
              /\ \/ \E i \in DOMAIN rounds : T[t].ids = WellFormedIds(rounds[i])
                 \/ T[t].ids = WellFormedIds(open')
  BY <1>6, <1>7, <1>8
<1>13. TurnsHold'
  BY <1>1, <1>11, <1>12 DEF TurnsHold
<1> QED
  BY <1>5, <1>13

LEMMA ToolResultNumbers ==
  ASSUME ConversationInv, NumbersHold, TurnsHold, ToolResult
  PROVE  NumbersHold' /\ TurnsHold'
<1> PICK outputs, wide :
       \/ /\ wide /\ rounds' = Append(rounds,
                        [Round("tools", last + 1) EXCEPT !.outputs = outputs])
          /\ open' = NoRound /\ pc' = "build"
       \/ /\ open' = [open EXCEPT !.outputs = outputs]
          /\ UNCHANGED <<rounds, pc>>
  BY DEF ToolResult
<1>1. pc = "tools" /\ UNCHANGED <<requests, turns>>
  BY DEF ToolResult
<1>2. last \in Nat /\ open \in OpenRounds /\ requests \in Nat
  BY DEF ConversationInv, ConversationType
<1>3. \A t \in DOMAIN turns : turns[t].ids # <<>>
         /\ \/ \E i \in DOMAIN rounds : turns[t].ids = WellFormedIds(rounds[i])
            \/ turns[t].ids = WellFormedIds(open)
  BY DEF TurnsHold
<1>4. \A t, u \in DOMAIN turns : t # u => Distinct(turns[t].ids, turns[u].ids)
  BY DEF TurnsHold
<1>5. CASE /\ open' = [open EXCEPT !.outputs = outputs]
           /\ UNCHANGED <<rounds, pc>>
  <2>1. open'.calls = open.calls
    BY <1>2, <1>5 DEF OpenRounds
  <2>2. WellFormedIds(open') = WellFormedIds(open)
    BY <2>1, SameCalls
  <2>3. NumbersHold'
    BY <1>1, <1>5, <2>1 DEF NumbersHold
  <2>4. TurnsHold'
    BY <1>1, <1>3, <1>4, <1>5, <2>2 DEF TurnsHold
  <2> QED
    BY <2>3, <2>4
<1>6. CASE /\ rounds' = Append(rounds,
                     [Round("tools", last + 1) EXCEPT !.outputs = outputs])
           /\ open' = NoRound /\ pc' = "build"
  <2> PICK r : r = [Round("tools", last + 1) EXCEPT !.outputs = outputs]
    OBVIOUS
  <2>1. r.calls = open.calls
    BY DEF Round
  <2>2. rounds' \in Seq(RoundRecords)
    BY ToolResultKeeps DEF ConversationInv, ConversationType
  <2>3. rounds \in Seq(RoundRecords)
    BY DEF ConversationInv, ConversationType
  <2>4. r \in RoundRecords
    <3>1. rounds' = Append(rounds, r)
      BY <1>6
    <3>2. Len(rounds) + 1 \in DOMAIN rounds' /\ rounds'[Len(rounds) + 1] = r
      BY <2>3, <3>1
    <3> QED
      BY <2>2, <3>2
  <2>5. Fresh(r)
    <3>1. \A c \in DOMAIN r.calls : r.calls[c].id[1] = requests
      BY <1>1, <2>1 DEF NumbersHold
    <3>2. \A c \in DOMAIN r.calls : r.calls[c].id[1] <= requests'
      BY <1>1, <1>2, <3>1
    <3>3. ASSUME NEW i \in DOMAIN rounds, NEW c \in DOMAIN rounds[i].calls,
                 NEW d \in DOMAIN r.calls
          PROVE  rounds[i].calls[c].id # r.calls[d].id
      <4>1. rounds[i] \in RoundRecords
        BY <2>3
      <4> PICK cs \in Seq(CallRecords) : cs = rounds[i].calls
        BY <4>1 DEF RoundRecords
      <4>2. cs[c] \in CallRecords
        OBVIOUS
      <4>3. cs[c].id[1] \in Nat
        BY <4>2 DEF CallRecords, CallIds
      <4>4. cs[c].id[1] < requests
        BY <1>1 DEF NumbersHold
      <4>5. cs[c].id[1] # requests
        BY <1>2, <4>3, <4>4
      <4> QED
        BY <3>1, <4>5
    <3> QED
      BY <3>2, <3>3 DEF Fresh
  <2>6. /\ NumbersHold'
        /\ \A i \in DOMAIN rounds : i \in DOMAIN rounds' /\ rounds'[i] = rounds[i]
        /\ \E i \in DOMAIN rounds' : rounds'[i] = r
    <3>1. ConversationInv /\ NumbersHold /\ rounds' = Append(rounds, r)
          /\ requests' = requests /\ pc' \notin {"model", "tools"}
      BY <1>1, <1>6
    <3> QED
      BY ONLY <2>4, <2>5, <3>1, AddedKeeps
  <2>7. WellFormedIds(r) = WellFormedIds(open)
    BY <2>1, SameCalls
  <2>8. \A t \in DOMAIN turns :
           \E i \in DOMAIN rounds' : turns[t].ids = WellFormedIds(rounds'[i])
    BY <1>3, <2>6, <2>7
  <2>9. TurnsHold'
    BY <1>1, <1>3, <1>4, <2>8 DEF TurnsHold
  <2> QED
    BY <2>6, <2>9
<1> QED
  BY <1>5, <1>6

-----------------------------------------------------------------------------
(* What is sent.                                                           *)

WireHolds ==
    pc = "model" =>
        /\ wire.ok = TRUE /\ PairedIn(wire.sent) /\ OnceIn(wire.sent, run)
        /\ \A i \in DOMAIN wire.sent : wire.sent[i].text \in {"kept", "none"}

LEMMA KnownRounds ==
  ASSUME ConversationInv, NumbersHold, TurnsHold, pc # "tools", NEW i \in DOMAIN rounds
  PROVE  Known(WellFormedIds(rounds[i]))
<1> PICK ids : ids = WellFormedIds(rounds[i])
  OBVIOUS
<1> SUFFICES ASSUME TurnsOf(ids) # {}
             PROVE  \E t \in DOMAIN turns : TurnsOf(ids) = {t} /\ turns[t].ids = ids
  BY DEF Known
<1>1. ASSUME NEW t \in TurnsOf(ids) PROVE t \in DOMAIN turns /\ turns[t].ids = ids
  <2>1. t \in DOMAIN turns
    BY TurnsIn
  <2> PICK a \in DOMAIN ids, b \in DOMAIN turns[t].ids : ids[a] = turns[t].ids[b]
    BY TurnsIn
  <2> PICK j \in DOMAIN rounds : turns[t].ids = WellFormedIds(rounds[j])
    BY <2>1 DEF TurnsHold
  <2>2. ASSUME i # j PROVE FALSE
    <3>1. Distinct(WellFormedIds(rounds[i]), WellFormedIds(rounds[j]))
      BY <2>2, DistinctRounds
    <3> QED
      BY <3>1 DEF Distinct
  <2> QED
    BY <2>1, <2>2
<1> PICK t \in TurnsOf(ids) : TRUE
  OBVIOUS
<1>2. ASSUME NEW u \in TurnsOf(ids), u # t PROVE FALSE
  <2>1. t \in DOMAIN turns /\ u \in DOMAIN turns /\ turns[t].ids = turns[u].ids
    BY <1>1
  <2>2. Distinct(turns[t].ids, turns[u].ids)
    BY <1>2, <2>1 DEF TurnsHold
  <2> PICK b \in DOMAIN turns[t].ids : TRUE
    BY TurnsIn
  <2> QED
    BY <2>1, <2>2 DEF Distinct
<1>3. TurnsOf(ids) = {t}
  BY <1>2
<1> QED
  BY <1>1, <1>3

LEMMA RequestSends ==
  ASSUME ConversationInv, NumbersHold, TurnsHold, Request PROVE WireHolds'
<1> PICK shown, covers : shown = context.rounds /\ covers = context.covers
  OBVIOUS
<1>1. pc = "request" /\ wire' = Wire(Messages(shown)) /\ run' = run
  BY DEF Request
<1>2. Mirrored(shown, rounds, covers) /\ turns \in Seq(TurnRecords)
  BY <1>1 DEF ConversationInv, ContextHolds, ConversationType
<1> PICK M : M = Messages(shown)
  OBVIOUS
<1> PICK W : W = {WellFormedIds(shown[j]) : j \in 1..Len(shown)}
  OBVIOUS
<1>3. /\ Part(M, W) /\ OnceIn(M, run)
      /\ \A j \in 1..Len(shown) :
            \E i \in DOMAIN rounds : WellFormedIds(shown[j]) = WellFormedIds(rounds[i])
  <2>1. ConversationInv /\ NumbersHold /\ Mirrored(shown, rounds, covers)
    BY <1>2
  <2>2. /\ Part(Messages(shown), {WellFormedIds(shown[j]) : j \in 1..Len(shown)})
        /\ OnceIn(Messages(shown), run)
        /\ \A j \in 1..Len(shown) :
              \E i \in DOMAIN rounds :
                  WellFormedIds(shown[j]) = WellFormedIds(rounds[i])
    BY ONLY <2>1, MessagesAre
  <2> QED
    BY <2>2
<1>4. \A ids \in W : Known(ids)
  <2> SUFFICES ASSUME NEW j \in 1..Len(shown) PROVE Known(WellFormedIds(shown[j]))
    OBVIOUS
  <2> PICK i \in DOMAIN rounds : WellFormedIds(shown[j]) = WellFormedIds(rounds[i])
    BY <1>3
  <2>1. Known(WellFormedIds(rounds[i]))
    BY <1>1, KnownRounds
  <2> QED
    BY <2>1
<1>5. Sendable(M)
  BY <1>3, <1>4 DEF Part, Sendable
<1> PICK s : s = Wire(M).sent
  OBVIOUS
<1>6. /\ Wire(M).ok = TRUE /\ DOMAIN s = DOMAIN M /\ PairedIn(s)
      /\ \A i \in DOMAIN M : s[i] = Sent(M[i])
  BY <1>2, <1>5, SentPaired
<1>7. ASSUME NEW i \in DOMAIN M
      PROVE  /\ s[i].text \in {"kept", "none"}
             /\ IsGoal(s[i], run) <=> IsGoal(M[i], run)
  <2> PICK m \in MessageRecords : m = M[i]
    BY <1>5 DEF Sendable
  <2>1. m.role = "assistant" => Known(m.ids)
    BY <1>5 DEF Sendable
  <2>2. /\ Sent(m).role = m.role /\ Sent(m).text \in {"kept", "none"}
        /\ m.role \notin {"assistant", "tool"} => Sent(m) = m
    BY <1>2, <2>1, SentIs
  <2>3. s[i] = Sent(m)
    BY <1>6
  <2>4. IsGoal(Sent(m), run) <=> IsGoal(m, run)
    BY <2>2 DEF IsGoal
  <2> QED
    BY <2>2, <2>3, <2>4
<1>8. OnceIn(s, run)
  <2> PICK i \in DOMAIN M : IsGoal(M[i], run) /\ \A j \in DOMAIN M : IsGoal(M[j], run) => j = i
    BY <1>3 DEF OnceIn
  <2>1. IsGoal(s[i], run) /\ \A j \in DOMAIN M : IsGoal(s[j], run) => j = i
    BY <1>7
  <2> QED
    BY <1>6, <2>1 DEF OnceIn
<1> QED
  BY <1>1, <1>6, <1>7, <1>8 DEF WireHolds

-----------------------------------------------------------------------------
(* The theorems.                                                           *)

PromptInv == ConversationInv /\ NumbersHold /\ TurnsHold /\ WireHolds

LEMMA PromptStarts == Init => PromptInv
<1> SUFFICES ASSUME Init PROVE PromptInv
  OBVIOUS
<1>1. pc = "idle" /\ rounds = <<>> /\ turns = <<>>
  BY DEF Init
<1> PICK none : none = <<>>
  OBVIOUS
<1>2. DOMAIN none = {} /\ rounds = none /\ turns = none
  BY <1>1
<1>3. NumbersHold /\ TurnsHold /\ WireHolds
  BY <1>1, <1>2 DEF NumbersHold, TurnsHold, WireHolds
<1> QED
  BY <1>3, ConversationStarts DEF PromptInv

LEMMA EndRunNumbers ==
  ASSUME NumbersHold, TurnsHold, EndRun PROVE NumbersHold' /\ TurnsHold'
<1>1. UNCHANGED <<rounds, requests>> /\ turns' = <<>> /\ pc' = "idle"
  BY DEF EndRun
<1> QED
  BY <1>1, QuietKeeps

LEMMA NumbersKept ==
  ASSUME ConversationInv, NumbersHold, TurnsHold, Next PROVE NumbersHold' /\ TurnsHold'
<1>1. CASE StartRun
  <2>1. UNCHANGED <<rounds, requests>> /\ turns' = turns /\ pc # "tools" /\ pc' = "build"
    BY <1>1 DEF StartRun
  <2> QED
    BY <2>1, QuietKeeps
<1>2. CASE Build
  <2>1. UNCHANGED <<rounds, requests>> /\ turns' = turns /\ pc # "tools" /\ pc' = "estimate"
    BY <1>2 DEF Build
  <2> QED
    BY <2>1, QuietKeeps
<1>3. CASE Choose
  <2>1. UNCHANGED <<rounds, requests>> /\ turns' = turns /\ pc # "tools"
        /\ pc' \in {"summary", "request"}
    BY <1>3 DEF Choose
  <2> QED
    BY <2>1, QuietKeeps
<1>4. CASE BuildFails
  BY <1>4, EndRunNumbers DEF BuildFails
<1>5. CASE Summarize
  <2>1. EndRun \/ (UNCHANGED <<rounds, requests>> /\ turns' = turns /\ pc # "tools"
                   /\ pc' = "compact")
    BY <1>5 DEF Summarize
  <2> QED
    BY <2>1, QuietKeeps, EndRunNumbers
<1>6. CASE Compact
  <2>1. UNCHANGED <<rounds, requests>> /\ turns' = turns /\ pc # "tools"
        /\ pc' \in {"refused", "request"}
    BY <1>6 DEF Compact
  <2> QED
    BY <2>1, QuietKeeps
<1>7. CASE Request
  BY <1>7, RequestNumbers
<1>8. CASE ToolTurn
  BY <1>8, ToolTurnNumbers
<1>9. CASE ToolResult
  BY <1>9, ToolResultNumbers
<1>10. CASE StopRejected
  <2>1. UNCHANGED <<rounds, requests>> /\ turns' = <<>> /\ pc' = "build"
    BY <1>10 DEF StopRejected
  <2> QED
    BY <2>1, QuietKeeps
<1>11. CASE FinalAnswer
  <2>1. /\ pc = "model" /\ rounds' = Append(rounds, Round("final", last + 2))
        /\ requests' = requests /\ turns' = <<>> /\ pc' = "idle"
    BY <1>11 DEF FinalAnswer
  <2>2. last + 2 \in Nat
    BY DEF ConversationInv, ConversationType
  <2> QED
    BY <2>1, <2>2, AnswerKeeps
<1>12. CASE ProposePlan
  <2>1. /\ pc = "model" /\ rounds' = Append(rounds, Round("proposal", last + 2))
        /\ requests' = requests /\ turns' = turns /\ pc' = "plan"
    BY <1>12 DEF ProposePlan
  <2>2. last + 2 \in Nat
    BY DEF ConversationInv, ConversationType
  <2> QED
    BY <2>1, <2>2, AnswerKeeps
<1>13. CASE ApprovePlan
  <2>1. /\ pc = "plan" /\ rounds' = [rounds EXCEPT ![Len(rounds)].kind = "plan"]
        /\ requests' = requests /\ turns' = <<>> /\ pc' = "build"
    BY <1>13 DEF ApprovePlan
  <2> QED
    BY <2>1, DecisionKeeps
<1>14. CASE RejectPlan
  <2>1. /\ pc = "plan" /\ rounds' = [rounds EXCEPT ![Len(rounds)].kind = "plan"]
        /\ requests' = requests /\ turns' = <<>> /\ pc' = "idle"
    BY <1>14 DEF RejectPlan
  <2> QED
    BY <2>1, DecisionKeeps
<1>15. CASE Abort
  BY <1>15, EndRunNumbers DEF Abort
<1> QED
  BY <1>1, <1>2, <1>3, <1>4, <1>5, <1>6, <1>7, <1>8, <1>9, <1>10, <1>11, <1>12,
     <1>13, <1>14, <1>15 DEF Next

LEMMA OnlyRequests ==
  ASSUME ConversationInv, Next, pc' = "model" PROVE Request
BY DEF Next, StartRun, Build, Choose, BuildFails, Summarize, Compact, ToolTurn,
       ToolResult, StopRejected, FinalAnswer, ProposePlan, ApprovePlan, RejectPlan,
       Abort, EndRun

LEMMA PromptKept == PromptInv /\ [Next]_vars => PromptInv'
<1> SUFFICES ASSUME PromptInv, [Next]_vars PROVE PromptInv'
  OBVIOUS
<1>1. ConversationInv /\ NumbersHold /\ TurnsHold /\ WireHolds
  BY DEF PromptInv
<1>2. ConversationInv'
  BY <1>1, ConversationKept
<1>3. CASE UNCHANGED vars
  <2>1. NumbersHold'
    BY <1>1, <1>3 DEF NumbersHold, vars
  <2>2. TurnsHold'
    BY <1>1, <1>3 DEF TurnsHold, vars
  <2>3. WireHolds'
    BY <1>1, <1>3 DEF WireHolds, vars
  <2> QED
    BY <1>2, <2>1, <2>2, <2>3 DEF PromptInv
<1>4. CASE Next
  <2>1. NumbersHold' /\ TurnsHold'
    BY <1>1, <1>4, NumbersKept
  <2>2. CASE pc' = "model"
    <3>1. WireHolds'
      BY <1>1, <1>4, <2>2, OnlyRequests, RequestSends
    <3> QED
      BY <1>2, <2>1, <3>1 DEF PromptInv
  <2>3. CASE pc' # "model"
    <3>1. WireHolds'
      BY <2>3 DEF WireHolds
    <3> QED
      BY <1>2, <2>1, <3>1 DEF PromptInv
  <2> QED
    BY <2>2, <2>3
<1> QED
  BY <1>3, <1>4

LEMMA PromptInvariant == Spec => []PromptInv
BY PromptStarts, PromptKept, PTL DEF Spec

\* Every whole round is in the prompt or in what its summary was made of, the
\* goal of the run is in what is sent once, and the projector accepts every
\* compaction.
THEOREM NothingForgotten == Spec => []MemoryComplete
<1>1. PromptInv => MemoryComplete
  <2> SUFFICES ASSUME PromptInv PROVE MemoryComplete
    OBVIOUS
  <2>1. ConversationInv /\ WireHolds
    BY DEF PromptInv
  <2>2. accepted
    BY <2>1 DEF ConversationInv, CompactionsHold
  <2>3. ASSUME pc \in {"compact", "request", "model"}
        PROVE  /\ \A i \in DOMAIN rounds :
                     \/ rounds[i].from \in context.covers
                     \/ \E k \in DOMAIN context.rounds :
                           context.rounds[k].from = rounds[i].from
               /\ \A k \in DOMAIN context.rounds :
                     Len(context.rounds[k].calls) = Len(context.rounds[k].outputs)
    <3> PICK shown, covers : shown = context.rounds /\ covers = context.covers
      OBVIOUS
    <3>1. Mirrored(shown, rounds, covers)
      BY <2>1, <2>3 DEF ConversationInv, ContextHolds
    <3> PICK f : Mirrors(f, shown, rounds, covers)
      BY <3>1 DEF Mirrored
    <3> PICK N \in Nat : N = Len(shown)
      BY DEF Mirrors
    <3>2. /\ DOMAIN shown = 1..N /\ f \in [1..N -> DOMAIN rounds]
          /\ \A k \in 1..N : Copy(shown[k], rounds[f[k]])
          /\ \A i \in DOMAIN rounds :
                rounds[i].from \in covers \/ \E k \in 1..N : f[k] = i
      BY DEF Mirrors
    <3>3. \A i \in DOMAIN rounds : /\ rounds[i] \in RoundRecords
                                   /\ Len(rounds[i].calls) = Len(rounds[i].outputs)
      BY <2>1 DEF ConversationInv, ConversationType, RoundsWhole
    <3>4. ASSUME NEW k \in 1..N
          PROVE  /\ shown[k].from = rounds[f[k]].from
                 /\ Len(shown[k].calls) = Len(shown[k].outputs)
      <4>1. f[k] \in DOMAIN rounds
        BY <3>2
      <4> PICK r \in RoundRecords : r = rounds[f[k]] /\ Len(r.calls) = Len(r.outputs)
        BY <3>3, <4>1
      <4>2. Copy(shown[k], r)
        BY <3>2
      <4>3. shown[k].from = r.from /\ shown[k].calls = r.calls
            /\ Len(shown[k].outputs) = Len(r.outputs)
        BY <4>2, CopyIs
      <4> QED
        BY <4>3
    <3> QED
      BY <3>2, <3>4
  <2>4. ASSUME pc = "model"
        PROVE  Cardinality({i \in DOMAIN wire.sent : IsGoal(wire.sent[i], run)}) = 1
    <3> PICK i \in DOMAIN wire.sent :
           /\ IsGoal(wire.sent[i], run)
           /\ \A j \in DOMAIN wire.sent : IsGoal(wire.sent[j], run) => j = i
      BY <2>1, <2>4 DEF WireHolds, OnceIn
    <3>1. {j \in DOMAIN wire.sent : IsGoal(wire.sent[j], run)} = {i}
      OBVIOUS
    <3> QED
      BY <3>1, FS_Singleton
  <2> QED
    BY <2>2, <2>3, <2>4 DEF MemoryComplete
<1> QED
  BY <1>1, PromptInvariant, PTL

\* A text the language policy refused is not in anything that is sent.
THEOREM RefusedTextsDropped == Spec => []RefusedTextStaysOut
<1>1. PromptInv => RefusedTextStaysOut
  BY DEF PromptInv, WireHolds, RefusedTextStaysOut
<1> QED
  BY <1>1, PromptInvariant, PTL

\* Calls are followed by their answers in whatever is sent.
THEOREM CallsAnswered == Spec => []WirePaired
<1>1. PromptInv => WirePaired
  BY DEF PromptInv, WireHolds, PairedIn, Asks, WirePaired
<1> QED
  BY <1>1, PromptInvariant, PTL

-----------------------------------------------------------------------------
(* How outputs share their room (OutputProjection).                        *)

\* f goes from start to its place n in the given steps.
Chained(f, n, D, start, step) ==
    /\ f \in [0..n -> D] /\ f[0] = start
    /\ \A k \in 1..n : f[k] = step[k][f[k - 1]]

LEMMA Chain ==
  ASSUME NEW n \in Nat, NEW D, NEW start \in D, NEW step \in [1..n -> [D -> D]]
  PROVE  \E f : Chained(f, n, D, start, step)
<1> DEFINE Runs(f, m) ==
        f[0] = start /\ \A k \in 1..m : f[k] = step[k][f[k - 1]]
<1> PICK G : G = {m \in 0..n : \E f \in [0..n -> D] : Runs(f, m)}
  OBVIOUS
<1>1. 0 \in G
  <2> PICK f : f = [k \in 0..n |-> start]
    OBVIOUS
  <2>1. f \in [0..n -> D] /\ Runs(f, 0)
    OBVIOUS
  <2> QED
    BY <2>1
<1>2. ASSUME NEW m \in 1..n, m - 1 \in G PROVE m \in G
  <2> PICK f \in [0..n -> D] : Runs(f, m - 1)
    BY <1>2
  <2>1. m \in 0..n /\ m - 1 \in 0..n
    OBVIOUS
  <2> PICK x \in D : x = step[m][f[m - 1]]
    BY <2>1
  <2> PICK g : g = [f EXCEPT ![m] = x]
    OBVIOUS
  <2>2. g \in [0..n -> D] /\ g[m] = x /\ \A k \in 0..n : k # m => g[k] = f[k]
    BY <2>1
  <2>3. g[0] = start
    BY <2>2
  <2>4. ASSUME NEW k \in 1..m PROVE g[k] = step[k][g[k - 1]]
    <3>1. g[k - 1] = f[k - 1]
      BY <2>2
    <3>2. CASE k = m
      BY <2>2, <3>1, <3>2
    <3>3. CASE k # m
      <4>1. k \in 1..(m - 1) /\ g[k] = f[k]
        BY <2>2, <3>3
      <4> QED
        BY <3>1, <4>1
    <3> QED
      BY <3>2, <3>3
  <2>5. Runs(g, m)
    BY <2>3, <2>4
  <2> QED
    BY <2>1, <2>2, <2>5
<1>3. \A k \in 1..n : k - 1 \in G => k \in G
  BY <1>2
<1>4. \A k \in 0..n : k \in G
  BY ONLY <1>1, <1>3, n \in Nat, Everywhere
<1>5. n \in G
  BY <1>4
<1> QED
  BY <1>5 DEF Chained

\* f counts what the first lengths make together.
Sums(f, s) ==
    /\ f \in [0..Len(s) -> Nat] /\ f[0] = 0
    /\ \A k \in 1..Len(s) : f[k] = f[k - 1] + s[k]
    /\ Total(s) = f[Len(s)]

Added(x, y) == x + y

LEMMA TotalIs ==
  ASSUME NEW s \in Seq(Nat) PROVE \E f : Sums(f, s)
<1> PICK n \in Nat : n = Len(s)
  OBVIOUS
<1>1. \A k \in 1..n : s[k] \in Nat
  OBVIOUS
<1> PICK N : N = Nat
  OBVIOUS
<1> PICK zero \in N : zero = 0
  OBVIOUS
<1>2. \A x, y \in N : Added(x, y) \in N
  BY DEF Added
<1> PICK step : step = [k \in 1..n |-> [x \in N |-> Added(x, s[k])]]
  OBVIOUS
<1>3. /\ step \in [1..n -> [N -> N]]
      /\ \A k \in 1..n : \A x \in N : step[k][x] = Added(x, s[k])
  <2>1. \A k \in 1..n : s[k] \in N
    BY <1>1
  <2> QED
    BY ONLY <2>1, <1>2, step = [k \in 1..n |-> [x \in N |-> Added(x, s[k])]]
<1> PICK f : Chained(f, n, N, zero, step)
  BY ONLY <1>3, n \in Nat, zero \in N, Chain
<1>0. /\ f \in [0..n -> N] /\ f[0] = zero
      /\ \A k \in 1..n : f[k] = step[k][f[k - 1]]
  BY DEF Chained
<1>4. \A k \in 1..n : k - 1 \in 0..n /\ k \in 0..n /\ k # 0
  OBVIOUS
<1>5. \A k \in 1..n : f[k] = Added(f[k - 1], s[k])
  BY ONLY <1>0, <1>3, <1>4
<1>6. f = [k \in 0..n |-> IF k = 0 THEN zero ELSE Added(f[k - 1], s[k])]
  <2>1. \A k \in 0..n : k # 0 => k \in 1..n
    OBVIOUS
  <2>2. \A k \in 0..n : f[k] = IF k = 0 THEN zero ELSE Added(f[k - 1], s[k])
    BY <1>0, <1>5, <2>1
  <2> QED
    BY <1>0, <2>2
<1> PICK g : g = CHOOSE e : e = [k \in 0..n |-> IF k = 0 THEN zero
                                                ELSE Added(e[k - 1], s[k])]
  OBVIOUS
<1>7. g = [k \in 0..n |-> IF k = 0 THEN zero ELSE Added(g[k - 1], s[k])]
  <2>1. \E e : e = [k \in 0..n |-> IF k = 0 THEN zero ELSE Added(e[k - 1], s[k])]
    BY <1>6
  <2> QED
    BY <2>1
<1>8. Total(s) = g[n]
  BY DEF Total, Added
<1>9. g[0] = zero /\ \A k \in 1..n : g[k] = Added(g[k - 1], s[k])
  <2>1. \A k \in 0..n : g[k] = IF k = 0 THEN zero ELSE Added(g[k - 1], s[k])
    BY ONLY <1>7
  <2>2. 0 \in 0..n
    OBVIOUS
  <2> QED
    BY ONLY <1>4, <2>1, <2>2
<1> PICK G : G = {k \in 0..n : g[k] = f[k]}
  OBVIOUS
<1>10. 0 \in G
  BY <1>0, <1>9
<1>11. \A k \in 1..n : k - 1 \in G => k \in G
  <2>1. \A k \in 1..n : g[k - 1] = f[k - 1] => g[k] = f[k]
    BY ONLY <1>5, <1>9
  <2> QED
    BY ONLY <1>4, <2>1, G = {k \in 0..n : g[k] = f[k]}
<1>12. \A k \in 0..n : k \in G
  BY ONLY <1>10, <1>11, n \in Nat, Everywhere
<1>13. Total(s) = f[n]
  <2>1. n \in 0..n
    OBVIOUS
  <2> QED
    BY <1>8, <1>12, <2>1
<1>14. \A k \in 1..n : f[k] = f[k - 1] + s[k]
  BY ONLY <1>5 DEF Added
<1> QED
  BY <1>0, <1>13, <1>14 DEF Sums

LEMMA TotalAdd ==
  ASSUME NEW a \in Seq(Nat), NEW b \in Seq(Nat), NEW c \in Seq(Nat),
         Len(a) = Len(c), Len(b) = Len(c),
         \A i \in 1..Len(c) : c[i] = a[i] + b[i]
  PROVE  Total(c) = Total(a) + Total(b)
<1> PICK n \in Nat : n = Len(c)
  OBVIOUS
<1> PICK f, g, h : Sums(f, a) /\ Sums(g, b) /\ Sums(h, c)
  BY TotalIs
<1>1. /\ f \in [0..n -> Nat] /\ g \in [0..n -> Nat] /\ h \in [0..n -> Nat]
      /\ f[0] = 0 /\ g[0] = 0 /\ h[0] = 0
      /\ Total(a) = f[n] /\ Total(b) = g[n] /\ Total(c) = h[n]
  BY DEF Sums
<1>2. \A k \in 1..n : /\ f[k] = f[k - 1] + a[k]
                      /\ g[k] = g[k - 1] + b[k]
                      /\ h[k] = h[k - 1] + c[k]
  BY DEF Sums
<1>3. \A k \in 1..n : /\ k - 1 \in 0..n /\ k \in 0..n
                      /\ a[k] \in Nat /\ b[k] \in Nat /\ c[k] = a[k] + b[k]
  OBVIOUS
<1> PICK G : G = {k \in 0..n : h[k] = f[k] + g[k]}
  OBVIOUS
<1>4. 0 \in G
  BY <1>1
<1>5. ASSUME NEW k \in 1..n, k - 1 \in G PROVE k \in G
  <2>1. /\ f[k - 1] \in Nat /\ g[k - 1] \in Nat
        /\ h[k - 1] = f[k - 1] + g[k - 1]
    BY <1>1, <1>3, <1>5
  <2>2. h[k] = f[k] + g[k]
    <3>1. a[k] \in Nat /\ b[k] \in Nat /\ c[k] = a[k] + b[k]
      BY <1>3
    <3>2. /\ f[k] = f[k - 1] + a[k] /\ g[k] = g[k - 1] + b[k]
          /\ h[k] = h[k - 1] + c[k]
      BY <1>2
    <3> PICK p \in Nat, q \in Nat, x \in Nat, y \in Nat :
            p = f[k - 1] /\ q = g[k - 1] /\ x = a[k] /\ y = b[k]
      BY <2>1, <3>1
    <3>3. f[k] = p + x /\ g[k] = q + y /\ h[k] = (p + q) + (x + y)
      BY <2>1, <3>1, <3>2
    <3> QED
      BY ONLY <3>3, p \in Nat, q \in Nat, x \in Nat, y \in Nat
  <2> QED
    BY <1>3, <2>2
<1>6. \A k \in 1..n : k - 1 \in G => k \in G
  BY <1>5
<1>7. \A k \in 0..n : k \in G
  BY ONLY <1>4, <1>6, n \in Nat, Everywhere
<1>8. h[n] = f[n] + g[n]
  BY <1>7
<1> QED
  BY <1>1, <1>8

LEMMA TotalBounds ==
  ASSUME NEW s \in Seq(Nat)
  PROVE  /\ Total(s) \in Nat /\ \A i \in 1..Len(s) : s[i] <= Total(s)
         /\ (\A i \in 1..Len(s) : s[i] = 0) => Total(s) = 0
<1> PICK n \in Nat : n = Len(s)
  OBVIOUS
<1> PICK f : Sums(f, s)
  BY TotalIs
<1>1. f \in [0..n -> Nat] /\ f[0] = 0 /\ Total(s) = f[n]
  BY DEF Sums
<1>2. \A k \in 1..n : f[k] = f[k - 1] + s[k]
  BY DEF Sums
<1>3. \A k \in 1..n : k - 1 \in 0..n /\ k \in 0..n /\ s[k] \in Nat
  OBVIOUS
<1>4. Total(s) \in Nat
  BY <1>1
<1>5. ASSUME NEW i \in 1..n PROVE s[i] <= f[n]
  <2> PICK G : G = {k \in 0..n : k >= i => s[i] <= f[k]}
    OBVIOUS
  <2>1. 0 \in G
    OBVIOUS
  <2>2. ASSUME NEW k \in 1..n, k - 1 \in G PROVE k \in G
    <3>1. f[k - 1] \in Nat /\ f[k] = f[k - 1] + s[k] /\ s[k] \in Nat
      BY <1>1, <1>2, <1>3
    <3>2. k > i => s[i] <= f[k - 1]
      BY <2>2
    <3>3. k >= i => s[i] <= f[k]
      <4>1. CASE k = i
        BY ONLY <3>1, <4>1
      <4>2. CASE k > i
        BY ONLY <1>3, <3>1, <3>2, <4>2, i \in 1..n
      <4> QED
        BY <4>1, <4>2
    <3> QED
      BY <1>3, <3>3
  <2>3. \A k \in 1..n : k - 1 \in G => k \in G
    BY <2>2
  <2>4. \A k \in 0..n : k \in G
    BY ONLY <2>1, <2>3, n \in Nat, Everywhere
  <2>5. n \in 0..n /\ n >= i
    OBVIOUS
  <2> QED
    BY <2>4, <2>5
<1>6. ASSUME \A i \in 1..n : s[i] = 0 PROVE f[n] = 0
  <2> PICK G : G = {k \in 0..n : f[k] = 0}
    OBVIOUS
  <2>1. 0 \in G
    BY <1>1
  <2>2. ASSUME NEW k \in 1..n, k - 1 \in G PROVE k \in G
    <3>1. f[k - 1] = 0 /\ f[k] = f[k - 1] + 0
      BY <1>2, <1>6, <2>2
    <3> QED
      BY <1>3, <3>1
  <2>3. \A k \in 1..n : k - 1 \in G => k \in G
    BY <2>2
  <2>4. \A k \in 0..n : k \in G
    BY ONLY <2>1, <2>3, n \in Nat, Everywhere
  <2> QED
    BY <2>4
<1> QED
  BY <1>1, <1>4, <1>5, <1>6

\* Lengths below others make less together, unless they are the same.
LEMMA TotalLess ==
  ASSUME NEW a \in Seq(Nat), NEW c \in Seq(Nat), Len(a) = Len(c),
         \A i \in 1..Len(c) : a[i] <= c[i]
  PROVE  /\ Total(a) <= Total(c)
         /\ Total(a) = Total(c) => a = c
<1> PICK n \in Nat : n = Len(c)
  OBVIOUS
<1>0. \A i \in 1..n : a[i] \in Nat /\ c[i] \in Nat /\ a[i] <= c[i]
  OBVIOUS
<1> PICK b : b = [i \in 1..n |-> c[i] - a[i]]
  OBVIOUS
<1>1. b \in Seq(Nat) /\ Len(b) = n
  <2>1. b \in [1..n -> Nat]
    BY <1>0
  <2> QED
    BY <2>1, FunctionSeq
<1>2. \A i \in 1..n : b[i] \in Nat /\ c[i] = a[i] + b[i]
  BY <1>0
<1>3. Total(c) = Total(a) + Total(b)
  BY <1>1, <1>2, TotalAdd
<1>4. /\ Total(a) \in Nat /\ Total(b) \in Nat
      /\ \A i \in 1..n : b[i] <= Total(b)
  BY <1>1, TotalBounds
<1>5. ASSUME Total(a) = Total(c) PROVE a = c
  <2>1. Total(b) = 0
    BY <1>3, <1>4, <1>5
  <2>2. \A i \in 1..n : a[i] = c[i]
    <3> SUFFICES ASSUME NEW i \in 1..n PROVE a[i] = c[i]
      OBVIOUS
    <3>1. b[i] \in Nat /\ b[i] <= 0 /\ c[i] = a[i] + b[i] /\ a[i] \in Nat
      BY <1>0, <1>2, <1>4, <2>1
    <3> QED
      BY ONLY <3>1
  <2> QED
    BY <2>2, SeqEqual
<1> QED
  BY <1>3, <1>4, <1>5

LEMMA TotalConcat ==
  ASSUME NEW a \in Seq(Nat), NEW b \in Seq(Nat)
  PROVE  Total(a \o b) = Total(a) + Total(b)
<1> PICK l \in Nat, m \in Nat : l = Len(a) /\ m = Len(b)
  OBVIOUS
<1> PICK c : c = a \o b
  OBVIOUS
<1>1. /\ c \in Seq(Nat) /\ Len(c) = l + m
      /\ \A i \in 1..l : c[i] = a[i] /\ a[i] \in Nat
      /\ \A i \in 1..m : c[l + i] = b[i] /\ b[i] \in Nat
  OBVIOUS
<1> PICK f, g, h : Sums(f, a) /\ Sums(g, b) /\ Sums(h, c)
  BY <1>1, TotalIs
<1>2. /\ f \in [0..l -> Nat] /\ g \in [0..m -> Nat] /\ h \in [0..(l + m) -> Nat]
      /\ f[0] = 0 /\ g[0] = 0 /\ h[0] = 0
      /\ Total(a) = f[l] /\ Total(b) = g[m] /\ Total(c) = h[l + m]
  BY <1>1 DEF Sums
<1>3. /\ \A k \in 1..l : f[k] = f[k - 1] + a[k]
      /\ \A k \in 1..m : g[k] = g[k - 1] + b[k]
      /\ \A k \in 1..(l + m) : h[k] = h[k - 1] + c[k]
  BY <1>1 DEF Sums
<1>6. f[l] \in Nat /\ \A k \in 0..m : g[k] \in Nat
  <2>1. l \in 0..l
    OBVIOUS
  <2> QED
    BY ONLY <1>2, <2>1
<1>4. h[l] = f[l]
  <2> PICK G : G = {k \in 0..l : h[k] = f[k]}
    OBVIOUS
  <2>1. 0 \in G
    BY <1>2
  <2>2. ASSUME NEW k \in 1..l, k - 1 \in G PROVE k \in G
    <3>1. h[k - 1] = f[k - 1]
      BY <2>2
    <3>2. h[k] = h[k - 1] + c[k]
      BY <1>3
    <3>3. f[k] = f[k - 1] + a[k] /\ c[k] = a[k]
      BY <1>1, <1>3
    <3> QED
      BY <3>1, <3>2, <3>3
  <2>3. \A k \in 1..l : k - 1 \in G => k \in G
    BY <2>2
  <2>4. \A k \in 0..l : k \in G
    BY ONLY <2>1, <2>3, l \in Nat, Everywhere
  <2> QED
    BY <2>4
<1>5. h[l + m] = f[l] + g[m]
  <2> PICK G : G = {k \in 0..m : h[l + k] = f[l] + g[k]}
    OBVIOUS
  <2>1. 0 \in G
    <3>1. h[l + 0] = f[l] + g[0]
      <4> PICK p \in Nat : p = f[l]
        BY <1>6
      <4> QED
        BY <1>2, <1>4
    <3> QED
      BY <3>1
  <2>2. ASSUME NEW k \in 1..m, k - 1 \in G PROVE k \in G
    <3> PICK i \in 1..(l + m) : i = l + k
      OBVIOUS
    <3>1. i - 1 = l + (k - 1) /\ k - 1 \in 0..m /\ k \in 0..m
      OBVIOUS
    <3>2. h[i - 1] = f[l] + g[k - 1]
      BY <2>2, <3>1
    <3>3. h[i] = h[i - 1] + c[i] /\ g[k] = g[k - 1] + b[k]
      BY <1>3
    <3>4. c[i] = b[k]
      BY <1>1
    <3> PICK p \in Nat, q \in Nat, y \in Nat :
            p = f[l] /\ q = g[k - 1] /\ y = b[k]
      BY <1>1, <1>6, <3>1
    <3>6. g[k] = q + y /\ h[i] = (p + q) + y
      BY <3>2, <3>3, <3>4
    <3>5. h[i] = f[l] + g[k]
      BY <3>6
    <3> QED
      BY <3>1, <3>5
  <2>3. \A k \in 1..m : k - 1 \in G => k \in G
    BY <2>2
  <2>4. \A k \in 0..m : k \in G
    BY ONLY <2>1, <2>3, m \in Nat, Everywhere
  <2> QED
    BY <2>4
<1> QED
  BY <1>2, <1>5

\* One length is another.
LEMMA TotalChange ==
  ASSUME NEW a \in Seq(Nat), NEW b \in Seq(Nat), Len(b) = Len(a),
         NEW k \in 1..Len(a), \A i \in 1..Len(a) : i # k => b[i] = a[i]
  PROVE  Total(b) + a[k] = Total(a) + b[k]
<1> PICK n \in Nat : n = Len(a)
  OBVIOUS
<1>0. \A i \in 1..n : a[i] \in Nat /\ b[i] \in Nat /\ i - 1 \in 0..n /\ i \in 0..n
  OBVIOUS
<1> PICK f, g : Sums(f, a) /\ Sums(g, b)
  BY TotalIs
<1>1. /\ f \in [0..n -> Nat] /\ g \in [0..n -> Nat] /\ f[0] = 0 /\ g[0] = 0
      /\ Total(a) = f[n] /\ Total(b) = g[n]
  BY DEF Sums
<1>2. /\ \A i \in 1..n : f[i] = f[i - 1] + a[i]
      /\ \A i \in 1..n : g[i] = g[i - 1] + b[i]
  BY DEF Sums
<1> DEFINE Good(i) == /\ i < k => g[i] = f[i]
                      /\ i >= k => g[i] + a[k] = f[i] + b[k]
<1> PICK G : G = {i \in 0..n : Good(i)}
  OBVIOUS
<1>3. 0 \in G
  BY <1>1
<1>4. ASSUME NEW i \in 1..n, i - 1 \in G PROVE i \in G
  <2>1. Good(i - 1)
    BY <1>4
  <2>2. f[i - 1] \in Nat /\ g[i - 1] \in Nat /\ a[i] \in Nat /\ b[i] \in Nat
    BY <1>0, <1>1
  <2>3. a[k] \in Nat /\ b[k] \in Nat
    BY <1>0
  <2>4. f[i] = f[i - 1] + a[i] /\ g[i] = g[i - 1] + b[i]
    BY <1>2
  <2>5. CASE i < k
    <3>1. g[i - 1] = f[i - 1] /\ b[i] = a[i]
      BY <2>1, <2>5
    <3> QED
      BY <1>0, <2>2, <2>4, <2>5, <3>1
  <2>6. CASE i = k
    <3>1. g[i - 1] = f[i - 1]
      BY <2>1, <2>6
    <3> PICK p \in Nat, x \in Nat, y \in Nat :
            p = f[i - 1] /\ x = a[k] /\ y = b[k]
      BY <2>2, <2>3
    <3>3. f[i] = p + x /\ g[i] = p + y
      BY <2>4, <2>6, <3>1
    <3>4. (p + y) + x = (p + x) + y
      BY ONLY p \in Nat, x \in Nat, y \in Nat
    <3>2. g[i] + a[k] = f[i] + b[k]
      BY ONLY <3>3, <3>4, x = a[k], y = b[k]
    <3> QED
      BY <1>0, <2>6, <3>2
  <2>7. CASE i > k
    <3>1. g[i - 1] + a[k] = f[i - 1] + b[k] /\ b[i] = a[i]
      BY <2>1, <2>7
    <3> PICK p \in Nat, q \in Nat, x \in Nat, y \in Nat, z \in Nat :
            p = f[i - 1] /\ q = g[i - 1] /\ x = a[k] /\ y = b[k] /\ z = a[i]
      BY <2>2, <2>3
    <3>3. q + x = p + y /\ f[i] = p + z /\ g[i] = q + z
      BY <2>4, <3>1
    <3>4. (q + z) + x = (p + z) + y
      BY ONLY <3>3, p \in Nat, q \in Nat, x \in Nat, y \in Nat, z \in Nat
    <3>2. g[i] + a[k] = f[i] + b[k]
      BY <3>3, <3>4
    <3> QED
      BY <1>0, <2>7, <3>2
  <2> QED
    BY <2>5, <2>6, <2>7
<1>5. \A i \in 1..n : i - 1 \in G => i \in G
  BY <1>4
<1>6. \A i \in 0..n : i \in G
  BY ONLY <1>3, <1>5, n \in Nat, Everywhere
<1>7. Good(n)
  <2>1. n \in 0..n
    OBVIOUS
  <2> QED
    BY <1>6, <2>1
<1> QED
  BY <1>1, <1>7

-----------------------------------------------------------------------------
(* One pass over the outputs of a round.                                   *)

LEMMA Quotient ==
  ASSUME NEW a \in Nat, NEW n \in Nat \ {0}
  PROVE  /\ a \div n \in Nat /\ a % n \in 0..(n - 1)
         /\ n * (a \div n) + (a % n) = a
<1>1. a \div n \in Nat /\ a % n \in 0..(n - 1)
  OBVIOUS
<1>2. n * (a \div n) + (a % n) = a
  OBVIOUS
<1> QED
  BY <1>1, <1>2

\* How many of A there are up to each place.
Counts(C, n, A) ==
    /\ C \in [0..n -> Nat] /\ C[0] = 0 /\ C[n] = Cardinality(A)
    /\ \A k \in 1..n : /\ C[k] = Cardinality({j \in A : j <= k})
                       /\ k \in A => C[k] = C[k - 1] + 1
                       /\ k \notin A => C[k] = C[k - 1]

LEMMA CountIs ==
  ASSUME NEW n \in Nat, NEW A \in SUBSET (1..n) PROVE \E C : Counts(C, n, A)
<1> DEFINE Upto(k) == {j \in A : j <= k}
<1>6. \A j \in A : j \in 1..n
  OBVIOUS
<1>9. \A j \in A : j \in Int /\ ~(j <= 0) /\ j <= n
  BY <1>6
<1>7. Upto(0) = {} /\ Upto(n) = A
  BY ONLY <1>9
<1>8. ASSUME NEW k \in 1..n
      PROVE  /\ k \in A => Upto(k) = Upto(k - 1) \cup {k}
             /\ k \notin A => Upto(k) = Upto(k - 1)
             /\ k \notin Upto(k - 1)
  <2>1. \A j \in A : j <= k <=> j <= k - 1 \/ j = k
    BY <1>9
  <2>2. ~(k <= k - 1)
    OBVIOUS
  <2>3. \A j : /\ j \in Upto(k) <=> j \in A /\ j <= k
               /\ j \in Upto(k - 1) <=> j \in A /\ j <= k - 1
    OBVIOUS
  <2> HIDE DEF Upto
  <2>4. k \in A => Upto(k) = Upto(k - 1) \cup {k}
    <3> SUFFICES ASSUME k \in A PROVE \A j : j \in Upto(k) <=> j \in Upto(k - 1) \/ j = k
      OBVIOUS
    <3> QED
      BY <2>1, <2>3
  <2>5. k \notin A => Upto(k) = Upto(k - 1)
    <3> SUFFICES ASSUME k \notin A PROVE \A j : j \in Upto(k) <=> j \in Upto(k - 1)
      OBVIOUS
    <3> QED
      BY <2>1, <2>3
  <2> QED
    BY <2>2, <2>3, <2>4, <2>5
<1>1. ASSUME NEW k \in 0..n PROVE IsFiniteSet(Upto(k)) /\ Cardinality(Upto(k)) \in Nat
  <2>1. IsFiniteSet(1..n)
    BY FS_Interval
  <2>2. Upto(k) \in SUBSET (1..n)
    OBVIOUS
  <2>3. IsFiniteSet(Upto(k))
    BY <2>1, <2>2, FS_Subset
  <2> QED
    BY <2>3, FS_CardinalityType
<1> PICK C : C = [k \in 0..n |-> Cardinality(Upto(k))]
  OBVIOUS
<1>2. C \in [0..n -> Nat]
  BY <1>1
<1>3. C[0] = 0
  BY <1>7, FS_EmptySet
<1>4. C[n] = Cardinality(A)
  BY <1>7
<1>5. ASSUME NEW k \in 1..n
      PROVE  /\ C[k] = Cardinality(Upto(k))
             /\ k \in A => C[k] = C[k - 1] + 1
             /\ k \notin A => C[k] = C[k - 1]
  <2>1. k \in 0..n /\ k - 1 \in 0..n
    OBVIOUS
  <2>2. C[k] = Cardinality(Upto(k)) /\ C[k - 1] = Cardinality(Upto(k - 1))
    BY <2>1
  <2>3. ASSUME k \in A PROVE C[k] = C[k - 1] + 1
    <3>1. Upto(k) = Upto(k - 1) \cup {k} /\ k \notin Upto(k - 1)
      BY <1>8, <2>3
    <3>2. IsFiniteSet(Upto(k - 1))
      BY <1>1, <2>1
    <3> HIDE DEF Upto
    <3> QED
      BY <2>2, <3>1, <3>2, FS_AddElement
  <2>4. ASSUME k \notin A PROVE C[k] = C[k - 1]
    <3>1. Upto(k) = Upto(k - 1)
      BY <1>8, <2>4
    <3> QED
      BY <2>2, <3>1
  <2> QED
    BY <2>2, <2>3, <2>4
<1> QED
  BY <1>2, <1>3, <1>4, <1>5 DEF Counts

\* The shares of a pass make together what is left.
LEMMA SharesMeet ==
  ASSUME NEW n \in Nat, NEW s, NEW p, s.active \in SUBSET (1..n),
         s.active # {}, s.left \in Nat,
         p = [i \in 1..n |-> IF i \in s.active THEN Share(s, i) ELSE 0]
  PROVE  /\ p \in Seq(Nat) /\ Len(p) = n /\ Total(p) = s.left
         /\ \A i \in s.active : p[i] = Share(s, i)
<1> PICK A \in SUBSET (1..n), left \in Nat : A = s.active /\ left = s.left
  OBVIOUS
<1>1. IsFiniteSet(A) /\ Cardinality(A) \in Nat \ {0}
  <2>1. IsFiniteSet(1..n)
    BY FS_Interval
  <2>2. IsFiniteSet(A)
    BY <2>1, FS_Subset
  <2> QED
    BY <2>2, FS_CardinalityType, FS_EmptySet
<1> PICK N \in Nat \ {0} : N = Cardinality(A)
  BY <1>1
<1> PICK d, r : d = left \div N /\ r = left % N
  OBVIOUS
<1>0. d \in Nat /\ r \in 0..(N - 1) /\ N * d + r = left
  BY ONLY left \in Nat, N \in Nat \ {0}, d = left \div N, r = left % N, Quotient
<1> PICK C : Counts(C, n, A)
  BY CountIs
<1>12. /\ C \in [0..n -> Nat] /\ C[0] = 0 /\ C[n] = N
       /\ \A k \in 1..n : /\ C[k] = Cardinality({j \in A : j <= k})
                          /\ k \in A => C[k] = C[k - 1] + 1
                          /\ k \notin A => C[k] = C[k - 1]
  BY DEF Counts
<1>2. ASSUME NEW i \in A
      PROVE  /\ Share(s, i) = d + IF C[i] <= r THEN 1 ELSE 0
             /\ Share(s, i) \in Nat
  <2>1. Share(s, i) = d + IF C[i] <= r THEN 1 ELSE 0
    <3>1. C[i] = Cardinality({j \in A : j <= i})
      BY <1>12
    <3> QED
      BY <3>1 DEF Share
  <2> QED
    BY ONLY <1>0, <2>1
<1>3. p \in [1..n -> Nat] /\ \A i \in 1..n : p[i] = IF i \in A THEN Share(s, i) ELSE 0
  <2>1. \A i \in 1..n : p[i] = IF i \in A THEN Share(s, i) ELSE 0
    OBVIOUS
  <2>2. \A i \in 1..n : p[i] \in Nat
    BY <1>2, <2>1
  <2> QED
    BY <2>1, <2>2
<1>4. p \in Seq(Nat) /\ Len(p) = n
  BY <1>3, FunctionSeq
<1> PICK f : Sums(f, p)
  BY <1>4, TotalIs
<1>5. /\ f \in [0..n -> Nat] /\ f[0] = 0 /\ Total(p) = f[n]
      /\ \A k \in 1..n : f[k] = f[k - 1] + p[k]
  BY <1>4 DEF Sums
<1> DEFINE Got(x) == x * d + (IF x <= r THEN x ELSE r)
<1> PICK G : G = {k \in 0..n : f[k] = Got(C[k])}
  OBVIOUS
<1>6. 0 \in G
  <2>1. Got(0) = 0
    BY ONLY <1>0
  <2> QED
    BY <1>5, <1>12, <2>1
<1>7. ASSUME NEW k \in 1..n, k - 1 \in G PROVE k \in G
  <2>1. k \in 0..n /\ k - 1 \in 0..n
    OBVIOUS
  <2> PICK x \in Nat : x = C[k - 1]
    BY ONLY <1>12, <2>1
  <2>2. f[k - 1] = Got(x) /\ f[k] = f[k - 1] + p[k]
    BY <1>5, <1>7
  <2>3. CASE k \in A
    <3>1. C[k] = x + 1
      BY <1>12, <2>3
    <3>2. p[k] = d + IF x + 1 <= r THEN 1 ELSE 0
      BY <1>2, <1>3, <2>3, <3>1
    <3>3. Got(x) + (d + IF x + 1 <= r THEN 1 ELSE 0) = Got(x + 1)
      <4>1. (x + 1) * d = x * d + d /\ x * d \in Nat
        BY ONLY <1>0, x \in Nat
      <4> PICK y \in Nat : y = x * d
        BY <4>1
      <4>3. Got(x) = y + (IF x <= r THEN x ELSE r)
        OBVIOUS
      <4>4. Got(x + 1) = (y + d) + (IF x + 1 <= r THEN x + 1 ELSE r)
        BY ONLY <4>1, y = x * d
      <4> HIDE DEF Got
      <4>5. CASE x + 1 <= r
        <5>1. Got(x) = y + x /\ Got(x + 1) = (y + d) + (x + 1)
          BY ONLY <1>0, x \in Nat, <4>3, <4>4, <4>5
        <5> QED
          BY ONLY <1>0, x \in Nat, y \in Nat, <4>5, <5>1
      <4>6. CASE ~(x + 1 <= r)
        <5>1. Got(x) = y + r /\ Got(x + 1) = (y + d) + r
          BY ONLY <1>0, x \in Nat, <4>3, <4>4, <4>6
        <5> QED
          BY ONLY <1>0, x \in Nat, y \in Nat, <4>6, <5>1
      <4> QED
        BY <4>5, <4>6
    <3> HIDE DEF Got
    <3> QED
      BY <2>1, <2>2, <3>1, <3>2, <3>3
  <2>4. CASE k \notin A
    <3>1. C[k] = x /\ p[k] = 0
      BY <1>3, <1>12, <2>4
    <3>2. Got(x) \in Nat
      <4>1. x * d \in Nat
        BY ONLY <1>0, x \in Nat
      <4> PICK y \in Nat : y = x * d
        BY <4>1
      <4> QED
        BY ONLY <1>0, x \in Nat, y \in Nat, y = x * d
    <3> HIDE DEF Got
    <3>3. f[k] = Got(x)
      BY ONLY <2>2, <3>1, <3>2
    <3> QED
      BY <2>1, <3>1, <3>3
  <2> QED
    BY <2>3, <2>4
<1>8. \A k \in 1..n : k - 1 \in G => k \in G
  BY <1>7
<1>9. \A k \in 0..n : k \in G
  BY ONLY <1>6, <1>8, n \in Nat, Everywhere
<1>10. f[n] = Got(N)
  <2>1. n \in 0..n /\ C[n] = N
    BY <1>12
  <2> HIDE DEF Got
  <2> QED
    BY <1>9, <2>1
<1>11. Got(N) = left
  <2>1. ~(N <= r)
    BY <1>0
  <2> QED
    BY ONLY <1>0, <2>1
<1> QED
  BY <1>3, <1>4, <1>5, <1>10, <1>11, <1>12

\* Some way through the passes: each output has no more than it could take,
\* and K is what is given and what is left.
Halfway(c, K) ==
    {s \in [given : Seq(Nat), left : Nat, active : SUBSET (1..Len(c))] :
        /\ Len(s.given) = Len(c) /\ \A i \in 1..Len(c) : s.given[i] <= c[i]
        /\ s.active = {i \in 1..Len(c) : s.given[i] < c[i]}
        /\ Total(s.given) + s.left = K}

\* A pass either spends everything or satisfies an output.
LEMMA PassKeeps ==
  ASSUME NEW c \in Seq(Nat), NEW K \in Nat, NEW s \in Halfway(c, K)
  PROVE  /\ Pass(c, s) \in Halfway(c, K)
         /\ \/ Pass(c, s).left = 0 \/ Pass(c, s).active = {}
            \/ Cardinality(Pass(c, s).active) < Cardinality(s.active)
<1> PICK n \in Nat : n = Len(c)
  OBVIOUS
<1> PICK u : u = Pass(c, s)
  OBVIOUS
<1> PICK a, l, A : a = s.given /\ l = s.left /\ A = s.active
  OBVIOUS
<1>1. /\ a \in Seq(Nat) /\ Len(a) = n /\ l \in Nat /\ A \in SUBSET (1..n)
      /\ A = {i \in 1..n : a[i] < c[i]} /\ Total(a) + l = K
      /\ \A i \in 1..n : a[i] <= c[i]
  BY DEF Halfway
<1>2. \A i \in 1..n : a[i] \in Nat /\ c[i] \in Nat
  BY <1>1
<1>3. CASE l = 0 \/ A = {}
  <2>1. u = s
    BY <1>3 DEF Pass
  <2> QED
    BY <1>3, <2>1
<1>4. CASE ~(l = 0 \/ A = {})
  <2> PICK g : g = [i \in 1..n |-> IF i \in A THEN Least(c[i] - a[i], Share(s, i))
                                               ELSE 0]
    OBVIOUS
  <2> PICK b : b = [i \in 1..n |-> a[i] + g[i]]
    OBVIOUS
  <2> PICK B : B = {i \in A : b[i] < c[i]}
    OBVIOUS
  <2> PICK p : p = [i \in 1..n |-> IF i \in s.active THEN Share(s, i) ELSE 0]
    OBVIOUS
  <2>1. u = [given |-> b, left |-> l - Total(g), active |-> B]
    <3>1. DOMAIN c = 1..n /\ ~(s.left = 0 \/ s.active = {})
      BY <1>4
    <3>2. s.given = a /\ s.left = l /\ s.active = A
      OBVIOUS
    <3> QED
      BY ONLY <3>1, <3>2, u = Pass(c, s), B = {i \in A : b[i] < c[i]},
              b = [i \in 1..n |-> a[i] + g[i]],
              g = [i \in 1..n |-> IF i \in A THEN Least(c[i] - a[i], Share(s, i))
                                             ELSE 0]
         DEF Pass
  <2>2. /\ p \in Seq(Nat) /\ Len(p) = n /\ Total(p) = l
        /\ \A i \in A : p[i] = Share(s, i)
    BY <1>1, <1>4, SharesMeet
  <2>3. \A i \in 1..n : /\ p[i] \in Nat
                        /\ g[i] = IF i \in A THEN Least(c[i] - a[i], p[i]) ELSE 0
    BY <2>2
  <2>4. \A i \in 1..n : g[i] \in Nat /\ g[i] <= p[i] /\ a[i] + g[i] <= c[i]
    BY <1>1, <1>2, <2>3 DEF Least
  <2>5. g \in Seq(Nat) /\ Len(g) = n
    <3>1. g \in [1..n -> Nat]
      BY <2>4
    <3> QED
      BY <3>1, FunctionSeq
  <2>6. b \in Seq(Nat) /\ Len(b) = n /\ \A i \in 1..n : b[i] = a[i] + g[i] /\ b[i] <= c[i]
    <3>1. \A i \in 1..n : b[i] = a[i] + g[i] /\ b[i] <= c[i] /\ b[i] \in Nat
      BY <1>2, <2>4
    <3>2. b \in [1..n -> Nat]
      BY <3>1
    <3> QED
      BY <3>1, <3>2, FunctionSeq
  <2>7. Total(b) = Total(a) + Total(g)
    <3>1. \A i \in 1..Len(b) : b[i] = a[i] + g[i]
      BY <2>6
    <3>2. Len(a) = Len(b) /\ Len(g) = Len(b)
      BY <1>1, <2>5, <2>6
    <3> QED
      BY ONLY <1>1, <2>5, <2>6, <3>1, <3>2, TotalAdd
  <2>9. Total(g) \in Nat /\ Total(a) \in Nat
    BY <1>1, <2>5, TotalBounds
  <2>10. Total(g) <= l
    <3>1. Len(g) = Len(p) /\ \A i \in 1..Len(p) : g[i] <= p[i]
      BY <2>2, <2>4, <2>5
    <3> QED
      BY ONLY <2>2, <2>5, <3>1, TotalLess
  <2>11. B = {i \in 1..n : b[i] < c[i]} /\ B \in SUBSET A
    <3>1. ASSUME NEW i \in 1..n, i \notin A PROVE ~(b[i] < c[i])
      <4>1. a[i] \in Nat /\ c[i] \in Nat /\ ~(a[i] < c[i]) /\ g[i] = 0
        BY <1>1, <1>2, <2>3, <3>1
      <4>2. b[i] = a[i]
        BY <2>6, <4>1
      <4> QED
        BY <4>1, <4>2
    <3> QED
      BY <1>1, <3>1
  <2>12. u \in Halfway(c, K)
    <3>1. l - Total(g) \in Nat /\ Total(b) + (l - Total(g)) = K
      BY <1>1, <2>7, <2>9, <2>10
    <3>2. B \in SUBSET (1..n)
      BY <1>1, <2>11
    <3>3. u \in [given : Seq(Nat), left : Nat, active : SUBSET (1..Len(c))]
      BY <2>1, <2>6, <3>1, <3>2
    <3>4. u.given = b /\ u.left = l - Total(g) /\ u.active = B
      BY <2>1
    <3> QED
      BY <2>6, <2>11, <3>1, <3>3, <3>4 DEF Halfway
  <2>13. ASSUME B = A PROVE u.left = 0
    <3>1. ASSUME NEW i \in 1..n PROVE g[i] = p[i]
      <4>1. CASE i \in A
        <5>1. b[i] < c[i] /\ b[i] = a[i] + g[i] /\ g[i] = Least(c[i] - a[i], p[i])
          BY <2>3, <2>6, <2>13, <4>1
        <5>2. a[i] \in Nat /\ c[i] \in Nat /\ p[i] \in Nat /\ g[i] \in Nat
          BY <1>2, <2>3, <2>4
        <5> QED
          BY ONLY <5>1, <5>2 DEF Least
      <4>2. CASE i \notin A
        BY <2>3, <4>2
      <4> QED
        BY <4>1, <4>2
    <3>2. g = p
      BY <2>2, <2>5, <3>1, SeqEqual
    <3>3. u.left = l - Total(g)
      BY <2>1
    <3> QED
      BY <1>1, <2>2, <3>2, <3>3
  <2>14. ASSUME B # A PROVE Cardinality(B) < Cardinality(A)
    <3>1. IsFiniteSet(1..n)
      BY FS_Interval
    <3>2. IsFiniteSet(A)
      BY <1>1, <3>1, FS_Subset
    <3>3. /\ Cardinality(B) <= Cardinality(A) /\ Cardinality(A) # Cardinality(B)
          /\ IsFiniteSet(B)
      BY <2>11, <2>14, <3>2, FS_Subset
    <3>4. Cardinality(B) \in Nat /\ Cardinality(A) \in Nat
      BY <3>2, <3>3, FS_CardinalityType
    <3> QED
      BY <3>3, <3>4
  <2>15. u.active = B
    BY <2>1
  <2> QED
    BY <2>12, <2>13, <2>14, <2>15
<1> QED
  BY <1>3, <1>4

LEMMA SubsetSize ==
  ASSUME NEW n \in Nat, NEW S \in SUBSET (1..n)
  PROVE  IsFiniteSet(S) /\ Cardinality(S) \in Nat /\ Cardinality(S) <= n
<1>1. IsFiniteSet(1..n) /\ Cardinality(1..n) = n
  <2>1. /\ IsFiniteSet(1..n)
        /\ Cardinality(1..n) = IF 1 > n THEN 0 ELSE n - 1 + 1
    BY ONLY n \in Nat, FS_Interval
  <2> QED
    BY <2>1
<1>2. IsFiniteSet(S) /\ Cardinality(S) <= Cardinality(1..n)
  BY <1>1, FS_Subset
<1>3. Cardinality(S) \in Nat
  BY <1>2, FS_CardinalityType
<1> QED
  BY <1>1, <1>2, <1>3

\* As many passes as there are outputs give all the room, or all that is
\* wanted.
LEMMA FairIs ==
  ASSUME NEW c \in Seq(Nat), NEW room \in Nat, NEW r, r = FairAllocations(c, room)
  PROVE  /\ r \in Seq(Nat) /\ Len(r) = Len(c) /\ Total(r) <= room
         /\ \A i \in 1..Len(c) : r[i] <= c[i]
         /\ Total(r) = room \/ r = c
<1> PICK n \in Nat : n = Len(c)
  OBVIOUS
<1>1. DOMAIN c = 1..n /\ \A i \in 1..n : c[i] \in Nat
  OBVIOUS
<1>2. Total(c) \in Nat
  BY TotalBounds
<1> PICK K : K = Least(room, Total(c))
  OBVIOUS
<1>3. K \in Nat /\ K <= room /\ K <= Total(c) /\ (K = room \/ K = Total(c))
  BY ONLY <1>2, room \in Nat, K = Least(room, Total(c)) DEF Least
<1> PICK zeros : zeros = [i \in 1..n |-> 0]
  OBVIOUS
<1> PICK A : A = {i \in 1..n : c[i] > 0}
  OBVIOUS
<1> PICK start : start = [given |-> zeros, left |-> K, active |-> A]
  OBVIOUS
<1> PICK D : D = Halfway(c, K)
  OBVIOUS
<1>4. start \in D
  <2>1. zeros \in Seq(Nat) /\ Len(zeros) = n /\ \A i \in 1..n : zeros[i] = 0
    <3>1. zeros \in [1..n -> Nat]
      OBVIOUS
    <3> QED
      BY <3>1, FunctionSeq
  <2>2. Total(zeros) = 0
    BY <2>1, TotalBounds
  <2>3. A = {i \in 1..n : zeros[i] < c[i]}
    BY <1>1, <2>1
  <2>4. start \in [given : Seq(Nat), left : Nat, active : SUBSET (1..Len(c))]
    BY <1>3, <2>1
  <2>5. start.given = zeros /\ start.left = K /\ start.active = A
    OBVIOUS
  <2>6. \A i \in 1..n : zeros[i] <= c[i]
    BY <1>1, <2>1
  <2>7. Total(start.given) + start.left = K
    BY <1>3, <2>2, <2>5
  <2>8. /\ Len(start.given) = Len(c)
        /\ \A i \in 1..Len(c) : start.given[i] <= c[i]
        /\ start.active = {i \in 1..Len(c) : start.given[i] < c[i]}
    BY <2>1, <2>3, <2>5, <2>6
  <2> QED
    BY ONLY <2>4, <2>7, <2>8, D = Halfway(c, K) DEF Halfway
<1>5. \A s \in D : Pass(c, s) \in D
  BY <1>3, PassKeeps
<1> PICK step : step = [k \in 1..n |-> [s \in D |-> Pass(c, s)]]
  OBVIOUS
<1>6. /\ step \in [1..n -> [D -> D]]
      /\ \A k \in 1..n : \A s \in D : step[k][s] = Pass(c, s)
  BY ONLY <1>5, step = [k \in 1..n |-> [s \in D |-> Pass(c, s)]]
<1> PICK f : Chained(f, n, D, start, step)
  BY ONLY <1>4, <1>6, n \in Nat, Chain
<1>7. /\ f \in [0..n -> D] /\ f[0] = start
      /\ \A k \in 1..n : f[k] = step[k][f[k - 1]]
  BY DEF Chained
<1>8. \A k \in 1..n : k - 1 \in 0..n /\ k \in 0..n /\ k # 0
  OBVIOUS
<1>9. \A k \in 1..n : f[k] = Pass(c, f[k - 1])
  BY ONLY <1>6, <1>7, <1>8
<1>10. f = [k \in 0..n |-> IF k = 0 THEN start ELSE Pass(c, f[k - 1])]
  <2>1. \A k \in 0..n : k # 0 => k \in 1..n
    OBVIOUS
  <2>2. \A k \in 0..n : f[k] = IF k = 0 THEN start ELSE Pass(c, f[k - 1])
    BY ONLY <1>7, <1>9, <2>1
  <2> QED
    BY ONLY <1>7, <2>2
<1> PICK g : g = CHOOSE e : e = [k \in 0..n |-> IF k = 0 THEN start
                                                ELSE Pass(c, e[k - 1])]
  OBVIOUS
<1>11. g = [k \in 0..n |-> IF k = 0 THEN start ELSE Pass(c, g[k - 1])]
  <2>1. \E e : e = [k \in 0..n |-> IF k = 0 THEN start ELSE Pass(c, e[k - 1])]
    BY <1>10
  <2> QED
    BY <2>1
<1>12. r = g[n].given
  BY <1>1 DEF FairAllocations
<1>13. g[0] = start /\ \A k \in 1..n : g[k] = Pass(c, g[k - 1])
  <2>1. \A k \in 0..n : g[k] = IF k = 0 THEN start ELSE Pass(c, g[k - 1])
    BY ONLY <1>11
  <2>2. 0 \in 0..n
    OBVIOUS
  <2> QED
    BY ONLY <1>8, <2>1, <2>2
<1> DEFINE Good(k) == /\ g[k] \in D
                      /\ \/ g[k].left = 0 \/ g[k].active = {}
                         \/ Cardinality(g[k].active) <= n - k
<1> PICK G : G = {k \in 0..n : Good(k)}
  OBVIOUS
<1>14. 0 \in G
  <2>1. A \in SUBSET (1..n)
    OBVIOUS
  <2>2. n - 0 = n /\ 0 \in 0..n
    OBVIOUS
  <2>3. Cardinality(A) <= n
    BY <2>1, SubsetSize
  <2>4. start.active = A
    OBVIOUS
  <2>5. Good(0)
    BY ONLY <1>4, <1>13, <2>2, <2>3, <2>4
  <2> HIDE DEF Good
  <2> QED
    BY <2>2, <2>5
<1>15. ASSUME NEW k \in 1..n, k - 1 \in G PROVE k \in G
  <2> PICK s : s = g[k - 1]
    OBVIOUS
  <2>1. /\ s \in D
        /\ s.left = 0 \/ s.active = {} \/ Cardinality(s.active) <= n - (k - 1)
    BY <1>15
  <2> PICK u : u = g[k]
    OBVIOUS
  <2>2. u = Pass(c, s)
    BY <1>13
  <2>3. /\ u \in D
        /\ \/ u.left = 0 \/ u.active = {}
           \/ Cardinality(u.active) < Cardinality(s.active)
    BY <1>3, <2>1, <2>2, PassKeeps
  <2>4. u.left = 0 \/ u.active = {} \/ Cardinality(u.active) <= n - k
    <3>1. CASE s.left = 0 \/ s.active = {}
      <4>1. u = s
        BY <2>2, <3>1 DEF Pass
      <4> QED
        BY <3>1, <4>1
    <3>2. CASE Cardinality(s.active) <= n - (k - 1)
      <4>2. s.active \in SUBSET (1..n) /\ u.active \in SUBSET (1..n)
        BY ONLY <2>1, <2>3, D = Halfway(c, K), n = Len(c) DEF Halfway
      <4>3. Cardinality(s.active) \in Nat /\ Cardinality(u.active) \in Nat
        BY ONLY <4>2, n \in Nat, SubsetSize
      <4> PICK x \in Nat, y \in Nat :
              x = Cardinality(s.active) /\ y = Cardinality(u.active)
        BY <4>3
      <4>5. x <= n - (k - 1)
        BY <3>2
      <4>4. y < x => y <= n - k
        BY ONLY <4>5, x \in Nat, y \in Nat, n \in Nat, k \in 1..n
      <4> QED
        BY <2>3, <4>4
    <3> QED
      BY <2>1, <3>1, <3>2
  <2>5. Good(k)
    BY <2>3, <2>4
  <2> QED
    BY <1>8, <2>5
<1>16. \A k \in 1..n : k - 1 \in G => k \in G
  BY <1>15
<1>17. \A k \in 0..n : k \in G
  BY ONLY <1>14, <1>16, n \in Nat, Everywhere
<1>18. Good(n)
  <2>1. n \in 0..n
    OBVIOUS
  <2> QED
    BY <1>17, <2>1
<1> PICK z : z = g[n]
  OBVIOUS
<1>19. /\ z.given = r /\ z.left \in Nat /\ z.active \in SUBSET (1..n)
       /\ r \in Seq(Nat) /\ Len(r) = n /\ \A i \in 1..n : r[i] <= c[i]
       /\ z.active = {i \in 1..n : r[i] < c[i]} /\ Total(r) + z.left = K
  <2>1. z \in Halfway(c, K)
    BY <1>18
  <2> QED
    BY <1>12, <2>1 DEF Halfway
<1>20. Total(r) \in Nat
  BY <1>19, TotalBounds
<1>21. Total(r) <= room
  BY <1>3, <1>19, <1>20
<1>22. \A i \in 1..n : r[i] \in Nat
  BY <1>19
<1>23. z.left = 0 \/ z.active = {}
  <2>1. ASSUME Cardinality(z.active) <= n - n PROVE z.active = {}
    <3>1. IsFiniteSet(1..n)
      BY FS_Interval
    <3>2. IsFiniteSet(z.active)
      BY <1>19, <3>1, FS_Subset
    <3>3. Cardinality(z.active) \in Nat /\ Cardinality(z.active) <= 0
      BY <2>1, <3>2, FS_CardinalityType
    <3>4. Cardinality(z.active) = 0
      BY <3>3
    <3> QED
      BY <3>2, <3>4, FS_EmptySet
  <2> QED
    BY <1>18, <2>1
<1>24. Total(r) = room \/ r = c
  <2>1. CASE z.active = {}
    <3>1. ASSUME NEW i \in 1..n PROVE r[i] = c[i]
      <4>1. r[i] \in Nat /\ c[i] \in Nat /\ r[i] <= c[i]
        BY <1>1, <1>19, <1>22
      <4>2. ~(r[i] < c[i])
        BY ONLY <1>19, <2>1, i \in 1..n
      <4> QED
        BY ONLY <4>1, <4>2
    <3> QED
      BY <1>19, <3>1, SeqEqual
  <2>2. CASE z.left = 0
    <3>1. Total(r) = K
      BY <1>19, <1>20, <2>2
    <3>2. ASSUME Total(r) = Total(c) PROVE r = c
      BY <1>19, <3>2, TotalLess
    <3> QED
      BY <1>3, <3>1, <3>2
  <2> QED
    BY <1>23, <2>1, <2>2
<1> QED
  BY <1>19, <1>21, <1>24

-----------------------------------------------------------------------------
(* The rounds of a history, one after the other.                           *)

Totals(given) == [k \in DOMAIN given |-> Total(given[k])]
Grand(given) == Total(Totals(given))

\* Each output has no more than the limit lets it have, and R is what is given
\* and what is left.
Dealt(h, R, limit) ==
    {s \in [given : Seq(Seq(Nat)), left : Nat] :
        /\ Len(s.given) = Len(h) /\ Grand(s.given) + s.left = R
        /\ \A k \in 1..Len(h) :
              /\ Len(s.given[k]) = Len(h[k])
              /\ \A i \in 1..Len(h[k]) : s.given[k][i] <= Least(h[k][i], limit)}

Sated(h, given, k, limit) ==
    \A i \in 1..Len(h[k]) : given[k][i] = Least(h[k][i], limit)

LEMMA TotalsAre ==
  ASSUME NEW given \in Seq(Seq(Nat))
  PROVE  /\ Totals(given) \in Seq(Nat) /\ Len(Totals(given)) = Len(given)
         /\ \A k \in 1..Len(given) : Totals(given)[k] = Total(given[k])
         /\ Grand(given) \in Nat
<1> PICK n \in Nat : n = Len(given)
  OBVIOUS
<1> PICK t : t = Totals(given)
  OBVIOUS
<1>1. t = [k \in 1..n |-> Total(given[k])]
  BY DEF Totals
<1>2. \A k \in 1..n : Total(given[k]) \in Nat
  <2>1. \A k \in 1..n : given[k] \in Seq(Nat)
    OBVIOUS
  <2> QED
    BY <2>1, TotalBounds
<1>3. t \in [1..n -> Nat] /\ \A k \in 1..n : t[k] = Total(given[k])
  BY ONLY <1>1, <1>2
<1>4. t \in Seq(Nat) /\ Len(t) = n
  BY <1>3, FunctionSeq
<1>5. Grand(given) \in Nat
  BY <1>4, TotalBounds DEF Grand
<1> QED
  BY <1>3, <1>4, <1>5

\* What a round has with more on top of it.
Topped(o, a, more) == [i \in 1..Len(o) |-> Added(a[i], more[i])]

Granted(o, a, limit, left, more, b) ==
    /\ b \in Seq(Nat) /\ Len(b) = Len(o)
    /\ Total(more) \in Nat /\ Total(more) <= left
    /\ Total(b) = Total(a) + Total(more)
    /\ \A i \in 1..Len(o) : b[i] <= Least(o[i], limit)
    /\ \/ Total(more) = left
       \/ \A i \in 1..Len(o) : b[i] = Least(o[i], limit)
    /\ left = 0 => b = a

LEMMA GrantIs ==
  ASSUME NEW o \in Seq(Nat), NEW a \in Seq(Nat), Len(a) = Len(o),
         NEW limit \in Nat, NEW left \in Nat,
         \A i \in 1..Len(o) : a[i] <= Least(o[i], limit),
         NEW more, more = FairAllocations(Wanted(o, a, limit), left),
         NEW b, b = Topped(o, a, more)
  PROVE  Granted(o, a, limit, left, more, b)
<1> PICK m \in Nat : m = Len(o)
  OBVIOUS
<1>0. /\ DOMAIN o = 1..m /\ Len(a) = m /\ DOMAIN a = 1..m
      /\ \A i \in 1..m : o[i] \in Nat /\ a[i] \in Nat
  OBVIOUS
<1>1. PICK top : top = [i \in 1..m |-> Least(o[i], limit)]
  OBVIOUS
<1>2. ASSUME NEW i \in 1..m
      PROVE  top[i] = Least(o[i], limit) /\ top[i] \in Nat /\ a[i] <= top[i]
  <2>1. top[i] = Least(o[i], limit) /\ a[i] <= Least(o[i], limit)
    BY <1>1
  <2>2. o[i] \in Nat
    BY <1>0
  <2> QED
    BY ONLY <2>1, <2>2, limit \in Nat DEF Least
<1>3. PICK c : c = Wanted(o, a, limit)
  OBVIOUS
<1>4. ASSUME NEW i \in 1..m
      PROVE  c[i] \in Nat /\ top[i] = a[i] + c[i]
  <2>1. c[i] = IF top[i] > a[i] THEN top[i] - a[i] ELSE 0
    BY ONLY <1>0, <1>2, <1>3, i \in 1..m DEF Wanted
  <2> PICK x \in Nat, y \in Nat : x = top[i] /\ y = a[i] /\ y <= x
    BY ONLY <1>0, <1>2, i \in 1..m
  <2>2. c[i] = x - y
    BY ONLY <2>1, x \in Nat, y \in Nat, x = top[i], y = a[i], y <= x
  <2>3. x - y \in Nat /\ x = y + (x - y)
    BY ONLY x \in Nat, y \in Nat, y <= x
  <2> QED
    BY ONLY <2>2, <2>3, x = top[i], y = a[i]
<1>5. c \in Seq(Nat) /\ Len(c) = m
  <2>1. c = [i \in 1..m |-> c[i]]
    BY ONLY <1>0, <1>3 DEF Wanted
  <2>2. c \in [1..m -> Nat]
    BY ONLY <1>4, <2>1
  <2> QED
    BY ONLY <2>2, m \in Nat, FunctionSeq
<1>6. /\ more \in Seq(Nat) /\ Len(more) = m /\ Total(more) <= left
      /\ \A i \in 1..m : more[i] <= c[i]
      /\ Total(more) = left \/ more = c
  <2>1. more = FairAllocations(c, left)
    BY <1>3
  <2> QED
    BY ONLY <1>5, <2>1, left \in Nat, FairIs
<1>7. \A i \in 1..m : more[i] \in Nat
  BY ONLY <1>6
<1>8. \A i \in 1..m : b[i] = a[i] + more[i]
  BY DEF Topped, Added
<1>9. b \in Seq(Nat) /\ Len(b) = m
  <2>1. \A i \in 1..m : Added(a[i], more[i]) \in Nat
    BY ONLY <1>0, <1>7 DEF Added
  <2>2. b = [i \in 1..m |-> Added(a[i], more[i])]
    BY DEF Topped
  <2>3. b \in [1..m -> Nat]
    BY ONLY <2>1, <2>2
  <2> QED
    BY ONLY <2>3, m \in Nat, FunctionSeq
<1>10. Total(more) \in Nat /\ \A i \in 1..m : more[i] <= Total(more)
  BY ONLY <1>6, TotalBounds
<1>11. Total(b) = Total(a) + Total(more)
  <2>1. Len(a) = Len(b) /\ Len(more) = Len(b)
    BY ONLY <1>0, <1>6, <1>9
  <2>2. \A i \in 1..Len(b) : b[i] = a[i] + more[i]
    BY ONLY <1>8, <1>9
  <2> QED
    BY ONLY <1>6, <1>9, <2>1, <2>2, a \in Seq(Nat), TotalAdd
<1>12. ASSUME NEW i \in 1..m
       PROVE  /\ b[i] <= top[i]
              /\ more = c => b[i] = top[i]
              /\ left = 0 => b[i] = a[i]
  <2> PICK y \in Nat, z \in Nat, w \in Nat : y = a[i] /\ z = more[i] /\ w = c[i]
    BY ONLY <1>0, <1>4, <1>7, i \in 1..m
  <2>1. b[i] = y + z /\ top[i] = y + w /\ z <= w /\ (more = c => z = w)
    BY ONLY <1>4, <1>6, <1>8, i \in 1..m, y = a[i], z = more[i], w = c[i]
  <2>2. left = 0 => z = 0
    <3>1. z <= Total(more) /\ Total(more) <= left
      BY ONLY <1>6, <1>10, i \in 1..m, z = more[i]
    <3> QED
      BY ONLY <1>10, <3>1, z \in Nat, left \in Nat
  <2> QED
    BY ONLY <2>1, <2>2, y \in Nat, z \in Nat, w \in Nat, y = a[i]
<1>13. left = 0 => b = a
  <2>1. left = 0 => \A i \in 1..m : b[i] = a[i]
    BY ONLY <1>12
  <2> QED
    BY ONLY <1>0, <1>9, <2>1, a \in Seq(Nat), SeqEqual
<1>14. \A i \in 1..m : b[i] <= Least(o[i], limit)
  BY ONLY <1>2, <1>12
<1>15. more = c => \A i \in 1..m : b[i] = Least(o[i], limit)
  BY ONLY <1>2, <1>12
<1> QED
  BY ONLY <1>6, <1>9, <1>10, <1>11, <1>13, <1>14, <1>15, m = Len(o) DEF Granted

LEMMA ServeIs ==
  ASSUME NEW h \in Seq(Seq(Nat)), NEW R \in Nat, NEW limit \in Nat,
         NEW s \in Dealt(h, R, limit), NEW k \in 1..Len(h),
         NEW u, u = Serve(h, s, limit, k)
  PROVE  /\ u \in Dealt(h, R, limit)
         /\ \A j \in 1..Len(h) : j # k => u.given[j] = s.given[j]
         /\ u.left = 0 \/ Sated(h, u.given, k, limit)
         /\ s.left = 0 => u.left = 0 /\ u.given = s.given
<1> PICK N \in Nat : N = Len(h)
  OBVIOUS
<1>0. PICK given, left : given = s.given /\ left = s.left
  OBVIOUS
<1>1. /\ given \in Seq(Seq(Nat)) /\ left \in Nat /\ Len(given) = N
      /\ Grand(given) + left = R
      /\ \A j \in 1..N :
            /\ Len(given[j]) = Len(h[j])
            /\ \A i \in 1..Len(h[j]) : given[j][i] <= Least(h[j][i], limit)
  BY <1>0 DEF Dealt
<1>2. PICK o \in Seq(Nat), a \in Seq(Nat) : o = h[k] /\ a = given[k]
  BY <1>1
<1>3. Len(a) = Len(o) /\ \A i \in 1..Len(o) : a[i] <= Least(o[i], limit)
  BY ONLY <1>1, <1>2, k \in 1..N
<1>4. PICK more : more = FairAllocations(Wanted(o, a, limit), left)
  OBVIOUS
<1>5. PICK b : b = Topped(o, a, more)
  OBVIOUS
<1>6. /\ b \in Seq(Nat) /\ Len(b) = Len(o)
      /\ Total(more) \in Nat /\ Total(more) <= left
      /\ Total(b) = Total(a) + Total(more)
      /\ \A i \in 1..Len(o) : b[i] <= Least(o[i], limit)
      /\ \/ Total(more) = left
         \/ \A i \in 1..Len(o) : b[i] = Least(o[i], limit)
      /\ left = 0 => b = a
  <2>1. left \in Nat
    BY <1>1
  <2>2. Len(a) = Len(o)
    BY <1>3
  <2>3. \A i \in 1..Len(o) : a[i] <= Least(o[i], limit)
    BY <1>3
  <2>4. more = FairAllocations(Wanted(o, a, limit), left)
    BY <1>4
  <2>5. b = Topped(o, a, more)
    BY <1>5
  <2>6. Granted(o, a, limit, left, more, b)
    BY ONLY <2>1, <2>2, <2>3, <2>4, <2>5, limit \in Nat, o \in Seq(Nat),
            a \in Seq(Nat), GrantIs
  <2> QED
    BY ONLY <2>6 DEF Granted
<1>7. PICK new : new = [given EXCEPT ![k] = b]
  OBVIOUS
<1>8. u.given = new /\ u.left = left - Total(more)
      /\ u = [given |-> new, left |-> left - Total(more)]
  <2>1. more = FairAllocations(Wanted(h[k], s.given[k], limit), s.left)
    BY <1>0, <1>2, <1>4
  <2>2. DOMAIN a = 1..Len(o)
    BY <1>2, <1>3
  <2>3. b = [i \in DOMAIN a |-> a[i] + more[i]]
    BY ONLY <1>5, <2>2 DEF Topped, Added
  <2>4. new = [given EXCEPT ![k] = [i \in DOMAIN given[k] |-> given[k][i] + more[i]]]
    BY ONLY <1>2, <1>7, <2>3
  <2>5. u = [given |-> new, left |-> left - Total(more)]
    BY ONLY <1>0, <2>1, <2>4, u = Serve(h, s, limit, k) DEF Serve
  <2> QED
    BY ONLY <2>5
<1>9. /\ new \in Seq(Seq(Nat)) /\ Len(new) = N /\ new[k] = b
      /\ \A j \in 1..N : j # k => new[j] = given[j]
  BY ONLY <1>1, <1>6, <1>7, k \in 1..N
<1>10. left - Total(more) \in Nat
  BY ONLY <1>1, <1>6
<1>11. Grand(new) = Grand(given) + Total(more)
  <2>1. PICK t, v : t = Totals(given) /\ v = Totals(new)
    OBVIOUS
  <2>2. /\ t \in Seq(Nat) /\ Len(t) = N /\ \A j \in 1..N : t[j] = Total(given[j])
        /\ v \in Seq(Nat) /\ Len(v) = N /\ \A j \in 1..N : v[j] = Total(new[j])
    BY ONLY <1>1, <1>9, <2>1, TotalsAre
  <2>3. Total(v) + t[k] = Total(t) + v[k]
    <3>1. \A j \in 1..Len(t) : j # k => v[j] = t[j]
      BY ONLY <1>9, <2>2
    <3>2. Len(v) = Len(t) /\ k \in 1..Len(t)
      BY ONLY <2>2, k \in 1..N
    <3> QED
      BY ONLY <2>2, <3>1, <3>2, TotalChange
  <2>4. t[k] = Total(a) /\ v[k] = Total(b)
    BY ONLY <1>2, <1>9, <2>2, k \in 1..N
  <2>5. Total(v) \in Nat /\ Total(t) \in Nat /\ Total(a) \in Nat
    BY ONLY <1>2, <2>2, TotalBounds
  <2>6. Grand(new) = Total(v) /\ Grand(given) = Total(t)
    BY ONLY <2>1 DEF Grand
  <2> PICK x \in Nat, y \in Nat, z \in Nat, w \in Nat :
          x = Total(v) /\ y = Total(t) /\ z = Total(a) /\ w = Total(more)
    BY ONLY <1>6, <2>5
  <2>7. x + z = y + (z + w)
    BY <1>6, <2>3, <2>4
  <2>8. x = y + w
    BY ONLY <2>7, x \in Nat, y \in Nat, z \in Nat, w \in Nat
  <2> QED
    BY ONLY <2>6, <2>8, x = Total(v), y = Total(t), w = Total(more)
<1>12. u \in Dealt(h, R, limit)
  <2>1. u \in [given : Seq(Seq(Nat)), left : Nat]
    BY ONLY <1>8, <1>9, <1>10
  <2>2. Grand(u.given) + u.left = R
    <3> PICK x \in Nat, y \in Nat, z \in Nat :
            x = Grand(given) /\ y = Total(more) /\ z = left
      BY <1>1, <1>6, TotalsAre
    <3>1. Grand(u.given) = x + y /\ u.left = z - y /\ x + z = R
      BY <1>1, <1>8, <1>11
    <3> QED
      BY ONLY <3>1, x \in Nat, y \in Nat, z \in Nat
  <2>3. ASSUME NEW j \in 1..N
        PROVE  /\ Len(new[j]) = Len(h[j])
               /\ \A i \in 1..Len(h[j]) : new[j][i] <= Least(h[j][i], limit)
    <3>1. CASE j = k
      BY ONLY <1>2, <1>6, <1>9, <3>1
    <3>2. CASE j # k
      BY ONLY <1>1, <1>9, <3>2, j \in 1..N
    <3> QED
      BY <3>1, <3>2
  <2> QED
    BY ONLY <1>8, <1>9, <2>1, <2>2, <2>3, N = Len(h) DEF Dealt
<1>13. u.left = 0 \/ Sated(h, u.given, k, limit)
  <2>1. CASE Total(more) = left
    BY ONLY <1>1, <1>8, <2>1
  <2>2. CASE \A i \in 1..Len(o) : b[i] = Least(o[i], limit)
    BY ONLY <1>2, <1>8, <1>9, <2>2 DEF Sated
  <2> QED
    BY ONLY <1>6, <2>1, <2>2
<1>14. ASSUME left = 0 PROVE u.left = 0 /\ u.given = given
  <2>1. Total(more) = 0
    BY ONLY <1>6, <1>14
  <2>2. new = given
    BY ONLY <1>1, <1>2, <1>6, <1>7, <1>14, k \in 1..N
  <2> QED
    BY ONLY <1>8, <1>14, <2>1, <2>2
<1> QED
  BY ONLY <1>0, <1>8, <1>9, <1>12, <1>13, <1>14, N = Len(h)

\* After n rounds are served from a, the newest first: one that lacks
\* something left nothing to the older ones, whose part is as it was.
Served(h, a, limit, s, n) ==
    /\ \A j \in 1..(Len(h) - n) : s.given[j] = a.given[j]
    /\ \A j \in (Len(h) - n + 1)..Len(h) :
          \/ Sated(h, s.given, j, limit)
          \/ s.left = 0 /\ \A i \in 1..(j - 1) : s.given[i] = a.given[i]

LEMMA NextServed ==
  ASSUME NEW h \in Seq(Seq(Nat)), NEW R \in Nat, NEW limit \in Nat, NEW a,
         NEW s \in Dealt(h, R, limit), NEW n \in 1..Len(h),
         Served(h, a, limit, s, n - 1),
         NEW u, u = Serve(h, s, limit, Len(h) + 1 - n)
  PROVE  u \in Dealt(h, R, limit) /\ Served(h, a, limit, u, n)
<1> PICK N \in Nat : N = Len(h)
  OBVIOUS
<1> PICK k : k = N + 1 - n
  OBVIOUS
<1>1. k \in 1..N /\ N - (n - 1) = k /\ N - n = k - 1
  OBVIOUS
<1>2. u = Serve(h, s, limit, k) /\ k \in 1..Len(h)
  BY <1>1
<1>3. /\ u \in Dealt(h, R, limit)
      /\ \A j \in 1..N : j # k => u.given[j] = s.given[j]
      /\ u.left = 0 \/ Sated(h, u.given, k, limit)
      /\ s.left = 0 => u.left = 0 /\ u.given = s.given
  BY ONLY <1>2, h \in Seq(Seq(Nat)), R \in Nat, limit \in Nat,
          s \in Dealt(h, R, limit), N = Len(h), ServeIs
<1>4. /\ \A j \in 1..k : s.given[j] = a.given[j]
      /\ \A j \in (k + 1)..N :
            \/ Sated(h, s.given, j, limit)
            \/ s.left = 0 /\ \A i \in 1..(j - 1) : s.given[i] = a.given[i]
  BY ONLY <1>1, N = Len(h), Served(h, a, limit, s, n - 1) DEF Served
<1>5. \A j \in 1..(k - 1) : u.given[j] = a.given[j]
  <2>1. \A j \in 1..(k - 1) : j \in 1..k /\ j \in 1..N /\ j # k
    BY ONLY <1>1, N \in Nat
  <2> QED
    BY ONLY <1>3, <1>4, <2>1
<1>6. ASSUME NEW j \in k..N
      PROVE  \/ Sated(h, u.given, j, limit)
             \/ u.left = 0 /\ \A i \in 1..(j - 1) : u.given[i] = a.given[i]
  <2>1. CASE j = k
    BY ONLY <1>3, <1>5, <2>1
  <2>2. CASE j # k
    <3>1. j \in (k + 1)..N /\ j \in 1..N
      BY ONLY <1>1, <2>2, N \in Nat, j \in k..N
    <3>2. CASE Sated(h, s.given, j, limit)
      <4>1. u.given[j] = s.given[j]
        BY ONLY <1>3, <2>2, <3>1
      <4> QED
        BY ONLY <3>2, <4>1 DEF Sated
    <3>3. CASE s.left = 0 /\ \A i \in 1..(j - 1) : s.given[i] = a.given[i]
      BY ONLY <1>3, <3>3
    <3> QED
      BY ONLY <1>4, <3>1, <3>2, <3>3
  <2> QED
    BY <2>1, <2>2
<1>7. Len(h) - n = k - 1 /\ Len(h) - n + 1 = k
  BY ONLY <1>1, N = Len(h), N \in Nat
<1>8. Served(h, a, limit, u, n)
  BY ONLY <1>5, <1>6, <1>7, N = Len(h) DEF Served
<1> QED
  BY <1>3, <1>8

LEMMA ExtendIs ==
  ASSUME NEW h \in Seq(Seq(Nat)), NEW R \in Nat, NEW limit \in Nat,
         NEW a \in Dealt(h, R, limit)
  PROVE  /\ Extend(h, a, limit) \in Dealt(h, R, limit)
         /\ Served(h, a, limit, Extend(h, a, limit), Len(h))
<1> PICK N \in Nat : N = Len(h)
  OBVIOUS
<1> PICK D : D = Dealt(h, R, limit)
  OBVIOUS
<1>1. \A k \in 1..N : NewestFirst(h)[k] = N + 1 - k /\ N + 1 - k \in 1..Len(h)
  BY DEF NewestFirst
<1> PICK place : place = [k \in 1..N |-> NewestFirst(h)[k]]
  OBVIOUS
<1>2. \A k \in 1..N : /\ place[k] = N + 1 - k
                      /\ place[k] = NewestFirst(h)[k]
                      /\ place[k] \in 1..Len(h)
  BY <1>1
<1>3. ASSUME NEW k \in 1..N, NEW s \in D PROVE Serve(h, s, limit, place[k]) \in D
  <2> PICK p, u : p = place[k] /\ u = Serve(h, s, limit, p)
    OBVIOUS
  <2>1. p \in 1..Len(h)
    BY <1>2
  <2>2. u \in Dealt(h, R, limit)
    BY ONLY <2>1, h \in Seq(Seq(Nat)), R \in Nat, limit \in Nat, s \in D,
            D = Dealt(h, R, limit), u = Serve(h, s, limit, p), ServeIs
  <2> QED
    BY <2>2
<1> PICK step : step = [k \in 1..N |-> [s \in D |-> Serve(h, s, limit, place[k])]]
  OBVIOUS
<1>4. /\ step \in [1..N -> [D -> D]]
      /\ \A k \in 1..N : \A s \in D : step[k][s] = Serve(h, s, limit, place[k])
  BY ONLY <1>3, step = [k \in 1..N |-> [s \in D |-> Serve(h, s, limit, place[k])]]
<1>5. a \in D
  OBVIOUS
<1> PICK f : Chained(f, N, D, a, step)
  BY ONLY <1>4, <1>5, N \in Nat, Chain
<1>7. /\ f \in [0..N -> D] /\ f[0] = a
      /\ \A k \in 1..N : f[k] = step[k][f[k - 1]]
  BY DEF Chained
<1>8. \A k \in 1..N : k - 1 \in 0..N /\ k \in 0..N /\ k # 0
  OBVIOUS
<1>9. \A k \in 1..N : f[k] = Serve(h, f[k - 1], limit, place[k])
  BY ONLY <1>4, <1>7, <1>8
<1>10. f = [k \in 0..N |-> IF k = 0 THEN a
                           ELSE Serve(h, f[k - 1], limit, NewestFirst(h)[k])]
  <2>1. \A k \in 0..N : k # 0 => k \in 1..N
    OBVIOUS
  <2>2. \A k \in 0..N : f[k] = IF k = 0 THEN a
                               ELSE Serve(h, f[k - 1], limit, NewestFirst(h)[k])
    BY ONLY <1>2, <1>7, <1>9, <2>1
  <2> QED
    BY ONLY <1>7, <2>2
<1> PICK g : g = CHOOSE e : e = [k \in 0..N |-> IF k = 0 THEN a
                       ELSE Serve(h, e[k - 1], limit, NewestFirst(h)[k])]
  OBVIOUS
<1>11. g = [k \in 0..N |-> IF k = 0 THEN a
                           ELSE Serve(h, g[k - 1], limit, NewestFirst(h)[k])]
  <2>1. \E e : e = [k \in 0..N |-> IF k = 0 THEN a
                       ELSE Serve(h, e[k - 1], limit, NewestFirst(h)[k])]
    BY <1>10
  <2> QED
    BY <2>1
<1>12. Extend(h, a, limit) = g[N]
  BY DEF Extend
<1>13. g[0] = a /\ \A k \in 1..N : g[k] = Serve(h, g[k - 1], limit, place[k])
  <2>1. \A k \in 0..N : g[k] = IF k = 0 THEN a
                               ELSE Serve(h, g[k - 1], limit, NewestFirst(h)[k])
    BY ONLY <1>11
  <2>2. 0 \in 0..N
    OBVIOUS
  <2> QED
    BY ONLY <1>2, <1>8, <2>1, <2>2
<1> PICK G : G = {k \in 0..N : g[k] \in D /\ Served(h, a, limit, g[k], k)}
  OBVIOUS
<1>14. 0 \in G
  <2>1. Served(h, a, limit, a, 0)
    BY DEF Served
  <2> QED
    BY <1>5, <1>13, <2>1
<1>15. ASSUME NEW k \in 1..N, k - 1 \in G PROVE k \in G
  <2> PICK s, u : s = g[k - 1] /\ u = g[k]
    OBVIOUS
  <2>1. s \in Dealt(h, R, limit) /\ Served(h, a, limit, s, k - 1)
    BY <1>15
  <2>2. u = Serve(h, s, limit, Len(h) + 1 - k)
    <3>1. place[k] = Len(h) + 1 - k
      BY ONLY <1>2, k \in 1..N, N = Len(h)
    <3> QED
      BY <1>13, <3>1
  <2>3. k \in 1..Len(h)
    OBVIOUS
  <2>4. u \in Dealt(h, R, limit) /\ Served(h, a, limit, u, k)
    BY ONLY <2>1, <2>2, <2>3, h \in Seq(Seq(Nat)), R \in Nat, limit \in Nat,
            NextServed
  <2> QED
    BY <1>8, <2>4
<1>16. \A k \in 1..N : k - 1 \in G => k \in G
  BY <1>15
<1>17. \A k \in 0..N : k \in G
  BY ONLY <1>14, <1>16, N \in Nat, Everywhere
<1>18. N \in G
  <2>1. N \in 0..N
    OBVIOUS
  <2> QED
    BY <1>17, <2>1
<1> QED
  BY <1>12, <1>18

\* The outputs of all rounds in a row take what the rounds take.
LEMMA FlatTotal ==
  ASSUME NEW s \in Seq(Seq(Nat)) PROVE Total(FlattenSeq(s)) = Grand(s)
<1> PICK n \in Nat : n = Len(s)
  OBVIOUS
<1> PICK t : t = Totals(s)
  OBVIOUS
<1>1. /\ t \in Seq(Nat) /\ Len(t) = n /\ \A k \in 1..n : t[k] = Total(s[k])
      /\ Grand(s) = Total(t)
  BY TotalsAre DEF Grand
<1> PICK f : Gathers(f, s, Nat)
  BY FlattenIs
<1> PICK g : Sums(g, t)
  BY <1>1, TotalIs
<1>2. /\ f \in [0..n -> Seq(Nat)] /\ f[0] = <<>> /\ FlattenSeq(s) = f[n]
      /\ \A k \in 1..n : f[k] = f[k - 1] \o s[k]
  BY DEF Gathers
<1>3. /\ g[0] = 0 /\ Total(t) = g[n]
      /\ \A k \in 1..n : g[k] = g[k - 1] + t[k]
  BY <1>1 DEF Sums
<1> PICK G : G = {k \in 0..n : Total(f[k]) = g[k]}
  OBVIOUS
<1>4. 0 \in G
  <2> PICK e \in Seq(Nat) : e = <<>>
    BY EmptySeq
  <2>1. Len(e) = 0
    BY EmptySeq
  <2>3. \A i \in 1..Len(e) : e[i] = 0
    BY ONLY <2>1
  <2>2. Total(e) = 0
    BY <2>3, TotalBounds
  <2> QED
    BY <1>2, <1>3, <2>2
<1>5. ASSUME NEW k \in 1..n, k - 1 \in G PROVE k \in G
  <2>5. k - 1 \in 0..n /\ k \in 0..n
    OBVIOUS
  <2>1. f[k - 1] \in Seq(Nat) /\ s[k] \in Seq(Nat)
    <3>1. f[k - 1] \in Seq(Nat)
      BY ONLY <1>2, <2>5
    <3>2. s[k] \in Seq(Nat)
      BY ONLY k \in 1..n, n = Len(s), s \in Seq(Seq(Nat))
    <3> QED
      BY <3>1, <3>2
  <2> PICK x \in Seq(Nat), y \in Seq(Nat) : x = f[k - 1] /\ y = s[k]
    BY <2>1
  <2>2. Total(x \o y) = Total(x) + Total(y)
    BY TotalConcat
  <2>3. f[k] = x \o y /\ g[k] = Total(x) + Total(y)
    <3>1. Total(f[k - 1]) = g[k - 1]
      BY <1>5
    <3> QED
      BY <1>1, <1>2, <1>3, <3>1
  <2>4. Total(f[k]) = g[k]
    BY <2>2, <2>3
  <2> QED
    BY <2>4, <2>5
<1>6. \A k \in 1..n : k - 1 \in G => k \in G
  BY <1>5
<1>7. \A k \in 0..n : k \in G
  BY ONLY <1>4, <1>6, n \in Nat, Everywhere
<1>8. Total(f[n]) = g[n]
  BY <1>7
<1> QED
  BY <1>1, <1>2, <1>3, <1>8

\* The outputs keep to their room, and use it.
Shared(full, shown) ==
    LET spent == Total(FlattenSeq(shown))
    IN /\ spent <= OutputRoom
       /\ \A k \in DOMAIN full : \A i \in DOMAIN full[k] :
             \/ shown[k][i] = full[k][i] \/ shown[k][i] = OutputCap
             \/ /\ spent = OutputRoom
                /\ \A j \in 1..(k - 1) : \A n \in DOMAIN full[j] :
                      shown[j][n] <= Marker

LEMMA NothingDealt ==
  ASSUME NEW h \in Seq(Seq(Nat)), NEW z,
         z = [given |-> [k \in DOMAIN h |-> [i \in DOMAIN h[k] |-> 0]],
              left |-> OutputRoom]
  PROVE  z \in Dealt(h, OutputRoom, Marker)
<1> PICK N \in Nat : N = Len(h)
  OBVIOUS
<1> PICK none : none = [k \in 1..N |-> [i \in DOMAIN h[k] |-> 0]]
  OBVIOUS
<1>0. z = [given |-> none, left |-> OutputRoom] /\ OutputRoom \in Nat /\ Marker \in Nat
  <2>1. DOMAIN h = 1..N
    OBVIOUS
  <2>2. [k \in DOMAIN h |-> [i \in DOMAIN h[k] |-> 0]] = none
    BY ONLY <2>1, none = [k \in 1..N |-> [i \in DOMAIN h[k] |-> 0]]
  <2>3. z = [given |-> none, left |-> OutputRoom]
    BY <2>2, Zenon
  <2>4. OutputRoom \in Nat /\ Marker \in Nat
    BY ONLY OutputBounds
  <2> QED
    BY <2>3, <2>4
<1>1. ASSUME NEW k \in 1..N
      PROVE  /\ none[k] \in Seq(Nat) /\ Len(none[k]) = Len(h[k])
             /\ \A i \in 1..Len(h[k]) : none[k][i] = 0 /\ h[k][i] \in Nat
  <2> PICK l \in Nat : l = Len(h[k]) /\ DOMAIN h[k] = 1..l
    OBVIOUS
  <2>1. none[k] = [i \in 1..l |-> 0]
    OBVIOUS
  <2>2. none[k] \in [1..l -> Nat] /\ \A i \in 1..l : none[k][i] = 0
    BY ONLY <2>1
  <2>3. none[k] \in Seq(Nat) /\ Len(none[k]) = l
    BY ONLY <2>2, l \in Nat, FunctionSeq
  <2> QED
    BY <2>2, <2>3
<1>2. none \in Seq(Seq(Nat)) /\ Len(none) = N
  <2>1. none = [k \in 1..N |-> none[k]]
    BY ONLY none = [k \in 1..N |-> [i \in DOMAIN h[k] |-> 0]]
  <2>2. none \in [1..N -> Seq(Nat)]
    BY ONLY <1>1, <2>1
  <2> QED
    BY ONLY <2>2, N \in Nat, FunctionSeq
<1>3. Grand(none) = 0
  <2> PICK t : t = Totals(none)
    OBVIOUS
  <2>1. t \in Seq(Nat) /\ Len(t) = N /\ \A k \in 1..N : t[k] = Total(none[k])
    BY ONLY <1>2, t = Totals(none), TotalsAre
  <2>2. \A k \in 1..N : Total(none[k]) = 0
    BY ONLY <1>1, TotalBounds
  <2>3. \A k \in 1..Len(t) : t[k] = 0
    BY ONLY <2>1, <2>2
  <2>4. Total(t) = 0
    BY ONLY <2>1, <2>3, TotalBounds
  <2> QED
    BY <2>4 DEF Grand
<1>4. \A k \in 1..N : \A i \in 1..Len(h[k]) : none[k][i] <= Least(h[k][i], Marker)
  BY ONLY <1>0, <1>1 DEF Least
<1> QED
  BY ONLY <1>0, <1>1, <1>2, <1>3, <1>4, N = Len(h) DEF Dealt

LEMMA ProjectedIs ==
  ASSUME NEW h \in Seq(Seq(Nat)) PROVE Shared(h, ProjectedOutputs(h))
<1> PICK N \in Nat : N = Len(h)
  OBVIOUS
<1>0. {OutputRoom, OutputCap, Marker} \subseteq Nat /\ Marker <= OutputCap
  BY OutputBounds
<1> PICK z : z = [given |-> [k \in DOMAIN h |-> [i \in DOMAIN h[k] |-> 0]],
                  left |-> OutputRoom]
  OBVIOUS
<1> PICK a : a = Extend(h, z, Marker)
  OBVIOUS
<1> PICK e : e = Extend(h, a, OutputCap)
  OBVIOUS
<1>1. a \in Dealt(h, OutputRoom, Marker)
  <2>1. z \in Dealt(h, OutputRoom, Marker)
    BY NothingDealt
  <2> QED
    BY ONLY <1>0, <2>1, h \in Seq(Seq(Nat)), a = Extend(h, z, Marker), ExtendIs
<1>2. /\ a.given \in Seq(Seq(Nat)) /\ a.left \in Nat /\ Len(a.given) = N
      /\ Grand(a.given) + a.left = OutputRoom
      /\ \A k \in 1..N :
            /\ Len(a.given[k]) = Len(h[k])
            /\ \A i \in 1..Len(h[k]) : a.given[k][i] <= Least(h[k][i], Marker)
  BY ONLY <1>1, N = Len(h) DEF Dealt
<1>3. \A k \in 1..N : \A i \in 1..Len(h[k]) :
         h[k][i] \in Nat /\ a.given[k][i] \in Nat
  <2>1. \A k \in 1..N : /\ h[k] \in Seq(Nat) /\ a.given[k] \in Seq(Nat)
                        /\ Len(a.given[k]) = Len(h[k])
    BY ONLY <1>2, h \in Seq(Seq(Nat)), N = Len(h)
  <2> SUFFICES ASSUME NEW k \in 1..N, NEW i \in 1..Len(h[k])
               PROVE  h[k][i] \in Nat /\ a.given[k][i] \in Nat
    OBVIOUS
  <2> PICK x \in Seq(Nat), y \in Seq(Nat) :
          x = h[k] /\ y = a.given[k] /\ Len(x) = Len(y)
    BY <2>1
  <2>2. i \in 1..Len(x) /\ i \in 1..Len(y)
    OBVIOUS
  <2>3. x[i] \in Nat /\ y[i] \in Nat
    BY ONLY <2>2, x \in Seq(Nat), y \in Seq(Nat)
  <2> QED
    BY <2>3
<1>4. ASSUME NEW k \in 1..N, NEW i \in 1..Len(h[k])
      PROVE  /\ a.given[k][i] <= Least(h[k][i], OutputCap)
             /\ a.given[k][i] <= Marker
  <2> PICK x \in Nat, y \in Nat : x = h[k][i] /\ y = a.given[k][i]
    BY ONLY <1>3, k \in 1..N, i \in 1..Len(h[k])
  <2>1. y <= Least(x, Marker)
    BY ONLY <1>2, k \in 1..N, i \in 1..Len(h[k]), x = h[k][i], y = a.given[k][i]
  <2>2. y <= Least(x, OutputCap) /\ y <= Marker
    BY ONLY <1>0, <2>1, x \in Nat, y \in Nat DEF Least
  <2> QED
    BY ONLY <2>2, x = h[k][i], y = a.given[k][i]
<1>5. a \in Dealt(h, OutputRoom, OutputCap)
  BY <1>1, <1>2, <1>4 DEF Dealt
<1>6. e \in Dealt(h, OutputRoom, OutputCap) /\ Served(h, a, OutputCap, e, N)
  BY ONLY <1>0, <1>5, h \in Seq(Seq(Nat)), N = Len(h),
          e = Extend(h, a, OutputCap), ExtendIs
<1> PICK p : p = e.given
  OBVIOUS
<1>7. /\ p \in Seq(Seq(Nat)) /\ e.left \in Nat /\ Len(p) = N
      /\ Grand(p) + e.left = OutputRoom
      /\ \A k \in 1..N :
            /\ Len(p[k]) = Len(h[k])
            /\ \A i \in 1..Len(h[k]) : p[k][i] <= Least(h[k][i], OutputCap)
  BY ONLY <1>6, N = Len(h), p = e.given DEF Dealt
<1>8. ASSUME NEW k \in 1..N, NEW i \in 1..Len(h[k])
      PROVE  Least(h[k][i], p[k][i]) = p[k][i]
  <2>1. p[k][i] \in Nat
    <3>1. p[k] \in Seq(Nat) /\ Len(p[k]) = Len(h[k])
      BY ONLY <1>7, k \in 1..N
    <3> QED
      BY ONLY <3>1, i \in 1..Len(h[k])
  <2> PICK x \in Nat, y \in Nat : x = h[k][i] /\ y = p[k][i]
    BY ONLY <1>3, <2>1, k \in 1..N, i \in 1..Len(h[k])
  <2>2. y <= Least(x, OutputCap)
    BY ONLY <1>7, k \in 1..N, i \in 1..Len(h[k]), x = h[k][i], y = p[k][i]
  <2>3. Least(x, y) = y
    BY ONLY <1>0, <2>2, x \in Nat, y \in Nat DEF Least
  <2> QED
    BY ONLY <2>3, x = h[k][i], y = p[k][i]
<1>9. ProjectedOutputs(h) = p
  <2>1. Allocation(h) = p
    BY DEF Allocation
  <2>2. ProjectedOutputs(h)
          = [k \in DOMAIN h |-> [i \in DOMAIN h[k] |-> Least(h[k][i], p[k][i])]]
    BY ONLY <2>1 DEF ProjectedOutputs
  <2>3. DOMAIN h = 1..N /\ \A k \in 1..N : DOMAIN h[k] = 1..Len(h[k])
    BY ONLY h \in Seq(Seq(Nat)), N = Len(h)
  <2>4. ASSUME NEW k \in 1..N
        PROVE  [i \in 1..Len(h[k]) |-> Least(h[k][i], p[k][i])] = p[k]
    <3>1. p[k] = [i \in 1..Len(h[k]) |-> p[k][i]]
      BY ONLY <1>7, k \in 1..N
    <3> QED
      BY ONLY <1>8, <3>1, k \in 1..N
  <2>5. ProjectedOutputs(h)
          = [k \in 1..N |-> [i \in 1..Len(h[k]) |-> Least(h[k][i], p[k][i])]]
    BY ONLY <2>2, <2>3
  <2>6. ProjectedOutputs(h) = [k \in 1..N |-> p[k]]
    BY ONLY <2>4, <2>5
  <2>7. p = [k \in 1..N |-> p[k]]
    BY ONLY <1>7
  <2> QED
    BY <2>6, <2>7
<1>10. Total(FlattenSeq(p)) + e.left = OutputRoom /\ Total(FlattenSeq(p)) \in Nat
  BY ONLY <1>7, FlatTotal, TotalsAre
<1>11. ASSUME NEW k \in 1..N, NEW i \in 1..Len(h[k])
       PROVE  \/ p[k][i] = h[k][i] \/ p[k][i] = OutputCap
              \/ /\ e.left = 0
                 /\ \A j \in 1..(k - 1) : \A n \in 1..Len(h[j]) : p[j][n] <= Marker
  <2>1. \/ Sated(h, p, k, OutputCap)
        \/ e.left = 0 /\ \A j \in 1..(k - 1) : p[j] = a.given[j]
    <3>1. k \in (Len(h) - N + 1)..Len(h)
      BY ONLY N = Len(h), N \in Nat, k \in 1..N
    <3> QED
      BY ONLY <1>6, <3>1, p = e.given DEF Served
  <2>2. CASE Sated(h, p, k, OutputCap)
    BY ONLY <2>2, i \in 1..Len(h[k]) DEF Sated, Least
  <2>3. CASE e.left = 0 /\ \A j \in 1..(k - 1) : p[j] = a.given[j]
    <3>1. \A j \in 1..(k - 1) : j \in 1..N
      BY ONLY N \in Nat, k \in 1..N
    <3> QED
      BY ONLY <1>4, <2>3, <3>1
  <2> QED
    BY ONLY <2>1, <2>2, <2>3
<1>12. e.left = 0 => Total(FlattenSeq(p)) = OutputRoom
  BY ONLY <1>7, <1>10
<1>13. Total(FlattenSeq(p)) <= OutputRoom
  BY ONLY <1>7, <1>10
<1>14. DOMAIN h = 1..N /\ \A k \in 1..N : DOMAIN h[k] = 1..Len(h[k])
  BY ONLY h \in Seq(Seq(Nat)), N = Len(h)
<1>15. \A k \in 1..N : \A j \in 1..(k - 1) : j \in 1..N
  BY ONLY N \in Nat
<1> QED
  BY ONLY <1>9, <1>11, <1>12, <1>13, <1>14, <1>15 DEF Shared

\* The outputs of a prompt share its room, and use it: one is cut only when
\* the room is spent, and then no older one has more than its mark.
THEOREM RoomShared == Spec => []OutputsShared
<1>1. PromptInv => OutputsShared
  <2> SUFFICES ASSUME PromptInv, pc = "estimate" PROVE OutputsShared
    BY DEF OutputsShared
  <2>1. ConversationInv
    BY DEF PromptInv
  <2>2. /\ context = [rounds |-> Shown(CurrentRounds), covers |-> latest.covers]
        /\ CurrentRounds \in Seq(RoundRecords)
    BY <2>1, CurrentIs DEF ConversationInv, ContextHolds
  <2> PICK c \in Seq(RoundRecords) : c = CurrentRounds
    BY <2>2
  <2> PICK N \in Nat : N = Len(c)
    OBVIOUS
  <2> PICK full : full = Outputs(c)
    OBVIOUS
  <2> PICK shown : shown = ProjectedOutputs(full)
    OBVIOUS
  <2>3. DOMAIN c = 1..N /\ \A k \in 1..N : c[k] \in RoundRecords
    OBVIOUS
  <2>4. \A k \in 1..N : c[k].outputs \in Seq(Nat)
    BY ONLY <2>3 DEF RoundRecords
  <2>5. full = [k \in 1..N |-> c[k].outputs]
    BY ONLY <2>3, full = Outputs(c) DEF Outputs
  <2>6. full \in Seq(Seq(Nat)) /\ Len(full) = N
    <3>1. full \in [1..N -> Seq(Nat)]
      BY ONLY <2>4, <2>5
    <3> QED
      BY ONLY <3>1, N \in Nat, FunctionSeq
  <2>7. Shared(full, shown)
    BY ONLY <2>6, shown = ProjectedOutputs(full), ProjectedIs
  <2>8. Outputs(Shown(c)) = shown
    <3>1. Shown(c) = [k \in 1..N |-> [c[k] EXCEPT !.outputs = shown[k]]]
      BY <2>3 DEF Shown
    <3>2. Outputs(Shown(c)) = [k \in 1..N |-> shown[k]]
      <4>1. DOMAIN Shown(c) = 1..N /\ \A k \in 1..N : Shown(c)[k].outputs = shown[k]
        BY ONLY <2>3, <3>1 DEF RoundRecords
      <4> QED
        BY ONLY <4>1 DEF Outputs
    <3>3. shown = [k \in 1..N |-> shown[k]]
      <4>1. DOMAIN full = 1..N
        BY ONLY <2>5
      <4>2. shown = [k \in 1..N |-> [i \in DOMAIN full[k] |->
                                        Least(full[k][i], Allocation(full)[k][i])]]
        BY ONLY <4>1, shown = ProjectedOutputs(full) DEF ProjectedOutputs
      <4> QED
        BY ONLY <4>2
    <3> QED
      BY ONLY <3>2, <3>3
  <2>9. Outputs(CurrentRounds) = full /\ Outputs(context.rounds) = shown
    BY <2>2, <2>8
  <2> QED
    BY ONLY <2>7, <2>9 DEF Shared, OutputsShared
<1> QED
  BY <1>1, PromptInvariant, PTL

=============================================================================
