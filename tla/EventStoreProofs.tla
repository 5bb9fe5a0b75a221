-------------------------- MODULE EventStoreProofs ---------------------------
(***************************************************************************)
(* Theorems about the lock of the event store and about the store.         *)
(***************************************************************************)
EXTENDS EventStore, FiniteSetTheorems, FunctionTheorems, SequenceTheorems, TLAPS

\* The chain of each key holds exactly its live tasks, each waits for all
\* that were called before it, and of two one waits for the other.
Chained ==
    /\ \A k \in Keys : /\ queues[k].tail = Of(k)
                       /\ queues[k].pending = Cardinality(Of(k))
                       /\ queues[k].there <=> Of(k) # {}
    /\ \A t \in Tasks : prior[t] \subseteq Of(key[t]) \ {t}
    /\ \A t \in Tasks : key[t] = NoKey => prior[t] = {}
    /\ \A t, u \in Live : key[t] = key[u] /\ t # u =>
                              t \in prior[u] \/ u \in prior[t]
    /\ \A t \in started : key[t] # NoKey /\ prior[t] = {}

FifoInv == FifoType /\ Chained

LEMMA FiniteOf == \A k : IsFiniteSet(Of(k))
  BY KeyAssumption, FS_Subset DEF Of

LEMMA FifoStarts == FifoInit => FifoInv
<1> SUFFICES ASSUME FifoInit PROVE FifoInv
  OBVIOUS
<1>1. \A k \in Keys : Of(k) = {}
  BY KeyAssumption DEF FifoInit, Of
<1>2. FifoType
  BY DEF FifoInit, FifoType, NoEntry, Entries
<1>3. Chained
  BY <1>1, FS_EmptySet DEF FifoInit, Chained, Live, NoEntry
<1> QED
  BY <1>2, <1>3 DEF FifoInv

LEMMA EnterKeeps ==
  ASSUME FifoInv, NEW t \in Tasks, NEW k \in Keys, Enter(t, k)
  PROVE  FifoInv'
<1> USE DEF FifoInv, FifoType
<1>1. Of(k)' = Of(k) \cup {t} /\ t \notin Of(k)
  BY KeyAssumption DEF Enter, Of
<1>2. \A j \in Keys \ {k} : Of(j)' = Of(j)
  BY KeyAssumption DEF Enter, Of
<1>3. Cardinality(Of(k))' = Cardinality(Of(k)) + 1 /\ Cardinality(Of(k)) \in Nat
  BY <1>1, FiniteOf, FS_AddElement, FS_CardinalityType
<1>4. FifoType'
  BY DEF Enter, Entries
<1>5. queues[k].tail = Of(k) /\ queues[k].pending = Cardinality(Of(k))
  BY DEF Chained
<1>6. queues' = [queues EXCEPT ![k] =
           [there |-> TRUE, tail |-> queues[k].tail \cup {t},
            pending |-> queues[k].pending + 1]]
  BY DEF Enter
<1>7. ASSUME NEW j \in Keys
      PROVE  /\ queues'[j].tail = Of(j)'
             /\ queues'[j].pending = Cardinality(Of(j))'
             /\ queues'[j].there <=> Of(j)' # {}
  <2>1. CASE j = k
    BY <2>1, <1>1, <1>3, <1>5, <1>6
  <2>2. CASE j # k
    BY <2>2, <1>2, <1>6 DEF Chained
  <2> QED
    BY <2>1, <2>2
<1>8. ASSUME NEW u \in Tasks
      PROVE  prior'[u] \subseteq {w \in Tasks : key'[w] = key'[u]} \ {u}
  <2>1. CASE u = t
    <3>1. prior'[u] = Of(k) /\ key'[u] = k
      BY <2>1, <1>5 DEF Enter
    <3> QED
      BY <3>1, <2>1, <1>1 DEF Of
  <2>2. CASE u # t
    <3>1. prior'[u] = prior[u] /\ key'[u] = key[u]
      BY <2>2 DEF Enter
    <3>2. prior[u] \subseteq Of(key[u]) \ {u}
      BY DEF Chained
    <3>3. CASE key[u] = NoKey
      BY <3>1, <3>3 DEF Chained
    <3>4. CASE key[u] # NoKey
      BY <3>1, <3>2, <3>4 DEF Enter, Of
    <3> QED
      BY <3>3, <3>4
  <2> QED
    BY <2>1, <2>2
<1>9. \A u \in Tasks : key'[u] = NoKey => prior'[u] = {}
  BY KeyAssumption DEF Enter, Chained
<1>10. ASSUME NEW u \in Tasks, NEW w \in Tasks, key'[u] = key'[w],
              key'[u] # NoKey, u # w
       PROVE  u \in prior'[w] \/ w \in prior'[u]
  <2>1. CASE u # t /\ w # t
    BY <1>10, <2>1 DEF Enter, Chained, Live
  <2>2. CASE u = t
    <3>1. w \in Of(k)
      BY <1>10, <2>2, <1>1 DEF Enter, Of
    <3> QED
      BY <3>1, <2>2, <1>5 DEF Enter
  <2>3. CASE w = t
    <3>1. u \in Of(k)
      BY <1>10, <2>3, <1>1 DEF Enter, Of
    <3> QED
      BY <3>1, <2>3, <1>5 DEF Enter
  <2> QED
    BY <2>1, <2>2, <2>3
<1>11. \A u \in started' : key'[u] # NoKey /\ prior'[u] = {}
  BY DEF Enter, Chained
<1>12. Chained'
  BY <1>7, <1>8, <1>9, <1>10, <1>11 DEF Chained, Live, Of
<1> QED
  BY <1>4, <1>12

LEMMA StartKeeps ==
  ASSUME FifoInv, NEW t \in Tasks, Start(t)
  PROVE  FifoInv'
  BY DEF FifoInv, FifoType, Chained, Start, Of, Live

LEMMA FinishKeeps ==
  ASSUME FifoInv, NEW t \in Tasks, Finish(t)
  PROVE  FifoInv'
<1> USE DEF FifoInv, FifoType
<1>0. t \in started /\ key[t] \in Keys /\ prior[t] = {}
  BY DEF Finish, Chained
<1>1. PICK k \in Keys : k = key[t] /\ k # NoKey
  BY <1>0, KeyAssumption
<1>2. key' = [key EXCEPT ![t] = NoKey] /\ started' = started \ {t}
      /\ prior' = [u \in Tasks |-> IF u = t THEN {} ELSE prior[u] \ {t}]
  BY DEF Finish
<1>3. Of(k)' = Of(k) \ {t} /\ t \in Of(k)
  BY <1>1, <1>2, KeyAssumption DEF Of
<1>4. \A j \in Keys \ {k} : Of(j)' = Of(j)
  BY <1>1, <1>2, KeyAssumption DEF Of
<1>5. /\ Cardinality(Of(k))' = Cardinality(Of(k)) - 1
      /\ Cardinality(Of(k)) \in Nat \ {0} /\ IsFiniteSet(Of(k)')
  BY <1>3, FiniteOf, FS_RemoveElement, FS_CardinalityType, FS_EmptySet
<1>6. /\ queues[k].tail = Of(k) /\ queues[k].pending = Cardinality(Of(k))
      /\ queues[k].there
  BY <1>1, <1>3 DEF Chained
<1> DEFINE left == [there |-> TRUE, tail |-> queues[k].tail \ {t},
                    pending |-> queues[k].pending - 1]
<1>7. queues' = [j \in Keys |-> IF j = k THEN DropEntry(left) ELSE queues[j]]
  BY <1>1 DEF Finish
<1>8. left = [there |-> TRUE, tail |-> Of(k)', pending |-> Cardinality(Of(k))']
  BY <1>3, <1>5, <1>6
<1>9. Cardinality(Of(k))' = 0 <=> Of(k)' = {}
  BY <1>5, FS_EmptySet
<1>10. /\ DropEntry(left) \in Entries
       /\ DropEntry(left).tail = Of(k)'
       /\ DropEntry(left).pending = Cardinality(Of(k))'
       /\ DropEntry(left).there <=> Of(k)' # {}
  <2>1. Cardinality(Of(k))' \in Nat /\ Of(k)' \in SUBSET Tasks
    BY <1>3, <1>5 DEF Of
  <2>2. CASE Of(k)' = {}
    BY <2>1, <2>2, <1>8, <1>9 DEF DropEntry, NoEntry, Entries
  <2>3. CASE Of(k)' # {}
    BY <2>1, <2>3, <1>8, <1>9 DEF DropEntry, Entries
  <2> QED
    BY <2>2, <2>3
<1>11. ASSUME NEW j \in Keys
       PROVE  /\ queues'[j] \in Entries
              /\ queues'[j].tail = Of(j)'
              /\ queues'[j].pending = Cardinality(Of(j))'
              /\ queues'[j].there <=> Of(j)' # {}
  <2>1. CASE j = k
    BY <2>1, <1>7, <1>10
  <2>2. CASE j # k
    BY <2>2, <1>4, <1>7 DEF Chained
  <2> QED
    BY <2>1, <2>2
<1>12. ASSUME NEW u \in Tasks
       PROVE  prior'[u] \subseteq {w \in Tasks : key'[w] = key'[u]} \ {u}
  BY <1>2 DEF Chained, Of
<1>13. \A u \in Tasks : key'[u] = NoKey => prior'[u] = {}
  BY <1>2 DEF Chained
<1>14. ASSUME NEW u \in Tasks, NEW w \in Tasks, key'[u] = key'[w],
              key'[u] # NoKey, u # w
       PROVE  u \in prior'[w] \/ w \in prior'[u]
  BY <1>2, <1>14 DEF Chained, Live
<1>15. \A u \in started' : key'[u] # NoKey /\ prior'[u] = {}
  BY <1>2 DEF Chained
<1>16. FifoType'
  BY <1>2, <1>7, <1>11
<1>17. Chained'
  BY <1>11, <1>12, <1>13, <1>14, <1>15 DEF Chained, Live, Of
<1> QED
  BY <1>16, <1>17

LEMMA RestartKeeps ==
  ASSUME FifoInv, Restart
  PROVE  FifoInv'
<1>1. \A k \in Keys : Of(k)' = {}
  BY KeyAssumption DEF Restart, Of
<1>2. FifoType'
  BY DEF Restart, FifoType, NoEntry, Entries
<1>3. Chained'
  BY <1>1, FS_EmptySet DEF Restart, Chained, Live, NoEntry
<1> QED
  BY <1>2, <1>3 DEF FifoInv

LEMMA FifoSteps ==
  ASSUME FifoInv, [FifoNext]_fifo
  PROVE  FifoInv'
<1>1. CASE UNCHANGED fifo
  <2>1. \A k : Of(k)' = Of(k)
    BY <1>1 DEF Of, fifo
  <2>2. Live' = Live
    BY <1>1 DEF Live, fifo
  <2>3. FifoType'
    BY <1>1 DEF FifoInv, FifoType, fifo
  <2>4. Chained'
    BY <1>1, <2>1, <2>2 DEF FifoInv, Chained, fifo
  <2> QED
    BY <2>3, <2>4 DEF FifoInv
<1>2. CASE FifoNext
  BY <1>2, EnterKeeps, StartKeeps, FinishKeeps, RestartKeeps DEF FifoNext
<1> QED
  BY <1>1, <1>2

\* Every step of the store uses its lock the way the lock is meant to be
\* used: src/lib/storage/event-store.ts reaches mutex.ts only through run.
LEMMA StoreStepsLock ==
  ASSUME [Next]_vars
  PROVE  [FifoNext]_fifo
<1>1. \A t \in Tasks : Return(t) => FifoNext
  BY DEF Return, FifoNext
<1>2. \A t \in Tasks : Fails(t) => FifoNext
  BY <1>1 DEF Fails
<1>3. \A l : \A t \in Tasks : Then(t, l) => UNCHANGED fifo
  BY DEF Then
<1>4. \A t \in Tasks : Loaded(t) => [FifoNext]_fifo
  BY <1>1 DEF Loaded
<1>5. ASSUME Calls PROVE FifoNext
  <2>1. \A kind \in Kinds, s \in Sessions \cup {Root} : KeyOf(kind, s) \in Keys
    BY StoreAssumption DEF KeyOf
  <2> QED
    BY <1>5, <2>1 DEF Calls, Call, FifoNext
<1>6. ASSUME NEW t \in Tasks, Begin(t) PROVE FifoNext
  BY <1>6 DEF Begin, FifoNext
<1>7. ASSUME NEW t \in Tasks, CreateStep(t) PROVE [FifoNext]_fifo
  BY <1>7, <1>1, <1>2, <1>3
  DEF CreateStep, MakeTemporary, WriteFiles, Publish, Created, RemoveTemporary
<1>8. ASSUME NEW t \in Tasks, DeleteStep(t) PROVE [FifoNext]_fifo
  BY <1>8, <1>1, <1>2, <1>3
  DEF DeleteStep, CheckSession, Unlink, SyncUnlinked, RemoveTombstone, Deleted
<1>9. ASSUME NEW t \in Tasks, EventStep(t) PROVE [FifoNext]_fifo
  BY <1>9, <1>1, <1>2, <1>3, <1>4
  DEF EventStep, Load, Truncate, SyncRepaired, OpenToAppend, Refuse,
      WriteLine, Appended
<1>10. ASSUME NEW t \in Tasks, RootStep(t) PROVE [FifoNext]_fifo
  BY <1>10, <1>1, <1>2, <1>3
  DEF RootStep, ReadDirectory, ListOne, Listed, Sweep, Swept, Initialized
<1>11. ASSUME Crash PROVE FifoNext
  BY <1>11 DEF Crash, FifoNext
<1>12. CASE UNCHANGED vars
  BY <1>12 DEF vars
<1> QED
  BY <1>5, <1>6, <1>7, <1>8, <1>9, <1>10, <1>11, <1>12 DEF Next, Work

\* The lock's invariant holds throughout: event-store.ts with mutex.ts.
THEOREM LockInvariant == Spec => []FifoInv
<1>1. Init => FifoInv
  BY FifoStarts DEF Init
<1>2. FifoInv /\ [Next]_vars => FifoInv'
  BY FifoSteps, StoreStepsLock
<1> QED
  BY <1>1, <1>2, PTL DEF Spec

\* No two operations under one key run at the same time, for any number of
\* sessions and callers: KeyedFifoExecutor.run of mutex.ts.
THEOREM OneAtATime == Spec => []Exclusive
<1>1. FifoInv => Exclusive
  BY DEF FifoInv, FifoType, Chained, Exclusive, Live
<1> QED
  BY <1>1, LockInvariant, PTL

\* The Map of the executor holds the keys in use and no others.
THEOREM NoEntryLeaks == Spec => []EntriesInUse
<1>1. FifoInv => EntriesInUse
  BY DEF FifoInv, Chained, EntriesInUse
<1> QED
  BY <1>1, LockInvariant, PTL

-----------------------------------------------------------------------------
(* The order of the calls.                                                 *)

\* p says for each task of S what it waits for: for those before it in a line.
Line(S, p) ==
    /\ IsFiniteSet(S)
    /\ \A t \in S : p[t] \subseteq S \ {t}
    /\ \A t, u \in S : t # u => t \in p[u] \/ u \in p[t]
    /\ \A t, u \in S : t \in p[u] => p[t] \subseteq p[u] \ {t}

Ahead(p, t) == Cardinality(p[t])

\* The line as a sequence, as Waiting has it.
QueueOf(S, p) ==
    CHOOSE q \in [1..Cardinality(S) -> S] :
       \A i, j \in DOMAIN q : i < j =>
          /\ q[i] # q[j]
          /\ Cardinality(p[q[i]]) <= Cardinality(p[q[j]])

LEMMA AheadOfLater ==
  ASSUME NEW S, NEW p, Line(S, p), NEW t \in S, NEW u \in S
  PROVE  /\ Ahead(p, t) \in Nat
         /\ t \in p[u] => Ahead(p, t) < Ahead(p, u)
<1>1. \A v \in S : IsFiniteSet(p[v]) /\ Ahead(p, v) \in Nat
  BY FS_Subset, FS_CardinalityType DEF Line, Ahead
<1>2. ASSUME t \in p[u] PROVE Ahead(p, t) < Ahead(p, u)
  <2>1. p[t] \in SUBSET (p[u] \ {t})
    BY <1>2 DEF Line
  <2>2. /\ IsFiniteSet(p[u] \ {t})
        /\ Cardinality(p[u] \ {t}) = Cardinality(p[u]) - 1
    BY <1>1, <1>2, FS_RemoveElement
  <2>3. Cardinality(p[t]) <= Cardinality(p[u] \ {t})
    BY <2>1, <2>2, FS_Subset
  <2> QED
    BY <1>1, <2>2, <2>3 DEF Ahead
<1> QED
  BY <1>1, <1>2

LEMMA AheadDiffers ==
  ASSUME NEW S, NEW p, Line(S, p), NEW t \in S, NEW u \in S
  PROVE  /\ Ahead(p, t) = Ahead(p, u) => t = u
         /\ Ahead(p, t) < Ahead(p, u) => t \in p[u]
<1>1. /\ Ahead(p, t) \in Nat /\ Ahead(p, u) \in Nat
      /\ t \in p[u] => Ahead(p, t) < Ahead(p, u)
      /\ u \in p[t] => Ahead(p, u) < Ahead(p, t)
  BY AheadOfLater
<1>2. t # u => t \in p[u] \/ u \in p[t]
  BY DEF Line
<1> QED
  BY <1>1, <1>2

\* Every place of the line is taken.
LEMMA PlacesTaken ==
  ASSUME NEW S, NEW p, Line(S, p)
  PROVE  /\ Cardinality(S) \in Nat
         /\ \A t \in S : Ahead(p, t) + 1 \in 1..Cardinality(S)
         /\ \A i \in 1..Cardinality(S) : \E t \in S : Ahead(p, t) + 1 = i
<1> PICK N \in Nat : N = Cardinality(S)
  BY FS_CardinalityType DEF Line
<1> PICK F : F = [t \in S |-> Ahead(p, t) + 1]
  OBVIOUS
<1>1. IsFiniteSet(S)
  BY DEF Line
<1>2. ASSUME NEW t \in S PROVE Ahead(p, t) + 1 \in 1..N
  <2>1. p[t] \in SUBSET (S \ {t})
    BY DEF Line
  <2>2. IsFiniteSet(S \ {t}) /\ Cardinality(S \ {t}) = N - 1
    BY <1>1, FS_RemoveElement
  <2>3. Ahead(p, t) <= N - 1
    BY <2>1, <2>2, FS_Subset DEF Ahead
  <2>4. Ahead(p, t) \in Nat
    BY AheadOfLater
  <2> QED
    BY <2>3, <2>4
<1>3. F \in [S -> 1..N]
  BY <1>2
<1>4. \A t, u \in S : F[t] = F[u] => t = u
  <2>1. \A t \in S : Ahead(p, t) \in Nat /\ F[t] = Ahead(p, t) + 1
    BY AheadOfLater
  <2> QED
    BY <2>1, AheadDiffers
<1>5. F \in Injection(S, 1..N)
  BY <1>3, <1>4, Fun_IsInj
<1>6. IsFiniteSet(1..N) /\ Cardinality(1..N) = N
  BY FS_Interval
<1>7. F \in Surjection(S, 1..N)
  BY <1>5, <1>6, FS_Injection
<1>8. \A i \in 1..N : \E t \in S : F[t] = i
  BY <1>7 DEF Surjection
<1> QED
  BY <1>2, <1>8

InOrder(p, N, q) ==
    \A i, j \in 1..N : i < j => q[i] # q[j] /\ Ahead(p, q[i]) <= Ahead(p, q[j])

\* In a sorted sequence of the line each task has as many before it as it
\* waits for.
LEMMA Sorted ==
  ASSUME NEW S, NEW p, Line(S, p), NEW N \in Nat, N = Cardinality(S),
         NEW q \in [1..N -> S], InOrder(p, N, q)
  PROVE  \A i \in 1..N : Ahead(p, q[i]) = i - 1
<1>1. ASSUME NEW i \in 1..N, NEW j \in 1..N, i < j
      PROVE  Ahead(p, q[i]) < Ahead(p, q[j])
  <2>1. q[i] # q[j] /\ Ahead(p, q[i]) <= Ahead(p, q[j])
    BY <1>1 DEF InOrder
  <2>2. q[i] \in S /\ q[j] \in S
    OBVIOUS
  <2>3. Ahead(p, q[i]) \in Nat /\ Ahead(p, q[j]) \in Nat
        /\ Ahead(p, q[i]) # Ahead(p, q[j])
    BY <2>1, <2>2, AheadOfLater, AheadDiffers
  <2> QED
    BY <2>1, <2>3
<1>2. \A i, j \in 1..N : q[i] = q[j] => i = j
  BY DEF InOrder
<1>3. q \in Injection(1..N, S)
  BY <1>2, Fun_IsInj
<1>4. Cardinality(1..N) = N /\ IsFiniteSet(S)
  BY FS_Interval DEF Line
<1>5. q \in Surjection(1..N, S)
  BY <1>3, <1>4, FS_Injection
<1>6. \A t \in S : \E j \in 1..N : q[j] = t
  BY <1>5, Fun_SurjectionProperties
<1> SUFFICES ASSUME NEW i \in 1..N PROVE Ahead(p, q[i]) = i - 1
  OBVIOUS
<1>7. 1..(i - 1) \subseteq 1..N /\ i - 1 \in Nat
      /\ \A j \in 1..N : j < i <=> j \in 1..(i - 1)
  OBVIOUS
<1> PICK r : r = [j \in 1..(i - 1) |-> q[j]]
  OBVIOUS
<1>8. r \in [1..(i - 1) -> p[q[i]]]
  <2>1. ASSUME NEW j \in 1..(i - 1) PROVE q[j] \in p[q[i]]
    <3>1. j \in 1..N /\ j < i
      BY <1>7
    <3>2. Ahead(p, q[j]) < Ahead(p, q[i])
      BY <1>1, <3>1
    <3> QED
      BY <3>1, <3>2, AheadDiffers
  <2> QED
    BY <2>1
<1>9. \A j, k \in 1..(i - 1) : r[j] = r[k] => j = k
  BY <1>2, <1>7
<1>10. ASSUME NEW t \in p[q[i]] PROVE \E j \in 1..(i - 1) : r[j] = t
  <2>1. t \in S
    BY DEF Line
  <2> PICK j \in 1..N : q[j] = t
    BY <1>6, <2>1
  <2>2. Ahead(p, q[j]) < Ahead(p, q[i]) /\ Ahead(p, q[j]) \in Nat
        /\ Ahead(p, q[i]) \in Nat
    BY AheadOfLater
  <2>3. j # i /\ ~(i < j)
    BY <1>1, <2>2
  <2>4. j < i
    BY <2>3
  <2> QED
    BY <1>7, <2>4
<1>11. r \in Bijection(1..(i - 1), p[q[i]])
  <2>1. r \in Injection(1..(i - 1), p[q[i]])
    BY <1>8, <1>9, Fun_IsInj
  <2>2. r \in Surjection(1..(i - 1), p[q[i]])
    BY <1>8, <1>10, Fun_IsSurj
  <2> QED
    BY <2>1, <2>2 DEF Bijection
<1>12. IsFiniteSet(1..(i - 1)) /\ Cardinality(1..(i - 1)) = i - 1
  BY <1>7, FS_Interval
<1>13. Cardinality(p[q[i]]) = Cardinality(1..(i - 1))
  BY <1>11, <1>12, FS_Bijection DEF ExistsBijection
<1> QED
  BY <1>12, <1>13 DEF Ahead

LEMMA QueueIs ==
  ASSUME NEW S, NEW p, Line(S, p), NEW N \in Nat, N = Cardinality(S)
  PROVE  /\ QueueOf(S, p) \in [1..N -> S]
         /\ \A i \in 1..N : Ahead(p, QueueOf(S, p)[i]) = i - 1
<1> DEFINE IsSorted(q) == \A i, j \in DOMAIN q : i < j =>
          /\ q[i] # q[j]
          /\ Cardinality(p[q[i]]) <= Cardinality(p[q[j]])
<1>1. \A i \in 1..N : \E t \in S : Ahead(p, t) + 1 = i
  BY PlacesTaken
<1> PICK q : q = [i \in 1..N |-> CHOOSE t \in S : Ahead(p, t) + 1 = i]
  OBVIOUS
<1>2. \A i \in 1..N : q[i] \in S /\ Ahead(p, q[i]) + 1 = i
  BY <1>1
<1>3. q \in [1..N -> S]
  BY <1>2
<1>4. IsSorted(q)
  <2> SUFFICES ASSUME NEW i \in 1..N, NEW j \in 1..N, i < j
               PROVE  q[i] # q[j] /\ Ahead(p, q[i]) <= Ahead(p, q[j])
    BY <1>3 DEF Ahead
  <2>1. Ahead(p, q[i]) \in Nat /\ Ahead(p, q[j]) \in Nat
    BY <1>2, AheadOfLater
  <2>2. Ahead(p, q[i]) + 1 = i /\ Ahead(p, q[j]) + 1 = j
    BY <1>2
  <2>3. Ahead(p, q[i]) <= Ahead(p, q[j]) /\ Ahead(p, q[i]) # Ahead(p, q[j])
    BY <2>1, <2>2
  <2> QED
    BY <2>3
<1> PICK r : r = QueueOf(S, p)
  OBVIOUS
<1>5. r \in [1..N -> S] /\ IsSorted(r)
  <2>1. \E x \in [1..N -> S] : IsSorted(x)
    BY <1>3, <1>4
  <2>2. r = CHOOSE x \in [1..N -> S] : IsSorted(x)
    BY DEF QueueOf
  <2> HIDE DEF IsSorted
  <2> QED
    BY <2>1, <2>2
<1>6. InOrder(p, N, r)
  BY <1>5 DEF Ahead, InOrder
<1>7. r \in [1..N -> S]
  BY <1>5
<1> HIDE DEF IsSorted
<1>8. \A i \in 1..N : Ahead(p, r[i]) = i - 1
  <2>1. Line(S, p) /\ N \in Nat /\ N = Cardinality(S)
    OBVIOUS
  <2>2. \A x \in [1..N -> S] : InOrder(p, N, x) =>
           \A i \in 1..N : Ahead(p, x[i]) = i - 1
    BY <2>1, Sorted, ZenonT(60)
  <2> QED
    BY <1>6, <1>7, <2>2
<1> QED
  BY <1>7, <1>8

LEMMA QueueUnique ==
  ASSUME NEW S, NEW p, Line(S, p), NEW N \in Nat, N = Cardinality(S),
         NEW r \in [1..N -> S], \A i \in 1..N : Ahead(p, r[i]) = i - 1
  PROVE  r = QueueOf(S, p)
<1> PICK q : q = QueueOf(S, p)
  OBVIOUS
<1>1. q \in [1..N -> S] /\ \A i \in 1..N : Ahead(p, q[i]) = i - 1
  BY QueueIs
<1>2. ASSUME NEW i \in 1..N PROVE r[i] = q[i]
  <2>1. Ahead(p, r[i]) = Ahead(p, q[i])
    BY <1>1
  <2>2. r[i] \in S /\ q[i] \in S
    BY <1>1
  <2> QED
    BY <2>1, <2>2, AheadDiffers
<1> QED
  BY <1>1, <1>2


\* Waiting is transitive, and nobody waits for one that waits for him.
Ordered ==
    \A t, u \in Tasks : t \in prior[u] => prior[t] \subseteq prior[u] \ {t}

QueueInv == FifoInv /\ Ordered

LEMMA OrderSteps ==
  ASSUME QueueInv, [FifoNext]_fifo
  PROVE  QueueInv'
<1>1. FifoInv'
  BY FifoSteps DEF QueueInv
<1>2. /\ \A u \in Tasks : prior[u] \in SUBSET (Of(key[u]) \ {u})
      /\ \A u \in Tasks : key[u] = NoKey => prior[u] = {}
      /\ \A k \in Keys : queues[k].tail = Of(k)
      /\ prior \in [Tasks -> SUBSET Tasks]
  BY DEF QueueInv, FifoInv, FifoType, Chained
<1>3. ASSUME NEW t \in Tasks, NEW k \in Keys, Enter(t, k) PROVE Ordered'
  <2>1. /\ key[t] = NoKey /\ k # NoKey /\ prior'[t] = Of(k)
        /\ \A u \in Tasks : u # t => prior'[u] = prior[u]
    BY <1>2, <1>3, KeyAssumption DEF Enter
  <2> SUFFICES ASSUME NEW w \in Tasks, NEW u \in Tasks, w \in prior'[u]
               PROVE  prior'[w] \subseteq prior'[u] \ {w}
    BY DEF Ordered
  <2>2. CASE u = t
    <3>1. w \in Of(k) /\ w # t /\ key[w] = k
      BY <2>1, <2>2 DEF Of
    <3> QED
      BY <1>2, <2>1, <2>2, <3>1
  <2>3. CASE u # t
    <3>1. w \in prior[u] /\ key[u] # NoKey /\ w \in Of(key[u])
      BY <1>2, <2>1, <2>3
    <3>2. w # t
      BY <2>1, <3>1 DEF Of
    <3> QED
      BY <2>1, <2>3, <3>1, <3>2 DEF QueueInv, Ordered
  <2> QED
    BY <2>2, <2>3
<1>4. ASSUME NEW t \in Tasks, Finish(t) PROVE Ordered'
  <2>1. prior' = [u \in Tasks |-> IF u = t THEN {} ELSE prior[u] \ {t}]
    BY <1>4 DEF Finish
  <2> SUFFICES ASSUME NEW w \in Tasks, NEW u \in Tasks, w \in prior'[u]
               PROVE  prior'[w] \subseteq prior'[u] \ {w}
    BY DEF Ordered
  <2>2. u # t /\ w # t /\ w \in prior[u] /\ prior'[u] = prior[u] \ {t}
        /\ prior'[w] = prior[w] \ {t}
    BY <2>1
  <2>3. prior[w] \subseteq prior[u] \ {w}
    BY <2>2 DEF QueueInv, Ordered
  <2> QED
    BY <2>2, <2>3
<1>5. ASSUME Restart PROVE Ordered'
  <2>1. \A w, u \in Tasks : w \notin prior'[u]
    BY <1>5 DEF Restart
  <2> QED
    BY <2>1 DEF Ordered
<1>6. ASSUME prior' = prior PROVE Ordered'
  <2> SUFFICES ASSUME NEW w \in Tasks, NEW u \in Tasks, w \in prior'[u]
               PROVE  prior'[w] \subseteq prior'[u] \ {w}
    BY DEF Ordered
  <2>1. prior[w] \subseteq prior[u] \ {w}
    BY <1>6 DEF QueueInv, Ordered
  <2> QED
    BY <1>6, <2>1
<1>7. Ordered'
  BY <1>3, <1>4, <1>5, <1>6 DEF FifoNext, Start, fifo
<1> QED
  BY <1>1, <1>7 DEF QueueInv

LEMMA KeysLine == QueueInv => \A k \in Keys : Line(Of(k), prior)
<1> SUFFICES ASSUME QueueInv, NEW k \in Keys PROVE Line(Of(k), prior)
  OBVIOUS
<1>1. \A t \in Of(k) : t \in Tasks /\ key[t] = k /\ t \in Live
  BY KeyAssumption DEF Of, Live
<1>2. \A t \in Of(k) : prior[t] \subseteq Of(k) \ {t}
  BY <1>1 DEF QueueInv, FifoInv, Chained
<1>3. \A t, u \in Of(k) : t # u => t \in prior[u] \/ u \in prior[t]
  BY <1>1 DEF QueueInv, FifoInv, Chained
<1>4. \A t, u \in Of(k) : t \in prior[u] => prior[t] \subseteq prior[u] \ {t}
  BY <1>1 DEF QueueInv, Ordered
<1> QED
  BY <1>2, <1>3, <1>4, FiniteOf DEF Line

LEMMA KeysLineNext == QueueInv' => \A k \in Keys : Line(Of(k)', prior')
<1>1. QueueInv' => (\A k \in Keys : Line(Of(k), prior))'
  BY KeysLine, PTL
<1> QED
  BY <1>1 DEF Line

LEMMA WaitingIs ==
  /\ Waiting = [k \in Keys |-> QueueOf(Of(k), prior)]
  /\ Waiting' = [k \in Keys |-> QueueOf(Of(k)', prior')]
<1>1. Waiting = [k \in Keys |-> QueueOf(Of(k), prior)]
  BY DEF Waiting, QueueOf
<1>2. Waiting' = [k \in Keys |-> QueueOf(Of(k)', prior')]
  BY DEF Waiting, QueueOf
<1> QED
  BY <1>1, <1>2

\* A line as a sequence.
LEMMA LineSeq ==
  ASSUME NEW S, NEW p, Line(S, p)
  PROVE  /\ QueueOf(S, p) \in Seq(S)
         /\ Len(QueueOf(S, p)) = Cardinality(S) /\ Cardinality(S) \in Nat
         /\ \A i \in 1..Cardinality(S) :
               QueueOf(S, p)[i] \in S /\ Ahead(p, QueueOf(S, p)[i]) = i - 1
<1> PICK N \in Nat : N = Cardinality(S)
  BY PlacesTaken
<1> PICK q : q = QueueOf(S, p)
  OBVIOUS
<1>1. q \in [1..N -> S] /\ \A i \in 1..N : Ahead(p, q[i]) = i - 1
  BY QueueIs
<1>2. q \in Seq(S) /\ Len(q) = N
  BY <1>1
<1> QED
  BY <1>1, <1>2

LEMMA LineFound ==
  ASSUME NEW S, NEW p, Line(S, p), NEW r \in Seq(S), Len(r) = Cardinality(S),
         \A i \in 1..Len(r) : Ahead(p, r[i]) = i - 1
  PROVE  r = QueueOf(S, p)
<1> PICK N \in Nat : N = Cardinality(S)
  BY PlacesTaken
<1>1. r \in [1..N -> S]
  OBVIOUS
<1> QED
  BY <1>1, QueueUnique

\* The queue of a key is the one its line and nothing else gives.
LEMMA SameLine ==
  ASSUME NEW S, NEW p, Line(S, p), NEW r, Line(S, r), \A t \in S : r[t] = p[t]
  PROVE  QueueOf(S, r) = QueueOf(S, p)
<1> PICK q \in Seq(S) : q = QueueOf(S, p)
  BY LineSeq
<1>1. Len(q) = Cardinality(S) /\ \A i \in 1..Len(q) : Ahead(p, q[i]) = i - 1
  BY LineSeq
<1>2. \A i \in 1..Len(q) : q[i] \in S
  BY ElementOfSeq
<1>3. \A i \in 1..Len(q) : Ahead(r, q[i]) = i - 1
  BY <1>1, <1>2 DEF Ahead
<1> QED
  BY <1>1, <1>3, LineFound

\* t joins the line, t leaves it.
Joins(S, p, t, T, r) ==
    /\ t \notin S /\ T = S \cup {t}
    /\ r[t] = S /\ \A u \in S : r[u] = p[u]
Leaves(S, p, t, T, r) ==
    /\ t \in S /\ T = S \ {t}
    /\ p[t] = {} /\ \A u \in T : r[u] = p[u] \ {t}

LEMMA LineGrows ==
  ASSUME NEW S, NEW p, Line(S, p), NEW t, NEW T, NEW r, Line(T, r),
         Joins(S, p, t, T, r)
  PROVE  QueueOf(T, r) = Append(QueueOf(S, p), t)
<1> PICK N \in Nat : N = Cardinality(S)
  BY PlacesTaken
<1> PICK q \in Seq(S) : q = QueueOf(S, p)
  BY LineSeq
<1>1. Len(q) = N /\ \A i \in 1..N : q[i] \in S /\ Ahead(p, q[i]) = i - 1
  BY LineSeq
<1> /\ t \notin S /\ T = S \cup {t}
    /\ r[t] = S /\ \A u \in S : r[u] = p[u]
  BY DEF Joins
<1>2. Cardinality(T) = N + 1
  BY FS_AddElement DEF Line
<1>3. q \in Seq(T) /\ t \in T
  <2>1. \A i \in 1..N : q[i] \in T
    BY <1>1
  <2> QED
    BY <1>1, <2>1
<1> PICK a \in Seq(T) : a = Append(q, t)
  BY <1>3, AppendProperties
<1>4. Len(a) = N + 1 /\ a[N + 1] = t /\ \A i \in 1..N : a[i] = q[i]
  BY <1>1, <1>3, AppendProperties
<1>5. \A i \in 1..(N + 1) : i \in 1..N \/ i = N + 1
  OBVIOUS
<1>6. ASSUME NEW i \in 1..(N + 1) PROVE Ahead(r, a[i]) = i - 1
  <2>1. CASE i \in 1..N
    BY <1>1, <1>4, <2>1 DEF Ahead
  <2>2. CASE i = N + 1
    <3>1. Ahead(r, a[i]) = N
      BY <1>4, <2>2 DEF Ahead
    <3> QED
      BY <2>2, <3>1
  <2> QED
    BY <1>5, <2>1, <2>2
<1>7. a = QueueOf(T, r)
  <2>1. Line(T, r) /\ Len(a) = Cardinality(T)
        /\ \A i \in 1..Len(a) : Ahead(r, a[i]) = i - 1
    BY <1>2, <1>4, <1>6
  <2> QED
    BY <2>1, LineFound, ZenonT(60)
<1> QED
  BY <1>7

LEMMA SeqOver ==
  ASSUME NEW S, NEW T, NEW a \in Seq(S), \A i \in 1..Len(a) : a[i] \in T
  PROVE  a \in Seq(T)
<1>1. a \in [1..Len(a) -> T] /\ Len(a) \in Nat
  OBVIOUS
<1> QED
  BY <1>1

\* Those behind the first wait for one task less when it is gone.
LEMMA OneLess ==
  ASSUME NEW S, NEW p, Line(S, p), NEW t, NEW T, NEW r, Leaves(S, p, t, T, r),
         NEW u \in S, NEW i \in Nat, i # 0, Ahead(p, u) = i
  PROVE  u \in T /\ Ahead(r, u) = i - 1
<1> /\ t \in S /\ T = S \ {t}
    /\ p[t] = {} /\ \A v \in T : r[v] = p[v] \ {t}
  BY DEF Leaves
<1>1. u # t
  BY FS_EmptySet DEF Ahead
<1>2. t \in p[u]
  BY <1>1 DEF Line
<1>3. p[u] \in SUBSET S /\ IsFiniteSet(S)
  BY DEF Line
<1>4. IsFiniteSet(p[u]) /\ Cardinality(p[u]) = i
  BY <1>3, FS_Subset DEF Ahead
<1>5. Cardinality(p[u] \ {t}) = i - 1
  BY <1>2, <1>4, FS_RemoveElement
<1> QED
  BY <1>1, <1>5 DEF Ahead

LEMMA LineFirst ==
  ASSUME NEW S, NEW p, Line(S, p), NEW t \in S, p[t] = {}
  PROVE  QueueOf(S, p) # << >> /\ Head(QueueOf(S, p)) = t
<1> PICK N \in Nat : N = Cardinality(S)
  BY PlacesTaken
<1> PICK q \in Seq(S) : q = QueueOf(S, p)
  BY LineSeq
<1>1. Len(q) = N /\ \A i \in 1..N : q[i] \in S /\ Ahead(p, q[i]) = i - 1
  BY LineSeq
<1>2. N >= 1 /\ q # << >> /\ Head(q) = q[1]
  <2>1. N # 0
    BY FS_EmptySet DEF Line
  <2> QED
    BY <1>1, <2>1
<1>3. q[1] = t
  <2>1. Ahead(p, q[1]) = 0 /\ Ahead(p, t) = 0 /\ q[1] \in S
    BY <1>1, <1>2, FS_EmptySet DEF Ahead
  <2> QED
    BY <2>1, AheadDiffers
<1> QED
  BY <1>2, <1>3

LEMMA LineShrinks ==
  ASSUME NEW S, NEW p, Line(S, p), NEW t, NEW T, NEW r, Line(T, r),
         Leaves(S, p, t, T, r)
  PROVE  QueueOf(T, r) = Tail(QueueOf(S, p))
<1>0. t \in S /\ T = S \ {t}
  BY DEF Leaves
<1> PICK N \in Nat : N = Cardinality(S)
  BY PlacesTaken
<1> PICK q \in Seq(S) : q = QueueOf(S, p)
  BY LineSeq
<1>1. Len(q) = N /\ \A i \in 1..N : q[i] \in S /\ Ahead(p, q[i]) = i - 1
  BY LineSeq
<1>2. q # << >> /\ N >= 1
  <2>1. q # << >>
    BY LineFirst DEF Leaves
  <2> QED
    BY <1>1, <2>1
<1>4. Cardinality(T) = N - 1
  BY <1>0, FS_RemoveElement DEF Line
<1> PICK a \in Seq(S) : a = Tail(q)
  BY <1>2, HeadTailProperties
<1>5. Len(a) = N - 1 /\ \A i \in 1..(N - 1) : a[i] = q[i + 1]
  BY <1>1, <1>2, HeadTailProperties
<1>6. ASSUME NEW i \in 1..(N - 1)
      PROVE  a[i] \in T /\ Ahead(r, a[i]) = i - 1
  <2>1. i + 1 \in 1..N /\ a[i] = q[i + 1] /\ i \in Nat /\ i # 0
    BY <1>5
  <2>2. a[i] \in S /\ Ahead(p, a[i]) = i
    <3>1. (i + 1) - 1 = i
      OBVIOUS
    <3> QED
      BY <1>1, <2>1, <3>1
  <2>3. \A u \in S : Ahead(p, u) = i => u \in T /\ Ahead(r, u) = i - 1
    BY <2>1, OneLess
  <2> QED
    BY <2>2, <2>3
<1>7. a \in Seq(T)
  <2>1. \A i \in 1..Len(a) : a[i] \in T
    BY <1>5, <1>6
  <2> QED
    BY <2>1, SeqOver
<1>8. a = QueueOf(T, r)
  <2>1. Line(T, r) /\ Len(a) = Cardinality(T)
        /\ \A i \in 1..Len(a) : Ahead(r, a[i]) = i - 1
    BY <1>4, <1>5, <1>6
  <2> QED
    BY <1>7, <2>1, LineFound
<1> QED
  BY <1>8

LEMMA NobodyWaits ==
  ASSUME NEW S, NEW p, Line(S, p), S = {}
  PROVE  QueueOf(S, p) = << >>
<1> PICK q \in Seq(S) : q = QueueOf(S, p)
  BY LineSeq
<1>1. Len(q) = 0
  BY LineSeq, FS_EmptySet
<1> QED
  BY <1>1, EmptySeq

\* What Waiting holds is what the tasks of each key wait for.
LEMMA QueuesOf ==
  ASSUME QueueInv, NEW k \in Keys
  PROVE  /\ Waiting[k] = QueueOf(Of(k), prior)
         /\ Waiting[k] \in Seq(Of(k))
<1>1. Waiting[k] = QueueOf(Of(k), prior)
  BY WaitingIs
<1>2. Line(Of(k), prior)
  BY KeysLine
<1> QED
  BY <1>1, <1>2, LineSeq

LEMMA NoLineMoves ==
  ASSUME QueueInv, QueueInv', NEW k \in Keys, Of(k)' = Of(k),
         \A u \in Of(k) : prior'[u] = prior[u]
  PROVE  Waiting'[k] = Waiting[k]
<1> PICK S : S = Of(k)
  OBVIOUS
<1> PICK p, r : p = prior /\ r = prior'
  OBVIOUS
<1>1. Line(S, p) /\ Line(S, r)
  BY KeysLine, KeysLineNext
<1>2. QueueOf(S, r) = QueueOf(S, p)
  BY <1>1, SameLine
<1> QED
  BY <1>2, WaitingIs

\* One queue changes.
LEMMA OneQueue ==
  ASSUME NEW k \in Keys, NEW q, Waiting'[k] = q,
         \A j \in Keys \ {k} : Waiting'[j] = Waiting[j]
  PROVE  Waiting' = [Waiting EXCEPT ![k] = q]
<1>1. Waiting = [j \in Keys |-> Waiting[j]]
      /\ Waiting' = [j \in Keys |-> Waiting'[j]]
  BY WaitingIs
<1> QED
  BY <1>1

LEMMA EnterIs ==
  ASSUME QueueInv, QueueInv', NEW t \in Tasks, NEW k \in Keys, Enter(t, k)
  PROVE  Order!Enter(t, k)
<1>1. k # NoKey /\ key[t] = NoKey
  BY KeyAssumption DEF Enter
<1>2. key \in [Tasks -> Keys \cup {NoKey}] /\ prior \in [Tasks -> SUBSET Tasks]
      /\ queues[k].tail = Of(k)
  BY DEF QueueInv, FifoInv, FifoType, Chained
<1>3. Of(k)' = Of(k) \cup {t} /\ t \notin Of(k)
  BY <1>1, <1>2 DEF Enter, Of
<1>4. \A j \in Keys \ {k} : Of(j)' = Of(j) /\ t \notin Of(j)
  BY <1>1, <1>2, KeyAssumption DEF Enter, Of
<1>5. prior'[t] = Of(k) /\ \A u \in Tasks \ {t} : prior'[u] = prior[u]
  BY <1>2 DEF Enter
<1>6. \A j \in Keys : Of(j) \subseteq Tasks
  BY DEF Of
<1>7. Waiting'[k] = Append(Waiting[k], t)
  <2> PICK S : S = Of(k)
    OBVIOUS
  <2> PICK p, r : p = prior /\ r = prior'
    OBVIOUS
  <2> PICK T : T = S \cup {t}
    OBVIOUS
  <2>1. Line(S, p) /\ Line(T, r)
    BY <1>3, KeysLine, KeysLineNext
  <2>2. r[t] = S /\ t \notin S
    BY <1>3, <1>5
  <2>3. \A u \in S : r[u] = p[u]
    <3> SUFFICES ASSUME NEW u \in S PROVE r[u] = p[u]
      OBVIOUS
    <3>1. u \in Tasks \ {t}
      BY <1>3, <1>6
    <3> QED
      BY <1>5, <3>1
  <2>4. Joins(S, p, t, T, r)
    BY <2>2, <2>3 DEF Joins
  <2>5. QueueOf(T, r) = Append(QueueOf(S, p), t)
    <3>1. Line(S, p)
      BY <2>1
    <3>2. Line(T, r)
      BY <2>1
    <3> QED
      BY ONLY <3>1, <3>2, <2>4, LineGrows
  <2> QED
    BY <1>3, <2>5, WaitingIs
<1>8. \A j \in Keys \ {k} : Waiting'[j] = Waiting[j]
  BY <1>4, <1>5, <1>6, NoLineMoves
<1>9. Waiting' = [Waiting EXCEPT ![k] = Append(Waiting[k], t)]
  BY <1>7, <1>8, OneQueue
<1>10. t \notin Order!Queued
  <2> SUFFICES ASSUME NEW j \in Keys, NEW i \in DOMAIN Waiting[j]
               PROVE  Waiting[j][i] # t
    BY DEF Order!Queued
  <2>1. Waiting[j] \in Seq(Of(j))
    BY QueuesOf
  <2>2. Waiting[j][i] \in Of(j)
    BY <2>1
  <2> QED
    BY <1>3, <1>4, <2>2
<1>11. started' = started
  BY DEF Enter
<1> QED
  BY <1>9, <1>10, <1>11 DEF Order!Enter

\* A task that waits for nobody is the first of its queue.
LEMMA FirstIs ==
  ASSUME QueueInv, NEW t \in Tasks, key[t] # NoKey, prior[t] = {}
  PROVE  /\ key[t] \in Keys /\ t \in Of(key[t])
         /\ Waiting[key[t]] # << >> /\ Head(Waiting[key[t]]) = t
<1>1. key[t] \in Keys /\ t \in Of(key[t])
  BY DEF QueueInv, FifoInv, FifoType, Of
<1> PICK S : S = Of(key[t])
  OBVIOUS
<1> PICK p : p = prior
  OBVIOUS
<1>2. Line(S, p) /\ t \in S /\ p[t] = {}
  BY <1>1, KeysLine
<1>3. QueueOf(S, p) # << >> /\ Head(QueueOf(S, p)) = t
  BY <1>2, LineFirst
<1> QED
  BY <1>1, <1>3, QueuesOf

LEMMA StartIs ==
  ASSUME QueueInv, QueueInv', NEW t \in Tasks, Start(t)
  PROVE  \E k \in Keys : Order!Start(k)
<1>1. key[t] \in Keys /\ Waiting[key[t]] # << >> /\ Head(Waiting[key[t]]) = t
  BY FirstIs DEF Start
<1>2. t \notin started /\ started' = started \cup {t}
  BY DEF Start
<1>3. Waiting' = Waiting
  BY DEF Start, Waiting, Of
<1>4. Order!Start(key[t])
  BY <1>1, <1>2, <1>3 DEF Order!Start
<1> QED
  BY <1>1, <1>4

LEMMA FinishIs ==
  ASSUME QueueInv, QueueInv', NEW t \in Tasks, Finish(t)
  PROVE  \E k \in Keys : Order!Finish(k)
<1>1. t \in started /\ key[t] # NoKey /\ prior[t] = {}
  BY DEF Finish, QueueInv, FifoInv, Chained
<1>2. key[t] \in Keys /\ t \in Of(key[t])
      /\ Waiting[key[t]] # << >> /\ Head(Waiting[key[t]]) = t
  BY <1>1, FirstIs
<1> PICK k \in Keys : k = key[t]
  BY <1>2
<1>3. /\ key \in [Tasks -> Keys \cup {NoKey}]
      /\ \A u \in Tasks : prior[u] \in SUBSET (Of(key[u]) \ {u})
  BY DEF QueueInv, FifoInv, FifoType, Chained
<1>4. Of(k)' = Of(k) \ {t}
  BY <1>1, <1>3, KeyAssumption DEF Finish, Of
<1>5. \A j \in Keys \ {k} : Of(j)' = Of(j) /\ t \notin Of(j)
  BY <1>1, <1>3, KeyAssumption DEF Finish, Of
<1>6. \A u \in Tasks \ {t} : prior'[u] = prior[u] \ {t}
  BY DEF Finish
<1>7. \A j \in Keys : Of(j) \subseteq Tasks /\ \A u \in Of(j) : key[u] = j
  BY DEF Of
<1>8. Waiting'[k] = Tail(Waiting[k])
  <2> PICK S : S = Of(k)
    OBVIOUS
  <2> PICK p, r : p = prior /\ r = prior'
    OBVIOUS
  <2> PICK T : T = S \ {t}
    OBVIOUS
  <2>1. Line(S, p) /\ Line(T, r)
    BY <1>4, KeysLine, KeysLineNext
  <2>2. t \in S /\ p[t] = {}
    BY <1>1, <1>2
  <2>3. \A u \in S \ {t} : r[u] = p[u] \ {t}
    <3> SUFFICES ASSUME NEW u \in S \ {t} PROVE r[u] = p[u] \ {t}
      OBVIOUS
    <3>1. u \in Tasks \ {t}
      BY <1>7
    <3> QED
      BY <1>6, <3>1
  <2>4. Leaves(S, p, t, T, r)
    BY <2>2, <2>3 DEF Leaves
  <2>5. QueueOf(T, r) = Tail(QueueOf(S, p))
    <3>1. Line(S, p)
      BY <2>1
    <3>2. Line(T, r)
      BY <2>1
    <3> QED
      BY ONLY <3>1, <3>2, <2>4, LineShrinks
  <2> QED
    BY <1>4, <2>5, WaitingIs
<1>9. ASSUME NEW j \in Keys \ {k} PROVE Waiting'[j] = Waiting[j]
  <2>1. \A u \in Of(j) : prior'[u] = prior[u]
    <3> SUFFICES ASSUME NEW u \in Of(j) PROVE prior'[u] = prior[u]
      OBVIOUS
    <3>1. u \in Tasks \ {t} /\ key[u] = j
      BY <1>5, <1>7
    <3>2. t \notin prior[u]
      BY <1>3, <1>5, <3>1
    <3> QED
      BY <1>6, <3>1, <3>2
  <2> QED
    BY <1>5, <2>1, NoLineMoves
<1>10. Waiting' = [Waiting EXCEPT ![k] = Tail(Waiting[k])]
  BY <1>8, <1>9, OneQueue
<1>11. started' = started \ {t}
  BY DEF Finish
<1>12. Order!Finish(k)
  BY <1>1, <1>2, <1>10, <1>11 DEF Order!Finish
<1> QED
  BY <1>12

NobodyCalled == \A t \in Tasks : key[t] = NoKey
AllEmpty == Waiting = [k \in Keys |-> << >>]

LEMMA NoneWaits == QueueInv /\ NobodyCalled => AllEmpty
<1> SUFFICES ASSUME QueueInv, NobodyCalled PROVE AllEmpty
  OBVIOUS
<1>1. \A k \in Keys : Of(k) = {}
  BY KeyAssumption DEF NobodyCalled, Of
<1>2. \A k \in Keys : Waiting[k] = << >>
  BY <1>1, QueuesOf, KeysLine, NobodyWaits
<1>3. Waiting = [k \in Keys |-> Waiting[k]]
  BY WaitingIs
<1> QED
  BY <1>2, <1>3 DEF AllEmpty

LEMMA RestartIs ==
  ASSUME QueueInv', Restart
  PROVE  Order!Restart
<1>1. NobodyCalled' /\ started' = {}
  BY DEF Restart, NobodyCalled
<1>2. (QueueInv' /\ NobodyCalled') => AllEmpty'
  BY NoneWaits, PTL
<1>3. AllEmpty'
  BY <1>1, <1>2
<1> QED
  BY <1>1, <1>3 DEF Order!Restart, AllEmpty

\* Every step of the lock is a step of the queues.
LEMMA FifoIsOrder ==
  ASSUME QueueInv, QueueInv', [FifoNext]_fifo
  PROVE  [Order!Next]_(Order!vars)
<1>1. ASSUME NEW t \in Tasks, NEW k \in Keys, Enter(t, k) PROVE Order!Next
  BY <1>1, EnterIs DEF Order!Next
<1>2. ASSUME NEW t \in Tasks, Start(t) PROVE Order!Next
  BY <1>2, StartIs DEF Order!Next
<1>3. ASSUME NEW t \in Tasks, Finish(t) PROVE Order!Next
  BY <1>3, FinishIs DEF Order!Next
<1>4. ASSUME Restart PROVE Order!Next
  BY <1>4, RestartIs DEF Order!Next
<1>5. ASSUME UNCHANGED fifo PROVE UNCHANGED Order!vars
  <2>1. Waiting' = Waiting /\ started' = started
    BY <1>5 DEF fifo, Waiting, Of
  <2> QED
    BY <2>1 DEF Order!vars
<1> QED
  BY <1>1, <1>2, <1>3, <1>4, <1>5 DEF FifoNext

THEOREM QueueInvariant == Spec => []QueueInv
<1>1. Init => QueueInv
  <2>1. Init => FifoInv
    BY FifoStarts DEF Init
  <2>2. Init => Ordered
    BY DEF Init, FifoInit, Ordered
  <2> QED
    BY <2>1, <2>2 DEF QueueInv
<1>2. QueueInv /\ [Next]_vars => QueueInv'
  BY StoreStepsLock, OrderSteps
<1> QED
  BY <1>1, <1>2, PTL DEF Spec

\* The lock of the store is a queue for each key: of the operations called
\* for a session one at a time runs, and in the order of their calls, whether
\* they read or write, and whatever they do while they hold it.
THEOREM CallsInOrder == Spec => FirstComeFirstServed
<1>1. Init => Order!Init
  <2>1. Init => QueueInv /\ NobodyCalled /\ started = {}
    <3>1. Init => FifoInv
      BY FifoStarts DEF Init
    <3>2. Init => Ordered /\ NobodyCalled /\ started = {}
      BY DEF Init, FifoInit, Ordered, NobodyCalled
    <3> QED
      BY <3>1, <3>2 DEF QueueInv
  <2> QED
    BY <2>1, NoneWaits DEF Order!Init, AllEmpty
<1>2. QueueInv /\ QueueInv' /\ [Next]_vars => [Order!Next]_(Order!vars)
  BY StoreStepsLock, FifoIsOrder
<1> QED
  BY <1>1, <1>2, QueueInvariant, PTL DEF Spec, FirstComeFirstServed, Order!Spec

-----------------------------------------------------------------------------
(* The store behind its lock.                                              *)

\* Where an operation of a kind may stand.
StepsOf(kind) ==
    CASE kind = "create" -> {"queued", "mkdir", "files", "rename", "sync"}
      [] kind = "delete" ->
            {"queued", "check", "unlink", "unlinked", "remove", "removed"}
      [] kind = "list" -> {"queued", "readdir", "each"}
      [] kind = "initialize" -> {"queued", "sweep", "swept"}
      [] OTHER -> {"queued", "load", "truncate", "repaired", "open", "write",
                   "fsync"}

\* An operation holds the key it was called for, from its call to its end.
Held(t) ==
    /\ key[t] = NoKey <=> op[t].step = "idle"
    /\ op[t].step # "idle" =>
          /\ key[t] = KeyOf(op[t].kind, op[t].session)
          /\ op[t].session = Root <=> op[t].kind \in {"list", "initialize"}
          /\ t \in started <=> op[t].step # "queued"
          /\ op[t].step \in StepsOf(op[t].kind)

\* Nobody else knows a session that is being created.
Unknown(t) ==
    /\ op[t].step # "idle" /\ op[t].session # Root /\ op[t].kind # "create" =>
          fate[op[t].session] # "unused"
    /\ op[t].step # "idle" /\ op[t].kind = "create" =>
          \A u \in Tasks : op[u].step # "idle" /\ u # t =>
                              op[u].session # op[t].session

\* What callers were told of a session, and where its directory is.
Placed(s) ==
    /\ fate[s] = "unused" => place[s] = "none" /\ stable[s] = "none"
    /\ fate[s] = "asked" => place[s] \in {"none", "temporary", "session"}
    /\ fate[s] = "created" => place[s] = "session" /\ stable[s] = "session"
    /\ fate[s] = "deleted" => place[s] = "gone" /\ stable[s] = "gone"
    /\ \/ Rank(stable[s]) <= Rank(place[s])
       \/ stable[s] = "temporary" /\ place[s] = "none"

\* The lines of a file, and the events callers were told of.
Kept(s) ==
    /\ synced[s] <= Len(log[s])
    /\ place[s] \in {"session", "tombstone", "gone"} => synced[s] > 0
    /\ \A i \in DOMAIN log[s] : log[s][i].seq = i /\ log[s][i].id <= issued[s]
    /\ \A i, j \in DOMAIN log[s] : i < j => log[s][i].id < log[s][j].id
    /\ \A e \in acked[s] : \E i \in 1..synced[s] : log[s][i].id = e
    /\ \A e \in refused[s] : e <= issued[s]
    /\ \A i \in DOMAIN log[s] : log[s][i].id \notin refused[s]

Fresh(s) ==
    /\ log[s] = << >> /\ synced[s] = 0 /\ issued[s] = 0
    /\ acked[s] = {} /\ refused[s] = {}

\* The line an append is about to write is the next one.
NextLine(s, line) ==
    /\ line.seq = Len(log[s]) + 1 /\ line.id = issued[s]
    /\ \A i \in DOMAIN log[s] : log[s][i].id < issued[s]
    /\ issued[s] \notin refused[s]

\* What an operation found, or did, stays so while it holds its key.
Undisturbed(t) ==
    LET s == op[t].session
        at == op[t].step IN
    /\ at = "files" => fate[s] = "asked" /\ place[s] = "temporary" /\ Fresh(s)
    /\ at = "rename" =>
          fate[s] = "asked" /\ place[s] = "temporary" /\ synced[s] > 0
    /\ at = "sync" => fate[s] = "asked" /\ place[s] = "session"
    /\ at = "unlink" => place[s] = "session"
    /\ at \in {"unlinked", "remove"} => place[s] \in {"tombstone", "gone"}
    /\ at = "removed" => place[s] = "gone"
    /\ at \in {"repaired", "open"} => ~tail[s]
    /\ at = "write" => (tail[s] => op[t].part)
    /\ at \in {"open", "write"} => NextLine(s, op[t].line)
    /\ at = "fsync" => \E i \in DOMAIN log[s] : log[s][i].id = op[t].line.id
    /\ at = "each" => \A r \in Sessions :
          fate[r] = "created" => r \in op[t].todo \cup op[t].page

StoreInv ==
    /\ StoreType /\ FifoInv
    /\ \A t \in Tasks : Held(t) /\ Unknown(t) /\ Undisturbed(t)
    /\ \A s \in Sessions : Placed(s) /\ Kept(s) /\ (fate[s] = "unused" => Fresh(s))

-----------------------------------------------------------------------------
(* Facts about ranks, lines and the records of the operations.             *)

LEMMA Ranks ==
  /\ Rank("none") = 1 /\ Rank("temporary") = 2 /\ Rank("session") = 3
  /\ Rank("tombstone") = 4 /\ Rank("gone") = 5
  /\ PlaceNames = {"none", "temporary", "session", "tombstone", "gone"}
<1>1. DOMAIN Places = 1..5
  BY DEF Places
<1>2. /\ Places[1] = "none" /\ Places[2] = "temporary"
      /\ Places[3] = "session" /\ Places[4] = "tombstone"
      /\ Places[5] = "gone"
  BY DEF Places
<1>3. \A i \in 1..5 : i = 1 \/ i = 2 \/ i = 3 \/ i = 4 \/ i = 5
  OBVIOUS
<1>4. Rank("none") = 1
  BY <1>1, <1>2, <1>3 DEF Rank
<1>5. Rank("temporary") = 2
  BY <1>1, <1>2, <1>3 DEF Rank
<1>6. Rank("session") = 3
  BY <1>1, <1>2, <1>3 DEF Rank
<1>7. Rank("tombstone") = 4
  BY <1>1, <1>2, <1>3 DEF Rank
<1>8. Rank("gone") = 5
  BY <1>1, <1>2, <1>3 DEF Rank
<1>9. PlaceNames = {"none", "temporary", "session", "tombstone", "gone"}
  <2>1. \A p : p \in PlaceNames <=> \E i \in 1..5 : Places[i] = p
    BY <1>1 DEF PlaceNames
  <2> QED
    BY <2>1, <1>2, <1>3
<1> QED
  BY <1>4, <1>5, <1>6, <1>7, <1>8, <1>9

LEMMA Appending ==
  ASSUME NEW S, NEW q \in Seq(S), NEW e \in S
  PROVE  /\ Append(q, e) \in Seq(S) /\ Len(Append(q, e)) = Len(q) + 1
         /\ DOMAIN Append(q, e) = 1..(Len(q) + 1) /\ DOMAIN q = 1..Len(q)
         /\ Len(q) \in Nat
         /\ \A i \in 1..Len(q) : Append(q, e)[i] = q[i]
         /\ Append(q, e)[Len(q) + 1] = e
  OBVIOUS

LEMMA Cutting ==
  ASSUME NEW S, NEW q \in Seq(S), NEW n \in 0..Len(q)
  PROVE  /\ SubSeq(q, 1, n) \in Seq(S) /\ Len(SubSeq(q, 1, n)) = n
         /\ DOMAIN SubSeq(q, 1, n) = 1..n /\ DOMAIN q = 1..Len(q)
         /\ Len(q) \in Nat
         /\ \A i \in 1..n : SubSeq(q, 1, n)[i] = q[i]
  OBVIOUS

LEMMA LineAt ==
  ASSUME NEW q \in Seq(Lines)
  PROVE  /\ DOMAIN q = 1..Len(q) /\ Len(q) \in Nat
         /\ \A i \in DOMAIN q : q[i] \in Lines /\ q[i].seq \in Nat
                                                /\ q[i].id \in Nat
<1>1. DOMAIN q = 1..Len(q) /\ Len(q) \in Nat /\ \A i \in DOMAIN q : q[i] \in Lines
  OBVIOUS
<1>2. \A l \in Lines : l.seq \in Nat /\ l.id \in Nat
  BY DEF Lines
<1> QED
  BY <1>1, <1>2

LEMMA NothingToDo == NoOp \in Ops /\ NoOp.step = "idle"
  BY DEF NoOp, Ops, Kinds, Steps, Lines

LEMMA OpFields ==
  ASSUME NEW o \in Ops
  PROVE  /\ o.kind \in Kinds /\ o.session \in Sessions \cup {Root}
         /\ o.step \in Steps /\ o.line \in Lines
         /\ o.part \in BOOLEAN /\ o.todo \in SUBSET Sessions
         /\ o.page \in SUBSET Sessions
  BY DEF Ops

LEMMA StepSet ==
  ASSUME NEW o \in Ops, NEW step \in Steps, NEW p, p = [o EXCEPT !.step = step]
  PROVE  /\ p \in Ops /\ p.step = step /\ p.kind = o.kind
         /\ p.session = o.session /\ p.line = o.line /\ p.part = o.part
         /\ p.todo = o.todo /\ p.page = o.page
  BY DEF Ops

LEMMA PartSet ==
  ASSUME NEW o \in Ops, NEW p, p = [o EXCEPT !.part = TRUE]
  PROVE  /\ p \in Ops /\ p.step = o.step /\ p.kind = o.kind
         /\ p.session = o.session /\ p.line = o.line /\ p.part = TRUE
         /\ p.todo = o.todo /\ p.page = o.page
  BY DEF Ops

LEMMA LineSet ==
  ASSUME NEW o \in Ops, NEW step \in Steps, NEW l \in Lines,
         NEW p, p = [o EXCEPT !.step = step, !.line = l]
  PROVE  /\ p \in Ops /\ p.step = step /\ p.kind = o.kind
         /\ p.session = o.session /\ p.line = l /\ p.part = o.part
         /\ p.todo = o.todo /\ p.page = o.page
  BY DEF Ops

LEMMA TodoSet ==
  ASSUME NEW o \in Ops, NEW step \in Steps, NEW d \in SUBSET Sessions, NEW p,
         p = [o EXCEPT !.step = step, !.todo = d]
  PROVE  /\ p \in Ops /\ p.step = step /\ p.kind = o.kind
         /\ p.session = o.session /\ p.todo = d /\ p.page = o.page
  BY DEF Ops

LEMMA PageSet ==
  ASSUME NEW o \in Ops, NEW d \in SUBSET Sessions, NEW g \in SUBSET Sessions,
         NEW p, p = [o EXCEPT !.todo = d, !.page = g]
  PROVE  /\ p \in Ops /\ p.step = o.step /\ p.kind = o.kind
         /\ p.session = o.session /\ p.todo = d /\ p.page = g
  BY DEF Ops

-----------------------------------------------------------------------------
(* What the steps of a task leave alone.                                   *)

\* A task that runs goes on in its operation, or ends it.
Moves(t) ==
    /\ \A u \in Tasks \ {t} : op'[u] = op[u]
    /\ \/ /\ op'[t].kind = op[t].kind /\ op'[t].session = op[t].session
          /\ op'[t].step \in StepsOf(op[t].kind) \ {"queued"}
          /\ UNCHANGED fifo
       \/ Return(t)

LEMMA MovesHold ==
  ASSUME StoreInv, NEW t \in Tasks, t \in started, Moves(t)
  PROVE  \A u \in Tasks : Held(u)'
<1>1. op \in [Tasks -> Ops] /\ key \in [Tasks -> Keys \cup {NoKey}]
      /\ started \in SUBSET Tasks /\ \A u \in Tasks : Held(u)
  BY DEF StoreInv, StoreType, FifoType
<1>2. CASE Return(t)
  <2>1. /\ key' = [key EXCEPT ![t] = NoKey] /\ started' = started \ {t}
        /\ op' = [op EXCEPT ![t] = NoOp]
    BY <1>2 DEF Return, Finish
  <2> QED
    BY <1>1, <2>1, NothingToDo DEF Held
<1>3. CASE /\ op'[t].kind = op[t].kind /\ op'[t].session = op[t].session
           /\ op'[t].step \in StepsOf(op[t].kind) \ {"queued"}
           /\ UNCHANGED fifo
  <2>1. op'[t].step # "idle"
    BY <1>3 DEF StepsOf
  <2>2. \A u \in Tasks \ {t} : Held(u)'
    BY <1>1, <1>3 DEF Held, Moves, fifo
  <2>3. op[t].step # "idle"
    BY <1>1, KeyAssumption DEF StoreInv, FifoInv, Chained, Held
  <2>4. Held(t)'
    BY <1>1, <1>3, <2>1, <2>3 DEF Held, fifo
  <2> QED
    BY <2>2, <2>4
<1> QED
  BY <1>2, <1>3 DEF Moves

LEMMA MovesKnow ==
  ASSUME StoreInv, NEW t \in Tasks, t \in started, Moves(t),
         \A s \in Sessions : fate'[s] = "unused" => fate[s] = "unused"
  PROVE  \A u \in Tasks : Unknown(u)'
<1>1. op \in [Tasks -> Ops] /\ \A u \in Tasks : Unknown(u) /\ Held(u)
  BY DEF StoreInv, StoreType
<1>2. op[t].step # "idle"
  BY <1>1 DEF StoreInv, FifoInv, Chained, Held
<1>3. ASSUME NEW u \in Tasks, op'[u].step # "idle"
      PROVE  /\ op[u].step # "idle" /\ op'[u].kind = op[u].kind
             /\ op'[u].session = op[u].session
  <2>1. CASE u = t
    BY <1>1, <1>2, <1>3, <2>1, NothingToDo DEF Moves, Return
  <2>2. CASE u # t
    BY <1>3, <2>2 DEF Moves
  <2> QED
    BY <2>1, <2>2
<1>4. \A u \in Tasks : op[u].session \in Sessions \cup {Root}
  BY <1>1, OpFields
<1> QED
  BY <1>1, <1>3, <1>4 DEF Unknown

\* Two operations on one session never run at the same time: a creation holds
\* the root's key only, but nobody else knows its session.
LEMMA Alone ==
  ASSUME StoreInv, NEW t \in started, NEW u \in started, t # u,
         op[t].session # Root
  PROVE  op[u].session # op[t].session
<1>1. t \in Tasks /\ u \in Tasks /\ key[t] # NoKey /\ key[u] # NoKey
      /\ prior[t] = {} /\ prior[u] = {}
  BY DEF StoreInv, StoreType, FifoType, FifoInv, Chained
<1>2. key[t] # key[u]
  BY <1>1 DEF StoreInv, FifoInv, Chained, Live
<1>3. /\ op[t].step # "idle" /\ op[u].step # "idle"
      /\ key[t] = KeyOf(op[t].kind, op[t].session)
      /\ key[u] = KeyOf(op[u].kind, op[u].session)
      /\ op[t].kind \notin {"list", "initialize"}
      /\ op[u].session # Root => op[u].kind \notin {"list", "initialize"}
  BY <1>1 DEF StoreInv, Held
<1>4. Unknown(t) /\ Unknown(u)
  BY <1>1 DEF StoreInv
<1> QED
  BY <1>1, <1>2, <1>3, <1>4 DEF Unknown, KeyOf

\* A creation and a listing never run at the same time.
LEMMA RootAlone ==
  ASSUME StoreInv, NEW t \in started, NEW u \in started, t # u,
         op[t].kind = "create"
  PROVE  op[u].step # "each"
<1>1. t \in Tasks /\ u \in Tasks /\ key[t] # NoKey /\ key[u] # NoKey
      /\ prior[t] = {} /\ prior[u] = {}
  BY DEF StoreInv, StoreType, FifoType, FifoInv, Chained
<1>2. key[t] # key[u]
  BY <1>1 DEF StoreInv, FifoInv, Chained, Live
<1>3. /\ key[t] = KeyOf(op[t].kind, op[t].session)
      /\ key[u] = KeyOf(op[u].kind, op[u].session)
      /\ op[u].step \in StepsOf(op[u].kind)
  BY <1>1 DEF StoreInv, Held
<1>4. op[u].kind \in Kinds
  BY <1>1, OpFields DEF StoreInv, StoreType
<1>5. op[u].step = "each" => op[u].kind = "list"
  BY <1>3, <1>4 DEF StepsOf, Kinds
<1> QED
  BY <1>2, <1>3, <1>5 DEF KeyOf

\* What has to be shown of a step of an operation on one session.
LEMMA OneSession ==
  ASSUME StoreInv, StoreType', FifoInv', NEW t \in started, NEW s \in Sessions,
         op[t].session = s, Moves(t),
         \A r \in Sessions \ {s} :
            /\ place'[r] = place[r] /\ log'[r] = log[r] /\ tail'[r] = tail[r]
            /\ synced'[r] = synced[r] /\ fate'[r] = fate[r]
            /\ issued'[r] = issued[r] /\ acked'[r] = acked[r]
            /\ refused'[r] = refused[r],
         stable' = stable \/ stable' = place,
         fate'[s] = "unused" => fate[s] = "unused" /\ Fresh(s)',
         fate'[s] = "created" => fate[s] = "created" \/ op[t].kind = "create",
         Placed(s)', Kept(s)', Undisturbed(t)'
  PROVE  StoreInv'
<1>1. t \in Tasks
  BY DEF StoreInv, StoreType, FifoType
<1>2. \A u \in Tasks : Held(u)'
  BY <1>1, MovesHold
<1>3. \A u \in Tasks : Unknown(u)'
  BY <1>1, MovesKnow
<1>4. ASSUME NEW r \in Sessions, r # s
      PROVE  Placed(r)' /\ Kept(r)' /\ (fate'[r] = "unused" => Fresh(r)')
  <2>1. Placed(r) /\ Kept(r) /\ (fate[r] = "unused" => Fresh(r))
    BY DEF StoreInv
  <2>2. Kept(r)' /\ (fate'[r] = "unused" => Fresh(r)')
    BY <1>4, <2>1 DEF Kept, Fresh
  <2>3. stable'[r] = stable[r] \/ stable'[r] = place[r]
    OBVIOUS
  <2>4. place[r] \in PlaceNames
    BY DEF StoreInv, StoreType
  <2>5. Rank(place[r]) \in Nat
    BY <2>4, Ranks
  <2>6. Placed(r)'
    BY <1>4, <2>1, <2>3, <2>5 DEF Placed
  <2> QED
    BY <2>2, <2>6
<1>5. ASSUME NEW u \in Tasks, u # t
      PROVE  Undisturbed(u)'
  <2>1. op'[u] = op[u] /\ Undisturbed(u) /\ Held(u)
    BY <1>1, <1>5 DEF Moves, StoreInv
  <2>2. CASE u \notin started
    <3>1. op[u].step \in {"idle", "queued"}
      BY <2>1, <2>2 DEF Held
    <3> QED
      BY <2>1, <3>1 DEF Undisturbed
  <2>3. CASE u \in started
    <3>1. op[u].session # s
      BY <1>5, <2>3, Alone, StoreAssumption
    <3>2. CASE op[u].step = "each"
      <4>1. op[t].kind # "create"
        BY <1>5, <2>3, <3>2, RootAlone
      <4>2. \A r \in Sessions : fate'[r] = "created" => fate[r] = "created"
        BY <4>1
      <4> QED
        BY <2>1, <3>2, <4>2 DEF Undisturbed
    <3>3. CASE op[u].step # "each"
      <4>1. CASE op[u].session \in Sessions
        <5> PICK r \in Sessions : r = op[u].session
          BY <4>1
        <5>1. /\ place'[r] = place[r] /\ log'[r] = log[r] /\ tail'[r] = tail[r]
              /\ synced'[r] = synced[r] /\ fate'[r] = fate[r]
              /\ issued'[r] = issued[r] /\ acked'[r] = acked[r]
              /\ refused'[r] = refused[r]
          BY <3>1, <4>1
        <5>2. Fresh(r)' <=> Fresh(r)
          BY <5>1 DEF Fresh
        <5>3. \A l : NextLine(r, l)' <=> NextLine(r, l)
          BY <5>1 DEF NextLine
        <5>4. Undisturbed(u)' <=> Undisturbed(u)
          BY <2>1, <3>3, <5>1, <5>2, <5>3 DEF Undisturbed
        <5> QED
          BY <2>1, <5>4
      <4>2. CASE op[u].session = Root
        <5>1. op[u].step \in {"queued", "readdir", "sweep", "swept", "idle"}
          BY <2>1, <3>3, <4>2 DEF Held, StepsOf
        <5> QED
          BY <2>1, <5>1 DEF Undisturbed
      <4> QED
        BY <4>1, <4>2, OpFields DEF StoreInv, StoreType
    <3> QED
      BY <3>2, <3>3
  <2> QED
    BY <2>2, <2>3
<1> QED
  BY <1>2, <1>3, <1>4, <1>5 DEF StoreInv

LEMMA Running ==
  ASSUME StoreInv, NEW t \in started
  PROVE  /\ t \in Tasks /\ op[t] \in Ops /\ op[t].step # "idle" /\ Held(t)
         /\ Undisturbed(t) /\ op \in [Tasks -> Ops]
         /\ op[t].step \in StepsOf(op[t].kind) \ {"queued"}
<1>1. t \in Tasks
  BY DEF StoreInv, StoreType, FifoType
<1> QED
  BY <1>1 DEF StoreInv, StoreType, FifoInv, Chained, Held

LEMMA KindAt ==
  ASSUME StoreInv, NEW t \in started
  PROVE  /\ op[t].step \in {"mkdir", "files", "rename", "sync"} =>
               op[t].kind = "create" /\ op[t].session \in Sessions
         /\ op[t].step \in {"check", "unlink", "unlinked", "remove", "removed"}
               => op[t].kind = "delete" /\ op[t].session \in Sessions
         /\ op[t].step \in {"load", "truncate", "repaired", "open", "write",
                            "fsync"} =>
               op[t].kind \in {"append", "read"} /\ op[t].session \in Sessions
         /\ op[t].step \in {"readdir", "each"} =>
               op[t].kind = "list" /\ op[t].session = Root
         /\ op[t].step \in {"sweep", "swept"} =>
               op[t].kind = "initialize" /\ op[t].session = Root
<1>1. /\ op[t].kind \in Kinds /\ op[t].session \in Sessions \cup {Root}
      /\ op[t].step \in StepsOf(op[t].kind) \ {"queued"}
      /\ op[t].session = Root <=> op[t].kind \in {"list", "initialize"}
  BY Running, OpFields DEF Held
<1>2. CASE op[t].kind = "create"
  BY <1>1, <1>2 DEF StepsOf
<1>3. CASE op[t].kind = "delete"
  BY <1>1, <1>3 DEF StepsOf
<1>4. CASE op[t].kind = "list"
  BY <1>1, <1>4 DEF StepsOf
<1>5. CASE op[t].kind = "initialize"
  BY <1>1, <1>5 DEF StepsOf
<1>6. CASE op[t].kind \in {"append", "read"}
  BY <1>1, <1>6 DEF StepsOf
<1> QED
  BY <1>1, <1>2, <1>3, <1>4, <1>5, <1>6 DEF Kinds

LEMMA Going ==
  ASSUME StoreInv, NEW t \in started,
         NEW step \in StepsOf(op[t].kind) \ {"queued"}, step \in Steps,
         Then(t, step)
  PROVE  /\ Moves(t) /\ op' \in [Tasks -> Ops]
         /\ op'[t].step = step /\ op'[t].session = op[t].session
         /\ op'[t].line = op[t].line /\ op'[t].part = op[t].part
         /\ op'[t].todo = op[t].todo /\ op'[t].page = op[t].page
<1>1. t \in Tasks /\ op[t] \in Ops /\ op \in [Tasks -> Ops]
  BY Running
<1>2. op' = [op EXCEPT ![t].step = step] /\ UNCHANGED fifo
  BY DEF Then
<1>3. /\ op'[t] \in Ops /\ op'[t].step = step /\ op'[t].kind = op[t].kind
      /\ op'[t].session = op[t].session
      /\ op'[t].line = op[t].line /\ op'[t].part = op[t].part
      /\ op'[t].todo = op[t].todo /\ op'[t].page = op[t].page
  BY <1>1, <1>2, StepSet
<1>4. \A u \in Tasks \ {t} : op'[u] = op[u]
  BY <1>1, <1>2
<1> QED
  BY <1>1, <1>2, <1>3, <1>4 DEF Moves

LEMMA Returning ==
  ASSUME StoreInv, NEW t \in started, Return(t)
  PROVE  Moves(t) /\ op' \in [Tasks -> Ops] /\ Undisturbed(t)'
<1>1. t \in Tasks /\ op[t] \in Ops /\ op \in [Tasks -> Ops]
  BY Running
<1>2. op' = [op EXCEPT ![t] = NoOp]
  BY DEF Return
<1>3. op'[t] = NoOp /\ \A u \in Tasks \ {t} : op'[u] = op[u]
  BY <1>1, <1>2
<1>4. Undisturbed(t)'
  BY <1>3, NothingToDo DEF Undisturbed
<1> QED
  BY <1>1, <1>2, <1>3, <1>4, NothingToDo DEF Moves

LEMMA AtSession ==
  ASSUME StoreInv, NEW s \in Sessions
  PROVE  /\ Placed(s) /\ Kept(s) /\ (fate[s] = "unused" => Fresh(s))
         /\ place[s] \in PlaceNames /\ stable[s] \in PlaceNames
         /\ Rank(place[s]) \in 1..5 /\ Rank(stable[s]) \in 1..5
         /\ log[s] \in Seq(Lines) /\ Len(log[s]) \in Nat
         /\ synced[s] \in Nat /\ issued[s] \in Nat
         /\ tail[s] \in BOOLEAN /\ fate[s] \in Fates
         /\ acked[s] \in SUBSET Nat /\ refused[s] \in SUBSET Nat
<1>1. place[s] \in PlaceNames /\ stable[s] \in PlaceNames
  BY DEF StoreInv, StoreType
<1>2. Rank(place[s]) \in 1..5 /\ Rank(stable[s]) \in 1..5
  BY <1>1, Ranks
<1> QED
  BY <1>1, <1>2 DEF StoreInv, StoreType

\* An operation that ends without having changed a file.
LEMMA EndsUnchanged ==
  ASSUME StoreInv, FifoInv', NEW t \in started, Return(t),
         UNCHANGED <<files, up, told, crashes>>
  PROVE  StoreInv'
<1>1. Moves(t) /\ op' \in [Tasks -> Ops] /\ Undisturbed(t)' /\ t \in Tasks
  BY Returning, Running
<1>2. StoreType'
  BY <1>1 DEF StoreInv, StoreType, FifoInv, files, told
<1>3. \A s \in Sessions : Placed(s) /\ Kept(s) /\ (fate[s] = "unused" => Fresh(s))
  BY DEF StoreInv
<1>4. \A s \in Sessions :
         /\ Placed(s)' <=> Placed(s)
         /\ Kept(s)' <=> Kept(s)
         /\ Fresh(s)' <=> Fresh(s)
         /\ fate'[s] = fate[s]
  BY DEF Placed, Kept, Fresh, files, told
<1>5. ASSUME NEW u \in Tasks, u # t
      PROVE  Undisturbed(u)'
  <2>1. op'[u] = op[u] /\ Undisturbed(u)
    BY <1>1, <1>5 DEF Moves, StoreInv
  <2>2. /\ place' = place /\ log' = log /\ tail' = tail /\ synced' = synced
        /\ fate' = fate /\ issued' = issued /\ acked' = acked
        /\ refused' = refused
    BY DEF files, told
  <2> QED
    BY <2>1, <2>2 DEF Undisturbed, Fresh, NextLine
<1> QED
  BY <1>1, <1>2, <1>3, <1>4, <1>5, MovesHold, MovesKnow DEF StoreInv, told

-----------------------------------------------------------------------------
(* The steps of the operations keep the invariant.                         *)

\* An operation changes where its session is, or what callers were told.
LEMMA Replaces ==
  ASSUME StoreInv, FifoInv', NEW t \in started, NEW s \in Sessions,
         op[t].session = s, Moves(t), op' \in [Tasks -> Ops],
         place' \in [Sessions -> PlaceNames], fate' \in [Sessions -> Fates],
         \A r \in Sessions \ {s} : place'[r] = place[r] /\ fate'[r] = fate[r],
         stable' = stable \/ stable' = place,
         log' = log, tail' = tail, synced' = synced, dirty' = dirty,
         up' = up, issued' = issued, acked' = acked, refused' = refused,
         crashes' = crashes,
         fate'[s] = "unused" => fate[s] = "unused",
         fate'[s] = "created" => fate[s] = "created" \/ op[t].kind = "create",
         place'[s] \in {"session", "tombstone", "gone"} => synced[s] > 0,
         Placed(s)', Undisturbed(t)'
  PROVE  StoreInv'
<1>1. StoreType'
  BY DEF StoreInv, StoreType, FifoInv
<1>2. Kept(s) /\ (fate[s] = "unused" => Fresh(s))
  BY AtSession
<1>3. Kept(s)' /\ (fate'[s] = "unused" => Fresh(s)')
  BY <1>2 DEF Kept, Fresh
<1> QED
  BY <1>1, <1>3, OneSession

LEMMA MakeTemporaryKeeps ==
  ASSUME StoreInv, FifoInv', NEW t \in started, MakeTemporary(t)
  PROVE  StoreInv'
<1>1. /\ op[t].step = "mkdir" /\ op[t].kind = "create" /\ t \in Tasks
      /\ op[t].session \in Sessions
  BY KindAt, Running DEF MakeTemporary, At
<1> PICK s \in Sessions : s = op[t].session
  BY <1>1
<1>2. /\ stable' = stable /\ log' = log /\ tail' = tail /\ synced' = synced
      /\ dirty' = dirty /\ up' = up /\ issued' = issued /\ acked' = acked
      /\ refused' = refused /\ crashes' = crashes
  BY DEF MakeTemporary
<1>3. CASE fate[s] # "unused"
  <2>1. Return(t) /\ UNCHANGED <<place, fate>>
    BY <1>3 DEF MakeTemporary
  <2> QED
    BY <2>1, <1>2, EndsUnchanged DEF files, told
<1>4. CASE fate[s] = "unused"
  <2>1. /\ place[s] = "none" /\ Rank(stable[s]) \in 1..5 /\ Fresh(s)
        /\ Placed(s) /\ stable[s] \in PlaceNames
    BY <1>4, AtSession DEF Placed
  <2>2. fate' = [fate EXCEPT ![s] = "asked"]
    BY <1>4 DEF MakeTemporary
  <2>3. fate' \in [Sessions -> Fates] /\ fate'[s] = "asked"
    BY <2>2 DEF StoreInv, StoreType, Fates
  <2>4. CASE place' = [place EXCEPT ![s] = "temporary"] /\ Then(t, "files")
    <3>1. place' \in [Sessions -> PlaceNames] /\ place'[s] = "temporary"
      BY <2>4, Ranks DEF StoreInv, StoreType
    <3>2. /\ Moves(t) /\ op' \in [Tasks -> Ops]
          /\ op'[t].step = "files" /\ op'[t].session = s
      BY <1>1, <2>4, Going DEF StepsOf, Steps
    <3>3. Fresh(s)'
      BY <1>2, <2>1 DEF Fresh
    <3>4. Undisturbed(t)'
      BY <2>3, <3>1, <3>2, <3>3 DEF Undisturbed
    <3>5. Placed(s)'
      BY <1>2, <2>1, <2>3, <3>1, Ranks DEF Placed
    <3> QED
      BY <1>2, <1>4, <2>2, <2>3, <2>4, <3>1, <3>2, <3>4, <3>5, Replaces
  <2>5. CASE Fails(t) /\ UNCHANGED place
    <3>1. Moves(t) /\ op' \in [Tasks -> Ops] /\ Undisturbed(t)'
      BY <2>5, Returning DEF Fails
    <3>2. Placed(s)'
      BY <1>2, <2>1, <2>3, <2>5 DEF Placed
    <3> QED
      BY <1>2, <2>1, <2>2, <2>3, <2>5, <3>1, <3>2, Replaces
         DEF StoreInv, StoreType
  <2> QED
    BY <1>4, <2>4, <2>5 DEF MakeTemporary
<1> QED
  BY <1>3, <1>4

LEMMA RemoveTemporaryKeeps ==
  ASSUME StoreInv, FifoInv', NEW t \in started, RemoveTemporary(t),
         op[t].step \in {"files", "rename"},
         UNCHANGED <<stable, log, tail, synced, dirty, up, told, crashes>>
  PROVE  StoreInv'
<1>1. /\ op[t].kind = "create" /\ t \in Tasks /\ op[t].session \in Sessions
  BY KindAt, Running
<1> PICK s \in Sessions : s = op[t].session
  BY <1>1
<1>2. Return(t) /\ place' \in {place, [place EXCEPT ![s] = "none"]}
  BY DEF RemoveTemporary, Fails
<1>3. Moves(t) /\ op' \in [Tasks -> Ops] /\ Undisturbed(t)'
  BY <1>2, Returning
<1>4. fate[s] = "asked" /\ place[s] = "temporary"
  BY Running DEF Undisturbed
<1>5. CASE place' = place
  BY <1>2, <1>5, EndsUnchanged DEF files
<1>6. CASE place' = [place EXCEPT ![s] = "none"]
  <2>1. /\ place' \in [Sessions -> PlaceNames] /\ place'[s] = "none"
        /\ \A r \in Sessions \ {s} : place'[r] = place[r]
    BY <1>6, Ranks DEF StoreInv, StoreType
  <2>2. Placed(s) /\ stable[s] \in PlaceNames
    BY AtSession
  <2>3. stable[s] \in {"none", "temporary"}
    BY <1>4, <2>2, Ranks DEF Placed
  <2>4. Placed(s)'
    BY <1>4, <2>1, <2>3, Ranks DEF Placed, told
  <2>5. fate \in [Sessions -> Fates] /\ fate' = fate
    BY DEF StoreInv, StoreType, told
  <2> QED
    BY <1>3, <1>4, <2>1, <2>4, <2>5, Replaces DEF told
<1> QED
  BY <1>2, <1>5, <1>6

LEMMA WriteFilesKeeps ==
  ASSUME StoreInv, FifoInv', NEW t \in started, WriteFiles(t)
  PROVE  StoreInv'
<1>1. /\ op[t].step = "files" /\ op[t].kind = "create" /\ t \in Tasks
      /\ op[t].session \in Sessions
  BY KindAt, Running DEF WriteFiles, At
<1> PICK s \in Sessions : s = op[t].session
  BY <1>1
<1>2. /\ stable' = stable /\ tail' = tail /\ dirty' = dirty /\ up' = up
      /\ fate' = fate /\ acked' = acked /\ refused' = refused
      /\ crashes' = crashes
  BY DEF WriteFiles
<1>3. CASE RemoveTemporary(t) /\ UNCHANGED <<log, synced, issued>>
  BY <1>1, <1>2, <1>3, RemoveTemporaryKeeps DEF told
<1>4. CASE /\ log' = [log EXCEPT ![s] = <<[seq |-> 1, id |-> 1]>>]
           /\ synced' = [synced EXCEPT ![s] = 1]
           /\ issued' = [issued EXCEPT ![s] = 1]
           /\ Then(t, "rename") /\ place' = place
  <2>1. fate[s] = "asked" /\ place[s] = "temporary" /\ Fresh(s)
    BY <1>1, Running DEF Undisturbed
  <2>2. /\ Moves(t) /\ op' \in [Tasks -> Ops]
        /\ op'[t].step = "rename" /\ op'[t].session = s
    BY <1>1, <1>4, Going DEF StepsOf, Steps
  <2> DEFINE line == [seq |-> 1, id |-> 1]
  <2>3. line \in Lines /\ line.seq = 1 /\ line.id = 1
    BY DEF Lines
  <2> HIDE DEF line
  <2>4. /\ <<line>> \in Seq(Lines) /\ Len(<<line>>) = 1
        /\ DOMAIN <<line>> = {1} /\ <<line>>[1] = line
    BY <2>3
  <2>5. log' = [log EXCEPT ![s] = <<line>>]
    BY <1>4 DEF line
  <2>6. StoreType'
    BY <1>2, <1>4, <2>2, <2>4, <2>5 DEF StoreInv, StoreType, FifoInv
  <2>7. log'[s] = <<line>> /\ synced'[s] = 1 /\ issued'[s] = 1
    BY <1>4, <2>5 DEF StoreInv, StoreType
  <2>8. Kept(s)'
    BY <1>2, <2>1, <2>3, <2>4, <2>7 DEF Kept, Fresh
  <2>9. Placed(s)'
    BY <1>2, <1>4, AtSession DEF Placed
  <2>10. Undisturbed(t)'
    BY <1>2, <1>4, <2>1, <2>2, <2>7 DEF Undisturbed
  <2>11. \A r \in Sessions \ {s} :
           log'[r] = log[r] /\ synced'[r] = synced[r] /\ issued'[r] = issued[r]
    BY <1>4, <2>5 DEF StoreInv, StoreType
  <2> QED
    BY <1>2, <1>4, <2>1, <2>2, <2>6, <2>8, <2>9, <2>10, <2>11, OneSession
<1> QED
  BY <1>3, <1>4 DEF WriteFiles

LEMMA PublishKeeps ==
  ASSUME StoreInv, FifoInv', NEW t \in started, Publish(t)
  PROVE  StoreInv'
<1>1. /\ op[t].step = "rename" /\ op[t].kind = "create" /\ t \in Tasks
      /\ op[t].session \in Sessions
  BY KindAt, Running DEF Publish, At
<1> PICK s \in Sessions : s = op[t].session
  BY <1>1
<1>2. UNCHANGED <<stable, log, tail, synced, dirty, up, told, crashes>>
  BY DEF Publish
<1>3. CASE RemoveTemporary(t)
  BY <1>1, <1>2, <1>3, RemoveTemporaryKeeps
<1>4. CASE place' = [place EXCEPT ![s] = "session"] /\ Then(t, "sync")
  <2>1. fate[s] = "asked" /\ place[s] = "temporary" /\ synced[s] > 0
    BY <1>1, Running DEF Undisturbed
  <2>2. /\ Moves(t) /\ op' \in [Tasks -> Ops]
        /\ op'[t].step = "sync" /\ op'[t].session = s
    BY <1>1, <1>4, Going DEF StepsOf, Steps
  <2>3. /\ place' \in [Sessions -> PlaceNames] /\ place'[s] = "session"
        /\ \A r \in Sessions \ {s} : place'[r] = place[r]
    BY <1>4, Ranks DEF StoreInv, StoreType
  <2>4. fate \in [Sessions -> Fates] /\ fate' = fate
    BY <1>2 DEF StoreInv, StoreType, told
  <2>5. Undisturbed(t)'
    BY <2>1, <2>2, <2>3, <2>4 DEF Undisturbed
  <2>6. Placed(s)'
    BY <1>2, <2>1, <2>3, <2>4, AtSession, Ranks DEF Placed
  <2> QED
    BY <1>2, <2>1, <2>2, <2>3, <2>4, <2>5, <2>6, Replaces DEF told
<1> QED
  BY <1>3, <1>4 DEF Publish

LEMMA CreatedKeeps ==
  ASSUME StoreInv, FifoInv', NEW t \in started, Created(t)
  PROVE  StoreInv'
<1>1. /\ op[t].step = "sync" /\ op[t].kind = "create" /\ t \in Tasks
      /\ op[t].session \in Sessions
  BY KindAt, Running DEF Created, At
<1> PICK s \in Sessions : s = op[t].session
  BY <1>1
<1>2. UNCHANGED <<place, log, tail, synced, dirty, up, issued, acked, refused,
                  crashes>> /\ Return(t)
  BY DEF Created
<1>3. Moves(t) /\ op' \in [Tasks -> Ops] /\ Undisturbed(t)'
  BY <1>2, Returning
<1>4. CASE UNCHANGED <<stable, fate>>
  BY <1>2, <1>4, EndsUnchanged DEF files, told
<1>5. CASE stable' = place /\ fate' = [fate EXCEPT ![s] = "created"]
  <2>1. /\ fate' \in [Sessions -> Fates] /\ fate'[s] = "created"
        /\ \A r \in Sessions \ {s} : fate'[r] = fate[r]
    BY <1>5 DEF StoreInv, StoreType, Fates
  <2>2. place[s] = "session"
    BY <1>1, Running DEF Undisturbed
  <2>3. synced[s] > 0
    BY <2>2, AtSession DEF Kept
  <2>4. Placed(s)'
    BY <1>2, <1>5, <2>1, <2>2, Ranks DEF Placed
  <2>5. place \in [Sessions -> PlaceNames]
    BY DEF StoreInv, StoreType
  <2> QED
    BY <1>1, <1>2, <1>3, <1>5, <2>1, <2>3, <2>4, <2>5, Replaces
<1> QED
  BY <1>4, <1>5 DEF Created, SyncRoot

LEMMA CheckSessionKeeps ==
  ASSUME StoreInv, FifoInv', NEW t \in started, CheckSession(t)
  PROVE  StoreInv'
<1>1. /\ op[t].step = "check" /\ op[t].kind = "delete" /\ t \in Tasks
      /\ op[t].session \in Sessions
  BY KindAt, Running DEF CheckSession, At
<1> PICK s \in Sessions : s = op[t].session
  BY <1>1
<1>2. UNCHANGED <<files, up, told, crashes>>
  BY DEF CheckSession
<1>3. CASE Return(t)
  BY <1>2, <1>3, EndsUnchanged
<1>4. CASE s \in Visible /\ Then(t, "unlink")
  <2>1. place[s] = "session"
    BY <1>4 DEF Visible
  <2>2. /\ Moves(t) /\ op' \in [Tasks -> Ops]
        /\ op'[t].step = "unlink" /\ op'[t].session = s
    BY <1>1, <1>4, Going DEF StepsOf, Steps
  <2>3. Placed(s) /\ synced[s] > 0
    BY <2>1, AtSession DEF Kept
  <2>4. Undisturbed(t)'
    BY <1>2, <2>1, <2>2 DEF Undisturbed, files
  <2>5. Placed(s)'
    BY <1>2, <2>3 DEF Placed, files, told
  <2>6. place \in [Sessions -> PlaceNames] /\ fate \in [Sessions -> Fates]
    BY DEF StoreInv, StoreType
  <2> QED
    BY <1>2, <2>2, <2>3, <2>4, <2>5, <2>6, Replaces DEF files, told
<1> QED
  BY <1>3, <1>4 DEF CheckSession, Fails

LEMMA UnlinkKeeps ==
  ASSUME StoreInv, FifoInv', NEW t \in started, Unlink(t)
  PROVE  StoreInv'
<1>1. /\ op[t].step = "unlink" /\ op[t].kind = "delete" /\ t \in Tasks
      /\ op[t].session \in Sessions
  BY KindAt, Running DEF Unlink, At
<1> PICK s \in Sessions : s = op[t].session
  BY <1>1
<1>2. UNCHANGED <<stable, log, tail, synced, dirty, up, issued, acked,
                  refused, crashes>>
  BY DEF Unlink
<1>3. CASE Return(t) /\ UNCHANGED <<place, fate>>
  BY <1>2, <1>3, EndsUnchanged DEF files, told
<1>4. CASE /\ place' = [place EXCEPT ![s] = "tombstone"]
           /\ fate' = [fate EXCEPT ![s] = "doomed"]
           /\ Then(t, "unlinked")
  <2>1. place[s] = "session"
    BY <1>1, Running DEF Undisturbed
  <2>2. /\ Moves(t) /\ op' \in [Tasks -> Ops]
        /\ op'[t].step = "unlinked" /\ op'[t].session = s
    BY <1>1, <1>4, Going DEF StepsOf, Steps
  <2>3. /\ place' \in [Sessions -> PlaceNames] /\ place'[s] = "tombstone"
        /\ fate' \in [Sessions -> Fates] /\ fate'[s] = "doomed"
        /\ \A r \in Sessions \ {s} : place'[r] = place[r] /\ fate'[r] = fate[r]
    BY <1>4, Ranks DEF StoreInv, StoreType, Fates
  <2>4. Placed(s) /\ synced[s] > 0
    BY <2>1, AtSession DEF Kept
  <2>5. Undisturbed(t)'
    BY <2>2, <2>3 DEF Undisturbed
  <2>6. Placed(s)'
    BY <1>2, <2>1, <2>3, <2>4, AtSession, Ranks DEF Placed
  <2> QED
    BY <1>2, <2>2, <2>3, <2>4, <2>5, <2>6, Replaces
<1> QED
  BY <1>3, <1>4 DEF Unlink, Fails

LEMMA SyncUnlinkedKeeps ==
  ASSUME StoreInv, FifoInv', NEW t \in started, SyncUnlinked(t)
  PROVE  StoreInv'
<1>1. /\ op[t].step = "unlinked" /\ op[t].kind = "delete" /\ t \in Tasks
      /\ op[t].session \in Sessions
  BY KindAt, Running DEF SyncUnlinked, At
<1> PICK s \in Sessions : s = op[t].session
  BY <1>1
<1>2. UNCHANGED <<place, log, tail, synced, dirty, up, told, crashes>>
  BY DEF SyncUnlinked
<1>3. CASE Return(t) /\ UNCHANGED stable
  BY <1>2, <1>3, EndsUnchanged DEF files
<1>4. CASE stable' = place /\ Then(t, "remove")
  <2>1. place[s] \in {"tombstone", "gone"}
    BY <1>1, Running DEF Undisturbed
  <2>2. /\ Moves(t) /\ op' \in [Tasks -> Ops]
        /\ op'[t].step = "remove" /\ op'[t].session = s
    BY <1>1, <1>4, Going DEF StepsOf, Steps
  <2>3. Placed(s) /\ synced[s] > 0
    BY <2>1, AtSession DEF Kept
  <2>4. Undisturbed(t)'
    BY <1>2, <2>1, <2>2 DEF Undisturbed
  <2>5. Placed(s)'
    BY <1>2, <1>4, <2>1, <2>3, AtSession DEF Placed, told
  <2>6. place \in [Sessions -> PlaceNames] /\ fate \in [Sessions -> Fates]
    BY DEF StoreInv, StoreType
  <2> QED
    BY <1>2, <1>4, <2>2, <2>3, <2>4, <2>5, <2>6, Replaces DEF told
<1> QED
  BY <1>3, <1>4 DEF SyncUnlinked, Fails, SyncRoot

LEMMA RemoveTombstoneKeeps ==
  ASSUME StoreInv, FifoInv', NEW t \in started, RemoveTombstone(t)
  PROVE  StoreInv'
<1>1. /\ op[t].step = "remove" /\ op[t].kind = "delete" /\ t \in Tasks
      /\ op[t].session \in Sessions
  BY KindAt, Running DEF RemoveTombstone, At
<1> PICK s \in Sessions : s = op[t].session
  BY <1>1
<1>2. UNCHANGED <<stable, log, tail, synced, dirty, up, told, crashes>>
  BY DEF RemoveTombstone
<1>3. CASE Return(t) /\ UNCHANGED place
  BY <1>2, <1>3, EndsUnchanged DEF files
<1>4. CASE place' = [place EXCEPT ![s] = "gone"] /\ Then(t, "removed")
  <2>1. place[s] \in {"tombstone", "gone"}
    BY <1>1, Running DEF Undisturbed
  <2>2. /\ Moves(t) /\ op' \in [Tasks -> Ops]
        /\ op'[t].step = "removed" /\ op'[t].session = s
    BY <1>1, <1>4, Going DEF StepsOf, Steps
  <2>3. /\ place' \in [Sessions -> PlaceNames] /\ place'[s] = "gone"
        /\ \A r \in Sessions \ {s} : place'[r] = place[r]
    BY <1>4, Ranks DEF StoreInv, StoreType
  <2>4. Placed(s) /\ synced[s] > 0
    BY <2>1, AtSession DEF Kept
  <2>5. Undisturbed(t)'
    BY <2>2, <2>3 DEF Undisturbed
  <2>6. Placed(s)'
    BY <1>2, <2>1, <2>3, <2>4, AtSession, Ranks DEF Placed, told
  <2>7. fate \in [Sessions -> Fates]
    BY DEF StoreInv, StoreType
  <2> QED
    BY <1>2, <2>2, <2>3, <2>4, <2>5, <2>6, <2>7, Replaces DEF told
<1> QED
  BY <1>3, <1>4 DEF RemoveTombstone, Fails

LEMMA DeletedKeeps ==
  ASSUME StoreInv, FifoInv', NEW t \in started, Deleted(t)
  PROVE  StoreInv'
<1>1. /\ op[t].step = "removed" /\ op[t].kind = "delete" /\ t \in Tasks
      /\ op[t].session \in Sessions
  BY KindAt, Running DEF Deleted, At
<1> PICK s \in Sessions : s = op[t].session
  BY <1>1
<1>2. /\ UNCHANGED <<place, log, tail, synced, dirty, up, issued, acked,
                     refused, crashes>>
      /\ Return(t)
  BY DEF Deleted
<1>3. Moves(t) /\ op' \in [Tasks -> Ops] /\ Undisturbed(t)'
  BY <1>2, Returning
<1>4. CASE UNCHANGED <<stable, fate>>
  BY <1>2, <1>4, EndsUnchanged DEF files, told
<1>5. CASE stable' = place /\ fate' = [fate EXCEPT ![s] = "deleted"]
  <2>1. /\ fate' \in [Sessions -> Fates] /\ fate'[s] = "deleted"
        /\ \A r \in Sessions \ {s} : fate'[r] = fate[r]
    BY <1>5 DEF StoreInv, StoreType, Fates
  <2>2. place[s] = "gone"
    BY <1>1, Running DEF Undisturbed
  <2>3. synced[s] > 0
    BY <2>2, AtSession DEF Kept
  <2>4. Placed(s)'
    BY <1>2, <1>5, <2>1, <2>2, Ranks DEF Placed
  <2>5. place \in [Sessions -> PlaceNames]
    BY DEF StoreInv, StoreType
  <2> QED
    BY <1>2, <1>3, <1>5, <2>1, <2>3, <2>4, <2>5, Replaces
<1> QED
  BY <1>4, <1>5 DEF Deleted, SyncRoot

\* An operation changes the file of its session, or what callers were told of
\* its events.
LEMMA Rewrites ==
  ASSUME StoreInv, FifoInv', NEW t \in started, NEW s \in Sessions,
         op[t].session = s, Moves(t), op' \in [Tasks -> Ops],
         place' = place, stable' = stable, fate' = fate, up' = up,
         crashes' = crashes, fate[s] # "unused",
         log' \in [Sessions -> Seq(Lines)], tail' \in [Sessions -> BOOLEAN],
         dirty' \in [Sessions -> BOOLEAN], synced' \in [Sessions -> Nat],
         issued' \in [Sessions -> Nat], acked' \in [Sessions -> SUBSET Nat],
         refused' \in [Sessions -> SUBSET Nat],
         \A r \in Sessions \ {s} :
            /\ log'[r] = log[r] /\ tail'[r] = tail[r]
            /\ synced'[r] = synced[r] /\ issued'[r] = issued[r]
            /\ acked'[r] = acked[r] /\ refused'[r] = refused[r],
         Kept(s)', Undisturbed(t)'
  PROVE  StoreInv'
<1>1. StoreType'
  BY DEF StoreInv, StoreType, FifoInv
<1>2. Placed(s)'
  BY AtSession DEF Placed
<1> QED
  BY <1>1, <1>2, OneSession

LEMMA KnownAt ==
  ASSUME StoreInv, NEW t \in started, op[t].kind \in {"append", "read"}
  PROVE  fate[op[t].session] # "unused"
<1>1. t \in Tasks /\ op[t].step # "idle" /\ Held(t)
  BY Running
<1>2. Unknown(t)
  BY <1>1 DEF StoreInv
<1> QED
  BY <1>1, <1>2 DEF Held, Unknown

\* A longer durable part of the same file keeps what was promised of it.
LEMMA SyncedMore ==
  ASSUME StoreInv, NEW s \in Sessions,
         log'[s] = log[s], place'[s] = place[s], acked'[s] = acked[s],
         refused'[s] = refused[s],
         synced'[s] \in {synced[s], Len(log[s])},
         issued'[s] \in {issued[s], issued[s] + 1}
  PROVE  Kept(s)'
<1>1. Kept(s) /\ Len(log[s]) \in Nat /\ synced[s] \in Nat /\ issued[s] \in Nat
  BY AtSession
<1>2. synced'[s] \in Nat /\ synced'[s] <= Len(log[s]) /\ synced[s] <= synced'[s]
  BY <1>1 DEF Kept
<1>3. issued'[s] \in Nat /\ issued[s] <= issued'[s]
  BY <1>1
<1>4. log[s] \in Seq(Lines) /\ refused[s] \in SUBSET Nat
  BY AtSession
<1>5. DOMAIN log[s] = 1..Len(log[s]) /\ \A i \in DOMAIN log[s] : log[s][i].id \in Nat
  BY <1>4, LineAt
<1>6. \A e \in acked[s] : \E i \in 1..synced'[s] : log[s][i].id = e
  BY <1>1, <1>2 DEF Kept
<1>7. \A i \in DOMAIN log[s] : log[s][i].seq = i /\ log[s][i].id <= issued'[s]
  BY <1>1, <1>3, <1>5 DEF Kept
<1>8. \A e \in refused[s] : e <= issued'[s]
  BY <1>1, <1>3, <1>4 DEF Kept
<1>9. place[s] \in {"session", "tombstone", "gone"} => synced'[s] > 0
  BY <1>1, <1>2 DEF Kept
<1>10. /\ \A i, j \in DOMAIN log[s] : i < j => log[s][i].id < log[s][j].id
       /\ \A i \in DOMAIN log[s] : log[s][i].id \notin refused[s]
  BY <1>1 DEF Kept
<1> QED
  BY <1>2, <1>6, <1>7, <1>8, <1>9, <1>10 DEF Kept

LEMMA LoadedKeeps ==
  ASSUME StoreInv, FifoInv', NEW t \in started, Loaded(t),
         op[t].step \in {"load", "repaired"}, ~tail[op[t].session],
         synced' \in {synced, [synced EXCEPT
                         ![op[t].session] = Len(log[op[t].session])]},
         dirty' \in {dirty, [dirty EXCEPT ![op[t].session] = FALSE]},
         UNCHANGED <<place, stable, log, tail, up, fate, acked, refused, crashes>>
  PROVE  StoreInv'
<1>1. /\ op[t].kind \in {"append", "read"} /\ t \in Tasks /\ op[t] \in Ops
      /\ op[t].session \in Sessions /\ op \in [Tasks -> Ops]
  BY KindAt, Running
<1> PICK s \in Sessions : s = op[t].session
  BY <1>1
<1>2. /\ log[s] \in Seq(Lines) /\ Len(log[s]) \in Nat /\ issued[s] \in Nat
      /\ Kept(s) /\ refused[s] \in SUBSET Nat
  BY AtSession
<1>3. /\ synced' \in [Sessions -> Nat] /\ dirty' \in [Sessions -> BOOLEAN]
      /\ synced'[s] \in {synced[s], Len(log[s])}
      /\ \A r \in Sessions \ {s} : synced'[r] = synced[r]
  <2>1. synced \in [Sessions -> Nat] /\ dirty \in [Sessions -> BOOLEAN]
    BY DEF StoreInv, StoreType
  <2>2. synced' = synced \/ synced' = [synced EXCEPT ![s] = Len(log[s])]
    OBVIOUS
  <2>3. dirty' = dirty \/ dirty' = [dirty EXCEPT ![s] = FALSE]
    OBVIOUS
  <2>4. dirty' \in [Sessions -> BOOLEAN]
    BY <2>1, <2>3
  <2> QED
    BY <1>2, <2>1, <2>2, <2>4
<1>4. fate[s] # "unused"
  BY <1>1, KnownAt
<1>5. /\ log \in [Sessions -> Seq(Lines)] /\ tail \in [Sessions -> BOOLEAN]
      /\ issued \in [Sessions -> Nat] /\ acked \in [Sessions -> SUBSET Nat]
      /\ refused \in [Sessions -> SUBSET Nat]
  BY DEF StoreInv, StoreType
<1>6. CASE Return(t) /\ UNCHANGED issued
  <2>1. Moves(t) /\ op' \in [Tasks -> Ops] /\ Undisturbed(t)'
    BY <1>6, Returning
  <2>2. Kept(s)'
    BY <1>3, <1>6, SyncedMore
  <2> QED
    BY <1>3, <1>4, <1>5, <1>6, <2>1, <2>2, Rewrites
<1>7. CASE /\ op[t].kind = "append"
           /\ issued' = [issued EXCEPT ![s] = @ + 1]
           /\ op' = [op EXCEPT ![t].step = "open",
                         ![t].line = [seq |-> Len(log[s]) + 1,
                                      id |-> issued[s] + 1]]
           /\ UNCHANGED fifo
  <2>1. /\ issued' \in [Sessions -> Nat] /\ issued'[s] = issued[s] + 1
        /\ \A r \in Sessions \ {s} : issued'[r] = issued[r]
    BY <1>2, <1>5, <1>7
  <2>2. [seq |-> Len(log[s]) + 1, id |-> issued[s] + 1] \in Lines
    BY <1>2 DEF Lines
  <2> PICK line \in Lines : line = [seq |-> Len(log[s]) + 1, id |-> issued[s] + 1]
    BY <2>2
  <2>3. /\ line.seq = Len(log[s]) + 1 /\ line.id = issued[s] + 1
        /\ op' = [op EXCEPT ![t].step = "open", ![t].line = line]
    BY <1>7
  <2>4. /\ op'[t] = [op[t] EXCEPT !.step = "open", !.line = line]
        /\ \A u \in Tasks \ {t} : op'[u] = op[u]
    BY <1>1, <2>3
  <2> "open" \in Steps
    BY DEF Steps
  <2>5. /\ op'[t] \in Ops /\ op'[t].step = "open" /\ op'[t].kind = "append"
        /\ op'[t].session = s /\ op'[t].line = line
    <3> DEFINE o == op[t]
               p == op'[t]
    <3>1. o \in Ops /\ p = [o EXCEPT !.step = "open", !.line = line]
      BY <1>1, <2>4
    <3> HIDE DEF o, p
    <3>2. /\ p \in Ops /\ p.step = "open" /\ p.kind = o.kind
          /\ p.session = o.session /\ p.line = line
      BY <3>1 DEF Ops
    <3> QED
      BY <1>7, <3>2 DEF o, p
  <2>6. op' \in [Tasks -> Ops]
    BY <1>1, <2>3, <2>4, <2>5
  <2>7. Moves(t)
    BY <1>1, <1>7, <2>4, <2>5 DEF Moves, StepsOf
  <2>8. Kept(s)'
    BY <1>3, <2>1, SyncedMore
  <2>9. \A i \in DOMAIN log[s] : log[s][i].id < issued[s] + 1
    <3>1. \A i \in DOMAIN log[s] : log[s][i].id \in Nat
      BY <1>2, LineAt
    <3> QED
      BY <1>2, <3>1 DEF Kept
  <2>10. issued[s] + 1 \notin refused[s]
    BY <1>2 DEF Kept
  <2>11. NextLine(s, line)'
    BY <2>1, <2>3, <2>9, <2>10 DEF NextLine
  <2>12. Undisturbed(t)'
    BY <2>5, <2>11 DEF Undisturbed
  <2> QED
    BY <1>3, <1>4, <1>5, <2>1, <2>6, <2>7, <2>8, <2>12, Rewrites
<1> QED
  BY <1>1, <1>6, <1>7 DEF Loaded

LEMMA LoadKeeps ==
  ASSUME StoreInv, FifoInv', NEW t \in started, Load(t)
  PROVE  StoreInv'
<1>1. /\ op[t].step = "load" /\ op[t].kind \in {"append", "read"}
      /\ t \in Tasks /\ op[t].session \in Sessions
  BY KindAt, Running DEF Load, At
<1> PICK s \in Sessions : s = op[t].session
  BY <1>1
<1>2. UNCHANGED <<files, up, fate, acked, refused, crashes>>
  BY DEF Load
<1>3. CASE Return(t) /\ UNCHANGED issued
  BY <1>2, <1>3, EndsUnchanged DEF told
<1>4. CASE tail[s] /\ Then(t, "truncate") /\ UNCHANGED issued
  <2>1. /\ Moves(t) /\ op' \in [Tasks -> Ops]
        /\ op'[t].step = "truncate" /\ op'[t].session = s
    BY <1>1, <1>4, Going DEF StepsOf, Steps
  <2>2. Undisturbed(t)'
    BY <2>1 DEF Undisturbed
  <2>3. Kept(s)'
    BY <1>2, <1>4, SyncedMore DEF files
  <2>4. fate[s] # "unused"
    BY <1>1, KnownAt
  <2>5. /\ log \in [Sessions -> Seq(Lines)] /\ tail \in [Sessions -> BOOLEAN]
        /\ dirty \in [Sessions -> BOOLEAN] /\ synced \in [Sessions -> Nat]
        /\ issued \in [Sessions -> Nat] /\ acked \in [Sessions -> SUBSET Nat]
        /\ refused \in [Sessions -> SUBSET Nat]
    BY DEF StoreInv, StoreType
  <2> QED
    BY <1>2, <1>4, <2>1, <2>2, <2>3, <2>4, <2>5, Rewrites DEF files
<1>5. CASE ~tail[s] /\ Loaded(t)
  BY <1>1, <1>2, <1>5, LoadedKeeps DEF files
<1> QED
  BY <1>3, <1>4, <1>5 DEF Load, Fails

LEMMA TruncateKeeps ==
  ASSUME StoreInv, FifoInv', NEW t \in started, Truncate(t)
  PROVE  StoreInv'
<1>1. /\ op[t].step = "truncate" /\ op[t].kind \in {"append", "read"}
      /\ t \in Tasks /\ op[t].session \in Sessions
  BY KindAt, Running DEF Truncate, At
<1> PICK s \in Sessions : s = op[t].session
  BY <1>1
<1>2. UNCHANGED <<place, stable, log, synced, up, told, crashes>>
  BY DEF Truncate
<1>3. CASE Return(t) /\ UNCHANGED <<tail, dirty>>
  BY <1>2, <1>3, EndsUnchanged DEF files
<1>4. CASE /\ tail' = [tail EXCEPT ![s] = FALSE]
           /\ dirty' = [dirty EXCEPT ![s] = TRUE]
           /\ Then(t, "repaired")
  <2>1. /\ Moves(t) /\ op' \in [Tasks -> Ops]
        /\ op'[t].step = "repaired" /\ op'[t].session = s
    BY <1>1, <1>4, Going DEF StepsOf, Steps
  <2>2. /\ log \in [Sessions -> Seq(Lines)] /\ tail \in [Sessions -> BOOLEAN]
        /\ dirty \in [Sessions -> BOOLEAN] /\ synced \in [Sessions -> Nat]
        /\ issued \in [Sessions -> Nat] /\ acked \in [Sessions -> SUBSET Nat]
        /\ refused \in [Sessions -> SUBSET Nat]
    BY DEF StoreInv, StoreType
  <2>3. /\ tail' \in [Sessions -> BOOLEAN] /\ dirty' \in [Sessions -> BOOLEAN]
        /\ ~tail'[s] /\ \A r \in Sessions \ {s} : tail'[r] = tail[r]
    BY <1>4, <2>2
  <2>4. Undisturbed(t)'
    BY <2>1, <2>3 DEF Undisturbed
  <2>5. Kept(s)'
    BY <1>2, SyncedMore DEF told
  <2>6. fate[s] # "unused"
    BY <1>1, KnownAt
  <2> QED
    BY <1>2, <2>1, <2>2, <2>3, <2>4, <2>5, <2>6, Rewrites DEF told
<1> QED
  BY <1>3, <1>4 DEF Truncate, Fails

LEMMA SyncRepairedKeeps ==
  ASSUME StoreInv, FifoInv', NEW t \in started, SyncRepaired(t)
  PROVE  StoreInv'
<1>1. /\ op[t].step = "repaired" /\ op[t].session \in Sessions
  BY KindAt DEF SyncRepaired, At
<1>2. UNCHANGED <<place, stable, log, tail, up, fate, acked, refused, crashes>>
  BY DEF SyncRepaired
<1>3. CASE Return(t) /\ UNCHANGED <<synced, dirty, issued>>
  BY <1>2, <1>3, EndsUnchanged DEF files, told
<1>4. CASE SyncFile(op[t].session) /\ Loaded(t)
  <2>1. ~tail[op[t].session]
    BY <1>1, Running DEF Undisturbed
  <2> QED
    BY <1>1, <1>2, <1>4, <2>1, LoadedKeeps DEF SyncFile
<1> QED
  BY <1>3, <1>4 DEF SyncRepaired, Fails

LEMMA OpenToAppendKeeps ==
  ASSUME StoreInv, FifoInv', NEW t \in started, OpenToAppend(t)
  PROVE  StoreInv'
<1>1. /\ op[t].step = "open" /\ op[t].kind \in {"append", "read"}
      /\ t \in Tasks /\ op[t].session \in Sessions /\ op[t] \in Ops
  BY KindAt, Running DEF OpenToAppend, At
<1> PICK s \in Sessions : s = op[t].session
  BY <1>1
<1>2. UNCHANGED <<files, up, fate, issued, acked, crashes>>
  BY DEF OpenToAppend
<1>3. ~tail[s] /\ NextLine(s, op[t].line)
  BY <1>1, Running DEF Undisturbed
<1>4. fate[s] # "unused"
  BY <1>1, KnownAt
<1>5. /\ log \in [Sessions -> Seq(Lines)] /\ tail \in [Sessions -> BOOLEAN]
      /\ dirty \in [Sessions -> BOOLEAN] /\ synced \in [Sessions -> Nat]
      /\ issued \in [Sessions -> Nat] /\ acked \in [Sessions -> SUBSET Nat]
      /\ refused \in [Sessions -> SUBSET Nat]
  BY DEF StoreInv, StoreType
<1>6. CASE Then(t, "write") /\ UNCHANGED refused
  <2>1. /\ Moves(t) /\ op' \in [Tasks -> Ops] /\ op'[t].line = op[t].line
        /\ op'[t].step = "write" /\ op'[t].session = s
    BY <1>1, <1>6, Going DEF StepsOf, Steps
  <2>2. NextLine(s, op[t].line)'
    BY <1>2, <1>3, <1>6, <2>1 DEF NextLine, files
  <2>3. Undisturbed(t)'
    BY <1>2, <1>3, <2>1, <2>2 DEF Undisturbed, files
  <2>4. Kept(s)'
    BY <1>2, <1>6, SyncedMore DEF files
  <2> QED
    BY <1>2, <1>4, <1>5, <1>6, <2>1, <2>3, <2>4, Rewrites DEF files
<1>7. CASE Refuse(t)
  <2>1. op[t].line.id = issued[s] /\ issued[s] \in Nat
    BY <1>3, <1>5 DEF NextLine
  <2>2. Return(t) /\ refused' = [refused EXCEPT ![s] = @ \cup {issued[s]}]
    BY <1>7, <2>1 DEF Refuse, Fails
  <2>3. /\ refused' \in [Sessions -> SUBSET Nat]
        /\ refused'[s] = refused[s] \cup {issued[s]}
        /\ \A r \in Sessions \ {s} : refused'[r] = refused[r]
    BY <1>5, <2>1, <2>2
  <2>4. Moves(t) /\ op' \in [Tasks -> Ops] /\ Undisturbed(t)'
    BY <2>2, Returning
  <2>5. Kept(s) /\ log[s] \in Seq(Lines)
    BY AtSession
  <2>6. \A i \in DOMAIN log[s] : log[s][i].id \in Nat /\ log[s][i].id < issued[s]
    BY <1>3, <2>5, LineAt DEF NextLine
  <2>7. \A i \in DOMAIN log[s] : log[s][i].id \notin refused'[s]
    BY <2>1, <2>3, <2>5, <2>6 DEF Kept
  <2>8. Kept(s)'
    BY <1>2, <2>1, <2>3, <2>5, <2>7 DEF Kept, files
  <2> QED
    BY <1>2, <1>4, <1>5, <2>3, <2>4, <2>8, Rewrites DEF files
<1> QED
  BY <1>6, <1>7 DEF OpenToAppend

LEMMA AppendedLine ==
  ASSUME StoreInv, NEW s \in Sessions, NEW line \in Lines, NextLine(s, line),
         log'[s] = Append(log[s], line), place'[s] = place[s],
         acked'[s] = acked[s], refused'[s] = refused[s],
         synced'[s] = synced[s], issued'[s] = issued[s]
  PROVE  /\ Kept(s)'
         /\ \E i \in DOMAIN log'[s] : log'[s][i].id = line.id
<1> DEFINE q == log[s]
<1>1. /\ q \in Seq(Lines) /\ Kept(s) /\ issued[s] \in Nat /\ synced[s] \in Nat
  BY AtSession
<1>2. /\ Len(log'[s]) = Len(q) + 1 /\ DOMAIN log'[s] = 1..(Len(q) + 1)
      /\ DOMAIN q = 1..Len(q) /\ Len(q) \in Nat
      /\ \A i \in 1..Len(q) : log'[s][i] = q[i]
      /\ log'[s][Len(q) + 1] = line
  BY <1>1, Appending
<1>3. \A i \in 1..Len(q) : q[i].id \in Nat /\ q[i].id < issued[s]
                           /\ q[i].seq = i /\ q[i].id \notin refused[s]
  BY <1>1, <1>2, LineAt DEF NextLine, Kept
<1>4. \A i, j \in 1..Len(q) : i < j => q[i].id < q[j].id
  BY <1>1, <1>2 DEF Kept
<1>5. line.seq = Len(q) + 1 /\ line.id = issued[s] /\ issued[s] \notin refused[s]
  BY DEF NextLine
<1> HIDE DEF q
<1>6. \A i \in DOMAIN log'[s] : i \in 1..Len(q) \/ i = Len(q) + 1
  BY <1>2
<1>7. \A i \in DOMAIN log'[s] :
         log'[s][i].seq = i /\ log'[s][i].id <= issued[s]
         /\ log'[s][i].id \notin refused[s]
  BY <1>1, <1>2, <1>3, <1>5, <1>6
<1>8. \A i, j \in DOMAIN log'[s] : i < j => log'[s][i].id < log'[s][j].id
  <2> TAKE i, j \in DOMAIN log'[s]
  <2> HAVE i < j
  <2>1. i \in 1..Len(q)
    BY <1>2, <1>6
  <2>2. CASE j \in 1..Len(q)
    BY <1>2, <1>4, <2>1, <2>2
  <2>3. CASE j = Len(q) + 1
    BY <1>2, <1>3, <1>5, <2>1, <2>3
  <2> QED
    BY <1>6, <2>2, <2>3
<1>9. synced[s] <= Len(log'[s])
  BY <1>1, <1>2 DEF Kept, q
<1>10. \A e \in acked[s] : \E i \in 1..synced[s] : log'[s][i].id = e
  <2>1. \A i \in 1..synced[s] : i \in 1..Len(q)
    BY <1>1, <1>2 DEF Kept, q
  <2>2. \A e \in acked[s] : \E i \in 1..synced[s] : q[i].id = e
    BY <1>1 DEF Kept, q
  <2> QED
    BY <1>2, <2>1, <2>2
<1>11. /\ place[s] \in {"session", "tombstone", "gone"} => synced[s] > 0
       /\ \A e \in refused[s] : e <= issued[s]
  BY <1>1 DEF Kept
<1>12. Kept(s)'
  BY <1>7, <1>8, <1>9, <1>10, <1>11 DEF Kept
<1>13. Len(q) + 1 \in DOMAIN log'[s]
  BY <1>2
<1> QED
  BY <1>2, <1>12, <1>13

LEMMA WriteLineKeeps ==
  ASSUME StoreInv, FifoInv', NEW t \in started, WriteLine(t)
  PROVE  StoreInv'
<1>1. /\ op[t].step = "write" /\ op[t].kind \in {"append", "read"}
      /\ t \in Tasks /\ op[t].session \in Sessions /\ op[t] \in Ops
      /\ op \in [Tasks -> Ops] /\ op[t].line \in Lines
  BY KindAt, Running, OpFields DEF WriteLine, At
<1> PICK s \in Sessions : s = op[t].session
  BY <1>1
<1>2. UNCHANGED <<place, stable, synced, up, told, crashes>>
  BY DEF WriteLine
<1>3. (tail[s] => op[t].part) /\ NextLine(s, op[t].line)
  BY <1>1, Running DEF Undisturbed
<1>4. fate[s] # "unused"
  BY <1>1, KnownAt
<1>5. /\ log \in [Sessions -> Seq(Lines)] /\ tail \in [Sessions -> BOOLEAN]
      /\ dirty \in [Sessions -> BOOLEAN] /\ synced \in [Sessions -> Nat]
      /\ issued \in [Sessions -> Nat] /\ acked \in [Sessions -> SUBSET Nat]
      /\ refused \in [Sessions -> SUBSET Nat]
  BY DEF StoreInv, StoreType
<1>6. CASE /\ log' = [log EXCEPT ![s] = Append(@, op[t].line)]
           /\ tail' = [tail EXCEPT ![s] = FALSE]
           /\ Then(t, "fsync") /\ UNCHANGED dirty
  <2>1. /\ Moves(t) /\ op' \in [Tasks -> Ops] /\ op'[t].line = op[t].line
        /\ op'[t].step = "fsync" /\ op'[t].session = s
    BY <1>1, <1>6, Going DEF StepsOf, Steps
  <2>2. /\ log' \in [Sessions -> Seq(Lines)]
        /\ log'[s] = Append(log[s], op[t].line)
        /\ \A r \in Sessions \ {s} : log'[r] = log[r]
    <3>1. Append(log[s], op[t].line) \in Seq(Lines)
      BY <1>1, <1>5, Appending
    <3> QED
      BY <1>5, <1>6, <3>1
  <2>3. /\ tail' \in [Sessions -> BOOLEAN]
        /\ \A r \in Sessions \ {s} : tail'[r] = tail[r]
    BY <1>5, <1>6
  <2>4. /\ Kept(s)'
        /\ \E i \in DOMAIN log'[s] : log'[s][i].id = op[t].line.id
    BY <1>1, <1>2, <1>3, <2>2, AppendedLine DEF told
  <2>5. Undisturbed(t)'
    BY <2>1, <2>4 DEF Undisturbed
  <2> QED
    BY <1>2, <1>4, <1>5, <1>6, <2>1, <2>2, <2>3, <2>4, <2>5, Rewrites DEF told
<1>7. CASE /\ op' = [op EXCEPT ![t].part = TRUE]
           /\ tail' = [tail EXCEPT ![s] = TRUE]
           /\ dirty' = [dirty EXCEPT ![s] = TRUE]
           /\ UNCHANGED <<fifo, log>>
  <2>1. /\ tail' \in [Sessions -> BOOLEAN] /\ dirty' \in [Sessions -> BOOLEAN]
        /\ \A r \in Sessions \ {s} : tail'[r] = tail[r]
    BY <1>5, <1>7
  <2>2. /\ op'[t] = [op[t] EXCEPT !.part = TRUE]
        /\ \A u \in Tasks \ {t} : op'[u] = op[u]
    BY <1>1, <1>7
  <2>3. /\ op'[t] \in Ops /\ op'[t].step = "write" /\ op'[t].kind = op[t].kind
        /\ op'[t].session = s /\ op'[t].line = op[t].line /\ op'[t].part = TRUE
    BY <1>1, <2>2, PartSet
  <2>4. op' \in [Tasks -> Ops]
    BY <1>1, <1>7, <2>2, <2>3
  <2>5. Moves(t)
    BY <1>1, <1>7, <2>2, <2>3, Running DEF Moves
  <2>6. NextLine(s, op[t].line)'
    BY <1>2, <1>3, <1>7, <2>3 DEF NextLine, told
  <2>7. Undisturbed(t)'
    BY <2>3, <2>6 DEF Undisturbed
  <2>8. Kept(s)'
    BY <1>2, <1>7, SyncedMore DEF told
  <2> QED
    BY <1>2, <1>4, <1>5, <1>7, <2>1, <2>4, <2>5, <2>7, <2>8, Rewrites DEF told
<1>8. CASE Return(t) /\ UNCHANGED <<log, tail, dirty>>
  BY <1>2, <1>8, EndsUnchanged DEF files
<1> QED
  BY <1>3, <1>6, <1>7, <1>8 DEF WriteLine, Fails

LEMMA AppendedKeeps ==
  ASSUME StoreInv, FifoInv', NEW t \in started, Appended(t)
  PROVE  StoreInv'
<1>1. /\ op[t].step = "fsync" /\ op[t].kind \in {"append", "read"}
      /\ t \in Tasks /\ op[t].session \in Sessions /\ op[t].line \in Lines
  BY KindAt, Running, OpFields DEF Appended, At
<1> PICK s \in Sessions : s = op[t].session
  BY <1>1
<1>2. /\ UNCHANGED <<place, stable, log, tail, up, fate, issued, refused,
                     crashes>>
      /\ Return(t)
  BY DEF Appended
<1>3. Moves(t) /\ op' \in [Tasks -> Ops] /\ Undisturbed(t)'
  BY <1>2, Returning
<1>4. fate[s] # "unused"
  BY <1>1, KnownAt
<1>5. /\ log \in [Sessions -> Seq(Lines)] /\ tail \in [Sessions -> BOOLEAN]
      /\ dirty \in [Sessions -> BOOLEAN] /\ synced \in [Sessions -> Nat]
      /\ issued \in [Sessions -> Nat] /\ acked \in [Sessions -> SUBSET Nat]
      /\ refused \in [Sessions -> SUBSET Nat]
  BY DEF StoreInv, StoreType
<1>6. CASE UNCHANGED <<synced, dirty, acked>>
  BY <1>2, <1>6, EndsUnchanged DEF files, told
<1>7. CASE SyncFile(s) /\ (Acknowledge(t) \/ UNCHANGED acked)
  <2>1. /\ synced' \in [Sessions -> Nat] /\ dirty' \in [Sessions -> BOOLEAN]
        /\ synced'[s] = Len(log[s])
        /\ \A r \in Sessions \ {s} : synced'[r] = synced[r]
    BY <1>5, <1>7, AtSession DEF SyncFile
  <2>2. acked' \in {acked, [acked EXCEPT ![s] = @ \cup {op[t].line.id}]}
    BY <1>7 DEF Acknowledge
  <2>3. op[t].line.id \in Nat
    BY <1>1 DEF Lines
  <2>4. /\ acked' \in [Sessions -> SUBSET Nat]
        /\ acked'[s] \subseteq acked[s] \cup {op[t].line.id}
        /\ \A r \in Sessions \ {s} : acked'[r] = acked[r]
    <3>1. CASE acked' = acked
      BY <1>5, <3>1
    <3>2. CASE acked' = [acked EXCEPT ![s] = @ \cup {op[t].line.id}]
      BY <1>5, <2>3, <3>2
    <3> QED
      BY <2>2, <3>1, <3>2
  <2>5. \E i \in DOMAIN log[s] : log[s][i].id = op[t].line.id
    BY <1>1, Running DEF Undisturbed
  <2>6. /\ Kept(s) /\ Len(log[s]) \in Nat /\ DOMAIN log[s] = 1..Len(log[s])
        /\ synced[s] \in Nat
    BY AtSession
  <2>7. \A e \in acked'[s] : \E i \in 1..Len(log[s]) : log[s][i].id = e
    <3>1. \A i \in 1..synced[s] : i \in 1..Len(log[s])
      BY <2>6 DEF Kept
    <3> QED
      BY <2>4, <2>5, <2>6, <3>1 DEF Kept
  <2>8. place[s] \in {"session", "tombstone", "gone"} => Len(log[s]) > 0
    BY <2>6 DEF Kept
  <2>9. Kept(s)'
    BY <1>2, <2>1, <2>6, <2>7, <2>8 DEF Kept
  <2> QED
    BY <1>2, <1>3, <1>4, <1>5, <2>1, <2>4, <2>9, Rewrites
<1> QED
  BY <1>6, <1>7 DEF Appended

\* What has to be shown of a step of a listing or of the initialization.
LEMMA RootMoves ==
  ASSUME StoreInv, FifoInv', NEW t \in started, op[t].session = Root,
         Moves(t), op' \in [Tasks -> Ops],
         UNCHANGED <<log, tail, synced, dirty, told, crashes>>,
         up' \in BOOLEAN, stable' = stable \/ stable' = place,
         \/ place' = place
         \/ \E s \in Sessions : /\ place[s] = "tombstone"
                                /\ place' = [place EXCEPT ![s] = "gone"],
         Undisturbed(t)'
  PROVE  StoreInv'
<1>1. /\ place \in [Sessions -> PlaceNames] /\ stable \in [Sessions -> PlaceNames]
      /\ t \in Tasks
  BY Running DEF StoreInv, StoreType
<1>2. /\ place' \in [Sessions -> PlaceNames]
      /\ \A s \in Sessions : \/ place'[s] = place[s]
                             \/ place[s] = "tombstone" /\ place'[s] = "gone"
  BY <1>1, Ranks
<1>3. StoreType'
  BY <1>1, <1>2 DEF StoreInv, StoreType, FifoInv, told
<1>4. ASSUME NEW s \in Sessions
      PROVE  Placed(s)' /\ Kept(s)' /\ (fate'[s] = "unused" => Fresh(s)')
  <2>1. Placed(s) /\ Kept(s) /\ (fate[s] = "unused" => Fresh(s))
        /\ Rank(place[s]) \in 1..5 /\ Rank(stable[s]) \in 1..5
    BY AtSession
  <2>2. stable'[s] = stable[s] \/ stable'[s] = place[s]
    OBVIOUS
  <2>3. CASE place'[s] = place[s]
    BY <2>1, <2>2, <2>3 DEF Placed, Kept, Fresh, told
  <2>4. CASE place[s] = "tombstone" /\ place'[s] = "gone"
    <3>1. Rank(stable'[s]) <= Rank(place'[s])
      BY <2>1, <2>2, <2>4, Ranks
    <3>2. Placed(s)'
      BY <2>1, <2>4, <3>1 DEF Placed, told
    <3> QED
      BY <2>1, <2>4, <3>2 DEF Kept, Fresh, told
  <2> QED
    BY <1>2, <2>3, <2>4
<1>5. ASSUME NEW u \in Tasks, u # t
      PROVE  Undisturbed(u)'
  <2>1. op'[u] = op[u] /\ Undisturbed(u) /\ Held(u)
    BY <1>1, <1>5 DEF Moves, StoreInv
  <2>2. CASE op[u].session \in Sessions
    <3> PICK r \in Sessions : r = op[u].session
      BY <2>2
    <3>1. \/ place'[r] = place[r]
          \/ place[r] = "tombstone" /\ place'[r] = "gone"
      BY <1>2
    <3>2. Fresh(r)' <=> Fresh(r)
      BY DEF Fresh, told
    <3>3. \A l : NextLine(r, l)' <=> NextLine(r, l)
      BY DEF NextLine, told
    <3> QED
      BY <2>1, <3>1, <3>2, <3>3 DEF Undisturbed, told
  <2>3. CASE op[u].session = Root
    <3>1. op[u].step \in {"idle", "queued", "readdir", "each", "sweep", "swept"}
      BY <2>1, <2>3 DEF Held, StepsOf
    <3> QED
      BY <2>1, <3>1 DEF Undisturbed, told
  <2> QED
    BY <1>1, <2>2, <2>3, OpFields DEF StoreInv, StoreType
<1> QED
  BY <1>1, <1>3, <1>4, <1>5, MovesHold, MovesKnow DEF StoreInv, told

LEMMA ReadDirectoryKeeps ==
  ASSUME StoreInv, FifoInv', NEW t \in started, ReadDirectory(t)
  PROVE  StoreInv'
<1>1. /\ op[t].step = "readdir" /\ op[t].kind = "list" /\ op[t].session = Root
      /\ t \in Tasks /\ op[t] \in Ops /\ op \in [Tasks -> Ops]
  BY KindAt, Running DEF ReadDirectory, At
<1>2. UNCHANGED <<files, up, told, crashes>>
  BY DEF ReadDirectory
<1>3. CASE Return(t)
  BY <1>2, <1>3, EndsUnchanged
<1>4. CASE /\ op' = [op EXCEPT ![t].step = "each", ![t].todo = Visible]
           /\ UNCHANGED fifo
  <2>1. Visible \in SUBSET Sessions /\ "each" \in Steps
    BY DEF Visible, Steps
  <2>2. /\ op'[t] = [op[t] EXCEPT !.step = "each", !.todo = Visible]
        /\ \A u \in Tasks \ {t} : op'[u] = op[u]
    BY <1>1, <1>4
  <2> DEFINE o == op[t]
             p == op'[t]
             d == Visible
  <2>3. o \in Ops /\ d \in SUBSET Sessions
        /\ p = [o EXCEPT !.step = "each", !.todo = d]
    BY <1>1, <2>1, <2>2
  <2> HIDE DEF o, p, d
  <2>4. /\ p \in Ops /\ p.step = "each" /\ p.kind = o.kind
        /\ p.session = o.session /\ p.todo = d
    BY <2>1, <2>3 DEF Ops
  <2>5. /\ op'[t] \in Ops /\ op'[t].step = "each" /\ op'[t].kind = "list"
        /\ op'[t].session = Root /\ op'[t].todo = Visible
    BY <1>1, <2>4 DEF o, p, d
  <2>6. op' \in [Tasks -> Ops]
    BY <1>1, <1>4, <2>2, <2>5
  <2>7. Moves(t)
    BY <1>1, <1>4, <2>2, <2>5 DEF Moves, StepsOf
  <2>8. \A r \in Sessions : fate[r] = "created" => r \in Visible
    BY AtSession DEF Placed, Visible
  <2>9. Undisturbed(t)'
    BY <1>2, <2>5, <2>8 DEF Undisturbed, told
  <2>10. up \in BOOLEAN
    BY DEF StoreInv, StoreType
  <2> QED
    BY <1>1, <1>2, <2>6, <2>7, <2>9, <2>10, RootMoves DEF files
<1> QED
  BY <1>3, <1>4 DEF ReadDirectory, Fails

LEMMA ListOneKeeps ==
  ASSUME StoreInv, FifoInv', NEW t \in started, ListOne(t)
  PROVE  StoreInv'
<1>1. /\ op[t].step = "each" /\ op[t].kind = "list" /\ op[t].session = Root
      /\ t \in Tasks /\ op[t] \in Ops /\ op \in [Tasks -> Ops]
      /\ op[t].todo \in SUBSET Sessions /\ op[t].page \in SUBSET Sessions
      /\ Undisturbed(t)
  BY KindAt, Running, OpFields DEF ListOne, At
<1>2. UNCHANGED <<files, up, told, crashes>>
  BY DEF ListOne
<1>3. CASE Return(t)
  BY <1>2, <1>3, EndsUnchanged
<1>4. ASSUME NEW s \in op[t].todo,
             op' = [op EXCEPT ![t].todo = @ \ {s}, ![t].page = @ \cup {s}],
             UNCHANGED fifo
      PROVE  StoreInv'
  <2> DEFINE o == op[t]
             p == op'[t]
  <2>1. /\ p = [o EXCEPT !.todo = o.todo \ {s}, !.page = o.page \cup {s}]
        /\ \A u \in Tasks \ {t} : op'[u] = op[u]
        /\ o \in Ops /\ s \in Sessions
        /\ o.todo \in SUBSET Sessions /\ o.page \in SUBSET Sessions
    BY <1>1, <1>4
  <2> HIDE DEF o, p
  <2>2. /\ p \in Ops /\ p.step = o.step /\ p.kind = o.kind
        /\ p.session = o.session /\ p.todo = o.todo \ {s}
        /\ p.page = o.page \cup {s}
    BY <2>1 DEF Ops
  <2>3. /\ op'[t] \in Ops /\ op'[t].step = "each" /\ op'[t].kind = "list"
        /\ op'[t].session = Root /\ op'[t].todo = op[t].todo \ {s}
        /\ op'[t].page = op[t].page \cup {s}
    BY <1>1, <2>2 DEF o, p
  <2>4. op' \in [Tasks -> Ops]
    BY <1>1, <1>4, <2>3
  <2>5. Moves(t)
    BY <1>1, <1>4, <2>1, <2>3 DEF Moves, StepsOf
  <2>6. Undisturbed(t)'
    BY <1>1, <1>2, <2>3 DEF Undisturbed, told
  <2>7. up \in BOOLEAN
    BY DEF StoreInv, StoreType
  <2> QED
    BY <1>1, <1>2, <2>4, <2>5, <2>6, <2>7, RootMoves DEF files
<1> QED
  BY <1>3, <1>4 DEF ListOne, Fails

LEMMA SweepKeeps ==
  ASSUME StoreInv, FifoInv', NEW t \in started, Sweep(t)
  PROVE  StoreInv'
<1>1. /\ op[t].step = "sweep" /\ op[t].kind = "initialize"
      /\ op[t].session = Root /\ t \in Tasks /\ op[t] \in Ops
      /\ op \in [Tasks -> Ops]
  BY KindAt, Running DEF Sweep, At
<1>2. UNCHANGED <<stable, log, tail, synced, dirty, up, told, crashes>>
  BY DEF Sweep
<1>3. CASE Return(t) /\ UNCHANGED place
  BY <1>2, <1>3, EndsUnchanged DEF files
<1>4. ASSUME NEW s \in Tombstones, place' = [place EXCEPT ![s] = "gone"],
             op' = [op EXCEPT ![t].part = TRUE], UNCHANGED fifo
      PROVE  StoreInv'
  <2>1. s \in Sessions /\ place[s] = "tombstone"
    BY DEF Tombstones
  <2>2. /\ op'[t] = [op[t] EXCEPT !.part = TRUE]
        /\ \A u \in Tasks \ {t} : op'[u] = op[u]
    BY <1>1, <1>4
  <2>3. /\ op'[t] \in Ops /\ op'[t].step = "sweep"
        /\ op'[t].kind = "initialize" /\ op'[t].session = Root
    BY <1>1, <2>2, PartSet
  <2>4. op' \in [Tasks -> Ops]
    BY <1>1, <1>4, <2>2, <2>3
  <2>5. Moves(t)
    BY <1>1, <1>4, <2>2, <2>3 DEF Moves, StepsOf
  <2>6. Undisturbed(t)'
    BY <2>3 DEF Undisturbed
  <2>7. up \in BOOLEAN
    BY DEF StoreInv, StoreType
  <2> QED
    BY <1>1, <1>2, <1>4, <2>1, <2>4, <2>5, <2>6, <2>7, RootMoves
<1> QED
  BY <1>3, <1>4 DEF Sweep, Fails

LEMMA SweptKeeps ==
  ASSUME StoreInv, FifoInv', NEW t \in started, Swept(t)
  PROVE  StoreInv'
<1>1. /\ op[t].step = "sweep" /\ op[t].kind = "initialize"
      /\ op[t].session = Root /\ t \in Tasks
  BY KindAt, Running DEF Swept, At
<1>2. UNCHANGED <<files, told, crashes>> /\ up \in BOOLEAN
  BY DEF Swept, StoreInv, StoreType
<1>3. CASE Then(t, "swept") /\ UNCHANGED up
  <2>1. /\ Moves(t) /\ op' \in [Tasks -> Ops] /\ op'[t].step = "swept"
    BY <1>1, <1>3, Going DEF StepsOf, Steps
  <2>2. Undisturbed(t)'
    BY <2>1 DEF Undisturbed
  <2> QED
    BY <1>1, <1>2, <1>3, <2>1, <2>2, RootMoves DEF files
<1>4. CASE Return(t) /\ up' = TRUE
  BY <1>1, <1>2, <1>4, Returning, RootMoves DEF files
<1> QED
  BY <1>3, <1>4 DEF Swept

LEMMA InitializedKeeps ==
  ASSUME StoreInv, FifoInv', NEW t \in started, Initialized(t)
  PROVE  StoreInv'
<1>1. op[t].session = Root /\ t \in Tasks
  BY KindAt, Running DEF Initialized, At
<1>2. /\ UNCHANGED <<place, log, tail, synced, dirty, told, crashes>>
      /\ Return(t) /\ up' \in BOOLEAN /\ (stable' = stable \/ stable' = place)
  BY DEF Initialized, SyncRoot, StoreInv, StoreType
<1> QED
  BY <1>1, <1>2, Returning, RootMoves

LEMMA BeginKeeps ==
  ASSUME StoreInv, FifoInv', NEW t \in Tasks, Begin(t)
  PROVE  StoreInv'
<1>1. /\ op[t].step = "queued" /\ op \in [Tasks -> Ops] /\ op[t] \in Ops
      /\ op[t].kind \in Kinds /\ Held(t)
  BY OpFields DEF Begin, StoreInv, StoreType
<1>2. /\ started' = started \cup {t} /\ key' = key
      /\ op' = [op EXCEPT ![t].step = First(op[t].kind)]
      /\ UNCHANGED <<files, up, told, crashes>>
  BY DEF Begin, Start
<1>3. /\ First(op[t].kind) \in Steps \ {"idle", "queued"}
      /\ First(op[t].kind) \in StepsOf(op[t].kind)
      /\ First(op[t].kind) \in {"mkdir", "check", "readdir", "sweep", "load"}
  <2>1. CASE op[t].kind = "create"
    BY <2>1 DEF First, StepsOf, Steps
  <2>2. CASE op[t].kind = "delete"
    BY <2>2 DEF First, StepsOf, Steps
  <2>3. CASE op[t].kind = "list"
    BY <2>3 DEF First, StepsOf, Steps
  <2>4. CASE op[t].kind = "initialize"
    BY <2>4 DEF First, StepsOf, Steps
  <2>5. CASE op[t].kind \in {"append", "read"}
    BY <2>5 DEF First, StepsOf, Steps
  <2> QED
    BY <1>1, <2>1, <2>2, <2>3, <2>4, <2>5 DEF Kinds
<1>4. /\ op'[t] \in Ops /\ op'[t].step = First(op[t].kind)
      /\ op'[t].kind = op[t].kind /\ op'[t].session = op[t].session
  BY <1>1, <1>2, <1>3, StepSet
<1>5. op' \in [Tasks -> Ops] /\ \A u \in Tasks \ {t} : op'[u] = op[u]
  BY <1>1, <1>2, <1>4
<1>6. StoreType'
  BY <1>2, <1>5 DEF StoreInv, StoreType, FifoInv, files, told
<1>7. ASSUME NEW u \in Tasks
      PROVE  Held(u)' /\ Unknown(u)' /\ Undisturbed(u)'
  <2>1. Held(u) /\ Unknown(u) /\ Undisturbed(u)
    BY DEF StoreInv
  <2>2. CASE u = t
    <3>1. Held(t)'
      BY <1>1, <1>2, <1>3, <1>4 DEF Held
    <3>2. Unknown(t)'
      BY <1>1, <1>2, <1>4, <1>5, <2>1, <2>2 DEF Unknown, told
    <3>3. Undisturbed(t)'
      BY <1>3, <1>4 DEF Undisturbed
    <3> QED
      BY <2>2, <3>1, <3>2, <3>3
  <2>3. CASE u # t
    <3>1. op'[u] = op[u]
      BY <1>5, <2>3
    <3>2. Held(u)'
      BY <1>2, <2>1, <2>3, <3>1 DEF Held
    <3>3. Unknown(u)'
      BY <1>1, <1>2, <1>4, <1>5, <2>1, <3>1 DEF Unknown, told
    <3>4. Undisturbed(u)'
      BY <1>2, <2>1, <3>1 DEF Undisturbed, Fresh, NextLine, files, told
    <3> QED
      BY <3>2, <3>3, <3>4
  <2> QED
    BY <2>2, <2>3
<1>8. \A s \in Sessions : Placed(s)' /\ Kept(s)'
                          /\ (fate'[s] = "unused" => Fresh(s)')
  BY <1>2, AtSession DEF Placed, Kept, Fresh, files, told
<1> QED
  BY <1>6, <1>7, <1>8 DEF StoreInv

LEMMA CallKeeps ==
  ASSUME StoreInv, FifoInv', NEW t \in Tasks, NEW kind \in Kinds,
         NEW s \in Sessions \cup {Root}, Call(t, kind, s)
  PROVE  StoreInv'
<1>1. /\ key[t] = NoKey /\ key' = [key EXCEPT ![t] = KeyOf(kind, s)]
      /\ started' = started /\ UNCHANGED <<files, up, told, crashes>>
      /\ op' = [op EXCEPT ![t] = [NoOp EXCEPT
                   !.kind = kind, !.session = s, !.step = "queued"]]
      /\ kind \in {"list", "initialize"} <=> s = Root
      /\ s # Root => (kind = "create" <=> fate[s] = "unused")
      /\ s # Root => Doing("create", s) = {}
  BY DEF Call, Enter
<1>2. op \in [Tasks -> Ops] /\ key \in [Tasks -> Keys \cup {NoKey}]
      /\ op[t].step = "idle" /\ t \notin started
  BY <1>1 DEF StoreInv, StoreType, FifoInv, FifoType, Chained, Held
<1>3. KeyOf(kind, s) \in Keys
  BY StoreAssumption DEF KeyOf
<1>4. /\ op'[t] \in Ops /\ op'[t].kind = kind /\ op'[t].session = s
      /\ op'[t].step = "queued"
  <2>1. op'[t] = [NoOp EXCEPT !.kind = kind, !.session = s, !.step = "queued"]
    BY <1>1, <1>2
  <2> QED
    BY <2>1, NothingToDo DEF Ops, Steps
<1>5. op' \in [Tasks -> Ops] /\ \A u \in Tasks \ {t} : op'[u] = op[u]
  BY <1>1, <1>2, <1>4
<1>6. StoreType'
  BY <1>1, <1>5 DEF StoreInv, StoreType, FifoInv, files, told
<1>7. ASSUME NEW u \in Tasks
      PROVE  Held(u)' /\ Unknown(u)' /\ Undisturbed(u)'
  <2>1. Held(u) /\ Unknown(u) /\ Undisturbed(u) /\ op[u] \in Ops
    BY <1>2 DEF StoreInv
  <2>2. CASE u = t
    <3>1. "queued" \in StepsOf(kind)
      BY DEF StepsOf, Kinds
    <3>2. Held(t)'
      BY <1>1, <1>2, <1>3, <1>4, <3>1, KeyAssumption DEF Held
    <3>3. ASSUME kind = "create", NEW w \in Tasks, w # t, op[w].step # "idle",
                 op[w].session = s
          PROVE  FALSE
      <4>1. s # Root /\ fate[s] = "unused" /\ op[w].kind # "create"
        BY <1>1, <3>3 DEF Doing
      <4>2. Unknown(w)
        BY DEF StoreInv
      <4> QED
        BY <3>3, <4>1, <4>2 DEF Unknown
    <3>4. Unknown(t)'
      BY <1>1, <1>4, <1>5, <3>3 DEF Unknown, told
    <3>5. Undisturbed(t)'
      BY <1>4 DEF Undisturbed
    <3> QED
      BY <2>2, <3>2, <3>4, <3>5
  <2>3. CASE u # t
    <3>1. op'[u] = op[u]
      BY <1>5, <2>3
    <3>2. Held(u)'
      BY <1>1, <1>2, <2>1, <2>3, <3>1 DEF Held
    <3>3. op[u].kind = "create" /\ op[u].step # "idle" => op[u].session # s
      <4>1. op[u].kind = "create" /\ op[u].step # "idle" => op[u].session # Root
        BY <2>1 DEF Held
      <4> QED
        BY <1>1, <4>1 DEF Doing
    <3>4. Unknown(u)'
      BY <1>1, <1>4, <1>5, <2>1, <3>1, <3>3 DEF Unknown, told
    <3>5. Undisturbed(u)'
      BY <1>1, <2>1, <3>1 DEF Undisturbed, Fresh, NextLine, files, told
    <3> QED
      BY <3>2, <3>4, <3>5
  <2> QED
    BY <2>2, <2>3
<1>8. \A r \in Sessions : Placed(r)' /\ Kept(r)'
                          /\ (fate'[r] = "unused" => Fresh(r)')
  BY <1>1, AtSession DEF Placed, Kept, Fresh, files, told
<1> QED
  BY <1>6, <1>7, <1>8 DEF StoreInv

\* Where a crash leaves a directory.
LEMMA Survivors ==
  ASSUME NEW a \in PlaceNames, NEW b \in PlaceNames, NEW p \in Between(a, b)
  PROVE  /\ p \in PlaceNames
         /\ Rank(a) <= Rank(b) => Rank(a) <= Rank(p) /\ Rank(p) <= Rank(b)
         /\ a = "temporary" /\ b = "none" => p \in {"temporary", "none"}
<1>1. p \in PlaceNames
  BY DEF Between
<1>2. Rank(a) \in 1..5 /\ Rank(b) \in 1..5 /\ Rank(p) \in 1..5
  BY <1>1, Ranks
<1>3. p = a \/ p = b \/ Rank(p) \in Rank(a)..Rank(b)
  BY DEF Between
<1>4. Rank(a) <= Rank(b) => Rank(a) <= Rank(p) /\ Rank(p) <= Rank(b)
  BY <1>2, <1>3
<1>5. a = "temporary" /\ b = "none" => p \in {"temporary", "none"}
  BY <1>1, <1>2, <1>3, Ranks
<1> QED
  BY <1>1, <1>4, <1>5

LEMMA CrashKeeps ==
  ASSUME StoreInv, FifoInv', Crash
  PROVE  StoreInv'
<1>1. /\ place' \in [Sessions -> PlaceNames] /\ stable' = place'
      /\ \A s \in Sessions : place'[s] \in Between(stable[s], place[s])
      /\ synced' \in [Sessions -> 0..MaxEvents]
      /\ \A s \in Sessions : synced'[s] \in synced[s]..Len(log[s])
      /\ log' = [s \in Sessions |-> SubSeq(log[s], 1, synced'[s])]
      /\ tail' \in [Sessions -> BOOLEAN]
      /\ dirty' = [s \in Sessions |-> FALSE] /\ up' = FALSE
      /\ op' = [t \in Tasks |-> NoOp]
      /\ UNCHANGED told /\ crashes' = crashes + 1 /\ crashes < MaxCrashes
  BY DEF Crash
<1>2. key' = [t \in Tasks |-> NoKey] /\ started' = {}
  BY DEF Crash, Restart
<1>3. ASSUME NEW s \in Sessions
      PROVE  /\ log'[s] \in Seq(Lines) /\ Len(log'[s]) = synced'[s]
             /\ DOMAIN log'[s] = 1..synced'[s] /\ DOMAIN log[s] = 1..Len(log[s])
             /\ \A i \in 1..synced'[s] : log'[s][i] = log[s][i]
             /\ synced[s] <= synced'[s] /\ synced'[s] <= Len(log[s])
             /\ synced'[s] \in Nat /\ synced[s] \in Nat /\ Len(log[s]) \in Nat
  <2>1. log[s] \in Seq(Lines) /\ Len(log[s]) \in Nat /\ synced[s] \in Nat
    BY AtSession
  <2>2. synced'[s] \in 0..Len(log[s]) /\ synced[s] <= synced'[s]
    BY <1>1, <2>1
  <2>3. log'[s] = SubSeq(log[s], 1, synced'[s])
    BY <1>1
  <2> QED
    BY <2>1, <2>2, <2>3, Cutting
<1>4. StoreType'
  <2>1. log' \in [Sessions -> Seq(Lines)]
    BY <1>1, <1>3
  <2>2. synced' \in [Sessions -> Nat] /\ crashes' \in 0..MaxCrashes
    BY <1>1, StoreAssumption DEF StoreInv, StoreType
  <2> QED
    BY <1>1, <2>1, <2>2, NothingToDo DEF StoreInv, StoreType, FifoInv, told
<1>5. \A t \in Tasks : Held(t)' /\ Unknown(t)' /\ Undisturbed(t)'
  BY <1>1, <1>2, NothingToDo DEF Held, Unknown, Undisturbed
<1>6. ASSUME NEW s \in Sessions
      PROVE  Placed(s)' /\ Kept(s)' /\ (fate'[s] = "unused" => Fresh(s)')
  <2>1. /\ Placed(s) /\ Kept(s) /\ (fate[s] = "unused" => Fresh(s))
        /\ place[s] \in PlaceNames /\ stable[s] \in PlaceNames
    BY AtSession
  <2>2. /\ place'[s] \in PlaceNames
        /\ Rank(stable[s]) <= Rank(place[s]) =>
              Rank(stable[s]) <= Rank(place'[s]) /\ Rank(place'[s]) <= Rank(place[s])
        /\ stable[s] = "temporary" /\ place[s] = "none" =>
              place'[s] \in {"temporary", "none"}
    BY <1>1, <2>1, Survivors
  <2>3. /\ fate'[s] = fate[s] /\ issued'[s] = issued[s]
        /\ acked'[s] = acked[s] /\ refused'[s] = refused[s]
        /\ stable'[s] = place'[s]
    BY <1>1 DEF told
  <2>4. fate[s] = "unused" => place'[s] = "none"
    BY <1>1, <2>1, <2>2, Ranks DEF Placed
  <2>5. fate[s] = "asked" => place'[s] \in {"none", "temporary", "session"}
    BY <2>1, <2>2, Ranks DEF Placed
  <2>6. fate[s] = "created" => place'[s] = "session"
    BY <2>1, <2>2, Ranks DEF Placed
  <2>7. fate[s] = "deleted" => place'[s] = "gone"
    BY <2>1, <2>2, Ranks DEF Placed
  <2>8. Rank(place'[s]) \in 1..5
    BY <2>2, Ranks
  <2>9. Placed(s)'
    BY <2>3, <2>4, <2>5, <2>6, <2>7, <2>8 DEF Placed
  <2>10. place'[s] \in {"session", "tombstone", "gone"} =>
            place[s] \in {"session", "tombstone", "gone"}
    BY <2>1, <2>2, Ranks DEF Placed
  <2>11. \A i \in DOMAIN log'[s] : i \in DOMAIN log[s] /\ log'[s][i] = log[s][i]
    BY <1>3
  <2>12. \A e \in acked[s] : \E i \in 1..synced'[s] : log'[s][i].id = e
    <3>1. \A i \in 1..synced[s] : i \in 1..synced'[s]
      BY <1>3
    <3> QED
      BY <1>3, <2>1, <3>1 DEF Kept
  <2>13. place'[s] \in {"session", "tombstone", "gone"} => synced'[s] > 0
    BY <1>3, <2>1, <2>10 DEF Kept
  <2>14. synced'[s] <= Len(log'[s])
    BY <1>3
  <2>15. /\ \A i \in DOMAIN log'[s] :
               log'[s][i].seq = i /\ log'[s][i].id <= issued[s]
         /\ \A i, j \in DOMAIN log'[s] : i < j => log'[s][i].id < log'[s][j].id
         /\ \A i \in DOMAIN log'[s] : log'[s][i].id \notin refused[s]
         /\ \A e \in refused[s] : e <= issued[s]
    BY <2>1, <2>11 DEF Kept
  <2>16. Kept(s)'
    BY <2>3, <2>12, <2>13, <2>14, <2>15 DEF Kept
  <2>17. fate[s] = "unused" => Fresh(s)'
    <3> HAVE fate[s] = "unused"
    <3>1. synced'[s] = 0 /\ Len(log[s]) = 0
      BY <1>3, <2>1 DEF Fresh
    <3>2. log'[s] = << >>
      BY <1>3, <3>1
    <3> QED
      BY <2>1, <2>3, <3>1, <3>2 DEF Fresh
  <2> QED
    BY <2>3, <2>9, <2>16, <2>17
<1> QED
  BY <1>4, <1>5, <1>6 DEF StoreInv

LEMMA StoreStarts == Init => StoreInv
<1> SUFFICES ASSUME Init PROVE StoreInv
  OBVIOUS
<1>1. /\ place = [s \in Sessions |-> "none"] /\ stable = place
      /\ log = [s \in Sessions |-> << >>]
      /\ tail = [s \in Sessions |-> FALSE] /\ dirty = tail
      /\ synced = [s \in Sessions |-> 0] /\ up = FALSE
      /\ op = [t \in Tasks |-> NoOp]
      /\ fate = [s \in Sessions |-> "unused"]
      /\ issued = [s \in Sessions |-> 0]
      /\ acked = [s \in Sessions |-> {}] /\ refused = acked /\ crashes = 0
      /\ key = [t \in Tasks |-> NoKey] /\ started = {}
  BY DEF Init, FifoInit
<1>2. FifoInv
  BY FifoStarts DEF Init
<1>3. << >> \in Seq(Lines) /\ DOMAIN << >> = {} /\ Len(<< >>) = 0
  OBVIOUS
<1>4. StoreType
  <2>1. FifoType /\ crashes \in 0..MaxCrashes
    BY <1>1, <1>2, StoreAssumption DEF FifoInv
  <2>2. /\ place \in [Sessions -> PlaceNames]
        /\ stable \in [Sessions -> PlaceNames]
        /\ fate \in [Sessions -> Fates]
    BY <1>1, Ranks DEF Fates
  <2>3. op \in [Tasks -> Ops] /\ log \in [Sessions -> Seq(Lines)]
    BY <1>1, <1>3, NothingToDo
  <2>4. /\ tail \in [Sessions -> BOOLEAN] /\ dirty \in [Sessions -> BOOLEAN]
        /\ synced \in [Sessions -> Nat] /\ issued \in [Sessions -> Nat]
        /\ acked \in [Sessions -> SUBSET Nat]
        /\ refused \in [Sessions -> SUBSET Nat] /\ up \in BOOLEAN
    BY <1>1
  <2> QED
    BY <2>1, <2>2, <2>3, <2>4 DEF StoreType
<1>5. \A t \in Tasks : Held(t) /\ Unknown(t) /\ Undisturbed(t)
  BY <1>1, NothingToDo DEF Held, Unknown, Undisturbed
<1>6. ASSUME NEW s \in Sessions
      PROVE  Placed(s) /\ Kept(s) /\ Fresh(s)
  <2>1. /\ place[s] = "none" /\ stable[s] = "none" /\ log[s] = << >>
        /\ synced[s] = 0 /\ fate[s] = "unused" /\ issued[s] = 0
        /\ acked[s] = {} /\ refused[s] = {}
    BY <1>1
  <2>2. Placed(s)
    BY <2>1, Ranks DEF Placed
  <2>3. Kept(s)
    BY <1>3, <2>1 DEF Kept
  <2> QED
    BY <2>1, <2>2, <2>3 DEF Fresh
<1> QED
  BY <1>2, <1>4, <1>5, <1>6 DEF StoreInv

LEMMA StoreKeeps ==
  ASSUME StoreInv, [Next]_vars
  PROVE  StoreInv'
<1>1. FifoInv'
  BY FifoSteps, StoreStepsLock DEF StoreInv
<1>2. CASE Calls
  BY <1>1, <1>2, CallKeeps DEF Calls
<1>3. ASSUME NEW t \in Tasks, Work(t) PROVE StoreInv'
  <2>1. CASE Begin(t)
    BY <1>1, <2>1, BeginKeeps
  <2>2. CASE CreateStep(t)
    <3>1. t \in started
      BY <2>2 DEF CreateStep, MakeTemporary, WriteFiles, Publish, Created, At
    <3> QED
      BY <1>1, <2>2, <3>1, MakeTemporaryKeeps, WriteFilesKeeps, PublishKeeps,
         CreatedKeeps DEF CreateStep
  <2>3. CASE DeleteStep(t)
    <3>1. t \in started
      BY <2>3 DEF DeleteStep, CheckSession, Unlink, SyncUnlinked,
                  RemoveTombstone, Deleted, At
    <3> QED
      BY <1>1, <2>3, <3>1, CheckSessionKeeps, UnlinkKeeps, SyncUnlinkedKeeps,
         RemoveTombstoneKeeps, DeletedKeeps DEF DeleteStep
  <2>4. CASE EventStep(t)
    <3>1. t \in started
      BY <2>4 DEF EventStep, Load, Truncate, SyncRepaired, OpenToAppend,
                  WriteLine, Appended, At
    <3> QED
      BY <1>1, <2>4, <3>1, LoadKeeps, TruncateKeeps, SyncRepairedKeeps,
         OpenToAppendKeeps, WriteLineKeeps, AppendedKeeps DEF EventStep
  <2>5. CASE RootStep(t)
    <3>1. t \in started
      BY <2>5 DEF RootStep, ReadDirectory, ListOne, Listed, Sweep, Swept,
                  Initialized, At
    <3>2. Listed(t) => StoreInv'
      BY <1>1, <3>1, EndsUnchanged DEF Listed
    <3> QED
      BY <1>1, <2>5, <3>1, <3>2, ReadDirectoryKeeps, ListOneKeeps, SweepKeeps,
         SweptKeeps, InitializedKeeps DEF RootStep
  <2> QED
    BY <1>3, <2>1, <2>2, <2>3, <2>4, <2>5 DEF Work
<1>4. CASE Crash
  BY <1>1, <1>4, CrashKeeps
<1>5. CASE UNCHANGED vars
  <2>1. /\ place' = place /\ stable' = stable /\ log' = log /\ tail' = tail
        /\ synced' = synced /\ dirty' = dirty /\ up' = up /\ op' = op
        /\ fate' = fate /\ issued' = issued /\ acked' = acked
        /\ refused' = refused /\ crashes' = crashes
        /\ key' = key /\ started' = started
    BY <1>5 DEF vars, fifo, files, told
  <2>2. StoreType'
    BY <1>1, <2>1 DEF StoreInv, StoreType, FifoInv
  <2>3. \A t \in Tasks : Held(t)' /\ Unknown(t)' /\ Undisturbed(t)'
    BY <2>1 DEF StoreInv, Held, Unknown, Undisturbed, Fresh, NextLine
  <2>4. \A s \in Sessions : Placed(s)' /\ Kept(s)'
                            /\ (fate'[s] = "unused" => Fresh(s)')
    BY <2>1 DEF StoreInv, Placed, Kept, Fresh
  <2> QED
    BY <1>1, <2>2, <2>3, <2>4 DEF StoreInv
<1> QED
  BY <1>2, <1>3, <1>4, <1>5 DEF Next

\* The invariant of the store holds throughout, whatever fails and whenever
\* the machine stops: event-store.ts and jsonl.ts.
THEOREM StoreInvariant == Spec => []StoreInv
<1>1. StoreInv /\ [Next]_vars => StoreInv'
  BY StoreKeeps
<1> QED
  BY <1>1, StoreStarts, PTL DEF Spec

\* Every visible session can be loaded, after any failure and any crash:
\* loadSessionUnlocked never meets a file it has to call corrupt.
THEOREM AlwaysReadable == Spec => []Readable
<1>1. ASSUME StoreInv PROVE Readable
  <2>1. StoreType
    BY <1>1 DEF StoreInv
  <2>2. ASSUME NEW s \in Visible
        PROVE  /\ log[s] # << >> /\ ~Corrupt(s)
               /\ \A i, j \in DOMAIN log[s] : log[s][i].id = log[s][j].id => i = j
    <3>1. s \in Sessions /\ place[s] = "session"
      BY DEF Visible
    <3>2. /\ Kept(s) /\ log[s] \in Seq(Lines) /\ synced[s] \in Nat
          /\ Len(log[s]) \in Nat
      BY <1>1, <3>1, AtSession
    <3>3. Len(log[s]) > 0
      BY <3>1, <3>2 DEF Kept
    <3>4. /\ DOMAIN log[s] = 1..Len(log[s])
          /\ \A i \in DOMAIN log[s] : log[s][i].id \in Nat
      BY <3>2, LineAt
    <3>5. ~Corrupt(s)
      BY <3>2 DEF Kept, Corrupt
    <3>6. ASSUME NEW i \in DOMAIN log[s], NEW j \in DOMAIN log[s],
                 log[s][i].id = log[s][j].id
          PROVE  i = j
      <4>1. ~(i < j) /\ ~(j < i)
        BY <3>2, <3>4, <3>6 DEF Kept
      <4> QED
        BY <3>2, <3>4, <4>1
    <3> QED
      BY <3>2, <3>3, <3>5, <3>6
  <2> QED
    BY <2>1, <2>2 DEF Readable
<1> QED
  BY <1>1, StoreInvariant, PTL

\* What callers were told stays true through every failure and crash: the
\* returns of appendEvent, createSession and deleteSession.
THEOREM NothingToldIsLost == Spec => []Durable
<1>1. ASSUME StoreInv PROVE Durable
  <2>1. ASSUME NEW s \in Sessions
        PROVE  /\ acked[s] \subseteq Ids(SubSeq(log[s], 1, synced[s]))
               /\ refused[s] \cap Ids(log[s]) = {}
    <3>1. /\ Kept(s) /\ log[s] \in Seq(Lines) /\ synced[s] \in Nat
          /\ Len(log[s]) \in Nat
      BY <1>1, AtSession
    <3>2. synced[s] \in 0..Len(log[s])
      BY <3>1 DEF Kept
    <3>3. /\ DOMAIN SubSeq(log[s], 1, synced[s]) = 1..synced[s]
          /\ \A i \in 1..synced[s] : SubSeq(log[s], 1, synced[s])[i] = log[s][i]
      BY <3>1, <3>2, Cutting
    <3>4. \A e \in acked[s] : e \in Ids(SubSeq(log[s], 1, synced[s]))
      BY <3>1, <3>3 DEF Kept, Ids
    <3> QED
      BY <3>1, <3>4 DEF Kept, Ids
  <2>2. ASSUME NEW s \in Sessions
        PROVE  /\ fate[s] = "created" =>
                      place[s] = "session" /\ stable[s] = "session"
               /\ fate[s] = "deleted" =>
                      /\ Rank(place[s]) >= Rank("tombstone")
                      /\ Rank(stable[s]) >= Rank("tombstone")
    <3>1. Placed(s)
      BY <1>1, AtSession
    <3> QED
      BY <3>1, Ranks DEF Placed
  <2> QED
    BY <2>1, <2>2 DEF Durable
<1> QED
  BY <1>1, StoreInvariant, PTL

\* No list that returns misses a session that was there from its beginning to
\* its end, for any number of sessions and callers: listSessions.
THEOREM ListsAreComplete == Spec => []ListComplete
<1>1. StoreInv => ListComplete
  BY DEF StoreInv, ListComplete, Undisturbed, At
<1> QED
  BY <1>1, StoreInvariant, PTL

=============================================================================
