----------------------- MODULE SharedConstruction_proofs -----------------------
(***************************************************************************)
(* Theorems about SharedConstruction, for every finite set of callers,     *)
(* every placement of callers on threads, with or without cancellations    *)
(* that reach a task's wait at once.                                       *)
(***************************************************************************)
EXTENDS SharedConstruction, FiniteSetTheorems, TLAPS

-----------------------------------------------------------------------------
(* The inductive invariant.                                                  *)

\* At most one caller occupies a thread.
OneRunning ==
    \A c, d \in Callers :
        c # d /\ ThreadOf[c] = ThreadOf[d] => Yielded(c) \/ Yielded(d)

Constructing(c) == pc[c] \in {"recheck", "build", "keep", "store"}

\* A caller of an unshared slot never comes near a lock, and only a task meets
\* the awaited lock and the worker thread.
PathOK ==
    \A c \in Callers :
        /\ ~Shared(c) => Constructing(c) \/ pc[c] \in {"new", "done"}
        /\ c \notin Tasks =>
              pc[c] \notin {"await_borrow", "await_lock", "off_loop", "worker",
                            "answer", "await_unlock", "await_give_back"}

\* Between borrowing the thread entry and giving it back.
AtThreadLock(c) ==
    \/ pc[c] \in {"take", "off_loop", "worker", "answer", "unlock", "give_back"}
    \/ Shared(c) /\ Constructing(c)

\* Between borrowing the awaited entry and giving it back.
AtAwaitedLock(c) ==
    /\ c \in Tasks
    /\ \/ pc[c] \in {"await_lock", "borrow", "await_unlock", "await_give_back"}
       \/ AtThreadLock(c)

\* A caller has an entry exactly while its place says so.
EntryOK ==
    \A c \in Callers :
        /\ entry["thread"][c] # None <=> AtThreadLock(c)
        /\ entry["await"][c] # None <=> AtAwaitedLock(c)

\* An entry belongs to the key of the caller that created it.
EntryKeyOK ==
    \A kind \in Kinds, k \in Keys :
        table[kind][k] # None => KeyOf[table[kind][k]] = k

\* Holding the thread lock, as the code's own place says.
Locked(c) ==
    \/ pc[c] \in {"answer", "unlock"}
    \/ Shared(c) /\ Constructing(c)

\* Whoever should hold the thread lock does, and nobody shares it.
LockOK ==
    /\ \A c \in Callers : Locked(c) => c \in held["thread"][entry["thread"][c]]
    /\ \A e \in Callers : \A c, d \in held["thread"][e] : c = d

\* A caller about to fill a slot finds it empty, and has not been answered.
SlotOK ==
    \A c \in Callers :
        /\ pc[c] = "store" => cache[KeyOf[c]] = None
        /\ \/ pc[c] \in {"new", "await_borrow", "await_lock", "borrow", "take",
                         "off_loop", "worker", "answer"}
           \/ Constructing(c)
           => result[c] = None

IInv ==
    /\ TypeOK
    /\ OneRunning
    /\ PathOK
    /\ EntryOK
    /\ EntryKeyOK
    /\ TableMeasuresWork
    /\ LockOK
    /\ NothingDiscarded
    /\ SlotOK

-----------------------------------------------------------------------------
(* Type correctness.                                                         *)

LEMMA InitType == Init => TypeOK
  BY CallersAssumption DEF Init, TypeOK, Places, Kinds

LEMMA GoType ==
  ASSUME TypeOK, NEW c \in Callers, NEW from \in Places, NEW to \in Places, Go(c, from, to)
  PROVE  pc' \in [Callers -> Places]
  BY DEF TypeOK, Go

LEMMA BorrowType ==
  ASSUME TypeOK, NEW c \in Callers, NEW kind \in Kinds, Borrow(c, kind)
  PROVE  /\ table' \in [Kinds -> [Keys -> Callers \union {None}]]
         /\ holders' \in [Kinds -> [Callers -> Nat]]
         /\ held' \in [Kinds -> [Callers -> SUBSET Callers]]
         /\ entry' \in [Kinds -> [Callers -> Callers \union {None}]]
         /\ abandoned' \in [Callers -> Callers \union {None}]
  BY CallersAssumption DEF TypeOK, Borrow

LEMMA ReleaseType ==
  ASSUME TypeOK, TableMeasuresWork, NEW c \in Callers, NEW kind \in Kinds,
         Release(c, kind), entry[kind][c] # None
  PROVE  /\ table' \in [Kinds -> [Keys -> Callers \union {None}]]
         /\ holders' \in [Kinds -> [Callers -> Nat]]
         /\ held' \in [Kinds -> [Callers -> SUBSET Callers]]
         /\ entry' \in [Kinds -> [Callers -> Callers \union {None}]]
         /\ abandoned' \in [Callers -> Callers \union {None}]
  <1> DEFINE e == entry[kind][c]
             at == Borrowers(kind, e)
  <1>1. e \in Callers /\ c \in at /\ IsFiniteSet(at)
    BY CallersAssumption, FS_Subset DEF TypeOK, Borrowers
  <1>2. holders[kind][e] = Cardinality(at)
    BY <1>1 DEF TableMeasuresWork
  <1>3. Cardinality(at) \in Nat /\ Cardinality(at) # 0
    BY <1>1, FS_CardinalityType, FS_EmptySet
  <1>4. holders[kind][e] - 1 \in Nat
    BY <1>2, <1>3
  <1>5. QED
    BY <1>1, <1>4, CallersAssumption DEF TypeOK, Release

LEMMA LockType ==
  ASSUME TypeOK, NEW c \in Callers, NEW kind \in Kinds,
         Lock(c, kind) \/ Unlock(c, kind), entry[kind][c] # None
  PROVE  /\ table' \in [Kinds -> [Keys -> Callers \union {None}]]
         /\ holders' \in [Kinds -> [Callers -> Nat]]
         /\ held' \in [Kinds -> [Callers -> SUBSET Callers]]
         /\ entry' \in [Kinds -> [Callers -> Callers \union {None}]]
         /\ abandoned' \in [Callers -> Callers \union {None}]
  <1>1. CASE Lock(c, kind)
    BY <1>1, CallersAssumption DEF TypeOK, Lock
  <1>2. CASE Unlock(c, kind)
    BY <1>2, CallersAssumption DEF TypeOK, Unlock
  <1>3. QED
    BY <1>1, <1>2

LEMMA TasksAreCallers == Tasks \subseteq Callers
  BY DEF Callers

-----------------------------------------------------------------------------
(* What one step of a caller, of a lock table or of a lock does.             *)

\* A caller that steps finds its thread to itself.
LEMMA GoRunning ==
  ASSUME TypeOK, OneRunning, NEW c \in Callers, NEW from, NEW to, Go(c, from, to)
  PROVE  OneRunning'
  BY DEF TypeOK, OneRunning, Go, Runs, Yielded

\* The callers at an entry after a step.
BorrowersAfter(kind, e) == {c \in Callers : entry'[kind][c] = e}

LEMMA TableAfter ==
  ASSUME \A kind \in Kinds, c \in Callers :
            entry'[kind][c] # None => table'[kind][KeyOf[c]] = entry'[kind][c],
         \A kind \in Kinds, e \in Callers :
            holders'[kind][e] = Cardinality(BorrowersAfter(kind, e)),
         \A kind \in Kinds, k \in Keys :
            table'[kind][k] # None => BorrowersAfter(kind, table'[kind][k]) # {}
  PROVE  TableMeasuresWork'
  BY DEF TableMeasuresWork, Borrowers, BorrowersAfter

\* The callers at an entry, counted, after one more has borrowed it.
LEMMA BorrowTable ==
  ASSUME TypeOK, EntryKeyOK, TableMeasuresWork,
         NEW c \in Callers, NEW kind \in Kinds, Borrow(c, kind), entry[kind][c] = None
  PROVE  TableMeasuresWork' /\ EntryKeyOK'
  <1> DEFINE k == KeyOf[c]
             e == IF table[kind][k] = None THEN c ELSE table[kind][k]
  <1>1. k \in Keys /\ e \in Callers /\ KeyOf[e] = k /\ e # None
    BY CallersAssumption DEF TypeOK, EntryKeyOK
  <1>2. /\ \A kd \in Kinds, kk \in Keys :
              table'[kd][kk] = IF kd = kind /\ kk = k THEN e ELSE table[kd][kk]
        /\ \A kd \in Kinds, d \in Callers :
              entry'[kd][d] = IF kd = kind /\ d = c THEN e ELSE entry[kd][d]
    BY <1>1 DEF Borrow, TypeOK
  <1>3. \A kd \in Kinds, x \in Callers :
           holders'[kd][x] = IF kd = kind /\ x = e THEN holders[kd][x] + 1 ELSE holders[kd][x]
    BY <1>1 DEF Borrow, TypeOK
  <1>4. table[kind][k] # None => table[kind][k] = e
    OBVIOUS
  <1> HIDE DEF e, k
  <1>5. /\ BorrowersAfter(kind, e) = Borrowers(kind, e) \union {c}
        /\ \A kd \in Kinds, x \in Callers :
              ~(kd = kind /\ x = e) => BorrowersAfter(kd, x) = Borrowers(kd, x)
    BY <1>1, <1>2, CallersAssumption DEF Borrowers, BorrowersAfter
  <1>6. c \notin Borrowers(kind, e) /\ IsFiniteSet(Borrowers(kind, e))
    BY <1>1, CallersAssumption, FS_Subset DEF Borrowers
  <1>7. Cardinality(Borrowers(kind, e) \union {c}) = Cardinality(Borrowers(kind, e)) + 1
    BY <1>6, FS_AddElement
  <1>8. \A kd \in Kinds, d \in Callers :
           entry'[kd][d] # None => table'[kd][KeyOf[d]] = entry'[kd][d]
    BY <1>1, <1>2, <1>4, CallersAssumption DEF TableMeasuresWork, k
  <1>9. \A kd \in Kinds, x \in Callers : holders'[kd][x] = Cardinality(BorrowersAfter(kd, x))
    <2> SUFFICES ASSUME NEW kd \in Kinds, NEW x \in Callers
                 PROVE  holders'[kd][x] = Cardinality(BorrowersAfter(kd, x))
      OBVIOUS
    <2>1. holders[kd][x] = Cardinality(Borrowers(kd, x))
      BY DEF TableMeasuresWork
    <2>2. CASE kd = kind /\ x = e
      BY <2>1, <2>2, <1>3, <1>5, <1>7
    <2>3. CASE ~(kd = kind /\ x = e)
      BY <2>1, <2>3, <1>3, <1>5
    <2>4. QED
      BY <2>2, <2>3
  <1>10. \A kd \in Kinds, kk \in Keys :
            table'[kd][kk] # None => BorrowersAfter(kd, table'[kd][kk]) # {}
    <2> SUFFICES ASSUME NEW kd \in Kinds, NEW kk \in Keys, table'[kd][kk] # None
                 PROVE  BorrowersAfter(kd, table'[kd][kk]) # {}
      OBVIOUS
    <2>1. CASE kd = kind /\ kk = k
      BY <2>1, <1>1, <1>2, <1>5
    <2>2. CASE ~(kd = kind /\ kk = k)
      <3>1. table'[kd][kk] = table[kd][kk] /\ table[kd][kk] \in Callers
        BY <2>2, <1>1, <1>2 DEF TypeOK
      <3>2. Borrowers(kd, table[kd][kk]) # {}
        BY <3>1 DEF TableMeasuresWork
      <3> QED
        BY <3>1, <3>2, <1>5
    <2>3. QED
      BY <2>1, <2>2
  <1>11. EntryKeyOK'
    BY <1>1, <1>2 DEF EntryKeyOK
  <1>12. QED
    BY <1>8, <1>9, <1>10, <1>11, TableAfter

\* The callers at an entry, counted, after one of them has given it back.
LEMMA ReleaseTable ==
  ASSUME TypeOK, EntryKeyOK, TableMeasuresWork,
         NEW c \in Callers, NEW kind \in Kinds, Release(c, kind), entry[kind][c] # None
  PROVE  TableMeasuresWork' /\ EntryKeyOK'
  <1> DEFINE k == KeyOf[c]
             e == entry[kind][c]
             last == holders[kind][e] - 1 <= 0 /\ table[kind][k] = e
             rest == Borrowers(kind, e) \ {c}
  <1>1. k \in Keys /\ e \in Callers /\ e # None /\ table[kind][k] = e /\ KeyOf[e] = k
    BY CallersAssumption DEF TypeOK, EntryKeyOK, TableMeasuresWork
  <1>2. /\ \A kd \in Kinds, kk \in Keys :
              table'[kd][kk] = IF kd = kind /\ kk = k /\ last THEN None ELSE table[kd][kk]
        /\ \A kd \in Kinds, d \in Callers :
              entry'[kd][d] = IF kd = kind /\ d = c THEN None ELSE entry[kd][d]
    BY <1>1 DEF Release, TypeOK
  <1>3. \A kd \in Kinds, x \in Callers :
           holders'[kd][x] = IF kd = kind /\ x = e THEN holders[kd][x] - 1 ELSE holders[kd][x]
    BY <1>1 DEF Release, TypeOK
  <1>4. c \in Borrowers(kind, e) /\ IsFiniteSet(Borrowers(kind, e))
    BY <1>1, CallersAssumption, FS_Subset DEF Borrowers
  <1>5. /\ IsFiniteSet(rest)
        /\ Cardinality(rest) = Cardinality(Borrowers(kind, e)) - 1
        /\ Cardinality(rest) \in Nat
    BY <1>4, FS_RemoveElement, FS_CardinalityType
  <1>6. holders[kind][e] = Cardinality(Borrowers(kind, e)) /\ holders[kind][e] \in Int
    BY <1>1 DEF TableMeasuresWork, TypeOK
  <1>7. last <=> Cardinality(rest) = 0
    BY <1>1, <1>5, <1>6
  <1>8. last <=> rest = {}
    BY <1>5, <1>7, FS_EmptySet
  <1> HIDE DEF last
  <1>9. /\ BorrowersAfter(kind, e) = rest
        /\ \A kd \in Kinds, x \in Callers :
              ~(kd = kind /\ x = e) => BorrowersAfter(kd, x) = Borrowers(kd, x)
    BY <1>1, <1>2, CallersAssumption DEF Borrowers, BorrowersAfter
  <1> HIDE DEF e, k
  <1>10. \A kd \in Kinds, d \in Callers :
            entry'[kd][d] # None => table'[kd][KeyOf[d]] = entry'[kd][d]
    <2> SUFFICES ASSUME NEW kd \in Kinds, NEW d \in Callers, entry'[kd][d] # None
                 PROVE  table'[kd][KeyOf[d]] = entry'[kd][d]
      OBVIOUS
    <2>1. /\ ~(kd = kind /\ d = c)
          /\ entry'[kd][d] = entry[kd][d]
          /\ table[kd][KeyOf[d]] = entry[kd][d]
          /\ KeyOf[d] \in Keys
      BY <1>2, CallersAssumption DEF TableMeasuresWork
    <2>2. CASE kd = kind /\ KeyOf[d] = k
      <3>1. d \in rest
        BY <2>1, <2>2, <1>1 DEF Borrowers
      <3> QED
        BY <3>1, <2>1, <1>2, <1>8
    <2>3. CASE ~(kd = kind /\ KeyOf[d] = k)
      BY <2>1, <2>3, <1>2
    <2>4. QED
      BY <2>2, <2>3
  <1>11. \A kd \in Kinds, x \in Callers : holders'[kd][x] = Cardinality(BorrowersAfter(kd, x))
    <2> SUFFICES ASSUME NEW kd \in Kinds, NEW x \in Callers
                 PROVE  holders'[kd][x] = Cardinality(BorrowersAfter(kd, x))
      OBVIOUS
    <2>1. holders[kd][x] = Cardinality(Borrowers(kd, x))
      BY DEF TableMeasuresWork
    <2>2. CASE kd = kind /\ x = e
      BY <2>1, <2>2, <1>3, <1>5, <1>9
    <2>3. CASE ~(kd = kind /\ x = e)
      BY <2>1, <2>3, <1>3, <1>9
    <2>4. QED
      BY <2>2, <2>3
  <1>12. \A kd \in Kinds, kk \in Keys :
            table'[kd][kk] # None => BorrowersAfter(kd, table'[kd][kk]) # {}
    <2> SUFFICES ASSUME NEW kd \in Kinds, NEW kk \in Keys, table'[kd][kk] # None
                 PROVE  BorrowersAfter(kd, table'[kd][kk]) # {}
      OBVIOUS
    <2>1. table'[kd][kk] = table[kd][kk] /\ table[kd][kk] \in Callers
      BY <1>2 DEF TypeOK
    <2>2. CASE kd = kind /\ table[kd][kk] = e
      <3>1. kk = k
        BY <2>1, <2>2, <1>1 DEF EntryKeyOK
      <3>2. ~last
        BY <3>1, <2>2, <1>2
      <3> QED
        BY <3>2, <2>1, <2>2, <1>8, <1>9
    <2>3. CASE ~(kd = kind /\ table[kd][kk] = e)
      <3>1. Borrowers(kd, table[kd][kk]) # {}
        BY <2>1 DEF TableMeasuresWork
      <3> QED
        BY <3>1, <2>1, <2>3, <1>9
    <2>4. QED
      BY <2>2, <2>3
  <1>13. EntryKeyOK'
    BY <1>1, <1>2 DEF EntryKeyOK
  <1>14. QED
    BY <1>10, <1>11, <1>12, <1>13, TableAfter

LEMMA OneBuilderHolds == IInv => OneBuilder
  <1> SUFFICES ASSUME IInv, NEW c \in Callers, NEW d \in Callers,
                      Building(c), Building(d), Shared(c), KeyOf[c] = KeyOf[d]
               PROVE  c = d
    BY DEF OneBuilder
  <1>1. Shared(d) /\ Locked(c) /\ Locked(d) /\ AtThreadLock(c) /\ AtThreadLock(d)
    BY DEF Building, Shared, Locked, AtThreadLock, Constructing
  <1>2. entry["thread"][c] = entry["thread"][d] /\ entry["thread"][c] \in Callers
    BY <1>1, CallersAssumption DEF IInv, TypeOK, EntryOK, TableMeasuresWork, Kinds
  <1>3. QED
    BY <1>1, <1>2 DEF IInv, LockOK

LEMMA UnchangedTable ==
  ASSUME TableMeasuresWork, EntryKeyOK, UNCHANGED <<table, holders, entry>>
  PROVE  TableMeasuresWork' /\ EntryKeyOK'
  BY DEF TableMeasuresWork, EntryKeyOK, Borrowers, Kinds

\* Every action keeps every variable in its type.
LEMMA StepType ==
  ASSUME IInv, [Next]_vars
  PROVE  TypeOK'
  <1> USE CallersAssumption, TasksAreCallers DEF Places
  <1>1. ASSUME NEW c \in Callers, LookUp(c) \/ Recheck(c) \/ Keep(c)
        PROVE  TypeOK'
    BY <1>1, GoType DEF IInv, TypeOK, lockVars, Leaving, LookUp, Recheck, Keep
  <1>2. ASSUME NEW c \in Callers, Build(c) \/ BuildRaises(c)
        PROVE  TypeOK'
    BY <1>2, GoType DEF IInv, TypeOK, lockVars, Leaving, Build, BuildRaises
  <1>3. ASSUME NEW c \in Callers, Store(c)
        PROVE  TypeOK'
    BY <1>3, GoType DEF IInv, TypeOK, lockVars, Leaving, Store
  <1>4. ASSUME NEW t \in Tasks, GoOffLoop(t) \/ StartWorker(t) \/ HearWorker(t)
                   \/ CancelAwaited(t) \/ CancelOffLoop(t)
        PROVE  TypeOK'
    BY <1>4, GoType DEF IInv, TypeOK, lockVars, Leaving, GoOffLoop,
       StartWorker, HearWorker, CancelAwaited, CancelOffLoop
  <1>5. ASSUME NEW c \in Callers, BorrowThread(c)
        PROVE  TypeOK'
    BY <1>5, BorrowType, GoType DEF IInv, TypeOK, Kinds, BorrowThread
  <1>6. ASSUME NEW t \in Tasks, BorrowAwaited(t)
        PROVE  TypeOK'
    BY <1>6, BorrowType, GoType DEF IInv, TypeOK, Kinds, BorrowAwaited
  <1>7. ASSUME NEW c \in Callers, GiveBackThread(c)
        PROVE  TypeOK'
    BY <1>7, ReleaseType, GoType DEF IInv, TypeOK, Kinds, Go, EntryOK,
       AtThreadLock, AtAwaitedLock, GiveBackThread
  <1>8. ASSUME NEW t \in Tasks, GiveBackAwaited(t)
        PROVE  TypeOK'
    BY <1>8, ReleaseType, GoType DEF IInv, TypeOK, Kinds, Go, EntryOK,
       AtThreadLock, AtAwaitedLock, GiveBackAwaited
  <1>9. ASSUME NEW c \in Callers, TakeThread(c)
        PROVE  TypeOK'
    BY <1>9, LockType, GoType DEF IInv, TypeOK, Kinds, Go, EntryOK,
       AtThreadLock, AtAwaitedLock, TakeThread
  <1>10. ASSUME NEW t \in Tasks, TakeAwaited(t) \/ WorkerTakes(t)
        PROVE  TypeOK'
    BY <1>10, LockType, GoType DEF IInv, TypeOK, Kinds, Go, EntryOK,
       AtThreadLock, AtAwaitedLock, TakeAwaited, WorkerTakes
  <1>11. ASSUME NEW c \in Callers, UnlockThread(c)
        PROVE  TypeOK'
    BY <1>11, LockType, GoType DEF IInv, TypeOK, Kinds, Go, EntryOK,
       AtThreadLock, AtAwaitedLock, UnlockThread
  <1>12. ASSUME NEW t \in Tasks, UnlockAwaited(t) \/ CancelHearing(t)
        PROVE  TypeOK'
    BY <1>12, LockType, GoType DEF IInv, TypeOK, Kinds, Go, EntryOK,
       AtThreadLock, AtAwaitedLock, UnlockAwaited, CancelHearing
  <1>13. ASSUME NEW t \in Tasks, CancelNatively(t)
        PROVE  TypeOK'
    BY <1>13, GoType DEF IInv, TypeOK, lockVars, Kinds, CancelNatively
  <1>14. ASSUME NEW t \in Tasks, AbandonedWorkerTakes(t)
        PROVE  TypeOK'
    BY <1>14 DEF IInv, TypeOK, lockVars, Kinds, AbandonedWorkerTakes
  <1>15. ASSUME NEW k \in Keys, Drop(k)
        PROVE  TypeOK'
    BY <1>15 DEF IInv, TypeOK, lockVars, Drop
  <1>16. CASE UNCHANGED vars
    BY <1>16 DEF IInv, TypeOK, vars
  <1>17. QED
    BY <1>1, <1>2, <1>3, <1>4, <1>5, <1>6, <1>7, <1>8, <1>9, <1>10, <1>11,
       <1>12, <1>13, <1>14, <1>15, <1>16 DEF Next, Advance, Construct, Cancel,
       AllDone, Callers

\* Every action leaves at most one caller on each thread.
LEMMA StepRunning ==
  ASSUME IInv, [Next]_vars
  PROVE  OneRunning'
  <1> USE TasksAreCallers
  <1>1. ASSUME NEW c \in Callers, LookUp(c) \/ Recheck(c) \/ Keep(c)
        PROVE  OneRunning'
    BY <1>1, GoRunning DEF IInv, LookUp, Recheck, Keep
  <1>2. ASSUME NEW c \in Callers, Build(c) \/ BuildRaises(c)
        PROVE  OneRunning'
    BY <1>2, GoRunning DEF IInv, Build, BuildRaises
  <1>3. ASSUME NEW c \in Callers, Store(c)
        PROVE  OneRunning'
    BY <1>3, GoRunning DEF IInv, Store
  <1>4. ASSUME NEW t \in Tasks, GoOffLoop(t) \/ StartWorker(t) \/ HearWorker(t)
                   \/ CancelAwaited(t) \/ CancelOffLoop(t)
        PROVE  OneRunning'
    BY <1>4, GoRunning DEF IInv, GoOffLoop, StartWorker, HearWorker,
       CancelAwaited, CancelOffLoop
  <1>5. ASSUME NEW c \in Callers, BorrowThread(c)
        PROVE  OneRunning'
    BY <1>5, GoRunning DEF IInv, BorrowThread
  <1>6. ASSUME NEW t \in Tasks, BorrowAwaited(t)
        PROVE  OneRunning'
    BY <1>6, GoRunning DEF IInv, BorrowAwaited
  <1>7. ASSUME NEW c \in Callers, GiveBackThread(c)
        PROVE  OneRunning'
    BY <1>7, GoRunning DEF IInv, GiveBackThread
  <1>8. ASSUME NEW t \in Tasks, GiveBackAwaited(t)
        PROVE  OneRunning'
    BY <1>8, GoRunning DEF IInv, GiveBackAwaited
  <1>9. ASSUME NEW c \in Callers, TakeThread(c)
        PROVE  OneRunning'
    BY <1>9, GoRunning DEF IInv, TakeThread
  <1>10. ASSUME NEW t \in Tasks, TakeAwaited(t) \/ WorkerTakes(t)
        PROVE  OneRunning'
    BY <1>10, GoRunning DEF IInv, Lock, Unlock, TypeOK, OneRunning, Yielded,
       TakeAwaited, WorkerTakes
  <1>11. ASSUME NEW c \in Callers, UnlockThread(c)
        PROVE  OneRunning'
    BY <1>11, GoRunning DEF IInv, UnlockThread
  <1>12. ASSUME NEW t \in Tasks, UnlockAwaited(t) \/ CancelHearing(t)
        PROVE  OneRunning'
    BY <1>12, GoRunning DEF IInv, UnlockAwaited, CancelHearing
  <1>13. ASSUME NEW t \in Tasks, CancelNatively(t)
        PROVE  OneRunning'
    BY <1>13, GoRunning DEF IInv, CancelNatively
  <1>14. ASSUME NEW t \in Tasks, AbandonedWorkerTakes(t)
        PROVE  OneRunning'
    BY <1>14 DEF IInv, OneRunning, Yielded, AbandonedWorkerTakes
  <1>15. ASSUME NEW k \in Keys, Drop(k)
        PROVE  OneRunning'
    BY <1>15 DEF IInv, OneRunning, Yielded, Drop
  <1>16. CASE UNCHANGED vars
    BY <1>16 DEF IInv, OneRunning, Yielded, vars
  <1>17. QED
    BY <1>1, <1>2, <1>3, <1>4, <1>5, <1>6, <1>7, <1>8, <1>9, <1>10, <1>11,
       <1>12, <1>13, <1>14, <1>15, <1>16 DEF Next, Advance, Construct, Cancel,
       AllDone, Callers

\* Every action leaves every caller on a path of its own driver.
LEMMA StepPath ==
  ASSUME IInv, [Next]_vars
  PROVE  PathOK'
  <1> USE CallersAssumption, TasksAreCallers DEF Go, Leaving
  <1>1. ASSUME NEW c \in Callers, LookUp(c) \/ Recheck(c) \/ Keep(c)
        PROVE  PathOK'
    BY <1>1 DEF IInv, PathOK, TypeOK, Shared, Constructing, lockVars, LookUp,
       Recheck, Keep
  <1>2. ASSUME NEW c \in Callers, Build(c) \/ BuildRaises(c)
        PROVE  PathOK'
    BY <1>2 DEF IInv, PathOK, TypeOK, Shared, Constructing, lockVars, Build,
       BuildRaises
  <1>3. ASSUME NEW c \in Callers, Store(c)
        PROVE  PathOK'
    BY <1>3 DEF IInv, PathOK, TypeOK, Shared, Constructing, lockVars, Store
  <1>4. ASSUME NEW t \in Tasks, GoOffLoop(t) \/ StartWorker(t) \/ HearWorker(t)
                   \/ CancelAwaited(t) \/ CancelOffLoop(t)
        PROVE  PathOK'
    BY <1>4 DEF IInv, PathOK, TypeOK, Shared, Constructing, lockVars,
       GoOffLoop, StartWorker, HearWorker, CancelAwaited, CancelOffLoop
  <1>5. ASSUME NEW c \in Callers, BorrowThread(c)
        PROVE  PathOK'
    BY <1>5 DEF IInv, PathOK, TypeOK, Shared, Constructing, Borrow,
       BorrowThread
  <1>6. ASSUME NEW t \in Tasks, BorrowAwaited(t)
        PROVE  PathOK'
    BY <1>6 DEF IInv, PathOK, TypeOK, Shared, Constructing, Borrow,
       BorrowAwaited
  <1>7. ASSUME NEW c \in Callers, GiveBackThread(c)
        PROVE  PathOK'
    BY <1>7 DEF IInv, PathOK, TypeOK, Shared, Constructing, Release,
       GiveBackThread
  <1>8. ASSUME NEW t \in Tasks, GiveBackAwaited(t)
        PROVE  PathOK'
    BY <1>8 DEF IInv, PathOK, TypeOK, Shared, Constructing, Release,
       GiveBackAwaited
  <1>9. ASSUME NEW c \in Callers, TakeThread(c)
        PROVE  PathOK'
    BY <1>9 DEF IInv, PathOK, TypeOK, Shared, Constructing, Lock, Unlock,
       TakeThread
  <1>10. ASSUME NEW t \in Tasks, TakeAwaited(t) \/ WorkerTakes(t)
        PROVE  PathOK'
    BY <1>10 DEF IInv, PathOK, TypeOK, Shared, Constructing, Lock, Unlock,
       TakeAwaited, WorkerTakes
  <1>11. ASSUME NEW c \in Callers, UnlockThread(c)
        PROVE  PathOK'
    BY <1>11 DEF IInv, PathOK, TypeOK, Shared, Constructing, Lock, Unlock,
       UnlockThread
  <1>12. ASSUME NEW t \in Tasks, UnlockAwaited(t) \/ CancelHearing(t)
        PROVE  PathOK'
    BY <1>12 DEF IInv, PathOK, TypeOK, Shared, Constructing, Lock, Unlock,
       UnlockAwaited, CancelHearing
  <1>13. ASSUME NEW t \in Tasks, CancelNatively(t)
        PROVE  PathOK'
    BY <1>13 DEF IInv, PathOK, TypeOK, Shared, Constructing, lockVars,
       CancelNatively
  <1>14. ASSUME NEW t \in Tasks, AbandonedWorkerTakes(t)
        PROVE  PathOK'
    BY <1>14 DEF IInv, PathOK, TypeOK, Shared, Constructing, lockVars,
       AbandonedWorkerTakes
  <1>15. ASSUME NEW k \in Keys, Drop(k)
        PROVE  PathOK'
    BY <1>15 DEF IInv, PathOK, TypeOK, Shared, Constructing, lockVars, Drop
  <1>16. CASE UNCHANGED vars
    BY <1>16 DEF IInv, PathOK, TypeOK, Shared, Constructing, vars
  <1>17. QED
    BY <1>1, <1>2, <1>3, <1>4, <1>5, <1>6, <1>7, <1>8, <1>9, <1>10, <1>11,
       <1>12, <1>13, <1>14, <1>15, <1>16 DEF Next, Advance, Construct, Cancel,
       AllDone, Callers

\* Every action leaves each caller an entry exactly where it should have one.
LEMMA StepEntry ==
  ASSUME IInv, [Next]_vars
  PROVE  EntryOK'
  <1> USE CallersAssumption, TasksAreCallers DEF Go, Leaving
  <1>1. ASSUME NEW c \in Callers, LookUp(c) \/ Recheck(c) \/ Keep(c)
        PROVE  EntryOK'
    BY <1>1 DEF IInv, TypeOK, PathOK, EntryOK, AtThreadLock, AtAwaitedLock,
       Constructing, Shared, Kinds, lockVars, LookUp, Recheck, Keep
  <1>2. ASSUME NEW c \in Callers, Build(c) \/ BuildRaises(c)
        PROVE  EntryOK'
    BY <1>2 DEF IInv, TypeOK, PathOK, EntryOK, AtThreadLock, AtAwaitedLock,
       Constructing, Shared, Kinds, lockVars, Build, BuildRaises
  <1>3. ASSUME NEW c \in Callers, Store(c)
        PROVE  EntryOK'
    BY <1>3 DEF IInv, TypeOK, PathOK, EntryOK, AtThreadLock, AtAwaitedLock,
       Constructing, Shared, Kinds, lockVars, Store
  <1>4. ASSUME NEW t \in Tasks, GoOffLoop(t) \/ StartWorker(t) \/ HearWorker(t)
                   \/ CancelAwaited(t) \/ CancelOffLoop(t)
        PROVE  EntryOK'
    BY <1>4 DEF IInv, TypeOK, PathOK, EntryOK, AtThreadLock, AtAwaitedLock,
       Constructing, Shared, Kinds, lockVars, GoOffLoop, StartWorker,
       HearWorker, CancelAwaited, CancelOffLoop
  <1>5. ASSUME NEW c \in Callers, BorrowThread(c)
        PROVE  EntryOK'
    BY <1>5 DEF IInv, TypeOK, PathOK, EntryOK, AtThreadLock, AtAwaitedLock,
       Constructing, Shared, Kinds, Borrow, BorrowThread
  <1>6. ASSUME NEW t \in Tasks, BorrowAwaited(t)
        PROVE  EntryOK'
    BY <1>6 DEF IInv, TypeOK, PathOK, EntryOK, AtThreadLock, AtAwaitedLock,
       Constructing, Shared, Kinds, Borrow, BorrowAwaited
  <1>7. ASSUME NEW c \in Callers, GiveBackThread(c)
        PROVE  EntryOK'
    BY <1>7 DEF IInv, TypeOK, PathOK, EntryOK, AtThreadLock, AtAwaitedLock,
       Constructing, Shared, Kinds, Release, GiveBackThread
  <1>8. ASSUME NEW t \in Tasks, GiveBackAwaited(t)
        PROVE  EntryOK'
    BY <1>8 DEF IInv, TypeOK, PathOK, EntryOK, AtThreadLock, AtAwaitedLock,
       Constructing, Shared, Kinds, Release, GiveBackAwaited
  <1>9. ASSUME NEW c \in Callers, TakeThread(c)
        PROVE  EntryOK'
    BY <1>9 DEF IInv, TypeOK, PathOK, EntryOK, AtThreadLock, AtAwaitedLock,
       Constructing, Shared, Kinds, Lock, Unlock, TakeThread
  <1>10. ASSUME NEW t \in Tasks, TakeAwaited(t) \/ WorkerTakes(t)
        PROVE  EntryOK'
    BY <1>10 DEF IInv, TypeOK, PathOK, EntryOK, AtThreadLock, AtAwaitedLock,
       Constructing, Shared, Kinds, Lock, Unlock, TakeAwaited, WorkerTakes
  <1>11. ASSUME NEW c \in Callers, UnlockThread(c)
        PROVE  EntryOK'
    BY <1>11 DEF IInv, TypeOK, PathOK, EntryOK, AtThreadLock, AtAwaitedLock,
       Constructing, Shared, Kinds, Lock, Unlock, UnlockThread
  <1>12. ASSUME NEW t \in Tasks, UnlockAwaited(t) \/ CancelHearing(t)
        PROVE  EntryOK'
    BY <1>12 DEF IInv, TypeOK, PathOK, EntryOK, AtThreadLock, AtAwaitedLock,
       Constructing, Shared, Kinds, Lock, Unlock, UnlockAwaited, CancelHearing
  <1>13. ASSUME NEW t \in Tasks, CancelNatively(t)
        PROVE  EntryOK'
    BY <1>13 DEF IInv, TypeOK, PathOK, EntryOK, AtThreadLock, AtAwaitedLock,
       Constructing, Shared, Kinds, lockVars, CancelNatively
  <1>14. ASSUME NEW t \in Tasks, AbandonedWorkerTakes(t)
        PROVE  EntryOK'
    BY <1>14 DEF IInv, TypeOK, PathOK, EntryOK, AtThreadLock, AtAwaitedLock,
       Constructing, Shared, Kinds, lockVars, AbandonedWorkerTakes
  <1>15. ASSUME NEW k \in Keys, Drop(k)
        PROVE  EntryOK'
    BY <1>15 DEF IInv, TypeOK, PathOK, EntryOK, AtThreadLock, AtAwaitedLock,
       Constructing, Shared, Kinds, lockVars, Drop
  <1>16. CASE UNCHANGED vars
    BY <1>16 DEF IInv, TypeOK, PathOK, EntryOK, AtThreadLock, AtAwaitedLock,
       Constructing, Shared, Kinds, vars
  <1>17. QED
    BY <1>1, <1>2, <1>3, <1>4, <1>5, <1>6, <1>7, <1>8, <1>9, <1>10, <1>11,
       <1>12, <1>13, <1>14, <1>15, <1>16 DEF Next, Advance, Construct, Cancel,
       AllDone, Callers

\* Every action leaves the tables counting the callers at each entry.
LEMMA StepTable ==
  ASSUME IInv, [Next]_vars
  PROVE  TableMeasuresWork' /\ EntryKeyOK'
  <1> USE TasksAreCallers DEF IInv, Kinds
  <1>1. ASSUME NEW c \in Callers, LookUp(c) \/ Recheck(c) \/ Keep(c)
        PROVE  TableMeasuresWork' /\ EntryKeyOK'
    BY <1>1, UnchangedTable DEF lockVars, LookUp, Recheck, Keep
  <1>2. ASSUME NEW c \in Callers, Build(c) \/ BuildRaises(c)
        PROVE  TableMeasuresWork' /\ EntryKeyOK'
    BY <1>2, UnchangedTable DEF lockVars, Build, BuildRaises
  <1>3. ASSUME NEW c \in Callers, Store(c)
        PROVE  TableMeasuresWork' /\ EntryKeyOK'
    BY <1>3, UnchangedTable DEF lockVars, Store
  <1>4. ASSUME NEW t \in Tasks, GoOffLoop(t) \/ StartWorker(t) \/ HearWorker(t)
                   \/ CancelAwaited(t) \/ CancelOffLoop(t)
        PROVE  TableMeasuresWork' /\ EntryKeyOK'
    BY <1>4, UnchangedTable DEF lockVars, GoOffLoop, StartWorker, HearWorker,
       CancelAwaited, CancelOffLoop
  <1>5. ASSUME NEW c \in Callers, BorrowThread(c)
        PROVE  TableMeasuresWork' /\ EntryKeyOK'
    BY <1>5, BorrowTable DEF EntryOK, AtThreadLock, AtAwaitedLock,
       Constructing, Go, TypeOK, BorrowThread
  <1>6. ASSUME NEW t \in Tasks, BorrowAwaited(t)
        PROVE  TableMeasuresWork' /\ EntryKeyOK'
    BY <1>6, BorrowTable DEF EntryOK, AtThreadLock, AtAwaitedLock,
       Constructing, Go, TypeOK, BorrowAwaited
  <1>7. ASSUME NEW c \in Callers, GiveBackThread(c)
        PROVE  TableMeasuresWork' /\ EntryKeyOK'
    BY <1>7, ReleaseTable DEF EntryOK, AtThreadLock, AtAwaitedLock,
       Constructing, Go, TypeOK, GiveBackThread
  <1>8. ASSUME NEW t \in Tasks, GiveBackAwaited(t)
        PROVE  TableMeasuresWork' /\ EntryKeyOK'
    BY <1>8, ReleaseTable DEF EntryOK, AtThreadLock, AtAwaitedLock,
       Constructing, Go, TypeOK, GiveBackAwaited
  <1>9. ASSUME NEW c \in Callers, TakeThread(c)
        PROVE  TableMeasuresWork' /\ EntryKeyOK'
    BY <1>9, UnchangedTable DEF Lock, Unlock, TakeThread
  <1>10. ASSUME NEW t \in Tasks, TakeAwaited(t) \/ WorkerTakes(t)
        PROVE  TableMeasuresWork' /\ EntryKeyOK'
    BY <1>10, UnchangedTable DEF Lock, Unlock, TakeAwaited, WorkerTakes
  <1>11. ASSUME NEW c \in Callers, UnlockThread(c)
        PROVE  TableMeasuresWork' /\ EntryKeyOK'
    BY <1>11, UnchangedTable DEF Lock, Unlock, UnlockThread
  <1>12. ASSUME NEW t \in Tasks, UnlockAwaited(t) \/ CancelHearing(t)
        PROVE  TableMeasuresWork' /\ EntryKeyOK'
    BY <1>12, UnchangedTable DEF Lock, Unlock, UnlockAwaited, CancelHearing
  <1>13. ASSUME NEW t \in Tasks, CancelNatively(t)
        PROVE  TableMeasuresWork' /\ EntryKeyOK'
    BY <1>13, UnchangedTable DEF CancelNatively
  <1>14. ASSUME NEW t \in Tasks, AbandonedWorkerTakes(t)
        PROVE  TableMeasuresWork' /\ EntryKeyOK'
    BY <1>14, UnchangedTable DEF AbandonedWorkerTakes
  <1>15. ASSUME NEW k \in Keys, Drop(k)
        PROVE  TableMeasuresWork' /\ EntryKeyOK'
    BY <1>15, UnchangedTable DEF lockVars, Drop
  <1>16. CASE UNCHANGED vars
    BY <1>16, UnchangedTable DEF vars
  <1>17. QED
    BY <1>1, <1>2, <1>3, <1>4, <1>5, <1>6, <1>7, <1>8, <1>9, <1>10, <1>11,
       <1>12, <1>13, <1>14, <1>15, <1>16 DEF Next, Advance, Construct, Cancel,
       AllDone, Callers

\* Every action leaves the thread lock with whoever should hold it, alone.
LEMMA StepLock ==
  ASSUME IInv, [Next]_vars
  PROVE  LockOK'
  <1> USE CallersAssumption, TasksAreCallers DEF Go, Leaving
  <1>1. ASSUME NEW c \in Callers, LookUp(c) \/ Recheck(c) \/ Keep(c)
        PROVE  LockOK'
    BY <1>1 DEF IInv, TypeOK, PathOK, EntryOK, AtThreadLock, AtAwaitedLock,
       LockOK, Locked, Constructing, Shared, Kinds, lockVars, LookUp, Recheck,
       Keep
  <1>2. ASSUME NEW c \in Callers, Build(c) \/ BuildRaises(c)
        PROVE  LockOK'
    BY <1>2 DEF IInv, TypeOK, PathOK, EntryOK, AtThreadLock, AtAwaitedLock,
       LockOK, Locked, Constructing, Shared, Kinds, lockVars, Build,
       BuildRaises
  <1>3. ASSUME NEW c \in Callers, Store(c)
        PROVE  LockOK'
    BY <1>3 DEF IInv, TypeOK, PathOK, EntryOK, AtThreadLock, AtAwaitedLock,
       LockOK, Locked, Constructing, Shared, Kinds, lockVars, Store
  <1>4. ASSUME NEW t \in Tasks, GoOffLoop(t) \/ StartWorker(t) \/ HearWorker(t)
                   \/ CancelAwaited(t) \/ CancelOffLoop(t)
        PROVE  LockOK'
    BY <1>4 DEF IInv, TypeOK, PathOK, EntryOK, AtThreadLock, AtAwaitedLock,
       LockOK, Locked, Constructing, Shared, Kinds, lockVars, GoOffLoop,
       StartWorker, HearWorker, CancelAwaited, CancelOffLoop
  <1>5. ASSUME NEW c \in Callers, BorrowThread(c)
        PROVE  LockOK'
    BY <1>5 DEF IInv, TypeOK, PathOK, EntryOK, AtThreadLock, AtAwaitedLock,
       LockOK, Locked, Constructing, Shared, Kinds, Borrow, BorrowThread
  <1>6. ASSUME NEW t \in Tasks, BorrowAwaited(t)
        PROVE  LockOK'
    BY <1>6 DEF IInv, TypeOK, PathOK, EntryOK, AtThreadLock, AtAwaitedLock,
       LockOK, Locked, Constructing, Shared, Kinds, Borrow, BorrowAwaited
  <1>7. ASSUME NEW c \in Callers, GiveBackThread(c)
        PROVE  LockOK'
    BY <1>7 DEF IInv, TypeOK, PathOK, EntryOK, AtThreadLock, AtAwaitedLock,
       LockOK, Locked, Constructing, Shared, Kinds, Release, GiveBackThread
  <1>8. ASSUME NEW t \in Tasks, GiveBackAwaited(t)
        PROVE  LockOK'
    BY <1>8 DEF IInv, TypeOK, PathOK, EntryOK, AtThreadLock, AtAwaitedLock,
       LockOK, Locked, Constructing, Shared, Kinds, Release, GiveBackAwaited
  <1>9. ASSUME NEW c \in Callers, TakeThread(c)
        PROVE  LockOK'
    BY <1>9 DEF IInv, TypeOK, PathOK, EntryOK, AtThreadLock, AtAwaitedLock,
       LockOK, Locked, Constructing, Shared, Kinds, Lock, Unlock,
       ThreadLockFree, TakeThread
  <1>10. ASSUME NEW t \in Tasks, TakeAwaited(t) \/ WorkerTakes(t)
        PROVE  LockOK'
    <2>1. CASE TakeAwaited(t)
      BY <2>1 DEF IInv, TypeOK, EntryOK, AtThreadLock, AtAwaitedLock, LockOK,
           Locked, Constructing, Shared, Kinds, Lock, ThreadLockFree, TakeAwaited
    <2>2. CASE WorkerTakes(t)
      BY <2>2 DEF IInv, TypeOK, EntryOK, AtThreadLock, AtAwaitedLock, LockOK,
           Locked, Constructing, Shared, Kinds, Lock, ThreadLockFree, WorkerTakes
    <2>3. QED
      BY <1>10, <2>1, <2>2
  <1>11. ASSUME NEW c \in Callers, UnlockThread(c)
        PROVE  LockOK'
    BY <1>11 DEF IInv, TypeOK, PathOK, EntryOK, AtThreadLock, AtAwaitedLock,
       LockOK, Locked, Constructing, Shared, Kinds, Lock, Unlock, UnlockThread
  <1>12. ASSUME NEW t \in Tasks, UnlockAwaited(t) \/ CancelHearing(t)
        PROVE  LockOK'
    <2>1. CASE UnlockAwaited(t)
      BY <2>1 DEF IInv, TypeOK, EntryOK, AtThreadLock, AtAwaitedLock, LockOK,
           Locked, Constructing, Shared, Kinds, Unlock, UnlockAwaited
    <2>2. CASE CancelHearing(t)
      BY <2>2 DEF IInv, TypeOK, EntryOK, AtThreadLock, AtAwaitedLock, LockOK,
           Locked, Constructing, Shared, Kinds, Unlock, CancelHearing
    <2>3. QED
      BY <1>12, <2>1, <2>2
  <1>13. ASSUME NEW t \in Tasks, CancelNatively(t)
        PROVE  LockOK'
    BY <1>13 DEF IInv, TypeOK, PathOK, EntryOK, AtThreadLock, AtAwaitedLock,
       LockOK, Locked, Constructing, Shared, Kinds, lockVars, CancelNatively
  <1>14. ASSUME NEW t \in Tasks, AbandonedWorkerTakes(t)
        PROVE  LockOK'
    BY <1>14 DEF IInv, TypeOK, PathOK, EntryOK, AtThreadLock, AtAwaitedLock,
       LockOK, Locked, Constructing, Shared, Kinds, lockVars,
       AbandonedWorkerTakes
  <1>15. ASSUME NEW k \in Keys, Drop(k)
        PROVE  LockOK'
    BY <1>15 DEF IInv, TypeOK, PathOK, EntryOK, AtThreadLock, AtAwaitedLock,
       LockOK, Locked, Constructing, Shared, Kinds, lockVars, Drop
  <1>16. CASE UNCHANGED vars
    BY <1>16 DEF IInv, TypeOK, PathOK, EntryOK, AtThreadLock, AtAwaitedLock,
       LockOK, Locked, Constructing, Shared, Kinds, vars
  <1>17. QED
    BY <1>1, <1>2, <1>3, <1>4, <1>5, <1>6, <1>7, <1>8, <1>9, <1>10, <1>11,
       <1>12, <1>13, <1>14, <1>15, <1>16 DEF Next, Advance, Construct, Cancel,
       AllDone, Callers

\* Every action leaves the slot of a building caller empty.
LEMMA StepSlot ==
  ASSUME IInv, [Next]_vars
  PROVE  NothingDiscarded' /\ SlotOK'
  <1> USE TasksAreCallers DEF Go, Leaving
  <1>1. ASSUME NEW c \in Callers, LookUp(c) \/ Recheck(c) \/ Keep(c)
        PROVE  NothingDiscarded' /\ SlotOK'
    <2>1. CASE LookUp(c)
      BY <2>1 DEF IInv, TypeOK, NothingDiscarded, SlotOK,
           Building, Constructing, Shared, LookUp
    <2>2. CASE Recheck(c)
      BY <2>2 DEF IInv, TypeOK, NothingDiscarded, SlotOK,
           Building, Constructing, Shared, Recheck
    <2>3. CASE Keep(c)
      <3>1. /\ pc[c] = "keep"
            /\ pc' = [pc EXCEPT ![c] = IF cache[KeyOf[c]] # None THEN Leaving(c) ELSE "store"]
        BY <2>3 DEF Keep
      <3>2. NothingDiscarded'
        BY <2>3, <3>1 DEF IInv, TypeOK, NothingDiscarded, Building, Shared, Keep
      <3>3. SlotOK'
        BY <2>3, <3>1 DEF IInv, TypeOK, SlotOK, Constructing, Shared, Keep
      <3>4. QED
        BY <3>2, <3>3
    <2>4. QED
      BY <1>1, <2>1, <2>2, <2>3
  <1>2. ASSUME NEW c \in Callers, Build(c) \/ BuildRaises(c)
        PROVE  NothingDiscarded' /\ SlotOK'
    BY <1>2 DEF IInv, TypeOK, NothingDiscarded, SlotOK, Building,
       Constructing, Shared, lockVars, Build, BuildRaises
  <1>3. ASSUME NEW c \in Callers, Store(c)
        PROVE  NothingDiscarded' /\ SlotOK'
    BY <1>3, OneBuilderHolds, CallersAssumption DEF IInv, TypeOK,
       NothingDiscarded, SlotOK, Building, Constructing, Shared, lockVars,
       OneBuilder, OneRunning, Runs, Yielded, Store
  <1>4. ASSUME NEW t \in Tasks, GoOffLoop(t) \/ StartWorker(t) \/ HearWorker(t)
                   \/ CancelAwaited(t) \/ CancelOffLoop(t)
        PROVE  NothingDiscarded' /\ SlotOK'
    BY <1>4 DEF IInv, TypeOK, NothingDiscarded, SlotOK, Building,
       Constructing, Shared, lockVars, GoOffLoop, StartWorker, HearWorker,
       CancelAwaited, CancelOffLoop
  <1>5. ASSUME NEW c \in Callers, BorrowThread(c)
        PROVE  NothingDiscarded' /\ SlotOK'
    BY <1>5 DEF IInv, TypeOK, NothingDiscarded, SlotOK, Building,
       Constructing, Shared, Borrow, BorrowThread
  <1>6. ASSUME NEW t \in Tasks, BorrowAwaited(t)
        PROVE  NothingDiscarded' /\ SlotOK'
    BY <1>6 DEF IInv, TypeOK, NothingDiscarded, SlotOK, Building,
       Constructing, Shared, Borrow, BorrowAwaited
  <1>7. ASSUME NEW c \in Callers, GiveBackThread(c)
        PROVE  NothingDiscarded' /\ SlotOK'
    BY <1>7 DEF IInv, TypeOK, NothingDiscarded, SlotOK, Building,
       Constructing, Shared, Release, GiveBackThread
  <1>8. ASSUME NEW t \in Tasks, GiveBackAwaited(t)
        PROVE  NothingDiscarded' /\ SlotOK'
    BY <1>8 DEF IInv, TypeOK, NothingDiscarded, SlotOK, Building,
       Constructing, Shared, Release, GiveBackAwaited
  <1>9. ASSUME NEW c \in Callers, TakeThread(c)
        PROVE  NothingDiscarded' /\ SlotOK'
    BY <1>9 DEF IInv, TypeOK, NothingDiscarded, SlotOK, Building,
       Constructing, Shared, Lock, Unlock, TakeThread
  <1>10. ASSUME NEW t \in Tasks, TakeAwaited(t) \/ WorkerTakes(t)
        PROVE  NothingDiscarded' /\ SlotOK'
    BY <1>10 DEF IInv, TypeOK, NothingDiscarded, SlotOK, Building,
       Constructing, Shared, Lock, Unlock, TakeAwaited, WorkerTakes
  <1>11. ASSUME NEW c \in Callers, UnlockThread(c)
        PROVE  NothingDiscarded' /\ SlotOK'
    BY <1>11 DEF IInv, TypeOK, NothingDiscarded, SlotOK, Building,
       Constructing, Shared, Lock, Unlock, UnlockThread
  <1>12. ASSUME NEW t \in Tasks, UnlockAwaited(t) \/ CancelHearing(t)
        PROVE  NothingDiscarded' /\ SlotOK'
    BY <1>12 DEF IInv, TypeOK, NothingDiscarded, SlotOK, Building,
       Constructing, Shared, Lock, Unlock, UnlockAwaited, CancelHearing
  <1>13. ASSUME NEW t \in Tasks, CancelNatively(t)
        PROVE  NothingDiscarded' /\ SlotOK'
    BY <1>13 DEF IInv, TypeOK, NothingDiscarded, SlotOK, Building,
       Constructing, Shared, lockVars, CancelNatively
  <1>14. ASSUME NEW t \in Tasks, AbandonedWorkerTakes(t)
        PROVE  NothingDiscarded' /\ SlotOK'
    BY <1>14 DEF IInv, TypeOK, NothingDiscarded, SlotOK, Building,
       Constructing, Shared, lockVars, AbandonedWorkerTakes
  <1>15. ASSUME NEW k \in Keys, Drop(k)
        PROVE  NothingDiscarded' /\ SlotOK'
    BY <1>15, CallersAssumption DEF IInv, TypeOK, NothingDiscarded, SlotOK,
       Building, Constructing, Shared, lockVars, Drop
  <1>16. CASE UNCHANGED vars
    BY <1>16 DEF IInv, TypeOK, NothingDiscarded, SlotOK, Building,
       Constructing, Shared, vars
  <1>17. QED
    BY <1>1, <1>2, <1>3, <1>4, <1>5, <1>6, <1>7, <1>8, <1>9, <1>10, <1>11,
       <1>12, <1>13, <1>14, <1>15, <1>16 DEF Next, Advance, Construct, Cancel,
       AllDone, Callers

-----------------------------------------------------------------------------
(* The theorems.                                                             *)

LEMMA InitInv == Init => IInv
  <1> SUFFICES ASSUME Init PROVE IInv
    OBVIOUS
  <1>1. TypeOK
    BY InitType
  <1>2. OneRunning /\ PathOK /\ EntryOK /\ EntryKeyOK /\ LockOK /\ NothingDiscarded /\ SlotOK
    BY CallersAssumption DEF Init, OneRunning, Yielded, PathOK, EntryOK, AtThreadLock,
       AtAwaitedLock, EntryKeyOK, LockOK, Locked, NothingDiscarded, SlotOK, Building,
       Constructing, Kinds
  <1>3. \A kind \in Kinds, e \in Callers : Borrowers(kind, e) = {}
    BY CallersAssumption DEF Init, Borrowers
  <1>4. TableMeasuresWork
    BY <1>3, FS_EmptySet, CallersAssumption DEF Init, TableMeasuresWork
  <1>5. QED
    BY <1>1, <1>2, <1>4 DEF IInv

LEMMA StepInv == IInv /\ [Next]_vars => IInv'
  BY StepType, StepRunning, StepPath, StepEntry, StepTable, StepLock, StepSlot DEF IInv

\* What the run's invariants follow from holds in every reachable state.
THEOREM Invariance == Spec => []IInv
  BY InitInv, StepInv, PTL DEF Spec

\* Every variable of the construction locks stays what its comment says it is.
THEOREM TypeCorrect == Spec => []TypeOK
  BY Invariance, PTL DEF IInv

\* Two drivers, any number of threads and event loops, cancellations and evictions
\* included: one shared slot never has two callers building its instance.
THEOREM BuildsOnce == Spec => []OneBuilder
  BY Invariance, OneBuilderHolds, PTL

\* An instance built for a shared slot is never thrown away by InstanceCache.keep.
THEOREM KeepsWhatItBuilds == Spec => []NothingDiscarded
  BY Invariance, PTL DEF IInv

\* ConstructionLocks counts exactly the callers that borrowed an entry and have not
\* given it back, and has no entry for anyone else.
THEOREM TableCounts == Spec => []TableMeasuresWork
  BY Invariance, PTL DEF IInv

LEMMA InitSlots == Init => Slots!Init
  BY DEF Init, Slots!Init

LEMMA StepSlots == IInv /\ [Next]_vars => [Slots!Next]_<<cache, result>>
  <1> SUFFICES ASSUME IInv, [Next]_vars
               PROVE  Slots!Next \/ UNCHANGED <<cache, result>>
    OBVIOUS
  <1> USE TasksAreCallers DEF Slots!Next
  <1>1. ASSUME NEW c \in Callers, LookUp(c) \/ Recheck(c) \/ Keep(c)
        PROVE  Slots!Serve(c) \/ UNCHANGED <<cache, result>>
    <2>1. result[c] = None
      BY <1>1 DEF IInv, SlotOK, Constructing, LookUp, Recheck, Keep, Go
    <2>2. CASE LookUp(c)
      BY <2>1, <2>2 DEF LookUp, Slots!Serve
    <2>3. CASE Recheck(c)
      BY <2>1, <2>3 DEF Recheck, Slots!Serve
    <2>4. CASE Keep(c)
      BY <2>1, <2>4 DEF Keep, Slots!Serve
    <2>5. QED
      BY <1>1, <2>2, <2>3, <2>4
  <1>2. ASSUME NEW c \in Callers, Store(c)
        PROVE  Slots!Publish(c)
    BY <1>2 DEF IInv, SlotOK, Constructing, Store, Go, Slots!Publish
  <1>3. ASSUME NEW k \in Keys, Drop(k)
        PROVE  Slots!Drop(k)
    BY <1>3 DEF Drop, Slots!Drop
  <1>4. ASSUME NEW c \in Callers,
               \/ Build(c) \/ BuildRaises(c) \/ BorrowThread(c) \/ TakeThread(c)
               \/ UnlockThread(c) \/ GiveBackThread(c)
        PROVE  UNCHANGED <<cache, result>>
    BY <1>4 DEF Build, BuildRaises, BorrowThread, TakeThread, UnlockThread, GiveBackThread
  <1>5. ASSUME NEW t \in Tasks,
               \/ BorrowAwaited(t) \/ TakeAwaited(t) \/ GoOffLoop(t) \/ StartWorker(t)
               \/ WorkerTakes(t) \/ HearWorker(t) \/ UnlockAwaited(t) \/ GiveBackAwaited(t)
        PROVE  UNCHANGED <<cache, result>>
    BY <1>5 DEF BorrowAwaited, TakeAwaited, GoOffLoop, StartWorker, WorkerTakes,
       HearWorker, UnlockAwaited, GiveBackAwaited
  <1>6. ASSUME NEW t \in Tasks, Cancel(t) \/ AbandonedWorkerTakes(t)
        PROVE  UNCHANGED <<cache, result>>
    BY <1>6 DEF Cancel, CancelAwaited, CancelOffLoop, CancelHearing, CancelNatively,
       AbandonedWorkerTakes
  <1>7. CASE UNCHANGED vars
    BY <1>7 DEF vars
  <1>8. QED
    BY <1>1, <1>2, <1>3, <1>4, <1>5, <1>6, <1>7 DEF Next, Advance, Construct, AllDone

\* Construction under both locks implements slots filled once by whoever built the
\* instance and served to everyone else until they are dropped.
THEOREM Refinement == Spec => ImplementsSlots
  BY InitSlots, StepSlots, Invariance, PTL DEF Spec, ImplementsSlots, Slots!Spec, Slots!slotVars
==============================================================================
