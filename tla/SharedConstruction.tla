-------------------------- MODULE SharedConstruction --------------------------
(***************************************************************************)
(* How the resolution kernel builds a cached provider once, whichever of   *)
(* its two drivers is asked: kernel/ioc/runtime/{kernel,locks,steps}.py    *)
(* and the construction locks of kernel/ioc/scopes.py.                     *)
(*                                                                         *)
(* A caller is one resolution of one key.  A synchronous one runs on a     *)
(* thread from start to end; an awaited one (a task) shares its thread,    *)
(* the event loop's, with the other tasks of that loop and lets go of it   *)
(* only at an await.  Both take the thread lock of the key's entry in      *)
(* construction_locks; a task first queues on the awaited lock of the      *)
(* key's entry in async_construction_locks, and waits for a held thread    *)
(* lock in a worker thread.                                                *)
(*                                                                         *)
(* Names stand for what they identify: an instance is named after the      *)
(* caller that built it, and a lock entry after the caller that created    *)
(* it, so two entries for one key, or two instances, are told apart.       *)
(* Resolving the dependencies of what is being built is part of "build".   *)
(***************************************************************************)
EXTENDS Integers, FiniteSets

CONSTANTS
    Tasks,          \* resolutions driven by _run_async
    SyncCallers,    \* resolutions driven by _run
    Threads,        \* threads, an event loop being the thread it runs on
    ThreadOf,       \* the thread each caller runs on
    Keys,           \* cache keys
    KeyOf,          \* the key each caller resolves
    Unshared,       \* keys of request-scoped slots, which no lock covers
    NativeCancels,  \* BOOLEAN: may a task be cancelled by its loop directly?
    None            \* nothing: an empty slot, no entry, no answer

Callers == Tasks \union SyncCallers

\* Request-scoped slots belong to one request, which is served on one loop.
ASSUME CallersAssumption ==
    /\ Tasks \intersect SyncCallers = {}
    /\ IsFiniteSet(Callers)
    /\ None \notin Callers
    /\ ThreadOf \in [Callers -> Threads]
    /\ KeyOf \in [Callers -> Keys]
    /\ Unshared \subseteq Keys
    /\ NativeCancels \in BOOLEAN
    /\ \A c, d \in Callers :
          KeyOf[c] = KeyOf[d] /\ KeyOf[c] \in Unshared => ThreadOf[c] = ThreadOf[d]

VARIABLES
    pc,         \* where each caller is in its resolution
    cache,      \* the instance each key's slot holds, or None
    result,     \* the instance each caller was answered with, or None
    table,      \* ConstructionLocks._entries of each kind: key -> entry or None
    holders,    \* _LockEntry.holders of each kind
    held,       \* the callers holding each entry's lock, by kind
    entry,      \* the entry each caller has borrowed, by kind, or None
    abandoned   \* the entry a worker thread still waits on for a task that left

vars == <<pc, cache, result, table, holders, held, entry, abandoned>>
lockVars == <<table, holders, held, entry, abandoned>>

\* construction_locks and async_construction_locks.
Kinds == {"thread", "await"}

Places == {"new", "await_borrow", "await_lock", "borrow", "take", "off_loop",
           "worker", "answer", "recheck", "build", "keep", "store", "unlock",
           "give_back", "await_unlock", "await_give_back", "done"}

Shared(c) == KeyOf[c] \notin Unshared

\* A caller not running code on its thread: not started, finished, or a task at
\* an await (the awaited lock, the worker thread, an async factory).
Yielded(c) ==
    \/ pc[c] \in {"new", "done"}
    \/ c \in Tasks /\ pc[c] \in {"await_lock", "off_loop", "worker", "answer", "build"}

\* A caller may take a step when no other caller occupies its thread.
Runs(c) == \A d \in Callers \ {c} : ThreadOf[d] = ThreadOf[c] => Yielded(d)

Go(c, from, to) == /\ pc[c] = from
                   /\ Runs(c)
                   /\ pc' = [pc EXCEPT ![c] = to]

\* Where a caller goes once it has its answer, or has raised.
Leaving(c) == IF Shared(c) THEN "unlock" ELSE "done"

-----------------------------------------------------------------------------
(* The lock tables: ConstructionLocks.borrow and .release, under their guard. *)

Borrow(c, kind) ==
    LET k == KeyOf[c]
        e == IF table[kind][k] = None THEN c ELSE table[kind][k]
    IN  /\ table' = [table EXCEPT ![kind][k] = e]
        /\ holders' = [holders EXCEPT ![kind][e] = @ + 1]
        /\ entry' = [entry EXCEPT ![kind][c] = e]
        /\ UNCHANGED <<held, abandoned>>

\* A releaser that forgets the entry while others still hold it.
ReleaseForgets(c, kind) ==
    LET e == entry[kind][c]
    IN  /\ holders' = [holders EXCEPT ![kind][e] = @ - 1]
        /\ table' = [table EXCEPT ![kind][KeyOf[c]] = None]
        /\ entry' = [entry EXCEPT ![kind][c] = None]
        /\ UNCHANGED <<held, abandoned>>

\* A releaser that never removes the entry it was the last to hold.
ReleaseKeeps(c, kind) ==
    LET e == entry[kind][c]
    IN  /\ holders' = [holders EXCEPT ![kind][e] = @ - 1]
        /\ entry' = [entry EXCEPT ![kind][c] = None]
        /\ UNCHANGED <<table, held, abandoned>>

Release(c, kind) ==
    LET k == KeyOf[c]
        e == entry[kind][c]
        last == holders[kind][e] - 1 <= 0 /\ table[kind][k] = e
    IN  /\ holders' = [holders EXCEPT ![kind][e] = @ - 1]
        /\ table' = [table EXCEPT ![kind][k] = IF last THEN None ELSE @]
        /\ entry' = [entry EXCEPT ![kind][c] = None]
        /\ UNCHANGED <<held, abandoned>>

Lock(c, kind) ==
    /\ held' = [held EXCEPT ![kind][entry[kind][c]] = @ \union {c}]
    /\ UNCHANGED <<table, holders, entry, abandoned>>

Unlock(c, kind) ==
    /\ held' = [held EXCEPT ![kind][entry[kind][c]] = @ \ {c}]
    /\ UNCHANGED <<table, holders, entry, abandoned>>

-----------------------------------------------------------------------------
(* Reading the slot, and the way in to the lock.                             *)

Init ==
    /\ pc = [c \in Callers |-> "new"]
    /\ cache = [k \in Keys |-> None]
    /\ result = [c \in Callers |-> None]
    /\ table = [kind \in Kinds |-> [k \in Keys |-> None]]
    /\ holders = [kind \in Kinds |-> [e \in Callers |-> 0]]
    /\ held = [kind \in Kinds |-> [e \in Callers |-> {}]]
    /\ entry = [kind \in Kinds |-> [c \in Callers |-> None]]
    /\ abandoned = [c \in Callers |-> None]

\* _resolve_steps: a filled slot answers at once; an empty one leads to its lock,
\* or straight to construction when the slot is not shared.
LookUp(c) ==
    /\ IF cache[KeyOf[c]] # None
       THEN /\ Go(c, "new", "done")
            /\ result' = [result EXCEPT ![c] = cache[KeyOf[c]]]
       ELSE /\ Go(c, "new", IF ~Shared(c) THEN "recheck"
                            ELSE IF c \in Tasks THEN "await_borrow" ELSE "borrow")
            /\ UNCHANGED result
    /\ UNCHANGED <<cache, lockVars>>

\* _held_async: borrow the awaited entry, then await its lock.
BorrowAwaited(t) ==
    /\ Go(t, "await_borrow", "await_lock")
    /\ Borrow(t, "await")
    /\ UNCHANGED <<cache, result>>

\* anyio.Lock excludes the tasks of one loop; nothing is assumed across loops.
TakeAwaited(t) ==
    /\ Go(t, "await_lock", "borrow")
    /\ \A u \in held["await"][entry["await"][t]] : ThreadOf[u] # ThreadOf[t]
    /\ Lock(t, "await")
    /\ UNCHANGED <<cache, result>>

\* A cancellation reaching the wait for the awaited lock leaves it untaken.
CancelAwaited(t) ==
    /\ Go(t, "await_lock", "await_give_back")
    /\ UNCHANGED <<cache, result, lockVars>>

BorrowThread(c) ==
    /\ Go(c, "borrow", "take")
    /\ Borrow(c, "thread")
    /\ UNCHANGED <<cache, result>>

ThreadLockFree(c) == held["thread"][entry["thread"][c]] = {}

\* A synchronous caller blocks its thread here until the lock is free; a task
\* takes it only if it can do so without blocking.
TakeThread(c) ==
    /\ Go(c, "take", "recheck")
    /\ ThreadLockFree(c)
    /\ Lock(c, "thread")
    /\ UNCHANGED <<cache, result>>

\* _acquired_off_the_loop: a task that finds the lock held goes to a worker thread.
GoOffLoop(t) ==
    /\ Go(t, "take", "off_loop")
    /\ ~ThreadLockFree(t)
    /\ UNCHANGED <<cache, result, lockVars>>

\* to_thread.run_sync has a checkpoint and a limiter before the worker starts.
CancelOffLoop(t) ==
    /\ Go(t, "off_loop", "give_back")
    /\ UNCHANGED <<cache, result, lockVars>>

StartWorker(t) ==
    /\ Go(t, "off_loop", "worker")
    /\ UNCHANGED <<cache, result, lockVars>>

\* The worker thread acquires the lock; the loop has not heard of it yet.
WorkerTakes(t) ==
    /\ pc[t] = "worker"
    /\ ThreadLockFree(t)
    /\ pc' = [pc EXCEPT ![t] = "answer"]
    /\ Lock(t, "thread")
    /\ UNCHANGED <<cache, result>>

HearWorker(t) ==
    /\ Go(t, "answer", "recheck")
    /\ UNCHANGED <<cache, result, lockVars>>

\* A cancelled wait that leaves the lock with the worker that took it.
CancelHearingKeepsLock(t) ==
    /\ Go(t, "answer", "give_back")
    /\ UNCHANGED <<cache, result, lockVars>>

\* A cancellation held back until the worker finished: the lock is given back.
CancelHearing(t) ==
    /\ Go(t, "answer", "give_back")
    /\ Unlock(t, "thread")
    /\ UNCHANGED <<cache, result>>

\* Task.cancel() reaches the await of the worker at once: nothing was taken yet,
\* so nothing is given back, and the worker goes on waiting for the lock.
CancelNatively(t) ==
    /\ NativeCancels
    /\ Go(t, "worker", "give_back")
    /\ abandoned' = [abandoned EXCEPT ![t] = entry["thread"][t]]
    /\ UNCHANGED <<cache, result, table, holders, held, entry>>

AbandonedWorkerTakes(t) ==
    LET e == abandoned[t]
    IN  /\ e # None
        /\ held["thread"][e] = {}
        /\ held' = [held EXCEPT !["thread"][e] = {t}]
        /\ abandoned' = [abandoned EXCEPT ![t] = None]
        /\ UNCHANGED <<pc, cache, result, table, holders, entry>>

-----------------------------------------------------------------------------
(* _cached_construction, inside the lock when the slot is shared.            *)

\* A caller that builds without reading the slot again once it holds the lock.
RecheckSkipped(c) ==
    /\ Go(c, "recheck", "build")
    /\ UNCHANGED <<cache, result, lockVars>>

Recheck(c) ==
    /\ IF cache[KeyOf[c]] # None
       THEN /\ Go(c, "recheck", Leaving(c))
            /\ result' = [result EXCEPT ![c] = cache[KeyOf[c]]]
       ELSE /\ Go(c, "recheck", "build")
            /\ UNCHANGED result
    /\ UNCHANGED <<cache, lockVars>>

Build(c) ==
    /\ Go(c, "build", "keep")
    /\ UNCHANGED <<cache, result, lockVars>>

\* A failure that unwinds past the lock without releasing it.
BuildRaisesHoldingLock(c) ==
    /\ Go(c, "build", IF Shared(c) THEN "give_back" ELSE "done")
    /\ UNCHANGED <<cache, result, lockVars>>

\* The constructor or factory raises, an async factory is refused to a synchronous
\* caller, or a task is cancelled while awaiting: nothing is kept.
BuildRaises(c) ==
    /\ Go(c, "build", Leaving(c))
    /\ UNCHANGED <<cache, result, lockVars>>

\* InstanceCache.keep, its read: a filled slot answers and the instance is dropped.
Keep(c) ==
    /\ IF cache[KeyOf[c]] # None
       THEN /\ Go(c, "keep", Leaving(c))
            /\ result' = [result EXCEPT ![c] = cache[KeyOf[c]]]
       ELSE /\ Go(c, "keep", "store")
            /\ UNCHANGED result
    /\ UNCHANGED <<cache, lockVars>>

\* A construction handed to whoever asked for it and kept for nobody else.
StoreForgotten(c) ==
    /\ Go(c, "store", Leaving(c))
    /\ result' = [result EXCEPT ![c] = c]
    /\ UNCHANGED <<cache, lockVars>>

\* InstanceCache.keep, its write.
Store(c) ==
    /\ Go(c, "store", Leaving(c))
    /\ cache' = [cache EXCEPT ![KeyOf[c]] = c]
    /\ result' = [result EXCEPT ![c] = c]
    /\ UNCHANGED lockVars

-----------------------------------------------------------------------------
(* The way out, in the order the context managers unwind.                    *)

UnlockThread(c) ==
    /\ Go(c, "unlock", "give_back")
    /\ Unlock(c, "thread")
    /\ UNCHANGED <<cache, result>>

GiveBackThread(c) ==
    /\ Go(c, "give_back", IF c \in Tasks THEN "await_unlock" ELSE "done")
    /\ Release(c, "thread")
    /\ UNCHANGED <<cache, result>>

UnlockAwaited(t) ==
    /\ Go(t, "await_unlock", "await_give_back")
    /\ Unlock(t, "await")
    /\ UNCHANGED <<cache, result>>

GiveBackAwaited(t) ==
    /\ Go(t, "await_give_back", "done")
    /\ Release(t, "await")
    /\ UNCHANGED <<cache, result>>

\* A slot is emptied: a durable partition is evicted, an override clears what it
\* reaches, a shutdown forgets every instance, a request ends.
Drop(k) ==
    /\ cache[k] # None
    /\ cache' = [cache EXCEPT ![k] = None]
    /\ UNCHANGED <<pc, result, lockVars>>

-----------------------------------------------------------------------------
Construct(c) == Recheck(c) \/ Build(c) \/ BuildRaises(c) \/ Keep(c) \/ Store(c)

\* The steps of a caller that has started, cancellations left out.
Advance(c) ==
    \/ BorrowThread(c) \/ TakeThread(c) \/ UnlockThread(c) \/ GiveBackThread(c)
    \/ Construct(c)
    \/ c \in Tasks /\ ( \/ BorrowAwaited(c) \/ TakeAwaited(c)
                        \/ GoOffLoop(c) \/ StartWorker(c)
                        \/ WorkerTakes(c) \/ HearWorker(c)
                        \/ UnlockAwaited(c) \/ GiveBackAwaited(c))

Cancel(t) ==
    \/ CancelAwaited(t) \/ CancelOffLoop(t) \/ CancelHearing(t) \/ CancelNatively(t)

AllDone == /\ \A c \in Callers : pc[c] = "done"
           /\ UNCHANGED vars

Next ==
    \/ \E c \in Callers : LookUp(c) \/ Advance(c)
    \/ \E t \in Tasks : Cancel(t) \/ AbandonedWorkerTakes(t)
    \/ \E k \in Keys : Drop(k)
    \/ AllDone

Spec == Init /\ [][Next]_vars

\* Threads are scheduled, loops run what is ready, and what is being built either
\* returns or raises.  Nobody is obliged to start a resolution or to cancel one.
FairSpec ==
    /\ Spec
    /\ \A c \in Callers : WF_vars(Advance(c))
    /\ \A t \in Tasks : WF_vars(AbandonedWorkerTakes(t))

-----------------------------------------------------------------------------
(* Properties.                                                               *)

\* The state is what its variables' comments say it is; an entry never counts
\* fewer than no holders, which ConstructionLocks.release would take for the last.
TypeOK ==
    /\ pc \in [Callers -> Places]
    /\ cache \in [Keys -> Callers \union {None}]
    /\ result \in [Callers -> Callers \union {None}]
    /\ table \in [Kinds -> [Keys -> Callers \union {None}]]
    /\ holders \in [Kinds -> [Callers -> Nat]]
    /\ held \in [Kinds -> [Callers -> SUBSET Callers]]
    /\ entry \in [Kinds -> [Callers -> Callers \union {None}]]
    /\ abandoned \in [Callers -> Callers \union {None}]

Building(c) == pc[c] \in {"build", "keep", "store"}

\* Two callers never build the instance of one shared slot at the same time,
\* whichever drivers they run under and whatever was cancelled or evicted:
\* what construction_locks exists for.
OneBuilder ==
    \A c, d \in Callers :
        Building(c) /\ Building(d) /\ Shared(c) /\ KeyOf[c] = KeyOf[d] => c = d

\* An instance built for a shared slot is always the one kept: the check in
\* InstanceCache.keep never discards it, so nothing it opened leaks.
NothingDiscarded ==
    \A c \in Callers : Building(c) /\ Shared(c) => cache[KeyOf[c]] = None

Borrowers(kind, e) == {c \in Callers : entry[kind][c] = e}

\* Everyone between borrowing and giving back holds the entry the table shows for
\* the key, the entry counts exactly them, and a key nobody is at has no entry:
\* the table measures work in flight.
TableMeasuresWork ==
    \A kind \in Kinds :
        /\ \A c \in Callers :
              entry[kind][c] # None => table[kind][KeyOf[c]] = entry[kind][c]
        /\ \A e \in Callers : holders[kind][e] = Cardinality(Borrowers(kind, e))
        /\ \A k \in Keys :
              table[kind][k] # None => Borrowers(kind, table[kind][k]) # {}

\* Seen by its callers, construction is a slot filled once and then served.
Slots == INSTANCE InstanceSlots WITH slot <- cache, answer <- result
ImplementsSlots == Slots!Spec

\* An event loop is never blocked on a thread lock that a task suspended on that
\* same loop holds, as one taken across an await would block it.
LoopNeverWaitsForItself ==
    \A s \in SyncCallers, t \in Tasks :
        pc[s] = "take" /\ ThreadOf[s] = ThreadOf[t] =>
            t \notin held["thread"][entry["thread"][s]]

\* No worker thread waits for a task that was cancelled natively and left it behind.
NobodyLeftBehind == \A t \in Tasks : abandoned[t] = None

\* A resolution that starts ends, with an instance or by raising, whoever was cancelled
\* while it waited or built: one that hears of its cancellation gives back what its
\* worker thread has taken for it.
EveryResolutionEnds ==
    []NobodyLeftBehind => \A c \in Callers : (pc[c] # "new") ~> (pc[c] = "done")
==============================================================================
