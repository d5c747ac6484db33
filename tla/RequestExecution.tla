--------------------------- MODULE RequestExecution ---------------------------
(***************************************************************************)
(* How one running application serves requests that share its durable      *)
(* store and its threads (runtime/execution.py, over the bounded store of  *)
(* kernel/ioc/scopes.py).                                                  *)
(*                                                                         *)
(* All requests run on one event loop: an action is what happens between   *)
(* two awaits, except the end of a handler that runs on a thread.  Each    *)
(* request asks for the durable provider of its partition, once for its    *)
(* guards and once for its controller.  Module SharedConstruction looks    *)
(* inside a construction: here one request builds and the others wait.     *)
(* anyio and asyncio are external: a deadline reaches a request at its     *)
(* awaits, and the limiter hands its tokens out in the order of asking.    *)
(***************************************************************************)
EXTENDS Integers, FiniteSets, SequencesExt

CONSTANTS
    Requests,
    Guarded,        \* the requests whose route declares a guard
    Sync,           \* the requests whose handler is synchronous
    Partitions,
    PartitionOf,    \* the durable partition each request belongs to
    StoreLimit,     \* how many instances the durable store keeps
    Threads,        \* RequestLimits.sync_handler_threads
    NativeCancels,  \* whether a server cancels requests with Task.cancel()
    None

Answers == {"served", "refused", "failed", "timeout", "cancelled"}

ASSUME RequestsAssumption ==
    /\ IsFiniteSet(Requests)
    /\ Guarded \subseteq Requests /\ Sync \subseteq Requests
    /\ PartitionOf \in [Requests -> Partitions]
    /\ StoreLimit \in Nat \ {0} /\ Threads \in Nat \ {0}
    /\ NativeCancels \in BOOLEAN
    /\ None \notin Answers /\ \A ps \in SUBSET Partitions : ps # None

VARIABLES
    stage,      \* where each request is
    answer,     \* how it was answered, None before
    created,    \* the partitions it has cached while it is being decided, None if it is not
    store,      \* the durable store, least recently used first: partitions and their builders
    borrowers,  \* the requests that hold a token of the limiter
    queue,      \* the requests that wait for one, in order
    threads,    \* the requests whose handler is running on a thread
    overdue,    \* ghost: the requests whose time has run out
    lost        \* ghost: the requests an instance of whose has left the store

threadVars == <<borrowers, queue, threads>>
vars == <<stage, answer, created, store, threadVars, overdue, lost>>

Stages == {"new", "finding", "building", "deciding", "calling", "handler",
           "queued", "thread", "outlived", "answered"}

Go(r, to) == stage' = [stage EXCEPT ![r] = to]

\* The request leaves its route with an answer.
Answer(r, with) ==
    /\ Go(r, "answered")
    /\ answer' = [answer EXCEPT ![r] = with]

-----------------------------------------------------------------------------
(* The durable store.                                                        *)

Places(p) == {n \in DOMAIN store : store[n].partition = p}
PlaceOf(p) == CHOOSE n \in Places(p) : TRUE

Keeps(p) == Places(p) # {}

\* BoundedInstanceStore.__delitem__, which its caller may ask for what is not there.
Without(p) == IF Keeps(p) THEN RemoveAt(store, PlaceOf(p)) ELSE store

\* BoundedInstanceStore.__getitem__: a read is a use.
Touched(p) == Append(Without(p), store[PlaceOf(p)])

\* BoundedInstanceStore.__setitem__: the entry unused for longest goes when it is full.
Stored(r) ==
    LET entry == [partition |-> PartitionOf[r], by |-> r]
        entries == Append(Without(PartitionOf[r]), entry)
    IN  IF Len(entries) > StoreLimit THEN Tail(entries) ELSE entries

LosesItsEntries == lost' = lost \union {e.by : e \in ToSet(store) \ ToSet(store')}

-----------------------------------------------------------------------------
(* Until the request is admitted or refused.                                 *)

\* The clock starts, and a route with a guard records what it caches.
Arrive(r) ==
    /\ stage[r] = "new"
    /\ Go(r, "finding")
    /\ created' = [created EXCEPT ![r] = IF r \in Guarded THEN {} ELSE None]
    /\ UNCHANGED <<answer, store, threadVars, overdue, lost>>

\* Having its provider, the request goes to its guards, or to its handler once admitted.
Found(r) == Go(r, IF created[r] # None THEN "deciding" ELSE "calling")

\* A request that finds its partition under construction waits for it.
Find(r) ==
    /\ stage[r] = "finding"
    /\ \A q \in Requests :
          stage[q] = "building" => PartitionOf[q] # PartitionOf[r]
    /\ IF Keeps(PartitionOf[r])
       THEN Found(r) /\ store' = Touched(PartitionOf[r])
       ELSE Go(r, "building") /\ UNCHANGED store
    /\ UNCHANGED <<answer, created, threadVars, overdue, lost>>

\* What is cached while a request is being decided is recorded against it.
Built(r) ==
    /\ stage[r] = "building"
    /\ Found(r)
    /\ store' = Stored(r)
    /\ created' = [created EXCEPT ![r] =
                       IF @ = None THEN None ELSE @ \union {PartitionOf[r]}]
    /\ LosesItsEntries
    /\ UNCHANGED <<answer, threadVars, overdue>>

\* A request that goes on recording after its guards admitted it.
AdmitRecording(r) ==
    /\ stage[r] = "deciding"
    /\ Go(r, "calling")
    /\ UNCHANGED <<answer, created, store, threadVars, overdue, lost>>

\* Every guard let the request through: what it caches from here on is its own.
Admit(r) ==
    /\ stage[r] = "deciding"
    /\ Go(r, "finding")
    /\ created' = [created EXCEPT ![r] = None]
    /\ UNCHANGED <<answer, store, threadVars, overdue, lost>>

\* The request is rejected, by a guard or by what runs after the guards; only what
\* it cached while it was being decided is dropped, by its key: its partition, or nothing.
Reject(r) ==
    /\ stage[r] \in {"deciding", "calling", "handler"}
    /\ Answer(r, IF created[r] # None THEN "refused" ELSE "failed")
    /\ IF created[r] \in {None, {}} THEN UNCHANGED store
       ELSE \E p \in created[r] : store' = Without(p)
    /\ LosesItsEntries
    /\ UNCHANGED <<created, threadVars, overdue>>

\* Something else is raised: a constructor, a guard, a parameter, the handler.
Fail(r) ==
    /\ stage[r] \in {"finding", "building", "deciding", "calling", "handler"}
    /\ Answer(r, "failed")
    /\ UNCHANGED <<created, store, threadVars, overdue, lost>>

-----------------------------------------------------------------------------
(* The handler.                                                              *)

TokenFree == Cardinality(borrowers) < Threads

\* _call_handler: an asynchronous handler runs on the loop; a synchronous one takes a
\* token if one is free and nobody waits, or queues for one.
Call(r) ==
    /\ stage[r] = "calling"
    /\ \/ /\ r \notin Sync
          /\ Go(r, "handler")
          /\ UNCHANGED threadVars
       \/ /\ r \in Sync /\ TokenFree /\ queue = <<>>
          /\ Go(r, "thread")
          /\ borrowers' = borrowers \union {r}
          /\ threads' = threads \union {r}
          /\ UNCHANGED queue
       \/ /\ r \in Sync /\ ~(TokenFree /\ queue = <<>>)
          /\ Go(r, "queued")
          /\ queue' = Append(queue, r)
          /\ UNCHANGED <<borrowers, threads>>
    /\ UNCHANGED <<answer, created, store, overdue, lost>>

TakeToken(r) ==
    /\ stage[r] = "queued" /\ Head(queue) = r /\ TokenFree
    /\ Go(r, "thread")
    /\ queue' = Tail(queue)
    /\ borrowers' = borrowers \union {r}
    /\ threads' = threads \union {r}
    /\ UNCHANGED <<answer, created, store, overdue, lost>>

\* The thread returns from the handler, whoever still waits for it.
ThreadEnds(r) ==
    /\ r \in threads
    /\ threads' = threads \ {r}
    /\ UNCHANGED <<stage, answer, created, store, borrowers, queue, overdue, lost>>

\* A response that is sent without looking at the clock.
RespondUnchecked(r, late) ==
    /\ Answer(r, "served")
    /\ overdue' = IF late THEN overdue \union {r} ELSE overdue

\* The response exists; the clock is read before it is returned, because a handler that
\* blocked its loop has passed no await where the deadline could have reached it.
Respond(r, late) ==
    /\ Answer(r, IF late THEN "timeout" ELSE "served")
    /\ overdue' = IF late THEN overdue \union {r} ELSE overdue

HandlerReturns(r) ==
    /\ stage[r] = "handler"
    /\ \E late \in BOOLEAN : Respond(r, late)
    /\ UNCHANGED <<created, store, threadVars, lost>>

\* The request hears from its thread, and gives its token back.
HearThread(r) ==
    /\ stage[r] = "thread" /\ r \notin threads
    /\ borrowers' = borrowers \ {r}
    /\ \/ \E late \in BOOLEAN : Respond(r, late)
       \/ Answer(r, "failed") /\ UNCHANGED overdue
    /\ UNCHANGED <<created, store, queue, threads, lost>>

\* A request whose time ran out hears from its thread at last.
HearOutlived(r) ==
    /\ stage[r] = "outlived" /\ r \notin threads
    /\ borrowers' = borrowers \ {r}
    /\ Answer(r, "timeout")
    /\ UNCHANGED <<created, store, queue, threads, overdue, lost>>

-----------------------------------------------------------------------------
(* Time, and whoever cancels.                                                *)

\* A wait for a token that no deadline reaches.
DeadlineSparesTheQueue(r) ==
    /\ stage[r] \in Stages \ {"new", "queued", "outlived", "answered"}
    /\ overdue' = overdue \union {r}
    /\ IF stage[r] = "thread"
       THEN Go(r, "outlived") /\ UNCHANGED answer
       ELSE Answer(r, "timeout")
    /\ UNCHANGED <<created, store, threadVars, lost>>

\* A deadline that lets go of a handler still running.
DeadlineLetsGo(r) ==
    /\ stage[r] \in Stages \ {"new", "outlived", "answered"}
    /\ overdue' = overdue \union {r}
    /\ Answer(r, "timeout")
    /\ queue' = Remove(queue, r)
    /\ borrowers' = borrowers \ {r}
    /\ UNCHANGED <<created, store, threads, lost>>

\* The deadline reaches the request where it waits.  One that waits for a thread goes
\* on waiting, and keeps its token.
Deadline(r) ==
    /\ stage[r] \in Stages \ {"new", "outlived", "answered"}
    /\ overdue' = overdue \union {r}
    /\ IF stage[r] = "thread"
       THEN Go(r, "outlived") /\ UNCHANGED answer
       ELSE Answer(r, "timeout")
    /\ queue' = Remove(queue, r)
    /\ UNCHANGED <<created, store, borrowers, threads, lost>>

\* Task.cancel() reaches the request at once, and lets go of a handler that is running.
NativeCancel(r) ==
    /\ NativeCancels
    /\ stage[r] \in Stages \ {"new", "answered"}
    /\ Answer(r, "cancelled")
    /\ queue' = Remove(queue, r)
    /\ borrowers' = borrowers \ {r}
    /\ UNCHANGED <<created, store, threads, overdue, lost>>

-----------------------------------------------------------------------------
Init ==
    /\ stage = [r \in Requests |-> "new"]
    /\ answer = [r \in Requests |-> None]
    /\ created = [r \in Requests |-> None]
    /\ store = <<>>
    /\ borrowers = {} /\ queue = <<>> /\ threads = {}
    /\ overdue = {} /\ lost = {}

Next ==
    \E r \in Requests :
        \/ Arrive(r) \/ Find(r) \/ Built(r) \/ Admit(r) \/ Reject(r) \/ Fail(r)
        \/ Call(r) \/ TakeToken(r) \/ ThreadEnds(r)
        \/ HandlerReturns(r) \/ HearThread(r) \/ HearOutlived(r)
        \/ Deadline(r) \/ NativeCancel(r)

Spec == Init /\ [][Next]_vars

\* Timers fire and the loop hears from its threads.  No guard, constructor or handler
\* is obliged to end.
FairSpec ==
    /\ Spec
    /\ \A r \in Requests :
          WF_vars(Deadline(r)) /\ WF_vars(HearThread(r)) /\ WF_vars(HearOutlived(r))

-----------------------------------------------------------------------------
(* Properties.                                                               *)

Entries == [partition : Partitions, by : Requests]

\* The state is what its variables' comments say it is.
TypeOK ==
    /\ stage \in [Requests -> Stages]
    /\ answer \in [Requests -> Answers \union {None}]
    /\ \A r \in DOMAIN created : created[r] = None \/ created[r] \subseteq Partitions
    /\ DOMAIN created = Requests
    /\ store \in Seq(Entries) /\ Len(store) <= StoreLimit
    /\ borrowers \subseteq Requests /\ threads \subseteq Requests
    /\ overdue \subseteq Requests /\ lost \subseteq Requests
    /\ queue \in Seq(Requests)

\* However requests of one partition build, wait and are decided in turn, the store has
\* one instance of it, and a refused request has left it none of its own.
RefusedLeavesNothing ==
    /\ \A i, j \in 1..Len(store) : store[i].partition = store[j].partition => i = j
    /\ \A e \in ToSet(store) : answer[e.by] # "refused"

\* Somebody's instance is new in a store that was full, and makes the entry unused for
\* longest go.
PushedOut(e) ==
    /\ Len(store) = StoreLimit /\ e = store[1]
    /\ \E r \in Requests :
          /\ stage[r] = "building" /\ ~Keeps(PartitionOf[r])
          /\ [partition |-> PartitionOf[r], by |-> r] \in ToSet(store')

\* A request refused before its guards admitted it drops what it cached; or, that having
\* left the store, what somebody else has cached in its place.
Undone(e) ==
    \E r \in Requests :
        /\ stage[r] = "deciding" /\ answer'[r] = "refused"
        /\ e.partition = PartitionOf[r] /\ (e.by = r \/ r \in lost)

\* Nothing leaves the store but for room or by a refusal, and a refusal that has its own
\* instance to drop drops no other: what an admitted request has cached is not undone when
\* it is rejected later, nor when a request that came upon it is refused
\* (_evict_durable_partitions).
OnlyTheRefusedAreUndone ==
    /\ []RefusedLeavesNothing
    /\ [][\A e \in ToSet(store) \ ToSet(store') : PushedOut(e) \/ Undone(e)]_vars

\* A handler occupies a thread under a token of the request it answers, whatever the
\* clock says, unless its server cancelled the request.
TokensCoverThreads ==
    /\ \A r \in Requests : r \in borrowers <=> stage[r] \in {"thread", "outlived"}
    /\ \A r \in threads : r \in borrowers \/ answer[r] = "cancelled"
    /\ Cardinality(borrowers) <= Threads

\* Nobody is served after their time, not even by a handler that never let go of the loop.
ServedInTime == \A r \in overdue : answer[r] # "served"

\* However many handlers hang, a request that arrived is answered, or is one of those
\* whose handler occupies a thread.
EveryRequestIsAnswered ==
    \A r \in Requests : stage[r] # "new" ~> stage[r] = "answered" \/ r \in threads

\* A refusal drops what the refused request cached and nothing else, whatever has
\* left the store since.
RefusalDropsItsOwn ==
    [][\A r \in Requests, e \in ToSet(store) \ ToSet(store') :
          answer[r] = None /\ answer'[r] = "refused" => e.by = r]_vars
=============================================================================
