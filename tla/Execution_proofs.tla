--------------------------- MODULE Execution_proofs ---------------------------
(***************************************************************************)
(* Theorems about the execution of requests: about RequestExecution, for   *)
(* any requests, partitions, number of threads and size of the store,      *)
(* cancelled natively or not; and about RequestPath, for any routes,       *)
(* middlewares, exception types, calls of next and binding of parameters.  *)
(***************************************************************************)
EXTENDS RequestExecution, RequestPath, FiniteSetTheorems, SequenceTheorems, WellFoundedInduction, TLAPS

-----------------------------------------------------------------------------
(* Several requests at once: the inductive invariant.                        *)

StateOK ==
    /\ stage \in [Requests -> Stages]
    /\ answer \in [Requests -> Answers \union {None}]
    /\ borrowers \subseteq Requests /\ threads \subseteq Requests
    /\ overdue \subseteq Requests

\* A token belongs to a request that is with its thread.
TokensOK ==
    \A r \in Requests : r \in borrowers <=> stage[r] \in {"thread", "outlived"}

\* A thread has a request that waits for it, or one that was cancelled for good.
ThreadsOK ==
    \A r \in threads :
        \/ stage[r] \in {"thread", "outlived"}
        \/ stage[r] = "answered" /\ answer[r] = "cancelled"

\* A request whose time ran out is past every step that could serve it.
OverdueOK ==
    \A r \in overdue :
        stage[r] \in {"outlived", "answered"} /\ answer[r] # "served"

\* Nobody has an answer before they are answered.
AnswersOK == \A r \in Requests : answer[r] \in Answers => stage[r] = "answered"

Capacity == Cardinality(borrowers) <= Threads

IInv == StateOK /\ TokensOK /\ ThreadsOK /\ OverdueOK /\ AnswersOK /\ Capacity

-----------------------------------------------------------------------------
(* The steps.                                                                *)

\* The steps that leave tokens and threads alone, and where the request goes.
LEMMA OffThread ==
  ASSUME IInv, NEW r \in Requests,
         Arrive(r) \/ Find(r) \/ Built(r) \/ Admit(r) \/ Reject(r) \/ Fail(r)
  PROVE  /\ UNCHANGED <<borrowers, threads, overdue>>
         /\ stage[r] \notin {"queued", "thread", "outlived", "answered"}
         /\ \E to \in Stages \ {"queued", "thread", "outlived"} : Go(r, to)
         /\ answer' \in [Requests -> Answers \union {None}]
         /\ answer'[r] \in Answers => stage'[r] = "answered"
         /\ \A q \in Requests \ {r} : answer'[q] = answer[q]
  <1>1. CASE Arrive(r)
    BY <1>1 DEF IInv, StateOK, AnswersOK, Arrive, Go, Stages, threadVars
  <1>2. CASE Find(r)
    BY <1>2 DEF IInv, StateOK, AnswersOK, Find, Found, Go, Stages, threadVars
  <1>3. CASE Built(r)
    BY <1>3 DEF IInv, StateOK, AnswersOK, Built, Found, Go, Stages, threadVars
  <1>4. CASE Admit(r)
    BY <1>4 DEF IInv, StateOK, AnswersOK, Admit, Go, Stages, threadVars
  <1>5. CASE Reject(r)
    BY <1>5 DEF IInv, StateOK, Reject, Answer, Go, Stages, Answers, threadVars
  <1>6. CASE Fail(r)
    BY <1>6 DEF IInv, StateOK, Fail, Answer, Go, Stages, Answers, threadVars
  <1>7. QED
    BY <1>1, <1>2, <1>3, <1>4, <1>5, <1>6

LEMMA OffThreadKeeps ==
  ASSUME IInv, NEW r \in Requests,
         Arrive(r) \/ Find(r) \/ Built(r) \/ Admit(r) \/ Reject(r) \/ Fail(r)
  PROVE  IInv'
  <1>1. PICK to \in Stages \ {"queued", "thread", "outlived"} : Go(r, to)
    BY OffThread
  <1>2. /\ UNCHANGED <<borrowers, threads, overdue>>
        /\ stage[r] \notin {"queued", "thread", "outlived", "answered"}
        /\ answer' \in [Requests -> Answers \union {None}]
        /\ answer'[r] \in Answers => stage'[r] = "answered"
        /\ \A q \in Requests \ {r} : answer'[q] = answer[q]
    BY OffThread
  <1>3. stage' = [stage EXCEPT ![r] = to] /\ StateOK'
    BY <1>1, <1>2 DEF IInv, StateOK, Go
  <1>4. r \notin borrowers /\ r \notin threads /\ r \notin overdue
    BY <1>2 DEF IInv, TokensOK, ThreadsOK, OverdueOK
  <1>5. TokensOK'
    BY <1>1, <1>2, <1>3, <1>4 DEF IInv, StateOK, TokensOK
  <1>6. ThreadsOK' /\ OverdueOK' /\ AnswersOK'
    BY <1>2, <1>3, <1>4 DEF IInv, StateOK, ThreadsOK, OverdueOK, AnswersOK
  <1>7. QED
    BY <1>2, <1>3, <1>5, <1>6 DEF IInv, Capacity

\* A request that takes a token was without one, and one was free.
LEMMA TokenTaken ==
  ASSUME IInv, NEW r \in Requests, TokenFree, stage[r] \in {"calling", "queued"},
         Go(r, "thread"), borrowers' = borrowers \union {r}, threads' = threads \union {r},
         UNCHANGED <<answer, overdue>>
  PROVE  IInv'
  <1>1. stage' = [stage EXCEPT ![r] = "thread"] /\ StateOK'
    BY DEF IInv, StateOK, Go, Stages
  <1>2. r \notin overdue
    BY DEF IInv, OverdueOK
  <1>3. TokensOK' /\ ThreadsOK' /\ OverdueOK' /\ AnswersOK'
    BY <1>1, <1>2 DEF IInv, StateOK, TokensOK, ThreadsOK, OverdueOK, AnswersOK
  <1>4. IsFiniteSet(borrowers) /\ Cardinality(borrowers) \in Nat
    BY RequestsAssumption, FS_Subset, FS_CardinalityType DEF IInv, StateOK
  <1>5. Cardinality(borrowers') <= Cardinality(borrowers) + 1
    BY <1>4, FS_AddElement
  <1>6. Capacity'
    BY <1>4, <1>5, RequestsAssumption, FS_AddElement, FS_CardinalityType
       DEF TokenFree, Capacity
  <1>7. QED
    BY <1>1, <1>3, <1>6 DEF IInv

\* Giving a token back, or keeping the tokens as they are, exceeds nothing.
LEMMA CapacityKept ==
  ASSUME IInv, borrowers' \subseteq borrowers
  PROVE  Capacity'
  <1>1. IsFiniteSet(borrowers)
    BY RequestsAssumption, FS_Subset DEF IInv, StateOK
  <1>2. /\ Cardinality(borrowers') <= Cardinality(borrowers)
        /\ Cardinality(borrowers') \in Nat /\ Cardinality(borrowers) \in Nat
    BY <1>1, FS_Subset, FS_CardinalityType
  <1>3. QED
    BY <1>2, RequestsAssumption DEF IInv, Capacity

LEMMA CallKeeps ==
  ASSUME IInv, NEW r \in Requests, Call(r)
  PROVE  IInv'
  <1>1. CASE r \in Sync /\ TokenFree /\ queue = <<>>
    BY <1>1, TokenTaken DEF Call
  <1>2. CASE ~(r \in Sync /\ TokenFree /\ queue = <<>>)
    <2>1. /\ stage[r] = "calling"
          /\ UNCHANGED <<answer, overdue, borrowers, threads>>
          /\ \E to \in {"handler", "queued"} : stage' = [stage EXCEPT ![r] = to]
      BY <1>2 DEF Call, Go, threadVars
    <2>2. StateOK'
      BY <2>1 DEF IInv, StateOK, Stages
    <2>3. TokensOK' /\ ThreadsOK' /\ OverdueOK' /\ AnswersOK'
      BY <2>1 DEF IInv, StateOK, TokensOK, ThreadsOK, OverdueOK, AnswersOK
    <2>4. QED
      BY <2>1, <2>2, <2>3 DEF IInv, Capacity
  <1>3. QED
    BY <1>1, <1>2

LEMMA ThreadEndsKeeps ==
  ASSUME IInv, NEW r \in Requests, ThreadEnds(r)
  PROVE  IInv'
  BY DEF IInv, ThreadEnds, StateOK, TokensOK, ThreadsOK, OverdueOK,
          AnswersOK, Capacity

\* The steps that answer a request: it has no token afterwards, and a thread only if it
\* was cancelled.
LEMMA AnswerKeeps ==
  ASSUME IInv, NEW r \in Requests, NEW with \in Answers, Answer(r, with),
         stage[r] # "answered",
         threads' = threads, r \in threads => with = "cancelled",
         borrowers' = borrowers \ {r},
         overdue' = overdue \/ overdue' = overdue \union {r},
         r \in overdue' => with # "served"
  PROVE  IInv'
  <1>1. /\ stage' = [stage EXCEPT ![r] = "answered"]
        /\ answer' = [answer EXCEPT ![r] = with]
    BY DEF Answer, Go
  <1>2. StateOK'
    BY <1>1 DEF IInv, StateOK, Stages
  <1>3. TokensOK' /\ ThreadsOK'
    BY <1>1 DEF IInv, StateOK, TokensOK, ThreadsOK
  <1>4. OverdueOK' /\ AnswersOK'
    BY <1>1 DEF IInv, StateOK, OverdueOK, AnswersOK
  <1>5. QED
    BY <1>2, <1>3, <1>4, CapacityKept DEF IInv

LEMMA ReturnKeeps ==
  ASSUME IInv, NEW r \in Requests, HandlerReturns(r) \/ HearThread(r) \/ HearOutlived(r)
  PROVE  IInv'
  <1>1. CASE HandlerReturns(r)
    <2>1. PICK late \in BOOLEAN : Respond(r, late)
      BY <1>1 DEF HandlerReturns
    <2>2. stage[r] = "handler" /\ r \notin borrowers /\ r \notin threads /\ r \notin overdue
      BY <1>1 DEF HandlerReturns, IInv, TokensOK, ThreadsOK, OverdueOK
    <2>3. UNCHANGED <<borrowers, threads>> /\ borrowers' = borrowers \ {r}
      BY <1>1, <2>2 DEF HandlerReturns, threadVars
    <2>4. CASE late
      BY <2>1, <2>2, <2>3, <2>4, AnswerKeeps DEF Respond, Answers
    <2>5. CASE ~late
      BY <2>1, <2>2, <2>3, <2>5, AnswerKeeps DEF Respond, Answers
    <2>6. QED
      BY <2>4, <2>5
  <1>2. CASE HearThread(r)
    <2>1. /\ stage[r] = "thread" /\ r \notin threads /\ r \notin overdue
          /\ borrowers' = borrowers \ {r} /\ threads' = threads
      BY <1>2 DEF HearThread, IInv, OverdueOK
    <2>2. CASE \E late \in BOOLEAN : Respond(r, late)
      <3>1. PICK late \in BOOLEAN : Respond(r, late)
        BY <2>2
      <3>2. CASE late
        BY <2>1, <3>1, <3>2, AnswerKeeps DEF Respond, Answers
      <3>3. CASE ~late
        BY <2>1, <3>1, <3>3, AnswerKeeps DEF Respond, Answers
      <3>4. QED
        BY <3>2, <3>3
    <2>3. CASE Answer(r, "failed") /\ UNCHANGED overdue
      BY <2>1, <2>3, AnswerKeeps DEF Answers
    <2>4. QED
      BY <1>2, <2>2, <2>3 DEF HearThread
  <1>3. CASE HearOutlived(r)
    BY <1>3, AnswerKeeps DEF HearOutlived, Answers
  <1>4. QED
    BY <1>1, <1>2, <1>3

LEMMA DeadlineKeeps ==
  ASSUME IInv, NEW r \in Requests, Deadline(r)
  PROVE  IInv'
  <1>1. CASE stage[r] = "thread"
    <2>1. /\ stage' = [stage EXCEPT ![r] = "outlived"]
          /\ overdue' = overdue \union {r}
          /\ UNCHANGED <<answer, borrowers, threads>>
      BY <1>1 DEF Deadline, Go
    <2>2. StateOK'
      BY <2>1 DEF IInv, StateOK, Stages
    <2>3. answer[r] \notin Answers
      BY <1>1 DEF IInv, AnswersOK
    <2>4. TokensOK' /\ ThreadsOK' /\ AnswersOK'
      BY <1>1, <2>1, <2>3 DEF IInv, StateOK, TokensOK, ThreadsOK, AnswersOK
    <2>5. OverdueOK'
      BY <2>1, <2>3 DEF IInv, StateOK, OverdueOK, Answers
    <2>6. QED
      BY <2>1, <2>2, <2>4, <2>5 DEF IInv, Capacity
  <1>2. CASE stage[r] # "thread"
    <2>1. r \notin borrowers /\ r \notin threads /\ stage[r] # "answered"
      BY <1>2 DEF Deadline, IInv, TokensOK, ThreadsOK
    <2>2. /\ Answer(r, "timeout") /\ overdue' = overdue \union {r}
          /\ threads' = threads /\ borrowers' = borrowers \ {r}
      BY <1>2, <2>1 DEF Deadline
    <2>3. QED
      BY <2>1, <2>2, AnswerKeeps DEF Answers
  <1>3. QED
    BY <1>1, <1>2

LEMMA NativeCancelKeeps ==
  ASSUME IInv, NEW r \in Requests, NativeCancel(r)
  PROVE  IInv'
  BY AnswerKeeps DEF NativeCancel, Answers

LEMMA Invariance == Spec => []IInv
  <1>1. Init => IInv
    <2>1. SUFFICES ASSUME Init PROVE IInv
      OBVIOUS
    <2>2. Cardinality(borrowers) <= Threads
      BY <2>1, FS_EmptySet, RequestsAssumption DEF Init
    <2>3. QED
      BY <2>1, <2>2, RequestsAssumption
         DEF Init, IInv, StateOK, Stages, TokensOK, ThreadsOK, OverdueOK, AnswersOK, Capacity
  <1>2. IInv /\ [Next]_vars => IInv'
    <2>1. SUFFICES ASSUME IInv, [Next]_vars PROVE IInv'
      OBVIOUS
    <2>2. CASE UNCHANGED vars
      BY <2>1, <2>2
         DEF vars, threadVars, IInv, StateOK, TokensOK, ThreadsOK, OverdueOK, AnswersOK, Capacity
    <2>3. ASSUME NEW r \in Requests,
                 Arrive(r) \/ Find(r) \/ Built(r) \/ Admit(r) \/ Reject(r) \/ Fail(r)
          PROVE  IInv'
      BY <2>1, <2>3, OffThreadKeeps
    <2>4. ASSUME NEW r \in Requests, TakeToken(r)
          PROVE  IInv'
      BY <2>1, <2>4, TokenTaken DEF TakeToken
    <2>5. ASSUME NEW r \in Requests,
                 \/ Call(r) \/ ThreadEnds(r) \/ HandlerReturns(r) \/ HearThread(r)
                 \/ HearOutlived(r) \/ Deadline(r) \/ NativeCancel(r)
          PROVE  IInv'
      BY <2>1, <2>5, CallKeeps, ThreadEndsKeeps, ReturnKeeps, DeadlineKeeps,
         NativeCancelKeeps
    <2>6. QED
      BY <2>1, <2>2, <2>3, <2>4, <2>5 DEF Next
  <1>3. QED
    BY <1>1, <1>2, PTL DEF Spec

-----------------------------------------------------------------------------
(* What the invariant gives.                                                 *)

\* Every handler that occupies a thread does so under a token of the request it answers,
\* or that request was cancelled natively, and never more tokens are out than there are:
\* _call_handler gives the token back when it has heard from the thread.
THEOREM TokensHeldWhileRunning == Spec => []TokensCoverThreads
  <1>1. IInv => TokensCoverThreads
    BY DEF IInv, StateOK, TokensOK, ThreadsOK, Capacity, TokensCoverThreads
  <1>2. QED
    BY <1>1, Invariance, PTL

\* A request whose deadline passed is never served: the scope of execute_http_route ends
\* it at an await, or the clock is read once its response exists.
THEOREM DeadlineIsKept == Spec => []ServedInTime
  <1>1. IInv => ServedInTime
    BY DEF IInv, OverdueOK, ServedInTime
  <1>2. QED
    BY <1>1, Invariance, PTL

-----------------------------------------------------------------------------
(* Several requests at once: what the store keeps.                           *)

\* No two entries are of one partition.
Apart(s) == \A i, j \in 1..Len(s) : s[i].partition = s[j].partition => i = j

\* Whoever built an entry has arrived and was not refused, and remembers the partition for
\* as long as it can be.
Earned(e) ==
    /\ e.partition = PartitionOf[e.by]
    /\ stage[e.by] # "new" /\ answer[e.by] # "refused"
    /\ created[e.by] # None => e.partition \in created[e.by]

StoreOK == store \in Seq(Entries) /\ Apart(store) /\ \A n \in 1..Len(store) : Earned(store[n])

\* A request remembers at most its own partition, and none once it is admitted.
CreatedOK ==
    /\ created \in [Requests -> {None} \union SUBSET Partitions]
    /\ \A r \in Requests :
          /\ created[r] # None => created[r] \subseteq {PartitionOf[r]}
          /\ stage[r] \in {"calling", "handler"} => created[r] = None

UndoInv == StoreOK /\ CreatedOK

\* A sequence without one of its places.
LEMMA RemoveOne ==
  ASSUME NEW S, NEW s \in Seq(S), NEW k \in 1..Len(s)
  PROVE  /\ RemoveAt(s, k) \in Seq(S) /\ Len(RemoveAt(s, k)) = Len(s) - 1
         /\ \A i \in 1..(Len(s) - 1) :
               RemoveAt(s, k)[i] = s[IF i < k THEN i ELSE i + 1]
  <1> DEFINE a == SubSeq(s, 1, k - 1)
             b == SubSeq(s, k + 1, Len(s))
             c == a \o b
  <1>1. Len(s) \in Nat
    OBVIOUS
  <1>2. a \in Seq(S) /\ Len(a) = k - 1 /\ \A i \in 1..(k - 1) : a[i] = s[i]
    OBVIOUS
  <1>3. /\ b \in Seq(S) /\ Len(b) = Len(s) - k
        /\ \A i \in 1..(Len(s) - k) : b[i] = s[k + i]
    OBVIOUS
  <1>4. RemoveAt(s, k) = c
    BY DEF RemoveAt
  <1> HIDE DEF a, b
  <1>5. /\ c \in Seq(S) /\ Len(c) = Len(a) + Len(b)
        /\ \A i \in 1..(Len(a) + Len(b)) : c[i] = IF i <= Len(a) THEN a[i] ELSE b[i - Len(a)]
    BY <1>2, <1>3, ConcatProperties
  <1> HIDE DEF c
  <1>6. Len(a) = k - 1 /\ Len(a) + Len(b) = Len(s) - 1
    BY <1>1, <1>2, <1>3
  <1>7. \A i \in 1..(Len(s) - 1) : c[i] = IF i <= k - 1 THEN a[i] ELSE b[i - (k - 1)]
    BY <1>5, <1>6, Zenon
  <1>8. ASSUME NEW i \in 1..(Len(s) - 1)
        PROVE  c[i] = s[IF i < k THEN i ELSE i + 1]
    <2>1. CASE i < k
      <3>1. i <= k - 1 /\ i \in 1..(k - 1)
        BY <1>1, <2>1
      <3>2. QED
        BY <1>2, <1>7, <2>1, <3>1
    <2>2. CASE ~(i < k)
      <3>1. i - (k - 1) \in 1..(Len(s) - k) /\ k + (i - (k - 1)) = i + 1 /\ ~(i <= k - 1)
        BY <1>1, <2>2
      <3>2. c[i] = b[i - (k - 1)]
        BY <1>7, <3>1
      <3>3. QED
        BY <1>3, <2>2, <3>1, <3>2
    <2>3. QED
      BY <2>1, <2>2
  <1>9. QED
    BY <1>4, <1>5, <1>6, <1>8

\* What is left once a partition's entry is gone: the other entries.
LEMMA WithoutProperties ==
  ASSUME StoreOK, NEW p
  PROVE  /\ Without(p) \in Seq(Entries) /\ Apart(Without(p))
         /\ \A i \in 1..Len(Without(p)) :
               /\ Without(p)[i].partition # p
               /\ \E n \in 1..Len(store) : Without(p)[i] = store[n]
  <1>1. /\ store \in Seq(Entries) /\ Len(store) \in Nat /\ DOMAIN store = 1..Len(store)
        /\ Apart(store)
    BY DEF StoreOK
  <1>2. CASE ~Keeps(p)
    BY <1>1, <1>2 DEF Keeps, Places, Without
  <1>3. CASE Keeps(p)
    <2>1. PlaceOf(p) \in 1..Len(store) /\ store[PlaceOf(p)].partition = p
      BY <1>1, <1>3 DEF Keeps, Places, PlaceOf
    <2>2. PICK k \in 1..Len(store) : k = PlaceOf(p)
      BY <2>1
    <2>3. PICK t : t = Without(p)
      OBVIOUS
    <2>4. /\ t \in Seq(Entries) /\ Len(t) = Len(store) - 1
          /\ \A i \in 1..(Len(store) - 1) : t[i] = store[IF i < k THEN i ELSE i + 1]
      BY <1>1, <1>3, <2>2, <2>3, RemoveOne DEF Without
    <2>5. ASSUME NEW i \in 1..Len(t)
          PROVE  \E n \in 1..Len(store) \ {k} : t[i] = store[n] /\ n = IF i < k THEN i ELSE i + 1
      BY <1>1, <2>4
    <2>6. \A i \in 1..Len(t) : t[i].partition # p
      BY <1>1, <2>1, <2>2, <2>5 DEF Apart
    <2>7. ASSUME NEW i \in 1..Len(t), NEW j \in 1..Len(t), t[i].partition = t[j].partition
          PROVE  i = j
      <3>1. PICK m \in 1..Len(store) : t[i] = store[m] /\ m = IF i < k THEN i ELSE i + 1
        BY <2>5
      <3>2. PICK n \in 1..Len(store) : t[j] = store[n] /\ n = IF j < k THEN j ELSE j + 1
        BY <2>5
      <3>3. m = n
        BY <1>1, <2>7, <3>1, <3>2 DEF Apart
      <3>4. i \in Nat /\ j \in Nat /\ k \in Nat
        BY <2>4
      <3>5. QED
        BY <3>1, <3>2, <3>3, <3>4
    <2>8. QED
      BY <2>3, <2>4, <2>5, <2>6, <2>7 DEF Apart
  <1>4. QED
    BY <1>2, <1>3

\* Another entry at the end, of a partition that has none.
LEMMA AppendApart ==
  ASSUME NEW s \in Seq(Entries), Apart(s), NEW e \in Entries,
         \A i \in 1..Len(s) : s[i].partition # e.partition
  PROVE  /\ Append(s, e) \in Seq(Entries) /\ Apart(Append(s, e))
         /\ \A i \in 1..Len(Append(s, e)) : Append(s, e)[i] = e \/ \E n \in 1..Len(s) : Append(s, e)[i] = s[n]
  <1>1. PICK t : t = Append(s, e)
    OBVIOUS
  <1>2. /\ t \in Seq(Entries) /\ Len(s) \in Nat /\ Len(t) = Len(s) + 1
        /\ t[Len(s) + 1] = e /\ \A i \in 1..Len(s) : t[i] = s[i]
    BY <1>1
  <1>3. \A i \in 1..Len(t) : i \in 1..Len(s) \/ i = Len(s) + 1
    BY <1>2
  <1>4. QED
    BY <1>1, <1>2, <1>3 DEF Apart

\* And without the first.
LEMMA TailApart ==
  ASSUME NEW s \in Seq(Entries), Apart(s), s # <<>>
  PROVE  /\ Tail(s) \in Seq(Entries) /\ Apart(Tail(s))
         /\ \A i \in 1..Len(Tail(s)) : \E n \in 1..Len(s) : Tail(s)[i] = s[n]
  <1>1. PICK t : t = Tail(s)
    OBVIOUS
  <1>2. /\ t \in Seq(Entries) /\ Len(s) \in Nat /\ Len(t) = Len(s) - 1
        /\ \A i \in 1..Len(t) : i + 1 \in 1..Len(s) /\ t[i] = s[i + 1]
    BY <1>1
  <1>3. \A i, j \in 1..Len(t) : i + 1 = j + 1 => i = j
    BY <1>2
  <1>4. QED
    BY <1>1, <1>2, <1>3 DEF Apart

\* A read of a partition that is kept moves its entry to the end.
LEMMA ReadKeepsStore ==
  ASSUME StoreOK, NEW p, Keeps(p)
  PROVE  /\ Touched(p) \in Seq(Entries) /\ Apart(Touched(p))
         /\ \A i \in 1..Len(Touched(p)) : \E n \in 1..Len(store) : Touched(p)[i] = store[n]
  <1>1. DOMAIN store = 1..Len(store) /\ store \in Seq(Entries)
    BY DEF StoreOK
  <1>2. PICK k \in 1..Len(store) : k = PlaceOf(p) /\ store[k].partition = p
    BY <1>1 DEF Keeps, Places, PlaceOf
  <1>3. store[k] \in Entries
    BY <1>1
  <1>4. PICK s : s = Without(p)
    OBVIOUS
  <1>5. /\ s \in Seq(Entries) /\ Apart(s)
        /\ \A i \in 1..Len(s) :
              s[i].partition # p /\ \E n \in 1..Len(store) : s[i] = store[n]
    BY <1>4, WithoutProperties
  <1>6. \A i \in 1..Len(s) : s[i].partition # store[k].partition
    BY <1>2, <1>5
  <1> DEFINE t == Append(s, store[k])
  <1>7. /\ t \in Seq(Entries) /\ Apart(t)
        /\ \A i \in 1..Len(t) : t[i] = store[k] \/ \E n \in 1..Len(s) : t[i] = s[n]
    BY <1>3, <1>5, <1>6, AppendApart, Zenon
  <1> HIDE DEF t
  <1>8. Touched(p) = t
    BY <1>2, <1>4 DEF Touched, t
  <1>9. QED
    BY <1>5, <1>7, <1>8

\* A write puts one entry at the end, in place of its partition's or of the oldest.
LEMMA WriteKeepsStore ==
  ASSUME StoreOK, NEW r \in Requests
  PROVE  /\ Stored(r) \in Seq(Entries) /\ Apart(Stored(r))
         /\ \A i \in 1..Len(Stored(r)) :
               \/ Stored(r)[i] = [partition |-> PartitionOf[r], by |-> r]
               \/ \E n \in 1..Len(store) : Stored(r)[i] = store[n]
  <1> DEFINE e == [partition |-> PartitionOf[r], by |-> r]
             s == Without(PartitionOf[r])
             t == Append(s, e)
  <1>1. e \in Entries /\ e.partition = PartitionOf[r]
    BY RequestsAssumption DEF Entries
  <1>2. /\ s \in Seq(Entries) /\ Apart(s)
        /\ \A i \in 1..Len(s) :
              s[i].partition # PartitionOf[r] /\ \E n \in 1..Len(store) : s[i] = store[n]
    BY WithoutProperties
  <1> HIDE DEF e, s
  <1>3. /\ t \in Seq(Entries) /\ Apart(t) /\ t # <<>>
        /\ \A i \in 1..Len(t) : t[i] = e \/ \E n \in 1..Len(s) : t[i] = s[n]
    <2>1. \A i \in 1..Len(s) : s[i].partition # e.partition
      BY <1>1, <1>2
    <2>2. t # <<>>
      <3>1. s \in Seq(Entries) /\ e \in Entries
        BY <1>1, <1>2
      <3>2. Len(s) \in Nat /\ Len(t) = Len(s) + 1
        BY <3>1
      <3>3. QED
        BY <3>2
    <2>3. QED
      BY <1>1, <1>2, <2>1, <2>2, AppendApart, Zenon
  <1> HIDE DEF t
  <1>4. /\ Tail(t) \in Seq(Entries) /\ Apart(Tail(t))
        /\ \A i \in 1..Len(Tail(t)) : \E n \in 1..Len(t) : Tail(t)[i] = t[n]
    BY <1>3, TailApart
  <1>5. Stored(r) \in {t, Tail(t)}
    BY DEF Stored, e, s, t
  <1>6. \A i \in 1..Len(t) : t[i] = e \/ \E n \in 1..Len(store) : t[i] = store[n]
    BY <1>2, <1>3
  <1>7. \A i \in 1..Len(Tail(t)) : Tail(t)[i] = e \/ \E n \in 1..Len(store) : Tail(t)[i] = store[n]
    BY <1>4, <1>6
  <1>8. QED
    <2>1. CASE Stored(r) = t
      BY <1>3, <1>6, <2>1 DEF e
    <2>2. CASE Stored(r) = Tail(t)
      <3>1. PICK u : u = Tail(t)
        OBVIOUS
      <3>2. Stored(r) = u /\ u \in Seq(Entries) /\ Apart(u)
            /\ \A i \in 1..Len(u) : u[i] = e \/ \E n \in 1..Len(store) : u[i] = store[n]
        BY <1>4, <1>7, <2>2, <3>1
      <3>3. QED
        BY <3>2 DEF e
    <2>3. QED
      BY <1>5, <2>1, <2>2

\* Where the next store is apart and whoever built an entry of it has earned it.
LEMMA StoreFrom ==
  ASSUME store' \in Seq(Entries), Apart(store'),
         \A e \in Entries : (\E i \in 1..Len(store') : e = store'[i]) => Earned(e)'
  PROVE  StoreOK'
  <1>1. ASSUME NEW i \in 1..Len(store')
        PROVE  Earned(store[i])'
    <2>1. PICK e : e = store'[i]
      OBVIOUS
    <2>2. e \in Entries /\ Earned(e)'
      BY <2>1
    <2>3. QED
      BY <2>1, <2>2 DEF Earned
  <1>2. QED
    BY <1>1 DEF StoreOK, Apart

\* Whoever has earned an entry has still earned it where the request that steps is another,
\* or neither forgets nor is refused.
LEMMA StaysEarned ==
  ASSUME NEW e, Earned(e), NEW r \in Requests,
         \A q \in Requests : q # r =>
            stage'[q] = stage[q] /\ answer'[q] = answer[q] /\ created'[q] = created[q],
         e.by \in Requests,
         e.by = r => /\ stage'[r] # "new" /\ answer'[r] # "refused"
                     /\ created'[r] # None => e.partition \in created'[r]
  PROVE  Earned(e)'
  BY DEF Earned

\* The steps that build nothing and refuse nobody: the request may forget, once it has
\* arrived, and arrives having cached nothing.
LEMMA OthersUndoNothing ==
  ASSUME IInv, UndoInv, NEW r \in Requests, NEW to \in Stages \ {"new"}, Go(r, to),
         UNCHANGED store \/ (Keeps(PartitionOf[r]) /\ store' = Touched(PartitionOf[r])),
         \/ UNCHANGED created
         \/ created' = [created EXCEPT ![r] = None]
         \/ stage[r] = "new" /\ created' = [created EXCEPT ![r] = {}],
         to \in {"calling", "handler"} => created'[r] = None,
         \/ UNCHANGED answer
         \/ \E with \in Answers \ {"refused"} : answer' = [answer EXCEPT ![r] = with]
  PROVE  UndoInv'
  <1>1. /\ stage \in [Requests -> Stages] /\ stage' = [stage EXCEPT ![r] = to]
        /\ answer \in [Requests -> Answers \union {None}]
        /\ created \in [Requests -> {None} \union SUBSET Partitions]
    BY DEF IInv, StateOK, UndoInv, CreatedOK, Go
  <1>2. CreatedOK'
    BY <1>1 DEF UndoInv, CreatedOK
  <1>3. /\ store' \in Seq(Entries) /\ Apart(store')
        /\ \A i \in 1..Len(store') : \E n \in 1..Len(store) : store'[i] = store[n]
    <2>1. CASE UNCHANGED store
      BY <2>1 DEF UndoInv, StoreOK
    <2>2. CASE Keeps(PartitionOf[r]) /\ store' = Touched(PartitionOf[r])
      <3>1. PICK t : t = Touched(PartitionOf[r])
        OBVIOUS
      <3>2. /\ t \in Seq(Entries) /\ Apart(t)
            /\ \A i \in 1..Len(t) : \E n \in 1..Len(store) : t[i] = store[n]
        BY <2>2, <3>1, ReadKeepsStore DEF UndoInv
      <3>3. QED
        BY <2>2, <3>1, <3>2
    <2>3. QED
      BY <2>1, <2>2
  <1>4. ASSUME NEW e \in Entries, \E n \in 1..Len(store) : e = store[n]
        PROVE  Earned(e)'
    <2>1. e.by \in Requests /\ Earned(e)
      BY <1>4 DEF Entries, UndoInv, StoreOK
    <2>2. \A q \in Requests : q # r =>
             stage'[q] = stage[q] /\ answer'[q] = answer[q] /\ created'[q] = created[q]
      BY <1>1
    <2>3. ASSUME e.by = r
          PROVE  /\ stage'[r] # "new" /\ answer'[r] # "refused"
                 /\ created'[r] # None => e.partition \in created'[r]
      <3>1. /\ stage[r] # "new" /\ answer[r] # "refused"
            /\ created[r] # None => e.partition \in created[r]
        BY <2>1, <2>3 DEF Earned
      <3>2. QED
        BY <1>1, <3>1 DEF Stages
    <2>4. QED
      BY <2>1, <2>2, <2>3, StaysEarned
  <1>5. \A e \in Entries : (\E i \in 1..Len(store') : e = store'[i]) => Earned(e)'
    BY <1>3, <1>4
  <1>6. QED
    BY <1>2, <1>3, <1>5, StoreFrom DEF UndoInv

LEMMA BuiltUndoes ==
  ASSUME IInv, UndoInv, NEW r \in Requests, Built(r)
  PROVE  UndoInv'
  <1> DEFINE new == [partition |-> PartitionOf[r], by |-> r]
  <1>1. /\ stage \in [Requests -> Stages] /\ stage[r] = "building"
        /\ \E to \in {"deciding", "calling"} :
              /\ stage' = [stage EXCEPT ![r] = to]
              /\ to = "calling" => created[r] = None
        /\ answer' = answer /\ answer \in [Requests -> Answers \union {None}]
        /\ created \in [Requests -> {None} \union SUBSET Partitions]
        /\ created' = [created EXCEPT ![r] =
                          IF @ = None THEN None ELSE @ \union {PartitionOf[r]}]
        /\ store' = Stored(r)
    BY DEF IInv, StateOK, UndoInv, CreatedOK, Built, Found, Go
  <1>2. PartitionOf[r] \in Partitions /\ \A ps \in SUBSET Partitions : ps # None
    BY RequestsAssumption
  <1>3. CreatedOK'
    <2>1. created' \in [Requests -> {None} \union SUBSET Partitions]
      BY <1>1, <1>2
    <2>2. ASSUME NEW q \in Requests
          PROVE  /\ created'[q] # None => created'[q] \subseteq {PartitionOf[q]}
                 /\ stage'[q] \in {"calling", "handler"} => created'[q] = None
      BY <1>1, <1>2 DEF UndoInv, CreatedOK
    <2>3. QED
      BY <2>1, <2>2 DEF CreatedOK
  <1>4. answer[r] \notin Answers
    BY <1>1 DEF IInv, AnswersOK
  <1>5. ASSUME NEW e \in Entries, \E n \in 1..Len(store) : e = store[n]
        PROVE  Earned(e)'
    <2>1. e.by \in Requests /\ Earned(e)
      BY <1>5 DEF Entries, UndoInv, StoreOK
    <2>2. \A q \in Requests : q # r =>
             stage'[q] = stage[q] /\ answer'[q] = answer[q] /\ created'[q] = created[q]
      BY <1>1
    <2>3. ASSUME e.by = r
          PROVE  /\ stage'[r] # "new" /\ answer'[r] # "refused"
                 /\ created'[r] # None => e.partition \in created'[r]
      <3>1. /\ answer[r] # "refused"
            /\ created[r] # None => e.partition \in created[r]
        BY <2>1, <2>3 DEF Earned
      <3>2. QED
        BY <1>1, <3>1
    <2>4. QED
      BY <2>1, <2>2, <2>3, StaysEarned
  <1>6. new \in Entries /\ Earned(new)'
    <2>1. new \in Entries /\ new.by = r /\ new.partition = PartitionOf[r]
      BY <1>2 DEF Entries
    <2>2. stage'[r] # "new" /\ answer'[r] # "refused"
      BY <1>1, <1>4 DEF Answers
    <2>3. created'[r] # None => PartitionOf[r] \in created'[r]
      BY <1>1
    <2> HIDE DEF new
    <2>4. QED
      BY <2>1, <2>2, <2>3 DEF Earned
  <1>7. PICK t : t = Stored(r)
    OBVIOUS
  <1>8. /\ t \in Seq(Entries) /\ Apart(t)
        /\ \A i \in 1..Len(t) : t[i] = new \/ \E n \in 1..Len(store) : t[i] = store[n]
    BY <1>7, WriteKeepsStore DEF UndoInv
  <1>9. \A i \in 1..Len(t) : t[i] \in Entries
    BY <1>8
  <1>10. \A e \in Entries : (\E i \in 1..Len(t) : e = t[i]) => Earned(e)'
    BY <1>5, <1>6, <1>8
  <1>11. QED
    BY <1>1, <1>3, <1>7, <1>8, <1>10, StoreFrom DEF UndoInv

LEMMA RejectUndoes ==
  ASSUME IInv, UndoInv, NEW r \in Requests, Reject(r)
  PROVE  UndoInv'
  <1>1. CASE created[r] = None
    <2>1. Go(r, "answered") /\ answer' = [answer EXCEPT ![r] = "failed"]
      BY <1>1 DEF Reject, Answer
    <2>2. UNCHANGED store /\ UNCHANGED created
      BY <1>1 DEF Reject
    <2>3. "failed" \in Answers \ {"refused"} /\ "answered" \in Stages \ {"new"}
          /\ "answered" \notin {"calling", "handler"}
      BY DEF Answers, Stages
    <2>4. \E with \in Answers \ {"refused"} : answer' = [answer EXCEPT ![r] = with]
      BY <2>1, <2>3
    <2>5. QED
      BY <2>1, <2>2, <2>3, <2>4, OthersUndoNothing
  <1>2. CASE created[r] # None
    <2>1. /\ stage \in [Requests -> Stages] /\ stage' = [stage EXCEPT ![r] = "answered"]
          /\ answer \in [Requests -> Answers \union {None}]
          /\ answer' = [answer EXCEPT ![r] = "refused"]
          /\ created \in [Requests -> {None} \union SUBSET Partitions] /\ created' = created
          /\ created[r] \subseteq {PartitionOf[r]}
      BY <1>2 DEF IInv, StateOK, UndoInv, CreatedOK, Reject, Answer, Go
    <2>2. CreatedOK'
      BY <2>1 DEF UndoInv, CreatedOK
    <2>3. /\ store' \in Seq(Entries) /\ Apart(store')
          /\ \A i \in 1..Len(store') :
                /\ store'[i].partition \notin created[r]
                /\ \E n \in 1..Len(store) : store'[i] = store[n]
      <3>1. CASE created[r] = {}
        BY <3>1 DEF Reject, UndoInv, StoreOK
      <3>2. CASE created[r] # {}
        <4>1. PICK p \in created[r] : store' = Without(p)
          BY <1>2, <3>2 DEF Reject
        <4>2. created[r] = {p}
          BY <2>1, <4>1
        <4>3. PICK t : t = Without(p)
          OBVIOUS
        <4>4. /\ t \in Seq(Entries) /\ Apart(t)
              /\ \A i \in 1..Len(t) :
                    t[i].partition # p /\ \E n \in 1..Len(store) : t[i] = store[n]
          BY <4>3, WithoutProperties DEF UndoInv
        <4>5. QED
          BY <4>1, <4>2, <4>3, <4>4
      <3>3. QED
        BY <3>1, <3>2
    <2>4. ASSUME NEW e \in Entries, \E n \in 1..Len(store) : e = store[n],
                 e.partition \notin created[r]
          PROVE  Earned(e)'
      <3>1. e.by \in Requests /\ Earned(e)
        BY <2>4 DEF Entries, UndoInv, StoreOK
      <3>2. e.by # r
        BY <1>2, <2>4, <3>1 DEF Earned
      <3>3. \A q \in Requests : q # r =>
               stage'[q] = stage[q] /\ answer'[q] = answer[q] /\ created'[q] = created[q]
        BY <2>1
      <3>4. QED
        BY <3>1, <3>2, <3>3, StaysEarned
    <2>5. \A e \in Entries : (\E i \in 1..Len(store') : e = store'[i]) => Earned(e)'
      BY <2>3, <2>4
    <2>6. QED
      BY <2>2, <2>3, <2>5, StoreFrom DEF UndoInv
  <1>3. QED
    BY <1>1, <1>2

LEMMA UndoStep ==
  ASSUME IInv, UndoInv, [Next]_vars
  PROVE  UndoInv'
  <1>1. CASE UNCHANGED vars
    <2>1. \A e : Earned(e) => Earned(e)'
      BY <1>1 DEF vars, Earned
    <2>2. store' = store /\ CreatedOK'
      BY <1>1 DEF vars, UndoInv, CreatedOK
    <2>3. \A e \in Entries : (\E i \in 1..Len(store') : e = store'[i]) => Earned(e)'
      BY <2>1, <2>2 DEF UndoInv, StoreOK
    <2>4. QED
      BY <2>2, <2>3, StoreFrom DEF UndoInv, StoreOK
  <1>2. ASSUME NEW r \in Requests, Built(r) \/ Reject(r)
        PROVE  UndoInv'
    BY <1>2, BuiltUndoes, RejectUndoes
  <1>3. ASSUME NEW r \in Requests, Arrive(r) \/ Find(r) \/ Admit(r)
        PROVE  UndoInv'
    <2>0. created \in [Requests -> {None} \union SUBSET Partitions] /\ UNCHANGED answer
      BY <1>3 DEF UndoInv, CreatedOK, Arrive, Find, Admit
    <2>1. CASE Arrive(r)
      BY <1>3, <2>0, <2>1, OthersUndoNothing DEF Arrive, Stages
    <2>2. CASE Find(r)
      <3>1. PICK to \in {"building", "deciding", "calling"} : Go(r, to)
        BY <2>2 DEF Find, Found
      <3>2. UNCHANGED created
        BY <2>2 DEF Find
      <3>3. to = "calling" => created'[r] = None
        <4>1. stage \in [Requests -> Stages]
          BY DEF IInv, StateOK
        <4>2. QED
          BY <2>2, <3>1, <3>2, <4>1 DEF Find, Found, Go
      <3>4. UNCHANGED store \/ (Keeps(PartitionOf[r]) /\ store' = Touched(PartitionOf[r]))
        BY <2>2 DEF Find
      <3>5. to \in Stages \ {"new"} /\ to # "handler"
        BY <3>1 DEF Stages
      <3>6. QED
        BY <2>0, <3>1, <3>2, <3>3, <3>4, <3>5, OthersUndoNothing
    <2>3. CASE Admit(r)
      BY <1>3, <2>0, <2>3, OthersUndoNothing DEF Admit, Stages
    <2>4. QED
      BY <1>3, <2>1, <2>2, <2>3
  <1>4. ASSUME NEW r \in Requests,
               \/ Fail(r) \/ Call(r) \/ TakeToken(r) \/ ThreadEnds(r) \/ HandlerReturns(r)
               \/ HearThread(r) \/ HearOutlived(r) \/ Deadline(r) \/ NativeCancel(r)
        PROVE  UndoInv'
    <2>1. UNCHANGED <<store, created>>
      BY <1>4 DEF Fail, Call, TakeToken, ThreadEnds, HandlerReturns, HearThread, HearOutlived,
                  Deadline, NativeCancel
    <2>2. CASE ThreadEnds(r)
      <3>1. \A e : Earned(e) => Earned(e)'
        BY <2>1, <2>2 DEF ThreadEnds, Earned
      <3>2. CreatedOK'
        BY <2>1, <2>2 DEF ThreadEnds, UndoInv, CreatedOK
      <3>3. \A e \in Entries : (\E i \in 1..Len(store') : e = store'[i]) => Earned(e)'
        BY <2>1, <3>1 DEF UndoInv, StoreOK
      <3>4. QED
        BY <2>1, <3>2, <3>3, StoreFrom DEF UndoInv, StoreOK
    <2>3. CASE Call(r)
      <3>1. PICK to \in {"handler", "thread", "queued"} : Go(r, to)
        BY <2>3 DEF Call
      <3>2. created'[r] = None /\ UNCHANGED answer /\ to \in Stages \ {"new"}
        BY <2>1, <2>3, <3>1 DEF Call, UndoInv, CreatedOK, Stages
      <3>3. QED
        BY <2>1, <3>1, <3>2, OthersUndoNothing
    <2>4. CASE TakeToken(r) \/ (Deadline(r) /\ stage[r] = "thread")
      <3>1. PICK to \in {"thread", "outlived"} : Go(r, to) /\ UNCHANGED answer
        BY <2>4 DEF TakeToken, Deadline
      <3>2. to \in Stages \ {"new"} /\ to \notin {"calling", "handler"}
        BY <3>1 DEF Stages
      <3>3. QED
        BY <2>1, <3>1, <3>2, OthersUndoNothing
    <2>5. CASE \/ Fail(r) \/ HandlerReturns(r) \/ HearThread(r) \/ HearOutlived(r)
               \/ NativeCancel(r) \/ (Deadline(r) /\ stage[r] # "thread")
      <3>1. PICK with \in Answers \ {"refused"} : Answer(r, with)
        BY <2>5 DEF Fail, HandlerReturns, HearThread, HearOutlived, NativeCancel, Deadline,
                    Respond, Answers
      <3>2. Go(r, "answered") /\ answer' = [answer EXCEPT ![r] = with]
        BY <3>1 DEF Answer
      <3>3. "answered" \in Stages \ {"new"} /\ "answered" \notin {"calling", "handler"}
        BY DEF Stages
      <3>4. QED
        BY <2>1, <3>2, <3>3, OthersUndoNothing
    <2>6. QED
      BY <1>4, <2>2, <2>3, <2>4, <2>5
  <1>5. QED
    BY <1>1, <1>2, <1>3, <1>4 DEF Next

\* What a request caches.
OwnEntry(r) == [partition |-> PartitionOf[r], by |-> r]

\* A partition under construction is not kept, and has one builder.
OneBuilds ==
    \A r \in Requests : stage[r] = "building" =>
        /\ ~Keeps(PartitionOf[r])
        /\ \A q \in Requests : stage[q] = "building" /\ PartitionOf[q] = PartitionOf[r] => q = r

\* What an undecided request remembers it cached is in the store, or has left it.
KeptOrLost ==
    \A r \in Requests : created[r] \notin {None, {}} /\ answer[r] = None =>
        r \in lost \/ OwnEntry(r) \in ToSet(store)

LossInv == Len(store) <= StoreLimit /\ OneBuilds /\ KeptOrLost

LEMMA KeepsIn ==
  ASSUME NEW p
  PROVE  Keeps(p) <=> \E e \in ToSet(store) : e.partition = p
  BY DEF Keeps, Places, ToSet

\* The members of a sequence without one of its places.
LEMMA RemovedIn ==
  ASSUME NEW S, NEW s \in Seq(S), NEW k \in 1..Len(s)
  PROVE  \A x \in ToSet(s) : x = s[k] \/ x \in ToSet(RemoveAt(s, k))
  <1>1. PICK t : t = RemoveAt(s, k)
    OBVIOUS
  <1>2. /\ t \in Seq(S) /\ Len(s) \in Nat /\ Len(t) = Len(s) - 1
        /\ \A i \in 1..(Len(s) - 1) : t[i] = s[IF i < k THEN i ELSE i + 1]
    BY <1>1, RemoveOne
  <1>3. ASSUME NEW n \in 1..Len(s), n # k
        PROVE  s[n] \in ToSet(t)
    <2>1. PICK i \in 1..Len(t) : n = IF i < k THEN i ELSE i + 1
      <3>1. CASE n < k
        <4>1. n \in 1..Len(t)
          BY <1>2, <3>1
        <4>2. QED
          BY <3>1, <4>1
      <3>2. CASE ~(n < k)
        <4>1. n - 1 \in 1..Len(t) /\ ~(n - 1 < k) /\ (n - 1) + 1 = n
          BY <1>2, <1>3, <3>2
        <4>2. QED
          BY <4>1
      <3>3. QED
        BY <3>1, <3>2
    <2>2. t[i] = s[n]
      BY <1>2, <2>1
    <2>3. DOMAIN t = 1..Len(t)
      BY <1>2
    <2>4. QED
      BY <2>2, <2>3 DEF ToSet
  <1>4. DOMAIN s = 1..Len(s)
    OBVIOUS
  <1>5. QED
    BY <1>1, <1>3, <1>4 DEF ToSet

\* Dropping a partition drops its entry and no other.
LEMMA WithoutDrops ==
  ASSUME StoreOK, NEW p
  PROVE  /\ ToSet(Without(p)) = {e \in ToSet(store) : e.partition # p}
         /\ Len(Without(p)) <= Len(store)
         /\ Keeps(p) => Len(Without(p)) = Len(store) - 1
  <1>1. store \in Seq(Entries) /\ Len(store) \in Nat /\ DOMAIN store = 1..Len(store)
    BY DEF StoreOK
  <1>2. PICK t : t = Without(p)
    OBVIOUS
  <1>3. /\ t \in Seq(Entries) /\ DOMAIN t = 1..Len(t)
        /\ \A i \in 1..Len(t) : t[i].partition # p /\ \E n \in 1..Len(store) : t[i] = store[n]
    BY <1>2, WithoutProperties
  <1>4. ToSet(t) \subseteq {e \in ToSet(store) : e.partition # p}
    BY <1>1, <1>3 DEF ToSet
  <1>5. CASE ~Keeps(p)
    <2>1. t = store
      BY <1>2, <1>5 DEF Without
    <2>2. \A e \in ToSet(store) : e.partition # p
      BY <1>5, KeepsIn
    <2>3. {e \in ToSet(store) : e.partition # p} = ToSet(t)
      BY <2>1, <2>2
    <2>4. Len(t) <= Len(store)
      BY <1>1, <2>1
    <2>5. QED
      BY <1>2, <1>5, <2>3, <2>4
  <1>6. CASE Keeps(p)
    <2>1. PICK k \in 1..Len(store) : k = PlaceOf(p) /\ store[k].partition = p
      BY <1>1, <1>6 DEF Keeps, Places, PlaceOf
    <2>2. t = RemoveAt(store, k)
      BY <1>2, <1>6, <2>1 DEF Without
    <2>3. Len(t) = Len(store) - 1
      BY <1>1, <2>2, RemoveOne
    <2>4. \A e \in ToSet(store) : e = store[k] \/ e \in ToSet(t)
      BY <1>1, <2>2, RemovedIn
    <2>5. QED
      BY <1>1, <1>2, <1>4, <2>1, <2>3, <2>4
  <1>7. QED
    BY <1>5, <1>6

\* The members of a longer sequence.
LEMMA AppendedIn ==
  ASSUME NEW S, NEW s \in Seq(S), NEW x \in S
  PROVE  /\ Append(s, x) \in Seq(S) /\ Len(Append(s, x)) = Len(s) + 1
         /\ ToSet(Append(s, x)) = ToSet(s) \union {x}
  <1>1. PICK t : t = Append(s, x)
    OBVIOUS
  <1>2. /\ t \in Seq(S) /\ Len(s) \in Nat /\ Len(t) = Len(s) + 1
        /\ t[Len(s) + 1] = x /\ \A i \in 1..Len(s) : t[i] = s[i]
        /\ DOMAIN t = 1..(Len(s) + 1) /\ DOMAIN s = 1..Len(s)
    BY <1>1
  <1>3. \A i \in 1..(Len(s) + 1) : i \in 1..Len(s) \/ i = Len(s) + 1
    BY <1>2
  <1>4. \A i \in 1..Len(s) : i \in 1..(Len(s) + 1)
    BY <1>2
  <1>5. Len(s) + 1 \in 1..(Len(s) + 1)
    BY <1>2
  <1>6. QED
    BY <1>1, <1>2, <1>3, <1>4, <1>5 DEF ToSet

\* A read drops nothing.
LEMMA TouchedKeeps ==
  ASSUME StoreOK, NEW p, Keeps(p)
  PROVE  ToSet(Touched(p)) = ToSet(store) /\ Len(Touched(p)) = Len(store)
  <1>1. store \in Seq(Entries) /\ Len(store) \in Nat /\ DOMAIN store = 1..Len(store) /\ Apart(store)
    BY DEF StoreOK
  <1>2. PICK k \in 1..Len(store) : k = PlaceOf(p) /\ store[k].partition = p
    BY <1>1 DEF Keeps, Places, PlaceOf
  <1>3. store[k] \in Entries /\ store[k] \in ToSet(store)
    BY <1>1 DEF ToSet
  <1>4. \A e \in ToSet(store) : e.partition = p => e = store[k]
    BY <1>1, <1>2 DEF Apart, ToSet
  <1>5. PICK t : t = Without(p)
    OBVIOUS
  <1>6. t \in Seq(Entries) /\ Touched(p) = Append(t, store[k])
    BY <1>2, <1>5, WithoutProperties DEF Touched
  <1>7. ToSet(t) = {e \in ToSet(store) : e.partition # p} /\ Len(t) = Len(store) - 1
    BY <1>5, WithoutDrops
  <1>8. ToSet(Touched(p)) = ToSet(t) \union {store[k]} /\ Len(Touched(p)) = Len(t) + 1
    BY <1>3, <1>6, AppendedIn
  <1>9. QED
    BY <1>1, <1>3, <1>4, <1>7, <1>8

\* A write of a new partition drops the oldest entry of a full store, and nothing else.
LEMMA StoredMakesRoom ==
  ASSUME StoreOK, Len(store) <= StoreLimit, NEW r \in Requests, ~Keeps(PartitionOf[r])
  PROVE  /\ OwnEntry(r) \in ToSet(Stored(r)) /\ Len(Stored(r)) <= StoreLimit
         /\ ToSet(Stored(r)) \subseteq ToSet(store) \union {OwnEntry(r)}
         /\ \A e \in ToSet(store) \ ToSet(Stored(r)) : Len(store) = StoreLimit /\ e = store[1]
  <1>1. store \in Seq(Entries) /\ Len(store) \in Nat /\ DOMAIN store = 1..Len(store)
        /\ StoreLimit \in Nat \ {0}
    BY RequestsAssumption DEF StoreOK
  <1>2. OwnEntry(r) \in Entries
    BY RequestsAssumption DEF OwnEntry, Entries
  <1>3. PICK x \in Entries : x = OwnEntry(r)
    BY <1>2
  <1>4. PICK t : t = Append(store, x)
    OBVIOUS
  <1>5. /\ t \in Seq(Entries) /\ Len(t) = Len(store) + 1
        /\ ToSet(t) = ToSet(store) \union {x}
    BY <1>1, <1>4, AppendedIn
  <1>6. /\ t[Len(store) + 1] = x /\ \A i \in 1..Len(store) : t[i] = store[i]
    BY <1>1, <1>4
  <1>7. Stored(r) = IF Len(t) > StoreLimit THEN Tail(t) ELSE t
    BY <1>3, <1>4 DEF Stored, Without, OwnEntry
  <1>8. CASE ~(Len(t) > StoreLimit)
    <2>1. Stored(r) = t
      BY <1>7, <1>8
    <2>2. Len(t) <= StoreLimit
      BY <1>1, <1>5, <1>8
    <2>3. QED
      BY <1>3, <1>5, <2>1, <2>2
  <1>9. CASE Len(t) > StoreLimit
    <2>0. Len(store) <= StoreLimit
      OBVIOUS
    <2>1. Len(store) = StoreLimit
      <3> DEFINE n == Len(store)
      <3>1. n \in Nat /\ StoreLimit \in Nat /\ n <= StoreLimit /\ n + 1 > StoreLimit
        BY <1>1, <1>5, <1>9, <2>0
      <3> HIDE DEF n
      <3>2. n = StoreLimit
        BY <3>1
      <3>3. QED
        BY <3>2 DEF n
    <2>2. PICK u : u = Tail(t)
      OBVIOUS
    <2>3. /\ u \in Seq(Entries) /\ Len(u) = Len(store) /\ DOMAIN u = 1..Len(store)
          /\ \A i \in 1..Len(store) : u[i] = t[i + 1]
      BY <1>1, <1>5, <2>2
    <2>4. \A i \in 1..Len(store) : i + 1 \in 1..Len(t) /\ DOMAIN t = 1..Len(t)
      BY <1>1, <1>5
    <2>5. ToSet(u) \subseteq ToSet(t)
      BY <2>3, <2>4 DEF ToSet
    <2>6. u[Len(store)] = x /\ Len(store) \in 1..Len(store)
      BY <1>1, <1>6, <2>1, <2>3
    <2>7. ASSUME NEW n \in 1..Len(store), n # 1
          PROVE  store[n] \in ToSet(u)
      <3>1. n - 1 \in 1..Len(store) /\ (n - 1) + 1 = n
        BY <1>1, <2>7
      <3>2. u[n - 1] = store[n]
        BY <1>6, <2>3, <3>1
      <3>3. QED
        BY <2>3, <3>1, <3>2 DEF ToSet
    <2>8. x \in ToSet(u)
      BY <2>3, <2>6 DEF ToSet
    <2>9. \A e \in ToSet(store) \ ToSet(u) : e = store[1]
      BY <1>1, <2>7 DEF ToSet
    <2>10. Stored(r) = u
      BY <1>7, <1>9, <2>2
    <2>11. QED
      BY <1>3, <1>5, <2>1, <2>3, <2>5, <2>8, <2>9, <2>10
  <1>10. QED
    BY <1>8, <1>9

\* The steps that leave the store as it is, begin no construction and record nothing.
LEMMA OthersLoseNothing ==
  ASSUME LossInv, ToSet(store') = ToSet(store), Len(store') = Len(store), lost' = lost,
         \A r \in Requests : stage'[r] = "building" => stage[r] = "building",
         \A r \in Requests : created'[r] \notin {None, {}} /\ answer'[r] = None
                                => created'[r] = created[r] /\ answer[r] = None
  PROVE  LossInv'
  <1>1. \A p : Keeps(p)' <=> Keeps(p)
    <2>1. \A p : Keeps(p) <=> \E e \in ToSet(store) : e.partition = p
      BY KeepsIn
    <2>2. \A p : Keeps(p)' <=> \E e \in ToSet(store') : e.partition = p
      BY DEF Keeps, Places, ToSet
    <2>3. QED
      BY <2>1, <2>2
  <1>2. OneBuilds'
    BY <1>1 DEF LossInv, OneBuilds
  <1>3. KeptOrLost'
    BY DEF LossInv, KeptOrLost, OwnEntry
  <1>4. QED
    BY <1>2, <1>3 DEF LossInv

LEMMA FindLoses ==
  ASSUME IInv, UndoInv, LossInv, NEW r \in Requests, Find(r)
  PROVE  LossInv' /\ ToSet(store') = ToSet(store)
  <1>1. stage \in [Requests -> Stages] /\ UNCHANGED <<answer, created, lost>> /\ StoreOK
    BY DEF IInv, StateOK, UndoInv, Find
  <1>2. CASE Keeps(PartitionOf[r])
    <2>1. /\ ToSet(store') = ToSet(store) /\ Len(store') = Len(store)
      BY <1>1, <1>2, TouchedKeeps DEF Find
    <2>2. stage' = [stage EXCEPT ![r] = IF created[r] # None THEN "deciding" ELSE "calling"]
      BY <1>2 DEF Find, Found, Go
    <2>3. \A q \in Requests : stage'[q] = "building" => stage[q] = "building"
      BY <1>1, <2>2
    <2>4. QED
      BY <1>1, <2>1, <2>3, OthersLoseNothing
  <1>3. CASE ~Keeps(PartitionOf[r])
    <2>1. store' = store /\ stage' = [stage EXCEPT ![r] = "building"]
          /\ \A q \in Requests : stage[q] = "building" => PartitionOf[q] # PartitionOf[r]
      BY <1>3 DEF Find, Go
    <2>2. \A p : Keeps(p)' <=> Keeps(p)
      BY <2>1 DEF Keeps, Places
    <2>3. OneBuilds'
      BY <1>1, <1>3, <2>1, <2>2 DEF LossInv, OneBuilds
    <2>4. KeptOrLost'
      BY <1>1, <2>1 DEF LossInv, KeptOrLost, OwnEntry
    <2>5. QED
      BY <2>1, <2>3, <2>4 DEF LossInv
  <1>4. QED
    BY <1>2, <1>3

LEMMA BuiltLoses ==
  ASSUME IInv, UndoInv, LossInv, NEW r \in Requests, Built(r)
  PROVE  LossInv' /\ \A e \in ToSet(store) \ ToSet(store') : PushedOut(e)
  <1>1. /\ stage \in [Requests -> Stages] /\ stage[r] = "building" /\ StoreOK
        /\ stage' = [stage EXCEPT ![r] = IF created[r] # None THEN "deciding" ELSE "calling"]
        /\ created \in [Requests -> {None} \union SUBSET Partitions]
        /\ created' = [created EXCEPT ![r] =
                          IF @ = None THEN None ELSE @ \union {PartitionOf[r]}]
        /\ answer' = answer /\ store' = Stored(r)
        /\ lost' = lost \union {e.by : e \in ToSet(store) \ ToSet(store')}
    BY DEF IInv, StateOK, UndoInv, CreatedOK, Built, Found, Go, LosesItsEntries
  <1>2. ~Keeps(PartitionOf[r])
    BY <1>1 DEF LossInv, OneBuilds
  <1>3. /\ OwnEntry(r) \in ToSet(store') /\ Len(store') <= StoreLimit
        /\ ToSet(store') \subseteq ToSet(store) \union {OwnEntry(r)}
        /\ \A e \in ToSet(store) \ ToSet(store') : Len(store) = StoreLimit /\ e = store[1]
    BY <1>1, <1>2, StoredMakesRoom DEF LossInv
  <1>4. OneBuilds'
    <2>1. SUFFICES ASSUME NEW q \in Requests, stage'[q] = "building"
                   PROVE  /\ ~Keeps(PartitionOf[q])'
                          /\ \A o \in Requests :
                                stage'[o] = "building" /\ PartitionOf[o] = PartitionOf[q] => o = q
      BY DEF OneBuilds
    <2>2. q # r /\ stage[q] = "building"
      BY <1>1, <2>1
    <2>3. \A o \in Requests : stage'[o] = "building" => stage[o] = "building"
      BY <1>1
    <2>4. PartitionOf[q] # PartitionOf[r] /\ ~Keeps(PartitionOf[q])
      BY <1>1, <2>2 DEF LossInv, OneBuilds
    <2>5. \A e \in ToSet(store') : e.partition # PartitionOf[q]
      BY <1>3, <2>4, KeepsIn DEF OwnEntry
    <2>6. ~Keeps(PartitionOf[q])'
      BY <2>5 DEF Keeps, Places, ToSet
    <2>7. QED
      BY <2>2, <2>3, <2>6 DEF LossInv, OneBuilds
  <1>5. KeptOrLost'
    <2>1. SUFFICES ASSUME NEW q \in Requests, created'[q] \notin {None, {}}, answer'[q] = None
                   PROVE  q \in lost' \/ OwnEntry(q) \in ToSet(store')
      BY DEF KeptOrLost, OwnEntry
    <2>2. CASE q = r
      BY <1>3, <2>2
    <2>3. CASE q # r
      <3>1. q \in lost \/ OwnEntry(q) \in ToSet(store)
        BY <1>1, <2>1, <2>3 DEF LossInv, KeptOrLost
      <3>2. OwnEntry(q).by = q
        BY DEF OwnEntry
      <3>3. QED
        BY <1>1, <3>1, <3>2
    <2>4. QED
      BY <2>2, <2>3
  <1>6. QED
    BY <1>1, <1>2, <1>3, <1>4, <1>5 DEF LossInv, PushedOut, OwnEntry

LEMMA RejectLoses ==
  ASSUME IInv, UndoInv, LossInv, NEW r \in Requests, Reject(r)
  PROVE  LossInv' /\ \A e \in ToSet(store) \ ToSet(store') : Undone(e)
  <1>1. /\ stage \in [Requests -> Stages] /\ StoreOK
        /\ stage[r] \in {"deciding", "calling", "handler"}
        /\ stage' = [stage EXCEPT ![r] = "answered"]
        /\ answer \in [Requests -> Answers \union {None}] /\ answer[r] = None
        /\ answer' = [answer EXCEPT ![r] = IF created[r] # None THEN "refused" ELSE "failed"]
        /\ created' = created
        /\ lost' = lost \union {e.by : e \in ToSet(store) \ ToSet(store')}
    BY DEF IInv, StateOK, AnswersOK, UndoInv, CreatedOK, Reject, Answer, Go, LosesItsEntries
  <1>2. /\ ToSet(store') \subseteq ToSet(store) /\ Len(store') <= Len(store)
        /\ \A e \in ToSet(store) \ ToSet(store') :
              created[r] \notin {None, {}} /\ e.partition \in created[r]
    <2>1. CASE created[r] \in {None, {}}
      <3>1. store' = store /\ Len(store) \in Nat
        BY <1>1, <2>1 DEF Reject, StoreOK
      <3>2. QED
        BY <3>1
    <2>2. CASE created[r] \notin {None, {}}
      <3>1. PICK p \in created[r] : store' = Without(p)
        BY <2>2 DEF Reject
      <3>2. /\ ToSet(store') = {e \in ToSet(store) : e.partition # p}
            /\ Len(store') <= Len(store)
        BY <1>1, <3>1, WithoutDrops
      <3>3. QED
        BY <2>2, <3>1, <3>2
    <2>3. QED
      BY <2>1, <2>2
  <1>3. OneBuilds'
    <2>1. \A p : Keeps(p)' => Keeps(p)
      <3>1. \A p : Keeps(p) <=> \E e \in ToSet(store) : e.partition = p
        BY KeepsIn
      <3>2. \A p : Keeps(p)' <=> \E e \in ToSet(store') : e.partition = p
        BY DEF Keeps, Places, ToSet
      <3>3. QED
        BY <1>2, <3>1, <3>2
    <2>2. \A q \in Requests : stage'[q] = "building" => stage[q] = "building"
      BY <1>1
    <2>3. QED
      BY <2>1, <2>2 DEF LossInv, OneBuilds
  <1>4. KeptOrLost'
    <2>1. SUFFICES ASSUME NEW q \in Requests, created'[q] \notin {None, {}}, answer'[q] = None
                   PROVE  q \in lost' \/ OwnEntry(q) \in ToSet(store')
      BY DEF KeptOrLost, OwnEntry
    <2>2. q # r
      BY <1>1, <2>1, RequestsAssumption DEF Answers
    <2>3. q \in lost \/ OwnEntry(q) \in ToSet(store)
      BY <1>1, <2>1, <2>2 DEF LossInv, KeptOrLost
    <2>4. OwnEntry(q).by = q
      BY DEF OwnEntry
    <2>5. QED
      BY <1>1, <2>3, <2>4
  <1>5. ASSUME NEW e \in ToSet(store) \ ToSet(store')
        PROVE  Undone(e)
    <2>1. created[r] \notin {None, {}} /\ e.partition \in created[r]
      BY <1>2, <1>5
    <2>2. e.partition = PartitionOf[r] /\ stage[r] = "deciding" /\ answer'[r] = "refused"
      BY <1>1, <2>1 DEF UndoInv, CreatedOK
    <2>3. r \in lost \/ OwnEntry(r) \in ToSet(store)
      BY <1>1, <2>1 DEF LossInv, KeptOrLost
    <2>4. OwnEntry(r) \in ToSet(store) => e = OwnEntry(r)
      <3>1. DOMAIN store = 1..Len(store)
        BY <1>1 DEF StoreOK
      <3>2. OwnEntry(r).partition = e.partition
        BY <2>2 DEF OwnEntry
      <3>3. QED
        BY <1>1, <3>1, <3>2 DEF StoreOK, Apart, ToSet
    <2>5. OwnEntry(r).by = r
      BY DEF OwnEntry
    <2>6. QED
      BY <2>2, <2>3, <2>4, <2>5 DEF Undone
  <1>6. Len(store') <= StoreLimit
    <2>1. Len(store) \in Nat /\ Len(store') \in Nat /\ StoreLimit \in Nat
      BY UndoStep, <1>1, RequestsAssumption DEF StoreOK, UndoInv, Next
    <2>2. QED
      BY <1>2, <2>1 DEF LossInv
  <1>7. QED
    BY <1>3, <1>4, <1>5, <1>6 DEF LossInv

\* What any step takes out of the store.
LEMMA LossStep ==
  ASSUME IInv, UndoInv, LossInv, [Next]_vars
  PROVE  LossInv' /\ \A e \in ToSet(store) \ ToSet(store') : PushedOut(e) \/ Undone(e)
  <1>1. CASE UNCHANGED vars
    BY <1>1, OthersLoseNothing DEF vars
  <1>2. ASSUME NEW r \in Requests, Find(r) \/ Built(r) \/ Reject(r)
        PROVE  LossInv' /\ \A e \in ToSet(store) \ ToSet(store') : PushedOut(e) \/ Undone(e)
    BY <1>2, FindLoses, BuiltLoses, RejectLoses
  <1>3. ASSUME NEW r \in Requests, Arrive(r) \/ Admit(r)
        PROVE  LossInv' /\ \A e \in ToSet(store) \ ToSet(store') : PushedOut(e) \/ Undone(e)
    <2>1. /\ stage \in [Requests -> Stages] /\ stage' = [stage EXCEPT ![r] = "finding"]
          /\ created \in [Requests -> {None} \union SUBSET Partitions]
          /\ \E to \in {None, {}} : created' = [created EXCEPT ![r] = to]
          /\ UNCHANGED <<store, answer, lost>>
      BY <1>3 DEF IInv, StateOK, UndoInv, CreatedOK, Arrive, Admit, Go
    <2>2. \A q \in Requests : stage'[q] = "building" => stage[q] = "building"
      BY <2>1
    <2>3. \A q \in Requests : created'[q] \notin {None, {}} => created'[q] = created[q]
      BY <2>1
    <2>4. QED
      BY <2>1, <2>2, <2>3, OthersLoseNothing
  <1>4. ASSUME NEW r \in Requests,
               \/ Fail(r) \/ Call(r) \/ TakeToken(r) \/ ThreadEnds(r) \/ HandlerReturns(r)
               \/ HearThread(r) \/ HearOutlived(r) \/ Deadline(r) \/ NativeCancel(r)
        PROVE  LossInv' /\ \A e \in ToSet(store) \ ToSet(store') : PushedOut(e) \/ Undone(e)
    <2>1. UNCHANGED <<store, created, lost>>
      BY <1>4 DEF Fail, Call, TakeToken, ThreadEnds, HandlerReturns, HearThread, HearOutlived,
                  Deadline, NativeCancel
    <2>2. stage' = stage \/ \E to \in {"handler", "thread", "queued", "outlived", "answered"} :
                               stage' = [stage EXCEPT ![r] = to]
      BY <1>4 DEF Fail, Call, TakeToken, ThreadEnds, HandlerReturns, HearThread, HearOutlived,
                  Deadline, NativeCancel, Respond, Answer, Go
    <2>3. answer' = answer \/ \E with \in Answers : answer' = [answer EXCEPT ![r] = with]
      BY <1>4 DEF Fail, Call, TakeToken, ThreadEnds, HandlerReturns, HearThread, HearOutlived,
                  Deadline, NativeCancel, Respond, Answer, Answers
    <2>4. \A q \in Requests : stage'[q] = "building" => stage[q] = "building"
      BY <2>2 DEF IInv, StateOK
    <2>5. \A q \in Requests : answer'[q] = None => answer[q] = None
      BY <2>3, RequestsAssumption DEF IInv, StateOK
    <2>6. QED
      BY <2>1, <2>4, <2>5, OthersLoseNothing
  <1>5. QED
    BY <1>1, <1>2, <1>3, <1>4 DEF Next

\* Of a request that was refused the store keeps nothing it built; and what leaves the store
\* makes room in a full one, or is dropped by a refusal, which drops what another request
\* cached only in the place of its own that has left it (_evict_durable_partitions).
THEOREM RefusalsUndoTheirOwn == Spec => OnlyTheRefusedAreUndone
  <1>1. Init => UndoInv /\ LossInv
    <2>1. SUFFICES ASSUME Init PROVE UndoInv /\ LossInv
      OBVIOUS
    <2>2. CreatedOK
      BY <2>1 DEF Init, CreatedOK
    <2>3. StoreOK
      BY <2>1 DEF Init, StoreOK, Apart
    <2>4. LossInv
      BY <2>1, RequestsAssumption DEF Init, LossInv, OneBuilds, KeptOrLost
    <2>5. QED
      BY <2>2, <2>3, <2>4 DEF UndoInv
  <1>2. UndoInv => RefusedLeavesNothing
    <2>1. SUFFICES ASSUME UndoInv PROVE RefusedLeavesNothing
      OBVIOUS
    <2>2. \A n \in 1..Len(store) : answer[store[n].by] # "refused"
      BY <2>1 DEF UndoInv, StoreOK, Earned
    <2>3. DOMAIN store = 1..Len(store)
      BY <2>1 DEF UndoInv, StoreOK
    <2>4. QED
      BY <2>1, <2>2, <2>3 DEF UndoInv, StoreOK, Apart, RefusedLeavesNothing, ToSet
  <1>3. IInv /\ UndoInv /\ LossInv /\ [Next]_vars
           => [\A e \in ToSet(store) \ ToSet(store') : PushedOut(e) \/ Undone(e)]_vars
    BY LossStep
  <1>4. IInv /\ UndoInv /\ LossInv /\ [Next]_vars => (UndoInv /\ LossInv)'
    BY UndoStep, LossStep
  <1>5. QED
    BY <1>1, <1>2, <1>3, <1>4, Invariance, PTL DEF Spec, OnlyTheRefusedAreUndone

-----------------------------------------------------------------------------
(* The way of one request: the inductive invariant.                          *)

Bindings ==
    {Nothing} \union UNION {{BoundTo(p.handler, sent) : sent \in p.contents} : p \in Plans}

Links ==
    [kind : {"link"}, index : Nat, request : RequestObjects,
     at : {"enter", "using", "routing", "rendering"}]

BeforeController == {"observe", "gate", "guards", "controller"}
AfterController == {"binding", "call", "write"}
Rescues == {"resolving globals", "except"}

Executions ==
    [kind : {"route", "rendering"}, request : RequestObjects,
     at : BeforeController \union AfterController \union Rescues \union {"resolve", "try"},
     context : {Nothing, "bare", "full"}, controller : BOOLEAN, arguments : Bindings,
     filters : {Nothing} \union SUBSET Nat, observation : {"none", "open"},
     error : {Nothing} \union DOMAIN Mro, asked : SUBSET Nat, reentered : BOOLEAN,
     unbinds : RequestObjects \union {Nothing}]

\* What every execution can say of itself: it is observed only where the route is, its
\* context is never of the other side of the controller, and its filters are the route's.
Steady(f) ==
    /\ f.observation = "open" => plan.observed
    /\ IF f.controller THEN f.context # "bare" ELSE f.context # "full"
    /\ f.kind = "rendering" => f.context = "bare" /\ ~f.controller
    /\ f.filters = Nothing \/ f.filters \in SUBSET DOMAIN plan.filters

\* An execution where it is, after so many failures to render.
Sound(f, failures) ==
    /\ Steady(f)
    /\ f.kind = "rendering" =>
          /\ f.at \in Rescues \union {"resolve", "try"}
          /\ f.error \in DOMAIN Mro
          /\ f.at \in Rescues => failures > 0
    /\ f.kind = "route" => f.at \notin {"resolve", "try"}
    /\ f.at \in BeforeController => ~f.controller
    /\ f.at \in AfterController => f.controller
    /\ f.at \in Rescues \union {"try"} =>
          /\ f.context = IF f.controller THEN "full" ELSE "bare"
          /\ f.error \in DOMAIN Mro
    /\ f.at \in {"try", "except"} =>
          /\ f.filters \in SUBSET DOMAIN plan.filters
          /\ f.asked \subseteq MatchingFilters(f.error, f.filters)

\* Where the link stands that called an execution.
CalledFrom(kind) == IF kind = "route" THEN "routing" ELSE "rendering"

FramesOK ==
    /\ frames \in Seq(Links \union Executions)
    /\ \A n \in 1..Len(frames) : frames[n] \in Executions =>
          /\ Sound(frames[n], spoilt)
          /\ n > 1 /\ frames[n - 1].at = CalledFrom(frames[n].kind)

\* Only a link that called the route may hear of a failure that is the first.
SignalOK ==
    \/ signal = Nothing
    \/ signal = Response
    \/ /\ signal = Error("TypeError")
       /\ \/ spoilt = 2
          \/ spoilt = 1 /\ frames # <<>> /\ Top.at = "routing"

EndedOK ==
    ended # Nothing =>
       \/ ~plan.observed /\ ended.observation = "none"
       \/ plan.observed /\ ended.with = "answer" /\ ended.observation \in {"closed", "none"}
       \/ plan.observed /\ ended.with = "error" /\ ended.observation \in {"open", "none"}

\* Until the request is over, an instance that was built is in the cache.
InstancesOK ==
    /\ cache \in [RequestObjects -> BOOLEAN] /\ built \in [RequestObjects -> 0..1]
    /\ active \in RequestObjects \union {Nothing}
    /\ frames # <<>> => active \in RequestObjects
    /\ \A r \in RequestObjects : built[r] = 1 => cache[r] \/ (r = "asked" /\ Over)

OutcomeOK ==
    Over => /\ frames = <<>> /\ active = Nothing /\ ~cache["asked"]
            /\ outcome = "error" => spoilt = 2 /\ signal = Error("TypeError")

PathInv ==
    /\ plan \in Plans /\ spoilt \in 0..2
    /\ FramesOK /\ SignalOK /\ EndedOK /\ InstancesOK /\ OutcomeOK

-----------------------------------------------------------------------------
(* The stack.                                                                *)

\* Of whatever the frames are a stack, the top is one, and the rest are a stack of them.
LEMMA StackTop ==
  ASSUME NEW S, NEW s \in Seq(S), s # <<>>
  PROVE  /\ Len(s) \in Nat \ {0} /\ Last(s) = s[Len(s)] /\ Last(s) \in S
         /\ Front(s) \in Seq(S) /\ Len(Front(s)) = Len(s) - 1
         /\ \A n \in 1..(Len(s) - 1) : Front(s)[n] = s[n]
  <1>1. Len(s) \in Nat \ {0} /\ s[Len(s)] \in S
    OBVIOUS
  <1>2. Last(s) = s[Len(s)]
    BY DEF Last
  <1>3. PICK k \in Nat : k = Len(s) - 1
    BY <1>1
  <1>4. /\ Front(s) \in Seq(S) /\ Len(Front(s)) = k
        /\ \A n \in 1..k : Front(s)[n] = s[n]
    BY <1>1, <1>3 DEF Front
  <1>5. QED
    BY <1>1, <1>2, <1>3, <1>4

\* A stack with one more frame.
LEMMA StackPush ==
  ASSUME NEW S, NEW s \in Seq(S), NEW f \in S
  PROVE  /\ Append(s, f) \in Seq(S) /\ Len(Append(s, f)) = Len(s) + 1
         /\ Append(s, f) # <<>> /\ Append(s, f)[Len(s) + 1] = f
         /\ \A n \in 1..Len(s) : Append(s, f)[n] = s[n]
  OBVIOUS

\* Links and executions are told apart by their kind.
LEMMA KindsDiffer ==
  ASSUME NEW f
  PROVE  /\ f \in Links => f \notin Executions /\ f.kind = "link"
         /\ f \in Executions => f.kind \in {"route", "rendering"}
  BY DEF Links, Executions

\* A frame is as sound after a step that spoils nothing less.
LEMMA StaysSound ==
  ASSUME plan' = plan, spoilt \in 0..2, spoilt' \in 0..2, spoilt' >= spoilt
  PROVE  \A f : /\ Sound(f, spoilt) => Sound(f, spoilt')
                /\ (Sound(f, spoilt))' <=> Sound(f, spoilt')
  <1>1. \A f : Sound(f, spoilt) => Sound(f, spoilt')
    BY DEF Sound
  <1>2. \A f : (Steady(f))' <=> Steady(f)
    BY DEF Steady
  <1>3. \A e, s : (MatchingFilters(e, s))' = MatchingFilters(e, s)
    BY DEF MatchingFilters, Matching, Declared
  <1>4. \A f : (Sound(f, spoilt))' <=> Sound(f, spoilt')
    BY <1>2, <1>3 DEF Sound
  <1>5. QED
    BY <1>1, <1>4

\* The stack of a step that leaves it alone.
LEMMA SameStack ==
  ASSUME PathInv, UNCHANGED <<plan, frames, spoilt>>
  PROVE  FramesOK'
  <1>1. spoilt \in 0..2 /\ plan' = plan /\ spoilt' = spoilt /\ frames' = frames
    BY DEF PathInv
  <1>2. \A f : (Sound(f, spoilt))' <=> Sound(f, spoilt)
    BY <1>1, StaysSound
  <1>3. QED
    BY <1>1, <1>2 DEF PathInv, FramesOK, CalledFrom

\* The stack where its top gives its place to another frame of its kind.
LEMMA TopBecomes ==
  ASSUME PathInv, plan' = plan, spoilt' \in 0..2, spoilt' >= spoilt, frames # <<>>,
         NEW f, Becomes(f),
         \/ Top \in Links /\ f \in Links
         \/ /\ Top \in Executions /\ f \in Executions /\ f.kind = Top.kind
            /\ Sound(f, spoilt')
  PROVE  FramesOK' /\ frames' # <<>>
  <1> DEFINE S == Links \union Executions
  <1>1. frames \in Seq(S) /\ spoilt \in 0..2
    BY DEF PathInv, FramesOK
  <1>2. f \in S
    OBVIOUS
  <1> HIDE DEF S
  <1>3. frames' = Append(Front(frames), f)
    BY DEF Becomes
  <1> DEFINE m == Len(frames)
  <1>4. /\ m \in Nat \ {0} /\ Top = frames[m] /\ Front(frames) \in Seq(S)
        /\ Len(Front(frames)) = m - 1
        /\ \A n \in 1..(m - 1) : Front(frames)[n] = frames[n]
    BY <1>1, StackTop DEF Top
  <1>5. /\ frames' \in Seq(S) /\ Len(frames') = m /\ frames' # <<>> /\ frames'[m] = f
        /\ \A n \in 1..(m - 1) : frames'[n] = frames[n]
    BY <1>2, <1>3, <1>4, StackPush
  <1>6. ASSUME NEW n \in 1..m, frames'[n] \in Executions
        PROVE  /\ Sound(frames'[n], spoilt')
               /\ n > 1 /\ frames'[n - 1].at = CalledFrom(frames'[n].kind)
    <2>1. CASE n = m
      <3>1. f \in Executions /\ Top \in Executions /\ f.kind = Top.kind /\ Sound(f, spoilt')
        BY <1>5, <1>6, <2>1, KindsDiffer
      <3>2. m > 1 /\ frames[m - 1].at = CalledFrom(f.kind)
        BY <1>4, <3>1 DEF PathInv, FramesOK
      <3>3. frames'[m - 1] = frames[m - 1]
        BY <1>4, <1>5, <3>2
      <3>4. QED
        BY <1>5, <2>1, <3>1, <3>2, <3>3
    <2>2. CASE n # m
      <3>1. n \in 1..(m - 1) /\ frames'[n] = frames[n]
        BY <1>4, <1>5, <2>2
      <3>2. /\ Sound(frames[n], spoilt) /\ n > 1
            /\ frames[n - 1].at = CalledFrom(frames[n].kind)
        BY <1>4, <1>6, <3>1 DEF PathInv, FramesOK
      <3>3. frames'[n - 1] = frames[n - 1] /\ Sound(frames[n], spoilt')
        BY <1>1, <1>4, <1>5, <3>1, <3>2, StaysSound
      <3>4. QED
        BY <3>1, <3>2, <3>3
    <2>3. QED
      BY <2>1, <2>2
  <1>7. \A n \in 1..m : frames'[n] \in Executions => (Sound(frames[n], spoilt))'
    BY <1>1, <1>6, StaysSound
  <1>8. QED
    BY <1>5, <1>6, <1>7 DEF FramesOK, S, CalledFrom

\* A link goes on from where it stands, and calls an execution.
LEMMA TopCalls ==
  ASSUME PathInv, plan' = plan, spoilt' = spoilt, frames # <<>>, Top \in Links,
         NEW f \in Links, NEW g \in Executions, Calls(f, g),
         f.at = CalledFrom(g.kind), Sound(g, spoilt)
  PROVE  FramesOK' /\ frames' # <<>>
  <1> DEFINE S == Links \union Executions
             m == Len(frames)
  <1>1. frames \in Seq(S) /\ spoilt \in 0..2 /\ f \in S /\ g \in S
    BY DEF PathInv, FramesOK
  <1> HIDE DEF S
  <1>2. PICK called : called = Append(Front(frames), f)
    OBVIOUS
  <1>3. /\ m \in Nat \ {0} /\ Top = frames[m] /\ Front(frames) \in Seq(S)
        /\ Len(Front(frames)) = m - 1
        /\ \A n \in 1..(m - 1) : Front(frames)[n] = frames[n]
    BY <1>1, StackTop DEF Top
  <1>4. /\ called \in Seq(S) /\ Len(called) = m /\ called[m] = f
        /\ \A n \in 1..(m - 1) : called[n] = frames[n]
    BY <1>1, <1>2, <1>3, StackPush
  <1>5. frames' = Append(called, g)
    BY <1>1, <1>2, <1>4 DEF Calls
  <1>6. /\ frames' \in Seq(S) /\ Len(frames') = m + 1 /\ frames' # <<>>
        /\ frames'[m + 1] = g /\ \A n \in 1..m : frames'[n] = called[n]
    BY <1>1, <1>4, <1>5, StackPush
  <1>7. ASSUME NEW n \in 1..(m + 1), frames'[n] \in Executions
        PROVE  /\ Sound(frames'[n], spoilt')
               /\ n > 1 /\ frames'[n - 1].at = CalledFrom(frames'[n].kind)
    <2>1. CASE n = m + 1
      <3>1. frames'[m] = f /\ m + 1 > 1
        BY <1>3, <1>4, <1>6
      <3>2. QED
        BY <1>3, <1>6, <2>1, <3>1
    <2>2. CASE n = m
      BY <1>4, <1>6, <1>7, <2>2, KindsDiffer
    <2>3. CASE n < m
      <3>1. n \in 1..(m - 1) /\ frames'[n] = frames[n]
        BY <1>3, <1>4, <1>6, <2>3
      <3>2. Sound(frames[n], spoilt) /\ n > 1 /\ frames[n - 1].at = CalledFrom(frames[n].kind)
        BY <1>3, <1>7, <3>1 DEF PathInv, FramesOK
      <3>3. n - 1 \in 1..(m - 1) /\ n - 1 \in 1..m
        BY <1>3, <3>1, <3>2
      <3>4. frames'[n - 1] = frames[n - 1]
        BY <1>4, <1>6, <3>3
      <3>5. QED
        BY <3>1, <3>2, <3>4
    <2>4. QED
      BY <1>3, <2>1, <2>2, <2>3
  <1>8. \A n \in 1..(m + 1) : frames'[n] \in Executions => (Sound(frames[n], spoilt))'
    BY <1>1, <1>7, StaysSound
  <1>9. QED
    BY <1>6, <1>7, <1>8 DEF FramesOK, S, CalledFrom

\* A link starts beneath the link that called next, or beneath nothing.
LEMMA LinkStarts ==
  ASSUME PathInv, plan' = plan, spoilt' = spoilt, NEW f \in Links,
         frames' = Append(frames, f)
  PROVE  FramesOK' /\ frames' # <<>>
  <1> DEFINE S == Links \union Executions
             m == Len(frames)
  <1>1. frames \in Seq(S) /\ spoilt \in 0..2 /\ f \in S /\ m \in Nat
    BY DEF PathInv, FramesOK
  <1> HIDE DEF S
  <1>2. /\ frames' \in Seq(S) /\ Len(frames') = m + 1 /\ frames' # <<>>
        /\ frames'[m + 1] = f /\ \A n \in 1..m : frames'[n] = frames[n]
    BY <1>1, StackPush
  <1>3. ASSUME NEW n \in 1..(m + 1), frames'[n] \in Executions
        PROVE  /\ Sound(frames'[n], spoilt')
               /\ n > 1 /\ frames'[n - 1].at = CalledFrom(frames'[n].kind)
    <2>1. n \in 1..m /\ frames'[n] = frames[n]
      BY <1>1, <1>2, <1>3, KindsDiffer
    <2>2. Sound(frames[n], spoilt) /\ n > 1 /\ frames[n - 1].at = CalledFrom(frames[n].kind)
      BY <1>3, <2>1 DEF PathInv, FramesOK
    <2>3. frames'[n - 1] = frames[n - 1]
      BY <1>1, <1>2, <2>1, <2>2
    <2>4. QED
      BY <2>1, <2>2, <2>3
  <1>4. \A n \in 1..(m + 1) : frames'[n] \in Executions => (Sound(frames[n], spoilt))'
    BY <1>1, <1>3, StaysSound
  <1>5. QED
    BY <1>2, <1>3, <1>4 DEF FramesOK, S, CalledFrom

\* A frame gives up its place.  An execution gives it up to the link that called it.
LEMMA TopLeaves ==
  ASSUME PathInv, plan' = plan, spoilt' \in 0..2, spoilt' >= spoilt, frames # <<>>,
         frames' = Front(frames)
  PROVE  /\ FramesOK'
         /\ Top \in Executions => frames' # <<>> /\ Top'.at = CalledFrom(Top.kind)
  <1> DEFINE S == Links \union Executions
             m == Len(frames)
  <1>1. frames \in Seq(S) /\ spoilt \in 0..2
    BY DEF PathInv, FramesOK
  <1> HIDE DEF S
  <1>2. /\ m \in Nat \ {0} /\ Top = frames[m] /\ frames' \in Seq(S)
        /\ Len(frames') = m - 1
        /\ \A n \in 1..(m - 1) : frames'[n] = frames[n]
    BY <1>1, StackTop DEF Top
  <1>3. ASSUME NEW n \in 1..(m - 1), frames'[n] \in Executions
        PROVE  /\ Sound(frames'[n], spoilt')
               /\ n > 1 /\ frames'[n - 1].at = CalledFrom(frames'[n].kind)
    <2>1. frames'[n] = frames[n] /\ n \in 1..m
      BY <1>2
    <2>2. Sound(frames[n], spoilt) /\ n > 1 /\ frames[n - 1].at = CalledFrom(frames[n].kind)
      BY <1>3, <2>1 DEF PathInv, FramesOK
    <2>3. frames'[n - 1] = frames[n - 1] /\ Sound(frames[n], spoilt')
      BY <1>1, <1>2, <2>1, <2>2, StaysSound
    <2>4. QED
      BY <2>1, <2>2, <2>3
  <1>4. \A n \in 1..(m - 1) : frames'[n] \in Executions => (Sound(frames[n], spoilt))'
    BY <1>1, <1>3, StaysSound
  <1>5. FramesOK'
    BY <1>2, <1>3, <1>4 DEF FramesOK, S, CalledFrom
  <1>6. ASSUME Top \in Executions
        PROVE  frames' # <<>> /\ Top'.at = CalledFrom(Top.kind)
    <2>1. m > 1 /\ frames[m - 1].at = CalledFrom(Top.kind)
      BY <1>2, <1>6 DEF PathInv, FramesOK
    <2>2. frames' # <<>> /\ Top' = frames'[m - 1] /\ frames'[m - 1] = frames[m - 1]
      BY <1>2, <2>1 DEF Top, Last
    <2>3. QED
      BY <2>1, <2>2
  <1>7. QED
    BY <1>5, <1>6

-----------------------------------------------------------------------------
(* Executions.                                                               *)

\* The types that are raised are known, and the filters of a route are numbered.
LEMMA TypesOfExceptions ==
  /\ {"Timeout", "TooLarge", "Refused", "TypeError", "ParameterBindingError"} \subseteq DOMAIN Mro
  /\ Raised \subseteq DOMAIN Mro
  /\ \A p \in Plans : DOMAIN p.filters \subseteq Nat /\ p.globals \subseteq DOMAIN p.filters
  /\ \A p \in Plans : p.guarded \in BOOLEAN /\ p.observed \in BOOLEAN
  BY PathAssumption DEF IsSequence

\* An execution whose exception is put to filters of its route.
LEMMA AskingIsSound ==
  ASSUME plan \in Plans, NEW f \in Executions, Steady(f), NEW e \in DOMAIN Mro, NEW n,
         NEW filters \in SUBSET DOMAIN plan.filters, NEW at \in {"try", "except"},
         f.context = IF f.controller THEN "full" ELSE "bare",
         at = "try" => f.kind = "rendering",
         f.kind = "rendering" /\ at = "except" => n > 0
  PROVE  /\ Asking(f, e, filters, at) \in Executions
         /\ Asking(f, e, filters, at).kind = f.kind
         /\ Sound(Asking(f, e, filters, at), n)
  <1> DEFINE g == Asking(f, e, filters, at)
  <1>1. filters \in SUBSET Nat /\ MatchingFilters(e, filters) \in SUBSET Nat
    BY TypesOfExceptions DEF MatchingFilters
  <1>2. /\ g \in Executions /\ g.kind = f.kind /\ g.at = at /\ g.error = e
        /\ g.filters = filters /\ g.asked = MatchingFilters(e, filters)
        /\ g.context = f.context /\ g.controller = f.controller
        /\ g.observation = f.observation
    BY <1>1 DEF Asking, Executions, Rescues
  <1> HIDE DEF g
  <1>3. Steady(g)
    BY <1>2 DEF Steady
  <1>4. Sound(g, n)
    BY <1>2, <1>3 DEF Sound, Rescues, BeforeController, AfterController, Executions
  <1>5. QED
    BY <1>2, <1>4 DEF g

\* An execution in its except clause.
LEMMA FailsIsSound ==
  ASSUME plan \in Plans, NEW f \in Executions, Steady(f), NEW e \in DOMAIN Mro, NEW n,
         f.kind = "rendering" => n > 0
  PROVE  Fails(f, e) \in Executions /\ Fails(f, e).kind = f.kind /\ Sound(Fails(f, e), n)
  <1> DEFINE context == IF f.context # Nothing THEN f.context
                        ELSE IF f.controller THEN "full" ELSE "bare"
             named == [f EXCEPT !.error = e, !.context = context]
             g == [named EXCEPT !.at = "resolving globals"]
  <1>1. context \in {Nothing, "bare", "full"} /\ f.controller \in BOOLEAN
    BY DEF Executions
  <1>2. /\ named \in Executions /\ named.kind = f.kind /\ named.error = e
        /\ named.controller = f.controller /\ named.filters = f.filters
        /\ named.observation = f.observation
        /\ named.context = context
    <2> HIDE DEF context
    <2>1. QED
      BY <1>1 DEF Executions
  <1>3. named.context = IF named.controller THEN "full" ELSE "bare"
    BY <1>2, PathAssumption DEF Steady, Executions
  <1>4. Steady(named)
    BY <1>2, <1>3 DEF Steady
  <1>5. CASE f.filters = Nothing
    <2>1. Fails(f, e) = g
      BY <1>5 DEF Fails
    <2> HIDE DEF named
    <2>2. /\ g \in Executions /\ g.kind = f.kind /\ g.at = "resolving globals"
          /\ g.error = e /\ g.context = named.context /\ g.controller = named.controller
          /\ g.filters = named.filters /\ g.observation = named.observation
      BY <1>2 DEF Executions, Rescues
    <2> HIDE DEF g
    <2>3. Steady(g)
      BY <1>2, <1>4, <1>5, <2>2 DEF Steady
    <2>4. Sound(g, n)
      BY <1>2, <1>3, <2>2, <2>3 DEF Sound, Rescues, BeforeController, AfterController
    <2>5. QED
      BY <2>1, <2>2, <2>4
  <1>6. CASE f.filters # Nothing
    <2>1. f.filters \in SUBSET DOMAIN plan.filters
      BY <1>6 DEF Steady
    <2>2. Fails(f, e) = Asking(named, e, f.filters, "except")
      BY <1>6 DEF Fails
    <2> HIDE DEF named, context
    <2>3. named \in Executions /\ (named.kind = "rendering" => n > 0)
      BY <1>2
    <2>4. PICK k : k = named
      OBVIOUS
    <2>5. /\ Asking(k, e, f.filters, "except") \in Executions
          /\ Asking(k, e, f.filters, "except").kind = k.kind
          /\ Sound(Asking(k, e, f.filters, "except"), n)
      BY <1>3, <1>4, <2>1, <2>3, <2>4, AskingIsSound
    <2>6. QED
      BY <1>2, <2>2, <2>4, <2>5
  <1>7. QED
    BY <1>5, <1>6

\* Where a call is under way, the request is not over and its request is bound.
LEMMA Goes ==
  ASSUME PathInv, frames # <<>>
  PROVE  /\ ~Over /\ active \in RequestObjects
         /\ Top \in Links \/ (Top \in Executions /\ Sound(Top, spoilt) /\ Steady(Top))
         /\ Top.kind \in {"route", "rendering"} => Top \in Executions
         /\ Top.kind = "link" => Top \in Links
  <1>1. Len(frames) \in Nat \ {0} /\ Top = frames[Len(frames)] /\ Top \in Links \union Executions
    BY StackTop DEF PathInv, FramesOK, Top
  <1>2. Top \in Executions => Sound(Top, spoilt) /\ Steady(Top)
    BY <1>1 DEF PathInv, FramesOK, Sound
  <1>3. ~Over /\ active \in RequestObjects
    BY DEF PathInv, OutcomeOK, InstancesOK
  <1>4. QED
    BY <1>1, <1>2, <1>3, KindsDiffer

-----------------------------------------------------------------------------
(* The steps of an execution that nobody else notices.                       *)

\* Where nothing was raised or returned and a request is bound, the calls go on.
LEMMA CallsGoOn ==
  ASSUME PathInv, ~Over, plan' = plan, signal' = Nothing, outcome' = outcome,
         active' \in RequestObjects, UNCHANGED <<cache, built>>, ended' = ended,
         spoilt' \in 0..2, FramesOK'
  PROVE  PathInv'
  <1>1. SignalOK' /\ EndedOK'
    BY DEF PathInv, SignalOK, EndedOK
  <1>2. InstancesOK' /\ OutcomeOK'
    BY DEF PathInv, InstancesOK, OutcomeOK, Over
  <1>3. QED
    BY <1>1, <1>2 DEF PathInv

\* So they do after a step that leaves everything but the stack as it was.
LEMMA NobodyNotices ==
  ASSUME PathInv, plan' = plan, signal = Nothing, signal' = signal, outcome' = outcome,
         UNCHANGED held, ended' = ended, spoilt' \in 0..2, FramesOK', frames # <<>>
  PROVE  PathInv'
  <1>1. /\ ~Over /\ active' \in RequestObjects /\ UNCHANGED <<cache, built>>
        /\ signal' = Nothing
    BY Goes DEF held
  <1>2. QED
    BY <1>1, CallsGoOn

\* An execution goes on to a stage where it is sound.
LEMMA Proceeds ==
  ASSUME PathInv, signal = Nothing, frames # <<>>, Quietly, Top \in Executions,
         NEW f \in Executions, f.kind = Top.kind, Sound(f, spoilt), Becomes(f)
  PROVE  PathInv'
  <1>1. plan' = plan /\ spoilt' \in 0..2 /\ spoilt' >= spoilt /\ spoilt' = spoilt
    BY DEF PathInv, Quietly
  <1>2. FramesOK' /\ frames' # <<>>
    BY <1>1, TopBecomes
  <1>3. QED
    BY <1>1, <1>2, NobodyNotices DEF Quietly

\* An execution at a stage of its route is sound if it knows whether it has a controller.
LEMMA AtAStage ==
  ASSUME NEW f \in Executions, NEW n, f.kind = "route", Steady(f),
         \/ f.at \in BeforeController /\ ~f.controller
         \/ f.at \in AfterController /\ f.controller
  PROVE  Sound(f, n)
  BY DEF Sound, BeforeController, AfterController, Rescues

\* What an execution is at one of its stages.
LEMMA InRouteIs ==
  ASSUME PathInv, NEW at \in BeforeController \union AfterController, InRoute(at)
  PROVE  /\ signal = Nothing /\ frames # <<>> /\ Top \in Executions /\ Top.kind = "route"
         /\ Top.at = at /\ Steady(Top) /\ Sound(Top, spoilt)
         /\ IF at \in BeforeController THEN ~Top.controller ELSE Top.controller
  <1>1. signal = Nothing /\ frames # <<>> /\ Top.kind = "route" /\ Top.at = at
    BY DEF InRoute, Running
  <1>2. Top \in Executions /\ Top \notin Links
    BY <1>1, Goes, KindsDiffer
  <1>3. Steady(Top) /\ Sound(Top, spoilt)
    BY <1>1, <1>2, Goes
  <1>4. IF at \in BeforeController THEN ~Top.controller ELSE Top.controller
    BY <1>1, <1>3 DEF Sound
  <1>5. QED
    BY <1>1, <1>2, <1>3, <1>4

\* Each step of a route keeps the invariant.
LEMMA ObserveStep == PathInv /\ Observe => PathInv'
  <1> SUFFICES ASSUME PathInv, Observe
               PROVE  PathInv'
    OBVIOUS
  <1>1. /\ signal = Nothing /\ frames # <<>> /\ Top \in Executions /\ Top.kind = "route"
        /\ Steady(Top) /\ ~Top.controller
    BY InRouteIs DEF Observe, BeforeController
  <1>2. PICK t : t = Top
    OBVIOUS
  <1> DEFINE context == IF plan.observed THEN "bare" ELSE Nothing
             observation == IF plan.observed THEN "open" ELSE "none"
             f == [t EXCEPT !.at = "gate", !.context = context, !.observation = observation]
  <1>3. /\ f \in Executions /\ f.kind = t.kind /\ f.at = "gate" /\ f.controller = t.controller
        /\ f.context = context /\ f.filters = t.filters /\ f.observation = observation
    <2>1. context \in {"bare", Nothing} /\ observation \in {"open", "none"}
      OBVIOUS
    <2> HIDE DEF context, observation
    <2>2. QED
      BY <1>1, <1>2, <2>1 DEF Executions, BeforeController
  <1>4. Becomes(f) /\ Quietly
    BY <1>2 DEF Observe
  <1> HIDE DEF f
  <1>5. Steady(f)
    BY <1>1, <1>2, <1>3, PathAssumption DEF Steady
  <1>6. QED
    BY <1>1, <1>2, <1>3, <1>4, <1>5, AtAStage, Proceeds DEF BeforeController

LEMMA GateStep == PathInv /\ Gate => PathInv'
  <1> SUFFICES ASSUME PathInv, Gate
               PROVE  PathInv'
    OBVIOUS
  <1>1. /\ signal = Nothing /\ frames # <<>> /\ Top \in Executions /\ Top.kind = "route"
        /\ Steady(Top) /\ ~Top.controller
    BY InRouteIs DEF Gate, BeforeController
  <1>2. PICK t : t = Top
    OBVIOUS
  <1> DEFINE f == [t EXCEPT !.at = IF plan.guarded THEN "guards" ELSE "controller",
                            !.context = IF plan.guarded THEN "bare" ELSE @,
                            !.filters = DOMAIN plan.filters]
  <1>3. /\ f \in Executions /\ f.kind = t.kind /\ f.at \in {"guards", "controller"}
        /\ f.controller = t.controller /\ f.context \in {"bare", t.context}
        /\ f.filters = DOMAIN plan.filters /\ f.observation = t.observation
    <2>1. DOMAIN plan.filters \in SUBSET Nat
      BY TypesOfExceptions DEF PathInv
    <2>2. QED
      BY <1>1, <1>2, <2>1 DEF Executions, BeforeController
  <1>4. Becomes(f) /\ Quietly
    BY <1>2 DEF Gate
  <1> HIDE DEF f
  <1>5. Steady(f)
    BY <1>1, <1>2, <1>3, PathAssumption DEF Steady
  <1>6. QED
    BY <1>1, <1>2, <1>3, <1>4, <1>5, AtAStage, Proceeds DEF BeforeController

LEMMA GuardsAdmitStep == PathInv /\ GuardsAdmit => PathInv'
  <1> SUFFICES ASSUME PathInv, GuardsAdmit
               PROVE  PathInv'
    OBVIOUS
  <1>1. /\ signal = Nothing /\ frames # <<>> /\ Top \in Executions /\ Top.kind = "route"
        /\ Steady(Top) /\ ~Top.controller
    BY InRouteIs DEF GuardsAdmit, BeforeController
  <1>2. PICK t : t = Top
    OBVIOUS
  <1> DEFINE f == [t EXCEPT !.at = "controller"]
  <1>3. /\ f \in Executions /\ f.kind = t.kind /\ f.at = "controller"
        /\ f.controller = t.controller /\ f.context = t.context /\ f.filters = t.filters
        /\ f.observation = t.observation
    BY <1>1, <1>2 DEF Executions, BeforeController
  <1>4. Becomes(f) /\ Quietly
    BY <1>2 DEF GuardsAdmit
  <1> HIDE DEF f
  <1>5. Steady(f)
    BY <1>1, <1>2, <1>3 DEF Steady
  <1>6. QED
    BY <1>1, <1>2, <1>3, <1>4, <1>5, AtAStage, Proceeds DEF BeforeController

\* An execution fails where it is.
LEMMA FailsInRoute ==
  ASSUME PathInv, signal = Nothing, frames # <<>>, Quietly, Top \in Executions,
         Top.kind = "route", NEW f \in Executions, f.kind = "route", Steady(f),
         NEW e \in DOMAIN Mro, Becomes(Fails(f, e))
  PROVE  PathInv'
  <1>1. plan \in Plans
    BY DEF PathInv
  <1>2. /\ Fails(f, e) \in Executions /\ Fails(f, e).kind = f.kind
        /\ Sound(Fails(f, e), spoilt)
    BY <1>1, FailsIsSound
  <1>3. QED
    BY <1>2, Proceeds

\* What a stage is handed.
LEMMA HandedIs ==
  ASSUME NEW t \in Executions, t.kind = "route", t.controller, Steady(t), NEW f \in Handed(t)
  PROVE  /\ f \in Executions /\ f.kind = "route" /\ f.controller /\ f.at = t.at
         /\ f.filters = t.filters /\ f.observation = t.observation
         /\ Steady(f)
  <1> DEFINE context == IF t.context = Nothing THEN "full" ELSE t.context
             g == [t EXCEPT !.context = context]
  <1>1. f = t \/ f = g
    BY DEF Handed, Executions
  <1>2. /\ g \in Executions /\ g.kind = "route" /\ g.controller /\ g.at = t.at
        /\ g.filters = t.filters /\ g.observation = t.observation /\ g.context = context
    <2>1. context \in {Nothing, "bare", "full"} /\ t.controller \in BOOLEAN
      BY DEF Executions
    <2> HIDE DEF context
    <2>2. QED
      BY <2>1 DEF Executions
  <1> HIDE DEF g
  <1>3. Steady(g)
    BY <1>2, PathAssumption DEF Steady
  <1>4. QED
    BY <1>1, <1>2, <1>3

LEMMA BindParametersStep == PathInv /\ BindParameters => PathInv'
  <1> SUFFICES ASSUME PathInv, BindParameters
               PROVE  PathInv'
    OBVIOUS
  <1>1. /\ signal = Nothing /\ frames # <<>> /\ Top \in Executions /\ Top.kind = "route"
        /\ Steady(Top) /\ Top.controller
    BY InRouteIs DEF BindParameters, BeforeController, AfterController
  <1>2. Quietly /\ plan \in Plans
    BY DEF BindParameters, PathInv
  <1>3. PICK f \in Handed(Top), sent \in plan.contents :
          \/ Becomes([f EXCEPT !.at = "call", !.arguments = BoundTo(plan.handler, sent)])
          \/ Becomes(Fails(f, "ParameterBindingError"))
          \/ Becomes(Fails(f, "TooLarge"))
    BY DEF BindParameters
  <1>4. /\ f \in Executions /\ f.kind = "route" /\ f.controller /\ Steady(f)
    BY <1>1, HandedIs
  <1>5. CASE Becomes([f EXCEPT !.at = "call", !.arguments = BoundTo(plan.handler, sent)])
    <2> DEFINE g == [f EXCEPT !.at = "call", !.arguments = BoundTo(plan.handler, sent)]
    <2>1. BoundTo(plan.handler, sent) \in Bindings
      BY <1>2 DEF Bindings
    <2>2. /\ g \in Executions /\ g.kind = f.kind /\ g.at = "call" /\ g.controller = f.controller
          /\ g.context = f.context /\ g.filters = f.filters /\ g.observation = f.observation
      BY <1>4, <2>1 DEF Executions, AfterController
    <2>3. Becomes(g)
      BY <1>5
    <2> HIDE DEF g
    <2>4. Steady(g)
      BY <1>4, <2>2 DEF Steady
    <2>5. QED
      BY <1>1, <1>2, <1>4, <2>2, <2>3, <2>4, AtAStage, Proceeds DEF AfterController
  <1>6. CASE Becomes(Fails(f, "ParameterBindingError"))
    BY <1>1, <1>2, <1>4, <1>6, TypesOfExceptions, FailsInRoute
  <1>7. CASE Becomes(Fails(f, "TooLarge"))
    BY <1>1, <1>2, <1>4, <1>7, TypesOfExceptions, FailsInRoute
  <1>8. QED
    BY <1>3, <1>5, <1>6, <1>7

LEMMA CallHandlerStep == PathInv /\ CallHandler => PathInv'
  <1> SUFFICES ASSUME PathInv, CallHandler
               PROVE  PathInv'
    OBVIOUS
  <1>1. /\ signal = Nothing /\ frames # <<>> /\ Top \in Executions /\ Top.kind = "route"
        /\ Steady(Top) /\ Top.controller
    BY InRouteIs DEF CallHandler, BeforeController, AfterController
  <1>2. PICK f \in Handed(Top) : Becomes([f EXCEPT !.at = "write", !.arguments = Nothing])
    BY DEF CallHandler
  <1>3. f \in Executions /\ f.kind = "route" /\ f.controller /\ Steady(f)
    BY <1>1, HandedIs
  <1> DEFINE g == [f EXCEPT !.at = "write", !.arguments = Nothing]
  <1>4. /\ g \in Executions /\ g.kind = f.kind /\ g.at = "write" /\ g.controller = f.controller
        /\ g.context = f.context /\ g.filters = f.filters /\ g.observation = f.observation
    BY <1>3 DEF Executions, AfterController, Bindings
  <1>5. Becomes(g) /\ Quietly
    BY <1>2 DEF CallHandler
  <1> HIDE DEF g
  <1>6. Steady(g)
    BY <1>3, <1>4 DEF Steady
  <1>7. QED
    BY <1>1, <1>3, <1>4, <1>5, <1>6, AtAStage, Proceeds DEF AfterController

LEMMA StageFailsStep == PathInv /\ StageFails => PathInv'
  <1> SUFFICES ASSUME PathInv, StageFails
               PROVE  PathInv'
    OBVIOUS
  <1>1. PICK at \in {"gate", "guards", "controller", "binding", "call", "write"} : InRoute(at)
    BY DEF StageFails, InRoute
  <1>2. /\ signal = Nothing /\ frames # <<>> /\ Top \in Executions /\ Top.kind = "route"
        /\ Steady(Top) /\ Quietly
    BY <1>1, InRouteIs DEF StageFails, BeforeController, AfterController
  <1>3. PICK t : t = Top
    OBVIOUS
  <1> DEFINE f == [t EXCEPT !.arguments = Nothing]
  <1>4. /\ f \in Executions /\ f.kind = t.kind /\ f.controller = t.controller
        /\ f.context = t.context /\ f.filters = t.filters /\ f.observation = t.observation
    BY <1>2, <1>3 DEF Executions, Bindings
  <1>5. PICK e : \/ e \in Raised \union {"Timeout"} /\ Becomes(Fails(f, e))
                 \/ e \in {"Refused", "TypeError"} /\ Becomes(Fails(t, e))
    BY <1>3 DEF StageFails
  <1>6. e \in DOMAIN Mro
    BY <1>5, TypesOfExceptions
  <1> HIDE DEF f
  <1>7. Steady(f)
    BY <1>2, <1>3, <1>4 DEF Steady
  <1>8. QED
    BY <1>2, <1>3, <1>4, <1>5, <1>6, <1>7, FailsInRoute

-----------------------------------------------------------------------------
(* The filters.                                                              *)

\* Only an execution is at the chain of its filters, or about to resolve them.
LEMMA AtRescue ==
  ASSUME PathInv, frames # <<>>,
         Top.at \in Rescues \union {"try", "resolve"}
  PROVE  Top \in Executions /\ Steady(Top) /\ Sound(Top, spoilt)
  BY Goes DEF Links, Rescues

\* What an execution is while its filters are asked.
LEMMA InChainIs ==
  ASSUME PathInv, InChain
  PROVE  /\ signal = Nothing /\ frames # <<>> /\ Top \in Executions
         /\ Steady(Top) /\ Sound(Top, spoilt) /\ Top.at \in {"try", "except"}
         /\ Top.context = IF Top.controller THEN "full" ELSE "bare"
         /\ Top.error \in DOMAIN Mro
         /\ Top.filters \in SUBSET DOMAIN plan.filters
         /\ Top.asked \subseteq MatchingFilters(Top.error, Top.filters)
         /\ Top.kind = "rendering" /\ Top.at = "except" => spoilt > 0
         /\ Top.at = "try" => Top.kind = "rendering"
  <1>1. signal = Nothing /\ frames # <<>> /\ Top.at \in {"try", "except"}
    BY DEF InChain
  <1>2. Top \in Executions /\ Steady(Top) /\ Sound(Top, spoilt)
    BY <1>1, AtRescue DEF Rescues
  <1>3. Top.kind \in {"route", "rendering"}
    BY <1>2, KindsDiffer
  <1>4. QED
    BY <1>1, <1>2, <1>3 DEF Sound, Rescues

\* Each step of the filters keeps it.
LEMMA ResolveGlobalsStep == PathInv /\ ResolveGlobals => PathInv'
  <1> SUFFICES ASSUME PathInv, ResolveGlobals
               PROVE  PathInv'
    OBVIOUS
  <1>1. signal = Nothing /\ frames # <<>> /\ Top.at = "resolving globals" /\ Quietly
    BY DEF ResolveGlobals
  <1>2. Top \in Executions /\ Steady(Top) /\ Sound(Top, spoilt)
    BY <1>1, AtRescue DEF Rescues
  <1>3. /\ Top.context = IF Top.controller THEN "full" ELSE "bare"
        /\ Top.error \in DOMAIN Mro
        /\ Top.kind = "rendering" => spoilt > 0
    BY <1>1, <1>2 DEF Sound, Rescues
  <1>4. PICK filters \in {plan.globals, {}} :
          Becomes(Asking(Top, Top.error, filters, "except"))
    BY DEF ResolveGlobals
  <1>5. plan \in Plans /\ filters \in SUBSET DOMAIN plan.filters
    BY TypesOfExceptions DEF PathInv
  <1>6. PICK f : f = Asking(Top, Top.error, filters, "except")
    OBVIOUS
  <1>7. f \in Executions /\ f.kind = Top.kind /\ Sound(f, spoilt)
    BY <1>2, <1>3, <1>5, <1>6, AskingIsSound
  <1>8. QED
    BY <1>1, <1>2, <1>4, <1>6, <1>7, Proceeds

LEMMA DeclineStep == PathInv /\ Decline => PathInv'
  <1> SUFFICES ASSUME PathInv, Decline
               PROVE  PathInv'
    OBVIOUS
  <1>1. InChain /\ Quietly /\ Becomes([Top EXCEPT !.asked = @ \ {Asked}])
    BY DEF Decline
  <1>2. /\ signal = Nothing /\ frames # <<>> /\ Top \in Executions
        /\ Steady(Top) /\ Sound(Top, spoilt)
        /\ Top.asked \subseteq MatchingFilters(Top.error, Top.filters)
    BY <1>1, InChainIs
  <1>3. PICK t : t = Top
    OBVIOUS
  <1>4. PICK first : first = Asked
    OBVIOUS
  <1> DEFINE f == [t EXCEPT !.asked = @ \ {first}]
  <1>5. /\ f \in Executions /\ f.kind = t.kind /\ f.at = t.at /\ f.controller = t.controller
        /\ f.context = t.context /\ f.filters = t.filters /\ f.observation = t.observation
        /\ f.error = t.error /\ f.asked \subseteq t.asked
    BY <1>2, <1>3 DEF Executions
  <1>6. Becomes(f)
    BY <1>1, <1>3, <1>4
  <1> HIDE DEF f
  <1>7. Sound(f, spoilt)
    BY <1>2, <1>3, <1>5 DEF Sound, Steady
  <1>8. QED
    BY <1>1, <1>2, <1>3, <1>5, <1>6, <1>7, Proceeds

LEMMA FilterRaisesStep == PathInv /\ FilterRaises => PathInv'
  <1> SUFFICES ASSUME PathInv, FilterRaises
               PROVE  PathInv'
    OBVIOUS
  <1>1. InChain /\ Quietly /\ plan \in Plans
    BY DEF FilterRaises, PathInv
  <1>2. /\ signal = Nothing /\ frames # <<>> /\ Top \in Executions
        /\ Steady(Top) /\ Sound(Top, spoilt) /\ Top.at \in {"try", "except"}
        /\ Top.context = IF Top.controller THEN "full" ELSE "bare"
        /\ Top.filters \in SUBSET DOMAIN plan.filters
        /\ Top.kind = "rendering" /\ Top.at = "except" => spoilt > 0
        /\ Top.at = "try" => Top.kind = "rendering"
    BY <1>1, InChainIs
  <1>3. PICK e \in Raised :
          Becomes([Asking(Top, e, Top.filters, Top.at) EXCEPT !.reentered = TRUE])
    BY DEF FilterRaises
  <1>4. e \in DOMAIN Mro
    BY TypesOfExceptions
  <1>5. PICK a : a = Asking(Top, e, Top.filters, Top.at)
    OBVIOUS
  <1>6. a \in Executions /\ a.kind = Top.kind /\ Sound(a, spoilt)
    BY <1>1, <1>2, <1>4, <1>5, AskingIsSound
  <1> DEFINE f == [a EXCEPT !.reentered = TRUE]
  <1>7. /\ f \in Executions /\ f.kind = a.kind /\ f.at = a.at /\ f.controller = a.controller
        /\ f.context = a.context /\ f.filters = a.filters /\ f.observation = a.observation
        /\ f.error = a.error /\ f.asked = a.asked
    BY <1>6 DEF Executions
  <1>8. Becomes(f)
    BY <1>3, <1>5
  <1> HIDE DEF f
  <1>9. Sound(f, spoilt)
    BY <1>6, <1>7 DEF Sound, Steady
  <1>10. QED
    BY <1>1, <1>2, <1>6, <1>7, <1>8, <1>9, Proceeds

\* A rendering that resolves the filters of its route, or one more failure to render.
LEMMA ResolveStep == PathInv /\ Resolve => PathInv'
  <1> SUFFICES ASSUME PathInv, Resolve
               PROVE  PathInv'
    OBVIOUS
  <1>1. /\ signal = Nothing /\ frames # <<>> /\ Top.kind = "rendering" /\ Top.at = "resolve"
        /\ plan \in Plans /\ spoilt \in 0..2
        /\ UNCHANGED <<plan, signal, outcome, calls, held, ended>>
    BY DEF Resolve, Running, PathInv
  <1>2. Top \in Executions /\ Steady(Top) /\ Sound(Top, spoilt)
    BY <1>1, AtRescue DEF Rescues
  <1>3. /\ Top.context = IF Top.controller THEN "full" ELSE "bare"
        /\ Top.error \in DOMAIN Mro
    BY <1>1, <1>2 DEF Sound, Steady
  <1>4. PICK t : t = Top
    OBVIOUS
  <1> DEFINE observation == IF plan.observed THEN "open" ELSE "none"
  <1>5. CASE /\ Becomes([Asking(t, t.error, DOMAIN plan.filters, "try") EXCEPT
                           !.observation = observation])
             /\ spoilt' = spoilt
    <2>1. PICK a : a = Asking(t, t.error, DOMAIN plan.filters, "try")
      OBVIOUS
    <2>2. a \in Executions /\ a.kind = t.kind /\ Sound(a, spoilt) /\ Steady(a)
      <3>1. a \in Executions /\ a.kind = t.kind /\ Sound(a, spoilt)
        BY <1>1, <1>2, <1>3, <1>4, <2>1, AskingIsSound
      <3>2. QED
        BY <3>1 DEF Sound
    <2> DEFINE f == [a EXCEPT !.observation = observation]
    <2>3. /\ f \in Executions /\ f.kind = a.kind /\ f.at = a.at /\ f.controller = a.controller
          /\ f.context = a.context /\ f.filters = a.filters /\ f.observation = observation
          /\ f.error = a.error /\ f.asked = a.asked
      <3>1. observation \in {"open", "none"}
        OBVIOUS
      <3> HIDE DEF observation
      <3>2. QED
        BY <2>2, <3>1 DEF Executions
    <2>4. Becomes(f)
      BY <1>5, <2>1
    <2> HIDE DEF f
    <2>5. Steady(f)
      BY <2>2, <2>3 DEF Steady
    <2>6. Sound(f, spoilt)
      BY <2>2, <2>3, <2>5 DEF Sound
    <2>7. QED
      BY <1>1, <1>2, <1>4, <1>5, <2>2, <2>3, <2>4, <2>6, Proceeds DEF Quietly
  <1>6. ASSUME NEW e \in Raised, Becomes(Fails(t, e)), Spoils
        PROVE  PathInv'
    <2>1. spoilt' \in 0..2 /\ spoilt' >= spoilt /\ spoilt' > 0
      BY <1>1, <1>6 DEF Spoils
    <2>2. PICK f : f = Fails(t, e)
      OBVIOUS
    <2>3. f \in Executions /\ f.kind = t.kind /\ Sound(f, spoilt')
      BY <1>1, <1>2, <1>4, <2>1, <2>2, TypesOfExceptions, FailsIsSound
    <2>4. FramesOK' /\ frames' # <<>>
      BY <1>1, <1>2, <1>4, <1>6, <2>1, <2>2, <2>3, TopBecomes
    <2>5. QED
      BY <1>1, <2>1, <2>4, NobodyNotices
  <1>7. QED
    BY <1>4, <1>5, <1>6 DEF Resolve

-----------------------------------------------------------------------------
(* How an execution ends.                                                    *)

\* The observation is closed where there is one to close.
LEMMA ClosedIs ==
  ASSUME NEW f \in Executions, Steady(f), plan.observed \in BOOLEAN
  PROVE  IF plan.observed THEN Closed(f).observation \in {"none", "closed"}
                          ELSE Closed(f).observation = "none"
  BY DEF Closed, Executions, Steady

\* An execution that answers, or that gives up because nothing can be written.
LEMMA ReturnsStep ==
  ASSUME PathInv, signal = Nothing, frames # <<>>, Top \in Executions, Steady(Top),
         plan' = plan, outcome' = outcome, spoilt' \in 0..2, spoilt' >= spoilt,
         NEW f, NEW s, Returns(f, s),
         \/ s = Response /\ f = Closed(Top)
         \/ /\ s = Error("TypeError") /\ f = Top
            /\ spoilt' = 2 \/ (spoilt' = 1 /\ Top.kind = "route")
  PROVE  PathInv'
  <1>1. /\ frames' = Front(frames) /\ signal' = s /\ cache' = cache /\ built' = built
        /\ active' = (IF Top.unbinds = Nothing THEN active ELSE Top.unbinds)
        /\ ended' = [with |-> s.is, observation |-> f.observation]
    BY DEF Returns, Leaves, Unbinds
  <1>2. ~Over /\ active \in RequestObjects /\ plan \in Plans /\ plan.observed \in BOOLEAN
    BY Goes, TypesOfExceptions DEF PathInv
  <1>3. FramesOK' /\ frames' # <<>> /\ Top'.at = CalledFrom(Top.kind)
    BY <1>1, TopLeaves
  <1>4. SignalOK'
    BY <1>1, <1>3 DEF SignalOK, CalledFrom
  <1>5. EndedOK'
    <2>1. IF plan.observed THEN Closed(Top).observation \in {"none", "closed"}
                           ELSE Closed(Top).observation = "none"
      BY <1>2, ClosedIs
    <2>2. Top.observation \in {"none", "open"} /\ (~plan.observed => Top.observation = "none")
      BY DEF Steady, Executions
    <2>3. /\ ended'.with = s.is /\ ended'.observation = f.observation
          /\ plan'.observed = plan.observed
      BY <1>1
    <2>4. CASE s = Response /\ f = Closed(Top)
      BY <1>2, <2>1, <2>3, <2>4 DEF EndedOK, Response
    <2>5. CASE s = Error("TypeError") /\ f = Top
      BY <1>2, <2>2, <2>3, <2>5 DEF EndedOK, Error
    <2>6. QED
      BY <2>4, <2>5
  <1>6. InstancesOK' /\ OutcomeOK'
    <2>1. active' \in RequestObjects
      <3>1. Top.unbinds \in RequestObjects \union {Nothing}
        BY DEF Executions
      <3>2. QED
        BY <1>1, <1>2, <3>1
    <2>2. ~Over'
      BY <1>2 DEF Over
    <2>3. QED
      BY <1>1, <1>2, <2>1, <2>2 DEF PathInv, InstancesOK, OutcomeOK
  <1>7. QED
    BY <1>3, <1>4, <1>5, <1>6 DEF PathInv

LEMMA WriteResponseStep == PathInv /\ WriteResponse => PathInv'
  <1> SUFFICES ASSUME PathInv, WriteResponse
               PROVE  PathInv'
    OBVIOUS
  <1>1. /\ signal = Nothing /\ frames # <<>> /\ Top \in Executions /\ Top.kind = "route"
        /\ Steady(Top)
    BY InRouteIs DEF WriteResponse, BeforeController, AfterController
  <1>2. CASE Becomes(Fails(Top, "Timeout")) /\ Quietly
    BY <1>1, <1>2, TypesOfExceptions, FailsInRoute
  <1>3. CASE /\ Returns(Closed(Top), Response)
             /\ UNCHANGED <<plan, outcome, calls, spoilt>>
    <2>1. spoilt' \in 0..2 /\ spoilt' >= spoilt
      BY <1>3 DEF PathInv
    <2>2. QED
      BY <1>1, <1>3, <2>1, ReturnsStep
  <1>4. QED
    BY <1>2, <1>3 DEF WriteResponse

LEMMA AnsweredStep == PathInv /\ Answered => PathInv'
  <1> SUFFICES ASSUME PathInv, Answered
               PROVE  PathInv'
    OBVIOUS
  <1>1. /\ Returns(Closed(Top), Response) /\ InChain
        /\ UNCHANGED <<plan, outcome, calls, spoilt>>
    BY DEF Answered
  <1>2. signal = Nothing /\ frames # <<>> /\ Top \in Executions /\ Steady(Top)
    BY <1>1, InChainIs
  <1>3. spoilt' \in 0..2 /\ spoilt' >= spoilt
    BY <1>1 DEF PathInv
  <1>4. QED
    BY <1>1, <1>2, <1>3, ReturnsStep

LEMMA UnwritableStep == PathInv /\ Unwritable => PathInv'
  <1> SUFFICES ASSUME PathInv, Unwritable
               PROVE  PathInv'
    OBVIOUS
  <1>1. InChain /\ Spoils /\ UNCHANGED <<plan, outcome, calls>>
    BY DEF Unwritable
  <1>2. /\ signal = Nothing /\ frames # <<>> /\ Top \in Executions /\ Steady(Top)
        /\ Top.at = "except" => Top.kind = "route" \/ spoilt > 0
    BY <1>1, InChainIs, KindsDiffer
  <1>3. /\ plan \in Plans /\ spoilt \in 0..2 /\ spoilt' \in 0..2 /\ spoilt' >= spoilt
        /\ spoilt' > 0 /\ (spoilt > 0 => spoilt' = 2)
    BY <1>1 DEF PathInv, Spoils
  <1>4. CASE Becomes(Fails(Top, "TypeError")) /\ UNCHANGED <<signal, held, ended>>
    <2>1. PICK f : f = Fails(Top, "TypeError")
      OBVIOUS
    <2>2. f \in Executions /\ f.kind = Top.kind /\ Sound(f, spoilt')
      BY <1>2, <1>3, <2>1, TypesOfExceptions, FailsIsSound
    <2>3. FramesOK' /\ frames' # <<>>
      BY <1>1, <1>2, <1>3, <1>4, <2>1, <2>2, TopBecomes
    <2>4. QED
      BY <1>1, <1>2, <1>3, <1>4, <2>3, NobodyNotices
  <1>5. CASE Top.at = "except" /\ Returns(Top, Error("TypeError"))
    <2>1. spoilt' = 2 \/ (spoilt' = 1 /\ Top.kind = "route")
      BY <1>2, <1>3, <1>5
    <2>2. QED
      BY <1>1, <1>2, <1>3, <1>5, <2>1, ReturnsStep
  <1>6. QED
    BY <1>4, <1>5 DEF Unwritable

\* The controller is built, and with it what is scoped to the request.
LEMMA ResolvesIs ==
  ASSUME PathInv, frames # <<>>, NEW r \in RequestObjects, Resolves(r), outcome' = outcome
  PROVE  /\ cache' \in [RequestObjects -> BOOLEAN] /\ built' \in [RequestObjects -> 0..1]
         /\ \A q \in RequestObjects : built'[q] = 1 => cache'[q]
  <1>1. /\ cache \in [RequestObjects -> BOOLEAN] /\ built \in [RequestObjects -> 0..1]
        /\ ~Over /\ \A q \in RequestObjects : built[q] = 1 => cache[q]
    BY Goes DEF PathInv, InstancesOK
  <1>2. QED
    BY <1>1 DEF Resolves

LEMMA BuildControllerStep == PathInv /\ BuildController => PathInv'
  <1> SUFFICES ASSUME PathInv, BuildController
               PROVE  PathInv'
    OBVIOUS
  <1>1. /\ signal = Nothing /\ frames # <<>> /\ Top \in Executions /\ Top.kind = "route"
        /\ Steady(Top) /\ ~Top.controller
    BY InRouteIs DEF BuildController, BeforeController
  <1>2. PICK t : t = Top
    OBVIOUS
  <1> DEFINE f == [t EXCEPT !.at = "binding", !.controller = TRUE, !.context = Nothing]
  <1>3. /\ f \in Executions /\ f.kind = t.kind /\ f.at = "binding" /\ f.controller
        /\ f.context = Nothing /\ f.filters = t.filters /\ f.observation = t.observation
    BY <1>1, <1>2 DEF Executions, AfterController
  <1>4. /\ Becomes(f) /\ Resolves(t.request)
        /\ UNCHANGED <<plan, signal, outcome, calls, active, ended, spoilt>>
    BY <1>2 DEF BuildController
  <1> HIDE DEF f
  <1>5. Steady(f)
    BY <1>1, <1>2, <1>3, PathAssumption DEF Steady
  <1>6. Sound(f, spoilt)
    BY <1>1, <1>2, <1>3, <1>5, AtAStage DEF AfterController
  <1>7. spoilt' \in 0..2 /\ spoilt' >= spoilt /\ spoilt' = spoilt
    BY <1>4 DEF PathInv
  <1>8. FramesOK' /\ frames' # <<>>
    BY <1>1, <1>2, <1>3, <1>4, <1>6, <1>7, TopBecomes
  <1>9. /\ cache' \in [RequestObjects -> BOOLEAN] /\ built' \in [RequestObjects -> 0..1]
        /\ \A q \in RequestObjects : built'[q] = 1 => cache'[q]
    <2>1. t.request \in RequestObjects
      BY <1>1, <1>2 DEF Executions
    <2>2. QED
      BY <1>1, <1>4, <2>1, ResolvesIs
  <1>10. ~Over /\ active \in RequestObjects
    BY <1>1, Goes
  <1>11. InstancesOK' /\ OutcomeOK'
    BY <1>4, <1>9, <1>10 DEF InstancesOK, OutcomeOK, Over
  <1>12. SignalOK' /\ EndedOK'
    BY <1>1, <1>4 DEF PathInv, SignalOK, EndedOK
  <1>13. QED
    BY <1>4, <1>7, <1>8, <1>11, <1>12 DEF PathInv

-----------------------------------------------------------------------------
(* The chain.                                                                *)

\* An execution as it starts, for the request of the link that calls it.
LEMMA ExecutionStarts ==
  ASSUME PathInv, NEW kind \in {"route", "rendering"}, NEW r \in RequestObjects,
         NEW e \in {Nothing} \union DOMAIN Mro, kind = "rendering" => e \in DOMAIN Mro
  PROVE  /\ Execution(kind, r, e) \in Executions /\ Execution(kind, r, e).kind = kind
         /\ Sound(Execution(kind, r, e), spoilt)
  <1> DEFINE at == IF kind = "route" THEN "observe" ELSE "resolve"
             context == IF kind = "route" THEN Nothing ELSE "bare"
             unbinds == IF active = r THEN Nothing ELSE active
             f == Execution(kind, r, e)
  <1>1. at \in {"observe", "resolve"} /\ context \in {Nothing, "bare"}
    OBVIOUS
  <1>2. unbinds \in RequestObjects \union {Nothing}
    BY DEF PathInv, InstancesOK
  <1>3. f = [kind |-> kind, request |-> r, at |-> at, context |-> context,
             controller |-> FALSE, arguments |-> Nothing, filters |-> Nothing,
             observation |-> "none", error |-> e, asked |-> {}, reentered |-> FALSE,
             unbinds |-> unbinds]
    BY DEF Execution
  <1> HIDE DEF at, context, unbinds, f
  <1>4. f \in Executions
    BY <1>1, <1>2, <1>3 DEF Executions, Bindings, BeforeController
  <1>5. /\ f.kind = kind /\ f.at = at /\ f.context = context /\ f.controller = FALSE
        /\ f.filters = Nothing /\ f.observation = "none" /\ f.error = e
    BY <1>3
  <1>6. Steady(f)
    BY <1>5, PathAssumption DEF Steady, context
  <1>7. Sound(f, spoilt)
    BY <1>5, <1>6 DEF Sound, at, BeforeController, AfterController, Rescues
  <1>8. QED
    BY <1>4, <1>5, <1>7 DEF f

\* A link that renders what was raised in it.
LEMMA RendersStep ==
  ASSUME PathInv, frames # <<>>, Top \in Links, NEW e \in DOMAIN Mro, Renders(e),
         UNCHANGED <<plan, outcome, calls, ended, spoilt>>
  PROVE  PathInv'
  <1>1. /\ Calls([Top EXCEPT !.at = "rendering"], Execution("rendering", Top.request, e))
        /\ signal' = Nothing /\ active' = Top.request /\ UNCHANGED <<cache, built>>
    BY DEF Renders, Enters
  <1>2. PICK t \in Links : t = Top
    OBVIOUS
  <1>3. PICK g : g = Execution("rendering", t.request, e)
    OBVIOUS
  <1>4. t.request \in RequestObjects
    BY DEF Links
  <1>5. g \in Executions /\ g.kind = "rendering" /\ Sound(g, spoilt)
    BY <1>3, <1>4, ExecutionStarts
  <1> DEFINE f == [t EXCEPT !.at = "rendering"]
  <1>6. f \in Links /\ f.at = CalledFrom(g.kind)
    BY <1>5 DEF Links, CalledFrom
  <1>7. Calls(f, g)
    BY <1>1, <1>2, <1>3
  <1> HIDE DEF f
  <1>8. FramesOK'
    BY <1>5, <1>6, <1>7, TopCalls
  <1>9. ~Over /\ spoilt' \in 0..2
    BY Goes DEF PathInv
  <1>10. QED
    BY <1>1, <1>2, <1>4, <1>8, <1>9, CallsGoOn

\* A link that ends hands on an answer, or what could not be written.
LEMMA LinkLeaves ==
  ASSUME PathInv, frames # <<>>, NEW s, Leaves(s), UNCHANGED held,
         UNCHANGED <<plan, outcome, calls, ended, spoilt>>,
         s = Response \/ (s = Error("TypeError") /\ spoilt = 2)
  PROVE  PathInv'
  <1>1. /\ frames' = Front(frames) /\ signal' = s
        /\ active' = active /\ cache' = cache /\ built' = built
    BY DEF Leaves, held
  <1>2. ~Over /\ active \in RequestObjects /\ spoilt \in 0..2
    BY Goes DEF PathInv
  <1>3. FramesOK'
    BY <1>1, <1>2, TopLeaves
  <1>4. SignalOK' /\ EndedOK'
    BY <1>1 DEF PathInv, SignalOK, EndedOK
  <1>5. InstancesOK' /\ OutcomeOK'
    BY <1>1, <1>2 DEF PathInv, InstancesOK, OutcomeOK, Over
  <1>6. QED
    BY <1>3, <1>4, <1>5 DEF PathInv

\* What a link is, where it stands.
LEMMA LinkIs ==
  ASSUME PathInv, frames # <<>>,
         Top.kind = "link" \/ Top.at \in {"using", "routing", "rendering"}
  PROVE  Top \in Links
  BY Goes, KindsDiffer DEF Executions, BeforeController, AfterController, Rescues

\* Each step of the chain keeps it.
LEMMA HandleStep == PathInv /\ Handle => PathInv'
  <1> SUFFICES ASSUME PathInv, Handle
               PROVE  PathInv'
    OBVIOUS
  <1>1. /\ frames = <<>> /\ signal = Nothing /\ outcome = Nothing
        /\ frames' = <<Link(1, "asked")>> /\ active' = "asked" /\ UNCHANGED <<cache, built>>
        /\ UNCHANGED <<plan, signal, outcome, calls, ended, spoilt>>
    BY DEF Handle, Enters
  <1>2. Link(1, "asked") \in Links /\ frames' = Append(frames, Link(1, "asked"))
    BY <1>1 DEF Link, Links, RequestObjects
  <1>3. FramesOK'
    BY <1>1, <1>2, LinkStarts
  <1>4. ~Over /\ spoilt' \in 0..2 /\ active' \in RequestObjects
    BY <1>1 DEF PathInv, Over, RequestObjects
  <1>5. QED
    BY <1>1, <1>3, <1>4, CallsGoOn

LEMMA ToMiddlewareStep == PathInv /\ ToMiddleware => PathInv'
  <1> SUFFICES ASSUME PathInv, ToMiddleware
               PROVE  PathInv'
    OBVIOUS
  <1>1. /\ signal = Nothing /\ frames # <<>> /\ Top \in Links
        /\ UNCHANGED <<plan, outcome, calls, ended, spoilt>>
    BY LinkIs DEF ToMiddleware, Running
  <1>2. CASE Becomes([Top EXCEPT !.at = "using"]) /\ UNCHANGED <<signal, held>>
    <2>1. PICK f : f = [Top EXCEPT !.at = "using"]
      OBVIOUS
    <2>2. f \in Links
      BY <1>1, <2>1 DEF Links
    <2>3. spoilt' \in 0..2 /\ spoilt' >= spoilt
      BY <1>1 DEF PathInv
    <2>4. FramesOK' /\ frames' # <<>>
      BY <1>1, <1>2, <2>1, <2>2, <2>3, TopBecomes
    <2>5. QED
      BY <1>1, <1>2, <2>3, <2>4, NobodyNotices
  <1>3. CASE \E e \in Raised : Renders(e)
    BY <1>1, <1>3, TypesOfExceptions, RendersStep
  <1>4. QED
    BY <1>2, <1>3 DEF ToMiddleware

LEMMA ToRouteStep == PathInv /\ ToRoute => PathInv'
  <1> SUFFICES ASSUME PathInv, ToRoute
               PROVE  PathInv'
    OBVIOUS
  <1>1. /\ signal = Nothing /\ frames # <<>> /\ Top \in Links
        /\ Calls([Top EXCEPT !.at = "routing"], Execution("route", Top.request, Nothing))
        /\ active' = Top.request /\ UNCHANGED <<cache, built>>
        /\ UNCHANGED <<plan, signal, outcome, calls, ended, spoilt>>
    BY LinkIs DEF ToRoute, Running, Enters
  <1>2. PICK t \in Links : t = Top
    BY <1>1
  <1>3. PICK g : g = Execution("route", t.request, Nothing)
    OBVIOUS
  <1>4. t.request \in RequestObjects
    BY DEF Links
  <1>5. g \in Executions /\ g.kind = "route" /\ Sound(g, spoilt)
    BY <1>3, <1>4, ExecutionStarts
  <1> DEFINE f == [t EXCEPT !.at = "routing"]
  <1>6. f \in Links /\ f.at = CalledFrom(g.kind)
    BY <1>5 DEF Links, CalledFrom
  <1>7. Calls(f, g)
    BY <1>1, <1>2, <1>3
  <1> HIDE DEF f
  <1>8. FramesOK'
    BY <1>1, <1>5, <1>6, <1>7, TopCalls
  <1>9. ~Over /\ spoilt' \in 0..2
    BY <1>1, Goes DEF PathInv
  <1>10. QED
    BY <1>1, <1>2, <1>4, <1>8, <1>9, CallsGoOn

LEMMA CallNextStep == PathInv /\ CallNext => PathInv'
  <1> SUFFICES ASSUME PathInv, CallNext
               PROVE  PathInv'
    OBVIOUS
  <1>1. /\ signal = Nothing /\ frames # <<>> /\ Top \in Links
        /\ UNCHANGED <<plan, signal, outcome, held, ended, spoilt>>
    BY LinkIs DEF CallNext, Using, Running
  <1>2. PICK r \in {Top.request, "rewritten"} : frames' = Append(frames, Link(Top.index + 1, r))
    BY DEF CallNext
  <1>3. PICK f : f = Link(Top.index + 1, r)
    OBVIOUS
  <1>4. f \in Links
    BY <1>1, <1>3 DEF Link, Links, RequestObjects
  <1>5. FramesOK' /\ frames' # <<>>
    BY <1>1, <1>2, <1>3, <1>4, LinkStarts
  <1>6. spoilt' \in 0..2
    BY <1>1 DEF PathInv
  <1>7. QED
    BY <1>1, <1>5, <1>6, NobodyNotices

LEMMA AskContainerStep == PathInv /\ AskContainer => PathInv'
  <1> SUFFICES ASSUME PathInv, AskContainer
               PROVE  PathInv'
    OBVIOUS
  <1>1. /\ frames # <<>> /\ Resolves(active)
        /\ UNCHANGED <<plan, frames, signal, outcome, calls, active, ended, spoilt>>
    BY DEF AskContainer, Using, Running
  <1>2. ~Over /\ active \in RequestObjects
    BY <1>1, Goes
  <1>3. /\ cache' \in [RequestObjects -> BOOLEAN] /\ built' \in [RequestObjects -> 0..1]
        /\ \A q \in RequestObjects : built'[q] = 1 => cache'[q]
    BY <1>1, <1>2, ResolvesIs
  <1>4. InstancesOK' /\ OutcomeOK'
    BY <1>1, <1>2, <1>3 DEF InstancesOK, OutcomeOK, Over
  <1>5. SignalOK' /\ EndedOK'
    BY <1>1 DEF PathInv, SignalOK, EndedOK, Top, Last
  <1>6. FramesOK'
    BY <1>1, SameStack
  <1>7. QED
    BY <1>1, <1>4, <1>5, <1>6 DEF PathInv

LEMMA MiddlewareEndsStep == PathInv /\ MiddlewareEnds => PathInv'
  <1> SUFFICES ASSUME PathInv, MiddlewareEnds
               PROVE  PathInv'
    OBVIOUS
  <1>1. frames # <<>> /\ Top \in Links /\ UNCHANGED <<plan, outcome, calls, ended, spoilt>>
    BY LinkIs DEF MiddlewareEnds, Using, Running
  <1>2. CASE Leaves(Response) /\ UNCHANGED held
    BY <1>1, <1>2, LinkLeaves
  <1>3. CASE \E e \in Raised : Renders(e)
    BY <1>1, <1>3, TypesOfExceptions, RendersStep
  <1>4. QED
    BY <1>2, <1>3 DEF MiddlewareEnds

LEMMA HearStep == PathInv /\ Hear => PathInv'
  <1> SUFFICES ASSUME PathInv, Hear
               PROVE  PathInv'
    OBVIOUS
  <1>1. /\ signal # Nothing /\ frames # <<>> /\ UNCHANGED <<plan, outcome, calls, ended, spoilt>>
    BY DEF Hear
  <1>2. signal = Response \/ signal = Error("TypeError")
    BY <1>1 DEF PathInv, SignalOK
  <1>3. CASE /\ Top.at = "rendering" \/ (Top.at = "routing" /\ signal = Response)
             /\ Leaves(signal) /\ UNCHANGED held
    <2>1. signal = Response \/ (signal = Error("TypeError") /\ spoilt = 2)
      BY <1>1, <1>3 DEF PathInv, SignalOK
    <2>2. QED
      BY <1>1, <1>3, <2>1, LinkLeaves
  <1>4. CASE Top.at = "using" /\ signal' = Nothing /\ UNCHANGED <<frames, held>>
    <2>1. ~Over /\ active' \in RequestObjects /\ UNCHANGED <<cache, built>>
      BY <1>1, <1>4, Goes DEF held
    <2>2. FramesOK' /\ spoilt' \in 0..2
      BY <1>1, <1>4, SameStack DEF PathInv
    <2>3. QED
      BY <1>1, <1>4, <2>1, <2>2, CallsGoOn
  <1>5. CASE /\ Top.at \in {"using", "routing"} /\ signal # Response
             /\ Renders(signal.of)
    <2>1. Top \in Links
      BY <1>1, <1>5, LinkIs
    <2>2. signal.of = "TypeError" /\ signal.of \in DOMAIN Mro
      BY <1>2, <1>5, TypesOfExceptions DEF Error
    <2>3. QED
      BY <1>1, <1>5, <2>1, <2>2, RendersStep
  <1>6. QED
    BY <1>3, <1>4, <1>5 DEF Hear

\* The request is over, and nothing that it held is left.
LEMMA EndStep == PathInv /\ (Finish \/ Cancel) => PathInv'
  <1> SUFFICES ASSUME PathInv, Finish \/ Cancel
               PROVE  PathInv'
    OBVIOUS
  <1>1. /\ frames' = <<>> /\ active' = Nothing
        /\ cache' = [cache EXCEPT !["asked"] = FALSE]
        /\ UNCHANGED <<plan, calls, built, ended, spoilt>>
    BY DEF Finish, Cancel
  <1>2. \/ outcome' = "cancelled" /\ signal' = Nothing
        \/ /\ outcome' = signal.is /\ signal' = signal
           /\ signal = Response \/ (signal = Error("TypeError") /\ spoilt = 2)
    BY DEF Finish, Cancel, PathInv, SignalOK
  <1>3. \/ outcome' = "cancelled" /\ signal' = Nothing
        \/ outcome' = "answer" /\ signal' = Response
        \/ outcome' = "error" /\ signal' = Error("TypeError") /\ spoilt = 2
    BY <1>2 DEF Response, Error
  <1>4. outcome' # Nothing /\ plan \in Plans /\ spoilt' \in 0..2
    BY <1>1, <1>3, PathAssumption DEF PathInv
  <1>5. SignalOK' /\ EndedOK'
    BY <1>1, <1>3 DEF PathInv, SignalOK, EndedOK, Response, Error
  <1>6. InstancesOK' /\ OutcomeOK'
    BY <1>1, <1>3, <1>4 DEF PathInv, InstancesOK, OutcomeOK, Over, RequestObjects, Error
  <1>7. FramesOK'
    BY <1>1 DEF FramesOK
  <1>8. QED
    BY <1>1, <1>4, <1>5, <1>6, <1>7 DEF PathInv

-----------------------------------------------------------------------------
(* The order of the filters.                                                 *)

\* A set of numbers that is not empty has a least one.
LEMMA LeastNumber ==
  ASSUME NEW T \in SUBSET Nat, T # {}
  PROVE  \E m \in T : \A k \in T : m <= k
  <1> DEFINE R == OpToRel(<, Nat)
  <1>1. IsWellFoundedOn(R, Nat)
    BY NatLessThanWellFounded
  <1>2. R = {ss \in Nat \X Nat : ss[1] < ss[2]}
    BY DEF OpToRel
  <1> HIDE DEF R
  <1>3. PICK m \in T : \A k \in T : ~(<<k, m>> \in R)
    BY <1>1, WFMin
  <1>4. \A k \in T : ~(k < m)
    BY <1>2, <1>3
  <1>5. QED
    BY <1>4

\* The nearest of an exception's types that a matching filter declares.
LEMMA Nearest ==
  ASSUME NEW e \in DOMAIN Mro, NEW i, Matching(i, e) # {}
  PROVE  /\ Distance(i, e) \in Nat /\ Distance(i, e) \in DOMAIN Mro[e]
         /\ Mro[e][Distance(i, e)] \in Declared(i)
         /\ \A k \in DOMAIN Mro[e] : Mro[e][k] \in Declared(i) => Distance(i, e) <= k
  <1>1. DOMAIN Mro[e] \subseteq Nat /\ \A n \in DOMAIN Mro[e] : 1..(n - 1) \subseteq DOMAIN Mro[e]
    BY PathAssumption DEF IsSequence
  <1>2. PICK T : T = {n \in DOMAIN Mro[e] : Mro[e][n] \in Declared(i)}
    OBVIOUS
  <1>3. T \in SUBSET Nat /\ T # {}
    BY <1>1, <1>2 DEF Matching, ToSet
  <1>4. PICK m \in T : \A k \in T : m <= k
    BY <1>3, LeastNumber
  <1>5. \A k \in 1..(m - 1) : Mro[e][k] \notin Declared(i)
    BY <1>1, <1>2, <1>4
  <1>6. /\ Distance(i, e) \in DOMAIN Mro[e] /\ Mro[e][Distance(i, e)] \in Declared(i)
        /\ \A k \in 1..(Distance(i, e) - 1) : Mro[e][k] \notin Declared(i)
    BY <1>2, <1>5 DEF Distance
  <1>7. PICK d : d = Distance(i, e)
    OBVIOUS
  <1>8. ASSUME NEW k \in DOMAIN Mro[e], Mro[e][k] \in Declared(i)
        PROVE  d <= k
    <2>1. d \in Nat /\ k \in Nat /\ k # 0 /\ k \notin 1..(d - 1)
      BY <1>1, <1>6, <1>7, <1>8, PathAssumption DEF IsSequence
    <2>2. QED
      BY <2>1
  <1>9. QED
    BY <1>1, <1>6, <1>7, <1>8

\* Of filters that match there is always one to be asked before the others.
LEMMA SomeFilterIsFirst ==
  ASSUME NEW e \in DOMAIN Mro, NEW n \in Nat, NEW A \in SUBSET (0..n), A # {},
         \A i \in A : Matching(i, e) # {}
  PROVE  First(e, A) \in A /\ \A j \in A \ {First(e, A)} : Before(First(e, A), j, e)
  <1>1. PICK C : C = {i \in A : ~CatchAll(i)}
    OBVIOUS
  <1>2. PICK B : B = IF C # {} THEN C ELSE A
    OBVIOUS
  <1>3. B # {} /\ B \subseteq A
    BY <1>1, <1>2
  <1>4. PICK D : D = {Distance(i, e) : i \in B}
    OBVIOUS
  <1>5. D \in SUBSET Nat /\ D # {}
    BY <1>3, <1>4, Nearest
  <1>6. PICK d \in D : \A k \in D : d <= k
    BY <1>5, LeastNumber
  <1>7. PICK E : E = {i \in B : Distance(i, e) = d}
    OBVIOUS
  <1>8. E # {} /\ E \subseteq A
    BY <1>3, <1>4, <1>6, <1>7
  <1>9. PICK F : F = {n - i : i \in E}
    OBVIOUS
  <1>10. F \in SUBSET Nat /\ F # {}
    <2>1. \A j \in E : n - j \in Nat
      <3>1. \A j \in 0..n : n - j \in Nat
        OBVIOUS
      <3>2. QED
        BY <1>8, <3>1
    <2>2. QED
      BY <1>8, <1>9, <2>1
  <1>11. PICK f \in F : \A k \in F : f <= k
    BY <1>10, LeastNumber
  <1>12. PICK i \in E : f = n - i
    BY <1>9, <1>11
  <1>13. \A j \in E : j <= i
    <2>1. ASSUME NEW j \in E
          PROVE  j <= i
      <3>1. n - i <= n - j /\ i \in 0..n /\ j \in 0..n
        BY <1>8, <1>9, <1>11, <1>12
      <3>2. QED
        BY <3>1
    <2>2. QED
      BY <2>1
  <1>14. ASSUME NEW j \in A \ {i}
         PROVE  Before(i, j, e)
    <2>1. i \in B /\ i \in A /\ Distance(i, e) = d /\ d \in Nat /\ i \in 0..n /\ j \in 0..n
      BY <1>3, <1>5, <1>7, <1>12
    <2>2. CASE j \notin B
      BY <1>1, <1>2, <2>1, <2>2 DEF Before
    <2>3. CASE j \in B
      <3>1. CatchAll(i) = CatchAll(j)
        BY <1>1, <1>2, <2>1, <2>3 DEF CatchAll
      <3>2. Distance(j, e) \in Nat /\ d <= Distance(j, e)
        BY <1>4, <1>5, <1>6, <2>3
      <3>3. CASE d < Distance(j, e)
        BY <2>1, <3>1, <3>3 DEF Before
      <3>4. CASE Distance(j, e) = d
        <4>1. j \in E
          BY <1>7, <2>3, <3>4
        <4>2. i > j
          BY <1>13, <1>14, <2>1, <4>1
        <4>3. QED
          BY <2>1, <3>1, <3>4, <4>2 DEF Before
      <3>5. QED
        BY <2>1, <3>2, <3>3, <3>4
    <2>4. QED
      BY <2>2, <2>3
  <1>15. i \in A
    BY <1>8
  <1>16. QED
    BY <1>14, <1>15 DEF First

\* What the runtime's own filter is asked before is for BaseException alone.
LEMMA LimitsLast ==
  ASSUME NEW e \in DOMAIN Mro, NEW i \in Nat \ {0}, Matching(0, e) # {}, Matching(i, e) # {},
         Before(0, i, e)
  PROVE  Declared(i) = {"BaseException"}
  <1>1. Declared(0) = {"Exception"} /\ CatchAll(0)
    BY DEF Declared, CatchAll
  <1>2. CatchAll(i)
    BY <1>1 DEF Before
  <1>3. /\ Distance(0, e) \in Nat /\ Distance(i, e) \in Nat /\ Distance(0, e) \in DOMAIN Mro[e]
        /\ Mro[e][Distance(0, e)] = "Exception"
        /\ \A k \in DOMAIN Mro[e] : Mro[e][k] \in Declared(i) => Distance(i, e) <= k
    BY <1>1, Nearest
  <1>4. Distance(0, e) < Distance(i, e)
    <2>1. \/ Distance(0, e) < Distance(i, e)
          \/ 0 > i
      BY <1>1, <1>2 DEF Before
    <2>2. QED
      BY <2>1
  <1>5. "Exception" \notin Declared(i)
    BY <1>3, <1>4
  <1>6. Declared(i) # {}
    BY DEF Matching
  <1>7. QED
    BY <1>2, <1>5, <1>6 DEF CatchAll

-----------------------------------------------------------------------------
(* Theorems.                                                                 *)

\* It holds at first, and every step keeps it.
LEMMA PathInitInv == PathInit => PathInv
  <1> SUFFICES ASSUME PathInit
               PROVE  PathInv
    OBVIOUS
  <1>1. FramesOK
    BY DEF PathInit, FramesOK
  <1>2. /\ cache \in [RequestObjects -> BOOLEAN] /\ built \in [RequestObjects -> 0..1]
        /\ \A r \in RequestObjects : built[r] = 0
    BY DEF PathInit
  <1>3. QED
    BY <1>1, <1>2 DEF PathInit, PathInv, SignalOK, EndedOK, InstancesOK, OutcomeOK, Over

LEMMA PathStepInv == PathInv /\ [PathNext]_pathVars => PathInv'
  <1> SUFFICES ASSUME PathInv, [PathNext]_pathVars
               PROVE  PathInv'
    OBVIOUS
  <1>1. CASE UNCHANGED pathVars
    <2>1. /\ UNCHANGED <<plan, frames, signal, outcome, calls, ended, spoilt>>
          /\ active' = active /\ cache' = cache /\ built' = built
      BY <1>1 DEF pathVars, held
    <2>2. FramesOK'
      BY <2>1, SameStack
    <2>3. SignalOK' /\ EndedOK' /\ InstancesOK' /\ OutcomeOK'
      BY <2>1 DEF PathInv, SignalOK, EndedOK, InstancesOK, OutcomeOK, Over, Top, Last
    <2>4. QED
      BY <2>1, <2>2, <2>3 DEF PathInv
  <1>2. CASE PathNext
    BY <1>2, HandleStep, ToMiddlewareStep, ToRouteStep, CallNextStep, AskContainerStep,
       MiddlewareEndsStep, HearStep, EndStep, ObserveStep, GateStep, GuardsAdmitStep,
       BuildControllerStep, BindParametersStep, CallHandlerStep, StageFailsStep,
       WriteResponseStep, ResolveStep, ResolveGlobalsStep, DeclineStep, FilterRaisesStep,
       AnsweredStep, UnwritableStep
       DEF PathNext
  <1>3. QED
    BY <1>1, <1>2

\* Whatever the parts of the application do, the stack of a request's calls is sound: every
\* execution waits on a link that called it and has what its stage has built for it.
THEOREM PathInvariance == PathSpec => []PathInv
  BY PathInitInv, PathStepInv, PTL DEF PathSpec

\* However a request goes through its route, an execution that answers closes its
\* observation once, and one that raises leaves it open (execution.py, observability.py).
THEOREM ObservedOnce == PathSpec => []MeasuredOnce
  <1>1. PathInv => MeasuredOnce
    <2> SUFFICES ASSUME PathInv
                 PROVE  MeasuredOnce
      OBVIOUS
    <2>1. ASSUME NEW n \in DOMAIN frames, frames[n].kind # "link"
          PROVE  frames[n].observation \in {"none", "open"}
      <3>1. frames[n] \in Links \union Executions
        BY DEF PathInv, FramesOK
      <3>2. QED
        BY <2>1, <3>1 DEF Links, Executions
    <2>2. QED
      BY <2>1 DEF PathInv, EndedOK, MeasuredOnce
  <1>2. QED
    BY <1>1, PathInvariance, PTL

\* A request has one instance of what is scoped to it, however often its route runs, and
\* holds none and is bound nowhere once it is over (scopes.py, create_route_handler).
THEOREM OneInstanceEach == PathSpec => []OneInstancePerRequest
  <1>1. PathInv => OneInstancePerRequest
    <2> SUFFICES ASSUME PathInv
                 PROVE  OneInstancePerRequest
      OBVIOUS
    <2>1. \A r \in RequestObjects : built[r] \in 0..1
      BY DEF PathInv, InstancesOK
    <2>2. Over => active = Nothing /\ ~cache["asked"]
      BY DEF PathInv, OutcomeOK
    <2>3. QED
      BY <2>1, <2>2 DEF OneInstancePerRequest
  <1>2. QED
    BY <1>1, PathInvariance, PTL

\* What reaches the transport as an exception is only that a filter's answer could not be
\* written, where rendering the failure had failed before (_render_failure, render_error).
THEOREM OnlyUnwrittenEscapes == PathSpec => []EscapesOnlyUnwritten
  <1>1. PathInv => EscapesOnlyUnwritten
    BY PathAssumption DEF PathInv, OutcomeOK, EscapesOnlyUnwritten, Over
  <1>2. QED
    BY <1>1, PathInvariance, PTL

\* The filters are handed a context that names the controller if there is one, and the
\* runtime's own answers for its limits only after every filter for less than BaseException
\* (handle_exception, _matching_filters).
THEOREM FiltersInOrder == PathSpec => []FiltersAreAsked
  <1>1. PathInv => FiltersAreAsked
    <2> SUFFICES ASSUME PathInv
                 PROVE  FiltersAreAsked
      OBVIOUS
    <2>1. ContextNamesTheStage
      BY InChainIs DEF ContextNamesTheStage
    <2>2. ASSUME InChain, Top.asked # {}, Asked = 0, NEW i \in Top.asked \ {0}
          PROVE  Declared(i) = {"BaseException"}
      <3>1. PICK e, A, n : e = Top.error /\ A = Top.asked /\ n = Len(plan.filters)
        OBVIOUS
      <3>2. /\ e \in DOMAIN Mro /\ Top.filters \in SUBSET DOMAIN plan.filters
            /\ A \subseteq MatchingFilters(e, Top.filters)
        BY <2>2, <3>1, InChainIs
      <3>3. n \in Nat /\ DOMAIN plan.filters = 1..n
        BY <3>1, PathAssumption DEF PathInv, IsSequence
      <3>4. A \in SUBSET (0..n)
        <4>1. MatchingFilters(e, Top.filters) \subseteq Top.filters \union {0}
          BY DEF MatchingFilters
        <4>2. QED
          BY <3>2, <3>3, <4>1
      <3>5. \A j \in A : Matching(j, e) # {}
        BY <3>2 DEF MatchingFilters
      <3>6. First(e, A) \in A /\ \A j \in A \ {First(e, A)} : Before(First(e, A), j, e)
        BY <2>2, <3>1, <3>2, <3>3, <3>4, <3>5, SomeFilterIsFirst
      <3>7. First(e, A) = 0
        BY <2>2, <3>1 DEF Asked
      <3>8. 0 \in A /\ Before(0, i, e) /\ i \in A /\ i \in Nat \ {0}
        BY <2>2, <3>1, <3>3, <3>4, <3>6, <3>7
      <3>9. QED
        BY <3>2, <3>5, <3>8, LimitsLast
    <2>3. QED
      BY <2>1, <2>2 DEF FiltersAreAsked, LimitsAnswerLast
  <1>2. QED
    BY <1>1, PathInvariance, PTL
=============================================================================
