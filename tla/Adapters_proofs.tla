---------------------------- MODULE Adapters_proofs ----------------------------
(***************************************************************************)
(* Theorems about the adapters: the Starlette adapter's gate and server    *)
(* (GracefulShutdown), for any requests, calls of close() and number of    *)
(* times the application is served; the ASGI adapter's server              *)
(* (AsgiServer), for any connections, calls of close() and stop(), and     *)
(* number of servings.  Its router is served by an application and proved  *)
(* about in Bootstrap_proofs.                                              *)
(*                                                                         *)
(* Those about the ASGI server's teardown are for a caller that listens    *)
(* again once the former listen() has returned: one that does not is torn  *)
(* down by its former server (README).                                     *)
(***************************************************************************)
EXTENDS GracefulShutdown, AsgiServer, SequenceTheorems, FiniteSetTheorems, TLAPS

-----------------------------------------------------------------------------
(* The Starlette adapter: the inductive invariant.                           *)

\* A request inside a gate came through it, and one that has not arrived has no
\* instances.
RequestsOK ==
    \A r \in Requests :
        /\ Inside(r) => gate[r] \in Runs
        /\ request[r] = "idle" => r \notin kept

\* The only gate that still admits is the one of the server that is serving.
OneOpenGate == \A g \in bound : ~draining[g] => g = run /\ server = "serving"

\* Who is inside is being served or drained, or was left behind by a drain.
Sheltered ==
    \A r \in Requests :
        Inside(r) => \/ gate[r] \in expired
                     \/ gate[r] = run /\ server \in {"serving", "draining"}

\* The application stays up until its server has drained; close() destroys it only
\* when there is no server.
UpWhileServing ==
    /\ server \in {"serving", "draining", "tearing"} => initialized
    /\ server = "starting" \/ initialized => ~shut
    /\ \A c \in Closers : closer[c] = "tearing" => server = "off"

\* A call of close() that is past the server has outlived the run it stopped.
ClosesOK ==
    \A c \in Closers :
        /\ closes[c] <= run
        /\ closer[c] \in {"tearing", "ended"} /\ closes[c] = run => server = "off"
        /\ closer[c] = "ended" /\ closes[c] = run => ~initialized

GateInv ==
    /\ TypeOK
    /\ GateCountsRequests
    /\ RequestsOK
    /\ OneOpenGate
    /\ Sheltered
    /\ UpWhileServing
    /\ ShutMeansEmpty
    /\ ClosesOK

-----------------------------------------------------------------------------
(* What the steps have in common.                                            *)

\* The steps that take no parameter and leave the requests where they are.
ServerMoves ==
    Started \/ StartFails \/ Drain \/ Idle \/ WindowCloses \/ TornDown \/ Release

RequestMoves(r) == Resolve(r) \/ Keep(r) \/ End(r) \/ \E g \in Runs : Arrive(r, g)

CloserMoves(c) == CallClose(c) \/ Closes(c)

LEMMA AdmittedAreFinite ==
  ASSUME NEW g \in Runs
  PROVE  IsFiniteSet(Admitted(g)) /\ Cardinality(Admitted(g)) \in Nat
  BY RunsAssumption, FS_Subset, FS_CardinalityType DEF Admitted

\* Requests leave the server, the application and whoever closes it alone, but for
\* the instances they keep.
LEMMA RequestsFrame ==
  ASSUME NEW r \in Requests, RequestMoves(r)
  PROVE  UNCHANGED <<serverVars, draining, expired, bound, initialized, shut, closerVars>>
  BY DEF RequestMoves, Resolve, Keep, End, Arrive, serverVars, gateVars, appVars, closerVars

\* A call of close() leaves the gates and the requests alone, and where the server is.
LEMMA ClosersFrame ==
  ASSUME NEW c \in Closers, CloserMoves(c)
  PROVE  UNCHANGED <<server, run, gateVars, bound, requestVars>>
  BY DEF CloserMoves, CallClose, Closes, CloseShutsDown, CloseEnds, serverVars

LEMMA NextMoves ==
  ASSUME [GateNext]_allVars
  PROVE  \/ StartServing \/ ServerMoves \/ ServerEnds \/ Signal \/ UNCHANGED allVars
         \/ \E r \in Requests : RequestMoves(r)
         \/ \E c \in Closers : CloserMoves(c)
  BY DEF GateNext, ServerSteps, ServerMoves, RequestMoves, CloserMoves

-----------------------------------------------------------------------------
(* The gates: what they count, and what a step adds and takes away.          *)

LEMMA ArriveCounts ==
  ASSUME TypeOK, GateCountsRequests, NEW r \in Requests, NEW a \in Runs, Arrive(r, a)
  PROVE  GateCountsRequests'
  <1>1. CASE draining[a]
    <2>1. \A g \in Runs : Admitted(g)' = Admitted(g)
      BY <1>1 DEF TypeOK, Arrive, Admitted, Inside
    <2>2. in_flight' = in_flight
      BY <1>1 DEF Arrive
    <2>3. QED
      BY <2>1, <2>2 DEF GateCountsRequests
  <1>2. CASE ~draining[a]
    <2>1. SUFFICES ASSUME NEW g \in Runs
                   PROVE  in_flight'[g] = Cardinality(Admitted(g)')
      BY DEF GateCountsRequests
    <2>2. CASE g = a
      <3>1. Admitted(g)' = Admitted(g) \union {r} /\ r \notin Admitted(g)
        BY <1>2, <2>2 DEF TypeOK, Arrive, Admitted, Inside
      <3>2. Cardinality(Admitted(g)') = Cardinality(Admitted(g)) + 1
        BY <3>1, AdmittedAreFinite, FS_AddElement
      <3>3. in_flight'[g] = in_flight[g] + 1
        BY <1>2, <2>2 DEF TypeOK, Arrive
      <3>4. QED
        BY <3>2, <3>3 DEF GateCountsRequests
    <2>3. CASE g # a
      <3>1. Admitted(g)' = Admitted(g) /\ in_flight'[g] = in_flight[g]
        BY <1>2, <2>3 DEF TypeOK, Arrive, Admitted, Inside
      <3>2. QED
        BY <3>1 DEF GateCountsRequests
    <2>4. QED
      BY <2>2, <2>3
  <1>3. QED
    BY <1>1, <1>2

\* A request that leaves was counted: its gate does not go below zero.
LEMMA EndCounts ==
  ASSUME TypeOK, GateCountsRequests, RequestsOK, NEW r \in Requests, End(r)
  PROVE  GateCountsRequests' /\ in_flight' \in [Runs -> Nat]
  <1>1. gate[r] \in Runs
    BY DEF RequestsOK, End
  <1>2. ASSUME NEW g \in Runs, g = gate[r]
        PROVE  in_flight'[g] = Cardinality(Admitted(g)') /\ in_flight'[g] \in Nat
    <2>1. r \in Admitted(g) /\ Admitted(g)' = Admitted(g) \ {r}
      BY <1>2 DEF TypeOK, End, Admitted, Inside
    <2>2. /\ Cardinality(Admitted(g)') = Cardinality(Admitted(g)) - 1
          /\ Cardinality(Admitted(g)') \in Nat
      BY <2>1, AdmittedAreFinite, FS_RemoveElement, FS_CardinalityType
    <2>3. in_flight'[g] = in_flight[g] - 1
      BY <1>2 DEF TypeOK, End
    <2>4. QED
      BY <2>2, <2>3 DEF GateCountsRequests
  <1>3. ASSUME NEW g \in Runs, g # gate[r]
        PROVE  in_flight'[g] = Cardinality(Admitted(g)') /\ in_flight'[g] \in Nat
    <2>1. Admitted(g)' = Admitted(g) /\ in_flight'[g] = in_flight[g]
      BY <1>3 DEF TypeOK, End, Admitted, Inside
    <2>2. QED
      BY <2>1 DEF TypeOK, GateCountsRequests
  <1>4. \E f : in_flight' = [in_flight EXCEPT ![gate[r]] = f]
    BY DEF End
  <1>5. QED
    BY <1>1, <1>2, <1>3, <1>4 DEF TypeOK, GateCountsRequests

\* Every other step leaves everyone in the gate they are in.
LEMMA GatesStay ==
  ASSUME TypeOK, GateCountsRequests, UNCHANGED <<in_flight, gate>>,
         \A r \in Requests : Inside(r) <=> Inside(r)'
  PROVE  GateCountsRequests'
  <1>1. \A g \in Runs : Admitted(g)' = Admitted(g)
    BY DEF Admitted
  <1>2. QED
    BY <1>1 DEF GateCountsRequests

LEMMA GateStep == GateInv /\ [GateNext]_allVars => GateCountsRequests'
  <1> SUFFICES ASSUME GateInv, [GateNext]_allVars
               PROVE  GateCountsRequests'
    OBVIOUS
  <1>1. CASE StartServing \/ ServerMoves \/ Signal \/ UNCHANGED allVars
    <2>1. UNCHANGED <<in_flight, gate, request>>
      BY <1>1 DEF ServerMoves, StartServing, Started, StartFails, Drain, Idle, WindowCloses, TornDown,
         Release, Signal, allVars, gateVars, requestVars
    <2>2. QED
      BY <2>1, GatesStay DEF GateInv, Inside
  <1>2. CASE ServerEnds
    <2>1. UNCHANGED <<in_flight, gate>> /\ \A r \in Requests : Inside(r) <=> Inside(r)'
      BY <1>2 DEF GateInv, TypeOK, ServerEnds, Inside, gateVars
    <2>2. QED
      BY <2>1, GatesStay DEF GateInv
  <1>3. ASSUME NEW r \in Requests, RequestMoves(r)
        PROVE  GateCountsRequests'
    <2>1. CASE Resolve(r) \/ Keep(r)
      <3>1. UNCHANGED <<in_flight, gate>> /\ \A q \in Requests : Inside(q) <=> Inside(q)'
        BY <2>1 DEF GateInv, TypeOK, Resolve, Keep, Inside, gateVars
      <3>2. QED
        BY <3>1, GatesStay DEF GateInv
    <2>2. QED
      BY <1>3, <2>1, ArriveCounts, EndCounts DEF GateInv, RequestMoves
  <1>4. ASSUME NEW c \in Closers, CloserMoves(c)
        PROVE  GateCountsRequests'
    <2>1. UNCHANGED <<in_flight, gate, request>>
      BY <1>4 DEF CloserMoves, CallClose, Closes, CloseShutsDown, CloseEnds, gateVars, requestVars
    <2>2. QED
      BY <2>1, GatesStay DEF GateInv, Inside
  <1>5. QED
    BY <1>1, <1>2, <1>3, <1>4, NextMoves
-----------------------------------------------------------------------------
(* The rest of the invariant, a conjunct at a time.                          *)

LEMMA RequestsStep == GateInv /\ [GateNext]_allVars => RequestsOK'
  <1> SUFFICES ASSUME GateInv, [GateNext]_allVars
               PROVE  RequestsOK'
    OBVIOUS
  <1> USE DEF GateInv, TypeOK, RequestsOK, Inside, gateVars, appVars, requestVars
  <1>1. CASE StartServing \/ ServerMoves \/ Signal \/ UNCHANGED allVars
    BY <1>1 DEF ServerMoves, StartServing, Started, StartFails, Drain, Idle, WindowCloses, TornDown,
       Release, Signal, ForgetInstances, allVars
  <1>2. CASE ServerEnds
    BY <1>2 DEF ServerEnds
  <1>3. ASSUME NEW r \in Requests, RequestMoves(r)
        PROVE  RequestsOK'
    BY <1>3 DEF RequestMoves, Resolve, Keep, End, Arrive
  <1>4. ASSUME NEW c \in Closers, CloserMoves(c)
        PROVE  RequestsOK'
    BY <1>4 DEF CloserMoves, CallClose, Closes, CloseShutsDown, CloseEnds, ForgetInstances
  <1>5. QED
    BY <1>1, <1>2, <1>3, <1>4, NextMoves

\* Only Started opens a gate, and then no other is open.
LEMMA OpenGateStep == GateInv /\ [GateNext]_allVars => OneOpenGate'
  <1> SUFFICES ASSUME GateInv, [GateNext]_allVars
               PROVE  OneOpenGate'
    OBVIOUS
  <1> USE DEF GateInv, TypeOK, OneOpenGate, serverVars, gateVars
  <1>1. CASE Started
    BY <1>1 DEF Started
  <1>2. CASE Drain
    BY <1>2 DEF Drain
  <1>3. CASE Signal
    BY <1>3 DEF Signal
  <1>4. CASE Release
    BY <1>4 DEF Release
  <1>5. CASE \/ StartServing \/ StartFails \/ Idle \/ WindowCloses \/ TornDown \/ ServerEnds
             \/ UNCHANGED allVars
    BY <1>5 DEF StartServing, StartFails, Idle, WindowCloses, TornDown, ServerEnds, allVars
  <1>6. QED
    BY <1>1, <1>2, <1>3, <1>4, <1>5, RequestsFrame, ClosersFrame, NextMoves DEF ServerMoves

\* A drain that ends because its gate is idle leaves nobody behind.
LEMMA InsideIsCounted ==
  ASSUME GateInv, NEW r \in Requests, Inside(r), gate[r] = run
  PROVE  in_flight[run] > 0
  <1>1. run \in Runs /\ r \in Admitted(run)
    BY DEF GateInv, RequestsOK, Admitted
  <1>2. Cardinality(Admitted(run)) # 0
    BY <1>1, AdmittedAreFinite, FS_EmptySet
  <1>3. QED
    BY <1>1, <1>2, AdmittedAreFinite DEF GateInv, GateCountsRequests

LEMMA ShelterStep == GateInv /\ [GateNext]_allVars => Sheltered'
  <1> SUFFICES ASSUME GateInv, [GateNext]_allVars
               PROVE  Sheltered'
    OBVIOUS
  <1> USE DEF GateInv, TypeOK, Sheltered, Inside, serverVars, gateVars, requestVars
  <1>1. CASE Idle
    BY <1>1, InsideIsCounted DEF Idle, TearDown
  <1>2. CASE WindowCloses
    BY <1>2 DEF WindowCloses, TearDown
  <1>3. CASE StartServing \/ Started \/ StartFails \/ Drain \/ TornDown \/ Release \/ UNCHANGED allVars
    BY <1>3 DEF StartServing, Started, StartFails, Drain, TornDown, Release, allVars
  <1>4. CASE ServerEnds
    BY <1>4 DEF ServerEnds
  <1>5. CASE Signal
    BY <1>5 DEF Signal
  <1>6. ASSUME NEW r \in Requests, RequestMoves(r)
        PROVE  Sheltered'
    <2>1. CASE Resolve(r) \/ Keep(r) \/ End(r)
      BY <2>1 DEF Resolve, Keep, End
    <2>2. ASSUME NEW g \in Runs, Arrive(r, g)
          PROVE  Sheltered'
      BY <2>2 DEF Arrive, OneOpenGate
    <2>3. QED
      BY <1>6, <2>1, <2>2 DEF RequestMoves
  <1>7. QED
    BY <1>1, <1>2, <1>3, <1>4, <1>5, <1>6, ClosersFrame, NextMoves DEF ServerMoves

LEMMA UpStep == GateInv /\ [GateNext]_allVars => UpWhileServing'
  <1> SUFFICES ASSUME GateInv, [GateNext]_allVars
               PROVE  UpWhileServing'
    OBVIOUS
  <1> USE DEF GateInv, TypeOK, UpWhileServing, serverVars, appVars, closerVars
  <1>1. CASE StartServing
    BY <1>1 DEF StartServing
  <1>2. CASE ServerMoves \/ ServerEnds
    BY <1>2 DEF ServerMoves, Started, StartFails, Drain, Idle, WindowCloses, TornDown, Release,
       TearDown, ServerEnds, ForgetInstances
  <1>3. CASE Signal \/ UNCHANGED allVars
    BY <1>3 DEF Signal, allVars
  <1>4. ASSUME NEW c \in Closers, CloserMoves(c)
        PROVE  UpWhileServing'
    <2>1. CASE CallClose(c)
      BY <2>1 DEF CallClose
    <2>2. CASE CloseShutsDown(c)
      BY <2>2 DEF CloseShutsDown, StopReturned
    <2>3. CASE CloseEnds(c)
      BY <2>3 DEF CloseEnds, ForgetInstances
    <2>4. QED
      BY <1>4, <2>1, <2>2, <2>3 DEF CloserMoves, Closes
  <1>5. QED
    BY <1>1, <1>2, <1>3, <1>4, RequestsFrame, NextMoves

\* What is kept while the container refuses was asked for before, by a request the
\* drain left behind.
LEMMA ShutStep == GateInv /\ [GateNext]_allVars => ShutMeansEmpty'
  <1> SUFFICES ASSUME GateInv, [GateNext]_allVars
               PROVE  ShutMeansEmpty'
    OBVIOUS
  <1> USE DEF GateInv, TypeOK, ShutMeansEmpty, gateVars, appVars, requestVars
  <1>1. CASE StartServing \/ ServerMoves \/ ServerEnds \/ UNCHANGED allVars
    BY <1>1 DEF StartServing, ServerMoves, Started, StartFails, Drain, Idle, WindowCloses, TornDown,
       Release, ServerEnds, ForgetInstances, allVars
  <1>2. CASE Signal
    BY <1>2 DEF Signal
  <1>3. ASSUME NEW r \in Requests, RequestMoves(r)
        PROVE  ShutMeansEmpty'
    <2>1. CASE Resolve(r) \/ End(r)
      BY <2>1 DEF Resolve, End
    <2>2. CASE Keep(r)
      BY <2>2 DEF Keep, Inside, Sheltered, UpWhileServing
    <2>3. ASSUME NEW g \in Runs, Arrive(r, g)
          PROVE  ShutMeansEmpty'
      BY <2>3 DEF Arrive, RequestsOK
    <2>4. QED
      BY <1>3, <2>1, <2>2, <2>3 DEF RequestMoves
  <1>4. ASSUME NEW c \in Closers, CloserMoves(c)
        PROVE  ShutMeansEmpty'
    BY <1>4 DEF CloserMoves, CallClose, Closes, CloseShutsDown, CloseEnds, ForgetInstances
  <1>5. QED
    BY <1>1, <1>2, <1>3, <1>4, NextMoves

LEMMA ClosesStep == GateInv /\ [GateNext]_allVars => ClosesOK'
  <1> SUFFICES ASSUME GateInv, [GateNext]_allVars
               PROVE  ClosesOK'
    OBVIOUS
  <1> USE DEF GateInv, TypeOK, ClosesOK, serverVars, appVars, closerVars
  <1>1. CASE StartServing
    BY <1>1 DEF StartServing
  <1>2. CASE ServerMoves \/ ServerEnds
    BY <1>2 DEF ServerMoves, Started, StartFails, Drain, Idle, WindowCloses, TornDown, Release,
       ServerEnds, ForgetInstances
  <1>3. CASE Signal \/ UNCHANGED allVars
    BY <1>3 DEF Signal, Serving, allVars
  <1>4. ASSUME NEW c \in Closers, CloserMoves(c)
        PROVE  ClosesOK'
    <2>1. CASE CallClose(c)
      BY <2>1 DEF CallClose
    <2>2. CASE CloseShutsDown(c)
      BY <2>2 DEF CloseShutsDown, StopReturned
    <2>3. CASE CloseEnds(c)
      BY <2>3 DEF CloseEnds, ForgetInstances, UpWhileServing
    <2>4. QED
      BY <1>4, <2>1, <2>2, <2>3 DEF CloserMoves, Closes
  <1>5. QED
    BY <1>1, <1>2, <1>3, <1>4, RequestsFrame, NextMoves

-----------------------------------------------------------------------------
(* Type correctness.                                                         *)

LEMMA TypeStep == GateInv /\ [GateNext]_allVars => TypeOK'
  <1> SUFFICES ASSUME GateInv, [GateNext]_allVars
               PROVE  TypeOK'
    OBVIOUS
  <1> USE RunsAssumption DEF GateInv, TypeOK, Runs, Serving, serverVars, gateVars, appVars,
                             requestVars, closerVars
  <1>1. CASE StartServing
    <2>1. run' \in Runs
      BY <1>1 DEF StartServing
    <2>2. shut' \in BOOLEAN
      BY <1>1, Zenon DEF StartServing
    <2>3. server' = "starting" /\ should_exit' = FALSE
      BY <1>1 DEF StartServing
    <2>4. UNCHANGED <<gateVars, bound, initialized, kept, requestVars, closerVars>>
      BY <1>1 DEF StartServing
    <2>5. run' \in 0..MaxRuns
      BY <2>1
    <2>6. QED
      BY <2>1, <2>2, <2>3, <2>4, <2>5
  <1>2. CASE ServerMoves
    BY <1>2 DEF ServerMoves, Started, StartFails, Drain, Idle, WindowCloses, TornDown, Release,
       TearDown, ForgetInstances
  <1>3. CASE ServerEnds
    BY <1>3 DEF ServerEnds
  <1>4. CASE Signal
    BY <1>4 DEF Signal
  <1>5. ASSUME NEW r \in Requests, RequestMoves(r)
        PROVE  TypeOK'
    <2>1. CASE Resolve(r) \/ Keep(r)
      BY <2>1 DEF Resolve, Keep
    <2>2. CASE End(r)
      <3>1. in_flight' \in [Runs -> Nat]
        BY <2>2, EndCounts DEF End
      <3>2. QED
        BY <2>2, <3>1 DEF End
    <2>3. ASSUME NEW g \in Runs, Arrive(r, g)
          PROVE  TypeOK'
      <3>1. CASE draining[g]
        BY <2>3, <3>1 DEF Arrive
      <3>2. CASE ~draining[g]
        <4>1. g \in 0..MaxRuns
          OBVIOUS
        <4>2. gate' \in [Requests -> 0..MaxRuns]
          BY <2>3, <3>2, <4>1 DEF Arrive
        <4>3. in_flight' \in [Runs -> Nat]
          BY <2>3, <3>2 DEF Arrive
        <4>4. QED
          BY <2>3, <3>2, <4>2, <4>3 DEF Arrive
      <3>3. QED
        BY <3>1, <3>2
    <2>4. QED
      BY <1>5, <2>1, <2>2, <2>3 DEF RequestMoves
  <1>6. ASSUME NEW c \in Closers, CloserMoves(c)
        PROVE  TypeOK'
    BY <1>6 DEF CloserMoves, CallClose, Closes, CloseShutsDown, CloseEnds, StopReturned,
       ForgetInstances
  <1>7. CASE UNCHANGED allVars
    BY <1>7 DEF allVars
  <1>8. QED
    BY <1>1, <1>2, <1>3, <1>4, <1>5, <1>6, <1>7, NextMoves

-----------------------------------------------------------------------------
(* The theorems.                                                             *)

LEMMA InitInvariant == GateInit => GateInv
  <1> SUFFICES ASSUME GateInit
               PROVE  GateInv
    OBVIOUS
  <1>1. TypeOK
    <2>1. 0 \in 0..MaxRuns
      BY RunsAssumption
    <2>2. /\ gate \in [Requests -> 0..MaxRuns] /\ closes \in [Closers -> 0..MaxRuns]
          /\ in_flight \in [Runs -> Nat] /\ run \in 0..MaxRuns
      BY <2>1 DEF GateInit
    <2>3. QED
      BY <2>2 DEF GateInit, TypeOK
  <1>2. GateCountsRequests
    <2>1. \A g \in Runs : Admitted(g) = {}
      BY DEF GateInit, Admitted, Inside
    <2>2. QED
      BY <2>1, FS_EmptySet DEF GateInit, GateCountsRequests
  <1>3. QED
    BY <1>1, <1>2 DEF GateInit, GateInv, RequestsOK, OneOpenGate, Sheltered, Inside, UpWhileServing,
       ShutMeansEmpty, ClosesOK

\* The inductive invariant holds in every state: of any number of servings, requests
\* and overlapping calls of close(), with signals at any moment.
THEOREM GateInvariance == GateSpec => []GateInv
  <1>1. GateInv /\ [GateNext]_allVars => GateInv'
    BY TypeStep, GateStep, RequestsStep, OpenGateStep, ShelterStep, UpStep, ShutStep, ClosesStep
    DEF GateInv
  <1>2. QED
    BY InitInvariant, <1>1, PTL DEF GateSpec

\* The state is what the variables' comments say; no gate counts below zero.
THEOREM TypeCorrect == GateSpec => []TypeOK
  BY GateInvariance, PTL DEF GateInv

\* DrainGate counts exactly the requests it admitted that have not left it.
THEOREM GateCounts == GateSpec => []GateCountsRequests
  BY GateInvariance, PTL DEF GateInv

\* No request is served from what a teardown destroys, unless its drain window closed.
THEOREM DrainedBeforeDestroyed == GateSpec => []NobodyServedFromTheDestroyed
  <1>1. GateInv => NobodyServedFromTheDestroyed
    BY DEF GateInv, Sheltered, UpWhileServing, NobodyServedFromTheDestroyed, BeingTornDown
  <1>2. QED
    BY <1>1, GateInvariance, PTL

\* A container that refuses keeps nothing, unless a request outlasted a drain window.
THEOREM RefusingIsEmpty == GateSpec => []ShutMeansEmpty
  BY GateInvariance, PTL DEF GateInv

\* What a drain is for: DrainGate waits for exactly those it let in, and short of its
\* window closing none of them meets an instance of a container shut down.
THEOREM DrainShields == GateSpec => []DrainShieldsRequests
  BY GateCounts, DrainedBeforeDestroyed, RefusingIsEmpty, PTL DEF DrainShieldsRequests

\* Whoever has closed the application finds it closed until it is served again.
THEOREM ClosedStaysClosed == GateSpec => []CloseLeavesItClosed
  <1>1. GateInv => CloseLeavesItClosed
    BY DEF GateInv, ClosesOK, CloseLeavesItClosed
  <1>2. QED
    BY <1>1, GateInvariance, PTL

-----------------------------------------------------------------------------
(* The ASGI server: the inductive invariant.                                 *)

Stages == {"idle"} \union Running \union Ended

Connections ==
    [of : 0..MaxServings, stage : {"none", "reading", "app", "closed"}, here : BOOLEAN,
     attached : BOOLEAN, body : {"unread", "kept", "refused", "again"},
     sent : {"nothing", "started", "finished"}, ended : BOOLEAN, told : BOOLEAN]

StateOK ==
    /\ serving \in [Servings -> Stages]
    /\ stopped \in [Servings -> BOOLEAN]
    /\ lifespan \in [Servings -> {"none", "starting", "open", "tearing", "answered", "ended"}]
    /\ current \in 0..MaxServings /\ up \in 0..MaxServings
    /\ calls \in [Calls -> [stage : {"idle", "stopped", "tearing", "closed"}, of : 0..MaxServings]]
    /\ cut \subseteq Servings
    /\ conn \in [Conns -> Connections]

\* What ends an exchange ended it: the client left, or the response is complete.
ExchangesOK ==
    \A c \in Conns :
        /\ conn[c].told => conn[c].ended
        /\ conn[c].ended => ~conn[c].here \/ conn[c].sent = "finished"

\* Servers follow each other, and none follows one that was interrupted.
InTurn ==
    /\ \A s, t \in Servings :
          t < s /\ serving[s] # "idle" => serving[t] \in Ended /\ t \notin cut
    /\ \A s \in cut : serving[s] # "idle"

\* The server stop() reaches is the one that runs.
RunningIsCurrent == \A s \in Servings : serving[s] \in Running => current = s

\* An application is torn down on the way out of a server, or after an interrupt.
TeardownsOK ==
    \A s \in Servings :
        /\ lifespan[s] \in {"tearing", "answered"} =>
              serving[s] = "leaving" \/ (serving[s] = "ended" /\ s \in cut)
        /\ lifespan[s] = "answered" /\ serving[s] = "leaving" => up = 0

\* close() tears down behind the server it reached.
ClosesReachIt ==
    \A k \in Calls : calls[k].stage = "tearing" =>
        \A s \in Servings : serving[s] \in Running => calls[k].of = s

\* A server whose application is down was interrupted or closed.
DownIsBehind ==
    \A s \in Servings :
        serving[s] \in {"binding", "serving", "closing"} /\ up = 0 => TornDownBehind(s)

\* A connection that stands keeps its server from leaving, unless it was interrupted.
ConnectionsHold ==
    \A c \in Conns : conn[c].attached =>
        LET s == conn[c].of IN
        s \in Servings /\ (serving[s] \in {"serving", "closing"} \/ s \in cut)

\* The application of a server that has ended is down until the next one starts it.
EndedIsDown ==
    \A s \in Servings :
        /\ serving[s] \in {"ended", "failed"} /\ s \notin cut
        /\ \A t \in Servings : t > s => serving[t] = "idle"
        => up = 0

ServersOK ==
    /\ InTurn /\ RunningIsCurrent /\ TeardownsOK /\ ClosesReachIt
    /\ DownIsBehind /\ ConnectionsHold /\ EndedIsDown

IInv == StateOK /\ ServersOK

-----------------------------------------------------------------------------
(* The state.                                                                *)

LEMMA InitOK == Init => IInv /\ ExchangesOK
  BY AsgiServerAssumption
     DEF Init, IInv, StateOK, ServersOK, ExchangesOK, Servings, Stages, Connections, Unused,
         InTurn, RunningIsCurrent, TeardownsOK, ClosesReachIt, DownIsBehind, ConnectionsHold,
         EndedIsDown, Running, Ended

\* What a connection does changes nothing but the connection, and only Connect begins one.
LEMMA ConnChanges ==
  ASSUME conn \in [Conns -> Connections], ExchangesOK, NEW c \in Conns, ConnStep(c)
  PROVE  /\ UNCHANGED <<serving, stopped, lifespan, current, up, calls, cut>>
         /\ \E record \in Connections :
               /\ conn' = [conn EXCEPT ![c] = record]
               /\ record.attached =>
                     \/ record.of = conn[c].of /\ conn[c].attached
                     \/ record.of \in Servings /\ serving[record.of] = "serving"
               /\ record.told => record.ended
               /\ record.ended => ~record.here \/ record.sent = "finished"
  <1> DEFINE Fits(record) ==
        /\ record.attached =>
              \/ record.of = conn[c].of /\ conn[c].attached
              \/ record.of \in Servings /\ serving[record.of] = "serving"
        /\ record.told => record.ended
        /\ record.ended => ~record.here \/ record.sent = "finished"
  <1>1. /\ conn[c] \in Connections
        /\ conn[c].told => conn[c].ended
        /\ conn[c].ended => ~conn[c].here \/ conn[c].sent = "finished"
    BY DEF ExchangesOK
  <1>2. \E record \in Connections : Turns(c, record) /\ Fits(record)
    <2>1. CASE \E s \in Servings : Connect(c, s)
      <3>1. PICK s \in Servings : Connect(c, s)
        BY <2>1
      <3> DEFINE new == [conn[c] EXCEPT !.of = s, !.stage = "reading", !.attached = TRUE]
      <3>2. s \in 0..MaxServings /\ serving[s] = "serving"
        BY <3>1, AsgiServerAssumption DEF Connect, Servings
      <3>3. new \in Connections /\ new.of = s
        BY <1>1, <3>2 DEF Connections
      <3>4. new.told = conn[c].told /\ new.ended = conn[c].ended
            /\ new.here = conn[c].here /\ new.sent = conn[c].sent
        BY <1>1 DEF Connections
      <3>5. QED
        BY <1>1, <3>1, <3>2, <3>3, <3>4 DEF Connect
    <2>2. CASE ReadBody(c)
      <3>1. PICK outcome \in {"kept", "refused"} : Turns(c, [conn[c] EXCEPT !.body = outcome])
        BY <2>2 DEF ReadBody
      <3> DEFINE new == [conn[c] EXCEPT !.body = outcome]
      <3>2. new \in Connections /\ Fits(new)
        BY <1>1 DEF Connections
      <3>3. QED
        BY <3>1, <3>2
    <2>3. CASE Receive(c)
      <3> DEFINE again == IF conn[c].body = "again" THEN "refused" ELSE conn[c].body
                 new == [conn[c] EXCEPT !.told = TRUE, !.body = again]
      <3>1. new \in Connections /\ Fits(new)
        BY <1>1, <2>3 DEF Receive, Connections
      <3>2. Turns(c, new)
        BY <2>3 DEF Receive
      <3>3. QED
        BY <3>1, <3>2
    <2>4. CASE PeerLeaves(c)
      <3> DEFINE new == [conn[c] EXCEPT !.here = FALSE]
      <3>1. new \in Connections /\ Fits(new)
        BY <1>1, <2>4 DEF PeerLeaves, InApp, Connections
      <3>2. QED
        BY <2>4, <3>1 DEF PeerLeaves
    <2>5. CASE ReadFails(c) \/ Returns(c)
      <3> DEFINE new == [conn[c] EXCEPT !.stage = "closed", !.attached = FALSE]
      <3>1. new \in Connections /\ Fits(new)
        BY <1>1 DEF Connections
      <3>2. QED
        BY <2>5, <3>1 DEF ReadFails, Returns, HangsUp
    <2>6. CASE ReadRequest(c)
      <3> DEFINE new == [conn[c] EXCEPT !.stage = "app"]
      <3>1. new \in Connections /\ Fits(new)
        BY <1>1, <2>6 DEF ReadRequest, InApp, Connections
      <3>2. QED
        BY <2>6, <3>1 DEF ReadRequest
    <2>7. CASE WatcherSees(c)
      <3> DEFINE new == [conn[c] EXCEPT !.ended = TRUE]
      <3>1. new \in Connections /\ Fits(new)
        BY <1>1, <2>7 DEF WatcherSees, InApp, Connections
      <3>2. QED
        BY <2>7, <3>1 DEF WatcherSees
    <2>8. CASE ReadBodyAgain(c)
      <3> DEFINE new == [conn[c] EXCEPT !.body = "again"]
      <3>1. new \in Connections /\ Fits(new)
        BY <1>1, <2>8 DEF ReadBodyAgain, InApp, Connections
      <3>2. QED
        BY <2>8, <3>1 DEF ReadBodyAgain
    <2>9. CASE StartResponse(c)
      <3> DEFINE new == [conn[c] EXCEPT !.sent = "started"]
      <3>1. new \in Connections /\ Fits(new)
        BY <1>1, <2>9 DEF StartResponse, InApp, Connections
      <3>2. QED
        BY <2>9, <3>1 DEF StartResponse
    <2>10. CASE FinishResponse(c)
      <3> DEFINE new == [conn[c] EXCEPT !.sent = "finished", !.ended = TRUE]
      <3>1. new \in Connections /\ Fits(new)
        BY <1>1, <2>10 DEF FinishResponse, InApp, Connections
      <3>2. QED
        BY <2>10, <3>1 DEF FinishResponse
    <2>11. CASE ConnectionLost(c)
      <3> DEFINE new == [conn[c] EXCEPT !.here = FALSE, !.attached = FALSE]
      <3>1. new \in Connections /\ Fits(new)
        BY <1>1 DEF Connections
      <3>2. QED
        BY <2>11, <3>1 DEF ConnectionLost
    <2>12. QED
      BY <2>1, <2>2, <2>3, <2>4, <2>5, <2>6, <2>7, <2>8, <2>9, <2>10, <2>11 DEF ConnStep
  <1>3. QED
    BY <1>2 DEF Turns

-----------------------------------------------------------------------------
(* The steps.                                                                *)

\* A connection moves on, and its server is where it was.
LEMMA ConnKeeps ==
  ASSUME IInv, ExchangesOK, NEW c \in Conns, ConnStep(c)
  PROVE  IInv' /\ ExchangesOK'
  <1>1. /\ UNCHANGED <<serving, stopped, lifespan, current, up, calls, cut>>
        /\ \E record \in Connections :
              /\ conn' = [conn EXCEPT ![c] = record]
              /\ record.attached =>
                    \/ record.of = conn[c].of /\ conn[c].attached
                    \/ record.of \in Servings /\ serving[record.of] = "serving"
              /\ record.told => record.ended
              /\ record.ended => ~record.here \/ record.sent = "finished"
    BY ConnChanges DEF IInv, StateOK
  <1>2. StateOK'
    BY <1>1 DEF IInv, StateOK
  <1>3. ConnectionsHold' /\ ExchangesOK'
    BY <1>1 DEF IInv, StateOK, ServersOK, ConnectionsHold, ExchangesOK
  <1>4. InTurn' /\ RunningIsCurrent' /\ TeardownsOK' /\ ClosesReachIt' /\ DownIsBehind'
        /\ EndedIsDown'
    BY <1>1 DEF IInv, ServersOK, InTurn, RunningIsCurrent, TeardownsOK, ClosesReachIt,
                DownIsBehind, TornDownBehind, EndedIsDown
  <1>5. QED
    BY <1>2, <1>3, <1>4 DEF IInv, ServersOK

\* While a server is on its way up, down or out, the others have ended or not begun.
LEMMA Others ==
  ASSUME IInv, NEW s \in Servings, serving[s] \in Running \/ s \in cut,
         NEW t \in Servings \ {s}
  PROVE  serving[t] \in Ended \union {"idle"}
  BY DEF IInv, StateOK, ServersOK, InTurn, Servings, Stages, Running, Ended

\* A step that leaves the connections alone leaves the exchanges alone.
LEMMA ServerKeepsExchanges ==
  ASSUME ExchangesOK, UNCHANGED conn
  PROVE  ExchangesOK'
  BY DEF ExchangesOK

LEMMA ListenKeeps ==
  ASSUME IInv, AwaitsServer, NEW s \in Servings, Listen(s)
  PROVE  IInv'
  <1>1. StateOK'
    BY DEF IInv, StateOK, Listen, Goes, Speaks, Stages, Running, Servings
  <1>2. /\ serving[s] = "idle" /\ cut = {}
        /\ \A t \in Servings : t < s => serving[t] \in Ended
        /\ \A t \in Servings : t > s => serving[t] = "idle"
    BY DEF IInv, StateOK, ServersOK, InTurn, Listen, MayListen, Servings, Ended
  <1>3. /\ serving' = [serving EXCEPT ![s] = IF up = 0 THEN "starting" ELSE "binding"]
        /\ lifespan' = [lifespan EXCEPT ![s] = IF up = 0 THEN "starting" ELSE "open"]
        /\ current' = s
        /\ UNCHANGED <<stopped, up, calls, cut, conn>>
        /\ \A k \in Calls : calls[k].stage # "tearing"
    BY DEF Listen, MayListen, Goes, Speaks
  <1>4. \A t \in Servings \ {s} : serving'[t] = serving[t] /\ serving[t] \in Ended \union {"idle"}
    BY <1>2, <1>3 DEF IInv, StateOK, Servings
  <1>5. serving'[s] \in {"starting", "binding"} /\ lifespan'[s] \in {"starting", "open"}
        /\ (up = 0 => serving'[s] = "starting")
    BY <1>3 DEF IInv, StateOK
  <1>6. InTurn'
    BY <1>2, <1>3, <1>4, <1>5 DEF IInv, ServersOK, InTurn, Servings
  <1>7. RunningIsCurrent' /\ ClosesReachIt'
    BY <1>3, <1>4 DEF RunningIsCurrent, ClosesReachIt, Running, Ended
  <1>8. TeardownsOK'
    BY <1>1, <1>3, <1>4, <1>5 DEF IInv, StateOK, ServersOK, TeardownsOK, Ended
  <1>9. DownIsBehind'
    BY <1>3, <1>4, <1>5 DEF DownIsBehind, Ended
  <1>10. ConnectionsHold'
    BY <1>2, <1>3, <1>4 DEF IInv, ServersOK, ConnectionsHold
  <1>11. EndedIsDown'
    BY <1>2, <1>3, <1>4, <1>5 DEF IInv, ServersOK, EndedIsDown, Servings, Ended
  <1>12. QED
    BY <1>1, <1>6, <1>7, <1>8, <1>9, <1>10, <1>11 DEF IInv, ServersOK

\* What every other step of a server has in common: it concerns one server that runs,
\* which goes on, or ends.
Moves(s, to, say) ==
    /\ serving[s] \in Running /\ to \in Running \union Ended
    /\ serving' = [serving EXCEPT ![s] = to]
    /\ lifespan' = [lifespan EXCEPT ![s] = say]
    /\ current' = IF to \in Ended THEN 0 ELSE current
    /\ cut' \in {cut, cut \union {s}}
    /\ UNCHANGED <<calls, conn>>
    /\ say \in {"tearing", "answered"} => to = "leaving" \/ (to = "ended" /\ s \in cut')
    /\ say = "answered" /\ to = "leaving" => up' = 0
    /\ up' = 0 => \/ to \in Ended \union {"starting", "leaving"}
                  \/ up = 0 /\ (serving[s] \in {"binding", "serving", "closing"} \/ s \in cut')
    /\ to = "ended" /\ s \notin cut' => up' = 0
    /\ to = "failed" => up' = 0
    /\ to \in {"serving", "closing"} \/ s \in cut' \/ Open(s) = {}

LEMMA ServerKeeps ==
  ASSUME IInv, StateOK', NEW s \in Servings, NEW to, NEW say, Moves(s, to, say)
  PROVE  IInv' /\ UNCHANGED conn
  <1> USE DEF Moves
  <1>1. \A t \in Servings \ {s} :
            /\ serving'[t] = serving[t] /\ lifespan'[t] = lifespan[t]
            /\ serving[t] \in Ended \union {"idle"}
    BY Others DEF IInv, StateOK
  <1>2. serving'[s] = to /\ lifespan'[s] = say
    BY DEF IInv, StateOK
  <1>3. InTurn'
    BY <1>1, <1>2 DEF IInv, StateOK, ServersOK, InTurn, Running, Ended, Servings
  <1>4. RunningIsCurrent' /\ ClosesReachIt'
    BY <1>1, <1>2 DEF IInv, ServersOK, RunningIsCurrent, ClosesReachIt, Running, Ended
  <1>5. TeardownsOK'
    BY <1>1, <1>2 DEF IInv, ServersOK, TeardownsOK, Running, Ended
  <1>6. DownIsBehind'
    BY <1>1, <1>2 DEF IInv, ServersOK, DownIsBehind, TornDownBehind, Running, Ended
  <1>7. ConnectionsHold'
    BY <1>1, <1>2 DEF IInv, StateOK, ServersOK, ConnectionsHold, Open, Ended
  <1>8. ASSUME NEW t \in Servings \ {s}, serving'[t] \in {"ended", "failed"},
               \A u \in Servings : u > t => serving'[u] = "idle"
        PROVE  FALSE
    <2>1. to # "idle"
      BY DEF Running, Ended
    <2>2. s < t
      BY <1>2, <1>8, <2>1 DEF Servings
    <2>3. serving[s] \in Ended
      BY <1>1, <1>8, <2>2 DEF IInv, ServersOK, InTurn
    <2>4. QED
      BY <2>3 DEF Running, Ended
  <1>9. EndedIsDown'
    BY <1>2, <1>8 DEF EndedIsDown
  <1>10. QED
    BY <1>3, <1>4, <1>5, <1>6, <1>7, <1>9 DEF IInv, ServersOK

\* No connection of a server that is not serving stands, unless it was interrupted.
LEMMA NoneOpen ==
  ASSUME IInv, NEW s \in Servings, serving[s] \notin {"serving", "closing"}
  PROVE  s \in cut \/ Open(s) = {}
  BY DEF IInv, ServersOK, ConnectionsHold, Open

\* A lifespan that is not being shut down says the same thing as before.
LEMMA LifespanGoesOn ==
  ASSUME IInv, NEW s \in Servings, serving[s] \in {"binding", "serving", "closing"},
         UNCHANGED lifespan
  PROVE  lifespan' = [lifespan EXCEPT ![s] = lifespan[s]]
         /\ lifespan[s] \notin {"tearing", "answered"}
  BY DEF IInv, StateOK, ServersOK, TeardownsOK

LEMMA InterruptKeeps ==
  ASSUME IInv, NEW s \in Servings, Interrupt(s)
  PROVE  IInv'
  <1>1. serving[s] \in Running /\ cut' = cut \union {s} /\ UNCHANGED <<up, calls, conn>>
    BY DEF Interrupt
  <1>2. CASE serving[s] \in {"starting", "binding"}
    <2>1. /\ Goes(s, "interrupted")
          /\ Speaks(s, IF serving[s] = "starting" THEN "ended" ELSE "open")
          /\ UNCHANGED stopped
      BY <1>2 DEF Interrupt
    <2>2. current' = 0
      BY <2>1 DEF Interrupt, IInv, StateOK, Goes, Ended
    <2>3. StateOK'
      BY <1>1, <2>1, <2>2, AsgiServerAssumption DEF IInv, StateOK, Goes, Speaks, Stages, Ended
    <2>4. Moves(s, "interrupted", IF serving[s] = "starting" THEN "ended" ELSE "open")
      BY <1>1, <1>2, <2>1, <2>2, <2>3 DEF Moves, Goes, Speaks, Ended
    <2>5. QED
      BY <2>3, <2>4, ServerKeeps
  <1>3. CASE serving[s] = "serving"
    <2>1. Goes(s, "closing") /\ UNCHANGED <<stopped, lifespan>>
      BY <1>3 DEF Interrupt
    <2>2. current' = current
      BY <2>1 DEF Interrupt, IInv, StateOK, Goes, Ended
    <2>3. StateOK'
      BY <1>1, <2>1, <2>2, AsgiServerAssumption DEF IInv, StateOK, Goes, Stages, Running
    <2>4. Moves(s, "closing", lifespan[s])
      BY <1>1, <1>3, <2>1, <2>2, <2>3, LifespanGoesOn DEF Moves, Goes, Running, Ended
    <2>5. QED
      BY <2>3, <2>4, ServerKeeps
  <1>4. CASE serving[s] = "closing"
    <2>1. ShutsLifespan(s)
      BY <1>4 DEF Interrupt
    <2>2. current' = current
      BY <2>1 DEF Interrupt, IInv, StateOK, ShutsLifespan, Goes, Ended
    <2>3. StateOK'
      BY <1>1, <2>1, <2>2, AsgiServerAssumption DEF IInv, StateOK, ShutsLifespan, Goes, Speaks, Stages, Running
    <2>4. Moves(s, "leaving", IF up = 0 THEN "answered" ELSE "tearing")
      BY <1>1, <1>4, <2>1, <2>2, <2>3 DEF Moves, ShutsLifespan, Goes, Speaks, Running, Ended
    <2>5. QED
      BY <2>3, <2>4, ServerKeeps
  <1>5. CASE serving[s] = "leaving"
    <2>1. Goes(s, "ended") /\ UNCHANGED <<stopped, lifespan>>
      BY <1>5 DEF Interrupt
    <2>2. current' = 0
      BY <2>1 DEF Interrupt, IInv, StateOK, Goes, Ended
    <2>3. StateOK'
      BY <1>1, <2>1, <2>2, AsgiServerAssumption DEF IInv, StateOK, Goes, Stages, Ended
    <2>4. lifespan' = [lifespan EXCEPT ![s] = lifespan[s]]
      BY <2>1 DEF IInv, StateOK
    <2>5. Moves(s, "ended", lifespan[s])
      BY <1>1, <1>5, <2>1, <2>2, <2>3, <2>4 DEF Moves, Goes, Ended
    <2>6. QED
      BY <2>3, <2>5, ServerKeeps
  <1>6. QED
    BY <1>1, <1>2, <1>3, <1>4, <1>5 DEF Running

\* Every server but the one whose lifespan is torn down has ended or not begun.
LEMMA LifespanTornDownKeeps ==
  ASSUME IInv, NEW s \in Servings, LifespanTornDown(s)
  PROVE  IInv'
  <1>1. /\ lifespan[s] = "tearing" /\ lifespan' = [lifespan EXCEPT ![s] = "answered"]
        /\ up' = 0 /\ UNCHANGED <<serving, stopped, current, calls, cut, conn>>
    BY DEF LifespanTornDown, Speaks
  <1>2. serving[s] = "leaving" \/ (serving[s] = "ended" /\ s \in cut)
    BY <1>1 DEF IInv, ServersOK, TeardownsOK
  <1>3. \A t \in Servings \ {s} : serving[t] \in Ended \union {"idle"}
    BY <1>2, Others DEF Running
  <1>4. StateOK'
    BY <1>1, AsgiServerAssumption DEF IInv, StateOK
  <1>5. InTurn' /\ RunningIsCurrent' /\ ClosesReachIt' /\ ConnectionsHold' /\ EndedIsDown'
    BY <1>1 DEF IInv, ServersOK, InTurn, RunningIsCurrent, ClosesReachIt, ConnectionsHold,
                EndedIsDown
  <1>6. TeardownsOK'
    BY <1>1, <1>2 DEF IInv, StateOK, ServersOK, TeardownsOK
  <1>7. DownIsBehind'
    BY <1>1, <1>2, <1>3 DEF DownIsBehind, Ended
  <1>8. QED
    BY <1>4, <1>5, <1>6, <1>7 DEF IInv, ServersOK

\* The steps of a server, one by one.
LEMMA ServerStepKeeps ==
  ASSUME IInv, AwaitsServer, NEW s \in Servings, ServerStep(s)
  PROVE  IInv' /\ UNCHANGED conn
  <1>1. CASE Listen(s)
    BY <1>1, ListenKeeps DEF Listen
  <1>2. CASE StartupCompletes(s)
    <2>1. StateOK'
      BY <1>2, AsgiServerAssumption DEF IInv, StateOK, StartupCompletes, Goes, Speaks, Stages, Running, Servings
    <2>2. s \in cut \/ Open(s) = {}
      BY <1>2, NoneOpen DEF StartupCompletes
    <2>3. up' # 0
      BY <1>2 DEF StartupCompletes, Servings
    <2>4. Moves(s, "binding", "open")
      BY <1>2, <2>1, <2>2, <2>3
         DEF Moves, StartupCompletes, Goes, Speaks, Running, Ended
    <2>5. QED
      BY <2>1, <2>4, ServerKeeps
  <1>3. CASE StartupFails(s)
    <2>1. StateOK'
      BY <1>3, AsgiServerAssumption DEF IInv, StateOK, StartupFails, Goes, Speaks, Stages, Ended
    <2>2. s \in cut \/ Open(s) = {}
      BY <1>3, NoneOpen DEF StartupFails
    <2>3. Moves(s, "failed", "ended")
      BY <1>3, <2>1, <2>2 DEF Moves, StartupFails, Goes, Speaks, Running, Ended
    <2>4. QED
      BY <2>1, <2>3, ServerKeeps
  <1>4. CASE Binds(s)
    <2>1. StateOK'
      BY <1>4, AsgiServerAssumption DEF IInv, StateOK, Binds, Goes, Stages, Running
    <2>2. Moves(s, "serving", lifespan[s])
      BY <1>4, <2>1, LifespanGoesOn DEF Moves, Binds, Goes, Running, Ended
    <2>3. QED
      BY <2>1, <2>2, ServerKeeps
  <1>5. CASE BindFails(s)
    <2>1. StateOK'
      BY <1>5, AsgiServerAssumption DEF IInv, StateOK, BindFails, Goes, Stages, Ended
    <2>2. s \in cut \/ Open(s) = {}
      BY <1>5, NoneOpen DEF BindFails
    <2>3. Moves(s, "unbound", lifespan[s])
      BY <1>5, <2>1, <2>2, LifespanGoesOn DEF Moves, BindFails, Goes, Running, Ended
    <2>4. QED
      BY <2>1, <2>3, ServerKeeps
  <1>6. CASE SeesStop(s)
    <2>1. StateOK'
      BY <1>6, AsgiServerAssumption DEF IInv, StateOK, SeesStop, Goes, Stages, Running
    <2>2. Moves(s, "closing", lifespan[s])
      BY <1>6, <2>1, LifespanGoesOn DEF Moves, SeesStop, Goes, Running, Ended
    <2>3. QED
      BY <2>1, <2>2, ServerKeeps
  <1>7. CASE Leaves(s)
    <2>1. StateOK'
      BY <1>7, AsgiServerAssumption DEF IInv, StateOK, Leaves, ShutsLifespan, Goes, Speaks, Stages, Running
    <2>2. Moves(s, "leaving", IF up = 0 THEN "answered" ELSE "tearing")
      BY <1>7, <2>1
         DEF Moves, Leaves, Drained, ShutsLifespan, Goes, Speaks, Running, Ended
    <2>3. QED
      BY <2>1, <2>2, ServerKeeps
  <1>8. CASE Hears(s)
    <2>1. StateOK'
      BY <1>8, AsgiServerAssumption DEF IInv, StateOK, Hears, Goes, Speaks, Stages, Ended
    <2>2. up = 0
      BY <1>8 DEF IInv, ServersOK, TeardownsOK, Hears
    <2>3. s \in cut \/ Open(s) = {}
      BY <1>8, NoneOpen DEF Hears
    <2>4. Moves(s, "ended", "ended")
      BY <1>8, <2>1, <2>2, <2>3 DEF Moves, Hears, Goes, Speaks, Running, Ended
    <2>5. QED
      BY <2>1, <2>4, ServerKeeps
  <1>9. CASE Interrupt(s)
    BY <1>9, InterruptKeeps DEF Interrupt
  <1>10. CASE LifespanTornDown(s)
    BY <1>10, LifespanTornDownKeeps DEF LifespanTornDown
  <1>11. QED
    BY <1>1, <1>2, <1>3, <1>4, <1>5, <1>6, <1>7, <1>8, <1>9, <1>10 DEF ServerStep

\* A call of stop() or close() begins, and reaches the server that runs.
LEMMA CallBegins ==
  ASSUME IInv, NEW k \in Calls, Stop(k) \/ Close(k)
  PROVE  IInv' /\ UNCHANGED conn
  <1>1. PICK to \in {"stopped", "tearing", "closed"} :
            calls' = [calls EXCEPT ![k] = [stage |-> to, of |-> current]]
    BY DEF Stop, Close, Call
  <1>2. /\ calls[k].stage = "idle" /\ stopped' \in [Servings -> BOOLEAN]
        /\ UNCHANGED <<serving, lifespan, current, up, cut, conn>>
    BY DEF IInv, StateOK, Stop, Close, StopReaches
  <1>3. StateOK'
    BY <1>1, <1>2 DEF IInv, StateOK
  <1>4. \A j \in Calls \ {k} : calls'[j] = calls[j]
    BY <1>1 DEF IInv, StateOK
  <1>5. calls'[k].of = current
    BY <1>1 DEF IInv, StateOK
  <1>6. ClosesReachIt'
    BY <1>2, <1>4, <1>5 DEF IInv, ServersOK, RunningIsCurrent, ClosesReachIt
  <1>7. DownIsBehind'
    BY <1>2, <1>4 DEF IInv, ServersOK, DownIsBehind, TornDownBehind
  <1>8. InTurn' /\ RunningIsCurrent' /\ TeardownsOK' /\ ConnectionsHold' /\ EndedIsDown'
    BY <1>2 DEF IInv, ServersOK, InTurn, RunningIsCurrent, TeardownsOK, ConnectionsHold,
                EndedIsDown
  <1>9. QED
    BY <1>2, <1>3, <1>6, <1>7, <1>8 DEF IInv, ServersOK

\* The teardown of a close() ends: the server it tore down behind is the one that runs.
LEMMA CloseTornDownKeeps ==
  ASSUME IInv, NEW k \in Calls, CloseTornDown(k)
  PROVE  IInv' /\ UNCHANGED conn
  <1>1. /\ calls[k].stage = "tearing" /\ up' = 0
        /\ calls' = [calls EXCEPT ![k].stage = "closed"]
        /\ UNCHANGED <<serving, stopped, lifespan, current, cut, conn>>
    BY DEF CloseTornDown
  <1>2. /\ \A j \in Calls \ {k} : calls'[j] = calls[j]
        /\ calls'[k].stage = "closed" /\ calls'[k].of = calls[k].of
        /\ calls' \in [Calls -> [stage : {"idle", "stopped", "tearing", "closed"}, of : 0..MaxServings]]
    BY <1>1 DEF IInv, StateOK
  <1>3. StateOK'
    BY <1>1, <1>2, AsgiServerAssumption DEF IInv, StateOK
  <1>4. ClosesReachIt'
    BY <1>1, <1>2 DEF IInv, ServersOK, ClosesReachIt
  <1>5. DownIsBehind'
    BY <1>1, <1>2 DEF IInv, ServersOK, ClosesReachIt, DownIsBehind, TornDownBehind, Running
  <1>6. InTurn' /\ RunningIsCurrent' /\ TeardownsOK' /\ ConnectionsHold' /\ EndedIsDown'
    BY <1>1 DEF IInv, ServersOK, InTurn, RunningIsCurrent, TeardownsOK, ConnectionsHold,
                EndedIsDown
  <1>7. QED
    BY <1>1, <1>3, <1>4, <1>5, <1>6 DEF IInv, ServersOK

\* The exchanges are in order whatever the server and its callers do.
LEMMA ExchangesKept ==
  conn \in [Conns -> Connections] /\ ExchangesOK /\ [Next]_vars
  => (conn \in [Conns -> Connections] /\ ExchangesOK)'
  <1> SUFFICES ASSUME conn \in [Conns -> Connections], ExchangesOK, [Next]_vars
               PROVE  (conn \in [Conns -> Connections] /\ ExchangesOK)'
    OBVIOUS
  <1>1. CASE \E s \in Servings : ServerStep(s)
    <2>1. UNCHANGED conn
      BY <1>1 DEF ServerStep, Listen, StartupCompletes, StartupFails, Binds, BindFails,
                  Interrupt, SeesStop, Leaves, LifespanTornDown, Hears
    <2>2. QED
      BY <2>1, ServerKeepsExchanges
  <1>2. CASE \E k \in Calls : CallStep(k)
    BY <1>2, ServerKeepsExchanges DEF CallStep, Stop, Close, CloseTornDown
  <1>3. CASE \E c \in Conns : ConnStep(c)
    BY <1>3, ConnChanges DEF ExchangesOK
  <1>4. CASE UNCHANGED vars
    BY <1>4, ServerKeepsExchanges DEF vars
  <1>5. QED
    BY <1>1, <1>2, <1>3, <1>4 DEF Next

LEMMA NextKeeps == AwaitsServer /\ IInv /\ ExchangesOK /\ [Next]_vars => IInv' /\ ExchangesOK'
  <1> SUFFICES ASSUME AwaitsServer, IInv, ExchangesOK, [Next]_vars
               PROVE  IInv' /\ ExchangesOK'
    OBVIOUS
  <1>1. CASE \E s \in Servings : ServerStep(s)
    BY <1>1, ServerStepKeeps, ServerKeepsExchanges
  <1>2. CASE \E k \in Calls : CallStep(k)
    BY <1>2, CallBegins, CloseTornDownKeeps, ServerKeepsExchanges DEF CallStep
  <1>3. CASE \E c \in Conns : ConnStep(c)
    BY <1>3, ConnKeeps
  <1>4. CASE UNCHANGED vars
    BY <1>4 DEF vars, IInv, StateOK, ServersOK, InTurn, RunningIsCurrent, TeardownsOK,
                ClosesReachIt, DownIsBehind, TornDownBehind, ConnectionsHold, EndedIsDown,
                ExchangesOK
  <1>5. QED
    BY <1>1, <1>2, <1>3, <1>4 DEF Next

-----------------------------------------------------------------------------
(* The theorems.                                                             *)

\* The inductive invariant holds, for any connections, calls and number of servings.
THEOREM Invariance == AwaitsServer => (Spec => [](IInv /\ ExchangesOK))
  <1> SUFFICES ASSUME AwaitsServer PROVE Spec => [](IInv /\ ExchangesOK)
    OBVIOUS
  <1>1. Init => IInv /\ ExchangesOK
    BY InitOK
  <1>2. IInv /\ ExchangesOK /\ [Next]_vars => (IInv /\ ExchangesOK)'
    BY NextKeeps
  <1>3. QED
    BY <1>1, <1>2, PTL DEF Spec

\* _ConnectionChannel.receive: no application is told of a disconnect while its client is
\* there and its response unfinished, however its caller listens.
THEOREM NobodyToldEarly == Spec => []NoEarlyDisconnect
  <1>1. Init => conn \in [Conns -> Connections] /\ ExchangesOK
    BY InitOK DEF IInv, StateOK
  <1>2. ExchangesOK => NoEarlyDisconnect
    BY DEF ExchangesOK, NoEarlyDisconnect
  <1>3. QED
    BY <1>1, <1>2, ExchangesKept, PTL DEF Spec

\* AsgiServer.serve, Application.close: the application of a server that nobody closed
\* and nothing interrupted is up while a request whose connection stands is served, and
\* down with no connection left when listen() returns.  Of a request whose connection was
\* reset it says nothing: the server does not wait for it.
THEOREM ServedBeforeTeardown == AwaitsServer => (Spec => []NobodyServedDown)
  <1> SUFFICES ASSUME AwaitsServer PROVE Spec => []NobodyServedDown
    OBVIOUS
  <1>1. IInv => ServedWhileUp
    BY DEF IInv, ServersOK, ConnectionsHold, DownIsBehind, TornDownBehind, ServedWhileUp
  <1>2. IInv => EndedReleases
    BY NoneOpen DEF IInv, ServersOK, EndedIsDown, EndedReleases
  <1>3. QED
    BY <1>1, <1>2, Invariance, PTL DEF NobodyServedDown

\* No server that nobody stopped loses its application to the teardown of another.
THEOREM NotTornDownUnder == AwaitsServer => (Spec => []RunsUntilStopped)
  <1> SUFFICES ASSUME AwaitsServer PROVE Spec => []RunsUntilStopped
    OBVIOUS
  <1>1. IInv => RunsUntilStopped
    BY DEF IInv, ServersOK, DownIsBehind, TornDownBehind, RunsUntilStopped
  <1>2. QED
    BY <1>1, Invariance, PTL
=============================================================================
