--------------------------- MODULE Lifecycle_proofs ---------------------------
(***************************************************************************)
(* Theorems about Lifecycle, for any providers and dependencies among them *)
(* and any numbers of modules, lifespans and requests, where one driver at *)
(* a time starts and stops the application and shutdowns wait for requests *)
(* (OneAtATime): what GracefulShutdown establishes of its adapter.         *)
(***************************************************************************)
EXTENDS Lifecycle, SequenceTheorems, TLAPS

OneAtATime == Drained /\ Closers = {}

-----------------------------------------------------------------------------
(* The inductive invariant.                                                  *)

Frames == [makes : Providers \union {None}, needs : Seq(Providers)]

Places == {"idle", "warm", "start", "undo", "serving", "leaving", "stop", "resolving", "ended"}

TypeOK ==
    /\ initialized \in BOOLEAN /\ shut \in BOOLEAN /\ overridable \in BOOLEAN
    /\ singletons \in Seq(Providers \ Durable)
    /\ durables \in Seq(Durable)
    /\ runs \in [Participants -> [Stages -> 0..2]]
    /\ pc \in [Actors -> Places]
    /\ work \in [Actors -> Seq(Frames)]
    /\ stage \in [Drivers -> Stages \union {None}]
    /\ half \in [Drivers -> {"modules", "providers", None}]
    /\ todo \in [Drivers -> Seq(Participants)]

InStages(d) == pc[d] \in {"start", "undo", "stop"}

\* One lifespan is under way at a time, and requests only while it serves.
Turns ==
    /\ \A d, e \in Drivers : pc[d] \notin {"idle", "ended"} /\ pc[e] \notin {"idle", "ended"} => d = e
    /\ \A d \in Drivers : pc[d] # "resolving"
    /\ \A r \in Resolvers : pc[r] \in {"idle", "resolving", "ended"}
    /\ \A r \in Resolvers : pc[r] = "resolving" => \E d \in Drivers : pc[d] = "serving"
    /\ initialized <=> \E d \in Drivers : pc[d] \in {"serving", "stop"}
    /\ \A a \in Actors : Resolving(a) => pc[a] \in {"warm", "resolving"}

\* What a frame was asked to resolve, in order.
Wanted(a, f) == IF f.makes = None THEN (IF a \in Drivers THEN Warmed ELSE <<>>) ELSE Deps[f.makes]

\* What a frame no longer needs is cached, or under construction in the next frame in.
Accounted(a, i, q) ==
    \/ q \in ToSet(work[a][i].needs)
    \/ q \in Cached
    \/ i > 1 /\ work[a][i - 1].makes = q

Stacks ==
    \A a \in Actors : \A i \in DOMAIN work[a] :
        /\ work[a][i].makes = None <=> i = Len(work[a])
        /\ work[a][i].makes \notin Cached
        /\ \A q \in ToSet(Wanted(a, work[a][i])) : Accounted(a, i, q)

\* No provider is under construction twice.
OneConstruction ==
    \A a, b \in Actors : \A i \in DOMAIN work[a], j \in DOMAIN work[b] :
        work[a][i].makes = work[b][j].makes /\ work[a][i].makes # None => a = b /\ i = j

\* The caches hold each provider once, and singletons behind the singletons they are made of.
DependenciesFirst ==
    /\ IsInjective(singletons) /\ IsInjective(durables)
    /\ \A i \in DOMAIN singletons : \A q \in ToSet(Deps[singletons[i]]) \ Durable :
           \E j \in 1..(i - 1) : singletons[j] = q
    /\ \A p \in ToSet(durables) : ToSet(Deps[p]) \ Durable \subseteq ToSet(singletons)

\* Nothing is cached unless the application is starting, running or stopping.
EmptyWhenStopped ==
    (\A d \in Drivers : pc[d] \in {"idle", "ended", "leaving"}) => Cached = {}

Alive == Cached \union ToSet(Modules)

\* Where a driver is in its stage: it has left the end of one of its two lists.
Visited(d) == IF half[d] = "modules" THEN ModulesOf(stage[d]) ELSE InstancesOf(stage[d])
Awaited(d) == ToSet(todo[d]) \union (IF half[d] = "modules" THEN Cached ELSE {})

Positions ==
    \A d \in Drivers : InStages(d) =>
        /\ stage[d] \in (IF pc[d] = "start" THEN Startups ELSE Teardowns)
        /\ half[d] \in {"modules", "providers"}
        /\ todo[d] # <<>> /\ Len(todo[d]) <= Len(Visited(d))
        /\ \A i \in DOMAIN todo[d] : todo[d][i] = Visited(d)[Len(Visited(d)) - Len(todo[d]) + i]

\* The stages of the same half of the lifecycle that come before.
Earlier(s) ==
    CASE s = "on_application_bootstrap" -> {"on_module_init"}
      [] s = "on_application_shutdown" -> {"before_application_shutdown"}
      [] s = "on_module_destroy" -> {"before_application_shutdown", "on_application_shutdown"}
      [] OTHER -> {}

\* How often the hook of a stage has run on what is alive while a driver is in a stage.
RunsInStages ==
    \A d \in Drivers : InStages(d) =>
        \A x \in Alive :
            /\ runs[x][stage[d]] = IF x \in Awaited(d) THEN 0 ELSE 1
            /\ \A s \in Earlier(stage[d]) : runs[x][s] = 1
            /\ \A s \in (IF pc[d] = "start" THEN Stages ELSE Teardowns) :
                   s # stage[d] /\ s \notin Earlier(stage[d]) => runs[x][s] = 0

\* And while it builds, or serves.
RunsOutside ==
    \A d \in Drivers :
        /\ pc[d] = "warm" => \A x \in Alive : runs[x] = NeverRun
        /\ pc[d] = "serving" => \A x \in Alive, s \in Teardowns : runs[x][s] = 0

\* What is to be built before the first request is there once the hooks start.
WarmWhenStarted == \A d \in Drivers : pc[d] = "start" => ToSet(Warmed) \subseteq Cached

IInv ==
    /\ TypeOK /\ Turns /\ Stacks /\ OneConstruction /\ DependenciesFirst /\ EmptyWhenStopped
    /\ Positions /\ RunsInStages /\ RunsOutside /\ WarmWhenStarted
    /\ HooksRunOnce /\ SingletonsOutliveDependents
-----------------------------------------------------------------------------
(* Sequences.                                                                *)

\* What is left of a sequence without one of its places.
LEMMA RemoveAtProperties ==
  ASSUME NEW S, NEW s \in Seq(S), NEW k \in 1..Len(s)
  PROVE  /\ RemoveAt(s, k) \in Seq(S)
         /\ Len(RemoveAt(s, k)) = Len(s) - 1
         /\ \A i \in 1..(k - 1) : RemoveAt(s, k)[i] = s[i]
         /\ \A i \in k..(Len(s) - 1) : RemoveAt(s, k)[i] = s[i + 1]
<1> DEFINE a == SubSeq(s, 1, k - 1)
           b == SubSeq(s, k + 1, Len(s))
<1>1. Len(s) \in Nat /\ \A i \in 1..Len(s) : s[i] \in S
  BY LenProperties, ElementOfSeq
<1>2. a \in Seq(S) /\ Len(a) = k - 1 /\ \A i \in 1..(k - 1) : a[i] = s[i]
  BY <1>1, SubSeqProperties
<1>3. /\ b \in Seq(S)
      /\ Len(b) = IF k + 1 <= Len(s) THEN Len(s) - (k + 1) + 1 ELSE 0
      /\ \A i \in 1..(Len(s) - (k + 1) + 1) : b[i] = s[k + 1 + i - 1]
  <2>1. \A i \in (k + 1)..Len(s) : s[i] \in S
    BY <1>1
  <2> QED BY <1>1, <2>1, SubSeqProperties
<1>4. RemoveAt(s, k) = a \o b
  BY DEF RemoveAt
<1> HIDE DEF a, b
<1>5. Len(b) = Len(s) - k
  BY <1>1, <1>3
<1>6. \A i \in 1..(Len(s) - k) : b[i] = s[k + i]
  BY <1>1, <1>3
<1>7. /\ a \o b \in Seq(S)
      /\ Len(a \o b) = Len(a) + Len(b)
      /\ \A i \in 1..(Len(a) + Len(b)) : (a \o b)[i] = IF i <= Len(a) THEN a[i] ELSE b[i - Len(a)]
  BY <1>2, <1>3, ConcatProperties
<1> DEFINE t == a \o b
<1> HIDE DEF t
<1>8. Len(t) = Len(s) - 1
  BY <1>1, <1>2, <1>5, <1>7 DEF t
<1>9. ASSUME NEW i \in 1..(k - 1)
      PROVE  t[i] = s[i]
  BY <1>1, <1>2, <1>5, <1>7 DEF t
<1>10. ASSUME NEW i \in k..(Len(s) - 1)
       PROVE  t[i] = s[i + 1]
  <2>1. i - (k - 1) \in 1..(Len(s) - k) /\ k + (i - (k - 1)) = i + 1
    BY <1>1
  <2>2. t[i] = b[i - (k - 1)]
    BY <1>1, <1>2, <1>5, <1>7 DEF t
  <2> QED BY <2>1, <2>2, <1>6
<1> QED BY <1>4, <1>7, <1>8, <1>9, <1>10 DEF t

\* A sequence that holds nothing twice, less an element.
LEMMA RemoveFirstProperties ==
  ASSUME NEW S, NEW s \in Seq(S), IsInjective(s), NEW p
  PROVE  /\ RemoveFirst(s, p) \in Seq(S)
         /\ IsInjective(RemoveFirst(s, p))
         /\ ToSet(RemoveFirst(s, p)) = ToSet(s) \ {p}
<1>1. CASE ~\E i \in 1..Len(s) : s[i] = p
  <2>1. RemoveFirst(s, p) = s
    BY <1>1 DEF RemoveFirst
  <2> QED BY <1>1, <2>1, LenProperties DEF ToSet
<1>2. CASE \E i \in 1..Len(s) : s[i] = p
  <2>1. PICK k \in 1..Len(s) : s[k] = p
    BY <1>2
  <2>2. {i \in 1..Len(s) : s[i] = p} = {k}
    BY <2>1, LenProperties DEF IsInjective
  <2>3. Min({k}) = k
    <3>1. \A x : (x \in {k} /\ \A y \in {k} : x <= y) <=> x = k
      BY <2>1
    <3> QED BY <3>1 DEF Min
  <2> DEFINE t == RemoveAt(s, k)
  <2>4. RemoveFirst(s, p) = t
    BY <1>2, <2>2, <2>3 DEF RemoveFirst, SelectInSeq
  <2>5. Len(s) \in Nat /\ DOMAIN s = 1..Len(s)
    BY LenProperties
  <2>6. /\ t \in Seq(S) /\ Len(t) = Len(s) - 1
        /\ \A i \in 1..(k - 1) : t[i] = s[i]
        /\ \A i \in k..(Len(s) - 1) : t[i] = s[i + 1]
    BY RemoveAtProperties
  <2>7. DOMAIN t = 1..(Len(s) - 1)
    BY <2>6, LenProperties
  <2> HIDE DEF t
  <2>8. IsInjective(t)
    <3> SUFFICES ASSUME NEW i \in 1..(Len(s) - 1), NEW j \in 1..(Len(s) - 1), t[i] = t[j]
                 PROVE  i = j
      BY <2>7 DEF IsInjective
    <3>1. \A m \in 1..(Len(s) - 1) : /\ m < k => m \in 1..Len(s) /\ t[m] = s[m]
                                     /\ m >= k => m + 1 \in 1..Len(s) /\ t[m] = s[m + 1]
      <4> SUFFICES ASSUME NEW m \in 1..(Len(s) - 1)
                   PROVE  /\ m < k => m \in 1..Len(s) /\ t[m] = s[m]
                          /\ m >= k => m + 1 \in 1..Len(s) /\ t[m] = s[m + 1]
        OBVIOUS
      <4>1. /\ m < k => m \in 1..Len(s) /\ m \in 1..(k - 1)
            /\ m >= k => m + 1 \in 1..Len(s) /\ m \in k..(Len(s) - 1)
        BY <2>5
      <4> QED BY <4>1, <2>6
    <3>2. \A m, n \in 1..Len(s) : s[m] = s[n] => m = n
      BY <2>5 DEF IsInjective
    <3>3. CASE i < k /\ j < k
      <4>1. i \in 1..Len(s) /\ j \in 1..Len(s) /\ s[i] = s[j]
        BY <3>1, <3>3, <2>5
      <4> QED BY <4>1, <3>2
    <3>4. CASE i < k /\ j >= k
      <4>1. i \in 1..Len(s) /\ j + 1 \in 1..Len(s) /\ s[i] = s[j + 1]
        BY <3>1, <3>4, <2>5
      <4>2. i = j + 1
        BY <4>1, <3>2
      <4> QED BY <4>2, <3>4, <2>5
    <3>5. CASE i >= k /\ j < k
      <4>1. j \in 1..Len(s) /\ i + 1 \in 1..Len(s) /\ s[j] = s[i + 1]
        BY <3>1, <3>5, <2>5
      <4>2. j = i + 1
        BY <4>1, <3>2
      <4> QED BY <4>2, <3>5, <2>5
    <3>6. CASE i >= k /\ j >= k
      <4>1. i + 1 \in 1..Len(s) /\ j + 1 \in 1..Len(s) /\ s[i + 1] = s[j + 1]
        BY <3>1, <3>6
      <4>2. i + 1 = j + 1
        BY <4>1, <3>2
      <4> QED BY <4>2, <2>5
    <3> QED BY <3>3, <3>4, <3>5, <3>6, <2>5
  <2>9. ToSet(t) = ToSet(s) \ {p}
    <3>1. ASSUME NEW i \in 1..(Len(s) - 1)
          PROVE  t[i] \in ToSet(s) \ {p}
      <4>1. \E m \in 1..Len(s) : m # k /\ t[i] = s[m]
        <5>1. CASE i < k
          <6>1. i \in 1..Len(s) /\ i \in 1..(k - 1) /\ i # k
            BY <5>1, <2>5
          <6> QED BY <6>1, <2>6
        <5>2. CASE i >= k
          <6>1. i + 1 \in 1..Len(s) /\ i \in k..(Len(s) - 1) /\ i + 1 # k
            BY <5>2, <2>5
          <6> QED BY <6>1, <2>6
        <5> QED BY <5>1, <5>2, <2>5
      <4> QED BY <4>1, <2>1, <2>5 DEF ToSet, IsInjective
    <3>2. ASSUME NEW i \in 1..Len(s), i # k
          PROVE  \E m \in 1..(Len(s) - 1) : t[m] = s[i]
      <4>1. CASE i < k
        <5>1. i \in 1..(k - 1) /\ i \in 1..(Len(s) - 1)
          BY <4>1, <2>5
        <5> QED BY <5>1, <2>6
      <4>2. CASE i > k
        <5>1. i - 1 \in k..(Len(s) - 1) /\ i - 1 \in 1..(Len(s) - 1) /\ (i - 1) + 1 = i
          BY <4>2, <2>5
        <5> QED BY <5>1, <2>6
      <4> QED BY <4>1, <4>2, <3>2, <2>5
    <3>3. ToSet(t) \subseteq ToSet(s) \ {p}
      BY <3>1, <2>7 DEF ToSet
    <3>4. ASSUME NEW x \in ToSet(s) \ {p}
          PROVE  x \in ToSet(t)
      <4>1. PICK i \in 1..Len(s) : s[i] = x /\ i # k
        BY <2>1, <2>5 DEF ToSet
      <4> QED BY <4>1, <3>2, <2>7 DEF ToSet
    <3> QED BY <3>3, <3>4
  <2> QED BY <2>4, <2>6, <2>8, <2>9
<1> QED BY <1>1, <1>2

\* A sequence that holds nothing twice, and one element more.
LEMMA AppendNew ==
  ASSUME NEW S, NEW s \in Seq(S), IsInjective(s), NEW p \in S, p \notin ToSet(s)
  PROVE  /\ Append(s, p) \in Seq(S)
         /\ IsInjective(Append(s, p))
         /\ ToSet(Append(s, p)) = ToSet(s) \union {p}
         /\ DOMAIN Append(s, p) = DOMAIN s \union {Len(s) + 1}
         /\ Len(s) \in Nat /\ DOMAIN s = 1..Len(s)
         /\ \A i \in DOMAIN s : Append(s, p)[i] = s[i]
         /\ Append(s, p)[Len(s) + 1] = p
<1>1. /\ Append(s, p) \in Seq(S) /\ Len(s) \in Nat /\ DOMAIN s = 1..Len(s)
      /\ DOMAIN Append(s, p) = 1..(Len(s) + 1)
      /\ \A i \in 1..Len(s) : Append(s, p)[i] = s[i]
      /\ Append(s, p)[Len(s) + 1] = p
  BY AppendProperties, LenProperties
<1> DEFINE t == Append(s, p)
<1> HIDE DEF t
<1>2. IsInjective(t)
  BY <1>1 DEF t, IsInjective, ToSet
<1>3. ToSet(t) = ToSet(s) \union {p}
  BY <1>1 DEF t, ToSet
<1>4. DOMAIN t = DOMAIN s \union {Len(s) + 1}
  BY <1>1 DEF t
<1> QED BY <1>1, <1>2, <1>3, <1>4 DEF t

\* What OrderedDict.move_to_end leaves.
LEMMA MovedToEnd ==
  ASSUME NEW S, NEW s \in Seq(S), IsInjective(s), NEW p \in S
  PROVE  LET t == Append(RemoveFirst(s, p), p)
         IN  t \in Seq(S) /\ IsInjective(t) /\ ToSet(t) = ToSet(s) \union {p}
<1>1. /\ RemoveFirst(s, p) \in Seq(S) /\ IsInjective(RemoveFirst(s, p))
      /\ ToSet(RemoveFirst(s, p)) = ToSet(s) \ {p}
  BY RemoveFirstProperties
<1> QED BY <1>1, AppendNew

\* A frame on top of a stack.
LEMMA Pushed ==
  ASSUME NEW S, NEW s \in Seq(S), NEW f \in S
  PROVE  /\ <<f>> \o s \in Seq(S)
         /\ Len(<<f>> \o s) = Len(s) + 1
         /\ DOMAIN (<<f>> \o s) = 1..(Len(s) + 1)
         /\ Len(s) \in Nat
         /\ (<<f>> \o s)[1] = f
         /\ \A i \in 2..(Len(s) + 1) : (<<f>> \o s)[i] = s[i - 1]
<1>1. <<f>> \in Seq(S) /\ Len(<<f>>) = 1 /\ <<f>>[1] = f
  OBVIOUS
<1>2. /\ <<f>> \o s \in Seq(S) /\ Len(<<f>> \o s) = 1 + Len(s)
      /\ \A i \in 1..(1 + Len(s)) : (<<f>> \o s)[i] = IF i <= 1 THEN <<f>>[i] ELSE s[i - 1]
  BY <1>1, ConcatProperties
<1> QED BY <1>1, <1>2, LenProperties

\* The same in reverse.
LEMMA ReverseProperties ==
  ASSUME NEW S, NEW s \in Seq(S)
  PROVE  /\ Reverse(s) \in Seq(S)
         /\ Len(Reverse(s)) = Len(s)
         /\ DOMAIN Reverse(s) = 1..Len(s) /\ DOMAIN s = 1..Len(s) /\ Len(s) \in Nat
         /\ \A i \in 1..Len(s) : Reverse(s)[i] = s[Len(s) - i + 1]
         /\ ToSet(Reverse(s)) = ToSet(s)
         /\ IsInjective(s) => IsInjective(Reverse(s))
<1> DEFINE t == Reverse(s)
<1>1. Len(s) \in Nat /\ DOMAIN s = 1..Len(s) /\ \A i \in 1..Len(s) : s[i] \in S
  BY LenProperties, ElementOfSeq
<1>2. DOMAIN t = 1..Len(s) /\ \A i \in 1..Len(s) : t[i] = s[Len(s) - i + 1]
  BY <1>1 DEF Reverse
<1>3. t \in Seq(S) /\ Len(t) = Len(s)
  <2>1. t \in [1..Len(s) -> S]
    BY <1>1 DEF Reverse
  <2> QED BY <1>1, <1>2, <2>1, SeqDef, LenProperties
<1> HIDE DEF t
<1>4. ToSet(t) = ToSet(s)
  <2>1. \A i \in 1..Len(s) : Len(s) - i + 1 \in 1..Len(s) /\ t[Len(s) - i + 1] = s[i]
    BY <1>1, <1>2
  <2> QED BY <1>1, <1>2, <2>1 DEF ToSet
<1>5. IsInjective(s) => IsInjective(t)
  BY <1>1, <1>2 DEF IsInjective
<1> QED BY <1>1, <1>2, <1>3, <1>4, <1>5 DEF t

\* What is left of a list that is visited from its head: its own end, less its head.
LEMMA SuffixProperties ==
  ASSUME NEW S, NEW V \in Seq(S), IsInjective(V),
         NEW T \in Seq(S), T # <<>>, Len(T) <= Len(V),
         \A i \in DOMAIN T : T[i] = V[Len(V) - Len(T) + i]
  PROVE  /\ Head(T) \in ToSet(T) /\ ToSet(T) \subseteq ToSet(V)
         /\ ToSet(Tail(T)) = ToSet(T) \ {Head(T)}
         /\ Tail(T) \in Seq(S) /\ Len(Tail(T)) = Len(T) - 1 /\ Len(T) \in Nat \ {0}
         /\ \A i \in DOMAIN Tail(T) : Tail(T)[i] = V[Len(V) - Len(Tail(T)) + i]
         /\ Len(T) = 1 => ToSet(T) = {Head(T)}
         /\ \A i, j \in DOMAIN V : i < j /\ V[j] = Head(T) => V[i] \notin ToSet(T)
<1> DEFINE n == Len(V) - Len(T)
<1>1. /\ Len(V) \in Nat /\ DOMAIN V = 1..Len(V) /\ Len(T) \in Nat \ {0} /\ DOMAIN T = 1..Len(T)
      /\ n \in Nat /\ Len(V) = n + Len(T)
  BY LenProperties, EmptySeq
<1>2. \A i \in 1..Len(T) : n + i \in DOMAIN V /\ T[i] = V[n + i]
  BY <1>1
<1>3. \A i, j \in DOMAIN V : V[i] = V[j] => i = j
  BY DEF IsInjective
<1>4. /\ Tail(T) \in Seq(S) /\ Len(Tail(T)) = Len(T) - 1 /\ DOMAIN Tail(T) = 1..(Len(T) - 1)
      /\ \A i \in 1..(Len(T) - 1) : Tail(T)[i] = T[i + 1]
  BY HeadTailProperties, LenProperties
<1>5. Head(T) = T[1] /\ 1 \in 1..Len(T) /\ n + 1 \in DOMAIN V /\ T[1] = V[n + 1]
  BY <1>1, <1>2
<1>6. ToSet(T) \subseteq ToSet(V) /\ Head(T) \in ToSet(T)
  BY <1>1, <1>2, <1>5 DEF ToSet
<1> HIDE DEF n
<1>7. ToSet(Tail(T)) = ToSet(T) \ {Head(T)}
  <2>1. ASSUME NEW i \in 1..(Len(T) - 1)
        PROVE  Tail(T)[i] \in ToSet(T) \ {Head(T)}
    <3>1. i + 1 \in 1..Len(T) /\ Tail(T)[i] = T[i + 1] /\ T[i + 1] = V[n + (i + 1)]
      BY <1>1, <1>2, <1>4
    <3>2. n + (i + 1) \in DOMAIN V /\ n + (i + 1) # n + 1
      BY <3>1, <1>1, <1>2
    <3>3. T[i + 1] # T[1]
      BY <3>1, <3>2, <1>3, <1>5
    <3> QED BY <3>1, <3>3, <1>1, <1>5 DEF ToSet
  <2>2. ASSUME NEW x \in ToSet(T) \ {Head(T)}
        PROVE  x \in ToSet(Tail(T))
    <3>1. PICK i \in 1..Len(T) : T[i] = x
      BY <1>1 DEF ToSet
    <3>2. i # 1
      BY <3>1, <1>5
    <3>3. i - 1 \in 1..(Len(T) - 1) /\ (i - 1) + 1 = i
      BY <3>2, <1>1
    <3>4. Tail(T)[i - 1] = x
      BY <3>1, <3>3, <1>4
    <3> QED BY <3>3, <3>4, <1>4 DEF ToSet
  <2>3. ToSet(Tail(T)) \subseteq ToSet(T) \ {Head(T)}
    BY <2>1, <1>4 DEF ToSet
  <2> QED BY <2>2, <2>3
<1>8. \A i \in DOMAIN Tail(T) : Tail(T)[i] = V[Len(V) - Len(Tail(T)) + i]
  <2> SUFFICES ASSUME NEW i \in 1..(Len(T) - 1)
               PROVE  Tail(T)[i] = V[Len(V) - Len(Tail(T)) + i]
    BY <1>4
  <2>1. i + 1 \in 1..Len(T) /\ n + (i + 1) = Len(V) - Len(Tail(T)) + i
    BY <1>1, <1>4
  <2> QED BY <2>1, <1>2, <1>4
<1>9. Len(T) = 1 => ToSet(T) = {Head(T)}
  BY <1>1, <1>5 DEF ToSet
<1>10. ASSUME NEW i \in DOMAIN V, NEW j \in DOMAIN V, i < j, V[j] = Head(T), V[i] \in ToSet(T)
       PROVE  FALSE
  <2>1. PICK m \in 1..Len(T) : V[i] = T[m]
    BY <1>1, <1>10 DEF ToSet
  <2>2. i = n + m
    BY <2>1, <1>2, <1>3
  <2>3. j = n + 1
    BY <1>10, <1>3, <1>5
  <2> QED BY <2>2, <2>3, <1>1, <1>10
<1> QED BY <1>1, <1>4, <1>6, <1>7, <1>8, <1>9, <1>10

\* A sequence of some elements is one of more.
LEMMA WiderSeq ==
  ASSUME NEW S, NEW R, S \subseteq R, NEW s \in Seq(S)
  PROVE  s \in Seq(R)
<1>1. Len(s) \in Nat /\ s \in [1..Len(s) -> S]
  BY LenProperties
<1>2. s \in [1..Len(s) -> R]
  BY <1>1
<1> QED BY <1>1, <1>2, SeqDef

\* Two sequences with nothing in common and nothing twice.
LEMMA JoinedProperties ==
  ASSUME NEW S, NEW s \in Seq(S), NEW t \in Seq(S), IsInjective(s), IsInjective(t),
         ToSet(s) \intersect ToSet(t) = {}
  PROVE  /\ s \o t \in Seq(S) /\ IsInjective(s \o t)
         /\ ToSet(s \o t) = ToSet(s) \union ToSet(t)
         /\ Len(s) \in Nat /\ Len(t) \in Nat /\ DOMAIN s = 1..Len(s) /\ DOMAIN t = 1..Len(t)
         /\ DOMAIN (s \o t) = 1..(Len(s) + Len(t))
         /\ \A i \in DOMAIN s : i \in DOMAIN (s \o t) /\ (s \o t)[i] = s[i]
         /\ \A i \in DOMAIN t : Len(s) + i \in DOMAIN (s \o t) /\ (s \o t)[Len(s) + i] = t[i]
<1> DEFINE c == s \o t
<1>1. Len(s) \in Nat /\ Len(t) \in Nat /\ DOMAIN s = 1..Len(s) /\ DOMAIN t = 1..Len(t)
  BY LenProperties
<1>2. /\ c \in Seq(S) /\ DOMAIN c = 1..(Len(s) + Len(t))
      /\ \A i \in 1..(Len(s) + Len(t)) : c[i] = IF i <= Len(s) THEN s[i] ELSE t[i - Len(s)]
  BY ConcatProperties, LenProperties
<1> HIDE DEF c
<1>3. \A i \in DOMAIN s : i \in DOMAIN c /\ c[i] = s[i]
  BY <1>1, <1>2
<1>4. ASSUME NEW i \in DOMAIN t
      PROVE  Len(s) + i \in DOMAIN c /\ c[Len(s) + i] = t[i]
  <2>1. Len(s) + i \in 1..(Len(s) + Len(t)) /\ ~(Len(s) + i <= Len(s)) /\ (Len(s) + i) - Len(s) = i
    BY <1>1
  <2> QED BY <2>1, <1>2
<1>5. ASSUME NEW k \in DOMAIN c
      PROVE  k \in DOMAIN s \/ (k - Len(s) \in DOMAIN t /\ k = Len(s) + (k - Len(s)))
  BY <1>1, <1>2
<1>6. ToSet(c) = ToSet(s) \union ToSet(t)
  <2>1. ToSet(s) \subseteq ToSet(c)
    BY <1>3 DEF ToSet
  <2>2. ToSet(t) \subseteq ToSet(c)
    BY <1>4 DEF ToSet
  <2>3. ASSUME NEW x \in ToSet(c)
        PROVE  x \in ToSet(s) \union ToSet(t)
    <3>1. PICK k \in DOMAIN c : c[k] = x
      BY DEF ToSet
    <3> QED BY <3>1, <1>3, <1>4, <1>5 DEF ToSet
  <2> QED BY <2>1, <2>2, <2>3
<1>7. IsInjective(c)
  <2> SUFFICES ASSUME NEW k \in DOMAIN c, NEW l \in DOMAIN c, c[k] = c[l]
               PROVE  k = l
    BY DEF IsInjective
  <2>1. CASE k \in DOMAIN s /\ l \in DOMAIN s
    BY <2>1, <1>3 DEF IsInjective
  <2>2. CASE k \in DOMAIN s /\ l - Len(s) \in DOMAIN t /\ l = Len(s) + (l - Len(s))
    <3>1. c[k] \in ToSet(s) /\ c[l] \in ToSet(t)
      BY <2>2, <1>3, <1>4 DEF ToSet
    <3> QED BY <3>1
  <2>3. CASE l \in DOMAIN s /\ k - Len(s) \in DOMAIN t /\ k = Len(s) + (k - Len(s))
    <3>1. c[l] \in ToSet(s) /\ c[k] \in ToSet(t)
      BY <2>3, <1>3, <1>4 DEF ToSet
    <3> QED BY <3>1
  <2>4. CASE /\ k - Len(s) \in DOMAIN t /\ k = Len(s) + (k - Len(s))
             /\ l - Len(s) \in DOMAIN t /\ l = Len(s) + (l - Len(s))
    <3>1. t[k - Len(s)] = t[l - Len(s)]
      BY <2>4, <1>4
    <3>2. k - Len(s) = l - Len(s)
      BY <3>1, <2>4 DEF IsInjective
    <3> QED BY <3>2, <2>4
  <2> QED BY <2>1, <2>2, <2>3, <2>4, <1>5
<1> QED BY <1>1, <1>2, <1>3, <1>4, <1>6, <1>7 DEF c

-----------------------------------------------------------------------------
(* Stacks.                                                                   *)

\* A resolution that has been answered: the innermost frame needs one thing less.
LEMMA AnsweredProperties ==
  ASSUME TypeOK, NEW a \in Actors, NEW q, Needing(a, q)
  PROVE  /\ Answered(a) \in Seq(Frames) /\ Len(Answered(a)) = Len(work[a])
         /\ Len(work[a]) \in Nat \ {0}
         /\ DOMAIN Answered(a) = 1..Len(work[a]) /\ DOMAIN work[a] = 1..Len(work[a])
         /\ Answered(a)[1].makes = work[a][1].makes
         /\ ToSet(work[a][1].needs) = ToSet(Answered(a)[1].needs) \union {q}
         /\ \A i \in 2..Len(work[a]) : Answered(a)[i] = work[a][i]
         /\ q \in Providers
<1>1. /\ work[a] \in Seq(Frames) /\ work[a] # <<>> /\ Head(work[a]) = work[a][1]
      /\ Len(work[a]) \in Nat \ {0} /\ DOMAIN work[a] = 1..Len(work[a])
  BY EmptySeq, LenProperties DEF TypeOK, Needing, Resolving
<1> DEFINE top == Head(work[a])
           rest == Tail(work[a])
           next == Frame(top.makes, Tail(top.needs))
<1>2. top \in Frames /\ top.needs \in Seq(Providers) /\ top.needs # <<>> /\ Head(top.needs) = q
  <2>1. top \in Frames
    BY <1>1, HeadTailProperties
  <2>2. top.needs # <<>> /\ Head(top.needs) = q
    BY DEF Needing
  <2> QED BY <2>1, <2>2 DEF Frames
<1>3. /\ Tail(top.needs) \in Seq(Providers) /\ q \in Providers
      /\ ToSet(top.needs) = ToSet(Tail(top.needs)) \union {q}
  <2> DEFINE t == top.needs
  <2>1. /\ Head(t) \in Providers /\ Tail(t) \in Seq(Providers) /\ Len(Tail(t)) = Len(t) - 1
        /\ \A i \in 1..Len(Tail(t)) : Tail(t)[i] = t[i + 1]
    BY <1>2, HeadTailProperties
  <2>2. DOMAIN Tail(t) = 1..(Len(t) - 1) /\ DOMAIN t = 1..Len(t) /\ Len(t) \in Nat \ {0} /\ t[1] = q
    BY <2>1, <1>2, LenProperties, EmptySeq
  <2>3. ToSet(Tail(t)) \subseteq ToSet(t) /\ q \in ToSet(t)
    BY <2>1, <2>2 DEF ToSet
  <2>4. ASSUME NEW x \in ToSet(t), x # q
        PROVE  x \in ToSet(Tail(t))
    <3>1. PICK i \in 1..Len(t) : t[i] = x
      BY <2>2 DEF ToSet
    <3>2. i - 1 \in 1..(Len(t) - 1) /\ (i - 1) + 1 = i
      BY <3>1, <2>2, <2>4
    <3>3. Tail(t)[i - 1] = x
      BY <3>1, <3>2, <2>1
    <3> QED BY <3>2, <3>3, <2>2 DEF ToSet
  <2> QED BY <2>1, <2>3, <2>4, <1>2
<1>4. next \in Frames /\ next.makes = top.makes /\ next.needs = Tail(top.needs)
  BY <1>2, <1>3 DEF Frame, Frames
<1>5. /\ rest \in Seq(Frames) /\ Len(rest) = Len(work[a]) - 1
      /\ \A i \in 1..(Len(work[a]) - 1) : rest[i] = work[a][i + 1]
  BY <1>1, HeadTailProperties
<1>6. Answered(a) = <<next>> \o rest
  BY DEF Answered
<1> HIDE DEF top, rest, next
<1>7. /\ <<next>> \o rest \in Seq(Frames)
      /\ Len(<<next>> \o rest) = Len(rest) + 1
      /\ DOMAIN (<<next>> \o rest) = 1..(Len(rest) + 1)
      /\ (<<next>> \o rest)[1] = next
      /\ \A i \in 2..(Len(rest) + 1) : (<<next>> \o rest)[i] = rest[i - 1]
  BY <1>4, <1>5, Pushed
<1>8. ASSUME NEW i \in 2..Len(work[a])
      PROVE  Answered(a)[i] = work[a][i]
  <2>1. i \in 2..(Len(rest) + 1) /\ i - 1 \in 1..(Len(work[a]) - 1) /\ (i - 1) + 1 = i
    BY <1>1, <1>5
  <2> QED BY <2>1, <1>5, <1>6, <1>7
<1>9. Answered(a) \in Seq(Frames) /\ Len(Answered(a)) = Len(work[a]) /\ DOMAIN Answered(a) = 1..Len(work[a])
  BY <1>1, <1>5, <1>6, <1>7
<1>10. Answered(a)[1].makes = work[a][1].makes /\ Answered(a)[1].needs = Tail(work[a][1].needs)
  BY <1>1, <1>4, <1>6, <1>7 DEF top
<1> QED BY <1>1, <1>3, <1>8, <1>9, <1>10 DEF top

-----------------------------------------------------------------------------
(* The instances of the container, and the lists that stages visit.          *)

LEMMA CachedTypes ==
  ASSUME TypeOK
  PROVE  /\ ToSet(singletons) \subseteq Providers \ Durable /\ ToSet(durables) \subseteq Durable
         /\ Cached \subseteq Providers /\ Alive \subseteq Participants
         /\ ToSet(Modules) \intersect Cached = {} /\ None \notin Cached
<1>1. ToSet(singletons) \subseteq Providers \ Durable
  BY LenProperties, ElementOfSeq DEF TypeOK, ToSet
<1>2. ToSet(durables) \subseteq Durable
  BY LenProperties, ElementOfSeq DEF TypeOK, ToSet
<1> QED BY <1>1, <1>2, ProvidersAssumption DEF Cached, Alive, Participants

\* What is cached has the singletons it is made of cached.
LEMMA DependenciesCached ==
  ASSUME TypeOK, DependenciesFirst, NEW p \in Cached, NEW q \in ToSet(Deps[p]) \ Durable
  PROVE  q \in ToSet(singletons)
<1>1. CASE p \in ToSet(singletons)
  <2>1. PICK i \in DOMAIN singletons : singletons[i] = p
    BY <1>1 DEF ToSet
  <2>2. PICK j \in 1..(i - 1) : singletons[j] = q
    BY <2>1 DEF DependenciesFirst
  <2>3. j \in DOMAIN singletons
    BY <2>1, <2>2, LenProperties DEF TypeOK
  <2> QED BY <2>2, <2>3 DEF ToSet
<1>2. CASE p \in ToSet(durables)
  BY <1>2 DEF DependenciesFirst
<1> QED BY <1>1, <1>2 DEF Cached

\* The instances in the order a startup visits them: none of them twice, and what a
\* singleton serves after it.
LEMMA InstancesInOrder ==
  ASSUME TypeOK, DependenciesFirst
  PROVE  LET c == singletons \o durables
         IN  /\ c \in Seq(Participants) /\ IsInjective(c) /\ ToSet(c) = Cached
             /\ \A p \in Cached : \A q \in ToSet(Deps[p]) \ Durable :
                    \E i, j \in DOMAIN c : i < j /\ c[i] = q /\ c[j] = p
<1> DEFINE c == singletons \o durables
<1>1. singletons \in Seq(Participants) /\ durables \in Seq(Participants)
  BY WiderSeq, ProvidersAssumption DEF TypeOK, Participants
<1>2. ToSet(singletons) \intersect ToSet(durables) = {}
  BY CachedTypes
<1>3. /\ c \in Seq(Participants) /\ IsInjective(c)
      /\ ToSet(c) = Cached
      /\ Len(singletons) \in Nat /\ DOMAIN singletons = 1..Len(singletons)
      /\ DOMAIN durables = 1..Len(durables)
      /\ \A i \in DOMAIN singletons : i \in DOMAIN c /\ c[i] = singletons[i]
      /\ \A i \in DOMAIN durables : /\ Len(singletons) + i \in DOMAIN c
                                    /\ c[Len(singletons) + i] = durables[i]
  BY <1>1, <1>2, JoinedProperties DEF DependenciesFirst, Cached
<1> HIDE DEF c
<1>4. ASSUME NEW p \in Cached, NEW q \in ToSet(Deps[p]) \ Durable
      PROVE  \E i, j \in DOMAIN c : i < j /\ c[i] = q /\ c[j] = p
  <2>1. CASE p \in ToSet(singletons)
    <3>1. PICK j \in DOMAIN singletons : singletons[j] = p
      BY <2>1 DEF ToSet
    <3>2. PICK i \in 1..(j - 1) : singletons[i] = q
      BY <3>1, <1>4 DEF DependenciesFirst
    <3>3. i \in DOMAIN singletons /\ i < j
      BY <3>1, <3>2, <1>3
    <3> QED BY <3>1, <3>2, <3>3, <1>3
  <2>2. CASE p \in ToSet(durables)
    <3>1. PICK j \in DOMAIN durables : durables[j] = p
      BY <2>2 DEF ToSet
    <3>2. PICK i \in DOMAIN singletons : singletons[i] = q
      BY <1>4, DependenciesCached DEF ToSet
    <3>3. i < Len(singletons) + j
      BY <3>1, <3>2, <1>3, LenProperties DEF TypeOK
    <3> QED BY <3>1, <3>2, <3>3, <1>3
  <2> QED BY <2>1, <2>2 DEF Cached
<1> QED BY <1>3, <1>4 DEF c

\* What a driver visits in its half of a stage: a list that holds nothing twice, and
\* instances so that a startup visits dependencies first and a teardown last.
LEMMA VisitedProperties ==
  ASSUME TypeOK, DependenciesFirst, Positions, NEW d \in Drivers, InStages(d)
  PROVE  /\ Visited(d) \in Seq(Participants) /\ IsInjective(Visited(d))
         /\ ToSet(Visited(d)) = IF half[d] = "modules" THEN ToSet(Modules) ELSE Cached
         /\ half[d] # "modules" =>
              \A p \in Cached : \A q \in ToSet(Deps[p]) \ Durable :
                  \E i, j \in DOMAIN Visited(d) :
                      /\ i < j
                      /\ Visited(d)[i] = IF stage[d] \in Startups THEN q ELSE p
                      /\ Visited(d)[j] = IF stage[d] \in Startups THEN p ELSE q
<1> DEFINE c == singletons \o durables
<1>1. /\ c \in Seq(Participants) /\ IsInjective(c) /\ ToSet(c) = Cached
      /\ \A p \in Cached : \A q \in ToSet(Deps[p]) \ Durable :
             \E i, j \in DOMAIN c : i < j /\ c[i] = q /\ c[j] = p
  BY InstancesInOrder
<1>2. /\ InstancesOf(stage[d]) = IF stage[d] \in Startups THEN c ELSE Reverse(c)
  BY DEF InstancesOf
<1> HIDE DEF c
<1>3. Modules \in Seq(Participants) /\ IsInjective(Modules)
  BY WiderSeq, ProvidersAssumption DEF Participants
<1>4. CASE half[d] = "modules"
  <2>1. Visited(d) = Modules \/ Visited(d) = Reverse(Modules)
    BY <1>4 DEF Visited, ModulesOf
  <2> QED BY <2>1, <1>3, <1>4, ReverseProperties
<1>5. CASE half[d] # "modules" /\ stage[d] \in Startups
  BY <1>1, <1>2, <1>5 DEF Visited
<1>6. CASE half[d] # "modules" /\ stage[d] \notin Startups
  <2>1. Visited(d) = Reverse(c)
    BY <1>2, <1>6 DEF Visited
  <2>2. /\ Reverse(c) \in Seq(Participants) /\ IsInjective(Reverse(c)) /\ ToSet(Reverse(c)) = Cached
        /\ DOMAIN Reverse(c) = 1..Len(c) /\ DOMAIN c = 1..Len(c) /\ Len(c) \in Nat
        /\ \A i \in 1..Len(c) : Reverse(c)[i] = c[Len(c) - i + 1]
    BY <1>1, ReverseProperties
  <2>3. ASSUME NEW p \in Cached, NEW q \in ToSet(Deps[p]) \ Durable
        PROVE  \E i, j \in DOMAIN Reverse(c) : i < j /\ Reverse(c)[i] = p /\ Reverse(c)[j] = q
    <3>1. PICK i \in DOMAIN c, j \in DOMAIN c : i < j /\ c[i] = q /\ c[j] = p
      BY <1>1
    <3>2. /\ Len(c) - i + 1 \in 1..Len(c) /\ Len(c) - (Len(c) - i + 1) + 1 = i
          /\ Len(c) - j + 1 \in 1..Len(c) /\ Len(c) - (Len(c) - j + 1) + 1 = j
          /\ Len(c) - j + 1 < Len(c) - i + 1
      BY <3>1, <2>2
    <3>3. Reverse(c)[Len(c) - i + 1] = q /\ Reverse(c)[Len(c) - j + 1] = p
      BY <3>1, <3>2, <2>2
    <3> QED BY <3>2, <3>3, <2>2
  <2> QED BY <2>1, <2>2, <2>3, <1>6
<1> QED BY <1>4, <1>5, <1>6

-----------------------------------------------------------------------------
(* Hooks.                                                                    *)

\* Who is at work: the one driver that is neither idle nor ended, and nobody resolves
\* anything while it runs hooks.
LEMMA Alone ==
  ASSUME TypeOK, Turns, NEW d \in Drivers, InStages(d)
  PROVE  /\ \A e \in Drivers : e # d => ~InStages(e) /\ pc[e] \in {"idle", "ended"}
         /\ \A a \in Actors : work[a] = <<>>
         /\ \A r \in Resolvers : pc[r] # "resolving"
<1>1. \A e \in Drivers : e # d => pc[e] \in {"idle", "ended"}
  BY DEF Turns, InStages
<1>2. \A r \in Resolvers : pc[r] # "resolving"
  BY <1>1 DEF Turns, InStages
<1>3. \A a \in Actors : ~Resolving(a)
  BY <1>1, <1>2 DEF Turns, InStages, Actors
<1> QED BY <1>1, <1>2, <1>3 DEF InStages, Resolving

\* The hook that ends ran for the first time, on something alive; the order of the
\* instances that singletons serve is kept.
LEMMA HookProperties ==
  ASSUME IInv, NEW d \in Drivers, HookEnds(d)
  PROVE  LET x == Head(todo[d])
             s == stage[d]
         IN  /\ x \in Alive /\ x \in Participants /\ x \in ToSet(todo[d]) /\ s \in Stages
             /\ half[d] = "modules" => x \in ToSet(Modules)
             /\ runs[x][s] = 0
             /\ runs' = [runs EXCEPT ![x][s] = 1]
             /\ runs' \in [Participants -> [Stages -> 0..2]]
             /\ \A y \in Participants, t \in Stages : runs'[y][t] <= 1
             /\ \A y \in Participants, t \in Stages :
                    runs'[y][t] = IF y = x /\ t = s THEN 1 ELSE runs[y][t]
             /\ \A p \in Providers, q \in Providers \ Durable :
                    q \in ToSet(Deps[p]) /\ p \in Cached =>
                        /\ \A t \in Startups : runs'[p][t] > 0 => runs'[q][t] > 0
                        /\ \A t \in Teardowns : runs'[q][t] > 0 => runs'[p][t] > 0
<1> DEFINE x == Head(todo[d])
           s == stage[d]
<1>1. InStages(d) /\ runs' = [runs EXCEPT ![x][s] = IF @ = 2 THEN 2 ELSE @ + 1]
  BY DEF HookEnds, InStages
<1>2. /\ s \in (IF pc[d] = "start" THEN Startups ELSE Teardowns)
      /\ half[d] \in {"modules", "providers"}
      /\ todo[d] # <<>> /\ Len(todo[d]) <= Len(Visited(d))
      /\ \A i \in DOMAIN todo[d] : todo[d][i] = Visited(d)[Len(Visited(d)) - Len(todo[d]) + i]
  BY <1>1 DEF IInv, Positions
<1>3. todo[d] \in Seq(Participants) /\ runs \in [Participants -> [Stages -> 0..2]]
  BY DEF IInv, TypeOK
<1>4. /\ Visited(d) \in Seq(Participants) /\ IsInjective(Visited(d))
      /\ ToSet(Visited(d)) = IF half[d] = "modules" THEN ToSet(Modules) ELSE Cached
      /\ half[d] # "modules" =>
           \A p \in Cached : \A q \in ToSet(Deps[p]) \ Durable :
               \E i, j \in DOMAIN Visited(d) :
                   /\ i < j
                   /\ Visited(d)[i] = IF s \in Startups THEN q ELSE p
                   /\ Visited(d)[j] = IF s \in Startups THEN p ELSE q
  BY <1>1, VisitedProperties DEF IInv
<1>5. /\ x \in ToSet(todo[d]) /\ ToSet(todo[d]) \subseteq ToSet(Visited(d))
      /\ \A i, j \in DOMAIN Visited(d) :
             i < j /\ Visited(d)[j] = x => Visited(d)[i] \notin ToSet(todo[d])
  BY <1>2, <1>3, <1>4, SuffixProperties
<1>6. s \in Stages /\ (pc[d] = "start" <=> s \in Startups) /\ s \notin Earlier(s)
  BY <1>2 DEF Stages, Startups, Teardowns, Earlier
<1>7. Alive \subseteq Participants /\ Cached \subseteq Providers /\ ToSet(Modules) \intersect Providers = {}
  BY CachedTypes, ProvidersAssumption DEF IInv
<1>8. x \in Alive /\ x \in Participants /\ (half[d] = "modules" => x \in ToSet(Modules))
  BY <1>4, <1>5, <1>7 DEF Alive
<1>9. \A y \in Alive : runs[y][s] = IF y \in Awaited(d) THEN 0 ELSE 1
  BY <1>1 DEF IInv, RunsInStages
<1> HIDE DEF x, s
<1>10. x \in Awaited(d) /\ runs[x][s] = 0
  BY <1>5, <1>8, <1>9 DEF Awaited
<1>11. runs' = [runs EXCEPT ![x][s] = 1]
  BY <1>1, <1>3, <1>6, <1>8, <1>10
<1>12. \A y \in Participants, t \in Stages : runs'[y][t] = IF y = x /\ t = s THEN 1 ELSE runs[y][t]
  BY <1>3, <1>6, <1>8, <1>11
<1>13. runs' \in [Participants -> [Stages -> 0..2]]
  BY <1>3, <1>6, <1>8, <1>11
<1>14. \A y \in Participants, t \in Stages : runs'[y][t] <= 1
  BY <1>12 DEF IInv, HooksRunOnce
<1>15. ASSUME NEW p \in Providers, NEW q \in Providers \ Durable,
              q \in ToSet(Deps[p]), p \in Cached
       PROVE  /\ \A t \in Startups : runs'[p][t] > 0 => runs'[q][t] > 0
              /\ \A t \in Teardowns : runs'[q][t] > 0 => runs'[p][t] > 0
  <2>1. /\ \A t \in Startups : runs[p][t] > 0 => runs[q][t] > 0
        /\ \A t \in Teardowns : runs[q][t] > 0 => runs[p][t] > 0
    BY <1>15 DEF IInv, SingletonsOutliveDependents, InOrder, Ran
  <2>2. q \in Cached /\ p \in Participants /\ q \in Participants
    BY <1>15, DependenciesCached DEF IInv, Cached, Participants
  <2>3. Startups \subseteq Stages /\ Teardowns \subseteq Stages /\ Startups \intersect Teardowns = {}
    BY DEF Stages, Startups, Teardowns
  <2>4. \A t \in Startups : runs'[p][t] > 0 => runs'[q][t] > 0
    <3> SUFFICES ASSUME NEW t \in Startups, runs'[p][t] > 0
                 PROVE  runs'[q][t] > 0
      OBVIOUS
    <3>1. CASE t = s /\ p = x
      <4>1. half[d] # "modules" /\ s \in Startups
        BY <1>7, <1>8, <1>15, <3>1
      <4>2. PICK i \in DOMAIN Visited(d), j \in DOMAIN Visited(d) :
                i < j /\ Visited(d)[i] = q /\ Visited(d)[j] = p
        BY <1>4, <1>15, <4>1
      <4>3. q \notin ToSet(todo[d])
        BY <1>5, <3>1, <4>2
      <4>4. runs[q][s] = 1
        BY <1>9, <2>2, <4>1, <4>3 DEF Awaited, Alive
      <4> QED BY <1>12, <2>2, <2>3, <3>1, <4>4
    <3>2. CASE ~(t = s /\ p = x)
      <4>1. runs[p][t] > 0
        BY <1>12, <2>2, <2>3, <3>2
      <4>2. runs[q][t] > 0
        BY <2>1, <4>1
      <4> QED BY <1>12, <2>2, <2>3, <4>2
    <3> QED BY <3>1, <3>2
  <2>5. \A t \in Teardowns : runs'[q][t] > 0 => runs'[p][t] > 0
    <3> SUFFICES ASSUME NEW t \in Teardowns, runs'[q][t] > 0
                 PROVE  runs'[p][t] > 0
      OBVIOUS
    <3>1. CASE t = s /\ q = x
      <4>1. half[d] # "modules" /\ s \notin Startups
        BY <1>7, <1>8, <1>15, <2>3, <3>1
      <4>2. PICK i \in DOMAIN Visited(d), j \in DOMAIN Visited(d) :
                i < j /\ Visited(d)[i] = p /\ Visited(d)[j] = q
        BY <1>4, <1>15, <4>1
      <4>3. p \notin ToSet(todo[d])
        BY <1>5, <3>1, <4>2
      <4>4. runs[p][s] = 1
        BY <1>9, <1>15, <4>1, <4>3 DEF Awaited, Alive
      <4> QED BY <1>12, <2>2, <2>3, <3>1, <4>4
    <3>2. CASE ~(t = s /\ q = x)
      <4>1. runs[q][t] > 0
        BY <1>12, <2>2, <2>3, <3>2
      <4>2. runs[p][t] > 0
        BY <2>1, <4>1
      <4> QED BY <1>12, <2>2, <2>3, <4>2
    <3> QED BY <3>1, <3>2
  <2> QED BY <2>4, <2>5
<1> QED BY <1>5, <1>6, <1>8, <1>10, <1>11, <1>12, <1>13, <1>14, <1>15 DEF x, s

\* When nobody is left in a stage its hook has run on all that is alive.
LEMMA StageDone ==
  ASSUME IInv, NEW d \in Drivers, HookEnds(d), StageEnds(d)
  PROVE  /\ \A y \in Alive : runs'[y][stage[d]] = 1
         /\ \A y \in Alive, t \in Stages : t # stage[d] => runs'[y][t] = runs[y][t]
<1> DEFINE x == Head(todo[d])
<1>1. /\ x \in ToSet(todo[d]) /\ stage[d] \in Stages
      /\ \A y \in Participants, t \in Stages :
             runs'[y][t] = IF y = x /\ t = stage[d] THEN 1 ELSE runs[y][t]
  BY HookProperties
<1>2. Alive \subseteq Participants
  BY CachedTypes DEF IInv
<1>3. InStages(d)
  BY DEF HookEnds, InStages
<1>4. ToSet(todo[d]) = {x}
  <2>1. todo[d] \in Seq(Participants) /\ todo[d] # <<>> /\ ~(Len(todo[d]) > 1)
    BY <1>3 DEF IInv, TypeOK, Positions, StageEnds, MoreToDo
  <2>2. Len(todo[d]) = 1 /\ DOMAIN todo[d] = 1..1 /\ x = todo[d][1]
    <3>1. Len(todo[d]) \in Nat \ {0} /\ DOMAIN todo[d] = 1..Len(todo[d])
      BY <2>1, EmptySeq, LenProperties
    <3>2. \A n \in Nat \ {0} : n > 1 \/ n = 1
      OBVIOUS
    <3>3. Len(todo[d]) = 1
      BY <2>1, <3>1, <3>2
    <3> QED BY <2>1, <3>1, <3>3
  <2> QED BY <2>2 DEF ToSet
<1>5. half[d] = "modules" => Cached = {}
  <2> SUFFICES ASSUME half[d] = "modules"
               PROVE  Cached = {}
    OBVIOUS
  <2>1. InstancesOf(stage[d]) = <<>>
    BY DEF StageEnds
  <2> DEFINE c == singletons \o durables
  <2>2. c \in Seq(Participants) /\ ToSet(c) = Cached
    BY InstancesInOrder DEF IInv
  <2>3. ToSet(InstancesOf(stage[d])) = Cached
    BY <2>2, ReverseProperties DEF InstancesOf
  <2> QED BY <2>1, <2>3 DEF ToSet
<1>6. \A y \in Alive : runs[y][stage[d]] = IF y \in {x} THEN 0 ELSE 1
  BY <1>3, <1>4, <1>5 DEF IInv, RunsInStages, Awaited
<1> HIDE DEF x
<1> QED BY <1>1, <1>2, <1>6

-----------------------------------------------------------------------------
(* Every step keeps the invariant.                                           *)

LEMMA CachesKept ==
  ASSUME IInv, UNCHANGED cacheVars
  PROVE  Cached' = Cached /\ Alive' = Alive /\ DependenciesFirst'
BY DEF IInv, cacheVars, Cached, Alive, DependenciesFirst

\* A stage that a driver enters waits for all that is alive.
LEMMA StageEntered ==
  ASSUME IInv, NEW d \in Drivers, NEW s \in Stages, EnterStage(d, s), UNCHANGED cacheVars
  PROVE  /\ stage' \in [Drivers -> Stages \union {None}]
         /\ half' \in [Drivers -> {"modules", "providers", None}]
         /\ todo' \in [Drivers -> Seq(Participants)]
         /\ stage'[d] = s /\ half'[d] = "modules" /\ todo'[d] # <<>>
         /\ Awaited(d)' = Alive
         /\ Len(todo'[d]) <= Len(Visited(d)')
         /\ \A i \in DOMAIN todo'[d] : todo'[d][i] = Visited(d)'[Len(Visited(d)') - Len(todo'[d]) + i]
<1>1. /\ stage' = [stage EXCEPT ![d] = s]
      /\ half' = [half EXCEPT ![d] = "modules"]
      /\ todo' = [todo EXCEPT ![d] = ModulesOf(s)]
  BY DEF EnterStage
<1>2. Modules \in Seq(Participants) /\ Modules # <<>>
  BY WiderSeq, ProvidersAssumption DEF Participants
<1>3. ModulesOf(s) \in Seq(Participants) /\ ToSet(ModulesOf(s)) = ToSet(Modules) /\ Len(ModulesOf(s)) = Len(Modules)
  BY <1>2, ReverseProperties DEF ModulesOf
<1>4. ModulesOf(s) # <<>> /\ Len(ModulesOf(s)) \in Nat
  BY <1>2, <1>3, EmptySeq
<1>5. /\ stage' \in [Drivers -> Stages \union {None}]
      /\ half' \in [Drivers -> {"modules", "providers", None}]
      /\ todo' \in [Drivers -> Seq(Participants)]
      /\ stage'[d] = s /\ half'[d] = "modules" /\ todo'[d] = ModulesOf(s)
  BY <1>1, <1>3 DEF IInv, TypeOK
<1>6. Visited(d)' = ModulesOf(s)
  BY <1>5 DEF Visited, ModulesOf
<1>7. Awaited(d)' = Alive
  BY <1>3, <1>5, CachesKept DEF Awaited, Alive
<1>8. \A i \in DOMAIN ModulesOf(s) : Len(ModulesOf(s)) - Len(ModulesOf(s)) + i = i
  BY <1>3, <1>4, LenProperties
<1> QED BY <1>4, <1>5, <1>6, <1>7, <1>8

\* A driver that is in no stage any more.
LEMMA StagesLeft ==
  ASSUME IInv, NEW d \in Drivers, LeaveStages(d)
  PROVE  /\ stage' \in [Drivers -> Stages \union {None}]
         /\ half' \in [Drivers -> {"modules", "providers", None}]
         /\ todo' \in [Drivers -> Seq(Participants)]
BY DEF IInv, TypeOK, LeaveStages

LEMMA KeepsNextHook ==
  ASSUME IInv, NEW d \in Drivers, NextHook(d)
  PROVE  IInv'
<1> DEFINE x == Head(todo[d])
           s == stage[d]
<1>1. HookEnds(d) /\ ~StageEnds(d) /\ UNCHANGED <<stateVars, cacheVars, pc, stage, work>>
  BY DEF NextHook, HookEnds
<1>2. InStages(d)
  BY <1>1 DEF HookEnds, InStages
<1>3. /\ x \in Alive /\ x \in Participants /\ x \in ToSet(todo[d]) /\ s \in Stages
      /\ half[d] = "modules" => x \in ToSet(Modules)
      /\ runs' \in [Participants -> [Stages -> 0..2]]
      /\ \A y \in Participants, t \in Stages : runs'[y][t] <= 1
      /\ \A y \in Participants, t \in Stages : runs'[y][t] = IF y = x /\ t = s THEN 1 ELSE runs[y][t]
      /\ \A p \in Providers, q \in Providers \ Durable :
             q \in ToSet(Deps[p]) /\ p \in Cached =>
                 /\ \A t \in Startups : runs'[p][t] > 0 => runs'[q][t] > 0
                 /\ \A t \in Teardowns : runs'[q][t] > 0 => runs'[p][t] > 0
  BY <1>1, HookProperties
<1>4. /\ \A e \in Drivers : e # d => ~InStages(e) /\ pc[e] \in {"idle", "ended"}
      /\ \A a \in Actors : work[a] = <<>>
  BY <1>2, Alone DEF IInv
<1>5. Cached' = Cached /\ Alive' = Alive /\ DependenciesFirst'
  BY <1>1, CachesKept
<1>6. /\ Alive \subseteq Participants /\ Cached \subseteq Providers
      /\ ToSet(Modules) \intersect Cached = {}
  BY CachedTypes DEF IInv
<1>7. /\ s \in (IF pc[d] = "start" THEN Startups ELSE Teardowns)
      /\ half[d] \in {"modules", "providers"}
      /\ todo[d] # <<>> /\ Len(todo[d]) <= Len(Visited(d))
      /\ \A i \in DOMAIN todo[d] : todo[d][i] = Visited(d)[Len(Visited(d)) - Len(todo[d]) + i]
      /\ todo \in [Drivers -> Seq(Participants)] /\ half \in [Drivers -> {"modules", "providers", None}]
  BY <1>2 DEF IInv, Positions, TypeOK
<1>8. /\ Visited(d) \in Seq(Participants) /\ IsInjective(Visited(d))
      /\ ToSet(Visited(d)) = IF half[d] = "modules" THEN ToSet(Modules) ELSE Cached
  BY <1>2, VisitedProperties DEF IInv
<1>9. /\ ToSet(Tail(todo[d])) = ToSet(todo[d]) \ {x}
      /\ Tail(todo[d]) \in Seq(Participants) /\ Len(Tail(todo[d])) = Len(todo[d]) - 1
      /\ Len(todo[d]) \in Nat \ {0}
      /\ \A i \in DOMAIN Tail(todo[d]) :
             Tail(todo[d])[i] = Visited(d)[Len(Visited(d)) - Len(Tail(todo[d])) + i]
      /\ Len(todo[d]) = 1 => ToSet(todo[d]) = {x}
  BY <1>7, <1>8, SuffixProperties
<1>10. /\ InstancesOf(s) \in Seq(Participants) /\ ToSet(InstancesOf(s)) = Cached
       /\ (InstancesOf(s))' = InstancesOf(s) /\ (ModulesOf(s))' = ModulesOf(s)
  <2>1. /\ singletons \o durables \in Seq(Participants) /\ IsInjective(singletons \o durables)
        /\ ToSet(singletons \o durables) = Cached
    BY InstancesInOrder DEF IInv
  <2> QED BY <2>1, <1>1, ReverseProperties DEF InstancesOf, ModulesOf, cacheVars
\* The list, and what is still awaited.
<1>11. /\ todo' \in [Drivers -> Seq(Participants)] /\ half' \in [Drivers -> {"modules", "providers", None}]
       /\ half'[d] \in {"modules", "providers"}
       /\ todo'[d] # <<>> /\ Len(todo'[d]) <= Len(Visited(d)')
       /\ \A i \in DOMAIN todo'[d] : todo'[d][i] = Visited(d)'[Len(Visited(d)') - Len(todo'[d]) + i]
       /\ Awaited(d)' = Awaited(d) \ {x}
  <2>1. CASE MoreToDo(d)
    <3>1. todo' = [todo EXCEPT ![d] = Tail(todo[d])] /\ half' = half
      BY <2>1 DEF NextHook
    <3>2. todo'[d] = Tail(todo[d]) /\ half'[d] = half[d]
      BY <1>7, <3>1
    <3>3. Visited(d)' = Visited(d)
      BY <1>1, <1>10, <3>2 DEF Visited
    <3>4. Awaited(d)' = Awaited(d) \ {x}
      BY <1>3, <1>5, <1>6, <1>9, <3>2 DEF Awaited
    <3>5. Tail(todo[d]) # <<>>
      <4>1. \A n \in Nat : n > 1 => n - 1 # 0
        OBVIOUS
      <4>2. Len(Tail(todo[d])) # 0
        BY <2>1, <1>9, <4>1 DEF MoreToDo
      <4> QED BY <4>2, EmptySeq
    <3>6. Len(Visited(d)) \in Nat
      BY <1>8, LenProperties
    <3> QED BY <1>7, <1>9, <3>1, <3>2, <3>3, <3>4, <3>5, <3>6
  <2>2. CASE ~MoreToDo(d)
    <3>1. todo' = [todo EXCEPT ![d] = InstancesOf(s)] /\ half' = [half EXCEPT ![d] = "providers"]
      BY <2>2 DEF NextHook
    <3>2. todo'[d] = InstancesOf(s) /\ half'[d] = "providers"
      BY <1>7, <3>1
    <3>3. half[d] = "modules" /\ InstancesOf(s) # <<>>
      BY <1>1, <1>7, <2>2 DEF StageEnds
    <3>4. Visited(d)' = InstancesOf(s)
      BY <1>1, <1>10, <3>2 DEF Visited
    <3>5. ToSet(todo[d]) = {x}
      <4>1. \A n \in Nat \ {0} : n > 1 \/ n = 1
        OBVIOUS
      <4>2. Len(todo[d]) = 1
        BY <1>9, <2>2, <4>1 DEF MoreToDo
      <4> QED BY <1>9, <4>2
    <3>6. Awaited(d)' = Awaited(d) \ {x}
      BY <1>3, <1>5, <1>6, <1>10, <3>2, <3>3, <3>5 DEF Awaited
    <3>7. \A i \in DOMAIN InstancesOf(s) : Len(InstancesOf(s)) - Len(InstancesOf(s)) + i = i
      BY <1>10, LenProperties
    <3>8. Len(InstancesOf(s)) <= Len(InstancesOf(s))
      BY <1>10, LenProperties
    <3> QED BY <1>7, <1>10, <3>1, <3>2, <3>3, <3>4, <3>6, <3>7, <3>8
  <2> QED BY <2>1, <2>2
<1> HIDE DEF x, s
<1>12. TypeOK'
  BY <1>1, <1>3, <1>11 DEF IInv, TypeOK, stateVars, cacheVars
<1>13. Turns'
  BY <1>1 DEF IInv, Turns, stateVars, Resolving
<1>14. Stacks' /\ OneConstruction'
  BY <1>1, <1>4 DEF Stacks, OneConstruction
<1>15. EmptyWhenStopped'
  BY <1>1, <1>5 DEF IInv, EmptyWhenStopped
<1>16. Positions'
  BY <1>1, <1>4, <1>7, <1>11 DEF Positions, InStages, s
<1>17. RunsInStages'
  <2> SUFFICES ASSUME NEW y \in Alive
               PROVE  /\ runs'[y][s] = IF y \in Awaited(d)' THEN 0 ELSE 1
                      /\ \A t \in Earlier(s) : runs'[y][t] = 1
                      /\ \A t \in (IF pc[d] = "start" THEN Stages ELSE Teardowns) :
                             t # s /\ t \notin Earlier(s) => runs'[y][t] = 0
    BY <1>1, <1>4, <1>5 DEF RunsInStages, InStages, s, Earlier
  <2>1. /\ runs[y][s] = IF y \in Awaited(d) THEN 0 ELSE 1
        /\ \A t \in Earlier(s) : runs[y][t] = 1
        /\ \A t \in (IF pc[d] = "start" THEN Stages ELSE Teardowns) :
               t # s /\ t \notin Earlier(s) => runs[y][t] = 0
    BY <1>2 DEF IInv, RunsInStages, s
  <2>2. Earlier(s) \subseteq Stages /\ s \notin Earlier(s) /\ Teardowns \subseteq Stages
    BY DEF Earlier, Stages, Startups, Teardowns
  <2> QED BY <1>3, <1>6, <1>11, <2>1, <2>2
<1>18. RunsOutside' /\ WarmWhenStarted'
  BY <1>1, <1>2, <1>4, <1>5 DEF IInv, RunsOutside, WarmWhenStarted, InStages
<1>19. HooksRunOnce'
  <2>1. \A y \in Participants, t \in Stages : runs[y][t] > 0 => runs'[y][t] > 0
    BY <1>3
  <2>2. ToSet(Warmed) \subseteq Participants /\ Startups \subseteq Stages
    BY ProvidersAssumption, LenProperties, ElementOfSeq DEF Participants, ToSet, Stages
  <2> QED BY <1>1, <1>3, <1>5, <2>1, <2>2 DEF IInv, HooksRunOnce, Ran, stateVars
<1>20. SingletonsOutliveDependents'
  BY <1>3, <1>5 DEF SingletonsOutliveDependents, InOrder, Ran
<1> QED BY <1>5, <1>12, <1>13, <1>14, <1>15, <1>16, <1>17, <1>18, <1>19, <1>20 DEF IInv

\* Whatever takes a driver into a stage, of a startup or of a teardown.
Entering(d, s, l) ==
    /\ EnterStage(d, s) /\ UNCHANGED <<stateVars, cacheVars>>
    /\ pc' = [pc EXCEPT ![d] = l] /\ s \in (IF l = "start" THEN Startups ELSE Teardowns)
    /\ initialized <=> l = "stop"
    /\ \A e \in Drivers : e # d => pc[e] \in {"idle", "ended"}
    /\ \A r \in Resolvers : pc[r] # "resolving"
    /\ work' \in [Actors -> Seq(Frames)] /\ \A a \in Actors : work'[a] = <<>>
    /\ runs' \in [Participants -> [Stages -> 0..2]]
    /\ \A x \in Alive :
          /\ runs'[x][s] = 0
          /\ \A t \in Earlier(s) : runs'[x][t] = 1
          /\ \A t \in (IF l = "start" THEN Stages ELSE Teardowns) :
                 t # s /\ t \notin Earlier(s) => runs'[x][t] = 0
    /\ l = "start" => ToSet(Warmed) \subseteq Cached
    /\ HooksRunOnce' /\ SingletonsOutliveDependents'

LEMMA KeepsEntering ==
  ASSUME IInv, NEW d \in Drivers, NEW s \in Stages, NEW l \in {"start", "undo", "stop"}, Entering(d, s, l)
  PROVE  IInv'
<1> USE DEF Entering
<1>1. pc \in [Actors -> Places] /\ d \in Actors
  BY DEF IInv, TypeOK, Actors
<1>2. /\ pc' \in [Actors -> Places] /\ pc'[d] = l
      /\ \A a \in Actors : a # d => pc'[a] = pc[a]
  BY <1>1 DEF Places
<1>3. \A r \in Resolvers : r # d /\ r \in Actors /\ pc'[r] = pc[r]
  BY <1>2, ProvidersAssumption DEF Actors
<1>4. \A e \in Drivers : e # d => pc'[e] \in {"idle", "ended"} /\ e \in Actors
  BY <1>2 DEF Actors
<1>5. Cached' = Cached /\ Alive' = Alive /\ DependenciesFirst'
  BY CachesKept
<1>6. /\ stage' \in [Drivers -> Stages \union {None}]
      /\ half' \in [Drivers -> {"modules", "providers", None}]
      /\ todo' \in [Drivers -> Seq(Participants)]
      /\ stage'[d] = s /\ half'[d] = "modules" /\ todo'[d] # <<>>
      /\ Awaited(d)' = Alive
      /\ Len(todo'[d]) <= Len(Visited(d)')
      /\ \A i \in DOMAIN todo'[d] : todo'[d][i] = Visited(d)'[Len(Visited(d)') - Len(todo'[d]) + i]
  BY StageEntered
<1>7. TypeOK'
  BY <1>2, <1>6 DEF IInv, TypeOK, stateVars, cacheVars
<1>8. Turns'
  <2>1. initialized' = initialized
    BY DEF stateVars
  <2>2. \A a \in Actors : ~Resolving(a)'
    BY DEF Resolving
  <2>3. \A r \in Resolvers : pc'[r] \in {"idle", "ended"}
    BY <1>3 DEF IInv, Turns
  <2> QED BY <2>1, <2>2, <2>3, <1>2, <1>4 DEF Turns
<1>9. Stacks' /\ OneConstruction'
  BY DEF Stacks, OneConstruction
<1>10. EmptyWhenStopped'
  BY <1>2 DEF EmptyWhenStopped
<1>11. Positions'
  BY <1>2, <1>4, <1>6 DEF Positions, InStages
<1>12. RunsInStages'
  <2>1. ASSUME NEW e \in Drivers, InStages(e)'
        PROVE  e = d
    BY <2>1, <1>4 DEF InStages
  <2>2. Earlier(stage[d])' = Earlier(s)
    BY <1>6 DEF Earlier
  <2> QED BY <2>1, <2>2, <1>2, <1>5, <1>6 DEF RunsInStages
<1>13. RunsOutside' /\ WarmWhenStarted'
  BY <1>2, <1>4, <1>5 DEF RunsOutside, WarmWhenStarted
<1> QED BY <1>5, <1>7, <1>8, <1>9, <1>10, <1>11, <1>12, <1>13 DEF IInv

\* What a stage that ends leaves to the one that follows it.
LEMMA KeepsNextStage ==
  ASSUME IInv, NEW d \in Drivers, NextStage(d)
  PROVE  IInv'
<1> DEFINE s == stage[d]
           n == Following(stage[d])
<1>1. /\ HookEnds(d) /\ StageEnds(d) /\ n # None /\ EnterStage(d, n)
      /\ UNCHANGED <<stateVars, cacheVars, pc, work>>
  BY DEF NextStage, HookEnds
<1>2. InStages(d)
  BY <1>1 DEF HookEnds, InStages
<1>3. /\ s \in (IF pc[d] = "start" THEN Startups ELSE Teardowns) /\ s \in Stages
  BY <1>2 DEF IInv, Positions, Stages
<1>4. /\ n \in Stages /\ n \in (IF pc[d] = "start" THEN Startups ELSE Teardowns)
      /\ Earlier(n) = Earlier(s) \union {s} /\ n # s /\ n \notin Earlier(s) /\ s \notin Earlier(s)
      /\ Earlier(n) \subseteq Stages /\ Teardowns \subseteq Stages
  BY <1>1, <1>3 DEF Following, Earlier, Stages, Startups, Teardowns
<1>5. /\ runs' \in [Participants -> [Stages -> 0..2]]
      /\ \A y \in Participants, t \in Stages : runs'[y][t] <= 1
      /\ \A y \in Participants, t \in Stages : runs[y][t] > 0 => runs'[y][t] > 0
      /\ \A p \in Providers, q \in Providers \ Durable :
             q \in ToSet(Deps[p]) /\ p \in Cached =>
                 /\ \A t \in Startups : runs'[p][t] > 0 => runs'[q][t] > 0
                 /\ \A t \in Teardowns : runs'[q][t] > 0 => runs'[p][t] > 0
  <2>1. \A y \in Participants, t \in Stages :
            runs'[y][t] = IF y = Head(todo[d]) /\ t = stage[d] THEN 1 ELSE runs[y][t]
    BY <1>1, HookProperties
  <2>2. \A y \in Participants, t \in Stages : runs[y][t] > 0 => runs'[y][t] > 0
    BY <2>1
  <2> QED BY <1>1, <2>2, HookProperties
<1>6. /\ \A e \in Drivers : e # d => pc[e] \in {"idle", "ended"}
      /\ \A a \in Actors : work[a] = <<>>
      /\ \A r \in Resolvers : pc[r] # "resolving"
  BY <1>2, Alone DEF IInv
<1>7. Cached' = Cached
  BY <1>1, CachesKept
<1>8. /\ \A y \in Alive : runs'[y][s] = 1
      /\ \A y \in Alive, t \in Stages : t # s => runs'[y][t] = runs[y][t]
  BY <1>1, StageDone
<1>9. \A y \in Alive :
         /\ \A t \in Earlier(s) : runs[y][t] = 1
         /\ \A t \in (IF pc[d] = "start" THEN Stages ELSE Teardowns) :
               t # s /\ t \notin Earlier(s) => runs[y][t] = 0
  BY <1>2 DEF IInv, RunsInStages
<1> HIDE DEF s, n
<1>10. \A y \in Alive :
          /\ runs'[y][n] = 0
          /\ \A t \in Earlier(n) : runs'[y][t] = 1
          /\ \A t \in (IF pc[d] = "start" THEN Stages ELSE Teardowns) :
                t # n /\ t \notin Earlier(n) => runs'[y][t] = 0
  <2> SUFFICES ASSUME NEW y \in Alive
               PROVE  /\ runs'[y][n] = 0
                      /\ \A t \in Earlier(n) : runs'[y][t] = 1
                      /\ \A t \in (IF pc[d] = "start" THEN Stages ELSE Teardowns) :
                            t # n /\ t \notin Earlier(n) => runs'[y][t] = 0
    OBVIOUS
  <2>1. runs'[y][n] = 0
    BY <1>4, <1>8, <1>9 DEF Stages
  <2>2. \A t \in Earlier(n) : runs'[y][t] = 1
    BY <1>4, <1>8, <1>9
  <2>3. \A t \in (IF pc[d] = "start" THEN Stages ELSE Teardowns) :
            t # n /\ t \notin Earlier(n) => runs'[y][t] = 0
    BY <1>4, <1>8, <1>9
  <2> QED BY <2>1, <2>2, <2>3
<1>11. HooksRunOnce'
  <2>1. ToSet(Warmed) \subseteq Participants /\ Startups \subseteq Stages
    BY ProvidersAssumption, LenProperties, ElementOfSeq DEF Participants, ToSet, Stages
  <2> QED BY <1>1, <1>5, <1>7, <2>1 DEF IInv, HooksRunOnce, Ran, stateVars
<1>12. SingletonsOutliveDependents'
  BY <1>5, <1>7 DEF SingletonsOutliveDependents, InOrder, Ran
<1>13. /\ pc' = [pc EXCEPT ![d] = pc[d]] /\ pc[d] \in {"start", "undo", "stop"}
       /\ work' \in [Actors -> Seq(Frames)]
  BY <1>1, <1>2 DEF IInv, TypeOK, InStages
<1>14. initialized <=> pc[d] = "stop"
  BY <1>2, <1>6 DEF IInv, Turns, InStages
<1>15. pc[d] = "start" => ToSet(Warmed) \subseteq Cached
  BY DEF IInv, WarmWhenStarted
<1>16. PICK l \in {"start", "undo", "stop"} : l = pc[d]
  BY <1>13
<1>17. /\ pc' = [pc EXCEPT ![d] = l] /\ n \in (IF l = "start" THEN Startups ELSE Teardowns)
       /\ initialized <=> l = "stop"
       /\ l = "start" => ToSet(Warmed) \subseteq Cached
  BY <1>4, <1>13, <1>14, <1>15, <1>16
<1>18. \A y \in Alive :
          /\ runs'[y][n] = 0
          /\ \A t \in Earlier(n) : runs'[y][t] = 1
          /\ \A t \in (IF l = "start" THEN Stages ELSE Teardowns) :
                t # n /\ t \notin Earlier(n) => runs'[y][t] = 0
  BY <1>10, <1>16
<1>19. n \in Stages /\ EnterStage(d, n) /\ UNCHANGED <<stateVars, cacheVars>>
  BY <1>1, <1>4
<1>20. /\ \A a \in Actors : work'[a] = <<>>
       /\ runs' \in [Participants -> [Stages -> 0..2]]
  BY <1>1, <1>5, <1>6
<1>21. Entering(d, n, l)
  BY <1>6, <1>11, <1>12, <1>13, <1>17, <1>18, <1>19, <1>20 DEF Entering
<1> QED BY <1>19, <1>21, KeepsEntering

\* Warm-up done: nothing has run on what it built.
LEMMA KeepsWarmedUp ==
  ASSUME IInv, NEW d \in Drivers, WarmedUp(d)
  PROVE  IInv'
<1>1. /\ pc[d] = "warm" /\ Len(work[d]) = 1 /\ Head(work[d]).needs = <<>>
      /\ work' = [work EXCEPT ![d] = <<>>] /\ pc' = [pc EXCEPT ![d] = "start"]
      /\ EnterStage(d, "on_module_init") /\ UNCHANGED <<stateVars, cacheVars, runs>>
  BY DEF WarmedUp, AtRoot
<1>2. /\ \A e \in Drivers : e # d => pc[e] \in {"idle", "ended"}
      /\ \A r \in Resolvers : pc[r] # "resolving"
      /\ ~initialized /\ d \in Actors /\ work \in [Actors -> Seq(Frames)]
  BY <1>1 DEF IInv, TypeOK, Turns, Actors
<1>3. \A a \in Actors : a # d => work[a] = <<>>
  BY <1>2 DEF IInv, Turns, Resolving, Actors
<1>4. work' \in [Actors -> Seq(Frames)] /\ \A a \in Actors : work'[a] = <<>>
  BY <1>1, <1>2, <1>3
<1>5. ToSet(Warmed) \subseteq Cached
  <2>1. work[d] \in Seq(Frames) /\ DOMAIN work[d] = 1..1 /\ Head(work[d]) = work[d][1]
    BY <1>1, <1>2, LenProperties
  <2>2. 1 \in DOMAIN work[d] /\ work[d][1].makes = None /\ ToSet(work[d][1].needs) = {}
    BY <1>1, <1>2, <2>1 DEF IInv, Stacks, ToSet
  <2>3. Wanted(d, work[d][1]) = Warmed
    BY <2>2 DEF Wanted
  <2> QED BY <1>2, <2>2, <2>3 DEF IInv, Stacks, Accounted
<1>6. \A x \in Alive, t \in Stages : runs[x][t] = 0
  BY <1>1 DEF IInv, RunsOutside, NeverRun
<1>7. /\ "on_module_init" \in Stages /\ "on_module_init" \in Startups
      /\ Earlier("on_module_init") = {} /\ Teardowns \subseteq Stages
  BY DEF Stages, Startups, Teardowns, Earlier
<1>8. HooksRunOnce' /\ SingletonsOutliveDependents'
  <2>1. Cached' = Cached
    BY <1>1, CachesKept
  <2> QED BY <1>1, <2>1 DEF IInv, HooksRunOnce, SingletonsOutliveDependents, InOrder, Ran, stateVars
<1>9. /\ runs' \in [Participants -> [Stages -> 0..2]]
      /\ \A x \in Alive :
            /\ runs'[x]["on_module_init"] = 0
            /\ \A t \in Earlier("on_module_init") : runs'[x][t] = 1
            /\ \A t \in Stages :
                   t # "on_module_init" /\ t \notin Earlier("on_module_init") => runs'[x][t] = 0
  BY <1>1, <1>6, <1>7 DEF IInv, TypeOK
<1>10. /\ "start" \in {"start", "undo", "stop"}
       /\ "on_module_init" \in (IF "start" = "start" THEN Startups ELSE Teardowns)
       /\ initialized <=> "start" = "stop"
  BY <1>2, <1>7
<1>11. \A x \in Alive :
          /\ runs'[x]["on_module_init"] = 0
          /\ \A t \in Earlier("on_module_init") : runs'[x][t] = 1
          /\ \A t \in (IF "start" = "start" THEN Stages ELSE Teardowns) :
                 t # "on_module_init" /\ t \notin Earlier("on_module_init") => runs'[x][t] = 0
  BY <1>9
<1>12. Entering(d, "on_module_init", "start")
  BY <1>1, <1>2, <1>4, <1>5, <1>8, <1>9, <1>10, <1>11 DEF Entering
<1> QED BY <1>7, <1>12, KeepsEntering

\* A startup that fails tears down what it built, whatever hook it has reached.
LEMMA KeepsUndo ==
  ASSUME IInv, NEW d \in Drivers, Undo(d)
  PROVE  IInv'
<1> DEFINE s == "before_application_shutdown"
<1>1. EnterStage(d, s) /\ UNCHANGED <<stateVars, cacheVars>>
  BY DEF Undo
<1>2. WarmUpFails(d) \/ StartupHookFails(d)
  BY DEF Undo
<1>3. pc' = [pc EXCEPT ![d] = "undo"]
  BY DEF Undo
<1>4. /\ pc[d] \in {"warm", "start"} /\ d \in Actors
      /\ work \in [Actors -> Seq(Frames)] /\ runs \in [Participants -> [Stages -> 0..2]]
  BY <1>2 DEF WarmUpFails, StartupHookFails, IInv, TypeOK, Actors
<1>5. /\ \A e \in Drivers : e # d => pc[e] \in {"idle", "ended"}
      /\ \A r \in Resolvers : pc[r] # "resolving"
      /\ ~initialized
  BY <1>4 DEF IInv, Turns
<1>6. \A a \in Actors : a # d => work[a] = <<>>
  BY <1>5 DEF IInv, Turns, Resolving, Actors
<1>7. Cached' = Cached /\ Alive \subseteq Participants
  BY <1>1, CachesKept, CachedTypes DEF IInv
<1>8. /\ s \in Stages /\ s \in Teardowns /\ Earlier(s) = {} /\ Teardowns \subseteq Stages
      /\ Startups \intersect Teardowns = {}
  BY DEF Stages, Startups, Teardowns, Earlier
<1> HIDE DEF s
<1>9. /\ runs' \in [Participants -> [Stages -> 0..2]]
      /\ work' \in [Actors -> Seq(Frames)] /\ \A a \in Actors : work'[a] = <<>>
      /\ \A x \in Alive, t \in Teardowns : runs'[x][t] = 0
      /\ HooksRunOnce' /\ SingletonsOutliveDependents'
  <2>1. CASE WarmUpFails(d)
    <3>1. pc[d] = "warm" /\ work' = [work EXCEPT ![d] = <<>>] /\ runs' = runs
      BY <2>1 DEF WarmUpFails
    <3>2. work' \in [Actors -> Seq(Frames)] /\ \A a \in Actors : work'[a] = <<>>
      BY <1>4, <1>6, <3>1
    <3>3. \A x \in Alive, t \in Stages : runs'[x][t] = 0
      BY <3>1 DEF IInv, RunsOutside, NeverRun
    <3>4. HooksRunOnce' /\ SingletonsOutliveDependents'
      BY <1>1, <1>7, <3>1 DEF IInv, HooksRunOnce, SingletonsOutliveDependents, InOrder, Ran, stateVars
    <3> QED BY <1>4, <1>8, <3>1, <3>2, <3>3, <3>4
  <2>2. CASE StartupHookFails(d)
    <3>1. pc[d] = "start" /\ HookEnds(d) /\ work' = work /\ InStages(d)
      BY <2>2 DEF StartupHookFails, HookEnds, InStages
    <3>2. work' \in [Actors -> Seq(Frames)] /\ \A a \in Actors : work'[a] = <<>>
      BY <1>4, <3>1, Alone DEF IInv
    <3>3. /\ runs' \in [Participants -> [Stages -> 0..2]] /\ stage[d] \in Startups
          /\ \A y \in Participants, t \in Stages : runs'[y][t] <= 1
          /\ \A y \in Participants, t \in Stages :
                 runs'[y][t] = IF y = Head(todo[d]) /\ t = stage[d] THEN 1 ELSE runs[y][t]
          /\ \A p \in Providers, q \in Providers \ Durable :
                 q \in ToSet(Deps[p]) /\ p \in Cached =>
                     /\ \A t \in Startups : runs'[p][t] > 0 => runs'[q][t] > 0
                     /\ \A t \in Teardowns : runs'[q][t] > 0 => runs'[p][t] > 0
      BY <3>1, HookProperties DEF IInv, Positions
    <3>4. \A t \in Teardowns : t # stage[d] /\ t \notin Earlier(stage[d])
      BY <3>3 DEF Startups, Teardowns, Earlier
    <3>5. \A x \in Alive, t \in Teardowns : runs[x][t] = 0
      BY <1>8, <3>1, <3>4 DEF IInv, RunsInStages
    <3>6. \A x \in Alive, t \in Teardowns : runs'[x][t] = 0
      BY <1>7, <1>8, <3>3, <3>4, <3>5
    <3>7. HooksRunOnce'
      BY <1>1, <1>5, <3>3 DEF HooksRunOnce, stateVars
    <3>8. SingletonsOutliveDependents'
      BY <1>7, <3>3 DEF SingletonsOutliveDependents, InOrder, Ran
    <3> QED BY <3>2, <3>3, <3>6, <3>7, <3>8
  <2> QED BY <1>2, <2>1, <2>2
<1>10. /\ "undo" \in {"start", "undo", "stop"}
       /\ s \in (IF "undo" = "start" THEN Startups ELSE Teardowns)
       /\ initialized <=> "undo" = "stop"
       /\ "undo" = "start" => ToSet(Warmed) \subseteq Cached
  BY <1>5, <1>8
<1>11. \A x \in Alive :
          /\ runs'[x][s] = 0
          /\ \A t \in Earlier(s) : runs'[x][t] = 1
          /\ \A t \in (IF "undo" = "start" THEN Stages ELSE Teardowns) :
                 t # s /\ t \notin Earlier(s) => runs'[x][t] = 0
  BY <1>8, <1>9
<1>12. Entering(d, s, "undo")
  BY <1>1, <1>3, <1>5, <1>9, <1>10, <1>11 DEF Entering
<1> QED BY <1>8, <1>12, KeepsEntering

\* A shutdown finds an application that has served, or nothing to do.
LEMMA KeepsLeave ==
  ASSUME OneAtATime, IInv, NEW d \in Drivers, Leave(d)
  PROVE  IInv'
<1>1. pc[d] \in {"serving", "leaving"} /\ \A r \in Resolvers : pc[r] # "resolving"
  BY DEF Leave, OneAtATime
<1>2. UNCHANGED <<stateVars, cacheVars, runs, work>>
  BY DEF Leave
<1>3. /\ \A e \in Drivers : e # d => pc[e] \in {"idle", "ended"}
      /\ initialized <=> pc[d] = "serving"
      /\ d \in Actors /\ pc \in [Actors -> Places] /\ work \in [Actors -> Seq(Frames)]
  BY <1>1 DEF IInv, TypeOK, Turns, Actors
<1>4. \A a \in Actors : work[a] = <<>>
  BY <1>1, <1>3 DEF IInv, Turns, Resolving, Actors
<1>5. Cached' = Cached /\ Alive' = Alive /\ DependenciesFirst'
  BY <1>2, CachesKept
<1>6. HooksRunOnce' /\ SingletonsOutliveDependents'
  BY <1>2, <1>5 DEF IInv, HooksRunOnce, SingletonsOutliveDependents, InOrder, Ran, stateVars
<1>7. CASE initialized
  <2> DEFINE s == "before_application_shutdown"
  <2>1. pc' = [pc EXCEPT ![d] = "stop"] /\ EnterStage(d, s) /\ UNCHANGED <<stateVars, cacheVars>>
    BY <1>7 DEF Leave
  <2>2. s \in Stages /\ s \in Teardowns /\ Earlier(s) = {} /\ Teardowns \subseteq Stages
    BY DEF Stages, Teardowns, Earlier
  <2> HIDE DEF s
  <2>3. \A x \in Alive, t \in Teardowns : runs'[x][t] = 0
    BY <1>2, <1>3, <1>7 DEF IInv, RunsOutside
  <2>4. /\ "stop" \in {"start", "undo", "stop"}
        /\ s \in (IF "stop" = "start" THEN Startups ELSE Teardowns)
        /\ initialized <=> "stop" = "stop"
        /\ "stop" = "start" => ToSet(Warmed) \subseteq Cached
    BY <1>7, <2>2
  <2>5. \A x \in Alive :
            /\ runs'[x][s] = 0
            /\ \A t \in Earlier(s) : runs'[x][t] = 1
            /\ \A t \in (IF "stop" = "start" THEN Stages ELSE Teardowns) :
                   t # s /\ t \notin Earlier(s) => runs'[x][t] = 0
    BY <2>2, <2>3
  <2>6. /\ runs' \in [Participants -> [Stages -> 0..2]]
        /\ work' \in [Actors -> Seq(Frames)] /\ \A a \in Actors : work'[a] = <<>>
    BY <1>2, <1>4 DEF IInv, TypeOK
  <2>7. Entering(d, s, "stop")
    BY <1>1, <1>3, <1>6, <2>1, <2>4, <2>5, <2>6 DEF Entering
  <2> QED BY <2>2, <2>7, KeepsEntering
<1>8. CASE ~initialized
  <2>1. pc' = [pc EXCEPT ![d] = "ended"] /\ UNCHANGED stageVars
    BY <1>8 DEF Leave
  <2>2. pc[d] = "leaving"
    BY <1>1, <1>3, <1>8
  <2>3. \A e \in Drivers : pc'[e] \in {"idle", "ended"} /\ e \in Actors
    BY <1>3, <2>1 DEF Actors
  <2>4. \A r \in Resolvers : r \in Actors /\ r # d /\ pc'[r] = pc[r]
    BY <1>3, <2>1, ProvidersAssumption DEF Actors
  <2>5. TypeOK'
    BY <1>2, <1>3, <2>1 DEF IInv, TypeOK, Places, stateVars, cacheVars, stageVars
  <2>6. Turns'
    <3>1. \A r \in Resolvers : pc'[r] \in {"idle", "ended"}
      BY <1>1, <2>4 DEF IInv, Turns
    <3>2. \A a \in Actors : ~Resolving(a)'
      BY <1>2, <1>4 DEF Resolving
    <3>3. ~initialized'
      BY <1>2, <1>8 DEF stateVars
    <3> QED BY <2>3, <3>1, <3>2, <3>3 DEF Turns
  <2>7. Stacks' /\ OneConstruction'
    BY <1>2, <1>4 DEF Stacks, OneConstruction
  <2>8. EmptyWhenStopped'
    <3>1. \A e \in Drivers : pc[e] \in {"idle", "ended", "leaving"}
      BY <1>3, <2>2
    <3> QED BY <1>5, <3>1 DEF IInv, EmptyWhenStopped
  <2>9. Positions' /\ RunsInStages' /\ RunsOutside' /\ WarmWhenStarted'
    BY <2>3 DEF Positions, RunsInStages, RunsOutside, WarmWhenStarted, InStages
  <2> QED BY <1>5, <1>6, <2>5, <2>6, <2>7, <2>8, <2>9 DEF IInv
<1> QED BY <1>7, <1>8

\* The last hook of a startup.
LEMMA KeepsReady ==
  ASSUME IInv, NEW d \in Drivers, Ready(d)
  PROVE  IInv'
<1>1. /\ pc[d] = "start" /\ HookEnds(d) /\ StageEnds(d) /\ Following(stage[d]) = None
      /\ initialized' = TRUE /\ overridable' = FALSE /\ pc' = [pc EXCEPT ![d] = "serving"]
      /\ LeaveStages(d) /\ UNCHANGED <<shut, cacheVars>> /\ work' = work
  BY DEF Ready, HookEnds
<1>2. InStages(d) /\ d \in Actors /\ pc \in [Actors -> Places]
  BY <1>1 DEF InStages, IInv, TypeOK, Actors
<1>3. stage[d] = "on_application_bootstrap"
  BY <1>1, <1>2, ProvidersAssumption DEF IInv, Positions, Following, Startups, Stages
<1>4. /\ runs' \in [Participants -> [Stages -> 0..2]]
      /\ \A y \in Participants, t \in Stages : runs'[y][t] <= 1
      /\ \A p \in Providers, q \in Providers \ Durable :
             q \in ToSet(Deps[p]) /\ p \in Cached =>
                 /\ \A t \in Startups : runs'[p][t] > 0 => runs'[q][t] > 0
                 /\ \A t \in Teardowns : runs'[q][t] > 0 => runs'[p][t] > 0
  BY <1>1, HookProperties
<1>5. /\ \A y \in Alive : runs'[y][stage[d]] = 1
      /\ \A y \in Alive, t \in Stages : t # stage[d] => runs'[y][t] = runs[y][t]
  BY <1>1, StageDone
<1>6. /\ \A e \in Drivers : e # d => pc[e] \in {"idle", "ended"}
      /\ \A a \in Actors : work[a] = <<>>
      /\ \A r \in Resolvers : pc[r] # "resolving"
  BY <1>2, Alone DEF IInv
<1>7. Cached' = Cached /\ Alive' = Alive /\ DependenciesFirst'
  BY <1>1, CachesKept
<1>8. /\ pc' \in [Actors -> Places] /\ pc'[d] = "serving"
      /\ \A a \in Actors : a # d => pc'[a] = pc[a]
  BY <1>1, <1>2 DEF Places
<1>9. \A e \in Drivers : e # d => pc'[e] \in {"idle", "ended"} /\ e \in Actors
  BY <1>6, <1>8 DEF Actors
<1>10. \A r \in Resolvers : r # d /\ r \in Actors /\ pc'[r] \in {"idle", "ended"}
  BY <1>6, <1>8, ProvidersAssumption DEF IInv, Turns, Actors
<1>11. TypeOK'
  <2>1. /\ stage' \in [Drivers -> Stages \union {None}]
        /\ half' \in [Drivers -> {"modules", "providers", None}]
        /\ todo' \in [Drivers -> Seq(Participants)]
    BY <1>1, StagesLeft
  <2> QED BY <1>1, <1>4, <1>8, <2>1 DEF IInv, TypeOK, cacheVars
<1>12. Turns'
  <2>1. \A a \in Actors : ~Resolving(a)'
    BY <1>1, <1>6 DEF Resolving
  <2> QED BY <2>1, <1>1, <1>8, <1>9, <1>10 DEF Turns
<1>13. Stacks' /\ OneConstruction'
  BY <1>1, <1>6 DEF Stacks, OneConstruction
<1>14. EmptyWhenStopped'
  BY <1>8 DEF EmptyWhenStopped
<1>15. Positions' /\ RunsInStages' /\ WarmWhenStarted'
  BY <1>8, <1>9 DEF Positions, RunsInStages, WarmWhenStarted, InStages
<1>16. \A y \in Alive : /\ \A t \in Startups : runs'[y][t] = 1
                        /\ \A t \in Teardowns : runs'[y][t] = 0
  <2> SUFFICES ASSUME NEW y \in Alive
               PROVE  /\ \A t \in Startups : runs'[y][t] = 1
                      /\ \A t \in Teardowns : runs'[y][t] = 0
    OBVIOUS
  <2>1. /\ \A t \in Earlier(stage[d]) : runs[y][t] = 1
        /\ \A t \in Stages : t # stage[d] /\ t \notin Earlier(stage[d]) => runs[y][t] = 0
    BY <1>1, <1>2 DEF IInv, RunsInStages
  <2>2. Earlier(stage[d]) = {"on_module_init"}
    BY <1>3 DEF Earlier
  <2>3. runs'[y]["on_module_init"] = 1 /\ runs'[y]["on_application_bootstrap"] = 1
    BY <1>3, <1>5, <2>1, <2>2 DEF Stages, Startups
  <2>4. \A t \in Teardowns : t \in Stages /\ t # stage[d] /\ t \notin Earlier(stage[d])
    BY <1>3, <2>2 DEF Stages, Teardowns
  <2> QED BY <1>5, <2>1, <2>3, <2>4 DEF Startups
<1>17. RunsOutside'
  BY <1>7, <1>8, <1>9, <1>16 DEF RunsOutside
<1>18. HooksRunOnce'
  <2>1. ToSet(Warmed) \subseteq Cached
    BY <1>1 DEF IInv, WarmWhenStarted
  <2> QED BY <1>4, <1>7, <1>16, <2>1 DEF HooksRunOnce, Ran, Alive
<1>19. SingletonsOutliveDependents'
  BY <1>4, <1>7 DEF SingletonsOutliveDependents, InOrder, Ran
<1> QED BY <1>7, <1>11, <1>12, <1>13, <1>14, <1>15, <1>17, <1>18, <1>19 DEF IInv

\* The last hook of a teardown.
LEMMA KeepsTornDown ==
  ASSUME IInv, NEW d \in Drivers, TornDown(d)
  PROVE  IInv'
<1>1. /\ pc[d] \in {"undo", "stop"} /\ HookEnds(d) /\ StageEnds(d)
      /\ singletons' = <<>> /\ durables' = <<>>
      /\ shut' = TRUE /\ overridable' = TRUE /\ initialized' = FALSE
      /\ pc' = [pc EXCEPT ![d] = IF pc[d] = "undo" THEN "leaving" ELSE "ended"]
      /\ LeaveStages(d) /\ work' = work
  BY DEF TornDown, HookEnds, ForgetInstances
<1>2. InStages(d) /\ d \in Actors /\ pc \in [Actors -> Places]
  BY <1>1 DEF InStages, IInv, TypeOK, Actors
<1>3. /\ runs' \in [Participants -> [Stages -> 0..2]]
      /\ \A y \in Participants, t \in Stages : runs'[y][t] <= 1
  BY <1>1, HookProperties
<1>4. /\ \A e \in Drivers : e # d => pc[e] \in {"idle", "ended"}
      /\ \A a \in Actors : work[a] = <<>>
      /\ \A r \in Resolvers : pc[r] # "resolving"
  BY <1>2, Alone DEF IInv
<1>5. /\ pc' \in [Actors -> Places] /\ pc'[d] \in {"leaving", "ended"}
      /\ \A a \in Actors : a # d => pc'[a] = pc[a]
  BY <1>1, <1>2 DEF Places
<1>6. \A e \in Drivers : e # d => pc'[e] \in {"idle", "ended"} /\ e \in Actors
  BY <1>4, <1>5 DEF Actors
<1>7. \A r \in Resolvers : r # d /\ r \in Actors /\ pc'[r] \in {"idle", "ended"}
  BY <1>4, <1>5, ProvidersAssumption DEF IInv, Turns, Actors
<1>8. Cached' = {} /\ DependenciesFirst'
  BY <1>1 DEF Cached, DependenciesFirst, ToSet, IsInjective
<1>9. TypeOK'
  <2>1. /\ stage' \in [Drivers -> Stages \union {None}]
        /\ half' \in [Drivers -> {"modules", "providers", None}]
        /\ todo' \in [Drivers -> Seq(Participants)]
    BY <1>1, StagesLeft
  <2>2. singletons' \in Seq(Providers \ Durable) /\ durables' \in Seq(Durable)
    BY <1>1
  <2> QED BY <1>1, <1>3, <1>5, <2>1, <2>2 DEF IInv, TypeOK
<1>10. Turns'
  <2>1. \A a \in Actors : ~Resolving(a)'
    BY <1>1, <1>4 DEF Resolving
  <2> QED BY <2>1, <1>1, <1>5, <1>6, <1>7 DEF Turns
<1>11. Stacks' /\ OneConstruction'
  BY <1>1, <1>4 DEF Stacks, OneConstruction
<1>12. EmptyWhenStopped'
  BY <1>8 DEF EmptyWhenStopped
<1>13. Positions' /\ RunsInStages' /\ RunsOutside' /\ WarmWhenStarted'
  BY <1>5, <1>6 DEF Positions, RunsInStages, RunsOutside, WarmWhenStarted, InStages
<1>14. HooksRunOnce'
  BY <1>1, <1>3 DEF HooksRunOnce
<1>15. SingletonsOutliveDependents'
  BY <1>8 DEF SingletonsOutliveDependents, InOrder
<1> QED BY <1>8, <1>9, <1>10, <1>11, <1>12, <1>13, <1>14, <1>15 DEF IInv

\* A startup begins, of an application that holds nothing.
LEMMA KeepsBegin ==
  ASSUME OneAtATime, IInv, NEW d \in Drivers, Begin(d)
  PROVE  IInv'
<1>1. /\ MayEnter(d) /\ ~initialized /\ shut' = FALSE
      /\ runs' = [x \in Participants |-> IF x \in ToSet(Modules) THEN NeverRun ELSE runs[x]]
      /\ pc' = [pc EXCEPT ![d] = "warm"]
      /\ work' = [work EXCEPT ![d] = <<Frame(None, Warmed)>>]
      /\ UNCHANGED <<initialized, overridable, cacheVars, stageVars>>
  BY DEF Begin
<1>2. /\ \A e \in Drivers : pc[e] \in {"idle", "ended"} /\ e \in Actors
      /\ pc \in [Actors -> Places] /\ work \in [Actors -> Seq(Frames)]
  BY <1>1 DEF OneAtATime, MayEnter, Drivers, Actors, IInv, TypeOK
<1>3. \A r \in Resolvers : pc[r] \in {"idle", "ended"} /\ r # d /\ r \in Actors
  BY <1>2, ProvidersAssumption DEF IInv, Turns, Actors
<1>4. \A a \in Actors : work[a] = <<>>
  BY <1>2, <1>3 DEF IInv, Turns, Resolving, Actors
<1>5. Cached = {} /\ Cached' = {} /\ Alive' = ToSet(Modules) /\ DependenciesFirst'
  BY <1>1, <1>2, CachesKept DEF IInv, EmptyWhenStopped, Alive
<1>6. /\ pc' \in [Actors -> Places] /\ pc'[d] = "warm"
      /\ \A a \in Actors : a # d => pc'[a] = pc[a]
  BY <1>1, <1>2 DEF Places
<1> DEFINE f == Frame(None, Warmed)
<1>7. f \in Frames /\ f.makes = None /\ f.needs = Warmed
  BY ProvidersAssumption DEF Frame, Frames
<1> HIDE DEF f
<1>8. /\ work' \in [Actors -> Seq(Frames)] /\ work'[d] = <<f>>
      /\ \A a \in Actors : a # d => work'[a] = <<>>
  BY <1>1, <1>2, <1>4, <1>7 DEF f
<1>9. Len(<<f>>) = 1 /\ DOMAIN <<f>> = {1} /\ <<f>>[1] = f
  OBVIOUS
<1>10. runs' \in [Participants -> [Stages -> 0..2]]
  BY <1>1 DEF IInv, TypeOK, NeverRun
<1>11. TypeOK'
  BY <1>1, <1>6, <1>8, <1>10 DEF IInv, TypeOK, cacheVars, stageVars
<1>12. Turns'
  <2>1. \A e \in Drivers : e # d => pc'[e] \in {"idle", "ended"}
    BY <1>2, <1>6
  <2>2. \A r \in Resolvers : pc'[r] \in {"idle", "ended"}
    BY <1>3, <1>6
  <2>3. \A a \in Actors : Resolving(a)' => a = d
    BY <1>8 DEF Resolving
  <2> QED BY <2>1, <2>2, <2>3, <1>1, <1>6 DEF Turns
<1>13. Stacks'
  <2> SUFFICES ASSUME NEW a \in Actors, NEW i \in DOMAIN work'[a]
               PROVE  /\ work'[a][i].makes = None <=> i = Len(work'[a])
                      /\ work'[a][i].makes \notin Cached'
                      /\ \A q \in ToSet(Wanted(a, work'[a][i])) : Accounted(a, i, q)'
    BY DEF Stacks, Wanted
  <2>1. a = d /\ i = 1 /\ work'[a][i] = f /\ Len(work'[a]) = 1
    <3>1. a = d
      BY <1>8
    <3> QED BY <3>1, <1>8, <1>9
  <2>2. Wanted(a, work'[a][i]) = Warmed
    BY <1>7, <2>1 DEF Wanted
  <2> QED BY <1>5, <1>7, <2>1, <2>2 DEF Accounted
<1>14. OneConstruction'
  BY <1>7, <1>8, <1>9 DEF OneConstruction
<1>15. EmptyWhenStopped'
  BY <1>5 DEF EmptyWhenStopped
<1>16. \A e \in Drivers : ~InStages(e)' /\ pc'[e] \notin {"serving", "start"}
  BY <1>2, <1>6 DEF InStages
<1>17. Positions' /\ RunsInStages' /\ WarmWhenStarted'
  BY <1>16 DEF Positions, RunsInStages, WarmWhenStarted
<1>18. RunsOutside'
  BY <1>1, <1>5, <1>16 DEF RunsOutside, Participants, NeverRun
<1>19. HooksRunOnce'
  BY <1>1 DEF IInv, HooksRunOnce, NeverRun
<1>20. SingletonsOutliveDependents'
  BY <1>5 DEF SingletonsOutliveDependents, InOrder
<1> QED BY <1>5, <1>11, <1>12, <1>13, <1>14, <1>15, <1>17, <1>18, <1>19, <1>20 DEF IInv

\* A lifespan that starts nothing.
LEMMA KeepsBeginNothing ==
  ASSUME OneAtATime, IInv, NEW d \in Drivers, BeginNothing(d)
  PROVE  IInv'
<1>1. /\ MayEnter(d) /\ pc' = [pc EXCEPT ![d] = IF initialized THEN "serving" ELSE "ended"]
      /\ UNCHANGED <<stateVars, cacheVars, runs, work, stageVars>>
  BY DEF BeginNothing
<1>2. /\ \A e \in Drivers : pc[e] \in {"idle", "ended"} /\ e \in Actors
      /\ pc \in [Actors -> Places]
  BY <1>1 DEF OneAtATime, MayEnter, Drivers, Actors, IInv, TypeOK
<1>3. ~initialized
  BY <1>2 DEF IInv, Turns
<1>4. /\ pc' \in [Actors -> Places] /\ pc'[d] = "ended"
      /\ \A a \in Actors : a # d => pc'[a] = pc[a]
  BY <1>1, <1>2, <1>3 DEF Places
<1>5. \A r \in Resolvers : pc[r] \in {"idle", "ended"} /\ pc'[r] = pc[r]
  <2>1. \A r \in Resolvers : r # d /\ r \in Actors
    BY ProvidersAssumption DEF Actors
  <2>2. \A r \in Resolvers : pc[r] \in {"idle", "ended"}
    BY <1>2 DEF IInv, Turns
  <2> QED BY <2>1, <2>2, <1>4
<1>6. \A e \in Drivers : pc'[e] \in {"idle", "ended"}
  BY <1>2, <1>4
<1>7. \A a \in Actors : work[a] = <<>>
  BY <1>2, <1>5 DEF IInv, Turns, Resolving, Actors
<1>8. Cached' = Cached /\ Cached = {} /\ DependenciesFirst'
  BY <1>1, <1>2, CachesKept DEF IInv, EmptyWhenStopped
<1>9. TypeOK'
  BY <1>1, <1>4 DEF IInv, TypeOK, stateVars, cacheVars, stageVars
<1>10. Turns'
  <2>1. \A a \in Actors : ~Resolving(a)'
    BY <1>1, <1>7 DEF Resolving
  <2> QED BY <2>1, <1>1, <1>3, <1>5, <1>6 DEF Turns, stateVars
<1>11. Stacks' /\ OneConstruction'
  BY <1>1, <1>7 DEF Stacks, OneConstruction
<1>12. EmptyWhenStopped'
  BY <1>8 DEF EmptyWhenStopped
<1>13. Positions' /\ RunsInStages' /\ RunsOutside' /\ WarmWhenStarted'
  BY <1>6 DEF Positions, RunsInStages, RunsOutside, WarmWhenStarted, InStages
<1>14. HooksRunOnce' /\ SingletonsOutliveDependents'
  BY <1>1, <1>8 DEF IInv, HooksRunOnce, SingletonsOutliveDependents, InOrder, Ran, stateVars
<1> QED BY <1>8, <1>9, <1>10, <1>11, <1>12, <1>13, <1>14 DEF IInv

\* While something is being built no hook runs.
LEMMA NoStages ==
  ASSUME TypeOK, Turns, NEW a \in Actors, Resolving(a)
  PROVE  /\ \A d \in Drivers : ~InStages(d) /\ pc[d] # "start"
         /\ pc[a] = "warm" \/ \E d \in Drivers : pc[d] = "serving"
BY DEF Turns, InStages, Actors

\* What a step of a resolution that keeps every instance leaves as it was.
LEMMA KeepsResolving ==
  ASSUME IInv, NEW a \in Actors, Resolving(a), Cached' = Cached,
         UNCHANGED <<stateVars, runs, pc, stageVars>>,
         TypeOK', Stacks', OneConstruction', DependenciesFirst',
         \A b \in Actors : b # a => work'[b] = work[b]
  PROVE  IInv'
<1>1. UNCHANGED <<initialized, shut, overridable, runs, pc, stage, todo, half>> /\ Alive' = Alive
  BY DEF stateVars, stageVars, Alive
<1>2. Turns'
  <2>1. \A b \in Actors : Resolving(b)' => pc[b] \in {"warm", "resolving"}
    BY DEF IInv, Turns, Resolving
  <2> QED BY <1>1, <2>1 DEF IInv, Turns
<1>3. EmptyWhenStopped' /\ RunsOutside' /\ WarmWhenStarted' /\ HooksRunOnce' /\ SingletonsOutliveDependents'
  BY <1>1 DEF IInv, EmptyWhenStopped, RunsOutside, WarmWhenStarted, HooksRunOnce,
              SingletonsOutliveDependents, InOrder, Ran
<1>4. Positions' /\ RunsInStages'
  <2>1. \A d \in Drivers : ~InStages(d)'
    BY <1>1, NoStages DEF IInv, InStages
  <2> QED BY <2>1 DEF Positions, RunsInStages
<1> QED BY <1>2, <1>3, <1>4 DEF IInv

\* Using what is cached moves a durable instance, and changes nothing else.
LEMMA UsedCached ==
  ASSUME TypeOK, DependenciesFirst, NEW p \in Cached, Use(p)
  PROVE  /\ Cached' = Cached /\ DependenciesFirst'
         /\ singletons' \in Seq(Providers \ Durable) /\ durables' \in Seq(Durable)
<1>1. p \in Providers /\ ToSet(singletons) \subseteq Providers \ Durable /\ ToSet(durables) \subseteq Durable
  BY CachedTypes
<1>2. CASE p \in Durable
  <2>1. durables' = Append(RemoveFirst(durables, p), p) /\ singletons' = singletons
    BY <1>2 DEF Use
  <2>2. durables' \in Seq(Durable) /\ IsInjective(durables') /\ ToSet(durables') = ToSet(durables) \union {p}
    BY <1>2, <2>1, MovedToEnd DEF TypeOK, DependenciesFirst
  <2>3. ToSet(durables') = ToSet(durables)
    BY <1>1, <1>2, <2>2 DEF Cached
  <2> QED BY <2>1, <2>2, <2>3 DEF TypeOK, DependenciesFirst, Cached
<1>3. CASE p \notin Durable
  <2>1. singletons' = singletons /\ durables' = durables
    BY <1>1, <1>3 DEF Use, Cached
  <2> QED BY <2>1 DEF TypeOK, DependenciesFirst, Cached
<1> QED BY <1>2, <1>3

\* Keeping what was built, of instances that are cached, adds it to them.
LEMMA UsedNew ==
  ASSUME TypeOK, DependenciesFirst, NEW p \in Providers \ Cached, ToSet(Deps[p]) \subseteq Cached, Use(p)
  PROVE  /\ Cached' = Cached \union {p} /\ DependenciesFirst'
         /\ singletons' \in Seq(Providers \ Durable) /\ durables' \in Seq(Durable)
<1>1. ToSet(singletons) \subseteq Providers \ Durable /\ ToSet(durables) \subseteq Durable
  BY CachedTypes
<1>2. ToSet(Deps[p]) \ Durable \subseteq ToSet(singletons)
  BY <1>1 DEF Cached
<1>3. CASE p \in Durable
  <2>1. durables' = Append(RemoveFirst(durables, p), p) /\ singletons' = singletons
    BY <1>3 DEF Use
  <2>2. durables' \in Seq(Durable) /\ IsInjective(durables') /\ ToSet(durables') = ToSet(durables) \union {p}
    BY <1>3, <2>1, MovedToEnd DEF TypeOK, DependenciesFirst
  <2> QED BY <1>2, <2>1, <2>2 DEF TypeOK, DependenciesFirst, Cached
<1>4. CASE p \notin Durable
  <2>1. singletons' = Append(singletons, p) /\ durables' = durables
    BY <1>4 DEF Use, Cached
  <2>2. /\ singletons' \in Seq(Providers \ Durable) /\ IsInjective(singletons')
        /\ ToSet(singletons') = ToSet(singletons) \union {p}
        /\ Len(singletons) \in Nat /\ DOMAIN singletons = 1..Len(singletons)
        /\ DOMAIN singletons' = DOMAIN singletons \union {Len(singletons) + 1}
        /\ \A i \in DOMAIN singletons : singletons'[i] = singletons[i]
        /\ singletons'[Len(singletons) + 1] = p
    BY <1>4, <2>1, AppendNew DEF TypeOK, DependenciesFirst, Cached
  <2>3. ASSUME NEW i \in DOMAIN singletons', NEW q \in ToSet(Deps[singletons'[i]]) \ Durable
        PROVE  \E j \in 1..(i - 1) : singletons'[j] = q
    <3>1. CASE i \in DOMAIN singletons
      <4>1. PICK j \in 1..(i - 1) : singletons[j] = q
        BY <2>2, <2>3, <3>1 DEF DependenciesFirst
      <4>2. j \in DOMAIN singletons
        BY <2>2, <3>1
      <4> QED BY <2>2, <4>1, <4>2
    <3>2. CASE i = Len(singletons) + 1
      <4>1. q \in ToSet(singletons)
        BY <1>2, <2>2, <2>3, <3>2
      <4>2. PICK j \in DOMAIN singletons : singletons[j] = q
        BY <4>1 DEF ToSet
      <4>3. j \in 1..(i - 1)
        BY <2>2, <3>2
      <4> QED BY <2>2, <4>2, <4>3
    <3> QED BY <2>2, <3>1, <3>2
  <2>4. \A r \in ToSet(durables') : ToSet(Deps[r]) \ Durable \subseteq ToSet(singletons')
    BY <2>1, <2>2 DEF DependenciesFirst
  <2>5. Cached' = Cached \union {p}
    BY <2>1, <2>2 DEF Cached
  <2> QED BY <2>1, <2>2, <2>3, <2>4, <2>5 DEF TypeOK, DependenciesFirst
<1> QED BY <1>3, <1>4

\* An instance is found where it is kept.
LEMMA KeepsReadCached ==
  ASSUME IInv, NEW a \in Actors, NEW q \in Providers, ReadCached(a, q)
  PROVE  IInv'
<1>1. /\ Needing(a, q) /\ q \in Cached /\ Use(q)
      /\ work' = [work EXCEPT ![a] = Answered(a)]
      /\ UNCHANGED <<stateVars, runs, pc, stageVars>>
  BY DEF ReadCached
<1>2. /\ Cached' = Cached /\ DependenciesFirst'
      /\ singletons' \in Seq(Providers \ Durable) /\ durables' \in Seq(Durable)
  BY <1>1, UsedCached DEF IInv
<1>3. /\ Answered(a) \in Seq(Frames) /\ Len(Answered(a)) = Len(work[a])
      /\ DOMAIN Answered(a) = 1..Len(work[a]) /\ DOMAIN work[a] = 1..Len(work[a])
      /\ Len(work[a]) \in Nat \ {0}
      /\ Answered(a)[1].makes = work[a][1].makes
      /\ ToSet(work[a][1].needs) = ToSet(Answered(a)[1].needs) \union {q}
      /\ \A i \in 2..Len(work[a]) : Answered(a)[i] = work[a][i]
  BY <1>1, AnsweredProperties DEF IInv
<1>4. work \in [Actors -> Seq(Frames)]
  BY DEF IInv, TypeOK
<1> DEFINE s == Answered(a)
<1> HIDE DEF s
<1>5. /\ work' \in [Actors -> Seq(Frames)] /\ work'[a] = s
      /\ \A b \in Actors : b # a => work'[b] = work[b]
  BY <1>1, <1>3, <1>4 DEF s
<1>6. \A i \in DOMAIN work[a] : s[i].makes = work[a][i].makes
  <2>1. \A i \in 1..Len(work[a]) : i = 1 \/ i \in 2..Len(work[a])
    BY <1>3
  <2> QED BY <1>3, <2>1 DEF s
<1>7. \A b \in Actors : /\ DOMAIN work'[b] = DOMAIN work[b] /\ Len(work'[b]) = Len(work[b])
                        /\ \A i \in DOMAIN work[b] : work'[b][i].makes = work[b][i].makes
  BY <1>3, <1>5, <1>6 DEF s
<1>8. TypeOK'
  BY <1>1, <1>2, <1>5 DEF IInv, TypeOK, stateVars, stageVars
<1>9. OneConstruction'
  BY <1>7 DEF IInv, OneConstruction
<1>10. Stacks'
  <2> SUFFICES ASSUME NEW b \in Actors, NEW i \in DOMAIN work[b]
               PROVE  /\ work'[b][i].makes = None <=> i = Len(work'[b])
                      /\ work'[b][i].makes \notin Cached'
                      /\ \A p \in ToSet(Wanted(b, work'[b][i])) : Accounted(b, i, p)'
    BY <1>7 DEF Stacks, Wanted
  <2>1. /\ work[b][i].makes = None <=> i = Len(work[b])
        /\ work[b][i].makes \notin Cached
        /\ \A p \in ToSet(Wanted(b, work[b][i])) : Accounted(b, i, p)
    BY DEF IInv, Stacks
  <2>2. Wanted(b, work'[b][i]) = Wanted(b, work[b][i])
    BY <1>7 DEF Wanted
  <2>3. ASSUME NEW p \in ToSet(Wanted(b, work[b][i]))
        PROVE  Accounted(b, i, p)'
    <3>1. CASE p \in ToSet(work[b][i].needs)
      <4>1. CASE b = a /\ i = 1
        BY <1>1, <1>2, <1>3, <1>5, <3>1, <4>1 DEF Accounted, s
      <4>2. CASE ~(b = a /\ i = 1)
        <5>1. b = a => i \in 2..Len(work[a])
          BY <1>3, <4>2
        <5>2. work'[b][i] = work[b][i]
          BY <1>3, <1>5, <5>1 DEF s
        <5> QED BY <3>1, <5>2 DEF Accounted
      <4> QED BY <4>1, <4>2
    <3>2. CASE p \in Cached
      BY <1>2, <3>2 DEF Accounted
    <3>3. CASE i > 1 /\ work[b][i - 1].makes = p
      <4>1. i - 1 \in DOMAIN work[b]
        BY <1>4, <3>3, LenProperties
      <4> QED BY <1>7, <3>3, <4>1 DEF Accounted
    <3> QED BY <2>1, <3>1, <3>2, <3>3 DEF Accounted
  <2> QED BY <1>2, <1>7, <2>1, <2>2, <2>3
<1>11. Resolving(a)
  BY <1>1 DEF Needing
<1> QED BY <1>1, <1>2, <1>5, <1>8, <1>9, <1>10, <1>11, KeepsResolving

\* What is not cached, nor under construction, is constructed.
LEMMA KeepsConstruct ==
  ASSUME IInv, NEW a \in Actors, NEW q \in Providers, Construct(a, q)
  PROVE  IInv'
<1> DEFINE s == Answered(a)
           f == Frame(q, Deps[q])
           n == Len(work[a])
<1>1. /\ Needing(a, q) /\ q \notin Cached
      /\ \A b \in Actors : \A i \in DOMAIN work[b] : work[b][i].makes # q
      /\ work' = [work EXCEPT ![a] = <<f>> \o s]
      /\ UNCHANGED <<stateVars, cacheVars, runs, pc, stageVars>>
  BY DEF Construct, UnderConstruction
<1>2. Cached' = Cached /\ DependenciesFirst'
  BY <1>1, CachesKept
<1>3. /\ s \in Seq(Frames) /\ Len(s) = n /\ n \in Nat \ {0}
      /\ DOMAIN s = 1..n /\ DOMAIN work[a] = 1..n
      /\ s[1].makes = work[a][1].makes
      /\ ToSet(work[a][1].needs) = ToSet(s[1].needs) \union {q}
      /\ \A i \in 2..n : s[i] = work[a][i]
  BY <1>1, AnsweredProperties DEF IInv
<1>4. f \in Frames /\ f.makes = q /\ f.needs = Deps[q] /\ q # None
  BY ProvidersAssumption DEF Frame, Frames
<1> HIDE DEF s, f, n
<1>5. /\ <<f>> \o s \in Seq(Frames) /\ Len(<<f>> \o s) = n + 1
      /\ DOMAIN (<<f>> \o s) = 1..(n + 1) /\ (<<f>> \o s)[1] = f
      /\ \A i \in 2..(n + 1) : (<<f>> \o s)[i] = s[i - 1]
  BY <1>3, <1>4, Pushed
<1>6. work \in [Actors -> Seq(Frames)]
  BY DEF IInv, TypeOK
<1>7. /\ work' \in [Actors -> Seq(Frames)] /\ Len(work'[a]) = n + 1 /\ DOMAIN work'[a] = 1..(n + 1)
      /\ work'[a][1] = f
      /\ \A i \in 2..(n + 1) : work'[a][i] = s[i - 1]
      /\ \A b \in Actors : b # a => work'[b] = work[b]
  BY <1>1, <1>5, <1>6
<1>8. \A i \in 1..n : s[i].makes = work[a][i].makes
  <2>1. \A i \in 1..n : i = 1 \/ i \in 2..n
    BY <1>3
  <2> QED BY <1>3, <2>1
<1>9. ASSUME NEW i \in 1..(n + 1), i # 1
      PROVE  i - 1 \in DOMAIN work[a] /\ work'[a][i].makes = work[a][i - 1].makes
  <2>1. i \in 2..(n + 1) /\ i - 1 \in 1..n
    BY <1>3, <1>9
  <2> QED BY <1>3, <1>7, <1>8, <2>1
<1>10. TypeOK'
  BY <1>1, <1>7 DEF IInv, TypeOK, stateVars, cacheVars, stageVars
<1>11. OneConstruction'
  <2> SUFFICES ASSUME NEW b \in Actors, NEW c \in Actors,
                      NEW i \in DOMAIN work'[b], NEW j \in DOMAIN work'[c],
                      work'[b][i].makes = work'[c][j].makes, work'[b][i].makes # None
               PROVE  b = c /\ i = j
    BY DEF OneConstruction
  <2>1. CASE b # a /\ c # a
    BY <1>7, <2>1 DEF IInv, OneConstruction
  <2>2. CASE b = a /\ c # a
    <3>1. CASE i = 1
      BY <1>1, <1>4, <1>7, <2>2, <3>1
    <3>2. CASE i # 1
      <4>1. i - 1 \in DOMAIN work[a] /\ work'[a][i].makes = work[a][i - 1].makes
        BY <1>7, <1>9, <2>2, <3>2
      <4> QED BY <1>7, <2>2, <4>1 DEF IInv, OneConstruction
    <3> QED BY <3>1, <3>2
  <2>3. CASE b # a /\ c = a
    <3>1. CASE j = 1
      BY <1>1, <1>4, <1>7, <2>3, <3>1
    <3>2. CASE j # 1
      <4>1. j - 1 \in DOMAIN work[a] /\ work'[a][j].makes = work[a][j - 1].makes
        BY <1>7, <1>9, <2>3, <3>2
      <4> QED BY <1>7, <2>3, <4>1 DEF IInv, OneConstruction
    <3> QED BY <3>1, <3>2
  <2>4. CASE b = a /\ c = a
    <3>1. CASE i = 1 /\ j = 1
      BY <2>4, <3>1
    <3>2. CASE i = 1 /\ j # 1
      BY <1>1, <1>4, <1>7, <1>9, <2>4, <3>2
    <3>3. CASE i # 1 /\ j = 1
      BY <1>1, <1>4, <1>7, <1>9, <2>4, <3>3
    <3>4. CASE i # 1 /\ j # 1
      <4>1. /\ i - 1 \in DOMAIN work[a] /\ work'[a][i].makes = work[a][i - 1].makes
            /\ j - 1 \in DOMAIN work[a] /\ work'[a][j].makes = work[a][j - 1].makes
        BY <1>7, <1>9, <2>4, <3>4
      <4>2. i - 1 = j - 1
        BY <2>4, <4>1 DEF IInv, OneConstruction
      <4> QED BY <1>3, <1>7, <2>4, <4>2
    <3> QED BY <3>1, <3>2, <3>3, <3>4
  <2> QED BY <2>1, <2>2, <2>3, <2>4
<1>12. Stacks'
  <2> SUFFICES ASSUME NEW b \in Actors, NEW i \in DOMAIN work'[b]
               PROVE  /\ work'[b][i].makes = None <=> i = Len(work'[b])
                      /\ work'[b][i].makes \notin Cached'
                      /\ \A p \in ToSet(Wanted(b, work'[b][i])) : Accounted(b, i, p)'
    BY DEF Stacks, Wanted
  <2>1. CASE b # a
    <3>1. work'[b] = work[b]
      BY <1>7, <2>1
    <3> QED BY <1>2, <3>1 DEF IInv, Stacks, Accounted
  <2>2. CASE b = a /\ i = 1
    <3>1. work'[b][i] = f /\ i # n + 1
      BY <1>3, <1>7, <2>2
    <3>2. Wanted(b, work'[b][i]) = Deps[q]
      BY <1>4, <3>1 DEF Wanted
    <3> QED BY <1>1, <1>2, <1>4, <1>7, <2>2, <3>1, <3>2 DEF Accounted
  <2>3. CASE b = a /\ i # 1
    <3>1. /\ i - 1 \in DOMAIN work[a] /\ work'[a][i].makes = work[a][i - 1].makes
          /\ i \in 2..(n + 1) /\ work'[a][i] = s[i - 1]
      BY <1>3, <1>7, <1>9, <2>3
    <3>2. /\ work[a][i - 1].makes = None <=> i - 1 = n
          /\ work[a][i - 1].makes \notin Cached
          /\ \A p \in ToSet(Wanted(a, work[a][i - 1])) : Accounted(a, i - 1, p)
      BY <3>1 DEF IInv, Stacks, n
    <3>3. Wanted(a, work'[a][i]) = Wanted(a, work[a][i - 1])
      BY <3>1 DEF Wanted
    <3>4. ASSUME NEW p \in ToSet(Wanted(a, work[a][i - 1]))
          PROVE  Accounted(a, i, p)'
      <4>1. CASE p \in ToSet(work[a][i - 1].needs)
        <5>1. CASE i - 1 = 1
          <6>1. p \in ToSet(s[1].needs) \/ p = q
            BY <1>3, <4>1, <5>1
          <6>2. work'[a][i - 1].makes = q /\ i > 1
            BY <1>3, <1>4, <1>7, <3>1, <5>1
          <6> QED BY <3>1, <5>1, <6>1, <6>2 DEF Accounted
        <5>2. CASE i - 1 # 1
          <6>1. i - 1 \in 2..n
            BY <1>3, <3>1, <5>2
          <6>2. work'[a][i] = work[a][i - 1]
            BY <1>3, <3>1, <6>1
          <6> QED BY <4>1, <6>2 DEF Accounted
        <5> QED BY <5>1, <5>2
      <4>2. CASE p \in Cached
        BY <1>2, <4>2 DEF Accounted
      <4>3. CASE i - 1 > 1 /\ work[a][(i - 1) - 1].makes = p
        <5>1. i - 1 \in 1..(n + 1) /\ i - 1 # 1 /\ i > 1
          BY <1>3, <3>1, <4>3
        <5>2. work'[a][i - 1].makes = p
          BY <1>9, <4>3, <5>1
        <5> QED BY <5>1, <5>2 DEF Accounted
      <4> QED BY <3>2, <4>1, <4>2, <4>3 DEF Accounted
    <3>5. i - 1 = n <=> i = n + 1
      BY <1>3, <3>1
    <3> QED BY <1>2, <1>7, <2>3, <3>1, <3>2, <3>3, <3>4, <3>5
  <2> QED BY <2>1, <2>2, <2>3
<1>13. Resolving(a)
  BY <1>1 DEF Needing
<1> QED BY <1>1, <1>2, <1>7, <1>10, <1>11, <1>12, <1>13, KeepsResolving

\* What was under construction is kept, its hooks not run yet.
LEMMA KeepsBuilt ==
  ASSUME IInv, NEW a \in Actors, Built(a)
  PROVE  IInv' /\ \E p \in Providers \ Cached : Cached' = Cached \union {p}
<1> DEFINE p == work[a][1].makes
           n == Len(work[a])
<1>1. work[a] \in Seq(Frames) /\ work \in [Actors -> Seq(Frames)] /\ work[a] # <<>> /\ ~(n = 1)
  BY DEF Built, Resolving, AtRoot, IInv, TypeOK
<1>2. /\ n \in Nat \ {0} /\ DOMAIN work[a] = 1..n /\ Head(work[a]) = work[a][1]
      /\ Tail(work[a]) \in Seq(Frames) /\ Len(Tail(work[a])) = n - 1
      /\ \A i \in 1..(n - 1) : Tail(work[a])[i] = work[a][i + 1]
  BY <1>1, EmptySeq, LenProperties, HeadTailProperties
<1>3. /\ work[a][1].needs = <<>> /\ Use(p) /\ runs' = [runs EXCEPT ![p] = NeverRun]
      /\ work' = [work EXCEPT ![a] = Tail(work[a])] /\ UNCHANGED <<stateVars, pc, stageVars>>
  BY <1>2 DEF Built
<1> HIDE DEF n
<1>4. /\ p # None /\ p \notin Cached
      /\ \A q \in ToSet(Wanted(a, work[a][1])) : Accounted(a, 1, q)
  BY <1>1, <1>2 DEF IInv, Stacks, n
<1>5. p \in Providers
  <2>1. work[a][1] \in Frames
    BY <1>1, <1>2, ElementOfSeq DEF n
  <2> QED BY <1>4, <2>1 DEF Frames
<1>6. ToSet(Deps[p]) \subseteq Cached
  BY <1>3, <1>4 DEF Wanted, Accounted, ToSet
<1>7. /\ Cached' = Cached \union {p} /\ DependenciesFirst'
      /\ singletons' \in Seq(Providers \ Durable) /\ durables' \in Seq(Durable)
  BY <1>3, <1>4, <1>5, <1>6, UsedNew DEF IInv
<1>8. Alive' = Alive \union {p} /\ p \in Participants /\ Alive \subseteq Participants /\ p \notin ToSet(Modules)
  BY <1>5, <1>7, CachedTypes, ProvidersAssumption DEF Alive, Participants, IInv
<1>9. /\ runs' \in [Participants -> [Stages -> 0..2]] /\ runs'[p] = NeverRun
      /\ \A y \in Participants : y # p => runs'[y] = runs[y]
  BY <1>3, <1>8 DEF IInv, TypeOK, NeverRun
<1>10. \A t \in Stages : runs'[p][t] = 0
  BY <1>9 DEF NeverRun
<1>11. /\ work' \in [Actors -> Seq(Frames)] /\ Len(work'[a]) = n - 1 /\ DOMAIN work'[a] = 1..(n - 1)
       /\ \A i \in 1..(n - 1) : work'[a][i] = work[a][i + 1] /\ i + 1 \in DOMAIN work[a] /\ i + 1 # 1
       /\ \A b \in Actors : b # a => work'[b] = work[b]
  <2>1. \A i \in 1..(n - 1) : i + 1 \in DOMAIN work[a] /\ i + 1 # 1
    BY <1>2
  <2>2. DOMAIN Tail(work[a]) = 1..(n - 1)
    BY <1>2, LenProperties
  <2> QED BY <1>1, <1>2, <1>3, <2>1, <2>2
<1> HIDE DEF p
<1>12. \A b \in Actors : \A i \in DOMAIN work[b] : work[b][i].makes = p => b = a /\ i = 1
  BY <1>2, <1>4 DEF IInv, OneConstruction, p
<1>13. Resolving(a) /\ pc' = pc /\ initialized' = initialized
  BY <1>3 DEF Built, stateVars
<1>14. TypeOK'
  BY <1>3, <1>7, <1>9, <1>11 DEF IInv, TypeOK, stateVars, stageVars
<1>15. Turns'
  <2>1. \A b \in Actors : Resolving(b)' => Resolving(b)
    BY <1>11, <1>13 DEF Resolving
  <2> QED BY <1>13, <2>1 DEF IInv, Turns
<1>16. Stacks'
  <2> SUFFICES ASSUME NEW b \in Actors, NEW i \in DOMAIN work'[b]
               PROVE  /\ work'[b][i].makes = None <=> i = Len(work'[b])
                      /\ work'[b][i].makes \notin Cached'
                      /\ \A q \in ToSet(Wanted(b, work'[b][i])) : Accounted(b, i, q)'
    BY DEF Stacks, Wanted
  <2>1. CASE b # a
    <3>1. work'[b] = work[b]
      BY <1>11, <2>1
    <3>2. work[b][i].makes # p
      BY <1>12, <2>1, <3>1
    <3> QED BY <1>7, <3>1, <3>2 DEF IInv, Stacks, Accounted
  <2>2. CASE b = a
    <3>1. i \in 1..(n - 1) /\ work'[a][i] = work[a][i + 1] /\ i + 1 \in DOMAIN work[a] /\ i + 1 # 1
      BY <1>11, <2>2
    <3>2. /\ work[a][i + 1].makes = None <=> i + 1 = n
          /\ work[a][i + 1].makes \notin Cached
          /\ \A q \in ToSet(Wanted(a, work[a][i + 1])) : Accounted(a, i + 1, q)
      BY <3>1 DEF IInv, Stacks, n
    <3>3. work[a][i + 1].makes # p
      BY <1>12, <3>1
    <3>4. ASSUME NEW q \in ToSet(Wanted(a, work[a][i + 1]))
          PROVE  Accounted(a, i, q)'
      <4>1. CASE q \in ToSet(work[a][i + 1].needs)
        BY <3>1, <4>1 DEF Accounted
      <4>2. CASE q \in Cached
        BY <1>7, <4>2 DEF Accounted
      <4>3. CASE work[a][(i + 1) - 1].makes = q
        <5>1. (i + 1) - 1 = i
          BY <3>1
        <5>2. CASE i = 1
          BY <1>7, <4>3, <5>1, <5>2 DEF Accounted, p
        <5>3. CASE i # 1
          <6>1. i - 1 \in 1..(n - 1) /\ (i - 1) + 1 = i /\ i > 1
            BY <1>2, <3>1, <5>3
          <6>2. work'[a][i - 1].makes = q
            BY <1>11, <4>3, <5>1, <6>1
          <6> QED BY <6>1, <6>2 DEF Accounted
        <5> QED BY <5>2, <5>3
      <4> QED BY <3>2, <4>1, <4>2, <4>3 DEF Accounted
    <3>5. i + 1 = n <=> i = n - 1
      BY <1>2, <3>1
    <3>6. Wanted(b, work'[b][i]) = Wanted(a, work[a][i + 1])
      BY <2>2, <3>1
    <3> QED BY <1>7, <1>11, <2>2, <3>1, <3>2, <3>3, <3>4, <3>5, <3>6
  <2> QED BY <2>1, <2>2
<1>17. OneConstruction'
  <2> SUFFICES ASSUME NEW b \in Actors, NEW c \in Actors,
                      NEW i \in DOMAIN work'[b], NEW j \in DOMAIN work'[c],
                      work'[b][i].makes = work'[c][j].makes, work'[b][i].makes # None
               PROVE  b = c /\ i = j
    BY DEF OneConstruction
  <2>1. CASE b # a /\ c # a
    <3>1. work'[b] = work[b] /\ work'[c] = work[c]
      BY <1>11, <2>1
    <3> QED BY <3>1 DEF IInv, OneConstruction
  <2>2. CASE b = a /\ c # a
    BY <1>11, <2>2 DEF IInv, OneConstruction
  <2>3. CASE b # a /\ c = a
    BY <1>11, <2>3 DEF IInv, OneConstruction
  <2>4. CASE b = a /\ c = a
    <3>1. i + 1 = j + 1
      BY <1>11, <2>4 DEF IInv, OneConstruction
    <3> QED BY <1>2, <1>11, <2>4, <3>1
  <2> QED BY <2>1, <2>2, <2>3, <2>4
<1>18. /\ \A d \in Drivers : ~InStages(d) /\ pc[d] # "start"
       /\ \E d \in Drivers : pc[d] \in {"warm", "serving"}
  <2>1. a \in Drivers \/ \E d \in Drivers : pc[d] = "serving"
    BY <1>13, NoStages DEF IInv, Turns, Actors
  <2> QED BY <1>13, <2>1, NoStages DEF IInv
<1>19. EmptyWhenStopped'
  BY <1>13, <1>18 DEF EmptyWhenStopped
<1>20. Positions' /\ RunsInStages' /\ WarmWhenStarted'
  BY <1>13, <1>18 DEF Positions, RunsInStages, WarmWhenStarted, InStages
<1>21. RunsOutside'
  <2>1. \A y \in Alive : y # p /\ runs'[y] = runs[y]
    BY <1>4, <1>8, <1>9 DEF Alive, p
  <2>2. Teardowns \subseteq Stages
    BY DEF Stages
  <2> QED BY <1>8, <1>9, <1>10, <1>13, <2>1, <2>2 DEF IInv, RunsOutside
<1>22. HooksRunOnce'
  <2>1. ASSUME initialized, NEW y \in ToSet(Warmed)
        PROVE  y \in Cached /\ y # p /\ y \in Participants /\ \A t \in Startups : Ran(y, t)
    BY <1>4, <2>1, CachedTypes DEF IInv, HooksRunOnce, Participants, p
  <2>2. \A y \in Participants, t \in Stages : runs'[y][t] <= 1
    BY <1>9, <1>10 DEF IInv, HooksRunOnce
  <2> QED BY <1>7, <1>9, <1>13, <2>1, <2>2 DEF HooksRunOnce, Ran
<1>23. SingletonsOutliveDependents'
  <2> SUFFICES ASSUME NEW x \in Providers, NEW q \in Providers \ Durable,
                      q \in ToSet(Deps[x]), x \in Cached \union {p}
               PROVE  /\ \A t \in Startups : runs'[x][t] > 0 => runs'[q][t] > 0
                      /\ \A t \in Teardowns : runs'[q][t] > 0 => runs'[x][t] > 0
    BY <1>7 DEF SingletonsOutliveDependents, InOrder, Ran
  <2>1. Startups \subseteq Stages /\ Teardowns \subseteq Stages
    BY DEF Stages
  <2>2. CASE x = p
    <3>1. q \in Cached /\ q \in Alive /\ q # p
      BY <1>4, <1>6, <2>2 DEF Alive, p
    <3>2. \A t \in Teardowns : runs[q][t] = 0
      BY <1>18, <2>1, <3>1 DEF IInv, RunsOutside, NeverRun
    <3>3. runs'[q] = runs[q]
      BY <1>8, <1>9, <3>1
    <3> QED BY <1>10, <2>1, <2>2, <3>2, <3>3
  <2>3. CASE x # p
    <3>1. x \in Cached
      BY <2>3
    <3>2. q \in Cached /\ q # p
      BY <1>4, <3>1, DependenciesCached DEF IInv, Cached, p
    <3>3. runs'[q] = runs[q] /\ runs'[x] = runs[x]
      BY <1>8, <1>9, <2>3, <3>1, <3>2 DEF Alive
    <3> QED BY <3>1, <3>3 DEF IInv, SingletonsOutliveDependents, InOrder, Ran
  <2> QED BY <2>2, <2>3
<1>24. \E r \in Providers \ Cached : Cached' = Cached \union {r}
  BY <1>4, <1>5, <1>7 DEF p
<1> QED BY <1>7, <1>14, <1>15, <1>16, <1>17, <1>19, <1>20, <1>21, <1>22, <1>23, <1>24 DEF IInv

\* What a step of a request that builds nothing leaves as it was.
LEMMA KeepsRequests ==
  ASSUME IInv, NEW r \in Resolvers, NEW l \in {"resolving", "ended"},
         UNCHANGED <<stateVars, cacheVars, runs, stageVars>>,
         pc' = [pc EXCEPT ![r] = l],
         l = "resolving" => \E d \in Drivers : pc[d] = "serving",
         work' \in [Actors -> Seq(Frames)], \A a \in Actors : a # r => work'[a] = work[a],
         work'[r] = <<>> \/ (l = "resolving" /\ \E p \in Providers : work'[r] = <<Frame(None, <<p>>)>>)
  PROVE  IInv'
<1>1. /\ r \in Actors /\ r \notin Drivers /\ pc \in [Actors -> Places]
      /\ \A d \in Drivers : d \in Actors /\ d # r
      /\ \A s \in Resolvers : s \in Actors
  BY ProvidersAssumption DEF Actors, IInv, TypeOK
<1>2. /\ pc' \in [Actors -> Places] /\ pc'[r] = l
      /\ \A a \in Actors : a # r => pc'[a] = pc[a]
  BY <1>1 DEF Places
<1>3. /\ Cached' = Cached /\ Alive' = Alive /\ DependenciesFirst'
      /\ UNCHANGED <<initialized, shut, overridable, singletons, durables, runs, stage, half, todo>>
  BY CachesKept DEF stateVars, cacheVars, stageVars
<1>4. \A d \in Drivers : pc'[d] = pc[d]
  BY <1>1, <1>2
<1>5. TypeOK'
  BY <1>2, <1>3 DEF IInv, TypeOK
<1>6. Turns'
  <2>1. /\ \A s \in Resolvers : pc'[s] \in {"idle", "resolving", "ended"}
        /\ \A s \in Resolvers : pc'[s] = "resolving" => \E d \in Drivers : pc[d] = "serving"
    BY <1>1, <1>2 DEF IInv, Turns
  <2>2. \A a \in Actors : Resolving(a)' => pc'[a] \in {"warm", "resolving"}
    BY <1>1, <1>2 DEF IInv, Turns, Resolving
  <2> QED BY <1>3, <1>4, <2>1, <2>2 DEF IInv, Turns
<1>7. \A i \in DOMAIN work'[r] : /\ i = 1 /\ work'[r][i].makes = None /\ Len(work'[r]) = 1
                                 /\ Wanted(r, work'[r][i]) = <<>>
  <2>1. CASE work'[r] = <<>>
    <3>1. <<>> \in Seq(Frames) /\ Len(<<>>) = 0
      BY EmptySeq
    <3>2. DOMAIN work'[r] = 1..0
      BY <2>1, <3>1, LenProperties
    <3> QED BY <3>2
  <2>2. ASSUME NEW p \in Providers, work'[r] = <<Frame(None, <<p>>)>>
        PROVE  \A i \in DOMAIN work'[r] : /\ i = 1 /\ work'[r][i].makes = None /\ Len(work'[r]) = 1
                                          /\ Wanted(r, work'[r][i]) = <<>>
    BY <1>1, <2>2 DEF Frame, Wanted
  <2> QED BY <2>1, <2>2
<1>8. OneConstruction'
  <2> SUFFICES ASSUME NEW b \in Actors, NEW c \in Actors,
                      NEW i \in DOMAIN work'[b], NEW j \in DOMAIN work'[c],
                      work'[b][i].makes = work'[c][j].makes, work'[b][i].makes # None
               PROVE  b = c /\ i = j
    BY DEF OneConstruction
  <2>1. b # r /\ c # r
    BY <1>7
  <2>2. work'[b] = work[b] /\ work'[c] = work[c]
    BY <2>1
  <2> QED BY <2>2 DEF IInv, OneConstruction
<1>9. Stacks'
  <2> SUFFICES ASSUME NEW b \in Actors, NEW i \in DOMAIN work'[b]
               PROVE  /\ work'[b][i].makes = None <=> i = Len(work'[b])
                      /\ work'[b][i].makes \notin Cached'
                      /\ \A q \in ToSet(Wanted(b, work'[b][i])) : Accounted(b, i, q)'
    BY DEF Stacks, Wanted
  <2>1. CASE b # r
    <3>1. work'[b] = work[b]
      BY <2>1
    <3>2. /\ work[b][i].makes = None <=> i = Len(work[b])
          /\ work[b][i].makes \notin Cached
          /\ \A q \in ToSet(Wanted(b, work[b][i])) : Accounted(b, i, q)
      BY <3>1 DEF IInv, Stacks
    <3>3. \A q : Accounted(b, i, q) => Accounted(b, i, q)'
      BY <1>3, <3>1 DEF Accounted
    <3> QED BY <1>3, <3>1, <3>2, <3>3
  <2>2. CASE b = r
    <3>1. None \notin Cached
      BY CachedTypes DEF IInv
    <3>2. ToSet(Wanted(b, work'[b][i])) = {}
      BY <1>7, <2>2 DEF ToSet
    <3> QED BY <1>3, <1>7, <2>2, <3>1, <3>2
  <2> QED BY <2>1, <2>2
<1>10. EmptyWhenStopped' /\ RunsOutside' /\ WarmWhenStarted' /\ HooksRunOnce' /\ SingletonsOutliveDependents'
  BY <1>3, <1>4 DEF IInv, EmptyWhenStopped, RunsOutside, WarmWhenStarted, HooksRunOnce,
                    SingletonsOutliveDependents, InOrder, Ran
<1>11. Positions'
  <2>1. \A d \in Drivers : InStages(d)' = InStages(d) /\ Visited(d)' = Visited(d)
    BY <1>3, <1>4 DEF InStages, Visited, ModulesOf, InstancesOf
  <2> QED BY <1>3, <1>4, <2>1 DEF IInv, Positions
<1>12. RunsInStages'
  <2>1. \A d \in Drivers : /\ InStages(d)' = InStages(d) /\ Awaited(d)' = Awaited(d)
                           /\ Earlier(stage[d])' = Earlier(stage[d])
    BY <1>3, <1>4 DEF InStages, Awaited, Earlier
  <2> QED BY <1>3, <1>4, <2>1 DEF IInv, RunsInStages
<1> QED BY <1>3, <1>5, <1>6, <1>8, <1>9, <1>10, <1>11, <1>12 DEF IInv

LEMMA KeepsRequest ==
  ASSUME OneAtATime, IInv, NEW r \in Resolvers, NEW p \in Durable, Request(r, p)
  PROVE  IInv'
<1>1. /\ UNCHANGED <<stateVars, cacheVars, runs, stageVars>>
      /\ pc' = [pc EXCEPT ![r] = "resolving"]
      /\ \E d \in Drivers : pc[d] = "serving"
      /\ work' = [work EXCEPT ![r] = <<Frame(None, <<p>>)>>]
  BY DEF Request, OneAtATime, Drivers
<1>2. work \in [Actors -> Seq(Frames)] /\ r \in Actors /\ p \in Providers
  BY ProvidersAssumption DEF IInv, TypeOK, Actors
<1>3. <<Frame(None, <<p>>)>> \in Seq(Frames)
  <2>1. Frame(None, <<p>>) \in Frames
    BY <1>2 DEF Frame, Frames
  <2> QED BY <2>1
<1>4. /\ work' \in [Actors -> Seq(Frames)] /\ \A a \in Actors : a # r => work'[a] = work[a]
      /\ work'[r] = <<Frame(None, <<p>>)>>
  BY <1>1, <1>2, <1>3
<1> QED BY <1>1, <1>2, <1>4, KeepsRequests

LEMMA KeepsRequestEnds ==
  ASSUME IInv, NEW r \in Resolvers, RequestEnds(r)
  PROVE  IInv'
<1>1. PICK l \in {"resolving", "ended"} : l = "ended"
  OBVIOUS
<1>2. /\ UNCHANGED <<stateVars, cacheVars, runs, stageVars>>
      /\ pc' = [pc EXCEPT ![r] = l] /\ work' = [work EXCEPT ![r] = <<>>]
  BY <1>1 DEF RequestEnds
<1>3. work \in [Actors -> Seq(Frames)] /\ r \in Actors
  BY DEF IInv, TypeOK, Actors
<1>4. /\ work' \in [Actors -> Seq(Frames)] /\ \A a \in Actors : a # r => work'[a] = work[a]
      /\ work'[r] = <<>>
  BY <1>2, <1>3
<1>5. l = "resolving" => \E d \in Drivers : pc[d] = "serving"
  BY <1>1
<1> QED BY <1>2, <1>4, <1>5, KeepsRequests

LEMMA Initially == Init => IInv
<1> SUFFICES ASSUME Init
             PROVE  IInv
  OBVIOUS
<1>1. Cached = {}
  BY DEF Init, Cached, ToSet
<1>2. TypeOK
  <2>1. /\ singletons \in Seq(Providers \ Durable) /\ durables \in Seq(Durable)
        /\ work \in [Actors -> Seq(Frames)] /\ todo \in [Drivers -> Seq(Participants)]
    BY DEF Init
  <2>2. runs \in [Participants -> [Stages -> 0..2]]
    BY DEF Init, NeverRun
  <2>3. /\ pc \in [Actors -> Places]
        /\ stage \in [Drivers -> Stages \union {None}]
        /\ half \in [Drivers -> {"modules", "providers", None}]
    BY DEF Init, Places
  <2> QED BY <2>1, <2>2, <2>3 DEF Init, TypeOK
<1>3. \A a \in Actors : pc[a] = "idle" /\ work[a] = <<>>
  BY DEF Init
<1>4. Turns /\ Stacks /\ OneConstruction
  BY <1>3 DEF Init, Turns, Stacks, OneConstruction, Resolving, Actors
<1>5. DependenciesFirst
  BY DEF Init, DependenciesFirst, ToSet, IsInjective
<1>6. EmptyWhenStopped /\ Positions /\ RunsInStages /\ RunsOutside /\ WarmWhenStarted
  BY <1>1, <1>3 DEF EmptyWhenStopped, Positions, RunsInStages, RunsOutside, WarmWhenStarted, InStages, Actors
<1>7. HooksRunOnce /\ SingletonsOutliveDependents
  BY <1>1 DEF Init, HooksRunOnce, SingletonsOutliveDependents, InOrder, NeverRun
<1> QED BY <1>2, <1>4, <1>5, <1>6, <1>7 DEF IInv

LEMMA KeepsUnchanged ==
  ASSUME IInv, UNCHANGED vars
  PROVE  IInv'
<1>1. UNCHANGED <<initialized, shut, overridable, singletons, durables, runs, pc, work, stage, todo, half>>
  BY DEF vars, stateVars, cacheVars, stageVars
<1>2. Cached' = Cached /\ Alive' = Alive /\ DependenciesFirst'
  BY <1>1, CachesKept DEF cacheVars
<1>3. TypeOK' /\ Turns' /\ OneConstruction'
  BY <1>1 DEF IInv, TypeOK, Turns, OneConstruction, Resolving
<1>4. Stacks'
  BY <1>1, <1>2 DEF IInv, Stacks, Accounted, Wanted
<1>5. EmptyWhenStopped' /\ RunsOutside' /\ WarmWhenStarted' /\ HooksRunOnce' /\ SingletonsOutliveDependents'
  BY <1>1, <1>2 DEF IInv, EmptyWhenStopped, RunsOutside, WarmWhenStarted, HooksRunOnce,
                    SingletonsOutliveDependents, InOrder, Ran
<1>6. \A d \in Drivers : /\ InStages(d)' = InStages(d) /\ Visited(d)' = Visited(d)
                         /\ Awaited(d)' = Awaited(d) /\ Earlier(stage[d])' = Earlier(stage[d])
  BY <1>1, <1>2 DEF InStages, Visited, Awaited, Earlier, ModulesOf, InstancesOf
<1>7. Positions' /\ RunsInStages'
  BY <1>1, <1>2, <1>6 DEF IInv, Positions, RunsInStages
<1> QED BY <1>2, <1>3, <1>4, <1>5, <1>7 DEF IInv

LEMMA Kept ==
  ASSUME OneAtATime, IInv, [Next]_vars
  PROVE  IInv'
<1>1. ASSUME NEW d \in Drivers, Begin(d) \/ BeginNothing(d) \/ Proceed(d) \/ Leave(d)
      PROVE  IInv'
  <2>1. ASSUME Resolve(d)
        PROVE  IInv'
    BY <2>1, KeepsBuilt, KeepsReadCached, KeepsConstruct DEF Resolve, Actors
  <2>2. ASSUME Begin(d) \/ BeginNothing(d) \/ Leave(d)
        PROVE  IInv'
    BY <2>2, KeepsBegin, KeepsBeginNothing, KeepsLeave
  <2>3. ASSUME WarmedUp(d) \/ Undo(d) \/ Ready(d) \/ NextHook(d) \/ NextStage(d) \/ TornDown(d)
        PROVE  IInv'
    BY <2>3, KeepsWarmedUp, KeepsUndo, KeepsReady, KeepsNextHook, KeepsNextStage, KeepsTornDown
  <2> QED BY <1>1, <2>1, <2>2, <2>3 DEF Proceed
<1>2. ASSUME NEW r \in Resolvers, Resolve(r) \/ RequestEnds(r) \/ \E p \in Durable : Request(r, p)
      PROVE  IInv'
  <2>1. ASSUME Resolve(r)
        PROVE  IInv'
    BY <2>1, KeepsBuilt, KeepsReadCached, KeepsConstruct DEF Resolve, Actors
  <2> QED BY <1>2, <2>1, KeepsRequestEnds, KeepsRequest
<1>3. CASE UNCHANGED vars
  BY <1>3, KeepsUnchanged
<1> QED BY <1>1, <1>2, <1>3 DEF Next, AllEnded

-----------------------------------------------------------------------------
(* Theorems.                                                                 *)

\* Over starts that fail and starts that succeed, stops and starts again, the stacks,
\* the caches and the stages stay as described.
THEOREM Invariance == ASSUME OneAtATime PROVE Spec => []IInv
<1>1. IInv /\ [Next]_vars => IInv'
  BY Kept
<1> QED BY <1>1, Initially, PTL DEF Spec

\* LifecycleManager: every variable keeps its type.
THEOREM TypeCorrect == ASSUME OneAtATime PROVE Spec => []TypeOK
<1>1. IInv => TypeOK
  BY DEF IInv
<1> QED BY <1>1, Invariance, PTL

\* LifecycleManager and the hook runner: no hook runs twice on one instance, whatever
\* fails and is started again, and an application that has started has run both startup
\* hooks on all it was to build before the first request.
THEOREM HooksOnce == ASSUME OneAtATime PROVE Spec => []HooksRunOnce
<1>1. IInv => HooksRunOnce
  BY DEF IInv
<1> QED BY <1>1, Invariance, PTL

\* constructed_instances: singletons are initialized before whatever depends on them and
\* torn down after it, in every stage.
THEOREM OrderOfInstances == ASSUME OneAtATime PROVE Spec => []SingletonsOutliveDependents
<1>1. IInv => SingletonsOutliveDependents
  BY DEF IInv
<1> QED BY <1>1, Invariance, PTL

\* Only the last hook of a teardown forgets instances, and the other hooks have run.
LEMMA KeepsNothingDropped ==
  ASSUME OneAtATime, IInv, [Next]_vars
  PROVE  \A p \in Cached \ Cached' : \A s \in Teardowns : runs'[p][s] > 0
<1> SUFFICES ASSUME NEW p \in Cached, p \notin Cached'
             PROVE  \A s \in Teardowns : runs'[p][s] > 0
  OBVIOUS
<1>1. ~UNCHANGED cacheVars
  BY CachesKept
<1>2. ASSUME NEW a \in Actors, Resolve(a)
      PROVE  FALSE
  <2>1. CASE Built(a)
    BY <2>1, KeepsBuilt
  <2>2. ASSUME NEW q \in Providers, ReadCached(a, q)
        PROVE  FALSE
    BY <2>2, UsedCached DEF ReadCached, IInv
  <2>3. ASSUME NEW q \in Providers, Construct(a, q)
        PROVE  FALSE
    BY <1>1, <2>3 DEF Construct
  <2> QED BY <1>2, <2>1, <2>2, <2>3 DEF Resolve
<1>3. \E d \in Drivers : TornDown(d)
  <2>1. ASSUME NEW d \in Drivers, Begin(d) \/ BeginNothing(d) \/ Proceed(d) \/ Leave(d)
        PROVE  TornDown(d)
    BY <1>1, <1>2, <2>1 DEF Begin, BeginNothing, Proceed, Leave, WarmedUp, Undo, Ready, NextHook, NextStage, Actors
  <2>2. ASSUME NEW r \in Resolvers, Resolve(r) \/ RequestEnds(r) \/ \E q \in Durable : Request(r, q)
        PROVE  FALSE
    BY <1>1, <1>2, <2>2 DEF RequestEnds, Request, Actors
  <2> QED BY <1>1, <2>1, <2>2 DEF Next, AllEnded, vars
<1>4. PICK d \in Drivers : TornDown(d)
  BY <1>3
<1>5. /\ pc[d] \in {"undo", "stop"} /\ HookEnds(d) /\ StageEnds(d) /\ Following(stage[d]) = None /\ InStages(d)
  BY <1>4 DEF TornDown, InStages
<1>6. stage[d] = "on_module_destroy"
  BY <1>5, ProvidersAssumption DEF IInv, Positions, Following, Teardowns, Stages
<1>7. /\ \A y \in Alive : runs'[y][stage[d]] = 1
      /\ \A y \in Alive, t \in Stages : t # stage[d] => runs'[y][t] = runs[y][t]
  BY <1>5, StageDone
<1>8. \A t \in Teardowns : t = stage[d] \/ (t \in Earlier(stage[d]) /\ t \in Stages /\ t # stage[d])
  <2>1. Earlier(stage[d]) = {"before_application_shutdown", "on_application_shutdown"}
    BY <1>6 DEF Earlier
  <2> QED BY <1>6, <2>1 DEF Teardowns, Stages
<1>9. p \in Alive /\ \A t \in Earlier(stage[d]) : runs[p][t] = 1
  BY <1>5 DEF Alive, IInv, RunsInStages
<1> QED BY <1>7, <1>8, <1>9

\* LifecycleManager._tear_down: no instance is forgotten before all three teardown hooks
\* have run on it.
THEOREM NothingForgottenAlive == ASSUME OneAtATime PROVE Spec => NothingDroppedAlive
<1>1. IInv /\ [Next]_vars => [\A p \in Cached \ Cached' : \A s \in Teardowns : runs'[p][s] > 0]_vars
  BY KeepsNothingDropped
<1> QED BY <1>1, Invariance, PTL DEF Spec, NothingDroppedAlive

-----------------------------------------------------------------------------
(* The cycle that is seen from outside.                                      *)

\* While a driver is at work the phase is its own.
LEMMA PhaseProperties ==
  ASSUME IInv
  PROVE  /\ \A d \in Drivers : pc[d] \in {"undo", "stop"} => Phase = "stopping"
         /\ \A d \in Drivers : pc[d] \in {"warm", "start"} => Phase = "starting"
         /\ \A d \in Drivers : pc[d] = "serving" => Phase = "running"
         /\ (\A d \in Drivers : pc[d] \in {"idle", "ended", "leaving"}) => Phase = "stopped"
         /\ \A d \in Drivers : pc[d] = "leaving" => Phase = "stopped"
<1>1. ASSUME NEW d \in Drivers, pc[d] \notin {"idle", "ended"}
      PROVE  \A e \in Drivers : e # d => pc[e] \in {"idle", "ended"}
  BY <1>1 DEF IInv, Turns
<1>2. ASSUME NEW d \in Drivers, pc[d] \in {"undo", "stop"}
      PROVE  Phase = "stopping"
  BY <1>2 DEF Phase
<1>3. ASSUME NEW d \in Drivers, pc[d] \in {"warm", "start"}
      PROVE  Phase = "starting"
  <2>1. ~\E e \in Drivers : pc[e] \in {"undo", "stop"}
    BY <1>1, <1>3
  <2> QED BY <1>3, <2>1 DEF Phase
<1>4. ASSUME NEW d \in Drivers, pc[d] = "serving"
      PROVE  Phase = "running"
  <2>1. ~\E e \in Drivers : pc[e] \in {"undo", "stop", "warm", "start"}
    BY <1>1, <1>4
  <2> QED BY <1>4, <2>1 DEF Phase, IInv, Turns
<1>5. ASSUME \A d \in Drivers : pc[d] \in {"idle", "ended", "leaving"}
      PROVE  Phase = "stopped"
  BY <1>5 DEF Phase, IInv, Turns
<1>6. ASSUME NEW d \in Drivers, pc[d] = "leaving"
      PROVE  Phase = "stopped"
  <2>1. \A e \in Drivers : pc[e] \in {"idle", "ended", "leaving"}
    BY <1>1, <1>6
  <2> QED BY <1>5, <2>1
<1> QED BY <1>2, <1>3, <1>4, <1>5, <1>6

\* A step that begins or ends no stage of the cycle does not change its phase.
LEMMA SamePhase ==
  ASSUME UNCHANGED initialized, \A d \in Drivers : pc'[d] = pc[d]
  PROVE  Phase' = Phase
BY DEF Phase

LEMMA PhaseAfter ==
  ASSUME IInv'
  PROVE  /\ \A d \in Drivers : pc'[d] \in {"undo", "stop"} => Phase' = "stopping"
         /\ \A d \in Drivers : pc'[d] \in {"warm", "start"} => Phase' = "starting"
         /\ \A d \in Drivers : pc'[d] = "serving" => Phase' = "running"
<1>1. \A d \in Drivers : pc'[d] \notin {"idle", "ended"} =>
          \A e \in Drivers : e # d => pc'[e] \in {"idle", "ended"}
  BY DEF IInv, Turns
<1>2. (\E d \in Drivers : pc'[d] = "serving") => initialized'
  BY DEF IInv, Turns
<1> QED BY <1>1, <1>2 DEF Phase

\* Every step is a step of the cycle, or none.
LEMMA StepsOfCycle ==
  ASSUME OneAtATime, IInv, IInv', [Next]_vars
  PROVE  Cycle!Next \/ UNCHANGED <<Phase, Cached>>
<1>1. ASSUME NEW a \in Actors, Resolve(a)
      PROVE  Cycle!Next \/ UNCHANGED <<Phase, Cached>>
  <2>1. Phase' = Phase
    BY <1>1, SamePhase DEF Resolve, Built, ReadCached, Construct, stateVars
  <2>2. CASE Built(a)
    <3>1. PICK p \in Providers \ Cached : Cached' = Cached \union {p}
      BY <2>2, KeepsBuilt
    <3>2. Phase \in {"starting", "running"}
      <4>1. Resolving(a)
        BY <2>2 DEF Built
      <4>2. pc[a] \in {"warm", "resolving"} /\ (a \in Drivers => pc[a] # "resolving")
        BY <4>1 DEF IInv, Turns
      <4>3. CASE a \in Drivers
        BY <4>2, <4>3, PhaseProperties
      <4>4. CASE a \in Resolvers
        <5>1. pc[a] = "resolving"
          BY <4>2, <4>4 DEF IInv, Turns
        <5>2. PICK d \in Drivers : pc[d] = "serving"
          BY <4>4, <5>1 DEF IInv, Turns
        <5> QED BY <5>2, PhaseProperties
      <4> QED BY <4>3, <4>4 DEF Actors
    <3> QED BY <2>1, <3>1, <3>2 DEF Cycle!Next, Cycle!Make
  <2>3. ASSUME NEW q \in Providers, ReadCached(a, q) \/ Construct(a, q)
        PROVE  Cached' = Cached
    BY <2>3, UsedCached, CachesKept DEF ReadCached, Construct, IInv
  <2> QED BY <1>1, <2>1, <2>2, <2>3 DEF Resolve
<1>2. ASSUME NEW d \in Drivers, Begin(d) \/ BeginNothing(d)
      PROVE  Cycle!Next \/ UNCHANGED <<Phase, Cached>>
  <2>1. /\ \A e \in Drivers : pc[e] \in {"idle", "ended"} /\ e \in Actors
        /\ pc \in [Actors -> Places]
    BY <1>2 DEF Begin, BeginNothing, MayEnter, OneAtATime, Drivers, Actors, IInv, TypeOK
  <2>2. Phase = "stopped" /\ ~initialized
    BY <2>1, PhaseProperties DEF IInv, Turns
  <2>3. Cached' = Cached
    BY <1>2, CachesKept DEF Begin, BeginNothing
  <2>4. CASE Begin(d)
    <3>1. pc'[d] = "warm"
      BY <2>1, <2>4 DEF Begin
    <3>2. Phase' = "starting"
      BY <3>1, PhaseAfter
    <3> QED BY <2>2, <2>3, <3>2 DEF Cycle!Next, Cycle!Begin
  <2>5. CASE BeginNothing(d)
    <3>1. \A e \in Drivers : pc'[e] \in {"idle", "ended"}
      BY <2>1, <2>2, <2>5 DEF BeginNothing
    <3>2. ~initialized'
      BY <2>2, <2>5 DEF BeginNothing, stateVars
    <3>3. Phase' = "stopped"
      BY <3>1, <3>2 DEF Phase
    <3> QED BY <2>2, <2>3, <3>3
  <2> QED BY <1>2, <2>4, <2>5
<1>3. ASSUME NEW d \in Drivers, WarmedUp(d) \/ Undo(d) \/ Ready(d) \/ NextHook(d) \/ NextStage(d)
      PROVE  Cycle!Next \/ UNCHANGED <<Phase, Cached>>
  <2>1. Cached' = Cached
    BY <1>3, CachesKept DEF WarmedUp, Undo, Ready, NextHook, NextStage
  <2>2. d \in Actors /\ pc \in [Actors -> Places]
    BY DEF IInv, TypeOK, Actors
  <2>3. CASE NextHook(d) \/ NextStage(d)
    BY <2>1, <2>3, SamePhase DEF NextHook, NextStage, stateVars
  <2>4. CASE WarmedUp(d)
    <3>1. pc[d] = "warm" /\ pc'[d] = "start"
      BY <2>2, <2>4 DEF WarmedUp
    <3> QED BY <2>1, <3>1, PhaseProperties, PhaseAfter
  <2>5. CASE Undo(d)
    <3>1. pc[d] \in {"warm", "start"} /\ pc'[d] = "undo"
      BY <2>2, <2>5 DEF Undo, WarmUpFails, StartupHookFails
    <3>2. Phase = "starting" /\ Phase' = "stopping"
      BY <3>1, PhaseProperties, PhaseAfter
    <3> QED BY <2>1, <3>2 DEF Cycle!Next, Cycle!Stop
  <2>6. CASE Ready(d)
    <3>1. pc[d] = "start" /\ pc'[d] = "serving"
      BY <2>2, <2>6 DEF Ready
    <3>2. Phase = "starting" /\ Phase' = "running"
      BY <3>1, PhaseProperties, PhaseAfter
    <3> QED BY <2>1, <3>2 DEF Cycle!Next, Cycle!Ready
  <2> QED BY <1>3, <2>3, <2>4, <2>5, <2>6
<1>4. ASSUME NEW d \in Drivers, TornDown(d)
      PROVE  Cycle!Next
  <2>1. d \in Actors /\ pc \in [Actors -> Places]
    BY DEF IInv, TypeOK, Actors
  <2>2. /\ pc[d] \in {"undo", "stop"} /\ pc'[d] \in {"leaving", "ended"} /\ ~initialized'
        /\ \A a \in Actors : a # d => pc'[a] = pc[a]
    BY <1>4, <2>1 DEF TornDown, ForgetInstances
  <2>3. \A e \in Drivers : e # d => pc[e] \in {"idle", "ended"} /\ e \in Actors
    BY <2>2 DEF IInv, Turns, Actors
  <2>4. Cached' = {}
    BY <1>4 DEF TornDown, ForgetInstances, Cached, ToSet
  <2>5. Phase = "stopping"
    BY <2>2, PhaseProperties
  <2>6. Phase' = "stopped"
    BY <2>2, <2>3 DEF Phase
  <2> QED BY <2>4, <2>5, <2>6 DEF Cycle!Next, Cycle!Finish
<1>5. ASSUME NEW d \in Drivers, Leave(d)
      PROVE  Cycle!Next \/ UNCHANGED <<Phase, Cached>>
  <2>1. d \in Actors /\ pc \in [Actors -> Places]
    BY DEF IInv, TypeOK, Actors
  <2>2. Cached' = Cached /\ initialized' = initialized
    BY <1>5, CachesKept DEF Leave, stateVars
  <2>3. pc[d] \in {"serving", "leaving"}
    BY <1>5 DEF Leave, OneAtATime
  <2>4. \A e \in Drivers : e # d => pc[e] \in {"idle", "ended"} /\ e \in Actors
    BY <2>3 DEF IInv, Turns, Actors
  <2>5. CASE initialized
    <3>1. pc[d] = "serving" /\ pc'[d] = "stop"
      BY <1>5, <2>1, <2>3, <2>4, <2>5 DEF Leave, IInv, Turns
    <3>2. Phase = "running" /\ Phase' = "stopping"
      BY <3>1, PhaseProperties, PhaseAfter
    <3> QED BY <2>2, <3>2 DEF Cycle!Next, Cycle!Stop
  <2>6. CASE ~initialized
    <3>1. pc[d] = "leaving" /\ pc' = [pc EXCEPT ![d] = "ended"]
      BY <1>5, <2>3, <2>6 DEF Leave, IInv, Turns
    <3>2. Phase = "stopped"
      BY <3>1, PhaseProperties
    <3>3. \A e \in Drivers : pc'[e] \in {"idle", "ended"}
      BY <2>1, <2>4, <3>1
    <3>4. Phase' = "stopped"
      BY <2>2, <2>6, <3>3 DEF Phase
    <3> QED BY <2>2, <3>2, <3>4
  <2> QED BY <2>5, <2>6
<1>6. ASSUME NEW r \in Resolvers, RequestEnds(r) \/ \E p \in Durable : Request(r, p)
      PROVE  UNCHANGED <<Phase, Cached>>
  <2>1. /\ pc \in [Actors -> Places] /\ Cached' = Cached /\ initialized' = initialized
        /\ \E l \in {"ended", "resolving"} : pc' = [pc EXCEPT ![r] = l]
    BY <1>6, CachesKept DEF RequestEnds, Request, IInv, TypeOK, stateVars
  <2>2. \A d \in Drivers : d \in Actors /\ d # r
    BY ProvidersAssumption DEF Actors
  <2>3. \A d \in Drivers : pc'[d] = pc[d]
    BY <2>1, <2>2
  <2> QED BY <2>1, <2>3, SamePhase
<1>7. CASE UNCHANGED vars
  BY <1>7, CachesKept, SamePhase DEF vars, stateVars
<1> QED BY <1>1, <1>2, <1>3, <1>4, <1>5, <1>6, <1>7 DEF Next, AllEnded, Proceed, Actors

\* LifecycleManager seen from outside: the application starts, runs, stops and starts
\* again, instances come to be while it starts or runs, and none is left once it stopped.
THEOREM Refinement == ASSUME OneAtATime PROVE Spec => ImplementsCycle
<1>1. Init => Cycle!Init
  BY DEF Init, Cycle!Init, Phase, Cached, ToSet, Actors
<1>2. IInv /\ IInv' /\ [Next]_vars => [Cycle!Next]_(Cycle!cycleVars)
  BY StepsOfCycle DEF Cycle!cycleVars
<1> QED BY <1>1, <1>2, Invariance, PTL DEF Spec, ImplementsCycle, Cycle!Spec
===============================================================================
