----------------------------- MODULE Bootstrap_proofs -----------------------------
(***************************************************************************)
(* Theorems about Bootstrap, the assembly and the router in it, for any     *)
(* declared applications.                                                  *)
(***************************************************************************)
EXTENDS Bootstrap, SequenceTheorems, FiniteSetTheorems, WellFoundedInduction, TLAPS

-----------------------------------------------------------------------------
(* Numbers, sequences and graphs.                                            *)

\* The smaller relation on the naturals has a least element in every set of them.
LEMMA LeastNumber ==
    ASSUME NEW T \in SUBSET Nat, T # {}
    PROVE  \E n \in T : \A k \in T : n <= k
  <1> DEFINE R == OpToRel(<, Nat)
  <1>1. IsWellFoundedOn(R, Nat)
    BY NatLessThanWellFounded
  <1>2. R = {ss \in Nat \X Nat : ss[1] < ss[2]}
    BY DEF OpToRel
  <1> HIDE DEF R
  <1>3. PICK n \in T : \A k \in T : ~(<<k, n>> \in R)
    BY <1>1, WFMin
  <1>4. \A k \in T : ~(k < n)
    BY <1>2, <1>3
  <1> QED
    BY <1>4

\* A set of places of a sequence is finite.
LEMMA PlacesAreFinite ==
    ASSUME NEW N \in Nat, NEW places \in SUBSET (1..N)
    PROVE  IsFiniteSet(places) /\ Cardinality(places) \in Nat
  <1>1. IsFiniteSet(1..N)
    BY FS_Interval
  <1>2. IsFiniteSet(places)
    BY <1>1, FS_Subset
  <1> QED
    BY <1>2, FS_CardinalityType

\* Of the places of a sequence, some n of them have one that is the n-th.
LEMMA NthPlace ==
    ASSUME NEW N \in Nat, NEW places \in SUBSET (1..N), NEW n \in 1..Cardinality(places)
    PROVE  \E i \in places : Cardinality({j \in places : j <= i}) = n
  <1> DEFINE UpTo(i) == {j \in places : j <= i}
             Count(i) == Cardinality(UpTo(i))
             Enough == {i \in 0..N : Count(i) >= n}
  <1>1. \A j \in places : j \in Nat /\ 1 <= j /\ j <= N
    OBVIOUS
  <1>2. ASSUME NEW i \in Nat
        PROVE  IsFiniteSet(UpTo(i)) /\ Count(i) \in Nat
    <2>1. UpTo(i) \in SUBSET (1..N)
      OBVIOUS
    <2> QED
      BY <2>1, PlacesAreFinite
  <1>3. Count(0) = 0
    <2>1. UpTo(0) = {}
      <3>1. \A j \in places : ~(j <= 0)
        BY <1>1
      <3> QED
        BY <3>1
    <2> QED
      BY <2>1, FS_EmptySet
  <1>4. Count(N) = Cardinality(places)
    <2>1. UpTo(N) = places
      BY <1>1
    <2> QED
      BY <2>1
  <1>5. ASSUME NEW i \in 1..N, i \notin places
        PROVE  Count(i) = Count(i - 1)
    <2>1. \A j \in places : j <= i <=> j <= i - 1
      BY <1>1, <1>5
    <2>2. UpTo(i) = UpTo(i - 1)
      BY <2>1
    <2> QED
      BY <2>2
  <1>6. ASSUME NEW i \in 1..N, i \in places
        PROVE  Count(i) = Count(i - 1) + 1
    <2>1. \A j \in places : j <= i <=> (j <= i - 1 \/ j = i)
      BY <1>1
    <2>2. UpTo(i) = UpTo(i - 1) \cup {i}
      BY <2>1, <1>6
    <2>3. i \notin UpTo(i - 1)
      BY <1>1
    <2>4. i - 1 \in Nat
      OBVIOUS
    <2>5. IsFiniteSet(UpTo(i - 1))
      BY <1>2, <2>4
    <2> HIDE DEF UpTo
    <2> QED
      BY <2>2, <2>3, <2>5, FS_AddElement
  <1>7. n \in Nat /\ n >= 1 /\ n <= Cardinality(places)
    BY PlacesAreFinite
  <1>14. \A i \in Nat : Count(i) \in Nat
    BY <1>2
  <1> HIDE DEF Count
  <1>8. Enough \in SUBSET Nat /\ N \in Enough
    BY <1>4, <1>7
  <1>9. PICK i \in Enough : \A k \in Enough : i <= k
    <2> HIDE DEF Enough
    <2> QED
      BY <1>8, LeastNumber
  <1>10. i \in 1..N /\ Count(i) >= n
    BY <1>3, <1>7, <1>9
  <1>11. i - 1 \in 0..N /\ i - 1 \notin Enough
    BY <1>9, <1>10
  <1>12. Count(i) \in Nat /\ Count(i - 1) \in Nat /\ Count(i - 1) < n
    BY <1>14, <1>7, <1>10, <1>11
  <1>13. i \in places /\ Count(i) = n
    BY <1>5, <1>6, <1>7, <1>10, <1>12
  <1> QED
    BY <1>13 DEF Count

\* What is picked of a sequence: entries of it, as many as there are places.
LEMMA PickedIsSeq ==
    ASSUME NEW S, NEW s \in Seq(S), NEW places \in SUBSET DOMAIN s
    PROVE  /\ Picked(s, places) \in Seq(S)
           /\ ToSet(Picked(s, places)) \subseteq {s[i] : i \in places}
  <1>0. Len(s) \in Nat /\ places \in SUBSET (1..Len(s)) /\ \A i \in places : s[i] \in S
    OBVIOUS
  <1>1. Cardinality(places) \in Nat
    BY <1>0, PlacesAreFinite
  <1>2. ASSUME NEW n \in 1..Cardinality(places)
        PROVE  \E i \in places : Picked(s, places)[n] = s[i]
    <2>1. \E i \in places : Cardinality({j \in places : j <= i}) = n
      BY <1>0, NthPlace
    <2> QED
      BY <2>1 DEF Picked
  <1>3. DOMAIN Picked(s, places) = 1..Cardinality(places)
    BY DEF Picked
  <1>5. \A n \in 1..Cardinality(places) : Picked(s, places)[n] \in S
    BY <1>2, <1>0
  <1>6. Picked(s, places) \in [1..Cardinality(places) -> S]
    BY <1>5 DEF Picked
  <1>7. Picked(s, places) \in Seq(S)
    BY <1>1, <1>6, SeqDef
  <1>8. ToSet(Picked(s, places)) \subseteq {s[i] : i \in places}
    BY <1>2, <1>3 DEF ToSet
  <1> QED
    BY <1>7, <1>8
\* A closure has what it starts from.
LEMMA ClosureHas ==
    ASSUME NEW step, NEW s \in SUBSET DOMAIN step
    PROVE  s \subseteq Closure(s, step)
  BY DEF Closure

\* A closure goes where its members go.
LEMMA ClosureGoesOn ==
    ASSUME NEW step, NEW s,
           \A y \in DOMAIN step : step[y] \subseteq DOMAIN step,
           NEW x \in Closure(s, step)
    PROVE  step[x] \subseteq Closure(s, step) /\ x \in DOMAIN step
  BY DEF Closure

\* A closure is in every set that has what it starts from and goes where its members go.
LEMMA ClosureIsLeast ==
    ASSUME NEW step, NEW s, NEW t \in SUBSET DOMAIN step,
           s \subseteq t, \A y \in t : step[y] \subseteq t
    PROVE  Closure(s, step) \subseteq t
  BY DEF Closure

-----------------------------------------------------------------------------
(* What a module declares, with what is laid over it.                        *)

\* A sequence is one of its own entries, and of anything that has them.
LEMMA OwnEntries ==
    ASSUME NEW S
    PROVE  \A s : s \in Seq(S) <=> IsSequence(s) /\ ToSet(s) \subseteq S
  <1>1. ASSUME NEW s \in Seq(S) PROVE IsSequence(s) /\ ToSet(s) \subseteq S
    <2>1. Len(s) \in Nat /\ s \in [1..Len(s) -> S] /\ DOMAIN s = 1..Len(s)
      BY LenProperties
    <2>2. s \in [1..Len(s) -> ToSet(s)]
      BY <2>1 DEF ToSet
    <2> QED
      <3>1. s \in Seq(ToSet(s))
        BY <2>1, <2>2, SeqDef
      <3>2. ToSet(s) \subseteq S
        BY <2>1 DEF ToSet
      <3> QED
        BY <3>1, <3>2 DEF IsSequence
  <1>2. ASSUME NEW s, IsSequence(s), ToSet(s) \subseteq S PROVE s \in Seq(S)
    BY <1>2, SeqMonotonic DEF IsSequence
  <1> QED
    BY <1>1, <1>2

LEMMA ConcatIsSeq ==
    ASSUME NEW S, NEW s \in Seq(S), NEW t \in Seq(S)
    PROVE  /\ s \o t \in Seq(S)
           /\ ToSet(s \o t) = ToSet(s) \cup ToSet(t)
  <1>1. s \o t \in Seq(S) /\ Len(s \o t) = Len(s) + Len(t)
    OBVIOUS
  <1>2. ASSUME NEW x \in ToSet(s \o t) PROVE x \in ToSet(s) \cup ToSet(t)
    <2>1. PICK i \in 1..(Len(s) + Len(t)) : x = (s \o t)[i]
      BY DEF ToSet
    <2>2. CASE i <= Len(s)
      BY <2>1, <2>2 DEF ToSet
    <2>3. CASE i > Len(s)
      BY <2>1, <2>3 DEF ToSet
    <2> QED
      BY <2>2, <2>3
  <1>3. ASSUME NEW i \in DOMAIN s PROVE s[i] \in ToSet(s \o t)
    <2>1. i \in DOMAIN (s \o t) /\ (s \o t)[i] = s[i]
      OBVIOUS
    <2> QED
      BY <2>1 DEF ToSet
  <1>4. ASSUME NEW i \in DOMAIN t PROVE t[i] \in ToSet(s \o t)
    <2>1. Len(s) + i \in DOMAIN (s \o t) /\ (s \o t)[Len(s) + i] = t[i]
      OBVIOUS
    <2> QED
      BY <2>1 DEF ToSet
  <1> QED
    BY <1>1, <1>2, <1>3, <1>4 DEF ToSet

\* What one sequence has and what the next has.
LEMMA ConcatOfAny ==
    ASSUME NEW s, NEW t, IsSequence(s), IsSequence(t)
    PROVE  IsSequence(s \o t) /\ ToSet(s \o t) = ToSet(s) \cup ToSet(t)
  <1> DEFINE S == ToSet(s) \cup ToSet(t)
  <1>1. s \in Seq(S) /\ t \in Seq(S)
    BY OwnEntries
  <1>2. s \o t \in Seq(S) /\ ToSet(s \o t) = ToSet(s) \cup ToSet(t)
    <2> HIDE DEF S
    <2> QED
      BY <1>1, ConcatIsSeq
  <1>3. IsSequence(s \o t)
    <2> HIDE DEF S
    <2> QED
      BY <1>2, OwnEntries
  <1> QED
    BY <1>2, <1>3

\* What is picked of a sequence is a sequence of its entries.
LEMMA PickedOfAny ==
    ASSUME NEW s, IsSequence(s), NEW places \in SUBSET DOMAIN s
    PROVE  IsSequence(Picked(s, places)) /\ ToSet(Picked(s, places)) \subseteq ToSet(s)
  <1>1. s \in Seq(ToSet(s))
    BY DEF IsSequence
  <1>2. {s[i] : i \in places} \subseteq ToSet(s)
    BY DEF ToSet
  <1>3. Picked(s, places) \in Seq(ToSet(s)) /\ ToSet(Picked(s, places)) \subseteq ToSet(s)
    BY <1>1, <1>2, PickedIsSeq
  <1> QED
    BY <1>3, OwnEntries

\* What a module declares and what is laid over it make a declaration again.
LEMMA OverlaidIsMetadata ==
    ASSUME NEW b, NEW o, IsMetadata(b), IsMetadata(o)
    PROVE  IsMetadata(Overlaid(b, o))
  <1> DEFINE d == Overlaid(b, o)
  <1>1. /\ IsSequence(b.providers) /\ IsSequence(o.providers)
        /\ IsSequence(b.controllers) /\ IsSequence(o.controllers)
        /\ b.imports \in Seq(Modules) /\ o.imports \in Seq(Modules)
        /\ b.exports \in Seq(Tokens) /\ o.exports \in Seq(Tokens)
        /\ b.isGlobal \in BOOLEAN /\ o.isGlobal \in BOOLEAN
    BY DEF IsMetadata
  <1>2. ASSUME NEW s, NEW t, IsSequence(s), IsSequence(t)
        PROVE  /\ IsSequence(OverlaidEntries(s, t))
               /\ ToSet(OverlaidEntries(s, t)) \subseteq ToSet(s) \cup ToSet(t)
    <2> DEFINE places == {i \in DOMAIN t : t[i] \notin ToSet(s)}
    <2>1. IsSequence(Picked(t, places)) /\ ToSet(Picked(t, places)) \subseteq ToSet(t)
      BY <1>2, PickedOfAny
    <2> QED
      BY <1>2, <2>1, ConcatOfAny DEF OverlaidEntries
  <1>3. d.imports \in Seq(Modules)
    <2>1. IsSequence(b.imports) /\ IsSequence(o.imports) /\ ToSet(b.imports) \cup ToSet(o.imports) \subseteq Modules
      BY <1>1, OwnEntries
    <2>2. d.imports = OverlaidEntries(b.imports, o.imports)
      BY DEF Overlaid
    <2> QED
      BY <1>2, <2>1, <2>2, OwnEntries
  <1>4. IsSequence(d.controllers) /\ ToSet(d.controllers) \subseteq ToSet(b.controllers) \cup ToSet(o.controllers)
    BY <1>1, <1>2 DEF Overlaid
  <1>5. IsSequence(d.providers) /\ ToSet(d.providers) \subseteq ToSet(b.providers) \cup ToSet(o.providers)
    <2> DEFINE kept(s) == {i \in DOMAIN s :
                  ~(Replaceable(s[i]) /\ \E e \in ToSet(o.providers) : Replaceable(e) /\ e.token = s[i].token)}
    <2>1. d.providers = Picked(b.providers, kept(b.providers)) \o o.providers
      BY DEF Overlaid, OverlaidProviders
    <2>2. kept(b.providers) \in SUBSET DOMAIN b.providers
      OBVIOUS
    <2> HIDE DEF kept
    <2>3. /\ IsSequence(Picked(b.providers, kept(b.providers)))
          /\ ToSet(Picked(b.providers, kept(b.providers))) \subseteq ToSet(b.providers)
      BY <1>1, <2>2, PickedOfAny
    <2> QED
      BY <1>1, <2>1, <2>3, ConcatOfAny
  <1>6. d.exports \in Seq(Tokens)
    <2> DEFINE all == b.exports \o o.exports
               firsts == {i \in DOMAIN all : ~\E j \in 1..(i - 1) : Spelled[all[j]] = Spelled[all[i]]}
    <2>1. d.exports = Picked(all, firsts)
      BY DEF Overlaid, OverlaidExports
    <2>2. all \in Seq(Tokens)
      BY <1>1
    <2>3. firsts \in SUBSET DOMAIN all
      OBVIOUS
    <2> HIDE DEF firsts, all
    <2> QED
      BY <2>1, <2>2, <2>3, PickedIsSeq
  <1>7. d.isGlobal \in BOOLEAN
    BY <1>1 DEF Overlaid
  <1>8. \A n \in DOMAIN d.providers : IsProvided(d.providers[n])
    <2>1. \A e \in ToSet(b.providers) \cup ToSet(o.providers) : IsProvided(e)
      BY DEF IsMetadata, ToSet
    <2> HIDE DEF d
    <2> QED
      BY <1>5, <2>1 DEF ToSet
  <1>9. \A n \in DOMAIN d.controllers : IsController(d.controllers[n])
    <2>1. \A e \in ToSet(b.controllers) \cup ToSet(o.controllers) : IsController(e)
      BY DEF IsMetadata, ToSet
    <2> HIDE DEF d
    <2> QED
      BY <1>4, <2>1 DEF ToSet
  <1> HIDE DEF d
  <1>10. IsMetadata(d)
    BY <1>3, <1>4, <1>5, <1>6, <1>7, <1>8, <1>9 DEF IsMetadata
  <1> QED
    BY <1>10 DEF d

\* What is compiled of a module that is declared is a declaration.
LEMMA ExpandedIsMetadata ==
    ASSUME IsApplication(app), NEW m \in Modules
    PROVE  IsMetadata(Expanded(m))
  <1>1. IsMetadata(app.modules[m]) /\ (m \in DOMAIN app.dynamic => IsMetadata(app.dynamic[m]))
    BY DEF IsApplication
  <1> QED
    BY <1>1, OverlaidIsMetadata DEF Expanded

-----------------------------------------------------------------------------
(* The walk over the imports: the inductive invariant.                       *)

ImportsOf(m) == Expanded(m).imports

WalkTypes ==
    /\ IsApplication(app)
    /\ ordered \in Seq(Modules) /\ left \in Seq(Modules)
    /\ path \in Seq([module : Modules, next : Nat])
    /\ DOMAIN compiled = ToSet(ordered)
    /\ \A m \in ToSet(ordered) : compiled[m] = Compiled(m)

\* No module is visited twice, left twice or on the path twice.
VisitedOnce ==
    /\ IsInjective(ordered) /\ IsInjective(left)
    /\ \A i, j \in DOMAIN path : path[i].module = path[j].module => i = j

\* A module that was visited has been left, unless it is on the path.
LeftOrOnPath ==
    /\ \A m \in Modules : m \in ToSet(ordered) <=> Visited(m) \/ OnPath(m)
    /\ \A m \in Modules : ~(Visited(m) /\ OnPath(m))

\* A module is left after everything it imports.
LeftInOrder ==
    \A n \in DOMAIN left : \A m \in DeclaredImports(left[n]) : \E k \in 1..(n - 1) : left[k] = m

\* The imports before a module's next have been left, but for the last of them where its
\* visit is under way.
FramesOK ==
    \A i \in DOMAIN path :
        LET f == path[i] IN
        /\ f.next \in 1..(Len(ImportsOf(f.module)) + 1)
        /\ \A k \in 1..(f.next - 1) :
              Visited(ImportsOf(f.module)[k]) \/ (i < Len(path) /\ k = f.next - 1)
        /\ i < Len(path) => f.next > 1 /\ ImportsOf(f.module)[f.next - 1] = path[i + 1].module

\* Imports lead from the root to whatever is visited, and down the path.
Connected ==
    /\ ToSet(ordered) \subseteq ReachedFromRoot
    /\ \A i, j \in DOMAIN path : i < j => path[j].module \in Below(path[i].module)

\* A walk begins with nothing visited and ends with nothing on the path.
BeginsAndEnds ==
    /\ stage = "discovering" /\ path = <<>> => ordered = <<>>
    /\ stage \notin {"discovering", "refused"} => path = <<>>
    /\ ordered # <<>> => Root \in ToSet(ordered)
    /\ stage \notin {"discovering", "refused"} => ordered # <<>>
    /\ reason = "cycle" => Cyclic

WalkInv ==
    WalkTypes /\ VisitedOnce /\ LeftOrOnPath /\ LeftInOrder /\ FramesOK /\ Connected /\ BeginsAndEnds

-----------------------------------------------------------------------------
(* The walk over the imports is an invariant of the application's start.     *)

\* What is declared does not change.
LEMMA SameDeclared ==
    ASSUME app' = app
    PROVE  /\ \A m : /\ Expanded(m)' = Expanded(m) /\ ImportsOf(m)' = ImportsOf(m)
                     /\ DeclaredImports(m)' = DeclaredImports(m)
                     /\ Below(m)' = Below(m) /\ Compiled(m)' = Compiled(m)
           /\ ReachedFromRoot' = ReachedFromRoot /\ Cyclic' = Cyclic
           /\ IsApplication(app)' <=> IsApplication(app)
  <1>1. \A m : Expanded(m)' = Expanded(m)
    BY DEF Expanded
  <1>2. \A m : ImportsOf(m)' = ImportsOf(m) /\ DeclaredImports(m)' = DeclaredImports(m)
    BY <1>1 DEF ImportsOf, DeclaredImports
  <1>3. ImportGraph' = ImportGraph
    BY <1>2 DEF ImportGraph
  <1>4. \A m : Below(m)' = Below(m)
    BY <1>2, <1>3 DEF Below
  <1>5. ReachedFromRoot' = ReachedFromRoot
    BY <1>3 DEF ReachedFromRoot
  <1>6. Cyclic' = Cyclic
    BY <1>4, <1>5 DEF Cyclic
  <1>7. \A m : Compiled(m)' = Compiled(m)
    BY <1>1 DEF Compiled
  <1> QED
    BY <1>1, <1>2, <1>4, <1>5, <1>6, <1>7

\* The imports of a declared module are modules.
LEMMA ImportsAreModules ==
    ASSUME IsApplication(app), NEW m \in Modules
    PROVE  /\ ImportsOf(m) \in Seq(Modules) /\ DeclaredImports(m) \subseteq Modules
           /\ DeclaredImports(m) = {ImportsOf(m)[k] : k \in 1..Len(ImportsOf(m))}
  <1>1. ImportsOf(m) \in Seq(Modules)
    BY ExpandedIsMetadata DEF IsMetadata, ImportsOf
  <1> QED
    BY <1>1 DEF DeclaredImports, ImportsOf, ToSet

\* From the root, and below a module, all imports are followed.
LEMMA FollowsImports ==
    ASSUME IsApplication(app)
    PROVE  /\ ReachedFromRoot \subseteq Modules /\ Root \in ReachedFromRoot
           /\ \A m \in ReachedFromRoot : DeclaredImports(m) \subseteq ReachedFromRoot
           /\ \A m \in Modules : Below(m) \subseteq Modules /\ DeclaredImports(m) \subseteq Below(m)
           /\ \A m \in Modules : \A k \in Below(m) : DeclaredImports(k) \subseteq Below(m)
  <1>1. DOMAIN ImportGraph = Modules /\ \A m \in Modules : ImportGraph[m] = DeclaredImports(m)
    BY DEF ImportGraph
  <1>2. \A m \in DOMAIN ImportGraph : ImportGraph[m] \subseteq DOMAIN ImportGraph
    BY <1>1, ImportsAreModules
  <1>3. \A s : Closure(s, ImportGraph) \subseteq Modules
    BY <1>1 DEF Closure
  <1>4. \A s : \A m \in Closure(s, ImportGraph) : DeclaredImports(m) \subseteq Closure(s, ImportGraph)
    <2> SUFFICES ASSUME NEW s, NEW m \in Closure(s, ImportGraph)
                 PROVE  DeclaredImports(m) \subseteq Closure(s, ImportGraph)
      OBVIOUS
    <2>1. ImportGraph[m] \subseteq Closure(s, ImportGraph) /\ m \in DOMAIN ImportGraph
      BY <1>2, ClosureGoesOn
    <2> QED
      BY <1>1, <2>1
  <1>5. Root \in ReachedFromRoot
    <2>1. {Root} \in SUBSET DOMAIN ImportGraph
      BY <1>1, AssemblyAssumption
    <2> QED
      BY <2>1, ClosureHas DEF ReachedFromRoot
  <1>6. \A m \in Modules : DeclaredImports(m) \subseteq Below(m)
    <2> SUFFICES ASSUME NEW m \in Modules PROVE DeclaredImports(m) \subseteq Below(m)
      OBVIOUS
    <2>1. DeclaredImports(m) \in SUBSET DOMAIN ImportGraph
      BY <1>1, ImportsAreModules
    <2> QED
      BY <2>1, ClosureHas DEF Below
  <1> QED
    BY <1>3, <1>4, <1>5, <1>6 DEF ReachedFromRoot, Below

LEMMA WalkStarts ==
    ASSUME Init
    PROVE  WalkInv
  <1>1. IsApplication(app)
    BY AssemblyAssumption DEF Init, AssemblyInit
  <1>2. /\ ordered = <<>> /\ left = <<>> /\ path = <<>> /\ compiled = Nothing
        /\ stage = "discovering" /\ reason = "none"
    BY DEF Init, AssemblyInit
  <1>3. DOMAIN compiled = {} /\ ToSet(ordered) = {} /\ ToSet(left) = {}
    BY <1>2 DEF Nothing, ToSet
  <1>4. WalkTypes
    BY <1>1, <1>2, <1>3 DEF WalkTypes
  <1>5. VisitedOnce
    BY <1>2 DEF VisitedOnce, IsInjective
  <1>6. LeftOrOnPath
    BY <1>2, <1>3 DEF LeftOrOnPath, Visited, OnPath
  <1>7. LeftInOrder /\ FramesOK
    BY <1>2 DEF LeftInOrder, FramesOK
  <1>8. Connected
    BY <1>2, <1>3 DEF Connected
  <1>9. BeginsAndEnds
    BY <1>2 DEF BeginsAndEnds
  <1> QED
    BY <1>4, <1>5, <1>6, <1>7, <1>8, <1>9 DEF WalkInv

\* The module whose import is looked at, and how its frame moves on.
LEMMA TopOfPath ==
    ASSUME WalkInv, path # <<>>, NEW m, Importing(m)
    PROVE  LET n == Len(path) f == path[n] IN
           /\ n \in Nat /\ n >= 1 /\ n \in DOMAIN path
           /\ f.module \in Modules /\ OnPath(f.module)
           /\ f.next \in 1..Len(ImportsOf(f.module))
           /\ m = ImportsOf(f.module)[f.next]
           /\ m \in DeclaredImports(f.module) /\ m \in Modules
           /\ Advanced \in Seq([module : Modules, next : Nat]) /\ Len(Advanced) = n
           /\ \A k \in 1..n : Advanced[k].module = path[k].module
           /\ \A k \in 1..(n - 1) : Advanced[k].next = path[k].next
           /\ Advanced[n].next = f.next + 1
  <1> DEFINE n == Len(path)
             f == path[n]
  <1>1. /\ path \in Seq([module : Modules, next : Nat]) /\ IsApplication(app)
        /\ \A k \in ToSet(ordered) : compiled[k] = Compiled(k)
    BY DEF WalkInv, WalkTypes
  <1>2. n \in Nat /\ n >= 1 /\ n \in DOMAIN path /\ f \in [module : Modules, next : Nat]
    <2>1. n \in Nat /\ n >= 1 /\ DOMAIN path = 1..n
      BY <1>1
    <2>2. n \in 1..n
      BY <2>1
    <2>3. path[n] \in [module : Modules, next : Nat]
      BY <1>1, <2>2, ElementOfSeq
    <2> QED
      BY <2>1, <2>2, <2>3
  <1>3. OnPath(f.module) /\ f.module \in ToSet(ordered)
    BY <1>2 DEF OnPath, WalkInv, LeftOrOnPath
  <1>4. compiled[f.module].imports = ImportsOf(f.module)
    <2>1. Compiled(f.module).imports = Expanded(f.module).imports
      BY DEF Compiled
    <2> QED
      BY <1>1, <1>3, <2>1 DEF ImportsOf
  <1>5. Here = f
    BY DEF Here, Last
  <1>6. f.next <= Len(ImportsOf(f.module)) /\ m = ImportsOf(f.module)[f.next]
    BY <1>4, <1>5 DEF Importing
  <1>7. f.next \in 1..(Len(ImportsOf(f.module)) + 1)
    BY <1>2 DEF WalkInv, FramesOK
  <1>8. ImportsOf(f.module) \in Seq(Modules)
    BY <1>1, <1>2, ImportsAreModules
  <1>9. f.next \in 1..Len(ImportsOf(f.module))
    BY <1>6, <1>7, <1>8
  <1>10. m \in DeclaredImports(f.module) /\ m \in Modules
    BY <1>1, <1>2, <1>6, <1>9, ImportsAreModules
  <1> DEFINE e == [f EXCEPT !.next = @ + 1]
  <1>11. Advanced = [path EXCEPT ![n] = e]
    BY DEF Advanced
  <1>12. e \in [module : Modules, next : Nat] /\ e.module = f.module /\ e.next = f.next + 1
    BY <1>2
  <1> HIDE DEF e
  <1>13. /\ Advanced \in Seq([module : Modules, next : Nat]) /\ Len(Advanced) = n
         /\ \A k \in 1..n : Advanced[k] = IF k = n THEN e ELSE path[k]
    BY <1>1, <1>2, <1>11, <1>12, ExceptSeq
  <1>14. /\ \A k \in 1..n : Advanced[k].module = path[k].module
         /\ \A k \in 1..(n - 1) : Advanced[k].next = path[k].next
         /\ Advanced[n].next = f.next + 1
    BY <1>2, <1>12, <1>13
  <1> QED
    BY <1>2, <1>3, <1>6, <1>9, <1>10, <1>13, <1>14

LEMMA WalkSkips ==
    ASSUME WalkInv, NEW m, Skip(m)
    PROVE  WalkInv'
  <1> DEFINE n == Len(path)
             f == path[n]
  <1>1. /\ Importing(m) /\ Visited(m) /\ path' = Advanced
        /\ app' = app /\ stage' = stage /\ reason' = reason /\ stage = "discovering"
        /\ ordered' = ordered /\ left' = left /\ compiled' = compiled
    BY DEF Skip, Importing
  <1>2. path # <<>>
    <2>1. SUFFICES ASSUME path = <<>> PROVE FALSE
      OBVIOUS
    <2>2. ordered = <<>>
      BY <1>1, <2>1 DEF WalkInv, BeginsAndEnds
    <2>3. ToSet(ordered) = {}
      BY <2>2 DEF ToSet
    <2>4. m = Root
      BY <1>1, <2>1 DEF Importing
    <2> QED
      BY <1>1, <2>3, <2>4, AssemblyAssumption DEF WalkInv, LeftOrOnPath
  <1>3. /\ n \in Nat /\ n >= 1 /\ n \in DOMAIN path
        /\ f.module \in Modules /\ f.next \in 1..Len(ImportsOf(f.module))
        /\ m = ImportsOf(f.module)[f.next]
        /\ Advanced \in Seq([module : Modules, next : Nat]) /\ Len(Advanced) = n
        /\ \A k \in 1..n : Advanced[k].module = path[k].module
        /\ \A k \in 1..(n - 1) : Advanced[k].next = path[k].next
        /\ Advanced[n].next = f.next + 1
    BY <1>1, <1>2, TopOfPath
  <1>4. /\ path \in Seq([module : Modules, next : Nat]) /\ IsApplication(app)
        /\ DOMAIN path = 1..n /\ DOMAIN path' = 1..n /\ Len(path') = n
    BY <1>1, <1>3 DEF WalkInv, WalkTypes
  <1>5. \A k : (OnPath(k)' <=> OnPath(k)) /\ (Visited(k)' <=> Visited(k))
    BY <1>1, <1>3, <1>4 DEF OnPath, Visited
  <1>6. WalkTypes'
    BY <1>1, <1>3, SameDeclared DEF WalkInv, WalkTypes
  <1>7. VisitedOnce'
    <2>1. \A j \in DOMAIN path' : j \in DOMAIN path /\ path'[j].module = path[j].module
      BY <1>1, <1>3, <1>4
    <2>2. VisitedOnce
      BY DEF WalkInv
    <2> QED
      BY <1>1, <2>1, <2>2 DEF VisitedOnce
  <1>8. LeftOrOnPath'
    BY <1>1, <1>5 DEF WalkInv, LeftOrOnPath
  <1>9. LeftInOrder'
    BY <1>1, SameDeclared DEF WalkInv, LeftInOrder
  <1>10. FramesOK'
    <2>1. SUFFICES ASSUME NEW k \in 1..n
                   PROVE  LET g == path'[k] IN
                          /\ g.next \in 1..(Len(ImportsOf(g.module)) + 1)
                          /\ \A j \in 1..(g.next - 1) :
                                Visited(ImportsOf(g.module)[j]) \/ (k < n /\ j = g.next - 1)
                          /\ k < n => g.next > 1 /\ ImportsOf(g.module)[g.next - 1] = path'[k + 1].module
      BY <1>1, <1>4, <1>5, SameDeclared DEF FramesOK
    <2>2. CASE k < n
      <3>1. k \in 1..(n - 1) /\ k + 1 \in 1..n
        BY <1>3, <2>2
      <3>2. /\ path'[k].module = path[k].module /\ path'[k].next = path[k].next
            /\ path'[k + 1].module = path[k + 1].module
        BY <1>1, <1>3, <3>1
      <3> QED
        BY <1>4, <2>2, <3>2 DEF WalkInv, FramesOK
    <2>3. CASE k = n
      <3>1. path'[k].module = f.module /\ path'[k].next = f.next + 1
        BY <1>1, <1>3, <2>3
      <3>2. \A j \in 1..(f.next - 1) : Visited(ImportsOf(f.module)[j])
        <4>1. FramesOK /\ n \in DOMAIN path /\ ~(n < Len(path))
          BY <1>3 DEF WalkInv
        <4> QED
          BY <4>1 DEF FramesOK
      <3>3. ImportsOf(f.module) \in Seq(Modules)
        BY <1>3, <1>4, ImportsAreModules
      <3>4. f.next + 1 \in 1..(Len(ImportsOf(f.module)) + 1)
        BY <1>3, <3>3
      <3>5. \A j \in 1..(f.next + 1 - 1) : j \in 1..(f.next - 1) \/ j = f.next
        BY <1>3
      <3> HIDE DEF f
      <3> QED
        BY <1>1, <1>3, <2>3, <3>1, <3>2, <3>4, <3>5
    <2>4. k < n \/ k = n
      BY <1>3
    <2> QED
      BY <2>2, <2>3, <2>4
  <1>11. Connected'
    <2>1. \A j \in DOMAIN path' : j \in DOMAIN path /\ path'[j].module = path[j].module
      BY <1>1, <1>3, <1>4
    <2>2. Connected
      BY DEF WalkInv
    <2> QED
      BY <1>1, <2>1, <2>2, SameDeclared DEF Connected
  <1>12. BeginsAndEnds'
    <2>1. path' # <<>>
      BY <1>3, <1>4
    <2> QED
      BY <1>1, <2>1, SameDeclared DEF WalkInv, BeginsAndEnds
  <1> QED
    BY <1>6, <1>7, <1>8, <1>9, <1>10, <1>11, <1>12 DEF WalkInv

LEMMA WalkRests ==
    ASSUME WalkInv, UNCHANGED <<app, path, ordered, left, compiled>>,
           stage' = "refused" \/ (stage \notin {"discovering", "refused"} /\ stage' # "discovering"),
           reason' = "cycle" => reason = "cycle" \/ Cyclic
    PROVE  WalkInv'
  <1>1. WalkTypes'
    BY SameDeclared DEF WalkInv, WalkTypes
  <1>2. VisitedOnce'
    BY DEF WalkInv, VisitedOnce
  <1>3. LeftOrOnPath'
    BY DEF WalkInv, LeftOrOnPath, Visited, OnPath
  <1>4. LeftInOrder'
    BY SameDeclared DEF WalkInv, LeftInOrder
  <1>5. FramesOK'
    BY SameDeclared DEF WalkInv, FramesOK, Visited
  <1>6. Connected'
    BY SameDeclared DEF WalkInv, Connected
  <1>7. BeginsAndEnds'
    BY SameDeclared DEF WalkInv, BeginsAndEnds
  <1> QED
    BY <1>1, <1>2, <1>3, <1>4, <1>5, <1>6, <1>7 DEF WalkInv

\* A sequence that grows by one entry.
LEMMA Grows ==
    ASSUME NEW S, NEW s \in Seq(S), NEW e \in S
    PROVE  /\ Append(s, e) \in Seq(S) /\ ToSet(Append(s, e)) = ToSet(s) \cup {e}
           /\ Len(Append(s, e)) = Len(s) + 1
           /\ DOMAIN Append(s, e) = 1..(Len(s) + 1) /\ DOMAIN s = 1..Len(s)
           /\ \A k \in 1..Len(s) : Append(s, e)[k] = s[k]
           /\ Append(s, e)[Len(s) + 1] = e
           /\ IsInjective(s) /\ e \notin ToSet(s) => IsInjective(Append(s, e))
  <1> DEFINE t == Append(s, e)
             n == Len(s)
  <1>1. /\ t \in Seq(S) /\ Len(t) = n + 1 /\ n \in Nat
        /\ \A k \in 1..n : t[k] = s[k]
        /\ t[n + 1] = e
    BY AppendProperties, LenProperties
  <1>2. DOMAIN t = 1..(n + 1) /\ DOMAIN s = 1..n
    BY <1>1, LenProperties
  <1> HIDE DEF t
  <1>3. \A k \in 1..(n + 1) : k \in 1..n \/ k = n + 1
    BY <1>1
  <1>4. 1..n \subseteq 1..(n + 1) /\ n + 1 \in 1..(n + 1) /\ n + 1 \notin 1..n
    BY <1>1
  <1> HIDE DEF n
  <1>5. ToSet(t) = ToSet(s) \cup {e}
    BY <1>1, <1>2, <1>3, <1>4 DEF ToSet
  <1>6. ASSUME IsInjective(s), e \notin ToSet(s) PROVE IsInjective(t)
    <2>1. \A k \in 1..n : s[k] # e
      BY <1>2, <1>6 DEF ToSet
    <2>2. \A j, k \in 1..n : s[j] = s[k] => j = k
      BY <1>2, <1>6 DEF IsInjective
    <2>3. ASSUME NEW j \in 1..(n + 1), NEW k \in 1..(n + 1), t[j] = t[k] PROVE j = k
      <3>1. CASE j \in 1..n /\ k \in 1..n
        BY <1>1, <2>2, <2>3, <3>1
      <3>2. CASE j = n + 1 \/ k = n + 1
        BY <1>1, <1>3, <2>1, <2>3, <3>2
      <3> QED
        BY <1>3, <3>1, <3>2
    <2> QED
      BY <1>2, <2>3 DEF IsInjective
  <1> QED
    BY <1>1, <1>2, <1>5, <1>6 DEF t, n

LEMMA WalkEnters ==
    ASSUME WalkInv, NEW m, Enter(m)
    PROVE  WalkInv'
  <1> DEFINE n == Len(path)
             f == path[n]
  <1>1. Importing(m) /\ ~Visited(m) /\ ~OnPath(m) /\ stage = "discovering" /\ app' = app
    BY DEF Enter, Importing, Refuse
  <1>2. CASE Invalid(Expanded(m))
    <2>1. /\ UNCHANGED <<app, path, ordered, left, compiled>>
          /\ stage' = "refused" /\ reason' = "declaration"
      BY <1>2 DEF Enter, Refuse, graphVars
    <2> QED
      BY <2>1, WalkRests
  <1>3. CASE ~Invalid(Expanded(m))
    <2>1. /\ path' = Append(Advanced, Visit(m)) /\ ordered' = Append(ordered, m)
          /\ compiled' = With(compiled, m, Compiled(m))
          /\ stage' = stage /\ reason' = reason /\ left' = left
      BY <1>3 DEF Enter
    <2>2. /\ path \in Seq([module : Modules, next : Nat]) /\ IsApplication(app)
          /\ n \in Nat /\ DOMAIN path = 1..n
          /\ ordered \in Seq(Modules) /\ left \in Seq(Modules)
          /\ DOMAIN compiled = ToSet(ordered)
          /\ \A k \in ToSet(ordered) : compiled[k] = Compiled(k)
      BY DEF WalkInv, WalkTypes
    <2>3. CASE path = <<>>
      <3>1. m = Root /\ m \in Modules
        BY <1>1, <2>3, AssemblyAssumption DEF Importing
      <3>2. n = 0 /\ ordered = <<>> /\ ToSet(ordered) = {}
        BY <1>1, <2>3 DEF WalkInv, BeginsAndEnds, ToSet
      <3>3. ToSet(left) = {} /\ left = <<>>
        <4>1. ToSet(left) \subseteq Modules
          BY <2>2, OwnEntries
        <4>2. ToSet(left) = {}
          BY <3>2, <4>1 DEF WalkInv, LeftOrOnPath, Visited
        <4>3. Len(left) \in Nat /\ \A k \in 1..Len(left) : left[k] \in ToSet(left)
          BY <2>2 DEF ToSet
        <4> QED
          BY <2>2, <4>2, <4>3, EmptySeq
      <3>4. Advanced = <<>> /\ path' = <<Visit(m)>>
        BY <2>1, <2>3 DEF Advanced
      <3>5. ordered' = <<m>> /\ ToSet(ordered') = {m}
        BY <2>1, <3>2 DEF ToSet
      <3>6. Visit(m) \in [module : Modules, next : Nat] /\ Visit(m).module = m /\ Visit(m).next = 1
        BY <3>1 DEF Visit
      <3>7. \A k \in DOMAIN path' : k = 1
        BY <3>4
      <3>8. \A k : (OnPath(k)' <=> k = m) /\ ~Visited(k)'
        BY <2>1, <3>3, <3>4, <3>6 DEF OnPath, Visited
      <3>9. WalkTypes'
        <4>1. DOMAIN compiled' = {m} /\ compiled'[m] = Compiled(m)
          BY <2>1, <2>2, <3>2 DEF With
        <4> QED
          BY <1>1, <2>1, <2>2, <3>1, <3>4, <3>5, <3>6, <4>1, SameDeclared DEF WalkTypes
      <3>10. VisitedOnce'
        BY <2>1, <3>3, <3>5, <3>7 DEF VisitedOnce, IsInjective
      <3>11. LeftOrOnPath'
        BY <3>5, <3>8 DEF LeftOrOnPath
      <3>12. LeftInOrder'
        BY <2>1, <3>3 DEF LeftInOrder
      <3>13. FramesOK'
        <4>1. Len(ImportsOf(m)) \in Nat
          BY <2>2, <3>1, ImportsAreModules
        <4>2. Len(path') = 1 /\ path'[1] = Visit(m)
          BY <3>4
        <4> QED
          BY <1>1, <3>6, <3>7, <4>1, <4>2, SameDeclared DEF FramesOK
      <3>14. Connected'
        <4>1. Root \in ReachedFromRoot
          BY <2>2, FollowsImports
        <4>2. ToSet(ordered)' \subseteq ReachedFromRoot'
          BY <1>1, <3>1, <3>5, <4>1, SameDeclared
        <4> QED
          BY <3>7, <4>2 DEF Connected
      <3>15. BeginsAndEnds'
        BY <1>1, <2>1, <3>1, <3>4, <3>5, SameDeclared DEF WalkInv, BeginsAndEnds
      <3> QED
        BY <3>9, <3>10, <3>11, <3>12, <3>13, <3>14, <3>15 DEF WalkInv
    <2>4. CASE path # <<>>
      <3>1. /\ n >= 1 /\ n \in DOMAIN path
            /\ f.module \in Modules /\ OnPath(f.module) /\ f.next \in 1..Len(ImportsOf(f.module))
            /\ m = ImportsOf(f.module)[f.next] /\ m \in DeclaredImports(f.module) /\ m \in Modules
            /\ Advanced \in Seq([module : Modules, next : Nat]) /\ Len(Advanced) = n
            /\ \A k \in 1..n : Advanced[k].module = path[k].module
            /\ \A k \in 1..(n - 1) : Advanced[k].next = path[k].next
            /\ Advanced[n].next = f.next + 1
        BY <1>1, <2>4, TopOfPath
      <3>2. Visit(m) \in [module : Modules, next : Nat] /\ Visit(m).module = m /\ Visit(m).next = 1
        BY <3>1 DEF Visit
      <3>3. /\ path' \in Seq([module : Modules, next : Nat]) /\ Len(path') = n + 1
            /\ DOMAIN path' = 1..(n + 1)
            /\ \A k \in 1..n : path'[k] = Advanced[k]
            /\ path'[n + 1] = Visit(m)
        BY <2>1, <3>1, <3>2, Grows
      <3>4. /\ \A k \in 1..(n + 1) : k \in 1..n \/ k = n + 1
            /\ \A k \in 1..n : k \in 1..(n - 1) \/ k = n
            /\ 1..n \subseteq 1..(n + 1) /\ n + 1 \in 1..(n + 1) /\ n \in 1..n
        BY <2>2, <3>1
      <3>5. /\ \A k \in 1..n : path'[k].module = path[k].module
            /\ \A k \in 1..(n - 1) : path'[k].next = path[k].next
            /\ path'[n].next = f.next + 1
            /\ path'[n + 1].module = m /\ path'[n + 1].next = 1
        <4>1. \A k \in 1..(n - 1) : k \in 1..n
          BY <2>2
        <4> QED
          BY <3>1, <3>2, <3>3, <3>4, <4>1
      <3>6. \A k : (OnPath(k)' <=> OnPath(k) \/ k = m) /\ (Visited(k)' <=> Visited(k))
        BY <2>1, <2>2, <3>3, <3>4, <3>5 DEF OnPath, Visited
      <3>7. m \notin ToSet(ordered)
        BY <1>1, <3>1 DEF WalkInv, LeftOrOnPath
      <3>8. /\ ordered' \in Seq(Modules) /\ ToSet(ordered') = ToSet(ordered) \cup {m}
            /\ IsInjective(ordered')
        BY <2>1, <2>2, <3>1, <3>7, Grows DEF WalkInv, VisitedOnce
      <3>9. WalkTypes'
        <4>1. DOMAIN compiled' = ToSet(ordered')
          BY <2>1, <2>2, <3>8 DEF With
        <4>2. \A k \in ToSet(ordered') : compiled'[k] = Compiled(k)
          BY <2>1, <2>2, <3>8 DEF With
        <4> QED
          BY <1>1, <2>1, <2>2, <3>3, <3>8, <4>1, <4>2, SameDeclared DEF WalkTypes
      <3>10. VisitedOnce'
        <4>1. \A k \in 1..n : path[k].module # m
          BY <1>1, <2>2 DEF OnPath
        <4>2. \A j, k \in 1..n : path[j].module = path[k].module => j = k
          BY <2>2 DEF WalkInv, VisitedOnce
        <4>3. ASSUME NEW j \in 1..(n + 1), NEW k \in 1..(n + 1), path'[j].module = path'[k].module
              PROVE  j = k
          <5>1. CASE j \in 1..n /\ k \in 1..n
            BY <3>5, <4>2, <4>3, <5>1
          <5>2. CASE j = n + 1 \/ k = n + 1
            BY <3>4, <3>5, <4>1, <4>3, <5>2
          <5> QED
            BY <3>4, <5>1, <5>2
        <4> QED
          BY <2>1, <3>3, <3>8, <4>3 DEF WalkInv, VisitedOnce
      <3>11. LeftOrOnPath'
        <4>1. \A k : k \in ToSet(ordered)' <=> k \in ToSet(ordered) \/ k = m
          BY <3>8
        <4> QED
          BY <1>1, <3>6, <4>1 DEF WalkInv, LeftOrOnPath
      <3>12. LeftInOrder'
        BY <1>1, <2>1, SameDeclared DEF WalkInv, LeftInOrder
      <3>13. FramesOK'
        <4>1. SUFFICES ASSUME NEW k \in 1..(n + 1)
                       PROVE  LET e == path'[k] IN
                              /\ e.next \in 1..(Len(ImportsOf(e.module)) + 1)
                              /\ \A j \in 1..(e.next - 1) :
                                    Visited(ImportsOf(e.module)[j]) \/ (k < n + 1 /\ j = e.next - 1)
                              /\ k < n + 1 =>
                                    e.next > 1 /\ ImportsOf(e.module)[e.next - 1] = path'[k + 1].module
          BY <1>1, <3>3, <3>6, SameDeclared DEF FramesOK
        <4>2. FramesOK
          BY DEF WalkInv
        <4>3. CASE k \in 1..(n - 1)
          <5>1. k \in 1..n /\ k + 1 \in 1..n /\ k < n /\ k < n + 1
            BY <2>2, <4>3
          <5>2. /\ path'[k].module = path[k].module /\ path'[k].next = path[k].next
                /\ path'[k + 1].module = path[k + 1].module
            BY <3>5, <4>3, <5>1
          <5> QED
            BY <2>2, <4>2, <5>1, <5>2 DEF FramesOK
        <4>4. CASE k = n
          <5>1. path'[k].module = f.module /\ path'[k].next = f.next + 1 /\ path'[k + 1].module = m
            BY <3>4, <3>5, <4>4
          <5>2. \A j \in 1..(f.next - 1) : Visited(ImportsOf(f.module)[j])
            <6>1. ~(n < Len(path))
              BY <2>2
            <6> QED
              BY <3>1, <4>2, <6>1 DEF FramesOK
          <5>3. ImportsOf(f.module) \in Seq(Modules)
            BY <2>2, <3>1, ImportsAreModules
          <5>4. f.next + 1 \in 1..(Len(ImportsOf(f.module)) + 1) /\ f.next + 1 - 1 = f.next /\ f.next + 1 > 1
            BY <3>1, <5>3
          <5>5. \A j \in 1..(f.next + 1 - 1) : j \in 1..(f.next - 1) \/ j = f.next + 1 - 1
            BY <3>1
          <5>6. k < n + 1
            BY <2>2, <4>4
          <5> HIDE DEF f
          <5> QED
            BY <3>1, <5>1, <5>2, <5>4, <5>5, <5>6
        <4>5. CASE k = n + 1
          <5>1. path'[k].module = m /\ path'[k].next = 1 /\ ~(k < n + 1)
            BY <2>2, <3>5, <4>5
          <5>2. Len(ImportsOf(m)) \in Nat
            BY <2>2, <3>1, ImportsAreModules
          <5> QED
            BY <5>1, <5>2
        <4> QED
          BY <3>4, <4>3, <4>4, <4>5
      <3>14. Connected'
        <4>1. Connected
          BY DEF WalkInv
        <4>2. f.module \in ReachedFromRoot
          <5>1. f.module \in ToSet(ordered)
            BY <3>1 DEF WalkInv, LeftOrOnPath
          <5> QED
            BY <4>1, <5>1 DEF Connected
        <4>3. m \in ReachedFromRoot
          BY <2>2, <3>1, <4>2, FollowsImports
        <4>4. \A j \in 1..n : m \in Below(path[j].module)
          <5> SUFFICES ASSUME NEW j \in 1..n PROVE m \in Below(path[j].module)
            OBVIOUS
          <5>1. path[j].module \in Modules
            <6>1. path[j] \in [module : Modules, next : Nat]
              BY <2>2, ElementOfSeq
            <6> QED
              BY <6>1
          <5>2. CASE j = n
            BY <2>2, <3>1, <5>1, <5>2, FollowsImports
          <5>3. CASE j # n
            <6>0. j \in Int /\ n \in Int /\ j <= n
              BY <2>2
            <6>1. j < n
              <7> HIDE DEF n
              <7> QED
                BY <5>3, <6>0
            <6>2. f.module \in Below(path[j].module)
              BY <2>2, <3>1, <4>1, <6>1 DEF Connected
            <6> QED
              BY <2>2, <3>1, <5>1, <6>2, FollowsImports
          <5> QED
            BY <5>2, <5>3
        <4>5. ASSUME NEW j \in 1..(n + 1), NEW k \in 1..(n + 1), j < k
              PROVE  path'[k].module \in Below(path'[j].module)
          <5>1. j \in 1..n
            BY <2>2, <4>5
          <5>2. CASE k \in 1..n
            BY <2>2, <3>5, <4>1, <4>5, <5>1, <5>2 DEF Connected
          <5>3. CASE k = n + 1
            BY <3>5, <4>4, <5>1, <5>3
          <5> QED
            BY <3>4, <5>2, <5>3
        <4>6. ToSet(ordered)' \subseteq ReachedFromRoot'
          BY <1>1, <3>8, <4>1, <4>3, SameDeclared DEF Connected
        <4> QED
          BY <1>1, <3>3, <4>5, <4>6, SameDeclared DEF Connected
      <3>15. BeginsAndEnds'
        <4>1. path' # <<>>
          BY <2>2, <3>3
        <4>2. Root \in ToSet(ordered)
          <5>1. ordered # <<>>
            <6>1. f.module \in ToSet(ordered)
              BY <3>1 DEF WalkInv, LeftOrOnPath
            <6> QED
              BY <6>1 DEF ToSet
          <5> QED
            BY <5>1 DEF WalkInv, BeginsAndEnds
        <4>3. Root \in ToSet(ordered)'
          BY <3>8, <4>2
        <4> QED
          BY <1>1, <2>1, <4>1, <4>3, SameDeclared DEF WalkInv, BeginsAndEnds
      <3> QED
        BY <3>9, <3>10, <3>11, <3>12, <3>13, <3>14, <3>15 DEF WalkInv
    <2> QED
      BY <2>3, <2>4
  <1> QED
    BY <1>2, <1>3

LEMMA WalkRejects ==
    ASSUME WalkInv, NEW m, RejectCycle(m)
    PROVE  WalkInv'
  <1>1. /\ Importing(m) /\ OnPath(m) /\ path # <<>>
        /\ UNCHANGED <<app, path, ordered, left, compiled>>
        /\ stage' = "refused" /\ reason' = "cycle"
    BY DEF RejectCycle, OnPath, Refuse, graphVars
  <1> DEFINE n == Len(path)
             f == path[n]
  <1>2. /\ n \in Nat /\ n >= 1 /\ n \in DOMAIN path /\ f.module \in Modules /\ OnPath(f.module)
        /\ m \in DeclaredImports(f.module) /\ m \in Modules
    BY <1>1, TopOfPath
  <1>3. IsApplication(app) /\ DOMAIN path = 1..n
    BY DEF WalkInv, WalkTypes
  <1>4. PICK i \in 1..n : path[i].module = m
    BY <1>1, <1>3 DEF OnPath
  <1>5. m \in Below(m)
    <2>1. CASE i = n
      BY <1>2, <1>3, <1>4, <2>1, FollowsImports
    <2>2. CASE i < n
      <3>1. f.module \in Below(m)
        BY <1>2, <1>3, <1>4, <2>2 DEF WalkInv, Connected
      <3> QED
        BY <1>2, <1>3, <3>1, FollowsImports
    <2>3. i < n \/ i = n
      <3>1. i \in Int /\ n \in Int /\ i <= n
        BY <1>2
      <3> HIDE DEF n
      <3> QED
        BY <3>1
    <2> QED
      BY <2>1, <2>2, <2>3
  <1>6. m \in ReachedFromRoot
    BY <1>1, <1>2 DEF WalkInv, LeftOrOnPath, Connected
  <1>7. Cyclic
    BY <1>5, <1>6 DEF Cyclic
  <1> QED
    BY <1>1, <1>7, WalkRests

LEMMA WalkLeaves ==
    ASSUME WalkInv, Leave
    PROVE  WalkInv'
  <1> DEFINE n == Len(path)
             f == path[n]
             m == f.module
  <1>1. /\ stage = "discovering" /\ path # <<>>
        /\ Here.next > Len(compiled[Here.module].imports)
        /\ left' = Append(left, Here.module) /\ path' = Front(path)
        /\ stage' = IF n = 1 THEN "resolving" ELSE stage
        /\ app' = app /\ reason' = reason /\ ordered' = ordered /\ compiled' = compiled
    BY DEF Leave
  <1>2. /\ path \in Seq([module : Modules, next : Nat]) /\ IsApplication(app)
        /\ n \in Nat /\ DOMAIN path = 1..n
        /\ ordered \in Seq(Modules) /\ left \in Seq(Modules)
        /\ \A k \in ToSet(ordered) : compiled[k] = Compiled(k)
    BY DEF WalkInv, WalkTypes
  <1>3. n >= 1 /\ n \in 1..n
    BY <1>1, <1>2
  <1>4. f \in [module : Modules, next : Nat] /\ m \in Modules /\ Here = f
    <2>1. f \in [module : Modules, next : Nat]
      BY <1>2, <1>3, ElementOfSeq
    <2> QED
      BY <2>1 DEF Here, Last
  <1>5. OnPath(m) /\ m \in ToSet(ordered) /\ ~Visited(m)
    BY <1>2, <1>3, <1>4 DEF OnPath, WalkInv, LeftOrOnPath
  <1>6. compiled[m].imports = ImportsOf(m)
    <2>1. Compiled(m).imports = Expanded(m).imports
      BY DEF Compiled
    <2> QED
      BY <1>2, <1>5, <2>1 DEF ImportsOf
  <1>7. ImportsOf(m) \in Seq(Modules) /\ DeclaredImports(m) = {ImportsOf(m)[k] : k \in 1..Len(ImportsOf(m))}
    BY <1>2, <1>4, ImportsAreModules
  <1>8. f.next > Len(ImportsOf(m))
    BY <1>1, <1>4, <1>6
  <1>0. n = Len(path) /\ f = path[n] /\ m = f.module
    OBVIOUS
  <1> HIDE DEF n, m, f
  <1>9. /\ path' \in Seq([module : Modules, next : Nat]) /\ Len(path') = n - 1
        /\ DOMAIN path' = 1..(n - 1) /\ \A k \in 1..(n - 1) : path'[k] = path[k]
    <2>1. path' = SubSeq(path, 1, n - 1)
      BY <1>0, <1>1 DEF Front
    <2>2. n - 1 \in Nat
      BY <1>2, <1>3
    <2>3. \A k \in 1..(n - 1) : path[k] \in [module : Modules, next : Nat]
      <3>1. \A k \in 1..(n - 1) : k \in 1..Len(path)
        BY <1>0, <1>2
      <3> QED
        BY <1>2, <3>1, ElementOfSeq
    <2>4. 1 \in Int /\ n - 1 \in Int /\ n - 1 - 1 + 1 = n - 1
      BY <1>2
    <2>5. /\ path' \in Seq([module : Modules, next : Nat])
          /\ Len(path') = IF 1 <= n - 1 THEN n - 1 - 1 + 1 ELSE 0
          /\ \A k \in 1..(n - 1) : path'[k] = path[1 + k - 1]
      BY <2>1, <2>3, <2>4, SubSeqProperties
    <2>7. \A k \in 1..(n - 1) : 1 + k - 1 = k
      OBVIOUS
    <2>6. Len(path') = n - 1
      BY <1>2, <1>3, <2>2, <2>4, <2>5
    <2> QED
      BY <2>5, <2>6, <2>7, LenProperties
  <1>10. /\ \A k \in 1..n : k \in 1..(n - 1) \/ k = n
         /\ \A k \in 1..(n - 1) : k \in 1..n /\ k < n /\ k # n
    BY <1>2
  <1>11. \A i, j \in 1..n : path[i].module = path[j].module => i = j
    BY <1>2 DEF WalkInv, VisitedOnce
  <1>12. \A k : OnPath(k) <=> OnPath(k)' \/ k = m
    <2>1. \A k : OnPath(k)' <=> \E i \in 1..(n - 1) : path[i].module = k
      BY <1>9 DEF OnPath
    <2>2. \A k : OnPath(k) <=> \E i \in 1..n : path[i].module = k
      BY <1>2 DEF OnPath
    <2> QED
      BY <1>0, <1>3, <1>10, <2>1, <2>2
  <1>13. \A k : k = m => ~OnPath(k)'
    <2>1. \A k : OnPath(k)' <=> \E i \in 1..(n - 1) : path[i].module = k
      BY <1>9 DEF OnPath
    <2> QED
      BY <1>0, <1>3, <1>10, <1>11, <2>1
  <1>14. /\ left' \in Seq(Modules) /\ ToSet(left') = ToSet(left) \cup {m}
         /\ Len(left) \in Nat /\ DOMAIN left = 1..Len(left) /\ DOMAIN left' = 1..(Len(left) + 1)
         /\ \A k \in 1..Len(left) : left'[k] = left[k]
         /\ left'[Len(left) + 1] = m
         /\ IsInjective(left')
    <2>1. m \notin ToSet(left)
      BY <1>5 DEF Visited
    <2>2. left' = Append(left, m)
      BY <1>0, <1>1, <1>4
    <2>3. IsInjective(left)
      BY DEF WalkInv, VisitedOnce
    <2> HIDE DEF m
    <2> QED
      BY <1>2, <1>4, <2>1, <2>2, <2>3, Grows
  <1>15. \A k : Visited(k)' <=> Visited(k) \/ k = m
    BY <1>14 DEF Visited
  <1>16. DeclaredImports(m) \subseteq ToSet(left)
    <2>1. f.next \in 1..(Len(ImportsOf(m)) + 1)
      BY <1>0, <1>2, <1>3 DEF WalkInv, FramesOK
    <2>2. \A k \in 1..(f.next - 1) : Visited(ImportsOf(m)[k])
      <3>1. ~(n < Len(path))
        BY <1>0, <1>2
      <3>2. FramesOK
        BY DEF WalkInv
      <3> QED
        BY <1>0, <1>2, <1>3, <3>1, <3>2 DEF FramesOK
    <2>3. f.next - 1 = Len(ImportsOf(m))
      BY <1>7, <1>8, <2>1
    <2> QED
      BY <1>7, <2>2, <2>3 DEF Visited
  <1>17. WalkTypes'
    BY <1>1, <1>2, <1>9, <1>14, SameDeclared DEF WalkInv, WalkTypes
  <1>18. VisitedOnce'
    BY <1>1, <1>9, <1>10, <1>11, <1>14 DEF WalkInv, VisitedOnce
  <1>19. LeftOrOnPath'
    <2>1. \A k : (Visited(k)' \/ OnPath(k)') <=> (Visited(k) \/ OnPath(k))
      BY <1>12, <1>15
    <2>2. \A k : ~(Visited(k)' /\ OnPath(k)')
      <3>1. \A k : OnPath(k)' => OnPath(k) /\ k # m
        BY <1>12, <1>13
      <3>2. \A k \in Modules : ~(Visited(k) /\ OnPath(k))
        BY DEF WalkInv, LeftOrOnPath
      <3>3. \A k : Visited(k) => k \in Modules
        BY <1>2, OwnEntries DEF Visited
      <3> QED
        BY <1>15, <3>1, <3>2, <3>3
    <2> QED
      BY <1>1, <2>1, <2>2 DEF WalkInv, LeftOrOnPath
  <1>20. LeftInOrder'
    <2> DEFINE l == Len(left)
    <2>0. l \in Nat /\ \A k \in 1..(l + 1) : k \in 1..l \/ k = l + 1
      BY <1>14
    <2>1. ASSUME NEW k \in 1..(l + 1), NEW x \in DeclaredImports(left'[k])
          PROVE  \E j \in 1..(k - 1) : left'[j] = x
      <3>1. CASE k \in 1..l
        <4>1. x \in DeclaredImports(left[k])
          BY <1>14, <2>1, <3>1
        <4>2. PICK j \in 1..(k - 1) : left[j] = x
          BY <1>14, <3>1, <4>1 DEF WalkInv, LeftInOrder
        <4>3. j \in 1..l
          BY <2>0, <3>1
        <4> QED
          BY <1>14, <4>2, <4>3
      <3>2. CASE k = l + 1
        <4>1. x \in ToSet(left)
          BY <1>14, <1>16, <2>1, <3>2
        <4>2. PICK j \in 1..l : left[j] = x
          BY <1>14, <4>1 DEF ToSet
        <4>3. j \in 1..(k - 1)
          BY <2>0, <3>2
        <4> QED
          BY <1>14, <4>2, <4>3
      <3> QED
        BY <2>0, <3>1, <3>2
    <2>2. DOMAIN left' = 1..(l + 1)
      BY <1>14
    <2> HIDE DEF l
    <2> QED
      <3>1. \A x : DeclaredImports(x)' = DeclaredImports(x)
        BY <1>1, SameDeclared
      <3> QED
        BY <2>1, <2>2, <3>1 DEF LeftInOrder
  <1>21. FramesOK'
    <2>1. ASSUME NEW k \in 1..(n - 1)
          PROVE  LET e == path[k] IN
                 /\ e.next \in 1..(Len(ImportsOf(e.module)) + 1)
                 /\ \A j \in 1..(e.next - 1) :
                       ImportsOf(e.module)[j] \in ToSet(left') \/ (k < n - 1 /\ j = e.next - 1)
                 /\ k < n - 1 =>
                       e.next > 1 /\ ImportsOf(e.module)[e.next - 1] = path[k + 1].module
      <3> DEFINE e == path[k]
      <3>1. k \in 1..n /\ k < n /\ k + 1 \in 1..n
        BY <1>2, <1>10
      <3>2. /\ e.next \in 1..(Len(ImportsOf(e.module)) + 1)
            /\ \A j \in 1..(e.next - 1) : Visited(ImportsOf(e.module)[j]) \/ j = e.next - 1
            /\ e.next > 1 /\ ImportsOf(e.module)[e.next - 1] = path[k + 1].module
        BY <1>0, <1>2, <3>1 DEF WalkInv, FramesOK
      <3>3. ~(k < n - 1) => path[k + 1] = f
        BY <1>0, <1>2, <3>1
      <3>4. ~(k < n - 1) => ImportsOf(e.module)[e.next - 1] \in ToSet(left')
        BY <1>0, <1>14, <3>2, <3>3
      <3> HIDE DEF e
      <3>5. \A j \in 1..(e.next - 1) :
               ImportsOf(e.module)[j] \in ToSet(left') \/ (k < n - 1 /\ j = e.next - 1)
        BY <1>14, <3>2, <3>4 DEF Visited
      <3> QED
        BY <3>2, <3>5 DEF e
    <2>2. \A k \in 1..(n - 1) : k < n - 1 => path'[k + 1] = path[k + 1]
      BY <1>2, <1>9
    <2>3. \A x : Visited(x)' <=> x \in ToSet(left')
      BY DEF Visited
    <2> QED
      <3>1. \A x : ImportsOf(x)' = ImportsOf(x)
        BY <1>1, SameDeclared
      <3>2. \A k \in 1..(n - 1) : path'[k] = path[k]
        BY <1>9
      <3> QED
        BY <1>9, <2>1, <2>2, <2>3, <3>1, <3>2 DEF FramesOK
  <1>22. Connected'
    <2>1. Connected
      BY DEF WalkInv
    <2>2. \A i, j \in 1..(n - 1) : i < j => path'[j].module \in Below(path'[i].module)
      BY <1>2, <1>9, <1>10, <2>1 DEF Connected
    <2> QED
      BY <1>1, <1>9, <2>1, <2>2, SameDeclared DEF Connected
  <1>23. BeginsAndEnds'
    <2>1. stage' \in {"discovering", "resolving"} /\ (stage' = "resolving" <=> n = 1)
      BY <1>1
    <2>2. path' = <<>> <=> n = 1
      BY <1>2, <1>3, <1>9, EmptySeq
    <2>3. ordered # <<>>
      BY <1>5 DEF ToSet
    <2> QED
      BY <1>1, <2>1, <2>2, <2>3, SameDeclared DEF WalkInv, BeginsAndEnds
  <1> QED
    BY <1>17, <1>18, <1>19, <1>20, <1>21, <1>22, <1>23 DEF WalkInv

\* The steps after the walk leave the modules it found alone.
LEMMA WalkIsOver ==
    ASSUME \/ Resolve \/ Publish \/ CheckModules \/ (\E k \in Keys : Settle(k)) \/ Judge
           \/ CompileContracts \/ PlanByPath \/ PlanByHeader \/ CheckCapabilities \/ RegisterNext
    PROVE  /\ UNCHANGED <<app, path, ordered, left, compiled>>
           /\ stage \notin {"discovering", "refused"} /\ stage' # "discovering"
           /\ reason' = "cycle" => reason = "cycle"
  <1>1. CASE Resolve
    BY <1>1 DEF Resolve, Refuse, graphVars
  <1>2. CASE Publish
    BY <1>2 DEF Publish, Refuse, graphVars
  <1>3. CASE CheckModules
    <2>1. \A why : why \in {"export", "controller"} => why # "cycle"
      OBVIOUS
    <2> QED
      BY <1>3, <2>1 DEF CheckModules, Refuse, graphVars
  <1>4. CASE \E k \in Keys : Settle(k)
    BY <1>4 DEF Settle, graphVars
  <1>5. CASE Judge
    BY <1>5 DEF Judge, Refuse, graphVars
  <1>6. CASE CompileContracts
    BY <1>6 DEF CompileContracts, RefusePlan, GoesOn, graphVars
  <1>7. CASE PlanByPath
    BY <1>7 DEF PlanByPath, RefusePlan, assemblyVars, graphVars
  <1>8. CASE PlanByHeader
    BY <1>8 DEF PlanByHeader, RefusePlan, assemblyVars, graphVars
  <1>9. CASE CheckCapabilities
    BY <1>9 DEF CheckCapabilities, RefusePlan, GoesOn, graphVars
  <1>10. CASE RegisterNext
    BY <1>10 DEF RegisterNext, GoesOn, graphVars
  <1> QED
    BY <1>1, <1>2, <1>3, <1>4, <1>5, <1>6, <1>7, <1>8, <1>9, <1>10

LEMMA WalkGoesOn ==
    ASSUME WalkInv, [Next]_bootstrapVars
    PROVE  WalkInv'
  <1>1. CASE \E m \in Modules : Skip(m) \/ Enter(m) \/ RejectCycle(m)
    BY <1>1, WalkSkips, WalkEnters, WalkRejects
  <1>2. CASE Leave
    BY <1>2, WalkLeaves
  <1>3. CASE \/ Resolve \/ Publish \/ CheckModules \/ (\E k \in Keys : Settle(k)) \/ Judge
             \/ CompileContracts \/ PlanByPath \/ PlanByHeader \/ CheckCapabilities \/ RegisterNext
    BY <1>3, WalkIsOver, WalkRests
  <1>4. CASE UNCHANGED bootstrapVars
    <2>1. UNCHANGED <<app, path, ordered, left, compiled, stage, reason>>
      BY <1>4 DEF bootstrapVars, assemblyVars, graphVars
    <2>2. WalkTypes'
      BY <2>1, SameDeclared DEF WalkInv, WalkTypes
    <2>3. VisitedOnce'
      BY <2>1 DEF WalkInv, VisitedOnce
    <2>4. LeftOrOnPath'
      BY <2>1 DEF WalkInv, LeftOrOnPath, Visited, OnPath
    <2>5. LeftInOrder'
      BY <2>1, SameDeclared DEF WalkInv, LeftInOrder
    <2>6. FramesOK'
      BY <2>1, SameDeclared DEF WalkInv, FramesOK, Visited
    <2>7. Connected'
      BY <2>1, SameDeclared DEF WalkInv, Connected
    <2>8. BeginsAndEnds'
      BY <2>1, SameDeclared DEF WalkInv, BeginsAndEnds
    <2> QED
      BY <2>2, <2>3, <2>4, <2>5, <2>6, <2>7, <2>8 DEF WalkInv
  <1> QED
    BY <1>1, <1>2, <1>3, <1>4 DEF Next, AssemblyNext

\* _discover_modules: a module is recorded as visited after everything it imports, and the
\* walk never comes to a module twice.
THEOREM ModulesAreVisitedInOrder ==
    Spec => []WalkInv
  <1>1. WalkInv /\ [Next]_bootstrapVars => WalkInv'
    BY WalkGoesOn
  <1>2. Init => WalkInv
    BY WalkStarts
  <1> QED
    BY <1>1, <1>2, PTL DEF Spec

\* A module that was left comes after all that is below it.
LEMMA BelowComesBefore ==
    ASSUME WalkInv, NEW n \in DOMAIN left
    PROVE  Below(left[n]) \subseteq {left[k] : k \in 1..(n - 1)}
  <1> DEFINE before == {left[k] : k \in 1..(n - 1)}
  <1>1. left \in Seq(Modules) /\ IsApplication(app) /\ DOMAIN left = 1..Len(left) /\ Len(left) \in Nat
    BY DEF WalkInv, WalkTypes
  <1>2. \A k \in 1..(n - 1) : k \in 1..Len(left) /\ \A j \in 1..(k - 1) : j \in 1..(n - 1)
    BY <1>1
  <1>3. before \subseteq Modules
    BY <1>1, <1>2, ElementOfSeq
  <1>4. DOMAIN ImportGraph = Modules /\ \A m \in Modules : ImportGraph[m] = DeclaredImports(m)
    BY DEF ImportGraph
  <1>5. DeclaredImports(left[n]) \subseteq before
    BY DEF WalkInv, LeftInOrder
  <1>6. \A y \in before : DeclaredImports(y) \subseteq before
    <2> SUFFICES ASSUME NEW k \in 1..(n - 1), NEW m \in DeclaredImports(left[k])
                 PROVE  m \in before
      OBVIOUS
    <2>1. PICK j \in 1..(k - 1) : left[j] = m
      BY <1>1, <1>2 DEF WalkInv, LeftInOrder
    <2> QED
      BY <1>2, <2>1
  <1> HIDE DEF before
  <1>7. Closure(DeclaredImports(left[n]), ImportGraph) \subseteq before
    BY <1>3, <1>4, <1>5, <1>6, ClosureIsLeast
  <1> QED
    BY <1>7 DEF Below, before

\* Where the walk is over, it has found what the imports reach, and no circle.
LEMMA WalkFinds ==
    ASSUME WalkInv
    PROVE  GraphIsTheImports
  <1>1. reason = "cycle" => Cyclic
    BY DEF WalkInv, BeginsAndEnds
  <1>2. ASSUME stage \notin {"discovering", "refused"}
        PROVE  /\ ~Cyclic
               /\ ToSet(ordered) = ReachedFromRoot /\ IsInjective(ordered)
               /\ ToSet(left) = ReachedFromRoot /\ IsInjective(left)
    <2>1. /\ left \in Seq(Modules) /\ ordered \in Seq(Modules) /\ IsApplication(app)
          /\ DOMAIN left = 1..Len(left) /\ Len(left) \in Nat
      BY DEF WalkInv, WalkTypes
    <2>2. path = <<>> /\ ordered # <<>> /\ Root \in ToSet(ordered)
      BY <1>2 DEF WalkInv, BeginsAndEnds
    <2>3. \A m : ~OnPath(m)
      BY <2>2 DEF OnPath
    <2>4. ToSet(ordered) = ToSet(left)
      <3>1. ToSet(ordered) \subseteq Modules /\ ToSet(left) \subseteq Modules
        BY <2>1, OwnEntries
      <3> QED
        BY <2>3, <3>1 DEF WalkInv, LeftOrOnPath, Visited
    <2>5. ReachedFromRoot \subseteq ToSet(left)
      <3>1. \A y \in ToSet(left) : DeclaredImports(y) \subseteq ToSet(left)
        <4> SUFFICES ASSUME NEW n \in DOMAIN left, NEW m \in DeclaredImports(left[n])
                     PROVE  m \in ToSet(left)
          BY DEF ToSet
        <4>1. PICK k \in 1..(n - 1) : left[k] = m
          BY DEF WalkInv, LeftInOrder
        <4>2. k \in DOMAIN left
          BY <2>1
        <4> QED
          BY <4>1, <4>2 DEF ToSet
      <3>2. ToSet(left) \in SUBSET DOMAIN ImportGraph
        BY <2>1, OwnEntries DEF ImportGraph
      <3>3. {Root} \subseteq ToSet(left)
        BY <2>2, <2>4
      <3>4. \A m \in Modules : ImportGraph[m] = DeclaredImports(m)
        BY DEF ImportGraph
      <3>5. \A y \in ToSet(left) : ImportGraph[y] \subseteq ToSet(left)
        BY <2>1, <3>1, <3>4, OwnEntries
      <3> QED
        BY <3>2, <3>3, <3>5, ClosureIsLeast DEF ReachedFromRoot
    <2>6. ToSet(ordered) \subseteq ReachedFromRoot
      BY DEF WalkInv, Connected
    <2>7. ~Cyclic
      <3> SUFFICES ASSUME NEW m \in ReachedFromRoot, m \in Below(m) PROVE FALSE
        BY DEF Cyclic
      <3>1. PICK n \in DOMAIN left : left[n] = m
        BY <2>5 DEF ToSet
      <3>2. PICK k \in 1..(n - 1) : left[k] = m
        BY <3>1, BelowComesBefore
      <3>3. k \in DOMAIN left /\ k # n
        BY <2>1
      <3> QED
        BY <3>1, <3>2, <3>3 DEF WalkInv, VisitedOnce, IsInjective
    <2> QED
      BY <2>4, <2>5, <2>6, <2>7 DEF WalkInv, VisitedOnce
  <1> QED
    BY <1>1, <1>2 DEF GraphIsTheImports

\* _discover_modules: every module the imports reach is in the graph, once, and a graph is
\* refused for a circle only where it has one.
THEOREM GraphFollowsImports ==
    Spec => []GraphIsTheImports
  <1>1. WalkInv => GraphIsTheImports
    BY WalkFinds
  <1> QED
    BY <1>1, ModulesAreVisitedInOrder, PTL

-----------------------------------------------------------------------------
(* The tables: which module answers for a token.                             *)

\* The answers of a module that has been resolved are modules that bind what is asked for;
\* its own bindings come first, then what its imports hand over; and what it hands on of
\* them is what it exports.
Resolved(m) ==
    /\ DOMAIN base[m] \subseteq Tokens \cup Local(m)
    /\ \A t \in DOMAIN base[m] : base[m][t] \in ToSet(ordered) /\ t \in Local(base[m][t])
    /\ \A t \in Local(m) : t \in DOMAIN base[m] /\ base[m][t] = m
    /\ \A t \in Tokens \ Binds(m) :
          UNION {Hands(t, k) : k \in DeclaredImports(m)}
              = IF t \in DOMAIN base[m] THEN {base[m][t]} ELSE {}
    /\ origins[m] = [t \in compiled[m].exports \cap DOMAIN base[m] |-> base[m][t]]

\* Modules are resolved in the order in which they were left.
ResolvedInOrder ==
    LET n == Cardinality(DOMAIN base) IN
    /\ n \in 0..Len(left) /\ DOMAIN base = {left[k] : k \in 1..n} /\ DOMAIN origins = DOMAIN base
    /\ stage = "discovering" => n = 0
    /\ stage = "resolving" => n < Len(left)
    /\ stage \notin {"discovering", "resolving", "refused"} => n = Len(left)

\* The global exports are published once, and agree.
Published ==
    stage \notin {"discovering", "resolving", "publishing", "refused"} =>
        /\ visible = [m \in Reached |-> SeenOrGlobal(m)]
        /\ \A t \in Tokens : ~(Cardinality(GlobalOffers(t)) > 1)

TableInv == ResolvedInOrder /\ (\A m \in DOMAIN base : Resolved(m)) /\ Published

\* A set of one member at the most.
LEMMA AtMostOne ==
    ASSUME NEW S, IsFiniteSet(S), ~(Cardinality(S) > 1)
    PROVE  S = IF S = {} THEN {} ELSE {CHOOSE x \in S : TRUE}
  <1>1. Cardinality(S) \in Nat
    BY FS_CardinalityType
  <1>2. Cardinality(S) = 0 \/ Cardinality(S) = 1
    BY <1>1
  <1>3. S = {} \/ \E x : S = {x}
    BY <1>2, FS_EmptySet, FS_Singleton
  <1> QED
    BY <1>3

\* Entries have tokens, and only entries of a joined token have entry tokens.
LEMMA LocalTokens ==
    ASSUME IsApplication(app), NEW m \in Modules, compiled[m] = Compiled(m)
    PROVE  /\ Local(m) \subseteq Tokens \cup (Tokens \X Nat)
           /\ \A t \in Tokens : t \in Local(m) <=> t \in Binds(m)
           /\ Binds(m) \subseteq Tokens
  <1> DEFINE d == Expanded(m)
             declared == {e.token : e \in ToSet(d.providers)}
             folded == {t \in declared : Len(Entries(d.providers, t)) > 1}
             parts == UNION {{EntryToken(t, n) : n \in DOMAIN Entries(d.providers, t)} : t \in folded}
  <1>1. IsMetadata(d)
    BY ExpandedIsMetadata
  <1>2. declared \subseteq Tokens
    BY <1>1 DEF IsMetadata, IsProvided, ToSet
  <1>3. \A t : DOMAIN Entries(d.providers, t) \subseteq Nat
    BY DEF Entries, Picked
  <1>4. parts \subseteq Tokens \X Nat
    <2> HIDE DEF d, declared
    <2> QED
      BY <1>2, <1>3 DEF EntryToken
  <1>5. Local(m) = declared \cup parts
    <2>1. Compiled(m).binds = Bindings(d.providers)
      BY DEF Compiled
    <2>2. DOMAIN Bindings(d.providers) = declared \cup parts
      BY DEF Bindings
    <2> QED
      BY <2>1, <2>2 DEF Local
  <1>6. Binds(m) = declared
    BY DEF Binds
  <1> HIDE DEF d, declared, folded, parts
  <1>7. \A t \in Tokens : t \notin parts
    BY <1>4, CompilerAssumption
  <1> QED
    BY <1>2, <1>4, <1>5, <1>6, <1>7

\* What a module hands over: its own binding, or what its imports hand it.
LEMMA HandsUnfolds ==
    ASSUME IsApplication(app), NEW m \in Modules, NEW t
    PROVE  Hands(t, m) =
             IF ~Passes(m, t) THEN {}
             ELSE IF t \in Binds(m) THEN {m}
             ELSE UNION {Hands(t, k) : k \in DeclaredImports(m)}
  <1> DEFINE onwards == [x \in Modules |->
                 IF t \in Binds(x) THEN {} ELSE {k \in DeclaredImports(x) : Passes(k, t)}]
             from(s) == Closure(s, onwards)
  <1>1. /\ DOMAIN onwards = Modules
        /\ \A x \in Modules : /\ t \in Binds(x) => onwards[x] = {}
                              /\ t \notin Binds(x) => onwards[x] = {k \in DeclaredImports(x) : Passes(k, t)}
    OBVIOUS
  <1>2. \A k : Hands(t, k) = IF ~Passes(k, t) THEN {} ELSE {o \in from({k}) : t \in Binds(o)}
    BY DEF Hands
  <1> HIDE DEF onwards
  <1>3. \A y \in DOMAIN onwards : onwards[y] \subseteq DOMAIN onwards
    BY <1>1, ImportsAreModules
  <1>4. \A k \in Modules : k \in from({k}) /\ from({k}) \subseteq Modules
    <2> TAKE k \in Modules
    <2>1. {k} \in SUBSET DOMAIN onwards
      BY <1>1
    <2>2. {k} \subseteq from({k})
      BY <2>1, ClosureHas
    <2>3. from({k}) \subseteq DOMAIN onwards
      BY DEF Closure
    <2> QED
      BY <1>1, <2>2, <2>3
  <1>5. \A k : \A x \in from({k}) : onwards[x] \subseteq from({k})
    <2> SUFFICES ASSUME NEW k, NEW x \in from({k}) PROVE onwards[x] \subseteq from({k})
      OBVIOUS
    <2>1. onwards[x] \subseteq Closure({k}, onwards)
      BY <1>3, ClosureGoesOn
    <2> QED
      BY <2>1
  <1>6. from({m}) = {m} \cup UNION {from({k}) : k \in onwards[m]}
    <2> DEFINE all == {m} \cup UNION {from({k}) : k \in onwards[m]}
    <2>1. onwards[m] \subseteq Modules
      BY <1>1, <1>3
    <2>2. all \subseteq Modules
      BY <1>4, <2>1
    <2>3. \A y \in all : onwards[y] \subseteq all
      BY <1>4, <1>5, <2>1
    <2>4. {m} \subseteq all
      OBVIOUS
    <2>5. Closure({m}, onwards) \subseteq all
      <3> HIDE DEF all
      <3> QED
        BY <1>1, <2>2, <2>3, <2>4, ClosureIsLeast
    <2>6. m \in from({m}) /\ onwards[m] \subseteq from({m})
      BY <1>4, <1>5
    <2>7. \A k \in onwards[m] : from({k}) \subseteq from({m})
      <3> SUFFICES ASSUME NEW k \in onwards[m] PROVE from({k}) \subseteq from({m})
        OBVIOUS
      <3>1. from({m}) \in SUBSET DOMAIN onwards /\ {k} \subseteq from({m})
        BY <1>1, <1>4, <2>6
      <3>2. \A y \in from({m}) : onwards[y] \subseteq from({m})
        BY <1>5
      <3>3. Closure({k}, onwards) \subseteq from({m})
        <4> HIDE DEF from
        <4> QED
          BY <3>1, <3>2, ClosureIsLeast
      <3> QED
        BY <3>3
    <2> QED
      BY <2>5, <2>6, <2>7
  <1> HIDE DEF from
  <1>7. CASE ~Passes(m, t)
    BY <1>2, <1>7
  <1>8. CASE Passes(m, t) /\ t \in Binds(m)
    <2>1. from({m}) = {m}
      BY <1>1, <1>6, <1>8
    <2> QED
      BY <1>2, <1>8, <2>1
  <1>9. CASE Passes(m, t) /\ t \notin Binds(m)
    <2>1. onwards[m] = {k \in DeclaredImports(m) : Passes(k, t)}
      BY <1>1, <1>9
    <2>2. Hands(t, m) = {o \in from({m}) : t \in Binds(o)}
      BY <1>2, <1>9
    <2>3. \A o : o \in from({m}) <=> o = m \/ \E k \in onwards[m] : o \in from({k})
      BY <1>6
    <2>4. \A k \in onwards[m] : Hands(t, k) = {o \in from({k}) : t \in Binds(o)}
      BY <1>2, <2>1
    <2>5. \A k \in DeclaredImports(m) : k \notin onwards[m] => Hands(t, k) = {}
      BY <1>2, <2>1
    <2>6. \A o : o \in Hands(t, m) <=> \E k \in onwards[m] : o \in Hands(t, k)
      BY <1>9, <2>2, <2>3, <2>4
    <2>8. \A o : o \in Hands(t, m) <=> \E k \in DeclaredImports(m) : o \in Hands(t, k)
      BY <2>1, <2>5, <2>6
    <2>7. Hands(t, m) = UNION {Hands(t, k) : k \in DeclaredImports(m)}
      <3> DEFINE all == UNION {Hands(t, k) : k \in DeclaredImports(m)}
      <3>1. \A o : o \in all <=> \E k \in DeclaredImports(m) : o \in Hands(t, k)
        OBVIOUS
      <3> HIDE DEF all
      <3>2. \A o : o \in all <=> o \in Hands(t, m)
        BY <2>8, <3>1
      <3>3. all = Hands(t, m)
        BY <3>2
      <3> QED
        BY <3>3 DEF all
    <2> QED
      BY <1>9, <2>7
  <1> QED
    BY <1>7, <1>8, <1>9

\* What follows from the declarations alone, and from what was compiled of them.
LEMMA SameTables ==
    ASSUME app' = app
    PROVE  \A t, m : /\ Hands(t, m)' = Hands(t, m) /\ Passes(m, t)' = Passes(m, t)
                     /\ Binds(m)' = Binds(m) /\ DeclaredImports(m)' = DeclaredImports(m)
  <1>1. \A m : DeclaredImports(m)' = DeclaredImports(m) /\ Expanded(m)' = Expanded(m)
    BY SameDeclared
  <1>2. \A m : Binds(m)' = Binds(m) /\ \A t : Passes(m, t)' = Passes(m, t)
    BY <1>1 DEF Binds, Passes
  <1>3. \A t, m : Hands(t, m)' = Hands(t, m)
    BY <1>1, <1>2 DEF Hands
  <1> QED
    BY <1>1, <1>2, <1>3

\* What was compiled of a module that has been left.
LEMMA LeftIsCompiled ==
    ASSUME WalkInv, NEW m \in ToSet(left)
    PROVE  /\ m \in Modules /\ m \in ToSet(ordered) /\ compiled[m] = Compiled(m)
           /\ Imports(m) = DeclaredImports(m) /\ compiled[m].exports = ToSet(Expanded(m).exports)
           /\ compiled[m].isGlobal = Expanded(m).isGlobal
           /\ IsApplication(app)
  <1>1. left \in Seq(Modules) /\ IsApplication(app) /\ \A k \in ToSet(ordered) : compiled[k] = Compiled(k)
    BY DEF WalkInv, WalkTypes
  <1>2. m \in Modules
    BY <1>1, OwnEntries
  <1>3. m \in ToSet(ordered)
    BY <1>2 DEF WalkInv, LeftOrOnPath, Visited
  <1>4. /\ Compiled(m).imports = Expanded(m).imports /\ Compiled(m).exports = ToSet(Expanded(m).exports)
        /\ Compiled(m).isGlobal = Expanded(m).isGlobal
    BY DEF Compiled
  <1> QED
    BY <1>1, <1>2, <1>3, <1>4 DEF Imports, DeclaredImports

\* A module that has been resolved hands on what the exports say.
LEMMA HandsAreOrigins ==
    ASSUME WalkInv, NEW m \in ToSet(left), Resolved(m), NEW t \in Tokens
    PROVE  /\ Hands(t, m) = IF t \in DOMAIN origins[m] THEN {origins[m][t]} ELSE {}
           /\ t \in DOMAIN origins[m] <=> t \in compiled[m].exports \cap DOMAIN base[m]
           /\ t \in DOMAIN origins[m] =>
                 /\ origins[m][t] = base[m][t]
                 /\ origins[m][t] \in ToSet(ordered) /\ t \in Local(origins[m][t])
  <1>1. /\ m \in Modules /\ compiled[m] = Compiled(m) /\ IsApplication(app)
        /\ compiled[m].exports = ToSet(Expanded(m).exports)
    BY LeftIsCompiled
  <1>2. Passes(m, t) <=> t \in compiled[m].exports
    BY <1>1 DEF Passes
  <1>3. t \in Local(m) <=> t \in Binds(m)
    BY <1>1, LocalTokens
  <1>4. /\ t \in DOMAIN origins[m] <=> t \in compiled[m].exports \cap DOMAIN base[m]
        /\ t \in DOMAIN origins[m] => origins[m][t] = base[m][t]
    BY DEF Resolved
  <1>5. Hands(t, m) = IF ~Passes(m, t) THEN {} ELSE IF t \in Binds(m) THEN {m}
                      ELSE UNION {Hands(t, k) : k \in DeclaredImports(m)}
    BY <1>1, HandsUnfolds
  <1>6. t \in Binds(m) => t \in DOMAIN base[m] /\ base[m][t] = m
    BY <1>3 DEF Resolved
  <1>7. t \notin Binds(m) => UNION {Hands(t, k) : k \in DeclaredImports(m)}
                                = IF t \in DOMAIN base[m] THEN {base[m][t]} ELSE {}
    BY DEF Resolved
  <1>8. Hands(t, m) = IF t \in DOMAIN origins[m] THEN {origins[m][t]} ELSE {}
    BY <1>2, <1>4, <1>5, <1>6, <1>7
  <1>9. t \in DOMAIN base[m] => base[m][t] \in ToSet(ordered) /\ t \in Local(base[m][t])
    BY DEF Resolved
  <1> QED
    BY <1>4, <1>8, <1>9

\* What imports that have been resolved offer is what they hand over.
LEMMA OffersAreHands ==
    ASSUME WalkInv, NEW m \in ToSet(left), NEW t \in Tokens,
           \A k \in DeclaredImports(m) : k \in ToSet(left) /\ Resolved(k)
    PROVE  /\ Offers(m, t) = UNION {Hands(t, k) : k \in DeclaredImports(m)}
           /\ \A o \in Offers(m, t) : o \in ToSet(ordered) /\ t \in Local(o)
           /\ IsFiniteSet(Offers(m, t))
  <1>1. Imports(m) = DeclaredImports(m)
    BY LeftIsCompiled
  <1>2. \A k \in DeclaredImports(m) :
           /\ Hands(t, k) = IF t \in DOMAIN origins[k] THEN {origins[k][t]} ELSE {}
           /\ t \in DOMAIN origins[k] => origins[k][t] \in ToSet(ordered) /\ t \in Local(origins[k][t])
    BY HandsAreOrigins
  <1>3. \A o : o \in Offers(m, t) <=> \E k \in DeclaredImports(m) : t \in DOMAIN origins[k] /\ o = origins[k][t]
    BY <1>1 DEF Offers
  <1>4. \A o \in Offers(m, t) : o \in ToSet(ordered) /\ t \in Local(o)
    BY <1>2, <1>3
  <1>5. Offers(m, t) = UNION {Hands(t, k) : k \in DeclaredImports(m)}
    <2> DEFINE all == UNION {Hands(t, k) : k \in DeclaredImports(m)}
    <2>1. \A o : o \in all <=> \E k \in DeclaredImports(m) : o \in Hands(t, k)
      OBVIOUS
    <2> HIDE DEF all
    <2>2. \A o : o \in all <=> o \in Offers(m, t)
      BY <1>2, <1>3, <2>1
    <2>3. all = Offers(m, t)
      BY <2>2 DEF Offers
    <2> QED
      BY <2>3 DEF all
  <1>6. IsFiniteSet(Offers(m, t))
    <2>1. ordered \in Seq(Modules)
      BY DEF WalkInv, WalkTypes
    <2>2. Offers(m, t) \in SUBSET Modules
      BY <1>4, <2>1, OwnEntries
    <2> QED
      BY <2>2, AssemblyAssumption, FS_Subset
  <1> QED
    BY <1>4, <1>5, <1>6

\* The module that is resolved next.
LEMMA ResolvesNext ==
    ASSUME WalkInv, ResolvedInOrder, Resolve
    PROVE  LET n == Cardinality(DOMAIN base) m == left[n + 1] IN
           /\ n \in Nat /\ n + 1 \in 1..Len(left)
           /\ m \in ToSet(left) /\ m \notin DOMAIN base
           /\ DOMAIN base \subseteq ToSet(left)
           /\ DeclaredImports(m) \subseteq DOMAIN base
           /\ {left[k] : k \in 1..(n + 1)} = DOMAIN base \cup {m}
           /\ Cardinality(DOMAIN base \cup {m}) = n + 1
  <1> DEFINE n == Cardinality(DOMAIN base)
             m == left[n + 1]
  <1>1. stage = "resolving"
    BY DEF Resolve
  <1>2. /\ left \in Seq(Modules) /\ Len(left) \in Nat /\ DOMAIN left = 1..Len(left)
        /\ \A i, j \in 1..Len(left) : left[i] = left[j] => i = j
    BY DEF WalkInv, WalkTypes, VisitedOnce, IsInjective
  <1>3. n \in 0..Len(left) /\ DOMAIN base = {left[k] : k \in 1..n} /\ n < Len(left)
    BY <1>1 DEF ResolvedInOrder
  <1> HIDE DEF n
  <1>4. n \in Nat /\ n + 1 \in 1..Len(left) /\ m \in ToSet(left)
    BY <1>2, <1>3 DEF ToSet
  <1>5. /\ \A k \in 1..n : k \in 1..Len(left) /\ k # n + 1
        /\ \A k \in 1..(n + 1) : k \in 1..n \/ k = n + 1
        /\ \A k \in 1..n : k \in 1..(n + 1)
        /\ n + 1 \in 1..(n + 1) /\ n + 1 - 1 = n
    BY <1>2, <1>3
  <1>6. m \notin DOMAIN base
    BY <1>2, <1>3, <1>4, <1>5
  <1>7. DOMAIN base \subseteq ToSet(left)
    BY <1>2, <1>3, <1>5 DEF ToSet
  <1>8. DeclaredImports(m) \subseteq DOMAIN base
    <2>1. \A x \in DeclaredImports(m) : \E k \in 1..(n + 1 - 1) : left[k] = x
      BY <1>2, <1>4 DEF WalkInv, LeftInOrder
    <2> QED
      BY <1>3, <1>5, <2>1
  <1>9. {left[k] : k \in 1..(n + 1)} = DOMAIN base \cup {m}
    <2> DEFINE before == {left[k] : k \in 1..n}
               now == {left[k] : k \in 1..(n + 1)}
    <2>1. now = before \cup {m}
      BY <1>5
    <2> QED
      BY <1>3, <2>1
  <1>10. Cardinality(DOMAIN base \cup {m}) = n + 1
    <2>1. DOMAIN base \in SUBSET Modules
      BY <1>2, <1>7, OwnEntries
    <2>2. IsFiniteSet(DOMAIN base)
      BY <2>1, AssemblyAssumption, FS_Subset
    <2> QED
      BY <1>6, <2>2, FS_AddElement DEF n
  <1> QED
    BY <1>4, <1>6, <1>7, <1>8, <1>9, <1>10 DEF n

\* A module is resolved by what its imports offer.
LEMMA ResolvesByOffers ==
    ASSUME WalkInv, ResolvedInOrder, NEW m \in ToSet(left), ~Collides(m),
           \A k \in DeclaredImports(m) : k \in ToSet(left) /\ Resolved(k)
    PROVE  LET s == Seen(m) IN
           /\ DOMAIN s \subseteq Tokens \cup Local(m)
           /\ \A t \in DOMAIN s : s[t] \in ToSet(ordered) /\ t \in Local(s[t])
           /\ \A t \in Local(m) : t \in DOMAIN s /\ s[t] = m
           /\ \A t \in Tokens \ Binds(m) :
                 UNION {Hands(t, k) : k \in DeclaredImports(m)} = IF t \in DOMAIN s THEN {s[t]} ELSE {}
  <1> DEFINE s == Seen(m)
             one(t) == CHOOSE o \in Offers(m, t) : TRUE
  <1>1. /\ DOMAIN s = Local(m) \cup Offered(m)
        /\ \A t \in Local(m) : s[t] = m
        /\ \A t \in Offered(m) : t \notin Local(m) => s[t] = one(t)
    BY DEF Seen
  <1>2. Offered(m) = {t \in Tokens \ Local(m) : Offers(m, t) # {}}
    BY DEF Offered
  <1>3. m \in Modules /\ m \in ToSet(ordered) /\ compiled[m] = Compiled(m) /\ IsApplication(app)
    BY LeftIsCompiled
  <1>4. \A t \in Tokens : t \in Local(m) <=> t \in Binds(m)
    BY <1>3, LocalTokens
  <1>5. \A t \in Tokens :
           /\ Offers(m, t) = UNION {Hands(t, k) : k \in DeclaredImports(m)}
           /\ \A o \in Offers(m, t) : o \in ToSet(ordered) /\ t \in Local(o)
           /\ IsFiniteSet(Offers(m, t))
    BY OffersAreHands
  <1>6. \A t \in Offered(m) : Offers(m, t) = {one(t)}
    <2> SUFFICES ASSUME NEW t \in Offered(m) PROVE Offers(m, t) = {one(t)}
      OBVIOUS
    <2>1. IsFiniteSet(Offers(m, t)) /\ Offers(m, t) # {}
      BY <1>2, <1>5
    <2>2. ~(Cardinality(Offers(m, t)) > 1)
      BY DEF Collides
    <2> QED
      BY <2>1, <2>2, AtMostOne
  <1> HIDE DEF s, one
  <1>7. \A t \in DOMAIN s : s[t] \in ToSet(ordered) /\ t \in Local(s[t])
    <2> SUFFICES ASSUME NEW t \in DOMAIN s PROVE s[t] \in ToSet(ordered) /\ t \in Local(s[t])
      OBVIOUS
    <2>1. CASE t \in Local(m)
      BY <1>1, <1>3, <2>1
    <2>2. CASE t \notin Local(m)
      <3>1. t \in Offered(m) /\ s[t] = one(t) /\ t \in Tokens
        BY <1>1, <1>2, <2>2
      <3>2. s[t] \in Offers(m, t)
        BY <1>6, <3>1
      <3> QED
        BY <1>5, <3>1, <3>2
    <2> QED
      BY <2>1, <2>2
  <1>8. \A t \in Tokens \ Binds(m) :
           UNION {Hands(t, k) : k \in DeclaredImports(m)} = IF t \in DOMAIN s THEN {s[t]} ELSE {}
    <2> SUFFICES ASSUME NEW t \in Tokens \ Binds(m)
                 PROVE  UNION {Hands(t, k) : k \in DeclaredImports(m)} = IF t \in DOMAIN s THEN {s[t]} ELSE {}
      OBVIOUS
    <2>1. t \in Tokens /\ t \notin Local(m) /\ (t \in DOMAIN s <=> t \in Offered(m))
      BY <1>1, <1>4
    <2>2. Offers(m, t) = UNION {Hands(t, k) : k \in DeclaredImports(m)}
      BY <1>5
    <2>3. t \in Offered(m) => Offers(m, t) = {s[t]}
      BY <1>1, <1>6, <2>1
    <2>4. t \notin Offered(m) => Offers(m, t) = {}
      BY <1>2, <2>1
    <2> QED
      BY <2>1, <2>2, <2>3, <2>4
  <1> QED
    BY <1>1, <1>2, <1>7, <1>8 DEF s

LEMMA TableStarts ==
    ASSUME Init
    PROVE  TableInv
  <1>1. DOMAIN base = {} /\ DOMAIN origins = {} /\ left = <<>> /\ stage = "discovering"
    BY DEF Init, AssemblyInit, Nothing
  <1>2. Cardinality(DOMAIN base) = 0
    BY <1>1, FS_EmptySet
  <1>3. {left[k] : k \in 1..0} = {} /\ Len(left) = 0
    BY <1>1
  <1>4. ResolvedInOrder
    BY <1>1, <1>2, <1>3 DEF ResolvedInOrder
  <1> QED
    BY <1>1, <1>4 DEF TableInv, Published

\* While modules are discovered, none is resolved.
LEMMA TableWaits ==
    ASSUME WalkInv, WalkInv', TableInv, UNCHANGED tableVars, stage = "discovering",
           \/ stage' \in {"discovering", "refused"}
           \/ stage' = "resolving" /\ left' # <<>>
    PROVE  TableInv'
  <1>1. Cardinality(DOMAIN base) = 0 /\ DOMAIN base = {left[k] : k \in 1..0} /\ DOMAIN origins = DOMAIN base
    BY DEF TableInv, ResolvedInOrder
  <1>2. DOMAIN base = {}
    BY <1>1
  <1>3. base' = base /\ origins' = origins
    BY DEF tableVars
  <1>4. Len(left') \in Nat /\ (left' # <<>> => Len(left') # 0)
    BY EmptySeq DEF WalkInv, WalkTypes
  <1>5. ResolvedInOrder'
    <2>1. {left'[k] : k \in 1..0} = {}
      OBVIOUS
    <2>2. 0 \in 0..Len(left')
      BY <1>4
    <2> QED
      BY <1>1, <1>2, <1>3, <1>4, <2>1, <2>2 DEF ResolvedInOrder
  <1>6. Published'
    BY DEF Published
  <1> QED
    BY <1>2, <1>3, <1>5, <1>6 DEF TableInv

\* What was resolved of a module stays.
LEMMA ResolvedStays ==
    ASSUME NEW m, Resolved(m), UNCHANGED <<app, ordered, compiled>>,
           base'[m] = base[m], origins'[m] = origins[m]
    PROVE  Resolved(m)'
  <1>1. \A x : Local(x)' = Local(x)
    BY DEF Local
  <1>2. \A t, x : Hands(t, x)' = Hands(t, x) /\ Binds(x)' = Binds(x) /\ DeclaredImports(x)' = DeclaredImports(x)
    BY SameTables
  <1> QED
    BY <1>1, <1>2 DEF Resolved

LEMMA SameGlobals ==
    ASSUME UNCHANGED <<ordered, compiled, base>>
    PROVE  /\ \A t : GlobalOffers(t)' = GlobalOffers(t)
           /\ \A m : SeenOrGlobal(m)' = SeenOrGlobal(m)
  <1>1. \A t : GlobalOffers(t)' = GlobalOffers(t)
    BY DEF GlobalOffers, Reached
  <1>2. \A m : SeenOrGlobal(m)' = SeenOrGlobal(m)
    BY DEF SeenOrGlobal, GlobalOffers, Reached
  <1> QED
    BY <1>1, <1>2

LEMMA TableRests ==
    ASSUME TableInv, UNCHANGED <<app, graphVars, tableVars>>,
           \/ stage' = "refused"
           \/ stage' = stage
           \/ stage \notin {"discovering", "resolving", "publishing", "refused"}
                 /\ stage' \notin {"discovering", "resolving"}
    PROVE  TableInv'
  <1>1. /\ app' = app /\ ordered' = ordered /\ left' = left /\ compiled' = compiled
        /\ base' = base /\ origins' = origins /\ visible' = visible
    BY DEF graphVars, tableVars
  <1>2. ResolvedInOrder'
    BY <1>1 DEF TableInv, ResolvedInOrder
  <1>3. \A m \in DOMAIN base' : Resolved(m)'
    BY <1>1, ResolvedStays DEF TableInv
  <1>4. Published'
    <2>1. /\ \A t : GlobalOffers(t)' = GlobalOffers(t)
          /\ \A m : SeenOrGlobal(m)' = SeenOrGlobal(m)
      BY <1>1, SameGlobals
    <2>2. Reached' = Reached
      BY <1>1 DEF Reached
    <2> QED
      BY <1>1, <2>1, <2>2 DEF TableInv, Published
  <1> QED
    BY <1>2, <1>3, <1>4 DEF TableInv

LEMMA TableResolves ==
    ASSUME WalkInv, TableInv, Resolve
    PROVE  TableInv'
  <1> DEFINE n == Cardinality(DOMAIN base)
             m == left[n + 1]
             s == Seen(m)
  <1>1. stage = "resolving"
    BY DEF Resolve
  <1>2. CASE Collides(m)
    <2>1. Refuse("collision")
      BY <1>2 DEF Resolve
    <2> QED
      BY <2>1, TableRests DEF Refuse
  <1>3. CASE ~Collides(m)
    <2>1. /\ base' = With(base, m, s)
          /\ origins' = With(origins, m, [t \in compiled[m].exports \cap DOMAIN s |-> s[t]])
          /\ stage' = IF n + 1 = Len(left) THEN "publishing" ELSE stage
          /\ UNCHANGED <<app, ordered, left, compiled>>
      BY <1>3 DEF Resolve, graphVars
    <2>2. /\ n \in Nat /\ n + 1 \in 1..Len(left)
          /\ m \in ToSet(left) /\ m \notin DOMAIN base
          /\ DOMAIN base \subseteq ToSet(left)
          /\ DeclaredImports(m) \subseteq DOMAIN base
          /\ {left[k] : k \in 1..(n + 1)} = DOMAIN base \cup {m}
          /\ Cardinality(DOMAIN base \cup {m}) = n + 1
      BY ResolvesNext DEF TableInv
    <2>3. ResolvedInOrder /\ \A k \in DOMAIN base : Resolved(k)
      BY DEF TableInv
    <2>4. DOMAIN origins = DOMAIN base
      BY <2>3 DEF ResolvedInOrder
    <2>5. \A k \in DeclaredImports(m) : k \in ToSet(left) /\ Resolved(k)
      BY <2>2, <2>3
    <2>6. /\ DOMAIN s \subseteq Tokens \cup Local(m)
          /\ \A t \in DOMAIN s : s[t] \in ToSet(ordered) /\ t \in Local(s[t])
          /\ \A t \in Local(m) : t \in DOMAIN s /\ s[t] = m
          /\ \A t \in Tokens \ Binds(m) :
                UNION {Hands(t, k) : k \in DeclaredImports(m)} = IF t \in DOMAIN s THEN {s[t]} ELSE {}
      BY <1>3, <2>2, <2>3, <2>5, ResolvesByOffers
    <2>7. Len(left) \in Nat
      BY DEF WalkInv, WalkTypes
    <2>8. n = Cardinality(DOMAIN base)
      OBVIOUS
    <2> HIDE DEF n, m, s
    <2>9. /\ DOMAIN base' = DOMAIN base \cup {m} /\ DOMAIN origins' = DOMAIN base \cup {m}
          /\ base'[m] = s /\ origins'[m] = [t \in compiled[m].exports \cap DOMAIN s |-> s[t]]
          /\ \A k \in DOMAIN base : base'[k] = base[k] /\ origins'[k] = origins[k]
      BY <2>1, <2>2, <2>4 DEF With
    <2>10. ResolvedInOrder'
      <3>1. Cardinality(DOMAIN base') = n + 1 /\ DOMAIN origins' = DOMAIN base'
        BY <2>2, <2>9
      <3>2. DOMAIN base' = {left'[k] : k \in 1..(n + 1)}
        BY <2>1, <2>2, <2>9
      <3>3. n + 1 \in 0..Len(left) /\ (n + 1 # Len(left) => n + 1 < Len(left))
        BY <2>2, <2>7
      <3> QED
        BY <1>1, <2>1, <3>1, <3>2, <3>3 DEF ResolvedInOrder
    <2>11. \A k \in DOMAIN base : Resolved(k)'
      BY <2>1, <2>3, <2>9, ResolvedStays
    <2>12. \A k : k = m => Resolved(k)'
      <3>1. \A x : Local(x)' = Local(x)
        BY <2>1 DEF Local
      <3>2. \A t, x : Hands(t, x)' = Hands(t, x) /\ Binds(x)' = Binds(x) /\ DeclaredImports(x)' = DeclaredImports(x)
        BY <2>1, SameTables
      <3> SUFFICES ASSUME NEW k, k = m PROVE Resolved(k)'
        OBVIOUS
      <3>3. base'[k] = s /\ origins'[k] = [t \in compiled[k].exports \cap DOMAIN s |-> s[t]]
        BY <2>9
      <3>4. /\ DOMAIN s \subseteq Tokens \cup Local(k)
            /\ \A t \in DOMAIN s : s[t] \in ToSet(ordered) /\ t \in Local(s[t])
            /\ \A t \in Local(k) : t \in DOMAIN s /\ s[t] = k
            /\ \A t \in Tokens \ Binds(k) :
                  UNION {Hands(t, x) : x \in DeclaredImports(k)} = IF t \in DOMAIN s THEN {s[t]} ELSE {}
        BY <2>6
      <3> QED
        BY <2>1, <3>1, <3>2, <3>3, <3>4 DEF Resolved
    <2>13. \A k \in DOMAIN base' : Resolved(k)'
      BY <2>9, <2>11, <2>12
    <2>14. Published'
      BY <1>1, <2>1 DEF Published
    <2> QED
      BY <2>10, <2>13, <2>14 DEF TableInv
  <1> QED
    BY <1>2, <1>3

LEMMA TablePublishes ==
    ASSUME TableInv, Publish
    PROVE  TableInv'
  <1>1. stage = "publishing" /\ UNCHANGED <<app, graphVars, base, origins>>
    BY DEF Publish, Refuse, tableVars
  <1>2. CASE \E t \in Tokens : Cardinality(GlobalOffers(t)) > 1
    <2>1. Refuse("global collision")
      BY <1>2 DEF Publish
    <2> QED
      BY <2>1, TableRests DEF Refuse
  <1>3. CASE \A t \in Tokens : ~(Cardinality(GlobalOffers(t)) > 1)
    <2>1. visible' = [m \in Reached |-> SeenOrGlobal(m)] /\ stage' = "exporting"
      BY <1>3 DEF Publish
    <2>2. /\ app' = app /\ ordered' = ordered /\ left' = left /\ compiled' = compiled
          /\ base' = base /\ origins' = origins
      BY <1>1 DEF graphVars
    <2>3. \A t : GlobalOffers(t)' = GlobalOffers(t)
      BY <2>2, SameGlobals
    <2>4. \A m : SeenOrGlobal(m)' = SeenOrGlobal(m)
      BY <2>2, SameGlobals
    <2>5. Published'
      BY <1>3, <2>1, <2>2, <2>3, <2>4 DEF Published, Reached
    <2>6. ResolvedInOrder'
      BY <1>1, <2>1, <2>2 DEF TableInv, ResolvedInOrder
    <2>7. \A m \in DOMAIN base' : Resolved(m)'
      BY <2>2, ResolvedStays DEF TableInv
    <2> QED
      BY <2>5, <2>6, <2>7 DEF TableInv
  <1> QED
    BY <1>2, <1>3

\* The steps that come after the tables are built leave them alone.
LEMMA TableIsBuilt ==
    ASSUME \/ CheckModules \/ (\E k \in Keys : Settle(k)) \/ Judge
           \/ CompileContracts \/ PlanByPath \/ PlanByHeader \/ CheckCapabilities \/ RegisterNext
    PROVE  /\ UNCHANGED <<app, graphVars, tableVars>>
           /\ stage \notin {"discovering", "resolving", "publishing", "refused"}
           /\ stage' \notin {"discovering", "resolving", "publishing"}
  <1>3. CASE CheckModules
    BY <1>3 DEF CheckModules, Refuse, graphVars
  <1>4. CASE \E k \in Keys : Settle(k)
    BY <1>4 DEF Settle, graphVars
  <1>5. CASE Judge
    BY <1>5 DEF Judge, Refuse, graphVars
  <1>6. CASE CompileContracts
    BY <1>6 DEF CompileContracts, RefusePlan, GoesOn, graphVars
  <1>7. CASE PlanByPath
    BY <1>7 DEF PlanByPath, RefusePlan, assemblyVars, graphVars
  <1>8. CASE PlanByHeader
    BY <1>8 DEF PlanByHeader, RefusePlan, assemblyVars, graphVars
  <1>9. CASE CheckCapabilities
    BY <1>9 DEF CheckCapabilities, RefusePlan, GoesOn, graphVars
  <1>10. CASE RegisterNext
    BY <1>10 DEF RegisterNext, GoesOn, graphVars
  <1> QED
    BY <1>3, <1>4, <1>5, <1>6, <1>7, <1>8, <1>9, <1>10

LEMMA TableGoesOn ==
    ASSUME WalkInv, WalkInv', TableInv, [Next]_bootstrapVars
    PROVE  TableInv'
  <1>1. CASE \E m \in Modules : Skip(m) \/ Enter(m) \/ RejectCycle(m)
    <2>1. UNCHANGED tableVars /\ stage = "discovering" /\ stage' \in {"discovering", "refused"}
      BY <1>1 DEF Skip, Enter, RejectCycle, Importing, Refuse
    <2> QED
      BY <2>1, TableWaits
  <1>2. CASE Leave
    <2>1. UNCHANGED tableVars /\ stage = "discovering" /\ stage' \in {"discovering", "resolving"}
      BY <1>2 DEF Leave
    <2>2. left' # <<>>
      <3>1. left' = Append(left, Here.module) /\ left \in Seq(Modules)
        BY <1>2 DEF Leave, WalkInv, WalkTypes
      <3> QED
        BY <3>1
    <2> QED
      BY <2>1, <2>2, TableWaits
  <1>3. CASE Resolve
    BY <1>3, TableResolves
  <1>4. CASE Publish
    BY <1>4, TablePublishes
  <1>5. CASE \/ CheckModules \/ (\E k \in Keys : Settle(k)) \/ Judge
             \/ CompileContracts \/ PlanByPath \/ PlanByHeader \/ CheckCapabilities \/ RegisterNext
    BY <1>5, TableIsBuilt, TableRests
  <1>6. CASE UNCHANGED bootstrapVars
    BY <1>6, TableRests DEF bootstrapVars, assemblyVars
  <1> QED
    BY <1>1, <1>2, <1>3, <1>4, <1>5, <1>6 DEF Next, AssemblyNext

\* _build_visibility_tables: each module is resolved after its imports, to the modules that
\* bind what it may ask for.
THEOREM ModulesResolveInOrder ==
    Spec => [](WalkInv /\ TableInv)
  <1>1. WalkInv /\ TableInv /\ [Next]_bootstrapVars => WalkInv' /\ TableInv'
    BY WalkGoesOn, TableGoesOn
  <1>2. Init => WalkInv /\ TableInv
    BY WalkStarts, TableStarts
  <1> QED
    BY <1>1, <1>2, PTL DEF Spec

\* What the global modules publish under a token is what they hand over.
LEMMA GlobalsAreHands ==
    ASSUME WalkInv, TableInv, NEW t \in Tokens,
           stage \notin {"discovering", "resolving", "refused"}
    PROVE  /\ GlobalOffers(t) = UNION {Hands(t, g) : g \in {g \in ReachedFromRoot : Expanded(g).isGlobal}}
           /\ \A o \in GlobalOffers(t) : o \in ToSet(ordered) /\ t \in Local(o)
           /\ IsFiniteSet(GlobalOffers(t))
  <1> DEFINE globals == {g \in ReachedFromRoot : Expanded(g).isGlobal}
             all == UNION {Hands(t, g) : g \in globals}
  <1>1. ToSet(ordered) = ReachedFromRoot /\ ToSet(left) = ReachedFromRoot /\ Reached = ReachedFromRoot
    BY WalkFinds DEF GraphIsTheImports, Reached
  <1>2. DOMAIN base = ToSet(left)
    <2>1. left \in Seq(Modules) /\ DOMAIN left = 1..Len(left)
      BY DEF WalkInv, WalkTypes
    <2>2. DOMAIN base = {left[k] : k \in 1..Len(left)}
      BY DEF TableInv, ResolvedInOrder
    <2> QED
      BY <2>1, <2>2 DEF ToSet
  <1>3. \A m \in ToSet(left) :
           /\ compiled[m].isGlobal = Expanded(m).isGlobal
           /\ Hands(t, m) = IF t \in DOMAIN origins[m] THEN {origins[m][t]} ELSE {}
           /\ t \in DOMAIN origins[m] <=> t \in compiled[m].exports \cap DOMAIN base[m]
           /\ t \in DOMAIN origins[m] =>
                 /\ origins[m][t] = base[m][t]
                 /\ origins[m][t] \in ToSet(ordered) /\ t \in Local(origins[m][t])
    BY <1>2, LeftIsCompiled, HandsAreOrigins DEF TableInv
  <1>4. \A o : o \in GlobalOffers(t) <=>
           \E m \in globals : t \in compiled[m].exports \cap DOMAIN base[m] /\ o = base[m][t]
    BY <1>1, <1>3 DEF GlobalOffers
  <1>5. \A o : o \in GlobalOffers(t) <=> \E m \in globals : o \in Hands(t, m)
    BY <1>1, <1>3, <1>4
  <1>6. GlobalOffers(t) = all
    <2>1. \A o : o \in all <=> \E m \in globals : o \in Hands(t, m)
      OBVIOUS
    <2> HIDE DEF all
    <2>2. \A o : o \in all <=> o \in GlobalOffers(t)
      BY <1>5, <2>1
    <2> QED
      BY <2>2 DEF GlobalOffers
  <1>7. \A o \in GlobalOffers(t) : o \in ToSet(ordered) /\ t \in Local(o)
    BY <1>1, <1>3, <1>4
  <1>8. IsFiniteSet(GlobalOffers(t))
    <2>1. ordered \in Seq(Modules)
      BY DEF WalkInv, WalkTypes
    <2>2. GlobalOffers(t) \in SUBSET Modules
      BY <1>7, <2>1, OwnEntries
    <2> QED
      BY <2>2, AssemblyAssumption, FS_Subset
  <1> QED
    BY <1>6, <1>7, <1>8

\* What a module sees once the tables are built: one module for each token.
LEMMA EachIsLocated ==
    ASSUME WalkInv, TableInv,
           stage \notin {"discovering", "resolving", "publishing", "refused"},
           NEW m \in Reached
    PROVE  /\ DOMAIN visible[m] \subseteq Tokens \cup Local(m)
           /\ \A t \in DOMAIN visible[m] : visible[m][t] \in Reached /\ t \in Local(visible[m][t])
           /\ \A t \in Tokens : Answerers(m, t) = IF Located(t, m) THEN {visible[m][t]} ELSE {}
  <1> DEFINE one(t) == CHOOSE o \in GlobalOffers(t) : TRUE
             globals(t) == UNION {Hands(t, g) : g \in {g \in ReachedFromRoot : Expanded(g).isGlobal}}
  <1>1. /\ m \in ToSet(left) /\ DOMAIN base = ToSet(left) /\ Reached = ToSet(ordered)
    <2>1. left \in Seq(Modules) /\ DOMAIN left = 1..Len(left)
      BY DEF WalkInv, WalkTypes
    <2>2. DOMAIN base = {left[k] : k \in 1..Len(left)}
      BY DEF TableInv, ResolvedInOrder
    <2>3. DOMAIN base = ToSet(left)
      BY <2>1, <2>2 DEF ToSet
    <2> QED
      BY <2>3, WalkFinds DEF GraphIsTheImports, Reached
  <1>2. Resolved(m) /\ m \in Modules /\ compiled[m] = Compiled(m) /\ IsApplication(app)
    BY <1>1, LeftIsCompiled DEF TableInv
  <1>3. visible[m] = SeenOrGlobal(m) /\ \A t \in Tokens : ~(Cardinality(GlobalOffers(t)) > 1)
    BY DEF TableInv, Published
  <1>4. /\ DOMAIN visible[m] = DOMAIN base[m] \cup {t \in Tokens : GlobalOffers(t) # {}}
        /\ \A t \in DOMAIN base[m] : visible[m][t] = base[m][t]
        /\ \A t \in DOMAIN visible[m] : t \notin DOMAIN base[m] => visible[m][t] = one(t)
    BY <1>3 DEF SeenOrGlobal
  <1>5. \A t \in Tokens : /\ GlobalOffers(t) = globals(t)
                          /\ \A o \in GlobalOffers(t) : o \in ToSet(ordered) /\ t \in Local(o)
                          /\ IsFiniteSet(GlobalOffers(t))
    BY GlobalsAreHands
  <1>6. \A t \in Tokens : GlobalOffers(t) # {} => GlobalOffers(t) = {one(t)}
    <2> SUFFICES ASSUME NEW t \in Tokens, GlobalOffers(t) # {} PROVE GlobalOffers(t) = {one(t)}
      OBVIOUS
    <2>1. IsFiniteSet(GlobalOffers(t)) /\ ~(Cardinality(GlobalOffers(t)) > 1)
      BY <1>3, <1>5
    <2> QED
      BY <2>1, AtMostOne
  <1>7. \A t \in Tokens : t \in Local(m) <=> t \in Binds(m)
    BY <1>2, LocalTokens
  <1> HIDE DEF one, globals
  <1>8. DOMAIN visible[m] \subseteq Tokens \cup Local(m)
    BY <1>2, <1>4 DEF Resolved
  <1>9. ASSUME NEW t \in DOMAIN visible[m]
        PROVE  visible[m][t] \in Reached /\ t \in Local(visible[m][t])
    <2>1. CASE t \in DOMAIN base[m]
      BY <1>1, <1>2, <1>4, <2>1 DEF Resolved
    <2>2. CASE t \notin DOMAIN base[m]
      <3>1. t \in Tokens /\ GlobalOffers(t) # {} /\ visible[m][t] = one(t)
        BY <1>4, <2>2
      <3>2. one(t) \in GlobalOffers(t)
        BY <1>6, <3>1
      <3> QED
        BY <1>1, <1>5, <3>1, <3>2
    <2> QED
      BY <2>1, <2>2
  <1>10. ASSUME NEW t \in Tokens
         PROVE  Answerers(m, t) = IF Located(t, m) THEN {visible[m][t]} ELSE {}
    <2> DEFINE imported == UNION {Hands(t, k) : k \in DeclaredImports(m)}
    <2>1. Answerers(m, t) = IF t \in Binds(m) THEN {m} ELSE IF imported # {} THEN imported ELSE globals(t)
      BY DEF Answerers, globals
    <2>2. t \in Binds(m) => t \in DOMAIN base[m] /\ base[m][t] = m
      BY <1>2, <1>7 DEF Resolved
    <2>3. t \notin Binds(m) => imported = IF t \in DOMAIN base[m] THEN {base[m][t]} ELSE {}
      BY <1>2 DEF Resolved
    <2> HIDE DEF imported
    <2>4. Located(t, m) <=> t \in DOMAIN base[m] \/ GlobalOffers(t) # {}
      BY <1>4 DEF Located
    <2>5. CASE t \in DOMAIN base[m]
      BY <1>4, <2>1, <2>2, <2>3, <2>4, <2>5
    <2>6. CASE t \notin DOMAIN base[m]
      <3>1. Answerers(m, t) = GlobalOffers(t)
        BY <1>5, <2>1, <2>2, <2>3, <2>6
      <3>2. GlobalOffers(t) # {} => visible[m][t] = one(t)
        BY <1>4, <2>6
      <3> QED
        BY <1>6, <2>4, <2>6, <3>1, <3>2
    <2> QED
      BY <2>5, <2>6
  <1> QED
    BY <1>8, <1>9, <1>10

\* _build_visibility_tables: a module that sees a token has one answer for it, the module
\* that binds it and hands it on through the imports, or through the global exports.
THEOREM EachTokenHasOneAnswer ==
    Spec => []OneAnswerPerToken
  <1>1. WalkInv /\ TableInv => OneAnswerPerToken
    BY EachIsLocated DEF OneAnswerPerToken
  <1> QED
    BY <1>1, ModulesResolveInOrder, PTL

-----------------------------------------------------------------------------
(* The plan: nothing is kept longer than what it holds.                      *)

\* What the first module to build a class is charged with for it leaves nothing out that
\* another module which builds the class sees: so it is where no two modules build one class.
AllCharged == \A k \in Keys : Asks(k) \subseteq Needs(k)

\* A binding that has a lifetime starts from it and stays with it; an application that is
\* not refused has come to a fixed point, with nothing that escapes its owner and nothing
\* that cannot be built.
ScopesInv ==
    /\ stage \notin {"discovering", "resolving", "publishing", "exporting", "refused"} =>
          DOMAIN scopes = Keys /\ \A k \in Keys : ~PassesThrough(k) => scopes[k] = Of(k).scope
    /\ stage \notin {"discovering", "resolving", "publishing", "exporting", "planning", "refused"} =>
          Unsettled = {} /\ \A k \in Keys : ~Violates(k) /\ ~Unsatisfied(k)

\* How wide a lifetime is.
LEMMA Widths ==
    /\ \A s : Width(s) \in 0..3 /\ Width(s) <= Width("transient")
    /\ \A s : Width(s) = 0 <=> s = "request"
  BY DEF Width

\* The narrowest of some lifetimes is none wider than any of them.
LEMMA NarrowestIsLeast ==
    ASSUME NEW ss, NEW s \in ss
    PROVE  Width(Narrowest(ss)) <= Width(s)
  <1> DEFINE all == ss \cup {"transient"}
             widths == {Width(x) : x \in all}
  <1>1. widths \in SUBSET Nat /\ widths # {}
    BY Widths
  <1>2. PICK n \in widths : \A k \in widths : n <= k
    <2> HIDE DEF widths
    <2> QED
      BY <1>1, LeastNumber
  <1>3. PICK x \in all : n = Width(x)
    BY <1>2
  <1>4. \A y \in all : Width(x) <= Width(y)
    BY <1>2, <1>3
  <1>5. \E s1 \in ss \cup {"transient"} : \A y \in ss : Width(s1) <= Width(y)
    BY <1>4
  <1>6. \A y \in ss : Width(Narrowest(ss)) <= Width(y)
    BY <1>5 DEF Narrowest
  <1> QED
    BY <1>6

\* The bindings of the modules that were reached, and what they see.
LEMMA SeenIsBound ==
    ASSUME WalkInv, TableInv,
           stage \notin {"discovering", "resolving", "publishing", "refused"},
           NEW k \in Keys, NEW t, Located(t, k[1])
    PROVE  At(t, k[1]) \in Keys /\ At(t, k[1])[2] = t
  <1>1. DOMAIN compiled = Reached
    BY DEF WalkInv, WalkTypes, Reached
  <1>2. k[1] \in Reached
    BY <1>1 DEF Keys
  <1>3. visible[k[1]][t] \in Reached /\ t \in Local(visible[k[1]][t])
    BY <1>2, EachIsLocated DEF Located
  <1> QED
    BY <1>1, <1>3 DEF Keys, At

\* One hop: what a binding is charged with is no narrower than it.
LEMMA HopIsNoNarrower ==
    ASSUME WalkInv, TableInv, ScopesInv,
           stage \notin {"discovering", "resolving", "publishing", "exporting", "planning", "refused"},
           NEW k \in Keys, NEW t \in Needs(k)
    PROVE  Width(scopes[k]) <= Width(ReachedScope(t, k[1]))
  <1>1. CASE PassesThrough(k)
    <2>1. scopes[k] = Narrowest({ReachedScope(x, k[1]) : x \in Needs(k)})
      BY <1>1 DEF ScopesInv, Unsettled, Narrowed
    <2>2. ReachedScope(t, k[1]) \in {ReachedScope(x, k[1]) : x \in Needs(k)}
      OBVIOUS
    <2> QED
      BY <2>1, <2>2, NarrowestIsLeast
  <1>2. CASE ~PassesThrough(k)
    <2>1. scopes[k] = Of(k).scope /\ ~Escapes(k, t)
      BY <1>2 DEF ScopesInv, Violates
    <2>2. Width(Of(k).scope) \in 0..3 /\ Width(ReachedScope(t, k[1])) \in 0..3
      BY Widths
    <2>3. CASE ReachedScope(t, k[1]) = "transient"
      BY <2>1, <2>3, Widths
    <2>4. CASE ~(Width(Of(k).scope) > Width(ReachedScope(t, k[1])))
      BY <2>1, <2>2, <2>4
    <2> QED
      BY <2>1, <2>3, <2>4 DEF Escapes
  <1> QED
    BY <1>1, <1>2

\* What a binding holds directly is no narrower than whoever is no wider than the binding.
LEMMA DirectIsNoNarrower ==
    ASSUME WalkInv, TableInv, ScopesInv, AllCharged,
           stage \notin {"discovering", "resolving", "publishing", "exporting", "planning", "refused"},
           NEW k \in Keys, NEW j \in Direct(k), NEW w \in 0..3, w <= Width(scopes[k])
    PROVE  /\ j[2] \in RequestDerived => w = 0
           /\ j[2] \notin RequestDerived => j \in Keys /\ w <= Width(scopes[j])
  <1>1. Asks(k) \subseteq Needs(k)
    BY DEF AllCharged
  <1>2. Width(scopes[k]) \in 0..3
    BY Widths
  <1>3. CASE j \in {<<k[1], t>> : t \in Asks(k) \cap RequestDerived}
    <2>1. PICK t \in Asks(k) : t \in RequestDerived /\ j = <<k[1], t>>
      BY <1>3
    <2>2. ReachedScope(t, k[1]) = "request"
      BY <2>1 DEF ReachedScope
    <2>3. Width(scopes[k]) <= 0
      <3>1. Width(scopes[k]) <= Width(ReachedScope(t, k[1]))
        BY <1>1, HopIsNoNarrower
      <3> QED
        BY <2>2, <3>1, Widths
    <2> QED
      BY <1>2, <2>1, <2>3
  <1>4. CASE j \in {At(t, k[1]) : t \in {t \in Asks(k) \ RequestDerived : Located(t, k[1])}}
    <2>1. PICK t \in Asks(k) : t \notin RequestDerived /\ Located(t, k[1]) /\ j = At(t, k[1])
      BY <1>4
    <2>2. ReachedScope(t, k[1]) = scopes[j]
      BY <2>1 DEF ReachedScope
    <2>3. Width(scopes[k]) <= Width(scopes[j])
      BY <1>1, <2>2, HopIsNoNarrower
    <2>4. j \in Keys /\ j[2] = t
      BY <2>1, SeenIsBound
    <2>5. Width(scopes[j]) \in 0..3
      BY Widths
    <2> QED
      BY <1>2, <2>1, <2>3, <2>4, <2>5
  <1> QED
    BY <1>3, <1>4 DEF Direct

\* So is what it holds through any chain of transients and aliases.
LEMMA HeldIsNoNarrower ==
    ASSUME WalkInv, TableInv, ScopesInv, AllCharged,
           stage \notin {"discovering", "resolving", "publishing", "exporting", "planning", "refused"},
           NEW k \in Keys, ~PassesThrough(k), NEW j \in Held(k)
    PROVE  ~Outlives(k, j)
  <1> DEFINE w == Width(Of(k).scope)
             through == {x \in Keys : PassesThrough(x)}
             step == [x \in through |-> Direct(x) \cap through]
             between == Closure(Direct(k) \cap through, step)
             good == {x \in through : w <= Width(scopes[x])}
  <1>1. scopes[k] = Of(k).scope
    BY DEF ScopesInv
  <1>2. w \in 0..3 /\ w <= Width(scopes[k])
    <2>1. Width(Of(k).scope) \in 0..3
      BY Widths
    <2> QED
      BY <1>1, <2>1
  <1>3. /\ DOMAIN step = through
        /\ \A x \in through : step[x] = Direct(x) \cap through
    OBVIOUS
  <1>4. Held(k) = Direct(k) \cup UNION {Direct(x) : x \in between}
    BY DEF Held
  <1>5. (w = 0) => Of(k).scope = "request"
    BY Widths
  <1> HIDE DEF w
  <1>6. ASSUME NEW x \in Keys, w <= Width(scopes[x]), NEW y \in Direct(x)
        PROVE  /\ y[2] \in RequestDerived => w = 0
               /\ y[2] \notin RequestDerived => y \in Keys /\ w <= Width(scopes[y])
    BY <1>2, <1>6, DirectIsNoNarrower
  <1>7. \A x \in Keys : w <= Width(scopes[x]) => Direct(x) \cap through \subseteq good
    <2> SUFFICES ASSUME NEW x \in Keys, w <= Width(scopes[x]), NEW y \in Direct(x) \cap through
                 PROVE  w <= Width(scopes[y])
      OBVIOUS
    <2>1. CASE y[2] \in RequestDerived
      <3>1. w = 0 /\ Width(scopes[y]) \in 0..3
        BY <1>6, <2>1, Widths
      <3> QED
        BY <3>1
    <2>2. CASE y[2] \notin RequestDerived
      BY <1>6, <2>2
    <2> QED
      BY <2>1, <2>2
  <1>8. between \subseteq good
    <2>1. Direct(k) \cap through \subseteq good
      BY <1>2, <1>7
    <2>2. good \in SUBSET DOMAIN step
      BY <1>3
    <2>3. \A x \in good : step[x] \subseteq good
      BY <1>3, <1>7
    <2>4. Closure(Direct(k) \cap through, step) \subseteq good
      <3> HIDE DEF step, good, through
      <3> QED
        BY <2>1, <2>2, <2>3, ClosureIsLeast
    <2> QED
      BY <2>4
  <1>9. PICK x \in Keys : w <= Width(scopes[x]) /\ j \in Direct(x)
    <2>1. CASE j \in Direct(k)
      BY <1>2, <2>1
    <2>2. CASE \E x \in between : j \in Direct(x)
      BY <1>8, <2>2
    <2> HIDE DEF between
    <2> QED
      BY <1>4, <2>1, <2>2
  <1>10. CASE j[2] \in RequestDerived
    <2>1. w = 0
      BY <1>6, <1>9, <1>10
    <2> QED
      BY <1>5, <1>10, <2>1 DEF Outlives
  <1>11. CASE j[2] \notin RequestDerived
    <2>1. j \in Keys /\ w <= Width(scopes[j])
      BY <1>6, <1>9, <1>11
    <2>2. CASE PassesThrough(j)
      BY <1>11, <2>2 DEF Outlives
    <2>3. CASE ~PassesThrough(j)
      <3>1. scopes[j] = Of(j).scope
        BY <2>1, <2>3 DEF ScopesInv
      <3>2. Width(Of(j).scope) \in 0..3
        BY Widths
      <3>3. ~(w > Width(Of(j).scope))
        BY <1>2, <2>1, <3>1, <3>2
      <3> QED
        BY <1>11, <3>3 DEF Outlives, w
    <2> QED
      BY <2>2, <2>3
  <1> QED
    BY <1>10, <1>11

\* What a plan starts from, whatever the scopes are.
LEMMA SameHolds ==
    ASSUME UNCHANGED <<ordered, compiled, visible>>
    PROVE  /\ Keys' = Keys
           /\ \A k : /\ Of(k)' = Of(k) /\ PassesThrough(k)' = PassesThrough(k)
                     /\ Unsatisfied(k)' = Unsatisfied(k) /\ Needs(k)' = Needs(k)
                     /\ Asks(k)' = Asks(k) /\ Held(k)' = Held(k)
           /\ \A t, m : Located(t, m)' = Located(t, m) /\ At(t, m)' = At(t, m)
  <1>1. Keys' = Keys
    BY DEF Keys, Registered, Local
  <1>2. \A k : Of(k)' = Of(k)
    BY DEF Of, Local
  <1>3. \A k : Sees(k)' = Sees(k)
    BY DEF Sees
  <1>4. \A k : PassesThrough(k)' = PassesThrough(k) /\ IsPlanned(k)' = IsPlanned(k)
    BY <1>2 DEF PassesThrough, IsPlanned
  <1>5. \A k : Unsatisfied(k)' = Unsatisfied(k)
    BY <1>2, <1>3, <1>4 DEF Unsatisfied
  <1>6. \A k : Charged(k)' = Charged(k)
    <2> SUFFICES ASSUME NEW k PROVE Charged(k)' = Charged(k)
      OBVIOUS
    <2> DEFINE builders == {n \in DOMAIN ordered :
                   \E j \in Keys : /\ j[1] = ordered[n] /\ IsPlanned(j) /\ Of(j).of = Of(k).of
                                   /\ ~Unsatisfied(j)}
    <2>1. Charged(k) = IF builders = {} THEN {} ELSE HeldBy(Of(k).constructor, Sees(ordered[Min(builders)]))
      BY DEF Charged
    <2>2. Charged(k)' = IF builders' = {} THEN {}
                        ELSE HeldBy(Of(k)'.constructor, Sees(ordered[Min(builders)])')
      BY DEF Charged
    <2>3. builders' = builders
      BY <1>1, <1>2, <1>4, <1>5
    <2> HIDE DEF builders
    <2>4. Sees(ordered[Min(builders)])' = Sees(ordered[Min(builders)])
      BY <2>3 DEF Sees
    <2> QED
      BY <1>2, <2>1, <2>2, <2>3, <2>4
  <1>7. \A k : Needs(k)' = Needs(k)
    BY <1>2, <1>4, <1>6 DEF Needs
  <1>8. \A t, m : Located(t, m)' = Located(t, m) /\ At(t, m)' = At(t, m)
    BY DEF Located, At
  <1>9. \A k : Asks(k)' = Asks(k)
    BY <1>2, <1>3, <1>4 DEF Asks
  <1>10. \A k : Direct(k)' = Direct(k)
    BY <1>8, <1>9 DEF Direct
  <1>11. ASSUME NEW k PROVE Held(k)' = Held(k)
    <2> DEFINE through == {j \in Keys : PassesThrough(j)}
               step == [j \in through |-> Direct(j) \cap through]
               between == Closure(Direct(k) \cap through, step)
    <2>1. through' = through
      BY <1>1, <1>4
    <2>2. step' = step
      BY <1>10, <2>1
    <2>3. between' = between
      <3> HIDE DEF step, through
      <3> QED
        BY <1>10, <2>1, <2>2
    <2>4. /\ Held(k) = Direct(k) \cup UNION {Direct(j) : j \in between}
          /\ Held(k)' = Direct(k)' \cup UNION {Direct(j)' : j \in between'}
      BY DEF Held
    <2> HIDE DEF between
    <2> QED
      BY <1>10, <2>3, <2>4
  <1> QED
    BY <1>1, <1>2, <1>4, <1>5, <1>7, <1>8, <1>9, <1>11

\* What the plan is read off.
LEMMA SamePlan ==
    ASSUME UNCHANGED <<ordered, compiled, visible, scopes>>
    PROVE  /\ Keys' = Keys /\ Unsettled' = Unsettled
           /\ \A k : /\ Of(k)' = Of(k) /\ PassesThrough(k)' = PassesThrough(k)
                     /\ Violates(k)' = Violates(k) /\ Unsatisfied(k)' = Unsatisfied(k)
  <1>1. /\ Keys' = Keys
        /\ \A k : Of(k)' = Of(k) /\ PassesThrough(k)' = PassesThrough(k) /\ Needs(k)' = Needs(k)
        /\ \A k : Unsatisfied(k)' = Unsatisfied(k)
        /\ \A t, m : Located(t, m)' = Located(t, m) /\ At(t, m)' = At(t, m)
    BY SameHolds
  <1>2. \A t, m : ReachedScope(t, m)' = ReachedScope(t, m)
    BY <1>1 DEF ReachedScope
  <1>3. \A k : Narrowed(k)' = Narrowed(k)
    BY <1>1, <1>2 DEF Narrowed
  <1>4. Unsettled' = Unsettled
    BY <1>1, <1>3 DEF Unsettled
  <1>5. \A k, t : Escapes(k, t)' = Escapes(k, t)
    BY <1>1, <1>2 DEF Escapes
  <1>6. \A k : Violates(k)' = Violates(k)
    BY <1>1, <1>5 DEF Violates
  <1> QED
    BY <1>1, <1>4, <1>6

LEMMA ScopesRest ==
    ASSUME ScopesInv, UNCHANGED <<ordered, compiled, visible, scopes>>,
           \/ stage' = stage
           \/ stage \notin {"discovering", "resolving", "publishing", "exporting", "planning", "refused"}
           \/ stage' \in {"discovering", "resolving", "publishing", "exporting", "refused"}
    PROVE  ScopesInv'
  <1>1. /\ Keys' = Keys /\ Unsettled' = Unsettled
        /\ \A k : /\ Of(k)' = Of(k) /\ PassesThrough(k)' = PassesThrough(k)
                  /\ Violates(k)' = Violates(k) /\ Unsatisfied(k)' = Unsatisfied(k)
    BY SamePlan
  <1> QED
    BY <1>1 DEF ScopesInv

LEMMA ScopesGoOn ==
    ASSUME ScopesInv, [Next]_bootstrapVars
    PROVE  ScopesInv'
  <1>1. CASE \E m \in Modules : Skip(m) \/ Enter(m) \/ RejectCycle(m)
    <2>1. stage' \in {"discovering", "refused"}
      BY <1>1 DEF Skip, Enter, RejectCycle, Importing, Refuse
    <2> QED
      BY <2>1 DEF ScopesInv
  <1>2. CASE Leave
    <2>1. stage' \in {"discovering", "resolving"}
      BY <1>2 DEF Leave
    <2> QED
      BY <2>1 DEF ScopesInv
  <1>3. CASE Resolve
    <2>1. stage' \in {"resolving", "publishing", "refused"}
      BY <1>3 DEF Resolve, Refuse
    <2> QED
      BY <2>1 DEF ScopesInv
  <1>4. CASE Publish
    <2>1. stage' \in {"exporting", "refused"}
      BY <1>4 DEF Publish, Refuse
    <2> QED
      BY <2>1 DEF ScopesInv
  <1>5. CASE CheckModules
    <2>1. CASE stage' = "refused"
      BY <2>1 DEF ScopesInv
    <2>2. CASE stage' # "refused"
      <3>1. /\ scopes' = [k \in Keys |-> Of(k).scope] /\ stage' = "planning"
            /\ UNCHANGED <<ordered, compiled, visible>>
        BY <1>5, <2>2 DEF CheckModules, Refuse, graphVars, tableVars
      <3>2. Keys' = Keys /\ \A k : Of(k)' = Of(k)
        BY <3>1, SameHolds
      <3> QED
        BY <3>1, <3>2 DEF ScopesInv
    <2> QED
      BY <2>1, <2>2
  <1>6. CASE \E k \in Keys : Settle(k)
    <2>1. PICK k \in Keys : Settle(k)
      BY <1>6
    <2>2. /\ stage = "planning" /\ stage' = stage /\ k \in Unsettled
          /\ scopes' = [scopes EXCEPT ![k] = Narrowed(k)]
          /\ UNCHANGED <<ordered, compiled, visible>>
      BY <2>1 DEF Settle, graphVars, tableVars
    <2>3. Keys' = Keys /\ \A j : Of(j)' = Of(j) /\ PassesThrough(j)' = PassesThrough(j)
      BY <2>2, SameHolds
    <2>4. PassesThrough(k)
      BY <2>2 DEF Unsettled
    <2>5. DOMAIN scopes = Keys /\ \A j \in Keys : ~PassesThrough(j) => scopes[j] = Of(j).scope
      BY <2>2 DEF ScopesInv
    <2>6. DOMAIN scopes' = Keys
      BY <2>2, <2>5
    <2>7. \A j \in Keys : ~PassesThrough(j) => scopes'[j] = Of(j).scope
      BY <2>2, <2>4, <2>5
    <2> QED
      BY <2>2, <2>3, <2>6, <2>7 DEF ScopesInv
  <1>7. CASE Judge
    <2>1. stage = "planning" /\ Unsettled = {}
      BY <1>7 DEF Judge
    <2>2. CASE \E k \in Keys : Violates(k) \/ Unsatisfied(k)
      <3>1. stage' = "refused"
        BY <1>7, <2>2 DEF Judge, Refuse
      <3> QED
        BY <3>1 DEF ScopesInv
    <2>3. CASE ~\E k \in Keys : Violates(k) \/ Unsatisfied(k)
      <3>1. UNCHANGED <<ordered, compiled, visible, scopes>>
        BY <1>7, <2>3 DEF Judge, graphVars, tableVars
      <3>2. /\ Keys' = Keys /\ Unsettled' = Unsettled
            /\ \A k : /\ Of(k)' = Of(k) /\ PassesThrough(k)' = PassesThrough(k)
                      /\ Violates(k)' = Violates(k) /\ Unsatisfied(k)' = Unsatisfied(k)
        BY <3>1, SamePlan
      <3> QED
        BY <2>1, <2>3, <3>1, <3>2 DEF ScopesInv
    <2> QED
      BY <2>2, <2>3
  <1>8. CASE \/ CompileContracts \/ PlanByPath \/ PlanByHeader \/ CheckCapabilities \/ RegisterNext
    <2>1. stage \in {"assembled", "routing", "registering"} /\ UNCHANGED <<graphVars, tableVars, scopes>>
      <3>1. CASE CompileContracts
        BY <3>1 DEF CompileContracts, RefusePlan, GoesOn
      <3>2. CASE PlanByPath
        BY <3>2 DEF PlanByPath, RefusePlan, assemblyVars
      <3>3. CASE PlanByHeader
        BY <3>3 DEF PlanByHeader, RefusePlan, assemblyVars
      <3>4. CASE CheckCapabilities
        BY <3>4 DEF CheckCapabilities, RefusePlan, GoesOn
      <3>5. CASE RegisterNext
        BY <3>5 DEF RegisterNext, GoesOn
      <3> QED
        BY <1>8, <3>1, <3>2, <3>3, <3>4, <3>5
    <2> QED
      BY <2>1, ScopesRest DEF graphVars, tableVars
  <1>9. CASE UNCHANGED bootstrapVars
    BY <1>9, ScopesRest DEF bootstrapVars, assemblyVars, graphVars, tableVars
  <1> QED
    BY <1>1, <1>2, <1>3, <1>4, <1>5, <1>6, <1>7, <1>8, <1>9 DEF Next, AssemblyNext

\* The scopes of an application are solved for the graph that its modules make.
THEOREM ScopesAreSolved ==
    Spec => [](WalkInv /\ TableInv /\ ScopesInv)
  <1>1. Init => ScopesInv
    BY DEF Init, AssemblyInit, ScopesInv
  <1>2. ScopesInv /\ [Next]_bootstrapVars => ScopesInv'
    BY ScopesGoOn
  <1> QED
    BY <1>1, <1>2, ModulesResolveInOrder, PTL DEF Spec

\* planning/scopes.py: once the scopes have settled and nothing was refused, what is found by
\* one hop at a time holds for any chain: no instance is kept longer than something it holds,
\* however many transients and aliases are in between.
THEOREM NothingOutlivesWhatItHolds ==
    Spec => [](AllCharged => NothingOutlivesItsParts)
  <1>1. WalkInv /\ TableInv /\ ScopesInv => (AllCharged => NothingOutlivesItsParts)
    BY HeldIsNoNarrower DEF NothingOutlivesItsParts
  <1> QED
    BY <1>1, ScopesAreSolved, PTL

-----------------------------------------------------------------------------
(* The plan of routes.                                                       *)

\* A function on an interval from 1 is a sequence.
LEMMA IntervalIsSeq ==
    ASSUME NEW n \in Nat, NEW f, f = [i \in 1..n |-> f[i]]
    PROVE  IsSequence(f) /\ Len(f) = n /\ ToSet(f) = {f[i] : i \in 1..n}
  <1>1. DOMAIN f = 1..n
    OBVIOUS
  <1>2. f \in [1..n -> ToSet(f)]
    BY <1>1 DEF ToSet
  <1>3. f \in Seq(ToSet(f)) /\ Len(f) = n
    BY <1>2, SeqDef
  <1> QED
    BY <1>1, <1>3 DEF IsSequence, ToSet

\* FlattenSeq goes through a sequence of sequences and puts each behind what it has so far.
LEMMA FlattenGoesThrough ==
    ASSUME NEW S, NEW ss \in Seq(Seq(S))
    PROVE  \E g : /\ g = [i \in 1..Len(ss) |-> IF i = 1 THEN ss[i] ELSE g[i - 1] \o ss[i]]
                  /\ FlattenSeq(ss) = IF Len(ss) = 0 THEN ss ELSE g[Len(ss)]
  <1> DEFINE n == Len(ss)
             flatten[i \in 1..n] == IF i = 1 THEN ss[i] ELSE flatten[i - 1] \o ss[i]
             Flat(k, g) == g = [i \in 1..k |-> IF i = 1 THEN ss[i] ELSE g[i - 1] \o ss[i]]
             Fails == {k \in 0..n : ~\E g : Flat(k, g)}
  <1>0. n \in Nat /\ DOMAIN ss = 1..n /\ \A i \in 1..n : ss[i] \in Seq(S)
    BY ElementOfSeq
  <1>1. FlattenSeq(ss) = IF n = 0 THEN ss ELSE flatten[n]
    BY DEF FlattenSeq
  <1> HIDE DEF n
  <1>2. \E g : Flat(0, g)
    <2>1. Flat(0, [i \in 1..0 |-> 0])
      OBVIOUS
    <2> QED
      BY <2>1
  <1>3. ASSUME NEW k \in 1..n, NEW g, Flat(k - 1, g)
        PROVE  \E h : Flat(k, h)
    <2> DEFINE h == [i \in 1..k |-> IF i = k THEN (IF i = 1 THEN ss[i] ELSE g[i - 1] \o ss[i]) ELSE g[i]]
    <2>1. /\ \A i \in 1..k : i = k \/ i \in 1..(k - 1)
          /\ \A i \in 1..k : i # 1 => i - 1 \in 1..(k - 1) /\ i - 1 # k
          /\ \A i \in 1..(k - 1) : i \in 1..k /\ i # k
      BY <1>0
    <2>2. \A i \in 1..(k - 1) : g[i] = IF i = 1 THEN ss[i] ELSE g[i - 1] \o ss[i]
      BY <1>3
    <2>3. \A i \in 1..(k - 1) : h[i] = g[i]
      BY <2>1
    <2>4. \A i \in 1..k : h[i] = IF i = 1 THEN ss[i] ELSE h[i - 1] \o ss[i]
      <3> SUFFICES ASSUME NEW i \in 1..k PROVE h[i] = IF i = 1 THEN ss[i] ELSE h[i - 1] \o ss[i]
        OBVIOUS
      <3>1. i # 1 => h[i - 1] = g[i - 1]
        BY <2>1, <2>3
      <3>2. CASE i = k
        BY <3>1, <3>2
      <3>3. CASE i # k
        <4>1. i \in 1..(k - 1)
          BY <2>1, <3>3
        <4> HIDE DEF h
        <4> QED
          BY <2>2, <2>3, <3>1, <4>1
      <3> QED
        BY <3>2, <3>3
    <2>6. h = [i \in 1..k |-> IF i = 1 THEN ss[i] ELSE h[i - 1] \o ss[i]]
      <3>1. DOMAIN h = 1..k
        OBVIOUS
      <3>2. h = [i \in 1..k |-> h[i]]
        BY <3>1
      <3> HIDE DEF h
      <3> QED
        BY <2>4, <3>2
    <2> HIDE DEF h
    <2> QED
      BY <2>6
  <1> HIDE DEF Flat
  <1>4. Fails = {}
    <2> SUFFICES ASSUME Fails # {} PROVE FALSE
      OBVIOUS
    <2>1. Fails \in SUBSET Nat
      OBVIOUS
    <2>2. PICK k \in Fails : \A j \in Fails : k <= j
      <3> HIDE DEF Fails
      <3> QED
        BY <2>1, LeastNumber
    <2>3. k \in 1..n /\ k - 1 \in 0..n /\ ~(k <= k - 1)
      BY <1>0, <1>2, <2>2
    <2>4. \E g : Flat(k - 1, g)
      BY <2>2, <2>3
    <2> QED
      BY <1>3, <2>2, <2>3, <2>4
  <1>5. \E g : Flat(n, g)
    <2>1. n \in 0..n
      BY <1>0
    <2> QED
      BY <1>4, <2>1
  <1>6. \E g : g = [i \in 1..n |-> IF i = 1 THEN ss[i] ELSE g[i - 1] \o ss[i]]
    BY <1>5 DEF Flat
  <1>7. flatten = [i \in 1..n |-> IF i = 1 THEN ss[i] ELSE flatten[i - 1] \o ss[i]]
    BY <1>6
  <1> HIDE DEF flatten
  <1> QED
    BY <1>1, <1>7 DEF n

\* Sequences that follow one another make one sequence, of all that they have.
LEMMA FlattenIsSeq ==
    ASSUME NEW S, NEW ss \in Seq(Seq(S))
    PROVE  /\ FlattenSeq(ss) \in Seq(S)
           /\ ToSet(FlattenSeq(ss)) = UNION {ToSet(ss[i]) : i \in DOMAIN ss}
  <1> DEFINE n == Len(ss)
  <1>0. n \in Nat /\ DOMAIN ss = 1..n /\ \A i \in 1..n : ss[i] \in Seq(S)
    BY ElementOfSeq
  <1>1. PICK flatten :
            /\ flatten = [i \in 1..n |-> IF i = 1 THEN ss[i] ELSE flatten[i - 1] \o ss[i]]
            /\ FlattenSeq(ss) = IF n = 0 THEN ss ELSE flatten[n]
    BY FlattenGoesThrough
  <1> HIDE DEF n
  <1>7. \A k \in 1..n : flatten[k] = IF k = 1 THEN ss[k] ELSE flatten[k - 1] \o ss[k]
    BY <1>1
  <1> DEFINE UpTo(k) == UNION {ToSet(ss[i]) : i \in 1..k}
             Good(k) == flatten[k] \in Seq(S) /\ ToSet(flatten[k]) = UpTo(k)
             Odd == {k \in 1..n : ~Good(k)}
  <1>8. Odd = {}
    <2> SUFFICES ASSUME Odd # {} PROVE FALSE
      OBVIOUS
    <2>1. Odd \in SUBSET Nat
      BY <1>0
    <2>2. PICK k \in Odd : \A j \in Odd : k <= j
      <3> HIDE DEF Odd
      <3> QED
        BY <2>1, LeastNumber
    <2>3. k \in 1..n /\ ~Good(k)
      BY <2>2
    <2>4. flatten[k] = IF k = 1 THEN ss[k] ELSE flatten[k - 1] \o ss[k]
      BY <1>7, <2>3
    <2>5. k # 1 => Good(k - 1)
      <3>1. k # 1 => k - 1 \in 1..n /\ ~(k <= k - 1)
        BY <1>0, <2>3
      <3> QED
        BY <2>2, <3>1
    <2>6. ss[k] \in Seq(S)
      BY <1>0, <2>3
    <2>7. UpTo(k) = IF k = 1 THEN ToSet(ss[k]) ELSE UpTo(k - 1) \cup ToSet(ss[k])
      <3>1. CASE k = 1
        <4>1. \A i \in 1..k : i = k
          BY <3>1
        <4>2. k \in 1..k
          BY <3>1
        <4> QED
          BY <3>1, <4>1, <4>2
      <3>2. CASE k # 1
        <4>1. /\ \A i \in 1..k : i = k \/ i \in 1..(k - 1)
              /\ k \in 1..k /\ \A i \in 1..(k - 1) : i \in 1..k
          BY <1>0, <2>3
        <4>2. UpTo(k) = UpTo(k - 1) \cup ToSet(ss[k])
          BY <4>1
        <4> QED
          BY <3>2, <4>2
      <3> QED
        BY <3>1, <3>2
    <2> HIDE DEF UpTo, Odd
    <2>8. k # 1 => /\ flatten[k - 1] \o ss[k] \in Seq(S)
                   /\ ToSet(flatten[k - 1] \o ss[k]) = ToSet(flatten[k - 1]) \cup ToSet(ss[k])
      BY <2>5, <2>6, ConcatIsSeq
    <2> QED
      BY <2>3, <2>4, <2>5, <2>6, <2>7, <2>8
  <1>9. CASE n = 0
    <2>1. ss = <<>>
      BY <1>0, <1>9, EmptySeq DEF n
    <2>2. ToSet(ss) = {} /\ UNION {ToSet(ss[i]) : i \in DOMAIN ss} = {}
      BY <2>1 DEF ToSet
    <2>3. ss \in Seq(S)
      BY <2>1, EmptySeq
    <2> QED
      BY <1>1, <1>9, <2>2, <2>3
  <1>10. CASE n # 0
    <2>1. n \in 1..n
      BY <1>0, <1>10
    <2>2. Good(n)
      BY <1>8, <2>1
    <2> QED
      BY <1>0, <1>1, <1>10, <2>2
  <1> QED
    BY <1>9, <1>10

\* Each place that is picked is picked.
LEMMA PickedHasEach ==
    ASSUME NEW S, NEW s \in Seq(S), NEW places \in SUBSET DOMAIN s, NEW i \in places
    PROVE  LET n == Cardinality({j \in places : j <= i}) IN
           n \in 1..Cardinality(places) /\ Picked(s, places)[n] = s[i]
  <1> DEFINE UpTo(k) == {j \in places : j <= k}
             n == Cardinality(UpTo(i))
  <1>1. Len(s) \in Nat /\ places \in SUBSET (1..Len(s)) /\ \A j \in places : j \in Nat
    OBVIOUS
  <1>2. IsFiniteSet(places) /\ Cardinality(places) \in Nat
    BY <1>1, PlacesAreFinite
  <1>3. \A k \in places : IsFiniteSet(UpTo(k)) /\ UpTo(k) \in SUBSET places /\ Cardinality(UpTo(k)) \in Nat
    <2> SUFFICES ASSUME NEW k \in places PROVE IsFiniteSet(UpTo(k)) /\ Cardinality(UpTo(k)) \in Nat
      OBVIOUS
    <2>1. UpTo(k) \in SUBSET (1..Len(s))
      BY <1>1
    <2> HIDE DEF UpTo
    <2> QED
      BY <1>1, <2>1, PlacesAreFinite
  <1>4. \A k, l \in places : k < l => Cardinality(UpTo(k)) # Cardinality(UpTo(l))
    <2> SUFFICES ASSUME NEW k \in places, NEW l \in places, k < l,
                        Cardinality(UpTo(k)) = Cardinality(UpTo(l))
                 PROVE  FALSE
      OBVIOUS
    <2>1. k \in Nat /\ l \in Nat
      BY <1>1
    <2>2. UpTo(k) \in SUBSET UpTo(l)
      <3>1. \A j \in places : j <= k => j <= l
        BY <1>1, <2>1
      <3> QED
        BY <3>1
    <2>3. l \in UpTo(l) /\ l \notin UpTo(k)
      BY <2>1
    <2>4. IsFiniteSet(UpTo(l))
      BY <1>3
    <2> HIDE DEF UpTo
    <2> QED
      BY <2>2, <2>3, <2>4, FS_Subset
  <1>5. \A k \in places : Cardinality(UpTo(k)) = n => k = i
    <2> SUFFICES ASSUME NEW k \in places, Cardinality(UpTo(k)) = n, k # i PROVE FALSE
      OBVIOUS
    <2>1. k < i \/ i < k
      BY <1>1
    <2> HIDE DEF UpTo
    <2> QED
      BY <1>4, <2>1
  <1>6. n \in 1..Cardinality(places)
    <2>1. i \in UpTo(i)
      BY <1>1
    <2>2. n # 0
      <3> HIDE DEF UpTo
      <3> QED
        BY <1>3, <2>1, FS_EmptySet
    <2>3. n <= Cardinality(places)
      <3> HIDE DEF UpTo
      <3> QED
        BY <1>2, <1>3, FS_Subset
    <2>4. n \in Nat
      BY <1>3
    <2> HIDE DEF n
    <2> QED
      BY <1>2, <2>2, <2>3, <2>4
  <1>7. Picked(s, places)[n] = s[CHOOSE k \in places : Cardinality(UpTo(k)) = n]
    BY <1>6 DEF Picked
  <1>8. (CHOOSE k \in places : Cardinality(UpTo(k)) = n) = i
    <2> HIDE DEF UpTo
    <2> QED
      BY <1>5
  <1> QED
    BY <1>6, <1>7, <1>8

\* What is picked is what stands at the places.
LEMMA PickedIsAll ==
    ASSUME NEW S, NEW s \in Seq(S), NEW places \in SUBSET DOMAIN s
    PROVE  ToSet(Picked(s, places)) = {s[i] : i \in places}
  <1>1. DOMAIN Picked(s, places) = 1..Cardinality(places)
    BY DEF Picked
  <1>2. ToSet(Picked(s, places)) \subseteq {s[i] : i \in places}
    BY PickedIsSeq
  <1>3. ASSUME NEW i \in places PROVE s[i] \in ToSet(Picked(s, places))
    <2>1. PICK n \in 1..Cardinality(places) : Picked(s, places)[n] = s[i]
      BY PickedHasEach
    <2> QED
      BY <1>1, <2>1 DEF ToSet
  <1> QED
    BY <1>2, <1>3

\* What was declared stays declared.
OfAFamily == \E f \in DOMAIN Families : app \in Families[f]

\* A handler with its controller and its module, of the modules that were reached.
HandlersOf(m) ==
    UNION {{[module |-> m, controller |-> c, handler |-> h] : h \in ToSet(c.handlers)} :
              c \in ToSet(Expanded(m).controllers)}
ScannedSet == UNION {HandlersOf(m) : m \in Reached}

VersionsOf == Seq(Versions \cup {Neutral})

\* No two handlers that were given to the plan builder claim one method and path, unless a
\* header tells them apart: the plan has an entry for each path of each of them.
Apart(c, d) ==
    c.method = d.method =>
        IF app.versioning.type = "header" THEN c.template = d.template => ~Overlaps(c, d)
        ELSE ToSet(PathsOf(c)) \cap ToSet(PathsOf(d)) = {}

Entered(c) ==
    IF app.versioning.type = "header"
    THEN \E n \in DOMAIN plan : /\ plan[n].method = c.method /\ plan[n].template = c.template
                                /\ c \in ToSet(plan[n].contracts)
    ELSE \A t \in ToSet(PathsOf(c)) : Entry(c, t) \in ToSet(plan)

\* An entry is a record.
HasContracts(e) == e = [method |-> e.method, template |-> e.template, contracts |-> e.contracts]

PlanTypes ==
    /\ stage \notin {"routing", "registering", "serving", "refused"} => planned = 0 /\ plan = <<>>
    /\ IsSequence(plan) /\ IsSequence(contracts) /\ planned \in 0..Len(contracts)
    /\ \A n \in DOMAIN plan : HasContracts(plan[n]) /\ IsSequence(plan[n].contracts)
    /\ \A c \in ToSet(contracts) : c.versions \in VersionsOf /\ c.hosts \in BOOLEAN
    /\ stage \in {"registering", "serving"} => planned = Len(contracts)

EnteredSoFar == \A i \in 1..planned : Entered(contracts[i])

ApartSoFar == \A i, j \in 1..planned : i < j => Apart(contracts[i], contracts[j])

\* Where nothing tells versions apart, what validate has let through.
NoConflicts ==
    stage \in {"routing", "registering", "serving"} /\ app.versioning.type = "none" =>
        \A i, j \in DOMAIN contracts : i < j => ~Conflict(contracts[i], contracts[j])

NoHosts ==
    stage \in {"registering", "serving"} => \A n \in DOMAIN plan : ~plan[n].contracts[1].hosts

PlanInv == OfAFamily /\ PlanTypes /\ EnteredSoFar /\ ApartSoFar /\ NoConflicts /\ NoHosts

\* What an overlay lays over the controllers of a module.
LEMMA OverlaidControllers ==
    ASSUME NEW b, NEW o, IsMetadata(b), IsMetadata(o)
    PROVE  ToSet(Overlaid(b, o).controllers) \subseteq ToSet(b.controllers) \cup ToSet(o.controllers)
  <1> DEFINE s == b.controllers
             t == o.controllers
             places == {i \in DOMAIN t : t[i] \notin ToSet(s)}
  <1>1. Overlaid(b, o).controllers = s \o Picked(t, places)
    BY DEF Overlaid, OverlaidEntries
  <1>2. IsSequence(s) /\ IsSequence(t) /\ places \in SUBSET DOMAIN t
    BY DEF IsMetadata
  <1> HIDE DEF s, t, places
  <1>3. IsSequence(Picked(t, places)) /\ ToSet(Picked(t, places)) \subseteq ToSet(t)
    BY <1>2, PickedOfAny
  <1>4. ToSet(s \o Picked(t, places)) = ToSet(s) \cup ToSet(Picked(t, places))
    BY <1>2, <1>3, ConcatOfAny
  <1> QED
    BY <1>1, <1>3, <1>4 DEF s, t

\* What a module of a declared application has to serve.
LEMMA ExpandedIsServable ==
    ASSUME OfAFamily, NEW m \in Modules
    PROVE  IsApplication(app) /\ app.versioning \in Versionings /\ IsServable(Expanded(m))
  <1>1. /\ IsApplication(app) /\ app.versioning \in Versionings
        /\ IsServable(app.modules[m])
        /\ m \in DOMAIN app.dynamic => IsServable(app.dynamic[m])
    BY AssemblyAssumption, BootstrapAssumption DEF OfAFamily
  <1>2. IsMetadata(app.modules[m]) /\ (m \in DOMAIN app.dynamic => IsMetadata(app.dynamic[m]))
    BY <1>1 DEF IsApplication
  <1>3. CASE m \in DOMAIN app.dynamic
    <2>1. ToSet(Expanded(m).controllers)
              \subseteq ToSet(app.modules[m].controllers) \cup ToSet(app.dynamic[m].controllers)
      BY <1>2, <1>3, OverlaidControllers DEF Expanded
    <2> QED
      BY <1>1, <1>3, <2>1 DEF IsServable
  <1>4. CASE m \notin DOMAIN app.dynamic
    BY <1>1, <1>4 DEF Expanded
  <1> QED
    BY <1>1, <1>3, <1>4

\* ControllerScanner.scan finds the handlers of the modules that were reached.
LEMMA ScannedIsSeq ==
    ASSUME WalkInv, OfAFamily
    PROVE  ScannedHandlers \in Seq(ScannedSet)
  <1> DEFINE ofOne(m, c) == [i \in DOMAIN c.handlers |-> [module |-> m, controller |-> c, handler |-> c.handlers[i]]]
             ofEach(m) == [k \in DOMAIN compiled[m].controllers |-> ofOne(m, compiled[m].controllers[k])]
             ofAll == [n \in DOMAIN ordered |-> FlattenSeq(ofEach(ordered[n]))]
  <1>1. ScannedHandlers = FlattenSeq(ofAll)
    BY DEF ScannedHandlers
  <1>2. /\ ordered \in Seq(Modules) /\ IsApplication(app) /\ Reached = ToSet(ordered)
        /\ \A m \in ToSet(ordered) : compiled[m] = Compiled(m)
        /\ ToSet(ordered) \subseteq Modules
    BY OwnEntries DEF WalkInv, WalkTypes, Reached
  <1>3. ASSUME NEW m \in ToSet(ordered)
        PROVE  FlattenSeq(ofEach(m)) \in Seq(ScannedSet)
    <2> DEFINE cs == Expanded(m).controllers
    <2>1. compiled[m].controllers = cs
      <3>1. Compiled(m).controllers = Expanded(m).controllers
        BY DEF Compiled
      <3> QED
        BY <1>2, <3>1
    <2>2. IsMetadata(Expanded(m))
      BY <1>2, ExpandedIsMetadata
    <2>3. IsSequence(cs) /\ DOMAIN cs = 1..Len(cs) /\ Len(cs) \in Nat
      BY <2>2 DEF IsMetadata, IsSequence
    <2>4. ASSUME NEW k \in DOMAIN cs
          PROVE  ofOne(m, cs[k]) \in Seq(ScannedSet)
      <3> DEFINE hs == cs[k].handlers
      <3>1. IsSequence(hs)
        BY <2>2 DEF IsMetadata, IsController
      <3>2. DOMAIN hs = 1..Len(hs) /\ Len(hs) \in Nat
        BY <3>1 DEF IsSequence
      <3>3. \A i \in DOMAIN hs : ofOne(m, cs[k])[i] \in ScannedSet
        <4>1. cs[k] \in ToSet(cs)
          BY DEF ToSet
        <4>2. \A i \in DOMAIN hs : hs[i] \in ToSet(hs)
          BY DEF ToSet
        <4>3. \A i \in DOMAIN hs : [module |-> m, controller |-> cs[k], handler |-> hs[i]] \in HandlersOf(m)
          BY <4>1, <4>2 DEF HandlersOf
        <4>4. HandlersOf(m) \subseteq ScannedSet
          BY <1>2 DEF ScannedSet
        <4> QED
          BY <4>3, <4>4
      <3>4. ofOne(m, cs[k]) = [i \in DOMAIN hs |-> ofOne(m, cs[k])[i]]
        OBVIOUS
      <3> HIDE DEF hs, ofOne
      <3>5. ofOne(m, cs[k]) \in [1..Len(hs) -> ScannedSet]
        BY <3>2, <3>3, <3>4
      <3> QED
        BY <3>2, <3>5, SeqDef
    <2>5. ofEach(m) = [k \in DOMAIN cs |-> ofOne(m, cs[k])]
      BY <2>1
    <2> HIDE DEF ofOne, ofEach, cs
    <2>6. ofEach(m) \in [1..Len(cs) -> Seq(ScannedSet)]
      BY <2>3, <2>4, <2>5
    <2>7. ofEach(m) \in Seq(Seq(ScannedSet))
      BY <2>3, <2>6, SeqDef
    <2> QED
      BY <2>7, FlattenIsSeq
  <1> HIDE DEF ofEach
  <1>4. \A n \in DOMAIN ordered : ofAll[n] \in Seq(ScannedSet)
    BY <1>3 DEF ToSet
  <1>5. DOMAIN ordered = 1..Len(ordered) /\ Len(ordered) \in Nat
    BY <1>2
  <1>6. ofAll \in [1..Len(ordered) -> Seq(ScannedSet)]
    BY <1>4, <1>5
  <1> HIDE DEF ofAll
  <1>7. ofAll \in Seq(Seq(ScannedSet))
    BY <1>5, <1>6, SeqDef
  <1> QED
    BY <1>1, <1>7, FlattenIsSeq

\* The paths of a contract, and the entries they make.
LEMMA PathsAreSeq ==
    ASSUME NEW c, c.versions \in VersionsOf
    PROVE  IsSequence(PathsOf(c))
  <1> DEFINE spell(v) == <<Prefixed[v][c.template]>>
                             \o (IF v = app.versioning.default THEN <<c.template>> ELSE <<>>)
             S == {Prefixed[v][c.template] : v \in Versions \cup {Neutral}} \cup {c.template}
             all == [n \in DOMAIN c.versions |-> spell(c.versions[n])]
             flat == FlattenSeq(all)
  <1>1. PathsOf(c) = IF app.versioning.type # "uri" \/ IsNeutral(c) THEN <<c.template>> ELSE Each(flat)
    BY DEF PathsOf
  <1>2. /\ DOMAIN c.versions = 1..Len(c.versions) /\ Len(c.versions) \in Nat
        /\ \A n \in DOMAIN c.versions : c.versions[n] \in Versions \cup {Neutral}
    BY DEF VersionsOf
  <1>3. ASSUME NEW v \in Versions \cup {Neutral}
        PROVE  spell(v) \in Seq(S)
    <2> DEFINE bare == IF v = app.versioning.default THEN <<c.template>> ELSE <<>>
               prefixed == Prefixed[v][c.template]
    <2>1. prefixed \in S /\ c.template \in S
      OBVIOUS
    <2> HIDE DEF S, prefixed
    <2>2. <<prefixed>> \in Seq(S)
      BY <2>1
    <2>3. bare \in Seq(S)
      BY <2>1
    <2> HIDE DEF bare
    <2>4. <<prefixed>> \o bare \in Seq(S)
      BY <2>2, <2>3
    <2> QED
      BY <2>4 DEF prefixed, bare
  <1>4. <<c.template>> \in Seq({c.template})
    OBVIOUS
  <1>5. IsSequence(<<c.template>>)
    BY <1>4, OwnEntries
  <1> HIDE DEF spell, S, flat
  <1>6. all \in [1..Len(c.versions) -> Seq(S)]
    BY <1>2, <1>3
  <1> HIDE DEF all
  <1>7. all \in Seq(Seq(S))
    BY <1>2, <1>6, SeqDef
  <1>8. flat \in Seq(S)
    BY <1>7, FlattenIsSeq DEF flat
  <1>9. Each(flat) \in Seq(S)
    BY <1>8, PickedIsSeq DEF Each
  <1>10. IsSequence(Each(flat))
    BY <1>9, OwnEntries
  <1> QED
    BY <1>1, <1>5, <1>10

LEMMA EntriesOfPaths ==
    ASSUME NEW c, c.versions \in VersionsOf
    PROVE  LET made == [n \in DOMAIN PathsOf(c) |-> Entry(c, PathsOf(c)[n])] IN
           /\ IsSequence(made)
           /\ ToSet(made) = {Entry(c, t) : t \in ToSet(PathsOf(c))}
  <1> DEFINE paths == PathsOf(c)
             made == [n \in DOMAIN paths |-> Entry(c, paths[n])]
  <1>1. DOMAIN paths = 1..Len(paths) /\ Len(paths) \in Nat
    BY PathsAreSeq DEF IsSequence
  <1> HIDE DEF paths
  <1>2. made = [n \in 1..Len(paths) |-> made[n]]
    BY <1>1
  <1>3. IsSequence(made) /\ ToSet(made) = {made[n] : n \in 1..Len(paths)}
    <2> HIDE DEF made
    <2> QED
      BY <1>1, <1>2, IntervalIsSeq
  <1>4. ToSet(made) = {Entry(c, t) : t \in ToSet(paths)}
    BY <1>1, <1>3 DEF ToSet
  <1> QED
    BY <1>3, <1>4 DEF paths

\* What the plan builder compares is read off the declaration.
LEMMA SamePaths ==
    ASSUME app' = app
    PROVE  /\ OfAFamily' = OfAFamily
           /\ \A c : PathsOf(c)' = PathsOf(c)
           /\ \A c, d : Apart(c, d)' = Apart(c, d)
  <1>1. OfAFamily' = OfAFamily
    BY DEF OfAFamily
  <1>2. \A c : PathsOf(c)' = PathsOf(c)
    BY DEF PathsOf
  <1>3. \A c, d : Apart(c, d)' = Apart(c, d)
    BY <1>2 DEF Apart, Overlaps, VersionsOverlap, IsNeutral, SharesAVersion
  <1> QED
    BY <1>1, <1>2, <1>3

\* Steps that leave the plan alone.
LEMMA PlanRests ==
    ASSUME PlanInv, UNCHANGED <<app, contracts, planned, plan>>,
           \/ stage' = stage \/ stage' = "refused"
           \/ /\ stage \notin {"routing", "registering", "serving", "refused"}
              /\ stage' \notin {"routing", "registering", "serving", "refused"}
           \/ stage = "registering" /\ stage' = "serving"
    PROVE  PlanInv'
  <1>1. OfAFamily' /\ \A c, d : Apart(c, d)' = Apart(c, d)
    BY SamePaths DEF PlanInv
  <1>2. PlanTypes'
    BY DEF PlanInv, PlanTypes
  <1>3. EnteredSoFar'
    <2>1. \A c : Entered(c)' = Entered(c)
      BY SamePaths DEF Entered
    <2> QED
      BY <2>1 DEF PlanInv, EnteredSoFar
  <1>4. ApartSoFar'
    BY <1>1 DEF PlanInv, ApartSoFar
  <1>5. NoConflicts' /\ NoHosts'
    BY DEF PlanInv, NoConflicts, NoHosts
  <1> QED
    BY <1>1, <1>2, <1>3, <1>4, <1>5 DEF PlanInv

\* The stages of an assembly.
LEMMA AssemblyGoesOn ==
    ASSUME AssemblyNext
    PROVE  /\ app' = app
           /\ stage \in {"discovering", "resolving", "publishing", "exporting", "planning"}
           /\ stage' \in {"discovering", "resolving", "publishing", "exporting", "planning",
                         "assembled", "refused"}
  <1>1. CASE \E m \in Modules : Skip(m) \/ Enter(m) \/ RejectCycle(m)
    BY <1>1 DEF Skip, Enter, RejectCycle, Importing, Refuse
  <1>2. CASE Leave
    BY <1>2 DEF Leave
  <1>3. CASE Resolve
    BY <1>3 DEF Resolve, Refuse
  <1>4. CASE Publish
    BY <1>4 DEF Publish, Refuse
  <1>5. CASE CheckModules
    BY <1>5 DEF CheckModules, Refuse
  <1>6. CASE \E k \in Keys : Settle(k)
    BY <1>6 DEF Settle
  <1>7. CASE Judge
    BY <1>7 DEF Judge, Refuse
  <1> QED
    BY <1>1, <1>2, <1>3, <1>4, <1>5, <1>6, <1>7 DEF AssemblyNext

LEMMA PlanWaits ==
    ASSUME PlanInv, AssemblyNext, UNCHANGED planVars
    PROVE  PlanInv'
  BY AssemblyGoesOn, PlanRests DEF planVars

\* What compile_route_contracts makes: a contract for each handler.
LEMMA ContractsAreTyped ==
    ASSUME WalkInv, OfAFamily
    PROVE  LET made == [n \in DOMAIN ScannedHandlers |->
                            Contract(ScannedHandlers[n].module, ScannedHandlers[n].controller,
                                     ScannedHandlers[n].handler)]
           IN  /\ IsSequence(made)
               /\ \A c \in ToSet(made) : c.versions \in VersionsOf /\ c.hosts \in BOOLEAN
  <1> DEFINE s == ScannedHandlers
             made == [n \in DOMAIN s |-> Contract(s[n].module, s[n].controller, s[n].handler)]
  <1>1. s \in Seq(ScannedSet)
    BY ScannedIsSeq
  <1>2. DOMAIN s = 1..Len(s) /\ Len(s) \in Nat /\ \A n \in DOMAIN s : s[n] \in ScannedSet
    BY <1>1
  <1>3. ASSUME NEW n \in DOMAIN s
        PROVE  made[n].versions \in VersionsOf /\ made[n].hosts \in BOOLEAN
    <2>1. PICK m \in Reached : s[n] \in HandlersOf(m)
      BY <1>2 DEF ScannedSet
    <2>2. m \in Modules
      BY <2>1, OwnEntries DEF Reached, WalkInv, WalkTypes
    <2>9. PICK c \in ToSet(Expanded(m).controllers) :
              s[n] \in {[module |-> m, controller |-> c, handler |-> h] : h \in ToSet(c.handlers)}
      BY <2>1 DEF HandlersOf
    <2>3. PICK h \in ToSet(c.handlers) : s[n] = [module |-> m, controller |-> c, handler |-> h]
      BY <2>9
    <2>4. IsDeclared(c) /\ IsDeclared(h)
      BY <2>2, <2>3, ExpandedIsServable DEF IsServable
    <2>5. made[n] = Contract(m, c, h)
      BY <2>3
    <2>6. /\ Contract(m, c, h).versions = IF h.versions # <<>> THEN h.versions ELSE c.versions
          /\ Contract(m, c, h).hosts = (h.hosts \/ c.hosts)
      BY DEF Contract
    <2>7. made[n].versions \in VersionsOf
      BY <2>4, <2>5, <2>6 DEF IsDeclared, VersionsOf
    <2>8. made[n].hosts \in BOOLEAN
      BY <2>5, <2>6
    <2> QED
      BY <2>7, <2>8
  <1>4. made = [n \in 1..Len(s) |-> made[n]]
    BY <1>2
  <1> HIDE DEF made
  <1>5. IsSequence(made) /\ ToSet(made) = {made[n] : n \in 1..Len(s)}
    BY <1>2, <1>4, IntervalIsSeq
  <1> HIDE DEF s
  <1>6. \A c \in ToSet(made) : c.versions \in VersionsOf /\ c.hosts \in BOOLEAN
    BY <1>2, <1>3, <1>5
  <1> QED
    BY <1>5, <1>6 DEF made, s

LEMMA PlanCompiles ==
    ASSUME WalkInv, PlanInv, CompileContracts
    PROVE  PlanInv'
  <1> DEFINE s == ScannedHandlers
             made == [n \in DOMAIN s |-> Contract(s[n].module, s[n].controller, s[n].handler)]
  <1>1. stage = "assembled" /\ app' = app /\ planned' = planned /\ plan' = plan
    BY DEF CompileContracts, RefusePlan, GoesOn, planVars
  <1>2. CASE stage' = "refused"
    <2>1. contracts' = contracts
      BY <1>2 DEF CompileContracts, RefusePlan, GoesOn, planVars
    <2> QED
      BY <1>1, <1>2, <2>1, PlanRests
  <1>3. CASE stage' # "refused"
    <2>1. /\ contracts' = made /\ stage' = "routing"
          /\ ~(/\ app.versioning.type = "none"
               /\ \E i, j \in DOMAIN made : i < j /\ Conflict(made[i], made[j]))
      BY <1>3 DEF CompileContracts, RefusePlan, GoesOn
    <2>2. /\ IsSequence(made)
          /\ \A c \in ToSet(made) : c.versions \in VersionsOf /\ c.hosts \in BOOLEAN
      BY ContractsAreTyped DEF PlanInv
    <2> HIDE DEF made
    <2>3. planned = 0 /\ plan = <<>>
      BY <1>1 DEF PlanInv, PlanTypes
    <2>4. OfAFamily'
      BY <1>1, SamePaths DEF PlanInv
    <2>5. Len(made) \in Nat
      BY <2>2 DEF IsSequence
    <2>6. IsSequence(plan') /\ DOMAIN plan' = {}
      BY <1>1, <2>3 DEF IsSequence
    <2>7. PlanTypes'
      BY <1>1, <2>1, <2>2, <2>3, <2>5, <2>6 DEF PlanTypes
    <2>8. EnteredSoFar' /\ ApartSoFar'
      <3>1. 1..planned' = {}
        BY <1>1, <2>3
      <3> QED
        BY <3>1 DEF EnteredSoFar, ApartSoFar
    <2>9. NoConflicts'
      BY <1>1, <2>1 DEF NoConflicts
    <2>10. NoHosts'
      BY <2>1 DEF NoHosts
    <2> QED
      BY <2>4, <2>7, <2>8, <2>9, <2>10 DEF PlanInv
  <1> QED
    BY <1>2, <1>3

\* _RoutePlanBuilder.add, with no versioning or with the version in the path: a path that is
\* not claimed is in no earlier contract's paths.
LEMMA PlanAddsPaths ==
    ASSUME PlanInv, PlanByPath
    PROVE  PlanInv'
  <1> DEFINE c == contracts[planned + 1]
             made == [n \in DOMAIN PathsOf(c) |-> Entry(c, PathsOf(c)[n])]
  <1>1. /\ stage = "routing" /\ planned < Len(contracts) /\ app.versioning.type # "header"
        /\ contracts' = contracts /\ app' = app
    BY DEF PlanByPath, RefusePlan, assemblyVars, planVars
  <1>2. CASE Claimed(c)
    <2>1. stage' = "refused" /\ planned' = planned /\ plan' = plan
      BY <1>2 DEF PlanByPath, RefusePlan, planVars
    <2> QED
      BY <1>1, <2>1, PlanRests
  <1>3. CASE ~Claimed(c)
    <2>1. plan' = plan \o made /\ planned' = planned + 1 /\ stage' = stage
      BY <1>3 DEF PlanByPath, assemblyVars
    <2>2. /\ IsSequence(plan) /\ IsSequence(contracts) /\ planned \in 0..Len(contracts)
          /\ \A n \in DOMAIN plan : HasContracts(plan[n]) /\ IsSequence(plan[n].contracts)
          /\ \A d \in ToSet(contracts) : d.versions \in VersionsOf /\ d.hosts \in BOOLEAN
      BY DEF PlanInv, PlanTypes
    <2>3. Len(contracts) \in Nat /\ DOMAIN contracts = 1..Len(contracts)
      BY <2>2 DEF IsSequence
    <2>4. planned + 1 \in DOMAIN contracts /\ planned \in Nat
      BY <1>1, <2>2, <2>3
    <2>5. c \in ToSet(contracts)
      BY <2>4 DEF ToSet
    <2>6. IsSequence(made) /\ ToSet(made) = {Entry(c, t) : t \in ToSet(PathsOf(c))}
      BY <2>2, <2>5, EntriesOfPaths
    <2> HIDE DEF made
    <2>7. IsSequence(plan') /\ ToSet(plan') = ToSet(plan) \cup ToSet(made)
      BY <2>1, <2>2, <2>6, ConcatOfAny
    <2>8. OfAFamily' /\ \A d, e : Apart(d, e)' = Apart(d, e)
      BY <1>1, SamePaths DEF PlanInv
    <2>9. \A n \in DOMAIN plan' : HasContracts(plan'[n]) /\ IsSequence(plan'[n].contracts)
      <3>1. \A e \in ToSet(plan) : HasContracts(e) /\ IsSequence(e.contracts)
        BY <2>2 DEF ToSet
      <3>2. \A e \in ToSet(made) : HasContracts(e) /\ IsSequence(e.contracts)
        <4>1. <<c>> \in Seq({c})
          OBVIOUS
        <4>2. IsSequence(<<c>>)
          BY <4>1, OwnEntries
        <4> QED
          BY <2>6, <4>2 DEF Entry, HasContracts
      <3>3. \A n \in DOMAIN plan' : plan'[n] \in ToSet(plan')
        BY DEF ToSet
      <3> QED
        BY <2>7, <3>1, <3>2, <3>3
    <2>10. PlanTypes'
      <3>1. planned' \in 0..Len(contracts')
        BY <1>1, <2>1, <2>3, <2>4
      <3> QED
        BY <1>1, <2>1, <2>2, <2>7, <2>9, <3>1 DEF PlanTypes
    <2>11. \A i \in 1..planned' : i \in 1..planned \/ i = planned + 1
      BY <2>1, <2>4
    <2>12. EnteredSoFar'
      <3>1. ASSUME NEW i \in 1..planned'
            PROVE  \A t \in ToSet(PathsOf(contracts[i])) : Entry(contracts[i], t) \in ToSet(plan')
        <4>1. CASE i \in 1..planned
          <5>1. Entered(contracts[i])
            BY <4>1 DEF PlanInv, EnteredSoFar
          <5> QED
            BY <1>1, <2>7, <5>1 DEF Entered
        <4>2. CASE i = planned + 1
          BY <2>6, <2>7, <4>2
        <4> QED
          BY <2>11, <4>1, <4>2
      <3>2. \A d : PathsOf(d)' = PathsOf(d)
        BY <1>1, SamePaths
      <3>3. \A d : (\A t \in ToSet(PathsOf(d)) : Entry(d, t) \in ToSet(plan')) => Entered(d)'
        BY <1>1, <3>2 DEF Entered, Entry
      <3> QED
        BY <1>1, <3>1, <3>3 DEF EnteredSoFar
    <2>13. ApartSoFar'
      <3>1. ASSUME NEW i \in 1..planned
            PROVE  Apart(contracts[i], c)
        <4>1. Entered(contracts[i])
          BY DEF PlanInv, EnteredSoFar
        <4>2. SUFFICES ASSUME contracts[i].method = c.method,
                              NEW t \in ToSet(PathsOf(contracts[i])), t \in ToSet(PathsOf(c))
                       PROVE  FALSE
          BY <1>1 DEF Apart
        <4>3. PICK n \in DOMAIN plan : plan[n] = Entry(contracts[i], t)
          BY <1>1, <4>1 DEF Entered, ToSet
        <4>4. plan[n].method = c.method /\ plan[n].template = t
          BY <4>2, <4>3 DEF Entry
        <4> QED
          BY <1>3, <4>2, <4>4 DEF Claimed
      <3>2. ASSUME NEW i \in 1..planned', NEW j \in 1..planned', i < j
            PROVE  Apart(contracts[i], contracts[j])
        <4>1. CASE j \in 1..planned
          <5>1. i \in 1..planned
            BY <2>4, <3>2, <4>1
          <5> QED
            BY <3>2, <4>1, <5>1 DEF PlanInv, ApartSoFar
        <4>2. CASE j = planned + 1
          <5>1. i \in 1..planned
            BY <2>4, <3>2, <4>2
          <5> QED
            BY <3>1, <4>2, <5>1
        <4> QED
          BY <2>11, <4>1, <4>2
      <3> QED
        BY <1>1, <2>8, <3>2 DEF ApartSoFar
    <2>14. NoConflicts' /\ NoHosts'
      BY <1>1, <2>1 DEF PlanInv, NoConflicts, NoHosts
    <2> QED
      BY <2>8, <2>10, <2>12, <2>13, <2>14 DEF PlanInv
  <1> QED
    BY <1>2, <1>3

\* _RoutePlanBuilder.add, with the version in a header: a contract joins those of its path.
LEMMA PlanAddsVersion ==
    ASSUME PlanInv, PlanByHeader
    PROVE  PlanInv'
  <1> DEFINE c == contracts[planned + 1]
             Clashes == \E n \in Group(c) : \E d \in ToSet(plan[n].contracts) : Overlaps(c, d)
  <1>1. /\ stage = "routing" /\ planned < Len(contracts) /\ app.versioning.type = "header"
        /\ contracts' = contracts /\ app' = app
    BY DEF PlanByHeader, RefusePlan, assemblyVars, planVars
  <1>2. CASE Clashes
    <2>1. stage' = "refused" /\ planned' = planned /\ plan' = plan
      BY <1>2 DEF PlanByHeader, RefusePlan, planVars
    <2> QED
      BY <1>1, <2>1, PlanRests
  <1>3. CASE ~Clashes
    <2>1. /\ plan' = IF Group(c) = {} THEN Append(plan, Entry(c, c.template))
                     ELSE [n \in DOMAIN plan |->
                             IF n \in Group(c)
                             THEN [plan[n] EXCEPT !.contracts = Append(@, c)] ELSE plan[n]]
          /\ planned' = planned + 1 /\ stage' = stage
      BY <1>3 DEF PlanByHeader, assemblyVars
    <2>2. /\ IsSequence(plan) /\ IsSequence(contracts) /\ planned \in 0..Len(contracts)
          /\ \A n \in DOMAIN plan : HasContracts(plan[n]) /\ IsSequence(plan[n].contracts)
      BY DEF PlanInv, PlanTypes
    <2>3. /\ Len(contracts) \in Nat /\ DOMAIN contracts = 1..Len(contracts)
          /\ Len(plan) \in Nat /\ DOMAIN plan = 1..Len(plan)
      BY <2>2 DEF IsSequence
    <2>4. planned + 1 \in DOMAIN contracts /\ planned \in Nat
      BY <1>1, <2>2, <2>3
    <2>8. OfAFamily' /\ \A d, e : Apart(d, e)' = Apart(d, e)
      BY <1>1, SamePaths DEF PlanInv
    <2>11. \A i \in 1..planned' : i \in 1..planned \/ i = planned + 1
      BY <2>1, <2>4
    <2>5. /\ IsSequence(plan')
          /\ \A n \in DOMAIN plan' : HasContracts(plan'[n]) /\ IsSequence(plan'[n].contracts)
          /\ \A n \in DOMAIN plan :
                /\ n \in DOMAIN plan'
                /\ plan'[n].method = plan[n].method /\ plan'[n].template = plan[n].template
                /\ ToSet(plan[n].contracts) \subseteq ToSet(plan'[n].contracts)
          /\ \E n \in DOMAIN plan' : /\ plan'[n].method = c.method /\ plan'[n].template = c.template
                                     /\ c \in ToSet(plan'[n].contracts)
      <3>1. CASE Group(c) = {}
        <4>1. plan' = Append(plan, Entry(c, c.template))
          BY <2>1, <3>1
        <4>2. HasContracts(Entry(c, c.template)) /\ Entry(c, c.template).contracts = <<c>> /\ <<c>> \in Seq({c}) /\ <<c>>[1] = c
          BY DEF Entry, HasContracts
        <4>3. IsSequence(<<c>>) /\ c \in ToSet(<<c>>)
          <5>1. <<c>> \in Seq({c}) /\ ToSet(<<c>>) = {c}
            BY DEF ToSet
          <5> QED
            BY <5>1, OwnEntries
        <4> DEFINE S == ToSet(plan) \cup {Entry(c, c.template)}
        <4>4. plan \in Seq(S) /\ Entry(c, c.template) \in S
          BY <2>2, OwnEntries DEF IsSequence
        <4>5. Entry(c, c.template).method = c.method /\ Entry(c, c.template).template = c.template
          BY DEF Entry
        <4> HIDE DEF S
        <4>6. plan' \in Seq(S)
          BY <4>1, <4>4
        <4>7. /\ DOMAIN plan' = 1..(Len(plan) + 1) /\ plan'[Len(plan) + 1] = Entry(c, c.template)
              /\ \A n \in 1..Len(plan) : plan'[n] = plan[n]
          BY <4>1, <4>4
        <4>8. IsSequence(plan')
          BY <4>6, OwnEntries
        <4>9. Len(plan) + 1 \in DOMAIN plan'
          BY <2>3, <4>7
        <4>10. \A n \in DOMAIN plan' : n \in DOMAIN plan \/ n = Len(plan) + 1
          BY <2>3, <4>7
        <4>11. \A n \in DOMAIN plan : n \in DOMAIN plan' /\ plan'[n] = plan[n]
          BY <2>3, <4>7
        <4>12. \A n \in DOMAIN plan' : HasContracts(plan'[n]) /\ IsSequence(plan'[n].contracts)
          BY <2>2, <4>2, <4>3, <4>7, <4>10, <4>11
        <4>13. \E n \in DOMAIN plan' : /\ plan'[n].method = c.method /\ plan'[n].template = c.template
                                       /\ c \in ToSet(plan'[n].contracts)
          BY <4>2, <4>3, <4>5, <4>7, <4>9
        <4> QED
          BY <4>8, <4>11, <4>12, <4>13
      <3>2. CASE Group(c) # {}
        <4>1. /\ DOMAIN plan' = DOMAIN plan
              /\ \A n \in Group(c) : plan'[n] = [plan[n] EXCEPT !.contracts = Append(plan[n].contracts, c)]
              /\ \A n \in DOMAIN plan \ Group(c) : plan'[n] = plan[n]
              /\ Group(c) \subseteq DOMAIN plan
          BY <2>1, <3>2 DEF Group
        <4>2. ASSUME NEW n \in Group(c)
              PROVE  /\ plan'[n].method = plan[n].method /\ plan'[n].template = plan[n].template
                     /\ HasContracts(plan'[n]) /\ IsSequence(plan'[n].contracts)
                     /\ ToSet(plan[n].contracts) \subseteq ToSet(plan'[n].contracts)
                     /\ c \in ToSet(plan'[n].contracts)
          <5>2. HasContracts(plan[n])
            BY <4>1 DEF PlanInv, PlanTypes
          <5>3. /\ plan'[n].contracts = Append(plan[n].contracts, c)
                /\ plan'[n].method = plan[n].method /\ plan'[n].template = plan[n].template
                /\ HasContracts(plan'[n])
            BY <4>1, <5>2 DEF HasContracts
          <5>4. IsSequence(<<c>>) /\ ToSet(<<c>>) = {c}
            <6>1. <<c>> \in Seq({c}) /\ ToSet(<<c>>) = {c}
              BY DEF ToSet
            <6> QED
              BY <6>1, OwnEntries
          <5>5. IsSequence(plan[n].contracts)
            BY <2>2, <4>1
          <5>6. Append(plan[n].contracts, c) = plan[n].contracts \o <<c>>
            <6>1. plan[n].contracts \in Seq(ToSet(plan[n].contracts) \cup {c})
              BY <5>5, OwnEntries DEF IsSequence
            <6> HIDE DEF c
            <6> QED
              BY <6>1
          <5>7. /\ IsSequence(plan[n].contracts \o <<c>>)
                /\ ToSet(plan[n].contracts \o <<c>>) = ToSet(plan[n].contracts) \cup {c}
            BY <5>4, <5>5, ConcatOfAny
          <5> QED
            BY <5>3, <5>6, <5>7
        <4>3. IsSequence(plan')
          <5>1. plan' = [n \in 1..Len(plan) |-> plan'[n]]
            BY <2>1, <2>3, <3>2
          <5> QED
            BY <2>3, <5>1, IntervalIsSeq
        <4>4. PICK n \in Group(c) : TRUE
          BY <3>2
        <4>5. plan[n].method = c.method /\ plan[n].template = c.template
          BY <4>4 DEF Group
        <4> QED
          BY <2>2, <4>1, <4>2, <4>3, <4>4, <4>5
      <3> QED
        BY <3>1, <3>2
    <2>10. PlanTypes'
      <3>1. planned' \in 0..Len(contracts')
        BY <1>1, <2>1, <2>3, <2>4
      <3> QED
        BY <1>1, <2>1, <2>5, <3>1 DEF PlanInv, PlanTypes
    <2>12. EnteredSoFar'
      <3>1. ASSUME NEW i \in 1..planned'
            PROVE  \E n \in DOMAIN plan' : /\ plan'[n].method = contracts[i].method
                                           /\ plan'[n].template = contracts[i].template
                                           /\ contracts[i] \in ToSet(plan'[n].contracts)
        <4>1. CASE i \in 1..planned
          <5>1. Entered(contracts[i])
            BY <4>1 DEF PlanInv, EnteredSoFar
          <5>2. PICK n \in DOMAIN plan : /\ plan[n].method = contracts[i].method
                                         /\ plan[n].template = contracts[i].template
                                         /\ contracts[i] \in ToSet(plan[n].contracts)
            BY <1>1, <5>1 DEF Entered
          <5> QED
            BY <2>5, <5>2
        <4>2. CASE i = planned + 1
          BY <2>5, <4>2
        <4> QED
          BY <2>11, <4>1, <4>2
      <3>2. \A d : (\E n \in DOMAIN plan' : /\ plan'[n].method = d.method
                                            /\ plan'[n].template = d.template
                                            /\ d \in ToSet(plan'[n].contracts)) => Entered(d)'
        BY <1>1 DEF Entered
      <3> QED
        BY <1>1, <3>1, <3>2 DEF EnteredSoFar
    <2>13. ApartSoFar'
      <3>1. ASSUME NEW i \in 1..planned
            PROVE  Apart(contracts[i], c)
        <4>1. Entered(contracts[i])
          BY DEF PlanInv, EnteredSoFar
        <4>2. SUFFICES ASSUME contracts[i].method = c.method, contracts[i].template = c.template
                       PROVE  ~Overlaps(contracts[i], c)
          BY <1>1 DEF Apart
        <4>3. PICK n \in DOMAIN plan : /\ plan[n].method = contracts[i].method
                                       /\ plan[n].template = contracts[i].template
                                       /\ contracts[i] \in ToSet(plan[n].contracts)
          BY <1>1, <4>1 DEF Entered
        <4>4. n \in Group(c)
          BY <4>2, <4>3 DEF Group
        <4>5. ~Overlaps(c, contracts[i])
          BY <1>3, <4>3, <4>4
        <4> QED
          BY <4>5 DEF Overlaps, VersionsOverlap, SharesAVersion
      <3>2. ASSUME NEW i \in 1..planned', NEW j \in 1..planned', i < j
            PROVE  Apart(contracts[i], contracts[j])
        <4>1. CASE j \in 1..planned
          <5>1. i \in 1..planned
            BY <2>4, <3>2, <4>1
          <5> QED
            BY <3>2, <4>1, <5>1 DEF PlanInv, ApartSoFar
        <4>2. CASE j = planned + 1
          <5>1. i \in 1..planned
            BY <2>4, <3>2, <4>2
          <5> QED
            BY <3>1, <4>2, <5>1
        <4> QED
          BY <2>11, <4>1, <4>2
      <3> QED
        BY <1>1, <2>8, <3>2 DEF ApartSoFar
    <2>14. NoConflicts' /\ NoHosts'
      BY <1>1, <2>1 DEF PlanInv, NoConflicts, NoHosts
    <2> QED
      BY <2>8, <2>10, <2>12, <2>13, <2>14 DEF PlanInv
  <1> QED
    BY <1>2, <1>3

LEMMA PlanIsServed ==
    ASSUME PlanInv, CheckCapabilities \/ RegisterNext
    PROVE  PlanInv'
  <1>1. CASE RegisterNext
    <2>1. /\ stage = "registering" /\ stage' \in {"registering", "serving"}
          /\ UNCHANGED <<app, contracts, planned, plan>>
      BY <1>1 DEF RegisterNext, GoesOn, planVars
    <2> QED
      BY <2>1, PlanRests
  <1>2. CASE CheckCapabilities
    <2>1. /\ stage = "routing" /\ planned = Len(contracts)
          /\ UNCHANGED <<app, contracts, planned, plan>>
      BY <1>2 DEF CheckCapabilities, RefusePlan, GoesOn, planVars
    <2>2. CASE stage' = "refused"
      BY <2>1, <2>2, PlanRests
    <2>3. CASE stage' # "refused"
      <3>1. /\ stage' \in {"registering", "serving"}
            /\ \A n \in DOMAIN plan : ~plan[n].contracts[1].hosts
        BY <1>2, <2>3 DEF CheckCapabilities, RefusePlan, GoesOn
      <3>2. OfAFamily' /\ \A d, e : Apart(d, e)' = Apart(d, e)
        BY <2>1, SamePaths DEF PlanInv
      <3>3. \A d : Entered(d)' = Entered(d)
        BY <2>1, SamePaths DEF Entered
      <3>4. PlanTypes'
        BY <2>1, <3>1 DEF PlanInv, PlanTypes
      <3>5. EnteredSoFar' /\ ApartSoFar'
        BY <2>1, <3>2, <3>3 DEF PlanInv, EnteredSoFar, ApartSoFar
      <3>6. NoConflicts' /\ NoHosts'
        BY <2>1, <3>1 DEF PlanInv, NoConflicts, NoHosts
      <3> QED
        BY <3>2, <3>4, <3>5, <3>6 DEF PlanInv
    <2> QED
      BY <2>2, <2>3
  <1> QED
    BY <1>1, <1>2

LEMMA PlanGoesOn ==
    ASSUME WalkInv, PlanInv, [Next]_bootstrapVars
    PROVE  PlanInv'
  <1>1. CASE AssemblyNext /\ UNCHANGED <<routerVars, planVars>>
    BY <1>1, PlanWaits
  <1>2. CASE CompileContracts
    BY <1>2, PlanCompiles
  <1>3. CASE PlanByPath
    BY <1>3, PlanAddsPaths
  <1>4. CASE PlanByHeader
    BY <1>4, PlanAddsVersion
  <1>5. CASE CheckCapabilities \/ RegisterNext
    BY <1>5, PlanIsServed
  <1>6. CASE UNCHANGED bootstrapVars
    <2>1. stage' = stage /\ UNCHANGED <<app, contracts, planned, plan>>
      BY <1>6 DEF bootstrapVars, assemblyVars, planVars
    <2> QED
      BY <2>1, PlanRests
  <1> QED
    BY <1>1, <1>2, <1>3, <1>4, <1>5, <1>6 DEF Next

LEMMA PlanStarts ==
    ASSUME Init
    PROVE  PlanInv
  <1>1. /\ \E f \in DOMAIN Families : app \in Families[f]
        /\ stage = "discovering" /\ contracts = <<>> /\ planned = 0 /\ plan = <<>>
    BY DEF Init, AssemblyInit
  <1>2. <<>> \in Seq({}) /\ DOMAIN plan = {} /\ Len(contracts) = 0 /\ 1..planned = {}
    BY <1>1
  <1>3. IsSequence(plan) /\ IsSequence(contracts) /\ ToSet(contracts) = {}
    <2>1. ToSet(<<>>) = {}
      BY DEF ToSet
    <2>2. IsSequence(<<>>)
      BY <2>1 DEF IsSequence
    <2> QED
      BY <1>1, <2>1, <2>2
  <1>4. PlanTypes
    BY <1>1, <1>2, <1>3 DEF PlanTypes
  <1>5. EnteredSoFar /\ ApartSoFar
    BY <1>2 DEF EnteredSoFar, ApartSoFar
  <1> QED
    BY <1>1, <1>4, <1>5 DEF PlanInv, OfAFamily, NoConflicts, NoHosts

\* Once every contract has been planned, no two of them answer alike.
LEMMA PlannedIsApart ==
    ASSUME PlanInv, stage = "serving",
           NEW i \in DOMAIN contracts, NEW j \in DOMAIN contracts, i < j,
           contracts[i].method = contracts[j].method
    PROVE  LET c == contracts[i]  d == contracts[j] IN
           CASE app.versioning.type = "none" ->
                     /\ c.template # d.template
                     /\ VersionsOverlap(c, d) => Canonical[c.template] # Canonical[d.template]
             [] app.versioning.type = "uri" -> ToSet(PathsOf(c)) \cap ToSet(PathsOf(d)) = {}
             [] OTHER -> c.template = d.template =>
                     /\ ~(IsNeutral(c) /\ IsNeutral(d))
                     /\ IsNeutral(c) \/ IsNeutral(d) \/ ~SharesAVersion(c, d)
  <1> DEFINE c == contracts[i]
             d == contracts[j]
  <1>1. /\ IsSequence(contracts) /\ planned = Len(contracts) /\ IsSequence(plan)
        /\ \A e \in ToSet(contracts) : e.hosts \in BOOLEAN
    BY DEF PlanInv, PlanTypes
  <1>2. DOMAIN contracts = 1..planned
    BY <1>1 DEF IsSequence
  <1>3. Apart(c, d) /\ Entered(c) /\ Entered(d)
    BY <1>2 DEF PlanInv, ApartSoFar, EnteredSoFar
  <1>4. app.versioning.type \in {"none", "uri", "header"}
    <2>1. app.versioning \in Versionings
      BY BootstrapAssumption DEF PlanInv, OfAFamily
    <2> QED
      BY <2>1 DEF Versionings
  <1>5. CASE app.versioning.type = "none"
    <2>1. PathsOf(c) = <<c.template>> /\ PathsOf(d) = <<d.template>>
      BY <1>5 DEF PathsOf
    <2>2. ToSet(PathsOf(c)) = {c.template} /\ ToSet(PathsOf(d)) = {d.template}
      BY <2>1 DEF ToSet
    <2>3. c.template # d.template
      BY <1>3, <1>5, <2>2 DEF Apart
    <2>4. ASSUME NEW e \in ToSet(contracts), Entered(e), ToSet(PathsOf(e)) = {e.template}
          PROVE  ~e.hosts
      <3>1. PICK n \in DOMAIN plan : plan[n] = Entry(e, e.template)
        BY <1>5, <2>4 DEF Entered, ToSet
      <3>2. plan[n].contracts[1] = e
        BY <3>1 DEF Entry
      <3> QED
        BY <3>2 DEF PlanInv, NoHosts
    <2>5. c \in ToSet(contracts) /\ d \in ToSet(contracts)
      BY DEF ToSet
    <2>6. c.hosts = d.hosts
      BY <1>1, <1>3, <2>2, <2>4, <2>5
    <2>7. ~Conflict(c, d)
      BY <1>5 DEF PlanInv, NoConflicts
    <2>8. VersionsOverlap(c, d) => Canonical[c.template] # Canonical[d.template]
      BY <2>6, <2>7 DEF Conflict
    <2> QED
      BY <1>5, <2>3, <2>8
  <1>6. CASE app.versioning.type = "uri"
    BY <1>3, <1>6 DEF Apart
  <1>7. CASE app.versioning.type = "header"
    <2>1. c.template = d.template => ~VersionsOverlap(c, d)
      BY <1>3, <1>7 DEF Apart, Overlaps
    <2> HIDE DEF c, d
    <2> QED
      BY <1>7, <2>1 DEF VersionsOverlap, c, d
  <1> QED
    BY <1>4, <1>5, <1>6, <1>7

\* RouteRegistry.validate and _RoutePlanBuilder: whichever handlers are declared, and however
\* their versions are told apart, a plan that is served has no two that claim one method and
\* path, and validate's comparison of patterns has let none of them through.
THEOREM NoTwoHandlersAnswerAlike ==
    Spec => []NoTwoAnswerAlike
  <1>1. Init => WalkInv /\ PlanInv
    BY WalkStarts, PlanStarts
  <1>2. WalkInv /\ PlanInv /\ [Next]_bootstrapVars => (WalkInv /\ PlanInv)'
    BY WalkGoesOn, PlanGoesOn
  <1>3. PlanInv => NoTwoAnswerAlike
    BY PlannedIsApart DEF NoTwoAnswerAlike
  <1> QED
    BY <1>1, <1>2, <1>3, PTL DEF Spec

-----------------------------------------------------------------------------
(* What is picked of a sequence, place by place.                             *)

\* The n-th of some places.
Place(places, n) == CHOOSE i \in places : Cardinality({j \in places : j <= i}) = n

\* A function that counts a set, and one that lists some numbers in order.
Counts(e, K, S) ==
    /\ \A n \in 1..K : e[n] \in S
    /\ \A n, m \in 1..K : e[n] = e[m] => n = m
    /\ \A x \in S : \E n \in 1..K : e[n] = x

Lists(e, K, A) ==
    /\ \A n \in 1..K : e[n] \in A
    /\ \A n, m \in 1..K : n < m => e[n] < e[m]
    /\ \A i \in A : \E n \in 1..K : e[n] = i

\* A set that is counted without a repetition has as many members.
LEMMA Counted ==
    ASSUME NEW S, NEW K \in Nat, NEW e, Counts(e, K, S)
    PROVE  IsFiniteSet(S) /\ Cardinality(S) = K
  <1> DEFINE f == [n \in 1..K |-> e[n]]
  <1>1. f \in [1..K -> S]
    BY DEF Counts
  <1>2. f \in Bijection(1..K, S)
    BY <1>1 DEF Counts, Bijection, Injection, Surjection, IsInjective
  <1>3. ExistsBijection(1..K, S)
    BY <1>2 DEF ExistsBijection
  <1>4. IsFiniteSet(1..K) /\ Cardinality(1..K) = K
    <2>1. K \in Int /\ 1 \in Int /\ K >= 0
      OBVIOUS
    <2>2. IsFiniteSet(1..K) /\ Cardinality(1..K) = IF 1 > K THEN 0 ELSE K - 1 + 1
      BY <2>1, FS_Interval
    <2> QED
      BY <2>1, <2>2
  <1> QED
    BY <1>3, <1>4, FS_Bijection

\* The n-th place is one of them, with n up to it.
LEMMA PlaceIsIn ==
    ASSUME NEW N \in Nat, NEW A \in SUBSET (1..N), NEW n \in 1..Cardinality(A)
    PROVE  Place(A, n) \in A /\ Cardinality({j \in A : j <= Place(A, n)}) = n
  <1>1. \E i \in A : Cardinality({j \in A : j <= i}) = n
    BY NthPlace
  <1> QED
    BY <1>1 DEF Place

\* An enumeration in order finds each place at its number.
LEMMA Enumerated ==
    ASSUME NEW N \in Nat, NEW A \in SUBSET (1..N), NEW K \in Nat, NEW e, Lists(e, K, A)
    PROVE  Cardinality(A) = K /\ \A n \in 1..K : Place(A, n) = e[n]
  <1> DEFINE UpTo(i) == {j \in A : j <= i}
  <1>0. /\ \A n \in 1..K : e[n] \in A
        /\ \A n, m \in 1..K : n < m => e[n] < e[m]
        /\ \A i \in A : \E n \in 1..K : e[n] = i
    BY DEF Lists
  <1>1. \A i \in A : i \in Nat
    OBVIOUS
  <1>2. \A n, m \in 1..K : e[n] = e[m] => n = m
    <2> SUFFICES ASSUME NEW n \in 1..K, NEW m \in 1..K, e[n] = e[m], n # m PROVE FALSE
      OBVIOUS
    <2>1. e[n] \in Nat
      BY <1>0, <1>1
    <2>2. n < m \/ m < n
      OBVIOUS
    <2> QED
      BY <1>0, <2>1, <2>2
  <1>3. Cardinality(A) = K
    <2>1. Counts(e, K, A)
      BY <1>0, <1>2 DEF Counts
    <2> QED
      BY <2>1, Counted
  <1>4. ASSUME NEW n \in 1..K PROVE Cardinality(UpTo(e[n])) = n
    <2>1. n \in Nat /\ \A m \in 1..n : m \in 1..K /\ (m < n \/ m = n)
      OBVIOUS
    <2>2. \A m \in 1..n : e[m] \in UpTo(e[n])
      <3> SUFFICES ASSUME NEW m \in 1..n PROVE e[m] \in UpTo(e[n])
        OBVIOUS
      <3>1. e[m] \in A /\ e[n] \in A /\ e[m] \in Nat /\ e[n] \in Nat
        BY <2>1, <1>0, <1>1
      <3>2. e[m] < e[n] \/ e[m] = e[n]
        BY <2>1, <1>0
      <3>3. e[m] <= e[n]
        BY <3>1, <3>2
      <3> QED
        BY <3>1, <3>3
    <2>3. \A m, k \in 1..n : e[m] = e[k] => m = k
      BY <2>1, <1>2
    <2>4. ASSUME NEW x \in UpTo(e[n]) PROVE \E m \in 1..n : e[m] = x
      <3>1. PICK m \in 1..K : e[m] = x
        BY <1>0
      <3>2. ~(n < m)
        <4>1. x \in Nat /\ e[n] \in Nat /\ x <= e[n]
          BY <1>0, <1>1
        <4>2. n < m => e[n] < x
          BY <3>1, <1>0
        <4> QED
          BY <4>1, <4>2
      <3>3. m \in 1..n
        BY <3>2
      <3> QED
        BY <3>1, <3>3
    <2> HIDE DEF UpTo
    <2> QED
      <3>1. Counts(e, n, UpTo(e[n]))
        BY <2>2, <2>3, <2>4 DEF Counts
      <3> QED
        BY <2>1, <3>1, Counted
  <1>5. ASSUME NEW n \in 1..K PROVE Place(A, n) = e[n]
    <2>1. Place(A, n) \in A /\ Cardinality(UpTo(Place(A, n))) = n
      BY <1>3, PlaceIsIn
    <2>2. PICK m \in 1..K : e[m] = Place(A, n)
      BY <2>1, <1>0
    <2>3. Cardinality(UpTo(e[m])) = m
      BY <1>4
    <2> HIDE DEF UpTo
    <2> QED
      BY <2>1, <2>2, <2>3
  <1> QED
    BY <1>3, <1>5

\* The places are in order, and each of them has a number.
LEMMA PlacesInOrder ==
    ASSUME NEW N \in Nat, NEW A \in SUBSET (1..N)
    PROVE  /\ Cardinality(A) \in Nat
           /\ \A n \in 1..Cardinality(A) : Place(A, n) \in A
           /\ \A n, m \in 1..Cardinality(A) : n < m => Place(A, n) < Place(A, m)
           /\ \A i \in A : \E n \in 1..Cardinality(A) : Place(A, n) = i
  <1> DEFINE UpTo(i) == {j \in A : j <= i}
  <1>1. IsFiniteSet(A) /\ Cardinality(A) \in Nat
    BY PlacesAreFinite
  <1>2. \A n \in 1..Cardinality(A) : Place(A, n) \in A /\ Cardinality(UpTo(Place(A, n))) = n
    BY PlaceIsIn
  <1>3. \A i \in A : i \in Nat
    OBVIOUS
  <1>4. ASSUME NEW i \in A, NEW k \in A, i <= k
        PROVE  /\ Cardinality(UpTo(i)) <= Cardinality(UpTo(k))
               /\ Cardinality(UpTo(i)) = Cardinality(UpTo(k)) => i = k
    <2>1. UpTo(i) \in SUBSET UpTo(k)
      <3> SUFFICES ASSUME NEW j \in A, j <= i PROVE j <= k
        OBVIOUS
      <3>1. i \in Nat /\ j \in Nat /\ k \in Nat
        BY <1>3
      <3> QED
        BY <3>1, <1>4
    <2>2. IsFiniteSet(UpTo(k))
      <3>1. UpTo(k) \in SUBSET A
        OBVIOUS
      <3> HIDE DEF UpTo
      <3> QED
        BY <3>1, <1>1, FS_Subset
    <2>3. k \in UpTo(i) => i = k
      <3>1. i \in Nat /\ k \in Nat
        BY <1>3
      <3>2. k \in UpTo(i) => k <= i
        OBVIOUS
      <3> QED
        BY <3>1, <3>2, <1>4
    <2>4. k \in UpTo(k)
      BY <1>3
    <2> HIDE DEF UpTo
    <2>5. /\ Cardinality(UpTo(i)) <= Cardinality(UpTo(k))
          /\ Cardinality(UpTo(k)) = Cardinality(UpTo(i)) => UpTo(k) = UpTo(i)
      BY <2>1, <2>2, FS_Subset
    <2> QED
      BY <2>3, <2>4, <2>5
  <1>5. ASSUME NEW n \in 1..Cardinality(A), NEW m \in 1..Cardinality(A), n < m
        PROVE  Place(A, n) < Place(A, m)
    <2>1. Place(A, n) \in A /\ Place(A, m) \in A /\ Place(A, n) \in Nat /\ Place(A, m) \in Nat
      BY <1>2, <1>3
    <2>2. Cardinality(UpTo(Place(A, n))) = n /\ Cardinality(UpTo(Place(A, m))) = m
      BY <1>2
    <2>3. ~(Place(A, m) <= Place(A, n))
      <3> SUFFICES ASSUME Place(A, m) <= Place(A, n) PROVE FALSE
        OBVIOUS
      <3>1. Cardinality(UpTo(Place(A, m))) <= Cardinality(UpTo(Place(A, n)))
        BY <2>1, <1>4
      <3> HIDE DEF UpTo
      <3> QED
        BY <3>1, <2>2, <1>1, <1>5
    <2> QED
      BY <2>1, <2>3
  <1>6. ASSUME NEW i \in A PROVE \E n \in 1..Cardinality(A) : Place(A, n) = i
    <2> DEFINE n == Cardinality(UpTo(i))
    <2>1. UpTo(i) \in SUBSET A /\ i \in UpTo(i)
      BY <1>3
    <2>2. IsFiniteSet(UpTo(i)) /\ n \in Nat /\ n <= Cardinality(A)
      <3> HIDE DEF UpTo
      <3> QED
        BY <2>1, <1>1, FS_Subset, FS_CardinalityType
    <2>3. n # 0
      <3> HIDE DEF UpTo
      <3> QED
        BY <2>1, <2>2, FS_EmptySet
    <2>4. n \in 1..Cardinality(A)
      BY <2>2, <2>3, <1>1
    <2>5. Place(A, n) \in A /\ Cardinality(UpTo(Place(A, n))) = n
      BY <2>4, <1>2
    <2>6. Place(A, n) \in Nat /\ i \in Nat
      BY <2>5, <1>3
    <2> DEFINE p == Place(A, n)
    <2>7. p = i
      <3>1. p \in A /\ Cardinality(UpTo(p)) = Cardinality(UpTo(i)) /\ p \in Nat
        BY <2>5, <2>6
      <3> HIDE DEF p, UpTo, n
      <3>2. CASE p <= i
        BY <3>1, <3>2, <1>4
      <3>3. CASE i <= p
        BY <3>1, <3>3, <1>4
      <3> QED
        BY <3>1, <3>2, <3>3, <2>6
    <2> QED
      BY <2>4, <2>7
  <1> QED
    BY <1>1, <1>2, <1>5, <1>6

\* Places behind the first n.
Shifted(n, B) == {n + j : j \in B}

\* What is picked of one sequence and of the next is picked of the two.
LEMMA PickedOfConcat ==
    ASSUME NEW S, NEW s \in Seq(S), NEW t \in Seq(S),
           NEW A \in SUBSET DOMAIN s, NEW B \in SUBSET DOMAIN t
    PROVE  Picked(s \o t, A \cup Shifted(Len(s), B)) = Picked(s, A) \o Picked(t, B)
  <1> DEFINE L == Len(s)
             M == Len(t)
             C == A \cup Shifted(L, B)
             a == Cardinality(A)
             b == Cardinality(B)
             e == [n \in 1..(a + b) |-> IF n <= a THEN Place(A, n) ELSE L + Place(B, n - a)]
  <1>1. /\ L \in Nat /\ M \in Nat /\ L + M \in Nat
        /\ A \in SUBSET (1..L) /\ B \in SUBSET (1..M)
    OBVIOUS
  <1>2. /\ a \in Nat
        /\ \A n \in 1..a : Place(A, n) \in A
        /\ \A n, m \in 1..a : n < m => Place(A, n) < Place(A, m)
        /\ \A i \in A : \E n \in 1..a : Place(A, n) = i
    BY <1>1, PlacesInOrder
  <1>3. /\ b \in Nat
        /\ \A n \in 1..b : Place(B, n) \in B
        /\ \A n, m \in 1..b : n < m => Place(B, n) < Place(B, m)
        /\ \A i \in B : \E n \in 1..b : Place(B, n) = i
    BY <1>1, PlacesInOrder
  <1>4. C \in SUBSET (1..(L + M))
    BY <1>1 DEF Shifted
  <1>5. \A i \in A : i \in Nat /\ i <= L
    BY <1>1
  <1>6. \A i \in B : i \in Nat /\ i > 0
    BY <1>1
  <1>7. Picked(s, A) = [n \in 1..a |-> s[Place(A, n)]] /\ Picked(t, B) = [n \in 1..b |-> t[Place(B, n)]]
    BY DEF Picked, Place
  <1>8. Picked(s, A) \in Seq(S) /\ Picked(t, B) \in Seq(S)
    BY PickedIsSeq
  <1>9. Len(Picked(s, A)) = a /\ Len(Picked(t, B)) = b
    BY <1>2, <1>3, <1>7, <1>8
  <1> HIDE DEF a, b
  <1>10. \A n \in 1..(a + b) : (n <= a /\ n \in 1..a /\ e[n] = Place(A, n))
                             \/ (n > a /\ n - a \in 1..b /\ e[n] = L + Place(B, n - a))
    BY <1>2, <1>3
  <1>11. \A n \in 1..(a + b) : e[n] \in C
    BY <1>10, <1>2, <1>3 DEF Shifted
  <1>12. ASSUME NEW n \in 1..(a + b), NEW m \in 1..(a + b), n < m PROVE e[n] < e[m]
    <2>1. CASE n <= a /\ m <= a
      <3>1. n \in 1..a /\ m \in 1..a /\ e[n] = Place(A, n) /\ e[m] = Place(A, m)
        BY <2>1, <1>10, <1>2
      <3> HIDE DEF e
      <3> QED
        BY <3>1, <1>2, <1>12
    <2>2. CASE n <= a /\ m > a
      <3>1. n \in 1..a /\ m - a \in 1..b /\ e[n] = Place(A, n) /\ e[m] = L + Place(B, m - a)
        BY <2>2, <1>10, <1>2
      <3>2. Place(A, n) \in Nat /\ Place(A, n) <= L /\ Place(B, m - a) \in Nat /\ Place(B, m - a) > 0
        BY <3>1, <1>2, <1>3, <1>5, <1>6
      <3> HIDE DEF e
      <3> QED
        BY <3>1, <3>2, <1>1
    <2>3. CASE n > a /\ m > a
      <3>1. n - a \in 1..b /\ m - a \in 1..b /\ e[n] = L + Place(B, n - a) /\ e[m] = L + Place(B, m - a)
        BY <2>3, <1>10, <1>2
      <3>2. n - a < m - a
        BY <1>12, <1>2, <1>3
      <3>3. Place(B, n - a) < Place(B, m - a) /\ Place(B, n - a) \in Nat /\ Place(B, m - a) \in Nat
        BY <3>1, <3>2, <1>3, <1>6
      <3> HIDE DEF e
      <3> QED
        BY <3>1, <3>3, <1>1
    <2> QED
      BY <2>1, <2>2, <2>3, <1>2, <1>3, <1>12
  <1>13. ASSUME NEW i \in C PROVE \E n \in 1..(a + b) : e[n] = i
    <2>1. CASE i \in A
      <3>1. PICK n \in 1..a : Place(A, n) = i
        BY <2>1, <1>2
      <3>2. n \in 1..(a + b) /\ n <= a
        BY <1>2, <1>3
      <3> QED
        BY <3>1, <3>2
    <2>2. CASE \E j \in B : i = L + j
      <3>1. PICK j \in B : i = L + j
        BY <2>2
      <3>2. PICK n \in 1..b : Place(B, n) = j
        BY <1>3
      <3>3. a + n \in 1..(a + b) /\ ~(a + n <= a) /\ (a + n) - a = n
        BY <1>2, <1>3
      <3>4. e[a + n] = L + Place(B, (a + n) - a)
        BY <3>3
      <3> QED
        BY <3>1, <3>2, <3>3, <3>4
    <2> QED
      BY <2>1, <2>2 DEF Shifted
  <1>14. /\ Picked(s \o t, C) = [n \in 1..(a + b) |-> Picked(s \o t, C)[n]]
         /\ \A n \in 1..(a + b) : Picked(s \o t, C)[n] = (s \o t)[e[n]]
    <2>1. a + b \in Nat
      BY <1>2, <1>3
    <2> HIDE DEF C, e
    <2> QED
      <3>1. Lists(e, a + b, C)
        BY <1>11, <1>12, <1>13 DEF Lists
      <3>2. Cardinality(C) = a + b /\ \A n \in 1..(a + b) : Place(C, n) = e[n]
        BY <1>1, <1>4, <2>1, <3>1, Enumerated
      <3>3. Picked(s \o t, C) = [n \in 1..Cardinality(C) |-> (s \o t)[Place(C, n)]]
        BY DEF Picked, Place
      <3> QED
        BY <3>2, <3>3
  <1>15. ASSUME NEW n \in 1..(a + b)
         PROVE  (s \o t)[e[n]] = (Picked(s, A) \o Picked(t, B))[n]
    <2>1. CASE n <= a
      <3>1. n \in 1..a /\ e[n] = Place(A, n) /\ Place(A, n) \in 1..L
        BY <2>1, <1>10, <1>1, <1>2
      <3>2. (s \o t)[e[n]] = s[Place(A, n)]
        BY <3>1
      <3>3. (Picked(s, A) \o Picked(t, B))[n] = Picked(s, A)[n]
        BY <3>1, <1>8, <1>9
      <3> QED
        BY <3>1, <3>2, <3>3, <1>7
    <2>2. CASE n > a
      <3>1. n - a \in 1..b /\ e[n] = L + Place(B, n - a) /\ Place(B, n - a) \in 1..M
        BY <2>2, <1>10, <1>1, <1>2, <1>3
      <3>2. (s \o t)[e[n]] = t[Place(B, n - a)]
        <4>1. e[n] > L /\ e[n] <= L + M /\ e[n] - L = Place(B, n - a) /\ e[n] \in 1..(L + M)
          BY <3>1, <1>1
        <4> HIDE DEF e
        <4> QED
          BY <4>1, ConcatProperties
      <3>3. (Picked(s, A) \o Picked(t, B))[n] = Picked(t, B)[n - a]
        <4>1. n \in 1..(a + b) /\ n > Len(Picked(s, A))
          BY <2>2, <1>9
        <4> QED
          BY <4>1, <1>8, <1>9, ConcatProperties
      <3> QED
        BY <3>1, <3>2, <3>3, <1>7
    <2>3. n <= a \/ n > a
      BY <1>2, <1>3
    <2> QED
      BY <2>1, <2>2, <2>3
  <1>16. Picked(s, A) \o Picked(t, B) = [n \in 1..(a + b) |-> (Picked(s, A) \o Picked(t, B))[n]]
    <2> DEFINE u == Picked(s, A)
               v == Picked(t, B)
    <2>1. u \in Seq(S) /\ v \in Seq(S) /\ Len(u) = a /\ Len(v) = b
      BY <1>8, <1>9
    <2> HIDE DEF u, v
    <2>2. u \o v \in Seq(S) /\ Len(u \o v) = a + b
      BY <2>1
    <2>3. u \o v = [n \in 1..(a + b) |-> (u \o v)[n]]
      <3> DEFINE w == u \o v
      <3>1. w \in Seq(S) /\ Len(w) = a + b
        BY <2>2
      <3> HIDE DEF w
      <3>2. DOMAIN w = 1..(a + b) /\ w = [n \in DOMAIN w |-> w[n]]
        BY <3>1, LenProperties
      <3> QED
        BY <3>2 DEF w
    <2> QED
      BY <2>3 DEF u, v
  <1>17. \A n \in 1..(a + b) : Picked(s \o t, C)[n] = (Picked(s, A) \o Picked(t, B))[n]
    BY <1>14, <1>15
  <1> QED
    BY <1>14, <1>16, <1>17

\* What is picked of what was picked.
LEMMA PickedOfPicked ==
    ASSUME NEW S, NEW s \in Seq(S), NEW A \in SUBSET DOMAIN s, NEW B \in SUBSET DOMAIN Picked(s, A)
    PROVE  Picked(Picked(s, A), B) = Picked(s, {Place(A, j) : j \in B})
  <1> DEFINE L == Len(s)
             a == Cardinality(A)
             b == Cardinality(B)
             C == {Place(A, j) : j \in B}
             e == [n \in 1..b |-> Place(A, Place(B, n))]
  <1>1. L \in Nat /\ A \in SUBSET (1..L)
    OBVIOUS
  <1>2. /\ a \in Nat
        /\ \A n \in 1..a : Place(A, n) \in A
        /\ \A n, m \in 1..a : n < m => Place(A, n) < Place(A, m)
    BY <1>1, PlacesInOrder
  <1>3. B \in SUBSET (1..a)
    BY DEF Picked
  <1> HIDE DEF a
  <1>4. /\ b \in Nat
        /\ \A n \in 1..b : Place(B, n) \in B
        /\ \A n, m \in 1..b : n < m => Place(B, n) < Place(B, m)
        /\ \A i \in B : \E n \in 1..b : Place(B, n) = i
    BY <1>2, <1>3, PlacesInOrder
  <1>5. Picked(Picked(s, A), B) = [n \in 1..b |-> Picked(s, A)[Place(B, n)]]
    BY DEF Picked, Place
  <1>6. \A n \in 1..a : Picked(s, A)[n] = s[Place(A, n)]
    BY DEF Picked, Place, a
  <1> HIDE DEF b
  <1>7. C \in SUBSET (1..L)
    BY <1>1, <1>2, <1>3
  <1>8. \A n \in 1..b : e[n] \in C
    BY <1>4
  <1>9. \A n, m \in 1..b : n < m => e[n] < e[m]
    BY <1>2, <1>3, <1>4
  <1>10. \A i \in C : \E n \in 1..b : e[n] = i
    BY <1>4
  <1>11. /\ Picked(s, C) = [n \in 1..b |-> Picked(s, C)[n]]
         /\ \A n \in 1..b : Picked(s, C)[n] = s[e[n]]
    <2> HIDE DEF C, e
    <2> QED
      <3>1. Lists(e, b, C)
        BY <1>8, <1>9, <1>10 DEF Lists
      <3>2. Cardinality(C) = b /\ \A n \in 1..b : Place(C, n) = e[n]
        BY <1>1, <1>4, <1>7, <3>1, Enumerated
      <3>3. Picked(s, C) = [n \in 1..Cardinality(C) |-> s[Place(C, n)]]
        BY DEF Picked, Place
      <3> QED
        BY <3>2, <3>3
  <1>12. \A n \in 1..b : Picked(s, A)[Place(B, n)] = s[e[n]]
    BY <1>3, <1>4, <1>6
  <1> HIDE DEF C, e
  <1>13. \A n \in 1..b : Picked(s, C)[n] = Picked(s, A)[Place(B, n)]
    BY <1>11, <1>12
  <1>14. Picked(Picked(s, A), B) = Picked(s, C)
    BY <1>5, <1>11, <1>13
  <1> QED
    BY <1>14 DEF C

-----------------------------------------------------------------------------
(* What a module binds.                                                      *)

\* Nothing is picked from nowhere.
LEMMA PickedOfNone ==
    ASSUME NEW s
    PROVE  Picked(s, {}) = <<>>
  <1>1. Cardinality({}) = 0 /\ 1..0 = {}
    BY FS_EmptySet
  <1>2. DOMAIN Picked(s, {}) = {}
    BY <1>1 DEF Picked
  <1> QED
    BY <1>1 DEF Picked

\* The entries of a token, in order.
LEMMA EntriesAreSeq ==
    ASSUME NEW s, IsSequence(s), NEW x
    PROVE  /\ IsSequence(Entries(s, x)) /\ ToSet(Entries(s, x)) = {e \in ToSet(s) : e.token = x}
           /\ Len(Entries(s, x)) \in Nat /\ DOMAIN Entries(s, x) = 1..Len(Entries(s, x))
           /\ Len(Entries(s, x)) <= Len(s)
  <1> DEFINE places == {i \in DOMAIN s : s[i].token = x}
             u == Entries(s, x)
  <1>1. s \in Seq(ToSet(s)) /\ places \in SUBSET DOMAIN s /\ u = Picked(s, places)
    BY DEF IsSequence, Entries
  <1>2. u \in Seq(ToSet(s)) /\ ToSet(u) = {s[i] : i \in places}
    BY <1>1, PickedIsSeq, PickedIsAll
  <1>3. IsSequence(u)
    BY <1>2, OwnEntries
  <1>4. {s[i] : i \in places} = {e \in ToSet(s) : e.token = x}
    BY DEF ToSet
  <1>5. DOMAIN u = 1..Cardinality(places)
    BY <1>1 DEF Picked
  <1>6. Len(u) \in Nat /\ DOMAIN u = 1..Len(u)
    BY <1>2
  <1>7. Cardinality(places) <= Len(s)
    <2>1. Len(s) \in Nat /\ places \in SUBSET (1..Len(s)) /\ 1 \in Int /\ Len(s) \in Int
      BY <1>1
    <2>2. IsFiniteSet(1..Len(s)) /\ Cardinality(1..Len(s)) = IF 1 > Len(s) THEN 0 ELSE Len(s) - 1 + 1
      BY <2>1, FS_Interval
    <2>3. Cardinality(1..Len(s)) = Len(s)
      BY <2>1, <2>2
    <2> HIDE DEF places
    <2> QED
      BY <2>1, <2>2, <2>3, FS_Subset
  <1>8. Len(u) = Cardinality(places)
    <2>1. Len(s) \in Nat /\ places \in SUBSET (1..Len(s))
      BY <1>1
    <2>2. Cardinality(places) \in Nat
      <3> HIDE DEF places
      <3> QED
        BY <2>1, PlacesAreFinite
    <2>3. u = [n \in 1..Cardinality(places) |-> u[n]]
      BY <1>1 DEF Picked
    <2> HIDE DEF u, places
    <2> QED
      BY <1>2, <1>5, <1>6, <2>2, LenProperties
  <1> QED
    BY <1>2, <1>3, <1>4, <1>6, <1>7, <1>8 DEF u

\* The entries of one sequence, then those of the next.
LEMMA EntriesOfConcat ==
    ASSUME NEW s, NEW t, IsSequence(s), IsSequence(t), NEW x
    PROVE  Entries(s \o t, x) = Entries(s, x) \o Entries(t, x)
  <1> DEFINE S == ToSet(s) \cup ToSet(t)
             L == Len(s)
             A == {i \in DOMAIN s : s[i].token = x}
             B == {i \in DOMAIN t : t[i].token = x}
             C == {i \in DOMAIN (s \o t) : (s \o t)[i].token = x}
  <1>1. s \in Seq(S) /\ t \in Seq(S)
    BY OwnEntries
  <1> HIDE DEF S
  <1>2. L \in Nat /\ Len(t) \in Nat /\ DOMAIN s = 1..L /\ DOMAIN t = 1..Len(t)
        /\ DOMAIN (s \o t) = 1..(L + Len(t))
    BY <1>1
  <1>3. /\ \A i \in 1..L : (s \o t)[i] = s[i]
        /\ \A j \in 1..Len(t) : (s \o t)[L + j] = t[j]
    BY <1>1
  <1>4. C = A \cup Shifted(Len(s), B)
    <2>1. \A i \in A : i \in C
      BY <1>2, <1>3
    <2>2. \A j \in B : L + j \in C
      BY <1>2, <1>3
    <2>3. ASSUME NEW i \in C PROVE i \in A \/ \E j \in B : i = L + j
      <3>1. i \in 1..(L + Len(t)) /\ (s \o t)[i].token = x
        BY <1>2
      <3>2. CASE i <= L
        BY <1>2, <1>3, <3>1, <3>2
      <3>3. CASE i > L
        <4>1. i - L \in 1..Len(t) /\ i = L + (i - L)
          BY <1>2, <3>1, <3>3
        <4>2. (s \o t)[i] = t[i - L]
          BY <1>3, <4>1
        <4> QED
          BY <1>2, <3>1, <4>1, <4>2
      <3> QED
        BY <1>2, <3>1, <3>2, <3>3
    <2> QED
      BY <2>1, <2>2, <2>3 DEF Shifted
  <1>5. Picked(s \o t, A \cup Shifted(Len(s), B)) = Picked(s, A) \o Picked(t, B)
    <2>1. A \in SUBSET DOMAIN s /\ B \in SUBSET DOMAIN t
      OBVIOUS
    <2> HIDE DEF A, B
    <2> QED
      BY <1>1, <2>1, PickedOfConcat
  <1> QED
    BY <1>4, <1>5 DEF Entries

\* The entries of a token among some places.
LEMMA EntriesOfPicked ==
    ASSUME NEW s, IsSequence(s), NEW A \in SUBSET DOMAIN s, NEW x
    PROVE  Entries(Picked(s, A), x) = Picked(s, {i \in A : s[i].token = x})
  <1> DEFINE B == {j \in DOMAIN Picked(s, A) : Picked(s, A)[j].token = x}
             C == {i \in A : s[i].token = x}
  <1>1. s \in Seq(ToSet(s)) /\ Len(s) \in Nat /\ A \in SUBSET (1..Len(s))
    <2>1. s \in Seq(ToSet(s))
      BY DEF IsSequence
    <2> QED
      BY <2>1
  <1>2. /\ DOMAIN Picked(s, A) = 1..Cardinality(A)
        /\ \A n \in 1..Cardinality(A) : Picked(s, A)[n] = s[Place(A, n)]
    BY DEF Picked, Place
  <1>3. /\ \A n \in 1..Cardinality(A) : Place(A, n) \in A
        /\ \A i \in A : \E n \in 1..Cardinality(A) : Place(A, n) = i
    BY <1>1, PlacesInOrder
  <1>4. {Place(A, j) : j \in B} = C
    BY <1>2, <1>3
  <1>5. Picked(Picked(s, A), B) = Picked(s, {Place(A, j) : j \in B})
    BY <1>1, PickedOfPicked
  <1> QED
    BY <1>4, <1>5 DEF Entries

\* _overlaid_providers, as long as there are only providers: a slot has the entries of both,
\* and any other token those laid over it, if there are any.
LEMMA OverlaidIsSupplied ==
    ASSUME NEW b, NEW o, IsSequence(b), IsSequence(o), NEW t \in Tokens,
           \A e \in ToSet(OverlaidProviders(b, o)) : NamesAToken(e)
    PROVE  Entries(OverlaidProviders(b, o), t) = Supplied(b, o, t)
  <1> DEFINE isReplaced(e) == Replaceable(e) /\ \E d \in ToSet(o) : Replaceable(d) /\ d.token = e.token
             kept == {i \in DOMAIN b : ~isReplaced(b[i])}
             p == Picked(b, kept)
             here == {i \in DOMAIN b : b[i].token = t}
             still == {i \in kept : b[i].token = t}
  <1>1. OverlaidProviders(b, o) = p \o o
    BY DEF OverlaidProviders
  <1>2. kept \in SUBSET DOMAIN b /\ b \in Seq(ToSet(b))
    BY DEF IsSequence
  <1>3. IsSequence(p) /\ ToSet(p) = {b[i] : i \in kept}
    <2> HIDE DEF kept
    <2> QED
      BY <1>2, PickedOfAny, PickedIsAll
  <1>4. ToSet(p \o o) = ToSet(p) \cup ToSet(o)
    <2> HIDE DEF p
    <2> QED
      BY <1>3, ConcatOfAny
  <1>5. \A e \in ToSet(o) : NamesAToken(e)
    BY <1>1, <1>4
  <1>6. \A i \in DOMAIN b : NamesAToken(b[i])
    <2> SUFFICES ASSUME NEW i \in DOMAIN b, ~NamesAToken(b[i]) PROVE FALSE
      OBVIOUS
    <2>1. i \in kept
      BY DEF Replaceable
    <2> HIDE DEF kept
    <2> QED
      BY <1>1, <1>3, <1>4, <2>1
  <1>7. Entries(p \o o, t) = Picked(b, still) \o Entries(o, t)
    <2> HIDE DEF kept
    <2>1. Entries(p, t) = Picked(b, still)
      BY <1>2, EntriesOfPicked
    <2> HIDE DEF p, still
    <2>2. Entries(p \o o, t) = Entries(p, t) \o Entries(o, t)
      BY <1>3, EntriesOfConcat
    <2> QED
      BY <2>1, <2>2
  <1>8. /\ Entries(b, t) = Picked(b, here)
        /\ IsSequence(Entries(b, t)) /\ IsSequence(Entries(o, t))
        /\ ToSet(Entries(o, t)) = {e \in ToSet(o) : e.token = t}
        /\ Len(Entries(o, t)) \in Nat /\ DOMAIN Entries(o, t) = 1..Len(Entries(o, t))
    <2>1. Entries(b, t) = Picked(b, here)
      BY DEF Entries
    <2> QED
      BY <2>1, EntriesAreSeq
  <1>9. CASE t \in MultiTokens
    <2>1. still = here
      BY <1>9 DEF Replaceable
    <2> HIDE DEF still, here, p
    <2> QED
      BY <1>1, <1>7, <1>8, <1>9, <2>1 DEF Supplied
  <1>10. CASE t \notin MultiTokens /\ Entries(o, t) # <<>>
    <2>1. PICK d \in ToSet(o) : d.token = t
      <3>1. Entries(o, t) \in Seq(ToSet(Entries(o, t)))
        BY <1>8 DEF IsSequence
      <3>2. 1 \in DOMAIN Entries(o, t)
        BY <1>10, <3>1
      <3>3. Entries(o, t)[1] \in ToSet(Entries(o, t))
        BY <3>2 DEF ToSet
      <3> QED
        BY <1>8, <3>3
    <2>2. still = {}
      BY <1>5, <1>6, <1>10, <2>1 DEF Replaceable
    <2>3. Picked(b, still) = <<>>
      BY <2>2, PickedOfNone
    <2>4. <<>> \o Entries(o, t) = Entries(o, t)
      BY <1>8 DEF IsSequence
    <2> HIDE DEF still, p
    <2> QED
      BY <1>1, <1>7, <1>10, <2>3, <2>4 DEF Supplied
  <1>11. CASE t \notin MultiTokens /\ Entries(o, t) = <<>>
    <2>1. \A d \in ToSet(o) : d.token # t
      <3>1. ToSet(<<>>) = {}
        BY DEF ToSet
      <3> QED
        BY <1>8, <1>11, <3>1
    <2>2. still = here
      BY <2>1
    <2>3. Entries(b, t) \o <<>> = Entries(b, t)
      BY <1>8 DEF IsSequence
    <2> HIDE DEF still, here, p
    <2> QED
      BY <1>1, <1>7, <1>8, <1>11, <2>2, <2>3 DEF Supplied
  <1> QED
    BY <1>9, <1>10, <1>11

\* _accumulate_multi_provider_tokens: whoever asks for a token is handed what each of its
\* entries is bound to.
LEMMA HandsOverEach ==
    ASSUME NEW ps, IsSequence(ps), \A e \in ToSet(ps) : IsProvided(e), NEW t \in Tokens
    PROVE  HandedOver(Bindings(ps), t) = [n \in DOMAIN Entries(ps, t) |-> Bound(Entries(ps, t)[n])]
  <1> DEFINE E == Entries(ps, t)
             K == Len(E)
             declared == {e.token : e \in ToSet(ps)}
             folded == {x \in declared : Len(Entries(ps, x)) > 1}
             parts == UNION {{EntryToken(x, n) : n \in DOMAIN Entries(ps, x)} : x \in folded}
             binds == Bindings(ps)
  <1>1. /\ \A x : DOMAIN Entries(ps, x) = 1..Len(Entries(ps, x)) /\ Len(Entries(ps, x)) \in Nat
        /\ \A x : Len(Entries(ps, x)) <= Len(ps)
        /\ IsSequence(E) /\ ToSet(E) = {e \in ToSet(ps) : e.token = t}
    BY EntriesAreSeq
  <1>2. declared \subseteq Tokens
    BY DEF IsProvided
  <1>3. parts \subseteq Tokens \X Nat
    <2>1. \A x : DOMAIN Entries(ps, x) \subseteq Nat
      BY <1>1
    <2>2. folded \subseteq Tokens
      BY <1>2
    <2> HIDE DEF folded
    <2> QED
      BY <2>1, <2>2 DEF EntryToken
  <1>4. \A x \in Tokens \X Nat : x \notin Tokens
    BY CompilerAssumption
  <1>5. binds = [x \in declared \cup parts |->
                   IF x \in folded THEN Joined(x, Len(Entries(ps, x)))
                   ELSE IF x \in declared THEN Bound(Entries(ps, x)[1])
                   ELSE Bound(Entries(ps, x[1])[x[2]])]
    BY DEF Bindings
  <1>6. K \in Nat /\ DOMAIN E = 1..K
    BY <1>1
  <1>7. t \in declared <=> K # 0
    <2>1. ASSUME t \in declared PROVE K # 0
      <3>1. PICK e \in ToSet(E) : TRUE
        BY <1>1, <2>1
      <3>2. DOMAIN E # {}
        BY <3>1 DEF ToSet
      <3> HIDE DEF E
      <3> QED
        BY <3>2, <1>6
    <2>2. ASSUME K # 0 PROVE t \in declared
      <3>1. 1 \in DOMAIN E
        <4> HIDE DEF K, E
        <4> QED
          BY <1>6, <2>2
      <3>2. E[1] \in ToSet(E)
        BY <3>1 DEF ToSet
      <3> HIDE DEF E
      <3> QED
        BY <3>2, <1>1
    <2> QED
      BY <2>1, <2>2
  <1>8. t \notin parts
    BY <1>3, CompilerAssumption
  <1>9. t \in folded <=> K > 1
    BY <1>6, <1>7
  <1>10. DOMAIN binds = declared \cup parts
    BY <1>5
  <1>11. CASE K = 0
    <2>1. t \notin DOMAIN binds
      BY <1>7, <1>8, <1>10, <1>11
    <2>2. HandedOver(binds, t) = <<>>
      BY <2>1 DEF HandedOver
    <2>3. [n \in DOMAIN E |-> Bound(E[n])] = <<>>
      <3>1. DOMAIN E = {}
        BY <1>6, <1>11
      <3> HIDE DEF E
      <3> QED
        BY <3>1
    <2> QED
      BY <2>2, <2>3
  <1>12. CASE K = 1
    <2>1. t \in declared /\ t \notin folded
      BY <1>7, <1>9, <1>12
    <2>2. t \in DOMAIN binds /\ binds[t] = Bound(E[1])
      <3> HIDE DEF declared, folded, parts, binds
      <3> QED
        BY <1>5, <1>10, <2>1
    <2>3. DOMAIN E = 1..1 /\ E[1] \in ToSet(ps)
      <3>1. DOMAIN E = 1..1
        BY <1>6, <1>12
      <3>2. E[1] \in ToSet(E)
        BY <3>1 DEF ToSet
      <3> HIDE DEF E
      <3> QED
        BY <3>1, <3>2, <1>1
    <2>4. E[1].needs \subseteq Tokens \cup {Request, Inquirer}
      BY <2>3 DEF IsProvided
    <2>5. Bound(E[1]).needs = E[1].needs
      BY DEF Bound
    <2> DEFINE N == Cardinality(DOMAIN binds)
    <2>6. \A n \in 1..N : EntryToken(t, n) \notin binds[t].needs
      <3>1. \A n \in 1..N : EntryToken(t, n) \in Tokens \X Nat
        BY DEF EntryToken
      <3>2. Request \notin Tokens \X Nat /\ Inquirer \notin Tokens \X Nat
        BY ConstructorsAssumption
      <3> HIDE DEF N, E, binds
      <3> QED
        BY <1>4, <2>2, <2>4, <2>5, <3>1, <3>2
    <2>7. HandedOver(binds, t) = <<binds[t]>>
      <3>1. {n \in 1..N : EntryToken(t, n) \in binds[t].needs} = {}
        BY <2>6
      <3> HIDE DEF binds
      <3> QED
        BY <2>2, <3>1 DEF HandedOver
    <2>8. [n \in DOMAIN E |-> Bound(E[n])] = <<Bound(E[1])>>
      <3> HIDE DEF E
      <3> QED
        BY <2>3
    <2> QED
      BY <2>2, <2>7, <2>8
  <1>13. CASE K > 1
    <2> DEFINE N == Cardinality(DOMAIN binds)
               mine == {EntryToken(t, i) : i \in 1..K}
    <2>1. t \in folded /\ t \in DOMAIN binds
      BY <1>7, <1>9, <1>10, <1>13
    <2>2. binds[t] = Joined(t, K)
      <3> HIDE DEF declared, folded, parts, binds, E
      <3> QED
        BY <1>5, <1>10, <2>1 DEF E
    <2>3. binds[t].needs = mine
      BY <2>2 DEF Joined
    <2>4. mine \subseteq DOMAIN binds
      <3>1. \A i \in 1..K : EntryToken(t, i) \in parts
        BY <1>6, <2>1
      <3> HIDE DEF parts, declared, binds
      <3> QED
        BY <3>1, <1>10
    <2>5. \A i \in 1..K : binds[EntryToken(t, i)] = Bound(E[i])
      <3> SUFFICES ASSUME NEW i \in 1..K PROVE binds[EntryToken(t, i)] = Bound(E[i])
        OBVIOUS
      <3>1. EntryToken(t, i) \in DOMAIN binds
        <4> HIDE DEF K, binds
        <4> QED
          BY <2>4
      <3>2. EntryToken(t, i) \notin declared
        <4>1. i \in Nat
          BY <1>6
        <4>2. EntryToken(t, i) \in Tokens \X Nat
          BY <4>1 DEF EntryToken
        <4> HIDE DEF declared
        <4> QED
          BY <1>2, <1>4, <4>2
      <3>3. EntryToken(t, i) \notin folded
        BY <3>2
      <3>4. EntryToken(t, i)[1] = t /\ EntryToken(t, i)[2] = i
        BY DEF EntryToken
      <3> HIDE DEF declared, folded, parts, binds, K
      <3> QED
        BY <1>5, <1>10, <3>1, <3>2, <3>3, <3>4
    <2>6. IsFiniteSet(DOMAIN binds)
      <3> DEFINE P == Tokens \X (1..Len(ps))
      <3>1. Len(ps) \in Nat
        BY DEF IsSequence
      <3>2. IsFiniteSet(1..Len(ps))
        BY <3>1, FS_Interval
      <3>3. IsFiniteSet(P)
        BY <3>2, CompilerAssumption, FS_Product
      <3>4. parts \subseteq P
        <4>1. \A x : DOMAIN Entries(ps, x) \subseteq 1..Len(ps)
          BY <1>1, <3>1
        <4>2. folded \subseteq Tokens
          BY <1>2
        <4> HIDE DEF folded
        <4> QED
          BY <4>1, <4>2 DEF EntryToken
      <3>5. IsFiniteSet(Tokens \cup P)
        <4> HIDE DEF P
        <4> QED
          BY <3>3, CompilerAssumption, FS_Union
      <3>6. DOMAIN binds \in SUBSET (Tokens \cup P)
        <4> HIDE DEF P, parts, declared, binds
        <4> QED
          BY <1>2, <1>10, <3>4
      <3> HIDE DEF P, binds
      <3> QED
        BY <3>5, <3>6, FS_Subset
    <2>7. IsFiniteSet(mine) /\ Cardinality(mine) = K
      <3> DEFINE e == [i \in 1..K |-> EntryToken(t, i)]
      <3>1. Counts(e, K, mine)
        BY DEF EntryToken, Counts
      <3> HIDE DEF e, mine, K
      <3> QED
        BY <1>6, <3>1, Counted
    <2>8. N \in Nat /\ K <= N
      <3>1. mine \in SUBSET DOMAIN binds
        BY <2>4
      <3> HIDE DEF mine, binds, K
      <3>2. Cardinality(mine) <= Cardinality(DOMAIN binds) /\ Cardinality(DOMAIN binds) \in Nat
        BY <2>6, <3>1, FS_Subset, FS_CardinalityType
      <3> QED
        BY <2>7, <3>2
    <2> DEFINE numbers == {n \in 1..N : EntryToken(t, n) \in binds[t].needs}
    <2>9. numbers = 1..K
      <3>1. \A n \in 1..N : EntryToken(t, n) \in mine <=> n \in 1..K
        BY DEF EntryToken
      <3>2. \A n \in 1..K : n \in 1..N
        <4> HIDE DEF N, K
        <4> QED
          BY <1>6, <2>8
      <3> HIDE DEF mine, N, K, binds
      <3> QED
        BY <2>3, <3>1, <3>2
    <2>10. Cardinality(1..K) = K /\ 1..K # {}
      <3> HIDE DEF K
      <3>1. K \in Int /\ 1 \in Int /\ K > 1 /\ 1 \in 1..K
        BY <1>6, <1>13
      <3>2. Cardinality(1..K) = IF 1 > K THEN 0 ELSE K - 1 + 1
        BY <3>1, FS_Interval
      <3> QED
        BY <3>1, <3>2
    <2>11. HandedOver(binds, t) = [n \in 1..Cardinality(numbers) |-> binds[EntryToken(t, n)]]
      <3>1. numbers # {}
        BY <2>9, <2>10
      <3> HIDE DEF binds
      <3> QED
        BY <2>1, <3>1 DEF HandedOver
    <2>12. HandedOver(binds, t) = [n \in 1..K |-> binds[EntryToken(t, n)]]
      <3> HIDE DEF numbers, binds, K
      <3> QED
        BY <2>9, <2>10, <2>11
    <2> HIDE DEF binds, K, E
    <2> QED
      BY <1>6, <2>5, <2>12 DEF binds, E
  <1> QED
    BY <1>6, <1>11, <1>12, <1>13

\* Only what is valid is compiled.
OnlyValid == \A m \in DOMAIN compiled : ~Invalid(Expanded(m))

LEMMA ValidStays ==
    ASSUME OnlyValid, [Next]_bootstrapVars
    PROVE  OnlyValid'
  <1>1. ASSUME UNCHANGED <<app, compiled>> PROVE OnlyValid'
    <2>1. \A m : Expanded(m)' = Expanded(m)
      BY <1>1, SameDeclared
    <2> QED
      BY <1>1, <2>1 DEF OnlyValid
  <1>2. ASSUME NEW x \in Modules, Skip(x) \/ RejectCycle(x) PROVE OnlyValid'
    BY <1>1, <1>2 DEF Skip, RejectCycle, Refuse, graphVars
  <1>3. ASSUME NEW x \in Modules, Enter(x) PROVE OnlyValid'
    <2>1. CASE Invalid(Expanded(x))
      BY <1>1, <1>3, <2>1 DEF Enter, Refuse, graphVars
    <2>2. CASE ~Invalid(Expanded(x))
      <3>1. app' = app /\ compiled' = With(compiled, x, Compiled(x))
        BY <1>3, <2>2 DEF Enter
      <3>2. \A m : Expanded(m)' = Expanded(m)
        BY <3>1, SameDeclared
      <3>3. DOMAIN compiled' = DOMAIN compiled \cup {x}
        BY <3>1 DEF With
      <3> QED
        BY <2>2, <3>2, <3>3 DEF OnlyValid
    <2> QED
      BY <2>1, <2>2
  <1>4. CASE Leave
    BY <1>1, <1>4 DEF Leave
  <1>5. CASE \/ Resolve \/ Publish \/ CheckModules \/ (\E k \in Keys : Settle(k)) \/ Judge
             \/ CompileContracts \/ PlanByPath \/ PlanByHeader \/ CheckCapabilities \/ RegisterNext
    BY <1>1, <1>5, WalkIsOver
  <1>6. CASE UNCHANGED bootstrapVars
    BY <1>1, <1>6 DEF bootstrapVars, assemblyVars, graphVars
  <1> QED
    BY <1>2, <1>3, <1>4, <1>5, <1>6 DEF Next, AssemblyNext

\* A module that is compiled binds what is declared of it.
LEMMA BindsWhatIsDeclared ==
    ASSUME WalkInv, OnlyValid
    PROVE  BoundAsDeclared
  <1> SUFFICES ASSUME NEW m \in DOMAIN compiled, NEW t \in Tokens
               PROVE  LET overlay == IF m \in DOMAIN app.dynamic THEN app.dynamic[m].providers ELSE <<>>
                          entries == Supplied(app.modules[m].providers, overlay, t)
                      IN  HandedOver(compiled[m].binds, t) = [n \in DOMAIN entries |-> Bound(entries[n])]
    BY DEF BoundAsDeclared
  <1> DEFINE ps == Expanded(m).providers
  <1>1. IsApplication(app) /\ m \in Modules /\ compiled[m].binds = Bindings(ps)
    <2>1. ordered \in Seq(Modules) /\ m \in ToSet(ordered) /\ compiled[m] = Compiled(m) /\ IsApplication(app)
      BY DEF WalkInv, WalkTypes
    <2>2. m \in Modules
      BY <2>1, OwnEntries
    <2> QED
      BY <2>1, <2>2 DEF Compiled
  <1>2. IsMetadata(Expanded(m))
    BY <1>1, ExpandedIsMetadata
  <1>3. IsSequence(ps) /\ \A e \in ToSet(ps) : IsProvided(e)
    BY <1>2 DEF IsMetadata, ToSet
  <1>4. HandedOver(compiled[m].binds, t) = [n \in DOMAIN Entries(ps, t) |-> Bound(Entries(ps, t)[n])]
    <2> HIDE DEF ps
    <2> QED
      BY <1>1, <1>3, HandsOverEach
  <1>5. \A e \in ToSet(ps) : NamesAToken(e)
    BY DEF OnlyValid, Invalid, Unusable
  <1>6. CASE m \in DOMAIN app.dynamic
    <2>1. IsMetadata(app.modules[m]) /\ IsMetadata(app.dynamic[m])
      BY <1>1, <1>6 DEF IsApplication
    <2>2. IsSequence(app.modules[m].providers) /\ IsSequence(app.dynamic[m].providers)
      BY <2>1 DEF IsMetadata
    <2>3. ps = OverlaidProviders(app.modules[m].providers, app.dynamic[m].providers)
      BY <1>6 DEF Expanded, Overlaid
    <2>4. Entries(ps, t) = Supplied(app.modules[m].providers, app.dynamic[m].providers, t)
      BY <1>5, <2>2, <2>3, OverlaidIsSupplied
    <2> HIDE DEF ps
    <2> QED
      BY <1>4, <1>6, <2>4
  <1>7. CASE m \notin DOMAIN app.dynamic
    <2>1. ps = app.modules[m].providers
      BY <1>7 DEF Expanded
    <2>2. Entries(<<>>, t) = <<>>
      <3>1. {i \in DOMAIN <<>> : <<>>[i].token = t} = {}
        OBVIOUS
      <3> QED
        BY <3>1, PickedOfNone DEF Entries
    <2>3. Entries(ps, t) \o <<>> = Entries(ps, t)
      <3>1. IsSequence(Entries(ps, t))
        BY <1>3, EntriesAreSeq
      <3> QED
        BY <3>1 DEF IsSequence
    <2>4. Supplied(ps, <<>>, t) = Entries(ps, t)
      BY <2>2, <2>3 DEF Supplied
    <2> HIDE DEF ps
    <2> QED
      BY <1>4, <1>7, <2>1, <2>4
  <1> QED
    BY <1>6, <1>7


\* _use_class_scope: a binding keeps an instance no longer than its class declares.
LEMMA ScopeIsAllowed ==
    ASSUME NEW e, IsProvided(e), ~Unusable(e), IsOfClass(e), e.class # Unstated
    PROVE  Keeps(Bound(e).scope) <= Keeps(e.class)
  <1>1. e.class \in Lifetimes /\ (e.scope # Unstated => e.scope \in Lifetimes)
    BY DEF IsProvided
  <1>2. \A x \in Lifetimes : Keeps(x) \in Nat
    BY DEF Lifetimes, Keeps
  <1>3. Bound(e).scope = ScopeOf(e)
    BY DEF Bound
  <1>4. CASE e.form = "class" /\ e.scope # Unstated
    <2>1. ScopeOf(e) = e.scope
      BY <1>4 DEF ScopeOf, NamesAScope
    <2>2. ~(Keeps(e.scope) > Keeps(e.class))
      BY <1>4 DEF Unusable, Widens
    <2>3. Keeps(e.scope) \in Nat /\ Keeps(e.class) \in Nat
      BY <1>1, <1>2, <1>4
    <2> QED
      BY <1>3, <2>1, <2>2, <2>3
  <1>5. CASE ~(e.form = "class" /\ e.scope # Unstated)
    <2>1. ScopeOf(e) = e.class
      BY <1>5 DEF ScopeOf, NamesAScope, IsOfClass
    <2>2. Keeps(e.class) \in Nat
      BY <1>1, <1>2
    <2> QED
      BY <1>3, <2>1, <2>2
  <1> QED
    BY <1>4, <1>5

LEMMA KeptAsAllowed ==
    ASSUME WalkInv, OnlyValid
    PROVE  KeptAsItsClassAllows
  <1> SUFFICES ASSUME NEW m \in DOMAIN compiled, NEW t \in Tokens,
                      NEW n \in DOMAIN Entries(Expanded(m).providers, t),
                      IsOfClass(Entries(Expanded(m).providers, t)[n]),
                      Entries(Expanded(m).providers, t)[n].class # Unstated
               PROVE  Keeps(HandedOver(compiled[m].binds, t)[n].scope)
                          <= Keeps(Entries(Expanded(m).providers, t)[n].class)
    BY DEF KeptAsItsClassAllows
  <1> DEFINE ps == Expanded(m).providers
             e == Entries(ps, t)[n]
  <1>1. /\ IsApplication(app) /\ m \in Modules /\ compiled[m].binds = Bindings(ps)
    <2>1. ordered \in Seq(Modules) /\ m \in ToSet(ordered) /\ compiled[m] = Compiled(m) /\ IsApplication(app)
      BY DEF WalkInv, WalkTypes
    <2>2. m \in Modules
      BY <2>1, OwnEntries
    <2> QED
      BY <2>1, <2>2 DEF Compiled
  <1>2. IsMetadata(Expanded(m))
    BY <1>1, ExpandedIsMetadata
  <1>3. IsSequence(ps) /\ \A x \in ToSet(ps) : IsProvided(x)
    BY <1>2 DEF IsMetadata, ToSet
  <1>4. HandedOver(compiled[m].binds, t)[n] = Bound(e)
    <2>1. HandedOver(compiled[m].binds, t) = [k \in DOMAIN Entries(ps, t) |-> Bound(Entries(ps, t)[k])]
      <3> HIDE DEF ps
      <3> QED
        BY <1>1, <1>3, HandsOverEach
    <2> QED
      BY <2>1
  <1>5. e \in ToSet(ps)
    <2>1. e \in ToSet(Entries(ps, t))
      BY DEF ToSet
    <2> HIDE DEF ps, e
    <2> QED
      BY <1>3, <2>1, EntriesAreSeq
  <1>6. ~Unusable(e)
    <2>1. ~Invalid(Expanded(m))
      BY DEF OnlyValid
    <2> HIDE DEF e
    <2> QED
      BY <1>5, <2>1 DEF Invalid
  <1>7. IsProvided(e) /\ IsOfClass(e) /\ e.class # Unstated
    BY <1>3, <1>5
  <1>8. Keeps(Bound(e).scope) <= Keeps(e.class)
    <2> HIDE DEF e
    <2> QED
      BY <1>6, <1>7, ScopeIsAllowed
  <1> QED
    BY <1>4, <1>8


-----------------------------------------------------------------------------
(* The router: its table only ever gives the answer that registration order  *)
(* gives, whatever is registered, in whatever order.                         *)
(*                                                                           *)
(* TableKeepsTheOrder is not inductive: what is entered later depends on     *)
(* what is kept out of the table by then.  RouterInv adds the three facts    *)
(* the table rests on.  A route that answers a tabled path from outside the  *)
(* table comes after all that is in it (TabledFirst); unless the path is     *)
(* shadowed there is no such route (TabledAll); and a path that is neither   *)
(* tabled nor shadowed was never registered by itself (NeverNamed).          *)

Listed ==
    /\ IsSequence(routes)
    /\ DOMAIN table \subseteq Literals

ByName ==
    \A p \in DOMAIN table : \A n \in table[p] :
        n \in DOMAIN routes /\ routes[n].template = p

TabledFirst ==
    \A p \in DOMAIN table : \A n \in DOMAIN routes :
        Matches(routes[n], p) /\ n \notin table[p] => \A k \in table[p] : k < n

TabledAll ==
    \A p \in DOMAIN table \ shadowed : \A n \in DOMAIN routes :
        Matches(routes[n], p) => n \in table[p]

NeverNamed ==
    \A p \in Literals \ (DOMAIN table \cup shadowed) : \A n \in DOMAIN routes :
        routes[n].template # p

RouterInv == Listed /\ ByName /\ TabledFirst /\ TabledAll /\ NeverNamed

-----------------------------------------------------------------------------

\* match: a literal template is the only literal path that it answers.
LEMMA LiteralsAnswerThemselves ==
    ASSUME NEW r, NEW p \in Literals, r.template \in Literals
    PROVE  Matches(r, p) <=> r.template = p
  BY RouterAssumption DEF Matches

\* What registering does to the list of routes.
LEMMA Appended ==
    ASSUME NEW r, IsSequence(routes), routes' = Append(routes, r)
    PROVE  /\ IsSequence(routes')
           /\ Len(routes) \in Nat
           /\ DOMAIN routes = 1..Len(routes)
           /\ DOMAIN routes' = DOMAIN routes \cup {Len(routes) + 1}
           /\ Len(routes) + 1 \notin DOMAIN routes
           /\ \A n \in DOMAIN routes : routes'[n] = routes[n] /\ n < Len(routes) + 1
           /\ routes'[Len(routes) + 1] = r
  <1> DEFINE S == ToSet(routes) \cup {r}
  <1>1. routes \in Seq(S) /\ r \in S
    BY OwnEntries
  <1> HIDE DEF S
  <1>2. routes' \in Seq(S)
    BY <1>1
  <1>3. IsSequence(routes')
    BY <1>2, OwnEntries
  <1> QED
    BY <1>1, <1>3

LEMMA RouterStarts == RouterInit => RouterInv
  <1> SUFFICES ASSUME RouterInit PROVE RouterInv
    OBVIOUS
  <1>1. routes = <<>> /\ DOMAIN table = {} /\ DOMAIN routes = {} /\ ToSet(<<>>) = {}
    BY DEF RouterInit, ToSet
  <1>2. IsSequence(routes)
    BY <1>1 DEF IsSequence
  <1> QED
    BY <1>1, <1>2 DEF RouterInv, Listed, ByName, TabledFirst, TabledAll, NeverNamed

LEMMA PatternKeeps ==
    ASSUME RouterInv, NEW r, routes' = Append(routes, r), EnterPattern(r)
    PROVE  RouterInv'
  <1> USE DEF RouterInv
  <1>1. Listed'
    BY Appended, RouterAssumption DEF Listed, EnterPattern
  <1>2. ByName'
    BY Appended DEF Listed, ByName, EnterPattern
  <1>3. TabledFirst'
    BY Appended DEF Listed, ByName, TabledFirst, EnterPattern, Matches
  <1>4. TabledAll'
    BY Appended DEF Listed, TabledAll, EnterPattern, Matches
  <1>5. NeverNamed'
    BY Appended DEF Listed, NeverNamed, EnterPattern
  <1> QED
    BY <1>1, <1>2, <1>3, <1>4, <1>5

LEMMA KeepOutKeeps ==
    ASSUME RouterInv, NEW r, routes' = Append(routes, r), KeepOut(r)
    PROVE  RouterInv'
  <1> USE DEF RouterInv
  <1>1. Listed'
    BY Appended, RouterAssumption DEF Listed, KeepOut
  <1>2. ByName'
    BY Appended DEF Listed, ByName, KeepOut
  <1>3. TabledFirst'
    BY Appended DEF Listed, ByName, TabledFirst, KeepOut, Matches
  <1>4. TabledAll'
    <2> SUFFICES ASSUME NEW q \in DOMAIN table' \ shadowed', NEW n \in DOMAIN routes',
                        Matches(routes'[n], q)
                 PROVE  n \in table'[q]
      BY DEF TabledAll, Matches
    <2>1. table' = table /\ q \in DOMAIN table \ shadowed /\ q \in Literals /\ q # r.template
      BY DEF KeepOut, Listed
    <2>2. ~Matches(r, q)
      BY <2>1, LiteralsAnswerThemselves DEF KeepOut
    <2>3. n \in DOMAIN routes /\ routes'[n] = routes[n]
      BY <2>2, Appended DEF Listed
    <2> QED
      BY <2>1, <2>3 DEF TabledAll
  <1>5. NeverNamed'
    BY Appended DEF Listed, NeverNamed, KeepOut
  <1> QED
    BY <1>1, <1>2, <1>3, <1>4, <1>5

\* Whatever answers a path that may be tabled is in the table already.
LEMMA NothingAnswersUntabled ==
    ASSUME RouterInv, NEW p \in Literals, ~Hidden(p)
    PROVE  \A n \in DOMAIN routes :
               Matches(routes[n], p) => p \in DOMAIN table /\ n \in table[p]
  <1> SUFFICES ASSUME NEW n \in DOMAIN routes, Matches(routes[n], p)
               PROVE  p \in DOMAIN table /\ n \in table[p]
    OBVIOUS
  <1>2. CASE p \in DOMAIN table
    BY <1>2 DEF RouterInv, TabledAll, Hidden
  <1>3. CASE p \notin DOMAIN table
    <2>1. routes[n].template \in Literals
      BY <1>3 DEF Hidden, Patterned
    <2>2. routes[n].template = p
      BY <2>1, LiteralsAnswerThemselves
    <2> QED
      BY <1>3, <2>2 DEF RouterInv, NeverNamed, Hidden
  <1> QED
    BY <1>2, <1>3

LEMMA TabulateKeeps ==
    ASSUME RouterInv, NEW r, routes' = Append(routes, r), Tabulate(r)
    PROVE  RouterInv'
  <1> DEFINE p == r.template
           last == Len(routes) + 1
           was(q) == IF q \in DOMAIN table THEN table[q] ELSE {}
  <1>1. p \in Literals /\ ~Hidden(p) /\ shadowed' = shadowed
    BY DEF Tabulate
  <1>2. DOMAIN table' = DOMAIN table \cup {p}
    BY DEF Tabulate
  <1>3. \A q \in DOMAIN table' : q # p => q \in DOMAIN table /\ table'[q] = table[q]
    BY DEF Tabulate
  <1>4. table'[p] = was(p) \cup {last}
    BY DEF Tabulate
  <1>5. \A n \in DOMAIN routes : Matches(routes[n], p) => n \in was(p)
    BY <1>1, NothingAnswersUntabled
  <1>6. was(p) \subseteq DOMAIN routes /\ \A n \in was(p) : routes[n].template = p
    BY DEF RouterInv, ByName
  <1>7. \A q \in Literals : Matches(r, q) <=> q = p
    BY <1>1, LiteralsAnswerThemselves
  <1>8. IsSequence(routes) /\ DOMAIN table \subseteq Literals
    BY DEF RouterInv, Listed
  <1> HIDE DEF p, last, was
  <1>9. Listed'
    BY <1>1, <1>2, <1>8, Appended DEF RouterInv, Listed
  <1>10. ByName'
    <2> SUFFICES ASSUME NEW q \in DOMAIN table', NEW n \in table'[q]
                 PROVE  n \in DOMAIN routes' /\ routes'[n].template = q
      BY DEF ByName
    <2>1. CASE q # p
      BY <2>1, <1>3, <1>8, Appended DEF RouterInv, ByName
    <2>2. CASE q = p /\ n \in was(p)
      BY <2>2, <1>6, <1>8, Appended
    <2>3. CASE q = p /\ n = last
      BY <2>3, <1>8, Appended DEF p, last
    <2> QED
      BY <2>1, <2>2, <2>3, <1>4
  <1>11. \A q \in DOMAIN table', n \in DOMAIN routes' :
            Matches(routes'[n], q) => \/ q = p /\ n \in table'[p]
                                      \/ q # p /\ n \in DOMAIN routes /\ Matches(routes[n], q)
    <2> SUFFICES ASSUME NEW q \in DOMAIN table', NEW n \in DOMAIN routes', Matches(routes'[n], q)
                 PROVE  \/ q = p /\ n \in table'[p]
                        \/ q # p /\ n \in DOMAIN routes /\ Matches(routes[n], q)
      OBVIOUS
    <2>1. q \in Literals
      BY <1>1, <1>2, <1>8
    <2>2. CASE n = last
      BY <2>1, <2>2, <1>4, <1>7, <1>8, Appended DEF last
    <2>3. CASE n \in DOMAIN routes
      BY <2>3, <1>4, <1>5, <1>8, Appended
    <2> QED
      BY <2>2, <2>3, <1>8, Appended DEF last
  <1>12. TabledFirst'
    <2> SUFFICES ASSUME NEW q \in DOMAIN table', NEW n \in DOMAIN routes',
                        Matches(routes'[n], q), n \notin table'[q], NEW k \in table'[q]
                 PROVE  k < n
      BY DEF TabledFirst, Matches
    <2>1. q # p /\ n \in DOMAIN routes /\ Matches(routes[n], q)
      BY <1>11
    <2> QED
      BY <2>1, <1>3 DEF RouterInv, TabledFirst
  <1>13. TabledAll'
    <2> SUFFICES ASSUME NEW q \in DOMAIN table' \ shadowed', NEW n \in DOMAIN routes',
                        Matches(routes'[n], q)
                 PROVE  n \in table'[q]
      BY DEF TabledAll, Matches
    <2>1. CASE q = p
      BY <2>1, <1>11
    <2>2. CASE q # p
      BY <2>2, <1>1, <1>3, <1>11 DEF RouterInv, TabledAll
    <2> QED
      BY <2>1, <2>2
  <1>14. NeverNamed'
    BY <1>1, <1>2, <1>8, Appended DEF RouterInv, NeverNamed, p
  <1> QED
    BY <1>9, <1>10, <1>12, <1>13, <1>14 DEF RouterInv

\* Every registration keeps what the table rests on.
LEMMA RegisterKeeps == ASSUME RouterInv, NEW r, Register(r) PROVE RouterInv'
  BY PatternKeeps, KeepOutKeeps, TabulateKeeps DEF Register

LEMMA RouterRests == RouterInv /\ UNCHANGED routerVars => RouterInv'
  BY DEF RouterInv, Listed, ByName, TabledFirst, TabledAll, NeverNamed, Matches, routerVars

-----------------------------------------------------------------------------

\* The first of two sets of positions is the same when one is the other's beginning.
LEMMA FirstOfABeginning ==
    ASSUME NEW S \in SUBSET Nat, NEW T \in SUBSET Nat, S \subseteq T, S # {},
           \A n \in T \ S : \A k \in S : k < n
    PROVE  First(S) = First(T)
  <1>1. \A n \in Nat : (n \in S /\ \A k \in S : n <= k) <=> (n \in T /\ \A k \in T : n <= k)
    <2> TAKE n \in Nat
    <2>1. ASSUME n \in S, \A k \in S : n <= k
          PROVE  n \in T /\ \A k \in T : n <= k
      <3>1. \A k \in T \ S : n < k /\ k \in Nat
        BY <2>1
      <3> QED
        BY <2>1, <3>1
    <2>2. ASSUME n \in T, \A k \in T : n <= k
          PROVE  n \in S /\ \A k \in S : n <= k
      <3>1. PICK k \in S : TRUE
        OBVIOUS
      <3>2. n <= k /\ k \in Nat
        BY <2>2, <3>1
      <3>3. n \notin T \ S
        BY <3>1, <3>2
      <3> QED
        BY <2>2, <3>3
    <2> QED
      BY <2>1, <2>2
  <1>2. {n \in S : \A k \in S : n <= k} = {n \in T : \A k \in T : n <= k}
    BY <1>1
  <1> QED
    BY <1>1, <1>2, Zenon DEF First

LEMMA TableIsInOrder == RouterInv => TableKeepsTheOrder
  <1> SUFFICES ASSUME RouterInv, NEW q \in Paths, NEW m \in Methods, Tabled(q, m) # {}
               PROVE  RouteFor(q, m) = First(Scanned(q, m))
    BY DEF TableKeepsTheOrder
  <1>1. q \in DOMAIN table /\ q \in Literals
    BY DEF Tabled, RouterInv, Listed
  <1>2. Scanned(q, m) \in SUBSET Nat
    BY DEF Scanned, Answering, RouterInv, Listed, IsSequence
  <1>3. \A n \in Tabled(q, m) : n \in DOMAIN routes /\ routes[n].template = q
    BY <1>1 DEF Tabled, RouterInv, ByName
  <1>4. Tabled(q, m) \subseteq Scanned(q, m)
    BY <1>1, <1>3, RouterAssumption DEF Tabled, Scanned, Answering, Matches
  <1>5. \A n \in Scanned(q, m) \ Tabled(q, m) : \A k \in Tabled(q, m) : k < n
    BY <1>1 DEF Tabled, Scanned, Answering, RouterInv, TabledFirst
  <1>6. First(Tabled(q, m)) = First(Scanned(q, m))
    BY <1>2, <1>4, <1>5, FirstOfABeginning
  <1> QED
    BY <1>6 DEF RouteFor

-----------------------------------------------------------------------------

\* AsgiRouter._enter: a path is answered from the table by the route that trying them all in
\* the order they were registered would find first, for every set of paths, templates and
\* methods and every sequence of registrations.
THEOREM RouterKeepsTheOrder == RouterSpec => []TableKeepsTheOrder
  <1>1. RouterInv /\ [\E r \in Routes : Register(r)]_routerVars => RouterInv'
    BY RegisterKeeps, RouterRests
  <1> QED
    BY <1>1, RouterStarts, TableIsInOrder, PTL DEF RouterSpec

-----------------------------------------------------------------------------
(* Who answers: the plan keeps the order of the declarations.                *)

\* The method of a contract answers what is asked for.
Takes(c, m) == m = c.method \/ (m = "HEAD" /\ c.method = "GET")

\* Which contract each entry was made for, where versions are no header: those made for a
\* contract come before those made for a later one, and each of its paths has one.
MadeFor(o) ==
    /\ o \in [DOMAIN plan -> 1..planned]
    /\ \A n, k \in DOMAIN plan : n <= k => o[n] <= o[k]
    /\ \A c \in ToSet(contracts) :
          /\ \A n \in DOMAIN plan : contracts[o[n]] = c =>
                \E t \in ToSet(PathsOf(c)) : plan[n] = Entry(c, t)
          /\ \A i \in 1..planned : contracts[i] = c =>
                \A t \in ToSet(PathsOf(c)) : \E n \in DOMAIN plan : o[n] = i /\ plan[n] = Entry(c, t)

PathsInOrder == app.versioning.type # "header" => \E o : MadeFor(o)

\* Where a header tells versions apart, an entry has the contracts that join it in order,
\* and entries are in the order of the first that joins each.
Joins(c, e) == c.method = e.method /\ c.template = e.template
JoinersOf(e) == {i \in 1..planned : Joins(contracts[i], e)}

VersionsInOrder ==
    app.versioning.type = "header" =>
        /\ \A n \in DOMAIN plan :
              /\ JoinersOf(plan[n]) # {}
              /\ plan[n].contracts = Picked(contracts, JoinersOf(plan[n]))
        /\ \A i \in 1..planned : \E n \in DOMAIN plan : i \in JoinersOf(plan[n])
        /\ \A n, k \in DOMAIN plan : n < k =>
              \E i \in JoinersOf(plan[n]) : \A j \in JoinersOf(plan[k]) : i < j

\* What is registered is what was planned, as far as it goes.
RoutesInOrder ==
    /\ stage \notin {"registering", "serving"} => routes = <<>>
    /\ stage = "registering" => Len(routes) < Len(plan)
    /\ stage = "serving" => Len(routes) = Len(plan)
    /\ DOMAIN routes \subseteq DOMAIN plan
    /\ \A n \in DOMAIN routes :
          routes[n] = [template |-> plan[n].template, methods |-> {plan[n].method}]

OrderInv == RouterInv /\ RoutesInOrder /\ PathsInOrder /\ VersionsInOrder

\* dict.fromkeys leaves nothing out.
LEMMA EachIsAll ==
    ASSUME NEW s, IsSequence(s)
    PROVE  ToSet(Each(s)) = ToSet(s)
  <1> DEFINE places == {i \in DOMAIN s : ~\E j \in 1..(i - 1) : s[j] = s[i]}
  <1>1. s \in Seq(ToSet(s)) /\ DOMAIN s = 1..Len(s) /\ Len(s) \in Nat
    BY DEF IsSequence
  <1>2. ToSet(Each(s)) = {s[i] : i \in places}
    <2>1. places \in SUBSET DOMAIN s /\ Each(s) = Picked(s, places)
      BY DEF Each
    <2> HIDE DEF places
    <2> QED
      BY <1>1, <2>1, PickedIsAll
  <1>3. ASSUME NEW k \in DOMAIN s
        PROVE  \E i \in places : s[i] = s[k]
    <2> DEFINE same == {i \in DOMAIN s : s[i] = s[k]}
    <2>1. same \in SUBSET Nat /\ k \in same
      BY <1>1
    <2>2. PICK i \in same : \A j \in same : i <= j
      <3> HIDE DEF same
      <3> QED
        BY <2>1, LeastNumber
    <2>3. \A j \in 1..(i - 1) : j \in DOMAIN s /\ ~(i <= j)
      BY <1>1, <2>2
    <2>4. i \in places
      BY <2>2, <2>3
    <2> QED
      BY <2>2, <2>4
  <1>4. places \subseteq DOMAIN s /\ ToSet(s) = {s[i] : i \in DOMAIN s}
    BY DEF ToSet
  <1> HIDE DEF places
  <1>5. {s[i] : i \in places} = {s[i] : i \in DOMAIN s}
    BY <1>3, <1>4
  <1> QED
    BY <1>2, <1>4, <1>5

\* _build_uri_paths: one path for each version, and the bare one where the default is among
\* them.
LEMMA PathsDeclared ==
    ASSUME NEW c, c.versions \in VersionsOf
    PROVE  ToSet(PathsOf(c)) =
               IF app.versioning.type # "uri" \/ IsNeutral(c) THEN {c.template}
               ELSE {Prefixed[v][c.template] : v \in ToSet(c.versions)}
                        \cup {t \in {c.template} : app.versioning.default \in ToSet(c.versions)}
  <1> DEFINE bare(v) == IF v = app.versioning.default THEN <<c.template>> ELSE <<>>
             spell(v) == <<Prefixed[v][c.template]>> \o bare(v)
             S == {Prefixed[v][c.template] : v \in Versions \cup {Neutral}} \cup {c.template}
             all == [n \in DOMAIN c.versions |-> spell(c.versions[n])]
             flat == FlattenSeq(all)
  <1>1. PathsOf(c) = IF app.versioning.type # "uri" \/ IsNeutral(c) THEN <<c.template>> ELSE Each(flat)
    BY DEF PathsOf
  <1>2. /\ DOMAIN c.versions = 1..Len(c.versions) /\ Len(c.versions) \in Nat
        /\ \A n \in DOMAIN c.versions : c.versions[n] \in Versions \cup {Neutral}
    BY DEF VersionsOf
  <1>3. ASSUME NEW v \in Versions \cup {Neutral}
        PROVE  /\ spell(v) \in Seq(S)
               /\ ToSet(spell(v)) = {Prefixed[v][c.template]} \cup {t \in {c.template} : v = app.versioning.default}
    <2> DEFINE prefixed == Prefixed[v][c.template]
    <2>1. prefixed \in S /\ c.template \in S
      OBVIOUS
    <2> HIDE DEF S, prefixed
    <2>2. <<prefixed>> \in Seq(S) /\ ToSet(<<prefixed>>) = {prefixed}
      BY <2>1 DEF ToSet
    <2>3. bare(v) \in Seq(S)
      BY <2>1
    <2>4. ToSet(bare(v)) = {t \in {c.template} : v = app.versioning.default}
      <3>1. ToSet(<<>>) = {} /\ ToSet(<<c.template>>) = {c.template}
        BY DEF ToSet
      <3> QED
        BY <3>1
    <2> HIDE DEF bare
    <2>5. <<prefixed>> \o bare(v) \in Seq(S) /\ ToSet(<<prefixed>> \o bare(v)) = {prefixed} \cup ToSet(bare(v))
      <3> DEFINE one == <<prefixed>>
      <3>1. one \in Seq(S) /\ bare(v) \in Seq(S) /\ ToSet(one) = {prefixed}
        BY <2>2, <2>3
      <3> HIDE DEF one
      <3>2. one \o bare(v) \in Seq(S) /\ ToSet(one \o bare(v)) = ToSet(one) \cup ToSet(bare(v))
        BY <3>1, ConcatIsSeq
      <3> QED
        BY <3>1, <3>2 DEF one
    <2> QED
      BY <2>4, <2>5 DEF prefixed
  <1>4. ToSet(<<c.template>>) = {c.template}
    BY DEF ToSet
  <1>5. /\ all \in Seq(Seq(S))
        /\ \A n \in DOMAIN c.versions : n \in DOMAIN all /\ all[n] = spell(c.versions[n])
        /\ DOMAIN all = DOMAIN c.versions
    <2>1. DOMAIN all = DOMAIN c.versions /\ \A n \in DOMAIN c.versions : all[n] = spell(c.versions[n])
      OBVIOUS
    <2> HIDE DEF spell, S
    <2>2. all \in [1..Len(c.versions) -> Seq(S)]
      BY <1>2, <1>3
    <2> HIDE DEF all
    <2> QED
      BY <1>2, <2>1, <2>2, SeqDef
  <1>6. flat \in Seq(S) /\ ToSet(flat) = UNION {ToSet(all[n]) : n \in DOMAIN all}
    <2> HIDE DEF all, S
    <2> QED
      BY <1>5, FlattenIsSeq
  <1>7. ToSet(Each(flat)) = ToSet(flat)
    <2> HIDE DEF flat, S
    <2>1. IsSequence(flat)
      BY <1>6, OwnEntries
    <2> QED
      BY <2>1, EachIsAll
  <1>8. ToSet(flat) = {Prefixed[v][c.template] : v \in ToSet(c.versions)}
                          \cup {t \in {c.template} : app.versioning.default \in ToSet(c.versions)}
    <2>1. \A n \in DOMAIN c.versions :
              ToSet(all[n]) = {Prefixed[c.versions[n]][c.template]}
                                  \cup {t \in {c.template} : c.versions[n] = app.versioning.default}
      <3> HIDE DEF spell, S, all
      <3> QED
        BY <1>2, <1>3, <1>5
    <2>2. ToSet(c.versions) = {c.versions[n] : n \in DOMAIN c.versions}
      BY DEF ToSet
    <2> HIDE DEF flat, all
    <2>3. ASSUME NEW x \in ToSet(flat)
          PROVE  \/ \E v \in ToSet(c.versions) : x = Prefixed[v][c.template]
                 \/ x = c.template /\ app.versioning.default \in ToSet(c.versions)
      <3>1. PICK n \in DOMAIN c.versions : x \in ToSet(all[n])
        BY <1>5, <1>6
      <3> QED
        BY <2>1, <2>2, <3>1
    <2>4. ASSUME NEW n \in DOMAIN c.versions
          PROVE  /\ Prefixed[c.versions[n]][c.template] \in ToSet(flat)
                 /\ c.versions[n] = app.versioning.default => c.template \in ToSet(flat)
      <3>1. ToSet(all[n]) \subseteq ToSet(flat)
        BY <1>5, <1>6
      <3> QED
        BY <2>1, <3>1
    <2> QED
      BY <2>2, <2>3, <2>4
  <1> HIDE DEF flat
  <1> QED
    BY <1>1, <1>4, <1>7, <1>8

\* A contract declares what one of its paths answers.
LEMMA DeclaresItsPaths ==
    ASSUME NEW c, c.versions \in VersionsOf, NEW q, NEW m
    PROVE  Declares(c, q, m) <=> Takes(c, m) /\ \E t \in ToSet(PathsOf(c)) : q \in Answers[t]
  <1>1. CASE app.versioning.type # "uri" \/ IsNeutral(c)
    <2>1. ToSet(PathsOf(c)) = {c.template}
      BY <1>1, PathsDeclared
    <2> QED
      BY <1>1, <2>1 DEF Declares, Takes
  <1>2. CASE ~(app.versioning.type # "uri" \/ IsNeutral(c))
    <2>1. ToSet(PathsOf(c)) =
               {Prefixed[v][c.template] : v \in ToSet(c.versions)}
                   \cup {t \in {c.template} : app.versioning.default \in ToSet(c.versions)}
      BY <1>2, PathsDeclared
    <2>2. (\E t \in ToSet(PathsOf(c)) : q \in Answers[t])
              <=> \/ \E v \in ToSet(c.versions) : q \in Answers[Prefixed[v][c.template]]
                  \/ app.versioning.default \in ToSet(c.versions) /\ q \in Answers[c.template]
      BY <2>1
    <2> QED
      BY <1>2, <2>2 DEF Declares, Takes
  <1> QED
    BY <1>1, <1>2

\* An entry joined by one more contract.
LEMMA PickedOfOne ==
    ASSUME NEW s, IsSequence(s), NEW i \in DOMAIN s
    PROVE  Picked(s, {i}) = <<s[i]>>
  <1>1. i \in Nat /\ {i} \in SUBSET (1..i) /\ 1 \in Nat
    BY DEF IsSequence
  <1> DEFINE e == [n \in 1..1 |-> i]
  <1>2. Lists(e, 1, {i})
    BY <1>1 DEF Lists
  <1> HIDE DEF e
  <1>3. Cardinality({i}) = 1 /\ \A n \in 1..1 : Place({i}, n) = e[n]
    BY <1>1, <1>2, Enumerated
  <1>4. Picked(s, {i}) = [n \in 1..1 |-> s[Place({i}, n)]]
    BY <1>3 DEF Picked, Place
  <1>5. Place({i}, 1) = i
    BY <1>3 DEF e
  <1> QED
    BY <1>4, <1>5

LEMMA PickedWithLast ==
    ASSUME NEW s, IsSequence(s), NEW l \in DOMAIN s, NEW A \in SUBSET (1..(l - 1))
    PROVE  Picked(s, A \cup {l}) = Append(Picked(s, A), s[l])
  <1> DEFINE a == Cardinality(A)
             e == [n \in 1..(a + 1) |-> IF n <= a THEN Place(A, n) ELSE l]
             B == A \cup {l}
  <1>1. s \in Seq(ToSet(s)) /\ DOMAIN s = 1..Len(s) /\ Len(s) \in Nat /\ l \in Nat /\ l - 1 \in Nat
    BY DEF IsSequence
  <1>2. /\ a \in Nat
        /\ \A n \in 1..a : Place(A, n) \in A
        /\ \A n, m \in 1..a : n < m => Place(A, n) < Place(A, m)
        /\ \A i \in A : \E n \in 1..a : Place(A, n) = i
    BY <1>1, PlacesInOrder
  <1>3. B \in SUBSET (1..l) /\ A \in SUBSET DOMAIN s
    <2>1. \A i \in A : i \in 1..l /\ i \in 1..Len(s)
      BY <1>1
    <2>2. l \in 1..l
      BY <1>1
    <2> QED
      BY <1>1, <2>1, <2>2
  <1>4. Picked(s, A) = [n \in 1..a |-> s[Place(A, n)]] /\ Picked(s, A) \in Seq(ToSet(s))
    BY <1>1, <1>3, PickedIsSeq DEF Picked, Place
  <1>5. \A i \in A : i \in Nat /\ i < l
    BY <1>1
  <1> HIDE DEF a
  <1>6. Lists(e, a + 1, B)
    <2>1. \A n \in 1..(a + 1) : (n \in 1..a /\ e[n] = Place(A, n)) \/ (n = a + 1 /\ ~(n <= a) /\ e[n] = l)
      BY <1>2
    <2>2. \A n \in 1..(a + 1) : e[n] \in B
      BY <1>2, <2>1
    <2>3. ASSUME NEW n \in 1..(a + 1), NEW m \in 1..(a + 1), n < m PROVE e[n] < e[m]
      <3>1. n \in 1..a /\ e[n] = Place(A, n)
        BY <1>2, <2>1, <2>3
      <3>2. CASE m \in 1..a
        <4>1. e[m] = Place(A, m)
          BY <1>2, <2>1, <3>2
        <4> HIDE DEF e
        <4> QED
          BY <1>2, <2>3, <3>1, <3>2, <4>1
      <3>3. CASE m = a + 1
        <4>1. e[m] = l /\ e[n] \in A
          BY <1>2, <2>1, <3>1, <3>3
        <4> HIDE DEF e
        <4> QED
          BY <1>5, <4>1
      <3> QED
        BY <1>2, <2>1, <3>2, <3>3
    <2>4. ASSUME NEW i \in B PROVE \E n \in 1..(a + 1) : e[n] = i
      <3>1. CASE i \in A
        <4>1. PICK n \in 1..a : Place(A, n) = i
          BY <1>2, <3>1
        <4>2. n \in 1..(a + 1) /\ n <= a
          BY <1>2
        <4> QED
          BY <4>1, <4>2
      <3>2. CASE i = l
        <4>1. a + 1 \in 1..(a + 1) /\ ~(a + 1 <= a)
          BY <1>2
        <4> QED
          BY <3>2, <4>1
      <3> QED
        BY <3>1, <3>2
    <2> HIDE DEF e
    <2> QED
      BY <2>2, <2>3, <2>4 DEF Lists
  <1>7. Cardinality(B) = a + 1 /\ \A n \in 1..(a + 1) : Place(B, n) = e[n]
    <2>1. a + 1 \in Nat
      BY <1>2
    <2> HIDE DEF B, e
    <2> QED
      BY <1>1, <1>3, <1>6, <2>1, Enumerated
  <1>8. Picked(s, B) = [n \in 1..(a + 1) |-> s[e[n]]]
    <2>1. Picked(s, B) = [n \in 1..Cardinality(B) |-> s[Place(B, n)]]
      BY DEF Picked, Place
    <2> HIDE DEF B, e
    <2> QED
      BY <1>7, <2>1
  <1>9. Len(Picked(s, A)) = a
    BY <1>2, <1>4
  <1>10. Append(Picked(s, A), s[l]) = [n \in 1..(a + 1) |-> IF n <= a THEN s[Place(A, n)] ELSE s[l]]
    <2> DEFINE u == Picked(s, A)
    <2>1. u \in Seq(ToSet(s)) /\ Len(u) = a /\ \A n \in 1..a : u[n] = s[Place(A, n)]
      BY <1>4, <1>9
    <2>2. s[l] \in ToSet(s)
      BY DEF ToSet
    <2> HIDE DEF u
    <2>3. Append(u, s[l]) = [n \in 1..(a + 1) |-> IF n <= a THEN u[n] ELSE s[l]]
      <3> DEFINE w == Append(u, s[l])
      <3>1. /\ w \in Seq(ToSet(s)) /\ DOMAIN w = 1..(a + 1) /\ w[a + 1] = s[l]
            /\ \A n \in 1..a : w[n] = u[n]
        BY <2>1, <2>2, AppendProperties, LenProperties
      <3>2. w = [n \in DOMAIN w |-> w[n]]
        <4> HIDE DEF w
        <4> QED
          BY <3>1
      <3>3. \A n \in 1..(a + 1) : (n <= a /\ n \in 1..a) \/ (~(n <= a) /\ n = a + 1)
        BY <1>2
      <3> HIDE DEF w
      <3> QED
        BY <3>1, <3>2, <3>3 DEF w
    <2>4. \A n \in 1..(a + 1) : n <= a => n \in 1..a
      BY <1>2
    <2> QED
      BY <2>1, <2>3, <2>4 DEF u
  <1> QED
    BY <1>8, <1>10

-----------------------------------------------------------------------------
(* Every step keeps the order.                                               *)

LEMMA OrderRests ==
    ASSUME PathsInOrder, VersionsInOrder, UNCHANGED <<app, contracts, planned, plan>>
    PROVE  PathsInOrder' /\ VersionsInOrder'
  <1>1. \A c : PathsOf(c)' = PathsOf(c)
    BY SamePaths
  <1>2. \A o : MadeFor(o)' = MadeFor(o)
    BY <1>1 DEF MadeFor
  <1>3. \A e : JoinersOf(e)' = JoinersOf(e)
    BY DEF JoinersOf
  <1> QED
    BY <1>2, <1>3 DEF PathsInOrder, VersionsInOrder

\* Before anything is planned.
LEMMA NothingInOrder ==
    ASSUME planned' = 0, plan' = <<>>
    PROVE  PathsInOrder' /\ VersionsInOrder'
  <1> DEFINE o == [n \in {} |-> 0]
  <1>1. DOMAIN plan' = {} /\ 1..planned' = {}
    OBVIOUS
  <1>2. o \in [DOMAIN plan' -> 1..planned']
    BY <1>1
  <1>3. MadeFor(o)'
    <2> HIDE DEF o
    <2> QED
      BY <1>1, <1>2 DEF MadeFor
  <1>4. \E f : MadeFor(f)'
    BY <1>3
  <1>5. VersionsInOrder'
    BY <1>1 DEF VersionsInOrder
  <1> QED
    BY <1>4, <1>5 DEF PathsInOrder

\* _RoutePlanBuilder.add, where the version is no header: the entries of a contract go behind
\* those of the contracts before it.
LEMMA PathsGoBehind ==
    ASSUME PlanInv, PathsInOrder, PlanByPath
    PROVE  PathsInOrder' /\ VersionsInOrder'
  <1> DEFINE c == contracts[planned + 1]
             paths == PathsOf(c)
             made == [n \in DOMAIN paths |-> Entry(c, paths[n])]
             L == Len(plan)
             M == Len(paths)
  <1>1. /\ planned < Len(contracts) /\ app.versioning.type # "header" /\ app' = app /\ contracts' = contracts
    BY DEF PlanByPath, RefusePlan, assemblyVars, planVars
  <1>2. VersionsInOrder'
    BY <1>1 DEF VersionsInOrder
  <1>3. CASE Claimed(c)
    <2>1. planned' = planned /\ plan' = plan
      BY <1>3 DEF PlanByPath, RefusePlan, planVars
    <2>2. VersionsInOrder
      BY <1>1 DEF VersionsInOrder
    <2> QED
      BY <1>1, <2>1, <2>2, OrderRests
  <1>4. CASE ~Claimed(c)
    <2>1. plan' = plan \o made /\ planned' = planned + 1
      BY <1>4 DEF PlanByPath
    <2>2. /\ IsSequence(plan) /\ IsSequence(contracts) /\ planned \in 0..Len(contracts)
          /\ \A d \in ToSet(contracts) : d.versions \in VersionsOf
      BY DEF PlanInv, PlanTypes
    <2>3. /\ Len(contracts) \in Nat /\ DOMAIN contracts = 1..Len(contracts)
          /\ L \in Nat /\ DOMAIN plan = 1..L /\ planned \in Nat
      BY <2>2 DEF IsSequence
    <2>4. c \in ToSet(contracts)
      <3>1. planned + 1 \in DOMAIN contracts
        BY <1>1, <2>3
      <3> QED
        BY <3>1 DEF ToSet
    <2>5. IsSequence(paths)
      BY <2>2, <2>4, PathsAreSeq
    <2>6. M \in Nat /\ DOMAIN paths = 1..M
      BY <2>5 DEF IsSequence
    <2>7. IsSequence(made) /\ Len(made) = M /\ DOMAIN made = 1..M
      <3> HIDE DEF paths, c
      <3>1. made = [n \in 1..M |-> made[n]]
        BY <2>6
      <3> HIDE DEF made, M
      <3>2. IsSequence(made) /\ Len(made) = M
        BY <2>6, <3>1, IntervalIsSeq
      <3> QED
        BY <3>1, <3>2
    <2>8. \A n \in 1..M : made[n] = Entry(c, paths[n])
      BY <2>6
    <2>9. /\ DOMAIN plan' = 1..(L + M)
          /\ \A n \in 1..L : plan'[n] = plan[n]
          /\ \A n \in 1..M : plan'[L + n] = made[n]
      <3> DEFINE S == ToSet(plan) \cup ToSet(made)
      <3>1. plan \in Seq(S) /\ made \in Seq(S)
        <4> HIDE DEF made
        <4> QED
          BY <2>2, <2>7, OwnEntries
      <3> HIDE DEF made, S, paths
      <3>2. plan \o made \in Seq(S) /\ Len(plan \o made) = L + M
        BY <2>7, <3>1
      <3>3. \A n \in 1..L : (plan \o made)[n] = plan[n]
        BY <2>3, <2>6, <2>7, <3>1, ConcatProperties
      <3>4. \A n \in 1..M : (plan \o made)[L + n] = made[n]
        <4> SUFFICES ASSUME NEW n \in 1..M PROVE (plan \o made)[L + n] = made[n]
          OBVIOUS
        <4>1. L + n \in 1..(L + M) /\ L + n > L /\ (L + n) - L = n
          BY <2>3, <2>6
        <4> QED
          BY <2>7, <3>1, <4>1, ConcatProperties
      <3>5. DOMAIN (plan \o made) = 1..(L + M)
        BY <3>2
      <3> QED
        BY <2>1, <3>3, <3>4, <3>5
    <2>10. PICK o : MadeFor(o)
      BY <1>1 DEF PathsInOrder
    <2>11. /\ o \in [1..L -> 1..planned]
           /\ \A n, k \in 1..L : n <= k => o[n] <= o[k]
           /\ \A n \in 1..L : \E t \in ToSet(PathsOf(contracts[o[n]])) : plan[n] = Entry(contracts[o[n]], t)
           /\ \A i \in 1..planned : \A t \in ToSet(PathsOf(contracts[i])) :
                 \E n \in 1..L : o[n] = i /\ plan[n] = Entry(contracts[i], t)
      <3>1. \A i \in 1..planned : contracts[i] \in ToSet(contracts)
        BY <2>2, <2>3 DEF ToSet
      <3> QED
        BY <2>3, <2>10, <3>1 DEF MadeFor
    <2>20. PICK f : f = [n \in 1..(L + M) |-> IF n <= L THEN o[n] ELSE planned + 1]
      OBVIOUS
    <2>12. /\ \A n \in 1..L : n \in 1..(L + M) /\ f[n] = o[n] /\ f[n] \in 1..planned
           /\ \A n \in 1..M : L + n \in 1..(L + M) /\ f[L + n] = planned + 1
           /\ \A n \in 1..(L + M) : n \in 1..L \/ (n - L \in 1..M /\ n = L + (n - L))
      <3>1. \A n \in 1..L : n \in 1..(L + M) /\ n <= L
        BY <2>3, <2>6
      <3>2. \A n \in 1..M : L + n \in 1..(L + M) /\ ~(L + n <= L)
        BY <2>3, <2>6
      <3>3. \A n \in 1..(L + M) : n \in 1..L \/ (n - L \in 1..M /\ n = L + (n - L))
        BY <2>3, <2>6
      <3>4. \A n \in 1..L : f[n] = o[n]
        BY <2>20, <3>1
      <3>5. \A n \in 1..M : f[L + n] = planned + 1
        BY <2>20, <3>2
      <3> QED
        BY <2>11, <3>1, <3>2, <3>3, <3>4, <3>5
    <2>13. f \in [1..(L + M) -> 1..(planned + 1)]
      <3>1. ASSUME NEW n \in 1..(L + M) PROVE f[n] \in 1..(planned + 1)
        <4>1. CASE n <= L
          <5>1. f[n] \in 1..planned
            <6>1. n \in 1..L
              BY <2>3, <4>1
            <6> QED
              BY <2>12, <6>1
          <5> QED
            BY <2>3, <5>1
        <4>2. CASE ~(n <= L)
          BY <2>3, <2>20, <4>2
        <4> QED
          BY <4>1, <4>2
      <3> QED
        BY <2>20, <3>1
    <2>14. \A n, k \in 1..(L + M) : n <= k => f[n] <= f[k]
      <3> SUFFICES ASSUME NEW n \in 1..(L + M), NEW k \in 1..(L + M), n <= k PROVE f[n] <= f[k]
        OBVIOUS
      <3>1. CASE k \in 1..L
        <4>1. n \in 1..L
          BY <2>3, <2>6, <3>1
        <4> QED
          BY <2>11, <2>12, <3>1, <4>1
      <3>2. CASE ~(k \in 1..L)
        <4>1. f[k] = planned + 1
          BY <2>12, <3>2
        <4>2. f[n] \in 1..(planned + 1)
          BY <2>13
        <4> QED
          BY <2>3, <4>1, <4>2
      <3> QED
        BY <3>1, <3>2
    <2>15. \A n \in 1..(L + M) : \E t \in ToSet(PathsOf(contracts[f[n]])) : plan'[n] = Entry(contracts[f[n]], t)
      <3> SUFFICES ASSUME NEW n \in 1..(L + M)
                   PROVE  \E t \in ToSet(PathsOf(contracts[f[n]])) : plan'[n] = Entry(contracts[f[n]], t)
        OBVIOUS
      <3>1. CASE n \in 1..L
        <4>1. plan'[n] = plan[n] /\ f[n] = o[n]
          BY <2>9, <2>12, <3>1
        <4> QED
          BY <2>11, <3>1, <4>1
      <3>2. CASE ~(n \in 1..L)
        <4> DEFINE k == n - L
        <4>1. k \in 1..M /\ n = L + k
          BY <2>12, <3>2
        <4>2. contracts[f[n]] = c /\ plan'[n] = Entry(c, paths[k])
          <5>1. f[n] = planned + 1
            BY <2>12, <4>1
          <5>2. plan'[n] = made[k] /\ made[k] = Entry(c, paths[k])
            <6> HIDE DEF made, k
            <6> QED
              BY <2>8, <2>9, <4>1
          <5> QED
            BY <5>1, <5>2
        <4>3. paths[k] \in ToSet(paths)
          <5> HIDE DEF k
          <5> QED
            BY <2>6, <4>1 DEF ToSet
        <4> QED
          BY <4>2, <4>3
      <3> QED
        BY <3>1, <3>2
    <2>16. \A i \in 1..(planned + 1) : \A t \in ToSet(PathsOf(contracts[i])) :
              \E n \in 1..(L + M) : f[n] = i /\ plan'[n] = Entry(contracts[i], t)
      <3> SUFFICES ASSUME NEW i \in 1..(planned + 1), NEW t \in ToSet(PathsOf(contracts[i]))
                   PROVE  \E n \in 1..(L + M) : f[n] = i /\ plan'[n] = Entry(contracts[i], t)
        OBVIOUS
      <3>1. CASE i \in 1..planned
        <4>1. PICK n \in 1..L : o[n] = i /\ plan[n] = Entry(contracts[i], t)
          BY <2>11, <3>1
        <4> QED
          BY <2>9, <2>12, <4>1
      <3>2. CASE i = planned + 1
        <4>1. PICK k \in DOMAIN paths : paths[k] = t
          BY <3>2 DEF ToSet
        <4>2. k \in 1..M
          BY <2>6, <4>1
        <4>3. L + k \in 1..(L + M) /\ f[L + k] = i
          BY <2>12, <3>2, <4>2
        <4>4. plan'[L + k] = made[k] /\ made[k] = Entry(c, t)
          <5>1. plan'[L + k] = made[k]
            <6> HIDE DEF made
            <6> QED
              BY <2>9, <4>2
          <5>2. made[k] = Entry(c, paths[k])
            BY <2>8, <4>2
          <5> QED
            BY <4>1, <5>1, <5>2
        <4> QED
          BY <3>2, <4>3, <4>4
      <3> QED
        BY <2>3, <3>1, <3>2
    <2>17. \A d : PathsOf(d)' = PathsOf(d)
      BY <1>1, SamePaths
    <2>18. MadeFor(f)'
      <3>1. DOMAIN plan' = 1..(L + M) /\ planned' = planned + 1
        BY <2>1, <2>9
      <3>2. f \in [DOMAIN plan' -> 1..planned']
        BY <2>13, <3>1
      <3>3. \A n, k \in DOMAIN plan' : n <= k => f[n] <= f[k]
        BY <2>14, <3>1
      <3>4. ASSUME NEW d \in ToSet(contracts'), NEW n \in DOMAIN plan', contracts'[f[n]] = d
            PROVE  \E t \in ToSet(PathsOf(d)) : plan'[n] = Entry(d, t)
        BY <1>1, <2>15, <3>1, <3>4
      <3>5. ASSUME NEW d \in ToSet(contracts'), NEW i \in 1..planned', contracts'[i] = d,
                   NEW t \in ToSet(PathsOf(d))
            PROVE  \E n \in DOMAIN plan' : f[n] = i /\ plan'[n] = Entry(d, t)
        <4>1. contracts[i] = d /\ i \in 1..(planned + 1)
          BY <1>1, <3>1, <3>5
        <4>2. \E n \in 1..(L + M) : f[n] = i /\ plan'[n] = Entry(contracts[i], t)
          BY <2>16, <4>1
        <4> QED
          BY <3>1, <4>1, <4>2
      <3>6. \A d \in ToSet(contracts') :
                /\ \A n \in DOMAIN plan' : contracts'[f[n]] = d =>
                      \E t \in ToSet(PathsOf(d)') : plan'[n] = Entry(d, t)
                /\ \A i \in 1..planned' : contracts'[i] = d =>
                      \A t \in ToSet(PathsOf(d)') : \E n \in DOMAIN plan' : f[n] = i /\ plan'[n] = Entry(d, t)
        BY <2>17, <3>4, <3>5
      <3> QED
        BY <3>2, <3>3, <3>6 DEF MadeFor
    <2>19. \E e : MadeFor(e)'
      BY <2>18
    <2> QED
      BY <1>2, <2>19 DEF PathsInOrder
  <1> QED
    BY <1>3, <1>4

\* _RoutePlanBuilder.add, where a header tells versions apart: a contract joins an entry behind
\* those that joined before it, or makes an entry behind those there are.
LEMMA VersionsGoBehind ==
    ASSUME PlanInv, VersionsInOrder, PlanByHeader
    PROVE  PathsInOrder' /\ VersionsInOrder'
  <1> DEFINE c == contracts[planned + 1]
             N == planned + 1
             L == Len(plan)
             Clashes == \E n \in Group(c) : \E d \in ToSet(plan[n].contracts) : Overlaps(c, d)
  <1>1. /\ planned < Len(contracts) /\ app.versioning.type = "header" /\ app' = app /\ contracts' = contracts
    BY DEF PlanByHeader, RefusePlan, assemblyVars, planVars
  <1>2. PathsInOrder' /\ PathsInOrder
    BY <1>1 DEF PathsInOrder
  <1>3. CASE Clashes
    <2>1. planned' = planned /\ plan' = plan
      BY <1>3 DEF PlanByHeader, RefusePlan, planVars
    <2> QED
      BY <1>1, <1>2, <2>1, OrderRests
  <1>4. CASE ~Clashes
    <2>1. /\ plan' = IF Group(c) = {} THEN Append(plan, Entry(c, c.template))
                     ELSE [n \in DOMAIN plan |->
                             IF n \in Group(c)
                             THEN [plan[n] EXCEPT !.contracts = Append(@, c)] ELSE plan[n]]
          /\ planned' = N
      BY <1>4 DEF PlanByHeader
    <2>2. /\ IsSequence(plan) /\ IsSequence(contracts) /\ planned \in 0..Len(contracts)
          /\ \A n \in DOMAIN plan : HasContracts(plan[n])
      BY DEF PlanInv, PlanTypes
    <2>3. /\ Len(contracts) \in Nat /\ DOMAIN contracts = 1..Len(contracts)
          /\ L \in Nat /\ DOMAIN plan = 1..L /\ planned \in Nat
      BY <2>2 DEF IsSequence
    <2>4. N \in DOMAIN contracts /\ N \in Nat /\ N - 1 = planned
      BY <1>1, <2>3
    <2>5. /\ \A n \in 1..L : /\ JoinersOf(plan[n]) # {}
                             /\ plan[n].contracts = Picked(contracts, JoinersOf(plan[n]))
          /\ \A i \in 1..planned : \E n \in 1..L : i \in JoinersOf(plan[n])
          /\ \A n, k \in 1..L : n < k => \E i \in JoinersOf(plan[n]) : \A j \in JoinersOf(plan[k]) : i < j
      BY <1>1, <2>3 DEF VersionsInOrder
    <2>6. \A e : JoinersOf(e) \subseteq 1..planned
      BY DEF JoinersOf
    <2>7. \A i \in 1..planned : i \in Nat /\ i < N
      BY <2>3
    <2> DEFINE after(e) == {i \in 1..N : Joins(contracts[i], e)}
    <2>8. \A e : after(e) = JoinersOf(e) \cup {i \in {N} : Joins(c, e)}
      <3>1. \A i \in 1..N : i \in 1..planned \/ i = N
        BY <2>3
      <3>2. N \in 1..N /\ \A i \in 1..planned : i \in 1..N
        BY <2>3
      <3> QED
        BY <3>1, <3>2 DEF JoinersOf
    <2>9. \A n \in DOMAIN plan : n \in Group(c) <=> Joins(c, plan[n])
      BY DEF Group, Joins
    <2>10. \A d, e : d.method = e.method /\ d.template = e.template => after(d) = after(e)
      BY DEF Joins
    <2> HIDE DEF after, N
    <2>11. /\ \A n \in DOMAIN plan' :
                 /\ after(plan'[n]) # {}
                 /\ plan'[n].contracts = Picked(contracts, after(plan'[n]))
           /\ \A i \in 1..N : \E n \in DOMAIN plan' : i \in after(plan'[n])
           /\ \A n, k \in DOMAIN plan' : n < k =>
                 \E i \in after(plan'[n]) : \A j \in after(plan'[k]) : i < j
      <3>1. CASE Group(c) = {}
        <4> DEFINE E == Entry(c, c.template)
        <4>1. plan' = Append(plan, E)
          BY <2>1, <3>1
        <4>2. E.contracts = <<c>> /\ E.method = c.method /\ E.template = c.template
          BY DEF Entry
        <4> HIDE DEF E
        <4>3. /\ DOMAIN plan' = 1..(L + 1) /\ plan'[L + 1] = E
              /\ \A n \in 1..L : plan'[n] = plan[n]
          <5> DEFINE S == ToSet(plan) \cup {E}
          <5>1. plan \in Seq(S) /\ E \in S
            BY <2>2, OwnEntries DEF IsSequence
          <5> HIDE DEF S
          <5> QED
            BY <4>1, <5>1
        <4>4. \A n \in 1..(L + 1) : n \in 1..L \/ n = L + 1
          BY <2>3
        <4>5. \A n \in 1..L : after(plan'[n]) = JoinersOf(plan[n])
          BY <2>3, <2>8, <2>9, <3>1, <4>3
        <4>6. after(E) = {N}
          <5>1. ASSUME NEW i \in JoinersOf(E) PROVE FALSE
            <6>1. i \in 1..planned
              BY <2>6
            <6>2. PICK n \in 1..L : i \in JoinersOf(plan[n])
              BY <2>5, <6>1
            <6>3. Joins(c, plan[n])
              BY <4>2, <6>2 DEF JoinersOf, Joins
            <6> QED
              BY <2>3, <2>9, <3>1, <6>3
          <5>2. Joins(c, E)
            BY <4>2 DEF Joins
          <5> QED
            BY <2>8, <5>1, <5>2
        <4>7. E.contracts = Picked(contracts, {N})
          BY <2>2, <2>4, <4>2, PickedOfOne DEF N
        <4>8. \A n \in 1..(L + 1) : after(plan'[n]) # {} /\ plan'[n].contracts = Picked(contracts, after(plan'[n]))
          BY <2>5, <4>3, <4>4, <4>5, <4>6, <4>7
        <4>9. \A i \in 1..N : \E n \in 1..(L + 1) : i \in after(plan'[n])
          <5> SUFFICES ASSUME NEW i \in 1..N PROVE \E n \in 1..(L + 1) : i \in after(plan'[n])
            OBVIOUS
          <5>1. L + 1 \in 1..(L + 1) /\ \A n \in 1..L : n \in 1..(L + 1)
            BY <2>3
          <5>2. CASE i = N
            BY <4>3, <4>6, <5>1, <5>2
          <5>3. CASE i # N
            <6>1. i \in 1..planned
              BY <2>3, <5>3 DEF N
            <6> QED
              BY <2>5, <4>5, <5>1, <6>1
          <5> QED
            BY <5>2, <5>3
        <4>10. ASSUME NEW n \in 1..(L + 1), NEW k \in 1..(L + 1), n < k
               PROVE  \E i \in after(plan'[n]) : \A j \in after(plan'[k]) : i < j
          <5>1. n \in 1..L
            BY <2>3, <4>10
          <5>2. CASE k \in 1..L
            <6>1. PICK i \in JoinersOf(plan[n]) : \A j \in JoinersOf(plan[k]) : i < j
              BY <2>5, <4>10, <5>1, <5>2
            <6>2. after(plan'[n]) = JoinersOf(plan[n]) /\ after(plan'[k]) = JoinersOf(plan[k])
              BY <4>5, <5>1, <5>2
            <6> QED
              BY <6>1, <6>2
          <5>3. CASE k = L + 1
            <6>1. PICK i \in JoinersOf(plan[n]) : TRUE
              BY <2>5, <5>1
            <6>2. i < N
              BY <2>6, <2>7, <6>1
            <6> QED
              BY <4>3, <4>5, <4>6, <5>1, <5>3, <6>1, <6>2
          <5> QED
            BY <4>4, <5>2, <5>3
        <4> QED
          BY <4>3, <4>8, <4>9, <4>10
      <3>2. CASE Group(c) # {}
        <4>1. /\ DOMAIN plan' = 1..L
              /\ \A n \in Group(c) : plan'[n] = [plan[n] EXCEPT !.contracts = Append(plan[n].contracts, c)]
              /\ \A n \in 1..L : n \notin Group(c) => plan'[n] = plan[n]
              /\ Group(c) \subseteq 1..L
          BY <2>1, <2>3, <3>2 DEF Group
        <4>2. ASSUME NEW n \in 1..L
              PROVE  /\ plan'[n].method = plan[n].method /\ plan'[n].template = plan[n].template
                     /\ n \in Group(c) => plan'[n].contracts = Append(plan[n].contracts, c)
          <5>1. HasContracts(plan[n])
            BY <2>2, <2>3
          <5> QED
            BY <4>1, <5>1 DEF HasContracts
        <4>3. \A n \in 1..L : after(plan'[n]) = JoinersOf(plan[n]) \cup {i \in {N} : n \in Group(c)}
          <5> SUFFICES ASSUME NEW n \in 1..L
                       PROVE  after(plan'[n]) = JoinersOf(plan[n]) \cup {i \in {N} : n \in Group(c)}
            OBVIOUS
          <5>1. after(plan'[n]) = after(plan[n])
            BY <2>10, <4>2
          <5> QED
            BY <2>3, <2>8, <2>9, <5>1
        <4>4. ASSUME NEW n \in 1..L
              PROVE  after(plan'[n]) # {} /\ plan'[n].contracts = Picked(contracts, after(plan'[n]))
          <5>1. CASE n \in Group(c)
            <6>1. after(plan'[n]) = JoinersOf(plan[n]) \cup {N}
              BY <4>3, <5>1
            <6>2. JoinersOf(plan[n]) \in SUBSET (1..(N - 1))
              BY <2>4, <2>6
            <6>3. Picked(contracts, JoinersOf(plan[n]) \cup {N}) = Append(Picked(contracts, JoinersOf(plan[n])), contracts[N])
              BY <2>2, <2>4, <6>2, PickedWithLast
            <6>4. plan'[n].contracts = Append(Picked(contracts, JoinersOf(plan[n])), contracts[N])
              BY <2>5, <4>2, <5>1 DEF N
            <6> QED
              BY <6>1, <6>3, <6>4
          <5>2. CASE n \notin Group(c)
            <6>1. after(plan'[n]) = JoinersOf(plan[n]) /\ plan'[n] = plan[n]
              BY <4>1, <4>3, <5>2
            <6> QED
              BY <2>5, <6>1
          <5> QED
            BY <5>1, <5>2
        <4>5. \A i \in 1..N : \E n \in 1..L : i \in after(plan'[n])
          <5> SUFFICES ASSUME NEW i \in 1..N PROVE \E n \in 1..L : i \in after(plan'[n])
            OBVIOUS
          <5>1. CASE i = N
            BY <3>2, <4>1, <4>3, <5>1
          <5>2. CASE i # N
            <6>1. i \in 1..planned
              BY <2>3, <5>2 DEF N
            <6> QED
              BY <2>5, <4>3, <6>1
          <5> QED
            BY <5>1, <5>2
        <4>6. ASSUME NEW n \in 1..L, NEW k \in 1..L, n < k
              PROVE  \E i \in after(plan'[n]) : \A j \in after(plan'[k]) : i < j
          <5>1. PICK i \in JoinersOf(plan[n]) : \A j \in JoinersOf(plan[k]) : i < j
            BY <2>5, <4>6
          <5>2. i \in after(plan'[n]) /\ i < N
            BY <2>6, <2>7, <4>3, <5>1
          <5> QED
            BY <4>3, <5>1, <5>2
        <4> QED
          BY <4>1, <4>4, <4>5, <4>6
      <3> QED
        BY <3>1, <3>2
    <2>12. \A n : JoinersOf(plan[n])' = after(plan'[n])
      BY <1>1, <2>1 DEF JoinersOf, after, N
    <2>13. /\ \A n \in DOMAIN plan' :
                 /\ JoinersOf(plan[n])' # {}
                 /\ plan'[n].contracts = Picked(contracts', JoinersOf(plan[n])')
           /\ \A i \in 1..planned' : \E n \in DOMAIN plan' : i \in JoinersOf(plan[n])'
           /\ \A n, k \in DOMAIN plan' : n < k =>
                 \E i \in JoinersOf(plan[n])' : \A j \in JoinersOf(plan[k])' : i < j
      <3>1. planned' = N /\ contracts' = contracts
        BY <1>1, <2>1
      <3> QED
        BY <2>11, <2>12, <3>1
    <2> QED
      BY <1>2, <2>13 DEF VersionsInOrder
  <1> QED
    BY <1>3, <1>4

\* A registration that goes with a step of the application keeps the order of the routes.
LEMMA RoutesGoBehind ==
    ASSUME IsSequence(routes), PlanInv, RoutesInOrder, RegisterNext
    PROVE  RoutesInOrder'
  <1> DEFINE r == [template |-> plan[Len(routes) + 1].template,
                   methods |-> {plan[Len(routes) + 1].method}]
             N == Len(routes) + 1
  <1>1. /\ stage = "registering" /\ plan' = plan
        /\ stage' = IF N = Len(plan) THEN "serving" ELSE stage
        /\ Register(r)
    BY DEF RegisterNext, GoesOn, planVars
  <1>2. routes' = Append(routes, r)
    BY <1>1 DEF Register
  <1>3. /\ IsSequence(routes') /\ Len(routes) \in Nat
        /\ DOMAIN routes = 1..Len(routes)
        /\ DOMAIN routes' = DOMAIN routes \cup {N}
        /\ N \notin DOMAIN routes
        /\ \A n \in DOMAIN routes : routes'[n] = routes[n]
        /\ routes'[N] = r
    <2> HIDE DEF r
    <2> QED
      BY <1>2, Appended
  <1>4. Len(routes') = N
    <2>1. routes \in Seq(ToSet(routes) \cup {r})
      <3> HIDE DEF r
      <3> QED
        BY OwnEntries
    <2> HIDE DEF r
    <2> QED
      BY <1>2, <2>1
  <1>5. Len(plan) \in Nat /\ DOMAIN plan = 1..Len(plan)
    BY DEF PlanInv, PlanTypes, IsSequence
  <1>6. Len(routes) < Len(plan) /\ N \in DOMAIN plan
    <2>1. Len(routes) < Len(plan)
      BY <1>1 DEF RoutesInOrder
    <2>2. Len(routes) \in Nat /\ Len(plan) \in Nat /\ DOMAIN plan = 1..Len(plan)
      BY <1>3, <1>5
    <2> QED
      BY <2>1, <2>2
  <1>7. /\ DOMAIN routes \subseteq DOMAIN plan
        /\ \A n \in DOMAIN routes :
              routes[n] = [template |-> plan[n].template, methods |-> {plan[n].method}]
    BY DEF RoutesInOrder
  <1>8. DOMAIN routes' \subseteq DOMAIN plan'
    BY <1>1, <1>3, <1>6, <1>7
  <1>9. \A n \in DOMAIN routes' :
            routes'[n] = [template |-> plan'[n].template, methods |-> {plan'[n].method}]
    BY <1>1, <1>3, <1>7
  <1>10. /\ stage' \in {"registering", "serving"}
         /\ stage' = "registering" => Len(routes') < Len(plan')
         /\ stage' = "serving" => Len(routes') = Len(plan')
    <2>1. Len(routes) \in Nat /\ Len(plan) \in Nat /\ Len(routes) < Len(plan)
      BY <1>3, <1>5, <1>6
    <2>2. Len(routes') = Len(routes) + 1 /\ Len(plan') = Len(plan)
      BY <1>1, <1>4
    <2>3. stage = "registering" /\ stage' = IF Len(routes) + 1 = Len(plan) THEN "serving" ELSE stage
      BY <1>1
    <2> QED
      BY <2>1, <2>2, <2>3
  <1> QED
    BY <1>8, <1>9, <1>10 DEF RoutesInOrder

\* Steps before the registration.
LEMMA RoutesWait ==
    ASSUME RoutesInOrder, UNCHANGED routes,
           \/ stage \notin {"registering", "serving"} /\ stage' \notin {"registering", "serving"}
           \/ stage' = stage /\ plan' = plan
    PROVE  RoutesInOrder'
  <1>1. CASE stage \notin {"registering", "serving"} /\ stage' \notin {"registering", "serving"}
    <2>1. routes' = <<>> /\ DOMAIN routes' = {}
      BY <1>1 DEF RoutesInOrder
    <2> QED
      BY <1>1, <2>1 DEF RoutesInOrder
  <1>2. CASE stage' = stage /\ plan' = plan
    BY <1>2 DEF RoutesInOrder
  <1> QED
    BY <1>1, <1>2

LEMMA OrderStarts == Init => OrderInv
  <1> SUFFICES ASSUME Init PROVE OrderInv
    OBVIOUS
  <1>1. RouterInv
    BY RouterStarts DEF Init
  <1>2. planned = 0 /\ plan = <<>> /\ routes = <<>> /\ stage = "discovering"
    BY DEF Init, AssemblyInit, RouterInit
  <1>3. RoutesInOrder
    <2>1. DOMAIN routes = {}
      BY <1>2
    <2> QED
      BY <1>2, <2>1 DEF RoutesInOrder
  <1>4. DOMAIN plan = {} /\ 1..planned = {}
    BY <1>2
  <1>5. PathsInOrder
    <2> DEFINE o == [n \in {} |-> 0]
    <2>1. o \in [DOMAIN plan -> 1..planned]
      BY <1>4
    <2>2. MadeFor(o)
      <3> HIDE DEF o
      <3> QED
        BY <1>4, <2>1 DEF MadeFor
    <2>3. \E f : MadeFor(f)
      BY <2>2
    <2> QED
      BY <2>3 DEF PathsInOrder
  <1>6. VersionsInOrder
    BY <1>4 DEF VersionsInOrder
  <1> QED
    BY <1>1, <1>3, <1>5, <1>6 DEF OrderInv

LEMMA OrderGoesOn ==
    ASSUME PlanInv, OrderInv, [Next]_bootstrapVars
    PROVE  OrderInv'
  <1>1. RouterInv /\ RoutesInOrder /\ PathsInOrder /\ VersionsInOrder /\ IsSequence(routes)
    BY DEF OrderInv, RouterInv, Listed
  <1>2. CASE AssemblyNext /\ UNCHANGED <<routerVars, planVars>>
    <2>1. RouterInv' /\ UNCHANGED routes
      BY <1>1, <1>2, RouterRests DEF routerVars
    <2>2. RoutesInOrder'
      BY <1>1, <1>2, <2>1, AssemblyGoesOn, RoutesWait
    <2>3. PathsInOrder' /\ VersionsInOrder'
      BY <1>1, <1>2, AssemblyGoesOn, OrderRests DEF planVars
    <2> QED
      BY <2>1, <2>2, <2>3 DEF OrderInv
  <1>3. CASE CompileContracts
    <2>1. UNCHANGED routerVars /\ stage = "assembled" /\ stage' \in {"routing", "refused"}
      BY <1>3 DEF CompileContracts, RefusePlan, GoesOn
    <2>2. RouterInv' /\ RoutesInOrder'
      BY <1>1, <2>1, RouterRests, RoutesWait DEF routerVars
    <2>3. planned = 0 /\ plan = <<>>
      BY <2>1 DEF PlanInv, PlanTypes
    <2>4. planned' = 0 /\ plan' = <<>>
      BY <1>3, <2>3 DEF CompileContracts, RefusePlan, planVars
    <2> QED
      BY <2>2, <2>4, NothingInOrder DEF OrderInv
  <1>4. CASE PlanByPath
    <2>1. UNCHANGED routerVars /\ stage = "routing" /\ stage' \in {"routing", "refused"}
      BY <1>4 DEF PlanByPath, RefusePlan, assemblyVars
    <2>2. RouterInv' /\ RoutesInOrder'
      BY <1>1, <2>1, RouterRests, RoutesWait DEF routerVars
    <2> QED
      BY <1>1, <1>4, <2>2, PathsGoBehind DEF OrderInv
  <1>5. CASE PlanByHeader
    <2>1. UNCHANGED routerVars /\ stage = "routing" /\ stage' \in {"routing", "refused"}
      BY <1>5 DEF PlanByHeader, RefusePlan, assemblyVars
    <2>2. RouterInv' /\ RoutesInOrder'
      BY <1>1, <2>1, RouterRests, RoutesWait DEF routerVars
    <2> QED
      BY <1>1, <1>5, <2>2, VersionsGoBehind DEF OrderInv
  <1>6. CASE CheckCapabilities
    <2>1. /\ UNCHANGED <<routerVars, contracts, planned, plan, app>> /\ stage = "routing"
          /\ stage' \in {"refused", IF plan = <<>> THEN "serving" ELSE "registering"}
      BY <1>6 DEF CheckCapabilities, RefusePlan, GoesOn, planVars
    <2>2. routes = <<>> /\ routes' = <<>> /\ plan' = plan /\ DOMAIN routes' = {} /\ Len(routes') = 0
      BY <1>1, <2>1 DEF RoutesInOrder, routerVars
    <2>3. plan # <<>> => 0 < Len(plan)
      BY DEF PlanInv, PlanTypes, IsSequence
    <2>4. plan = <<>> => Len(plan) = 0
      OBVIOUS
    <2>5. RoutesInOrder'
      BY <2>1, <2>2, <2>3, <2>4 DEF RoutesInOrder
    <2> QED
      BY <1>1, <2>1, <2>5, RouterRests, OrderRests DEF OrderInv
  <1>7. CASE RegisterNext
    <2>1. RoutesInOrder'
      BY <1>1, <1>7, RoutesGoBehind
    <2>2. RouterInv'
      <3> DEFINE r == [template |-> plan[Len(routes) + 1].template,
                       methods |-> {plan[Len(routes) + 1].method}]
      <3>1. Register(r)
        BY <1>7 DEF RegisterNext
      <3> HIDE DEF r
      <3> QED
        BY <1>1, <3>1, RegisterKeeps
    <2>3. PathsInOrder' /\ VersionsInOrder'
      BY <1>1, <1>7, OrderRests DEF RegisterNext, GoesOn, planVars
    <2> QED
      BY <2>1, <2>2, <2>3 DEF OrderInv
  <1>8. CASE UNCHANGED bootstrapVars
    <2>1. UNCHANGED <<routerVars, routes, stage, app, contracts, planned, plan>>
      BY <1>8 DEF bootstrapVars, assemblyVars, planVars, routerVars
    <2> QED
      BY <1>1, <2>1, RouterRests, RoutesWait, OrderRests DEF OrderInv
  <1> QED
    BY <1>2, <1>3, <1>4, <1>5, <1>6, <1>7, <1>8 DEF Next

-----------------------------------------------------------------------------
(* Who answers a request that is served.                                     *)

\* First finds the least of a set of positions.
LEMMA FirstIsLeast ==
    ASSUME NEW S \in SUBSET Nat, S # {}
    PROVE  First(S) \in S /\ \A k \in S : First(S) <= k
  <1>1. \E n \in S : \A k \in S : n <= k
    BY LeastNumber
  <1> QED
    BY <1>1, Zenon DEF First

LEMMA LeastIsFirst ==
    ASSUME NEW S \in SUBSET Nat, NEW n \in S, \A k \in S : n <= k
    PROVE  First(S) = n
  <1>1. First(S) \in S /\ First(S) <= n
    BY FirstIsLeast
  <1>2. n <= First(S) /\ n \in Nat /\ First(S) \in Nat
    BY <1>1
  <1> QED
    BY <1>1, <1>2

\* The first of what is picked from a sequence is the first of it in the sequence.
Among(s, A, W) == {i \in A : s[i] \in W}

LEMMA FirstOfPicked ==
    ASSUME NEW s, IsSequence(s), NEW A \in SUBSET DOMAIN s, NEW W
    PROVE  LET p == Picked(s, A)
               S == Among(p, DOMAIN p, W)
               T == Among(s, A, W)
           IN  IF S = {} THEN T = {} ELSE T # {} /\ p[First(S)] = s[First(T)]
  <1> DEFINE K == Cardinality(A)
             S == Among(Picked(s, A), DOMAIN Picked(s, A), W)
             T == Among(s, A, W)
  <1> SUFFICES IF S = {} THEN T = {} ELSE T # {} /\ Picked(s, A)[First(S)] = s[First(T)]
    OBVIOUS
  <1>1. Len(s) \in Nat /\ A \in SUBSET (1..Len(s))
    BY DEF IsSequence
  <1>2. /\ K \in Nat
        /\ \A n \in 1..K : Place(A, n) \in A
        /\ \A n, m \in 1..K : n < m => Place(A, n) < Place(A, m)
        /\ \A i \in A : \E n \in 1..K : Place(A, n) = i
    BY <1>1, PlacesInOrder
  <1>3. Picked(s, A) = [n \in 1..K |-> s[Place(A, n)]]
    BY DEF Picked, Place
  <1> HIDE DEF K
  <1>4. \A n \in 1..K : n \in S <=> Place(A, n) \in T
    BY <1>2, <1>3 DEF Among
  <1>5. S \subseteq 1..K /\ S \in SUBSET Nat /\ T \in SUBSET Nat /\ T \subseteq A
    <2>1. S \subseteq 1..K /\ T \subseteq A
      BY <1>3 DEF Among
    <2>2. 1..K \subseteq Nat
      BY <1>2
    <2>3. \A i \in A : i \in Nat
      BY <1>1
    <2> QED
      BY <2>1, <2>2, <2>3
  <1>12. \A i \in A : s[i] \in W => i \in T
    BY DEF Among
  <1> HIDE DEF S, T
  <1>6. CASE S = {}
    <2>1. T = {}
      BY <1>2, <1>4, <1>5, <1>6
    <2> QED
      BY <1>6, <2>1
  <1>7. CASE S # {}
    <2> DEFINE l == First(S)
    <2>1. l \in S /\ \A n \in S : l <= n
      BY <1>5, <1>7, FirstIsLeast
    <2> HIDE DEF l
    <2>2. l \in 1..K /\ Place(A, l) \in T
      BY <1>4, <1>5, <2>1
    <2>3. ASSUME NEW i \in T PROVE Place(A, l) <= i
      <3>1. PICK n \in 1..K : Place(A, n) = i
        BY <1>2, <1>5
      <3>2. n \in S /\ l <= n
        BY <1>4, <2>1, <3>1
      <3>3. n \in Nat /\ l \in Nat /\ i \in Nat
        BY <1>2, <1>5, <2>2, <3>1
      <3>4. CASE l = n
        BY <3>1, <3>3, <3>4
      <3>5. CASE l < n
        <4>1. Place(A, l) < Place(A, n)
          BY <1>2, <2>2, <3>5
        <4>2. Place(A, l) \in Nat
          BY <1>5, <2>2
        <4> QED
          BY <3>1, <3>3, <4>1, <4>2
      <3> QED
        BY <3>2, <3>3, <3>4, <3>5
    <2>4. First(T) = Place(A, l)
      BY <1>5, <2>2, <2>3, LeastIsFirst
    <2>5. Picked(s, A)[l] = s[Place(A, l)]
      BY <1>3, <2>2
    <2> QED
      BY <1>7, <2>2, <2>4, <2>5 DEF l
  <1> QED
    BY <1>6, <1>7

\* A served route is an entry of the plan, and the first in order answers.
LEMMA ServedRoutes ==
    ASSUME PlanInv, OrderInv, stage = "serving", NEW q \in Paths, NEW m \in Methods
    PROVE  /\ Scanned(q, m) = {n \in DOMAIN plan : q \in Answers[plan[n].template] /\ Takes(plan[n], m)}
           /\ Matched(q, m) <=> Scanned(q, m) # {}
           /\ Matched(q, m) => RouteFor(q, m) = First(Scanned(q, m))
  <1>1. DOMAIN routes = DOMAIN plan
    BY DEF OrderInv, RoutesInOrder, RouterInv, Listed, PlanInv, PlanTypes, IsSequence
  <1>2. \A n \in DOMAIN plan :
            routes[n] = [template |-> plan[n].template, methods |-> {plan[n].method}]
    BY <1>1 DEF OrderInv, RoutesInOrder
  <1>3. ASSUME NEW n \in DOMAIN plan
        PROVE  /\ Matches(routes[n], q) <=> q \in Answers[plan[n].template]
               /\ m \in Served(routes[n]) <=> Takes(plan[n], m)
    <2>1. routes[n].template = plan[n].template /\ routes[n].methods = {plan[n].method}
      <3>1. routes[n] = [template |-> plan[n].template, methods |-> {plan[n].method}]
        BY <1>2
      <3> QED
        BY ONLY <3>1
    <2>2. Served(routes[n]) = {plan[n].method} \cup (IF plan[n].method = "GET" THEN {"HEAD"} ELSE {})
      BY <2>1 DEF Served
    <2> QED
      BY <2>1, <2>2 DEF Matches, Takes
  <1>4. Scanned(q, m) = {n \in DOMAIN plan : q \in Answers[plan[n].template] /\ Takes(plan[n], m)}
    BY <1>1, <1>3 DEF Scanned, Answering
  <1>5. Tabled(q, m) \subseteq Scanned(q, m)
    <2> SUFFICES ASSUME NEW n \in Tabled(q, m) PROVE n \in Scanned(q, m)
      OBVIOUS
    <2>1. q \in DOMAIN table /\ n \in table[q] /\ m \in Served(routes[n])
      BY DEF Tabled
    <2>2. q \in Literals /\ n \in DOMAIN routes /\ routes[n].template = q
      BY <2>1 DEF OrderInv, RouterInv, Listed, ByName
    <2>3. q \in Answers[q]
      BY <2>2, RouterAssumption
    <2> QED
      BY <2>1, <2>2, <2>3 DEF Scanned, Answering, Matches
  <1>6. Tabled(q, m) # {} => RouteFor(q, m) = First(Scanned(q, m))
    BY TableIsInOrder DEF OrderInv, TableKeepsTheOrder
  <1> QED
    BY <1>4, <1>5, <1>6 DEF Matched, RouteFor

\* The first that passes among two: where the handler's contracts are what the declaration
\* selects.
SelectedBy(first, q, m, v) ==
    {i \in DOMAIN contracts :
        /\ \E f \in first : contracts[i].method = f.method /\ contracts[i].template = f.template
        /\ Declares(contracts[i], q, m) /\ Accepts(contracts[i], v)}

Declaring(q, m) == {i \in DOMAIN contracts : Declares(contracts[i], q, m)}

FirstAt(s, ns) == IF ns = {} THEN {} ELSE {s[First(ns)]}

AnswersInOrder(q, m, v) ==
    (IF ~Matched(q, m) THEN {}
     ELSE FirstAt(plan[RouteFor(q, m)].contracts,
              {n \in DOMAIN plan[RouteFor(q, m)].contracts :
                  Accepts(plan[RouteFor(q, m)].contracts[n], v)}))
        = FirstAt(contracts, SelectedBy(FirstAt(contracts, Declaring(q, m)), q, m, v))

\* What AnsweredByDeclaration says of one request.
LEMMA EachAnsweredInOrder ==
    ASSUME stage = "serving" =>
               \A q \in Paths, m \in Methods, v \in Versions \cup {Neutral} : AnswersInOrder(q, m, v)
    PROVE  AnsweredByDeclaration
  <1> SUFFICES ASSUME stage = "serving", NEW q \in Paths, NEW m \in Methods,
                      NEW v \in Versions \cup {Neutral}
               PROVE  Handler(q, m, v) =
                        FirstOf(contracts, LAMBDA c :
                            /\ \E f \in FirstOf(contracts, LAMBDA d : Declares(d, q, m)) :
                                  c.method = f.method /\ c.template = f.template
                            /\ Declares(c, q, m) /\ Accepts(c, v))
    BY DEF AnsweredByDeclaration
  <1> DEFINE first == FirstOf(contracts, LAMBDA d : Declares(d, q, m))
  <1>1. first = FirstAt(contracts, Declaring(q, m))
    BY DEF FirstOf, FirstAt, Declaring
  <1> HIDE DEF first
  <1>2. FirstOf(contracts, LAMBDA c :
            /\ \E f \in first : c.method = f.method /\ c.template = f.template
            /\ Declares(c, q, m) /\ Accepts(c, v))
          = FirstAt(contracts, SelectedBy(first, q, m, v))
    BY DEF FirstOf, FirstAt, SelectedBy
  <1>3. Handler(q, m, v) =
          IF ~Matched(q, m) THEN {}
          ELSE FirstAt(plan[RouteFor(q, m)].contracts,
                   {n \in DOMAIN plan[RouteFor(q, m)].contracts :
                       Accepts(plan[RouteFor(q, m)].contracts[n], v)})
    BY DEF Handler, FirstOf, FirstAt
  <1>4. AnswersInOrder(q, m, v)
    OBVIOUS
  <1> QED
    BY <1>1, <1>2, <1>3, <1>4 DEF AnswersInOrder, first

\* Where versions are no header: each contract has its entries, in the order of the contracts.
LEMMA AnsweredByPath ==
    ASSUME PlanInv, OrderInv, stage = "serving", app.versioning.type # "header",
           NEW q \in Paths, NEW m \in Methods, NEW v
    PROVE  AnswersInOrder(q, m, v)
  <1> DEFINE S == Scanned(q, m)
             D == Declaring(q, m)
  <1>1. PICK o : MadeFor(o)
    BY DEF OrderInv, PathsInOrder
  <1>2. /\ planned = Len(contracts) /\ IsSequence(contracts) /\ IsSequence(plan)
        /\ \A c \in ToSet(contracts) : c.versions \in VersionsOf
    BY DEF PlanInv, PlanTypes
  <1>3. /\ DOMAIN contracts = 1..planned /\ planned \in Nat
        /\ DOMAIN plan \in SUBSET Nat
    BY <1>2 DEF IsSequence
  <1>4. \A i \in 1..planned : contracts[i] \in ToSet(contracts)
    BY <1>3 DEF ToSet
  <1>5. /\ o \in [DOMAIN plan -> 1..planned]
        /\ \A n, k \in DOMAIN plan : n <= k => o[n] <= o[k]
    BY <1>1 DEF MadeFor
  <1>6. ASSUME NEW n \in DOMAIN plan
        PROVE  \E t \in ToSet(PathsOf(contracts[o[n]])) : plan[n] = Entry(contracts[o[n]], t)
    BY <1>1, <1>4, <1>5 DEF MadeFor
  <1>7. ASSUME NEW i \in 1..planned, NEW t \in ToSet(PathsOf(contracts[i]))
        PROVE  \E n \in DOMAIN plan : o[n] = i /\ plan[n] = Entry(contracts[i], t)
    BY <1>1, <1>4 DEF MadeFor
  <1>8. \A i \in 1..planned :
            i \in D <=> Takes(contracts[i], m) /\ \E t \in ToSet(PathsOf(contracts[i])) : q \in Answers[t]
    BY <1>2, <1>3, <1>4, DeclaresItsPaths DEF Declaring
  <1>9. \A c, t : Entry(c, t).template = t /\ Entry(c, t).contracts = <<c>>
                    /\ (Takes(Entry(c, t), m) <=> Takes(c, m))
    BY DEF Entry, Takes
  <1>10. \A n \in S : n \in DOMAIN plan /\ q \in Answers[plan[n].template] /\ Takes(plan[n], m)
    BY ServedRoutes
  <1>11. \A n \in DOMAIN plan : q \in Answers[plan[n].template] /\ Takes(plan[n], m) => n \in S
    BY ServedRoutes
  <1>12. ASSUME NEW n \in S PROVE o[n] \in D
    <2>1. PICK t \in ToSet(PathsOf(contracts[o[n]])) : plan[n] = Entry(contracts[o[n]], t)
      BY <1>6, <1>10
    <2>2. q \in Answers[t] /\ Takes(contracts[o[n]], m)
      BY <1>9, <1>10, <2>1
    <2> QED
      BY <1>5, <1>8, <1>10, <2>2
  <1>13. ASSUME NEW i \in D PROVE \E n \in S : o[n] = i
    <2>1. i \in 1..planned
      BY <1>3 DEF Declaring
    <2>2. PICK t \in ToSet(PathsOf(contracts[i])) : q \in Answers[t] /\ Takes(contracts[i], m)
      BY <1>8, <2>1
    <2>3. PICK n \in DOMAIN plan : o[n] = i /\ plan[n] = Entry(contracts[i], t)
      BY <1>7, <2>1
    <2>4. q \in Answers[plan[n].template] /\ Takes(plan[n], m)
      BY <1>9, <2>2, <2>3
    <2> QED
      BY <1>11, <2>3, <2>4
  <1>14. D \in SUBSET Nat /\ S \in SUBSET Nat /\ D \subseteq 1..planned
    BY <1>3, <1>10 DEF Declaring
  <1>15. CASE S = {}
    <2>1. D = {}
      BY <1>13, <1>15
    <2>2. ~Matched(q, m)
      BY <1>15, ServedRoutes
    <2>3. FirstAt(contracts, D) = {}
      BY <2>1 DEF FirstAt
    <2>4. SelectedBy({}, q, m, v) = {}
      BY DEF SelectedBy
    <2>5. FirstAt(contracts, {}) = {}
      BY DEF FirstAt
    <2> QED
      BY <2>2, <2>3, <2>4, <2>5 DEF AnswersInOrder
  <1>16. CASE S # {}
    <2> DEFINE l == First(S)
               d == contracts[o[l]]
    <2>1. l \in S /\ \A n \in S : l <= n
      BY <1>14, <1>16, FirstIsLeast
    <2>2. Matched(q, m) /\ RouteFor(q, m) = l
      BY <1>16, ServedRoutes
    <2> HIDE DEF l
    <2>3. o[l] \in D /\ o[l] \in 1..planned
      BY <1>12, <1>14, <2>1
    <2>4. \A i \in D : o[l] <= i
      BY <1>5, <1>10, <1>13, <2>1
    <2>5. First(D) = o[l]
      <3> HIDE DEF D
      <3> QED
        BY <1>14, <2>3, <2>4, LeastIsFirst
    <2>6. FirstAt(contracts, D) = {d}
      BY <2>3, <2>5 DEF FirstAt
    <2>7. plan[l].contracts = <<d>>
      BY <1>6, <1>9, <1>10, <2>1
    <2>8. \A c : Accepts(c, v)
      BY DEF Accepts
    <2>9. FirstAt(plan[l].contracts, {n \in DOMAIN plan[l].contracts : Accepts(plan[l].contracts[n], v)}) = {d}
      <3> DEFINE s == <<d>>
      <3>1. {n \in DOMAIN s : Accepts(s[n], v)} = {1} /\ s[1] = d
        BY <2>8
      <3>2. First({1}) = 1
        BY LeastIsFirst
      <3>3. FirstAt(s, {1}) = {d}
        BY <3>1, <3>2 DEF FirstAt
      <3> HIDE DEF s, d
      <3>4. plan[l].contracts = s
        BY <2>7 DEF s
      <3> QED
        BY <3>1, <3>3, <3>4
    <2> DEFINE E == SelectedBy({d}, q, m, v)
    <2>10. o[l] \in E /\ E \subseteq D
      BY <1>3, <2>3, <2>8 DEF SelectedBy, Declaring
    <2>11. First(E) = o[l]
      <3>1. E \in SUBSET Nat /\ \A i \in E : o[l] <= i
        BY <1>14, <2>4, <2>10
      <3> HIDE DEF E
      <3> QED
        BY <2>10, <3>1, LeastIsFirst
    <2>12. FirstAt(contracts, E) = {d}
      <3> HIDE DEF E
      <3> QED
        BY <2>10, <2>11 DEF FirstAt
    <2> QED
      BY <2>2, <2>6, <2>9, <2>12 DEF AnswersInOrder
  <1> QED
    BY <1>15, <1>16

\* Where a header tells versions apart: an entry has all that share its method and template.
LEMMA AnsweredByHeader ==
    ASSUME PlanInv, OrderInv, stage = "serving", app.versioning.type = "header",
           NEW q \in Paths, NEW m \in Methods, NEW v
    PROVE  AnswersInOrder(q, m, v)
  <1> DEFINE S == Scanned(q, m)
             D == Declaring(q, m)
             J(n) == JoinersOf(plan[n])
  <1>1. planned = Len(contracts) /\ IsSequence(contracts) /\ IsSequence(plan)
    BY DEF PlanInv, PlanTypes
  <1>2. /\ DOMAIN contracts = 1..planned /\ planned \in Nat
        /\ DOMAIN plan \in SUBSET Nat
    BY <1>1 DEF IsSequence
  <1>3. /\ \A n \in DOMAIN plan : J(n) # {} /\ plan[n].contracts = Picked(contracts, J(n))
        /\ \A i \in 1..planned : \E n \in DOMAIN plan : i \in J(n)
        /\ \A n, k \in DOMAIN plan : n < k => \E i \in J(n) : \A j \in J(k) : i < j
    BY DEF OrderInv, VersionsInOrder
  <1>4. \A n : \A i : i \in J(n) <=> /\ i \in 1..planned
                                     /\ contracts[i].method = plan[n].method
                                     /\ contracts[i].template = plan[n].template
    BY DEF JoinersOf, Joins
  <1>5. \A i \in 1..planned :
            i \in D <=> Takes(contracts[i], m) /\ q \in Answers[contracts[i].template]
    BY <1>2 DEF Declaring, Declares, Takes
  <1>6. \A n \in DOMAIN plan : n \in S <=> q \in Answers[plan[n].template] /\ Takes(plan[n], m)
    BY ServedRoutes
  <1>7. S \subseteq DOMAIN plan /\ D \subseteq 1..planned
    BY <1>2, ServedRoutes DEF Declaring
  <1>8. ASSUME NEW n \in DOMAIN plan, NEW i \in J(n)
        PROVE  i \in D <=> n \in S
    <2>1. i \in 1..planned /\ contracts[i].method = plan[n].method /\ contracts[i].template = plan[n].template
      BY <1>4
    <2> QED
      BY <1>5, <1>6, <2>1 DEF Takes
  <1>9. D \in SUBSET Nat /\ S \in SUBSET Nat
    BY <1>2, <1>7
  <1> HIDE DEF S, D, J
  <1>10. CASE D = {}
    <2>1. S = {}
      <3> SUFFICES ASSUME NEW n \in S PROVE FALSE
        OBVIOUS
      <3>1. PICK i \in J(n) : TRUE
        BY <1>3, <1>7
      <3> QED
        BY <1>7, <1>8, <1>10, <3>1
    <2>2. ~Matched(q, m)
      BY <2>1, ServedRoutes DEF S
    <2>3. FirstAt(contracts, D) = {}
      BY <1>10 DEF FirstAt
    <2>4. SelectedBy({}, q, m, v) = {}
      BY DEF SelectedBy
    <2>5. FirstAt(contracts, {}) = {}
      BY DEF FirstAt
    <2> QED
      BY <2>2, <2>3, <2>4, <2>5 DEF AnswersInOrder, D
  <1>11. CASE D # {}
    <2> DEFINE i == First(D)
               d == contracts[i]
               l == First(S)
    <2>1. i \in D /\ \A k \in D : i <= k
      BY <1>9, <1>11, FirstIsLeast
    <2> HIDE DEF i
    <2>2. PICK n \in DOMAIN plan : i \in J(n)
      BY <1>3, <1>7, <2>1
    <2>3. n \in S
      BY <1>8, <2>1, <2>2
    <2>4. l \in S /\ \A k \in S : l <= k
      BY <1>9, <2>3, FirstIsLeast
    <2> HIDE DEF l
    <2>5. l = n
      <3>1. l <= n /\ l \in Nat /\ n \in Nat
        BY <1>9, <2>3, <2>4
      <3>2. ASSUME l < n PROVE FALSE
        <4>1. PICK k \in J(l) : \A j \in J(n) : k < j
          BY <1>3, <1>7, <2>3, <2>4, <3>2
        <4>2. k \in D /\ k < i
          BY <1>7, <1>8, <2>2, <2>4, <4>1
        <4>3. i <= k /\ i \in Nat /\ k \in Nat
          BY <1>9, <2>1, <4>2
        <4> QED
          BY <4>2, <4>3
      <3> QED
        BY <3>1, <3>2
    <2>6. Matched(q, m) /\ RouteFor(q, m) = n
      <3>1. Matched(q, m) /\ RouteFor(q, m) = First(S)
        BY <2>3, ServedRoutes DEF S
      <3> QED
        BY <2>5, <3>1 DEF l
    <2>7. FirstAt(contracts, D) = {d}
      BY <1>11 DEF FirstAt, i
    <2>8. SelectedBy({d}, q, m, v) = {k \in J(n) : Accepts(contracts[k], v)}
      <3>1. contracts[i].method = plan[n].method /\ contracts[i].template = plan[n].template
        BY <1>4, <2>2
      <3>2. \A k : k \in J(n) => k \in D /\ k \in DOMAIN contracts
        BY <1>2, <1>7, <1>8, <2>3
      <3>3. \A k \in DOMAIN contracts :
                k \in J(n) <=> contracts[k].method = d.method /\ contracts[k].template = d.template
        BY <1>2, <1>4, <3>1
      <3>4. \A k \in DOMAIN contracts : k \in D <=> Declares(contracts[k], q, m)
        BY DEF D, Declaring
      <3> HIDE DEF d
      <3> QED
        BY <3>2, <3>3, <3>4 DEF SelectedBy
    <2> DEFINE W == {c \in ToSet(contracts) : Accepts(c, v)}
               s == Picked(contracts, J(n))
               T == Among(contracts, J(n), W)
               U == Among(s, DOMAIN s, W)
    <2>9. J(n) \in SUBSET DOMAIN contracts
      BY <1>2, <1>4
    <2>10. T = {k \in J(n) : Accepts(contracts[k], v)}
      <3>1. \A k \in J(n) : contracts[k] \in ToSet(contracts)
        BY <2>9 DEF ToSet
      <3> QED
        BY <3>1 DEF Among
    <2>11. U = {k \in DOMAIN s : Accepts(s[k], v)}
      <3>1. IsSequence(s) /\ ToSet(s) \subseteq ToSet(contracts)
        BY <1>1, <2>9, PickedOfAny
      <3> HIDE DEF s
      <3>2. \A k \in DOMAIN s : s[k] \in ToSet(contracts)
        BY <3>1 DEF ToSet
      <3> QED
        BY <3>2 DEF Among
    <2>12. IF U = {} THEN T = {} ELSE T # {} /\ s[First(U)] = contracts[First(T)]
      <3> HIDE DEF W
      <3> QED
        BY <1>1, <2>9, FirstOfPicked
    <2>13. plan[n].contracts = s
      BY <1>3
    <2> HIDE DEF s, T, U
    <2>14. FirstAt(s, U) = FirstAt(contracts, T)
      BY <2>12 DEF FirstAt
    <2> QED
      BY <2>6, <2>7, <2>8, <2>10, <2>11, <2>13, <2>14 DEF AnswersInOrder, D
  <1> QED
    BY <1>10, <1>11

-----------------------------------------------------------------------------

\* create_app to the router: a request is answered by the handler declared first among those
\* it matches, or the first there that takes its version, for every set of declared
\* applications, their paths and their versions.
THEOREM FirstDeclaredAnswers == Spec => []AnsweredAsDeclared
  <1>1. Init => WalkInv /\ PlanInv /\ OrderInv
    BY WalkStarts, PlanStarts, OrderStarts
  <1>2. WalkInv /\ PlanInv /\ OrderInv /\ [Next]_bootstrapVars => (WalkInv /\ PlanInv /\ OrderInv)'
    BY WalkGoesOn, PlanGoesOn, OrderGoesOn
  <1>3. PlanInv /\ OrderInv => AnsweredByDeclaration
    BY AnsweredByPath, AnsweredByHeader, EachAnsweredInOrder
  <1>4. PlanInv /\ OrderInv => AnsweredInOrder
    BY <1>3, TableIsInOrder DEF AnsweredInOrder, OrderInv
  <1>5. Spec => []NoTwoAnswerAlike
    BY NoTwoHandlersAnswerAlike
  <1>6. AnsweredInOrder /\ NoTwoAnswerAlike => AnsweredAsDeclared
    BY DEF AnsweredAsDeclared
  <1> QED
    BY <1>1, <1>2, <1>4, <1>5, <1>6, PTL DEF Spec

-----------------------------------------------------------------------------
(* What is made of a sequence, one member after another.                     *)

\* From one place of a sequence to the next.
LEMMA EachPlace ==
    ASSUME NEW N \in Nat, NEW T \in SUBSET (0..N), 0 \in T,
           \A k \in 1..N : k - 1 \in T => k \in T
    PROVE  T = 0..N
  <1> DEFINE Out == (0..N) \ T
  <1>1. Out = {}
    <2> SUFFICES ASSUME Out # {} PROVE FALSE
      OBVIOUS
    <2>1. Out \in SUBSET Nat
      OBVIOUS
    <2>2. PICK k \in Out : \A j \in Out : k <= j
      <3> HIDE DEF Out
      <3> QED
        BY <2>1, LeastNumber
    <2>3. k \in 1..N /\ k - 1 \in 0..N /\ ~(k <= k - 1)
      BY <2>2
    <2>4. k - 1 \in T
      BY <2>2, <2>3
    <2> QED
      BY <2>2, <2>3, <2>4
  <1> QED
    BY <1>1

Prefix(s, k) == [i \in 1..k |-> s[i]]

LEMMA PrefixGrows ==
    ASSUME NEW S, NEW s \in Seq(S)
    PROVE  /\ Prefix(s, 0) = <<>> /\ Prefix(s, Len(s)) = s
           /\ \A k \in 0..Len(s) : Prefix(s, k) \in Seq(S) /\ Len(Prefix(s, k)) = k
           /\ \A k \in 1..Len(s) : Prefix(s, k) = Append(Prefix(s, k - 1), s[k])
  <1>1. Len(s) \in Nat /\ DOMAIN s = 1..Len(s) /\ \A i \in 1..Len(s) : s[i] \in S
    BY ElementOfSeq
  <1>2. ASSUME NEW k \in 0..Len(s)
        PROVE  Prefix(s, k) \in Seq(S) /\ Len(Prefix(s, k)) = k
    <2>1. k \in Nat /\ \A i \in 1..k : i \in 1..Len(s)
      BY <1>1
    <2>2. Prefix(s, k) \in [1..k -> S]
      BY <1>1, <2>1 DEF Prefix
    <2> QED
      BY <2>1, <2>2, SeqDef
  <1>3. Prefix(s, 0) = <<>>
    <2>1. Prefix(s, 0) \in Seq(S) /\ Len(Prefix(s, 0)) = 0
      BY <1>1, <1>2
    <2> QED
      BY <2>1
  <1>4. Prefix(s, Len(s)) = s
    BY <1>1 DEF Prefix
  <1>5. ASSUME NEW k \in 1..Len(s)
        PROVE  Prefix(s, k) = Append(Prefix(s, k - 1), s[k])
    <2> DEFINE t == Append(Prefix(s, k - 1), s[k])
    <2>1. k - 1 \in 0..Len(s) /\ k \in 0..Len(s) /\ k \in Nat /\ s[k] \in S
      BY <1>1
    <2>2. Prefix(s, k - 1) \in Seq(S) /\ Len(Prefix(s, k - 1)) = k - 1
      BY <1>2, <2>1
    <2>3. /\ t \in Seq(S) /\ Len(t) = k /\ t[k] = s[k]
          /\ \A i \in 1..(k - 1) : t[i] = Prefix(s, k - 1)[i]
      <3> DEFINE u == Prefix(s, k - 1)
      <3>1. u \in Seq(S) /\ Len(u) = k - 1 /\ s[k] \in S
        BY <2>1, <2>2
      <3> HIDE DEF u
      <3>2. /\ Append(u, s[k]) \in Seq(S) /\ Len(Append(u, s[k])) = k
            /\ Append(u, s[k])[k] = s[k]
            /\ \A i \in 1..(k - 1) : Append(u, s[k])[i] = u[i]
        BY <2>1, <3>1, AppendProperties
      <3> QED
        BY <3>2 DEF u
    <2>4. \A i \in 1..(k - 1) : Prefix(s, k - 1)[i] = s[i]
      BY DEF Prefix
    <2>5. Prefix(s, k) \in Seq(S) /\ Len(Prefix(s, k)) = k /\ \A i \in 1..k : Prefix(s, k)[i] = s[i]
      BY <1>2, <2>1 DEF Prefix
    <2>6. \A i \in 1..k : i = k \/ i \in 1..(k - 1)
      BY <2>1
    <2> HIDE DEF t
    <2>7. \A i \in 1..k : t[i] = Prefix(s, k)[i]
      BY <2>3, <2>4, <2>5, <2>6
    <2>8. t = Prefix(s, k)
      BY <2>3, <2>5, <2>7, SeqEqual
    <2> QED
      BY <2>8 DEF t
  <1> QED
    BY <1>2, <1>3, <1>4, <1>5

\* One more sequence is put behind all those before it.
LEMMA FlattenWithLast ==
    ASSUME NEW S, NEW ss \in Seq(Seq(S)), NEW s \in Seq(S)
    PROVE  FlattenSeq(Append(ss, s)) = FlattenSeq(ss) \o s
  <1> DEFINE n == Len(ss)
             tt == Append(ss, s)
  <1>1. /\ n \in Nat /\ tt \in Seq(Seq(S)) /\ Len(tt) = n + 1 /\ tt[n + 1] = s
        /\ \A i \in 1..n : tt[i] = ss[i]
    BY AppendProperties, LenProperties
  <1> HIDE DEF tt
  <1>2. PICK g : /\ g = [i \in 1..n |-> IF i = 1 THEN ss[i] ELSE g[i - 1] \o ss[i]]
                 /\ FlattenSeq(ss) = IF n = 0 THEN ss ELSE g[n]
    BY FlattenGoesThrough
  <1>3. PICK h : /\ h = [i \in 1..Len(tt) |-> IF i = 1 THEN tt[i] ELSE h[i - 1] \o tt[i]]
                 /\ FlattenSeq(tt) = IF Len(tt) = 0 THEN tt ELSE h[Len(tt)]
    BY <1>1, FlattenGoesThrough
  <1>4. n = 0 => ss = <<>>
    OBVIOUS
  <1> HIDE DEF n
  <1>5. \A i \in 1..n : g[i] = IF i = 1 THEN ss[i] ELSE g[i - 1] \o ss[i]
    BY <1>2
  <1>6. \A i \in 1..(n + 1) : h[i] = IF i = 1 THEN tt[i] ELSE h[i - 1] \o tt[i]
    BY <1>1, <1>3
  <1> DEFINE T == {k \in 0..n : k = 0 \/ g[k] = h[k]}
  <1>7. T = 0..n
    <2>1. 0 \in T
      BY <1>1
    <2>2. ASSUME NEW k \in 1..n, k - 1 \in T PROVE k \in T
      <3>1. k \in 0..n /\ k \in 1..(n + 1) /\ k # 0
        BY <1>1
      <3>2. k # 1 => g[k - 1] = h[k - 1]
        BY <2>2
      <3>3. g[k] = h[k]
        BY <1>1, <1>5, <1>6, <3>1, <3>2
      <3> QED
        BY <3>1, <3>3
    <2> HIDE DEF T
    <2>3. T \subseteq 0..n
      BY DEF T
    <2> QED
      BY <1>1, <2>1, <2>2, <2>3, EachPlace
  <1>8. n + 1 \in 1..(n + 1) /\ n + 1 # 0 /\ (n + 1) - 1 = n
    BY <1>1
  <1>9. FlattenSeq(tt) = IF n = 0 THEN s ELSE h[n] \o s
    <2>1. h[n + 1] = IF n = 0 THEN s ELSE h[n] \o s
      BY <1>1, <1>6, <1>8
    <2> QED
      BY <1>1, <1>3, <1>8, <2>1
  <1>10. CASE n = 0
    <2>1. FlattenSeq(ss) = <<>>
      BY <1>2, <1>4, <1>10
    <2>2. <<>> \o s = s
      BY ConcatEmptySeq
    <2> QED
      BY <1>9, <1>10, <2>1, <2>2 DEF tt
  <1>11. CASE n # 0
    <2>1. g[n] = h[n]
      <3>1. n \in T
        <4> HIDE DEF T
        <4> QED
          BY <1>1, <1>7
      <3> QED
        BY <1>11, <3>1
    <2> QED
      BY <1>2, <1>9, <1>11, <2>1 DEF tt
  <1> QED
    BY <1>10, <1>11

\* A function on an interval from 1 into a set is a sequence of that set.
LEMMA FunctionIsSeq ==
    ASSUME NEW S, NEW n \in Nat, NEW f \in [1..n -> S]
    PROVE  f \in Seq(S) /\ Len(f) = n
  BY SeqDef

\* A function from one set to another, by name.
IsMap(f, T, S) == f \in [T -> S]

LEMMA MapsTo ==
    ASSUME NEW T, NEW S, NEW f, IsMap(f, T, S), NEW x \in T
    PROVE  f[x] \in S
  BY DEF IsMap

\* A sequence with a function applied to each member.
Mapped(s, h) == [n \in DOMAIN s |-> h[s[n]]]

LEMMA MappedIsSeq ==
    ASSUME NEW S, NEW T, NEW h, IsMap(h, T, S), NEW s \in Seq(T)
    PROVE  Mapped(s, h) \in Seq(S) /\ Len(Mapped(s, h)) = Len(s) /\ \A n \in DOMAIN s : Mapped(s, h)[n] = h[s[n]]
  <1>1. Len(s) \in Nat /\ DOMAIN s = 1..Len(s) /\ \A n \in 1..Len(s) : s[n] \in T
    BY ElementOfSeq, LenProperties
  <1>2. Mapped(s, h) \in [1..Len(s) -> S]
    BY <1>1 DEF Mapped, IsMap
  <1> QED
    BY <1>1, <1>2, FunctionIsSeq DEF Mapped

\* What a function makes of the members of a sequence, one behind another.
FlatMap(s, f) == FlattenSeq(Mapped(s, f))

LEMMA FlatMapIsSeq ==
    ASSUME NEW S, NEW T, NEW f, IsMap(f, T, Seq(S)), NEW s \in Seq(T)
    PROVE  FlatMap(s, f) \in Seq(S)
  <1>1. Mapped(s, f) \in Seq(Seq(S))
    BY MappedIsSeq
  <1> QED
    BY <1>1, FlattenIsSeq DEF FlatMap

LEMMA FlatMapOfNothing == ASSUME NEW f PROVE FlatMap(<<>>, f) = <<>>
  <1>1. Mapped(<<>>, f) = <<>>
    BY EmptySeq DEF Mapped
  <1>2. <<>> \in Seq(Seq({})) /\ Len(<<>>) = 0
    BY EmptySeq
  <1>3. FlattenSeq(<<>>) = <<>>
    BY <1>2, FlattenGoesThrough
  <1> QED
    BY <1>1, <1>3 DEF FlatMap

LEMMA MappedWithLast ==
    ASSUME NEW S, NEW T, NEW f, IsMap(f, T, S), NEW s \in Seq(T), NEW x \in T
    PROVE  Mapped(Append(s, x), f) = Append(Mapped(s, f), f[x])
  <1> DEFINE t == Append(s, x)
             n == Len(s)
             a == Mapped(s, f)
             b == Mapped(t, f)
  <1>1. /\ n \in Nat /\ t \in Seq(T) /\ Len(t) = n + 1 /\ t[n + 1] = x
        /\ \A i \in 1..n : t[i] = s[i]
        /\ DOMAIN s = 1..n
    BY AppendProperties, LenProperties
  <1> HIDE DEF t
  <1>2. DOMAIN t = 1..(n + 1)
    BY <1>1, LenProperties
  <1>3. /\ a \in Seq(S) /\ Len(a) = n /\ \A i \in 1..n : a[i] = f[s[i]]
        /\ b \in Seq(S) /\ Len(b) = n + 1 /\ \A i \in 1..(n + 1) : b[i] = f[t[i]]
    BY <1>1, <1>2, MappedIsSeq
  <1>4. PICK y \in S : y = f[x]
    BY MapsTo
  <1> HIDE DEF a, b, n
  <1> DEFINE u == Append(a, y)
  <1>5. u \in Seq(S) /\ Len(u) = n + 1 /\ u[n + 1] = y /\ \A i \in 1..n : u[i] = a[i]
    BY <1>3, AppendProperties
  <1> HIDE DEF u
  <1>6. n + 1 \in 1..(n + 1) /\ \A i \in 1..(n + 1) : i = n + 1 \/ i \in 1..n
    BY <1>1
  <1>7. ASSUME NEW i \in 1..(n + 1) PROVE u[i] = b[i]
    <2>1. CASE i = n + 1
      BY <1>1, <1>3, <1>4, <1>5, <2>1
    <2>2. CASE i \in 1..n
      BY <1>1, <1>3, <1>5, <2>2
    <2> QED
      BY <1>6, <2>1, <2>2
  <1>8. u = b
    BY <1>3, <1>5, <1>7, SeqEqual
  <1> QED
    BY <1>4, <1>8 DEF u, a, b, t

LEMMA FlatMapWithLast ==
    ASSUME NEW S, NEW T, NEW f, IsMap(f, T, Seq(S)), NEW s \in Seq(T), NEW x \in T
    PROVE  FlatMap(Append(s, x), f) = FlatMap(s, f) \o f[x]
  <1>1. Mapped(s, f) \in Seq(Seq(S))
    BY MappedIsSeq
  <1>2. Mapped(Append(s, x), f) = Append(Mapped(s, f), f[x])
    BY MappedWithLast
  <1>3. PICK ss \in Seq(Seq(S)) : ss = Mapped(s, f)
    BY <1>1
  <1>4. PICK y \in Seq(S) : y = f[x]
    BY MapsTo
  <1>5. FlattenSeq(Append(ss, y)) = FlattenSeq(ss) \o y
    BY FlattenWithLast
  <1> QED
    BY <1>2, <1>3, <1>4, <1>5 DEF FlatMap

LEMMA AppendedBehind ==
    ASSUME NEW S, NEW a \in Seq(S), NEW b \in Seq(S), NEW x \in S
    PROVE  a \o b \in Seq(S) /\ a \o Append(b, x) = Append(a \o b, x)
  <1>1. a \o b \in Seq(S)
    BY ConcatProperties
  <1>2. <<x>> \in Seq(S)
    OBVIOUS
  <1>3. (a \o b) \o <<x>> = a \o (b \o <<x>>)
    BY <1>2, ConcatAssociative
  <1>4. Append(b, x) = b \o <<x>>
    BY AppendIsConcat
  <1>5. Append(a \o b, x) = (a \o b) \o <<x>>
    BY <1>1, AppendIsConcat
  <1> QED
    BY <1>1, <1>3, <1>4, <1>5

Three(a, b, c, S) == a \in Seq(S) /\ b \in Seq(S) /\ c \in Seq(S)

\* Sequences are put behind one another in any grouping.
LEMMA ThreeInARow ==
    ASSUME NEW S, NEW a, NEW b, NEW c, Three(a, b, c, S)
    PROVE  (a \o b) \o c = a \o (b \o c)
  BY ConcatAssociative DEF Three

LEMMA FlatMapOfConcat ==
    ASSUME NEW S, NEW T, NEW f, IsMap(f, T, Seq(S)), NEW a \in Seq(T), NEW b \in Seq(T)
    PROVE  FlatMap(a \o b, f) = FlatMap(a, f) \o FlatMap(b, f)
  <1> DEFINE p(k) == Prefix(b, k)
             Done == {k \in 0..Len(b) : FlatMap(a \o p(k), f) = FlatMap(a, f) \o FlatMap(p(k), f)}
  <1>1. /\ p(0) = <<>> /\ p(Len(b)) = b /\ Len(b) \in Nat
        /\ \A k \in 0..Len(b) : p(k) \in Seq(T)
        /\ \A k \in 1..Len(b) : p(k) = Append(p(k - 1), b[k]) /\ b[k] \in T
    BY PrefixGrows, ElementOfSeq
  <1> HIDE DEF p
  <1>2. 0 \in Done
    <2>1. FlatMap(a, f) \in Seq(S)
      BY FlatMapIsSeq
    <2>2. FlatMap(<<>>, f) = <<>>
      BY FlatMapOfNothing
    <2>3. PICK fa \in Seq(S) : fa = FlatMap(a, f)
      BY <2>1
    <2>4. a \o <<>> = a /\ fa \o <<>> = fa
      BY ConcatEmptySeq
    <2>5. FlatMap(a \o p(0), f) = FlatMap(a, f) \o FlatMap(p(0), f)
      BY <1>1, <2>2, <2>3, <2>4
    <2>6. 0 \in 0..Len(b)
      BY <1>1
    <2> QED
      BY <2>5, <2>6
  <1>3. ASSUME NEW k \in 1..Len(b), k - 1 \in Done PROVE k \in Done
    <2> DEFINE u == p(k - 1)
               x == b[k]
    <2>1. k - 1 \in 0..Len(b) /\ k \in 0..Len(b)
      BY <1>1
    <2>2. u \in Seq(T) /\ x \in T /\ p(k) = Append(u, x)
      BY <1>1, <2>1
    <2>3. FlatMap(a \o u, f) = FlatMap(a, f) \o FlatMap(u, f)
      BY <1>3
    <2> HIDE DEF u, x
    <2>4. a \o u \in Seq(T) /\ a \o Append(u, x) = Append(a \o u, x)
      BY <2>2, AppendedBehind
    <2>10. PICK w \in Seq(T) : w = a \o u
      BY <2>4
    <2>5. FlatMap(Append(w, x), f) = FlatMap(w, f) \o f[x]
      BY <2>2, FlatMapWithLast
    <2>8. FlatMap(Append(u, x), f) = FlatMap(u, f) \o f[x]
      BY <2>2, FlatMapWithLast
    <2>9. PICK fa \in Seq(S), fu \in Seq(S), fx \in Seq(S) :
             fa = FlatMap(a, f) /\ fu = FlatMap(u, f) /\ fx = f[x]
      <3>1. FlatMap(a, f) \in Seq(S)
        BY FlatMapIsSeq
      <3>2. FlatMap(u, f) \in Seq(S)
        BY <2>2, FlatMapIsSeq
      <3>3. f[x] \in Seq(S)
        BY <2>2, MapsTo
      <3> QED
        BY <3>1, <3>2, <3>3
    <2>6. (fa \o fu) \o fx = fa \o (fu \o fx)
      <3>1. Three(fa, fu, fx, S)
        BY DEF Three
      <3> QED
        BY ONLY <3>1, ThreeInARow
    <2>7. FlatMap(a \o p(k), f) = FlatMap(a, f) \o FlatMap(p(k), f)
      BY <2>2, <2>3, <2>4, <2>5, <2>6, <2>8, <2>9, <2>10
    <2> QED
      BY <2>1, <2>7
  <1>4. Len(b) \in Done
    <2>1. Done \in SUBSET (0..Len(b)) /\ Len(b) \in 0..Len(b)
      BY <1>1
    <2> HIDE DEF Done
    <2> QED
      BY <1>1, <1>2, <1>3, <2>1, EachPlace
  <1> QED
    BY <1>1, <1>4

\* A function that makes each member into that member alone.
LEMMA FlatMapOfOnes ==
    ASSUME NEW S, NEW T, NEW f, IsMap(f, T, Seq(S)), NEW s \in Seq(T),
           \A x \in ToSet(s) : f[x] = <<x>>
    PROVE  FlatMap(s, f) = s
  <1> DEFINE p(k) == Prefix(s, k)
             Done == {k \in 0..Len(s) : FlatMap(p(k), f) = p(k)}
  <1>1. /\ p(0) = <<>> /\ p(Len(s)) = s /\ Len(s) \in Nat
        /\ \A k \in 0..Len(s) : p(k) \in Seq(T)
        /\ \A k \in 1..Len(s) : p(k) = Append(p(k - 1), s[k]) /\ s[k] \in T
    BY PrefixGrows, ElementOfSeq
  <1> HIDE DEF p
  <1>2. 0 \in Done
    BY <1>1, FlatMapOfNothing
  <1>3. ASSUME NEW k \in 1..Len(s), k - 1 \in Done PROVE k \in Done
    <2> DEFINE u == p(k - 1)
               x == s[k]
    <2>1. k - 1 \in 0..Len(s) /\ k \in 0..Len(s)
      BY <1>1
    <2>2. u \in Seq(T) /\ x \in T /\ p(k) = Append(u, x) /\ FlatMap(u, f) = u
      BY <1>1, <1>3, <2>1
    <2>3. f[x] = <<x>>
      <3>1. k \in DOMAIN s
        BY <1>1, LenProperties
      <3> QED
        BY <3>1 DEF ToSet
    <2> HIDE DEF u, x
    <2>7. u \in Seq(T) /\ x \in T
      BY <2>2
    <2>6. FlatMap(Append(u, x), f) = FlatMap(u, f) \o f[x]
      BY <2>7, FlatMapWithLast
    <2>4. FlatMap(Append(u, x), f) = u \o <<x>>
      BY <2>2, <2>3, <2>6
    <2>5. u \o <<x>> = Append(u, x)
      BY <2>2, AppendIsConcat
    <2> QED
      BY <2>1, <2>2, <2>4, <2>5
  <1>4. Len(s) \in Done
    <2>1. Done \in SUBSET (0..Len(s)) /\ Len(s) \in 0..Len(s)
      BY <1>1
    <2> HIDE DEF Done
    <2> QED
      BY <1>1, <1>2, <1>3, <2>1, EachPlace
  <1> QED
    BY <1>1, <1>4

\* What is left out of a sequence makes nothing.
LEMMA FlatMapOfPicked ==
    ASSUME NEW S, NEW T, NEW f, IsMap(f, T, Seq(S)), NEW s \in Seq(T), NEW A \in SUBSET DOMAIN s,
           \A i \in DOMAIN s \ A : f[s[i]] = <<>>
    PROVE  FlatMap(Picked(s, A), f) = FlatMap(s, f)
  <1> DEFINE p(k) == Prefix(s, k)
             a(k) == Picked(s, {i \in A : i <= k})
             Done == {k \in 0..Len(s) : FlatMap(a(k), f) = FlatMap(p(k), f)}
  <1>1. /\ p(0) = <<>> /\ p(Len(s)) = s /\ Len(s) \in Nat /\ DOMAIN s = 1..Len(s)
        /\ \A k \in 0..Len(s) : p(k) \in Seq(T)
        /\ \A k \in 1..Len(s) : p(k) = Append(p(k - 1), s[k]) /\ s[k] \in T
    BY PrefixGrows, ElementOfSeq, LenProperties
  <1>2. /\ IsSequence(s)
        /\ \A k : a(k) \in Seq(T)
    <2>1. \A k : {i \in A : i <= k} \in SUBSET DOMAIN s
      OBVIOUS
    <2> QED
      BY <2>1, OwnEntries, PickedIsSeq
  <1>3. a(0) = <<>> /\ a(Len(s)) = Picked(s, A)
    <2>1. {i \in A : i <= 0} = {} /\ {i \in A : i <= Len(s)} = A
      BY <1>1
    <2> QED
      BY <2>1, PickedOfNone
  <1>4. \A k \in 1..Len(s) : a(k) = IF k \in A THEN Append(a(k - 1), s[k]) ELSE a(k - 1)
    <2> TAKE k \in 1..Len(s)
    <2> DEFINE B == {i \in A : i <= k - 1}
    <2>1. B \in SUBSET (1..(k - 1)) /\ k \in DOMAIN s
      BY <1>1
    <2>2. {i \in A : i <= k} = IF k \in A THEN B \cup {k} ELSE B
      BY <1>1
    <2> HIDE DEF B
    <2>3. Picked(s, B \cup {k}) = Append(Picked(s, B), s[k])
      BY <1>2, <2>1, PickedWithLast
    <2> QED
      BY <2>2, <2>3 DEF B
  <1> HIDE DEF p, a
  <1>5. 0 \in Done
    BY <1>1, <1>3
  <1>6. ASSUME NEW k \in 1..Len(s), k - 1 \in Done PROVE k \in Done
    <2> DEFINE u == p(k - 1)
               v == a(k - 1)
               x == s[k]
    <2>1. k - 1 \in 0..Len(s) /\ k \in 0..Len(s)
      BY <1>1
    <2>2. u \in Seq(T) /\ v \in Seq(T) /\ x \in T /\ p(k) = Append(u, x) /\ FlatMap(v, f) = FlatMap(u, f)
      BY <1>1, <1>2, <1>6, <2>1
    <2>3. a(k) = IF k \in A THEN Append(v, x) ELSE v
      BY <1>4
    <2>4. k \notin A => f[x] = <<>>
      BY <1>1
    <2> HIDE DEF u, v, x
    <2>5. /\ FlatMap(Append(u, x), f) = FlatMap(u, f) \o f[x]
          /\ FlatMap(Append(v, x), f) = FlatMap(v, f) \o f[x]
          /\ FlatMap(u, f) \o <<>> = FlatMap(u, f)
      <3>6. u \in Seq(T) /\ x \in T
        BY <2>2
      <3>7. v \in Seq(T) /\ x \in T
        BY <2>2
      <3>1. FlatMap(Append(u, x), f) = FlatMap(u, f) \o f[x]
        BY <3>6, FlatMapWithLast
      <3>2. FlatMap(Append(v, x), f) = FlatMap(v, f) \o f[x]
        BY <3>7, FlatMapWithLast
      <3>3. FlatMap(u, f) \in Seq(S)
        BY <2>2, FlatMapIsSeq
      <3>4. PICK w \in Seq(S) : w = FlatMap(u, f)
        BY <3>3
      <3>5. w \o <<>> = w
        BY ConcatEmptySeq
      <3> QED
        BY <3>1, <3>2, <3>4, <3>5
    <2>6. FlatMap(a(k), f) = FlatMap(p(k), f)
      <3>1. CASE k \in A
        BY <2>2, <2>3, <2>5, <3>1
      <3>2. CASE k \notin A
        BY <2>2, <2>3, <2>4, <2>5, <3>2
      <3> QED
        BY <3>1, <3>2
    <2> QED
      BY <2>1, <2>6
  <1>7. Len(s) \in Done
    <2>1. Done \in SUBSET (0..Len(s)) /\ Len(s) \in 0..Len(s)
      BY <1>1
    <2> HIDE DEF Done
    <2> QED
      BY <1>1, <1>5, <1>6, <2>1, EachPlace
  <1> QED
    BY <1>1, <1>3, <1>7

LEMMA MappedOfConcat ==
    ASSUME NEW S, NEW T, NEW h, IsMap(h, T, S), NEW a \in Seq(T), NEW b \in Seq(T)
    PROVE  Mapped(a \o b, h) = Mapped(a, h) \o Mapped(b, h)
  <1>1. PICK L \in Nat, M \in Nat : L = Len(a) /\ M = Len(b)
    BY LenProperties
  <1>2. PICK c \in Seq(T) : c = a \o b
    BY ConcatProperties
  <1>3. /\ Len(c) = L + M
        /\ \A i \in 1..(L + M) : c[i] = IF i <= L THEN a[i] ELSE b[i - L]
    BY <1>1, <1>2, ConcatProperties
  <1>4. DOMAIN a = 1..L /\ DOMAIN b = 1..M /\ DOMAIN c = 1..(L + M)
    BY <1>1, <1>3, LenProperties
  <1>5. PICK A \in Seq(S) : A = Mapped(a, h) /\ Len(A) = L /\ \A n \in 1..L : A[n] = h[a[n]]
    BY <1>1, <1>4, MappedIsSeq
  <1>6. PICK B \in Seq(S) : B = Mapped(b, h) /\ Len(B) = M /\ \A n \in 1..M : B[n] = h[b[n]]
    BY <1>1, <1>4, MappedIsSeq
  <1>7. PICK C \in Seq(S) : C = Mapped(c, h) /\ Len(C) = L + M /\ \A n \in 1..(L + M) : C[n] = h[c[n]]
    BY <1>3, <1>4, MappedIsSeq
  <1>8. PICK D \in Seq(S) : D = A \o B
    BY ConcatProperties
  <1>9. /\ Len(D) = L + M
        /\ \A i \in 1..(L + M) : D[i] = IF i <= L THEN A[i] ELSE B[i - L]
    <2>1. /\ Len(A \o B) = Len(A) + Len(B)
          /\ \A i \in 1..(Len(A) + Len(B)) : (A \o B)[i] = IF i <= Len(A) THEN A[i] ELSE B[i - Len(A)]
      BY ConcatProperties
    <2>2. Len(A) = L /\ Len(B) = M
      BY <1>5, <1>6
    <2> QED
      BY <1>8, <2>1, <2>2
  <1>10. ASSUME NEW i \in 1..(L + M)
         PROVE  C[i] = D[i]
    <2>1. CASE i <= L
      <3>1. i \in 1..L
        BY <1>1, <2>1
      <3>2. C[i] = h[a[i]]
        BY <1>3, <1>7, <2>1
      <3> QED
        BY <1>5, <1>9, <2>1, <3>1, <3>2
    <2>2. CASE ~(i <= L)
      <3>1. i - L \in 1..M
        BY <1>1, <2>2
      <3>2. C[i] = h[b[i - L]]
        BY <1>3, <1>7, <2>2
      <3> QED
        BY <1>6, <1>9, <2>2, <3>1, <3>2
    <2> QED
      BY <2>1, <2>2
  <1>11. C = D
    BY <1>7, <1>9, <1>10, SeqEqual
  <1> QED
    BY <1>2, <1>5, <1>6, <1>7, <1>8, <1>11

\* What is made and then mapped is what is made mapped.
LEMMA MappedFlatMap ==
    ASSUME NEW R, NEW S, NEW T, NEW h, IsMap(h, S, R), NEW g, IsMap(g, T, Seq(S)), NEW f, IsMap(f, T, Seq(R)),
           NEW s \in Seq(T), \A x \in T : f[x] = Mapped(g[x], h)
    PROVE  FlatMap(s, f) = Mapped(FlatMap(s, g), h)
  <1> DEFINE p(k) == Prefix(s, k)
             Done == {k \in 0..Len(s) : FlatMap(p(k), f) = Mapped(FlatMap(p(k), g), h)}
  <1>1. /\ p(0) = <<>> /\ p(Len(s)) = s /\ Len(s) \in Nat
        /\ \A k \in 0..Len(s) : p(k) \in Seq(T)
        /\ \A k \in 1..Len(s) : p(k) = Append(p(k - 1), s[k]) /\ s[k] \in T
    BY PrefixGrows, ElementOfSeq
  <1> HIDE DEF p
  <1>2. 0 \in Done
    <2>1. Mapped(<<>>, h) = <<>>
      BY EmptySeq DEF Mapped
    <2>2. FlatMap(<<>>, f) = <<>> /\ FlatMap(<<>>, g) = <<>>
      BY FlatMapOfNothing
    <2> QED
      BY <1>1, <2>1, <2>2
  <1>3. ASSUME NEW k \in 1..Len(s), k - 1 \in Done PROVE k \in Done
    <2> DEFINE u == p(k - 1)
               x == s[k]
    <2>1. k - 1 \in 0..Len(s) /\ k \in 0..Len(s)
      BY <1>1
    <2>2. u \in Seq(T) /\ x \in T /\ p(k) = Append(u, x) /\ FlatMap(u, f) = Mapped(FlatMap(u, g), h)
      BY <1>1, <1>3, <2>1
    <2> HIDE DEF u, x
    <2>3. FlatMap(Append(u, x), f) = FlatMap(u, f) \o f[x]
      BY <2>2, FlatMapWithLast
    <2>6. FlatMap(Append(u, x), g) = FlatMap(u, g) \o g[x]
      BY <2>2, FlatMapWithLast
    <2>7. PICK v \in Seq(S) : v = FlatMap(u, g)
      BY <2>2, FlatMapIsSeq
    <2>8. PICK y \in Seq(S) : y = g[x]
      BY <2>2, MapsTo
    <2>4. Mapped(v \o y, h) = Mapped(v, h) \o Mapped(y, h)
      BY MappedOfConcat
    <2>5. f[x] = Mapped(g[x], h)
      BY <2>2
    <2> QED
      BY <2>1, <2>2, <2>3, <2>4, <2>5, <2>6, <2>7, <2>8
  <1>4. Len(s) \in Done
    <2>1. Done \in SUBSET (0..Len(s)) /\ Len(s) \in 0..Len(s)
      BY <1>1
    <2> HIDE DEF Done
    <2> QED
      BY <1>1, <1>2, <1>3, <2>1, EachPlace
  <1> QED
    BY <1>1, <1>4

-----------------------------------------------------------------------------
(* Who is asked before a handler.                                            *)

\* What one module supplies under a token.
SuppliedBy(m, t) ==
    Supplied(app.modules[m].providers,
             IF m \in DOMAIN app.dynamic THEN app.dynamic[m].providers ELSE <<>>, t)

LEMMA SuppliedIsSeq ==
    ASSUME IsApplication(app), NEW m \in Modules, NEW t
    PROVE  IsSequence(SuppliedBy(m, t))
  <1> DEFINE b == app.modules[m].providers
             o == IF m \in DOMAIN app.dynamic THEN app.dynamic[m].providers ELSE <<>>
  <1>1. IsSequence(b)
    BY DEF IsApplication, IsMetadata
  <1>2. IsSequence(o)
    <2>1. m \in DOMAIN app.dynamic => IsSequence(app.dynamic[m].providers)
      BY DEF IsApplication, IsMetadata
    <2>2. IsSequence(<<>>)
      BY EmptySeq DEF IsSequence
    <2> QED
      BY <2>1, <2>2
  <1>3. SuppliedBy(m, t) = Supplied(b, o, t)
    BY DEF SuppliedBy
  <1> HIDE DEF b, o
  <1>4. IsSequence(Entries(b, t)) /\ IsSequence(Entries(o, t))
    BY <1>1, <1>2, EntriesAreSeq
  <1>5. IsSequence(Entries(b, t) \o Entries(o, t))
    BY <1>4, ConcatOfAny
  <1> QED
    BY <1>3, <1>4, <1>5 DEF Supplied

\* A function whose values are sequences, from any set.
LEMMA MapsToSequences ==
    ASSUME NEW T, NEW f, f = [x \in T |-> f[x]], \A x \in T : IsSequence(f[x])
    PROVE  \E S : IsMap(f, T, Seq(S))
  <1> DEFINE S == UNION {ToSet(f[x]) : x \in T}
  <1>1. ASSUME NEW x \in T PROVE f[x] \in Seq(S)
    <2>1. IsSequence(f[x]) /\ ToSet(f[x]) \subseteq S
      OBVIOUS
    <2> HIDE DEF S
    <2> QED
      BY <2>1, OwnEntries
  <1>2. IsMap(f, T, Seq(S))
    <2> HIDE DEF S
    <2> QED
      BY <1>1 DEF IsMap
  <1> QED
    BY <1>2

\* What the references to a slot yield is what the modules supply for it, in their order.
LEMMA ReferencesYield ==
    ASSUME WalkInv, OnlyValid, NEW t \in Tokens, NEW f,
           \A n \in DOMAIN GlobalProviders(t) :
               \A m \in Reached : GlobalProviders(t)[n] = Global(t, m) =>
                   f[GlobalProviders(t)[n]] = HandedOver(compiled[m].binds, t)
    PROVE  FlatMap(GlobalProviders(t), f)
               = [n \in DOMAIN SuppliedEverywhere(t) |-> Bound(SuppliedEverywhere(t)[n])]
  <1> DEFINE A == {n \in DOMAIN ordered : t \in Local(ordered[n])}
             b == Picked(ordered, A)
             G == GlobalProviders(t)
             q == [m \in Reached |-> HandedOver(compiled[m].binds, t)]
             g == [m \in Reached |-> SuppliedBy(m, t)]
             E == SuppliedEverywhere(t)
  <1>1. /\ ordered \in Seq(Modules) /\ IsApplication(app) /\ Reached = ToSet(ordered)
        /\ DOMAIN compiled = Reached /\ Reached \subseteq Modules /\ BoundAsDeclared
    BY OwnEntries, BindsWhatIsDeclared DEF WalkInv, WalkTypes, Reached
  <1>2. ordered \in Seq(Reached) /\ A \in SUBSET DOMAIN ordered
    BY <1>1, OwnEntries DEF IsSequence
  <1>3. b \in Seq(Reached)
    BY <1>2, PickedIsSeq
  <1>4. DOMAIN G = DOMAIN b /\ \A n \in DOMAIN b : G[n] = Global(t, b[n]) /\ b[n] \in Reached
    BY <1>3, ElementOfSeq, LenProperties DEF GlobalProviders
  <1>5. FlatMap(G, f) = FlatMap(b, q)
    <2> HIDE DEF b, G
    <2>1. \A n \in DOMAIN b : f[G[n]] = q[b[n]]
      BY <1>4 DEF G
    <2> HIDE DEF q
    <2>2. Mapped(G, f) = Mapped(b, q)
      BY <1>4, <2>1 DEF Mapped
    <2> QED
      BY <2>2 DEF FlatMap
  <1>6. \A m \in Reached : q[m] = [n \in DOMAIN g[m] |-> Bound(g[m][n])] /\ IsSequence(g[m])
    <2> SUFFICES ASSUME NEW m \in Reached
                 PROVE  q[m] = [n \in DOMAIN g[m] |-> Bound(g[m][n])] /\ IsSequence(g[m])
      OBVIOUS
    <2>1. IsSequence(SuppliedBy(m, t))
      BY <1>1, SuppliedIsSeq
    <2>2. HandedOver(compiled[m].binds, t)
              = [n \in DOMAIN SuppliedBy(m, t) |-> Bound(SuppliedBy(m, t)[n])]
      BY <1>1 DEF BoundAsDeclared, SuppliedBy
    <2>3. q[m] = HandedOver(compiled[m].binds, t) /\ g[m] = SuppliedBy(m, t)
      OBVIOUS
    <2> HIDE DEF q, g
    <2> QED
      BY <2>1, <2>2, <2>3
  <1>7. q = [m \in Reached |-> q[m]] /\ g = [m \in Reached |-> g[m]]
    OBVIOUS
  <1>8. \A i \in DOMAIN ordered \ A : q[ordered[i]] = <<>>
    <2>1. \A i \in DOMAIN ordered : ordered[i] \in Reached
      BY <1>1 DEF ToSet
    <2> QED
      BY <2>1 DEF HandedOver, Local
  <1>9. E = FlatMap(ordered, g)
    <2>1. \A n \in DOMAIN ordered : g[ordered[n]] = SuppliedBy(ordered[n], t)
      BY <1>1 DEF ToSet
    <2>2. Mapped(ordered, g) = [n \in DOMAIN ordered |-> SuppliedBy(ordered[n], t)]
      BY <2>1 DEF Mapped
    <2>3. E = FlattenSeq([n \in DOMAIN ordered |-> SuppliedBy(ordered[n], t)])
      BY DEF SuppliedEverywhere, SuppliedBy
    <2> QED
      BY <2>2, <2>3 DEF FlatMap
  <1> HIDE DEF A, b, G, q, g, E
  <1>10. PICK S : IsMap(g, Reached, Seq(S))
    BY <1>6, <1>7, MapsToSequences
  <1> DEFINE h == [e \in S |-> Bound(e)]
             R == {Bound(e) : e \in S}
  <1>11. IsMap(h, S, R)
    BY DEF IsMap
  <1>12. ASSUME NEW m \in Reached PROVE q[m] = Mapped(g[m], h)
    <2>1. g[m] \in Seq(S)
      BY <1>10, MapsTo
    <2>2. \A n \in DOMAIN g[m] : g[m][n] \in S
      BY <2>1, ElementOfSeq, LenProperties
    <2>3. \A n \in DOMAIN g[m] : h[g[m][n]] = Bound(g[m][n])
      BY <2>2
    <2> HIDE DEF h
    <2> QED
      BY <1>6, <2>3 DEF Mapped
  <1> HIDE DEF h, R
  <1>13. ASSUME NEW m \in Reached PROVE q[m] \in Seq(R)
    <2>1. g[m] \in Seq(S)
      BY <1>10, MapsTo
    <2>2. PICK y \in Seq(S) : y = g[m]
      BY <2>1
    <2>3. Mapped(y, h) \in Seq(R)
      BY <1>11, MappedIsSeq
    <2> QED
      BY <1>12, <2>2, <2>3
  <1>14. IsMap(q, Reached, Seq(R))
    BY <1>7, <1>13 DEF IsMap
  <1>15. FlatMap(b, q) = FlatMap(ordered, q)
    BY <1>2, <1>8, <1>14, FlatMapOfPicked DEF b
  <1>16. FlatMap(ordered, q) = Mapped(FlatMap(ordered, g), h)
    BY <1>2, <1>10, <1>11, <1>12, <1>14, MappedFlatMap
  <1>17. E \in Seq(S)
    BY <1>2, <1>9, <1>10, FlatMapIsSeq
  <1>18. Mapped(E, h) = [n \in DOMAIN E |-> Bound(E[n])]
    <2>1. \A n \in DOMAIN E : E[n] \in S
      BY <1>17, ElementOfSeq, LenProperties
    <2>2. \A n \in DOMAIN E : h[E[n]] = Bound(E[n])
      BY <2>1 DEF h
    <2> QED
      BY <2>2 DEF Mapped
  <1> QED
    BY <1>5, <1>9, <1>15, <1>16, <1>18 DEF E, G

\* Sequences of anything, in any grouping.
Four(p, x, y, z) == IsSequence(p) /\ IsSequence(x) /\ IsSequence(y) /\ IsSequence(z)

LEMMA Regrouped ==
    ASSUME NEW p, NEW x, NEW y, NEW z, Four(p, x, y, z)
    PROVE  p \o ((x \o y) \o z) = ((p \o x) \o y) \o z
  <1> DEFINE S == ToSet(p) \cup ToSet(x) \cup ToSet(y) \cup ToSet(z)
  <1>1. p \in Seq(S) /\ x \in Seq(S) /\ y \in Seq(S) /\ z \in Seq(S)
    BY OwnEntries DEF Four
  <1> HIDE DEF S
  <1>2. PICK xy : xy = x \o y /\ xy \in Seq(S)
    BY <1>1, ConcatIsSeq
  <1>3. PICK px : px = p \o x /\ px \in Seq(S)
    BY <1>1, ConcatIsSeq
  <1>4. (p \o xy) \o z = p \o (xy \o z)
    <2>1. Three(p, xy, z, S)
      BY <1>1, <1>2 DEF Three
    <2> QED
      BY ONLY <2>1, ThreeInARow
  <1>5. (p \o x) \o y = p \o (x \o y)
    <2>1. Three(p, x, y, S)
      BY <1>1 DEF Three
    <2> QED
      BY ONLY <2>1, ThreeInARow
  <1> QED
    BY <1>2, <1>4, <1>5

\* merge_policy_metadata leaves nothing to guard only where neither level declares anything.
LEMMA SilentHaveNoPolicy ==
    ASSUME NEW c, NEW h, c.policy \in Policies, h.policy \in Policies
    PROVE  LET silent == [auth |-> FALSE, roles |-> {}, public |-> FALSE, other |-> FALSE]
           IN  HasPolicy(Merged(c, h)) <=> ~(c.policy = silent /\ h.policy = silent)
  <1> DEFINE silent == [auth |-> FALSE, roles |-> {}, public |-> FALSE, other |-> FALSE]
             p == c.policy
             q == h.policy
  <1>1. \A o \in Policies : o = silent <=> ~o.auth /\ o.roles = {} /\ ~o.public /\ ~o.other
    BY DEF Policies
  <1>2. /\ Merged(c, h).auth = (p.auth \/ q.auth) /\ Merged(c, h).roles = p.roles \cup q.roles
        /\ Merged(c, h).public = IsPublic(c, h) /\ Merged(c, h).other = (p.other \/ q.other)
    BY DEF Merged
  <1>3. /\ p.auth \in BOOLEAN /\ p.public \in BOOLEAN /\ p.other \in BOOLEAN
        /\ q.auth \in BOOLEAN /\ q.public \in BOOLEAN /\ q.other \in BOOLEAN
    BY DEF Policies
  <1>4. p.roles \cup q.roles = {} <=> p.roles = {} /\ q.roles = {}
    OBVIOUS
  <1> SUFFICES HasPolicy(Merged(c, h)) <=> ~(p = silent /\ q = silent)
    OBVIOUS
  <1>5. HasPolicy(Merged(c, h)) <=>
            p.auth \/ q.auth \/ p.roles # {} \/ q.roles # {} \/ IsPublic(c, h) \/ p.other \/ q.other
    BY <1>2, <1>3, <1>4 DEF HasPolicy, RequiresAccess
  <1>6. IsPublic(c, h) <=> IF q.auth \/ q.roles # {} THEN q.public ELSE q.public \/ p.public
    BY <1>3 DEF IsPublic, RequiresAccess
  <1> HIDE DEF silent
  <1>7. /\ p = silent <=> ~p.auth /\ p.roles = {} /\ ~p.public /\ ~p.other
        /\ q = silent <=> ~q.auth /\ q.roles = {} /\ ~q.public /\ ~q.other
    BY <1>1
  <1> HIDE DEF p, q
  <1> QED
    BY <1>5, <1>6, <1>7

\* A contract's guards, once its references are resolved, are those that were declared.
LEMMA GuardsAreDeclared ==
    ASSUME WalkInv, OnlyValid, NEW m, NEW c, NEW h, IsDeclared(c), IsDeclared(h)
    PROVE  GuardsRun(Contract(m, c, h)) = GuardsDeclared(c, h)
  <1> DEFINE refs == {Global(GuardToken, k) : k \in Reached}
             resolve(x) == IF x \in refs THEN HandedOver(compiled[x.module].binds, GuardToken) ELSE <<x>>
             P == IF HasPolicy(Merged(c, h)) THEN <<PolicyGuard>> ELSE <<>>
             G == GlobalProviders(GuardToken)
             C == c.guards
             H == h.guards
             E == SuppliedEverywhere(GuardToken)
             X == [n \in DOMAIN E |-> Bound(E[n])]
             all == (G \o C) \o H
             gs == Contract(m, c, h).guards
             T == ToSet(P) \cup ToSet(all) \cup ToSet(gs)
             f == [x \in T |-> resolve(x)]
  <1>1. /\ GuardToken \in Tokens /\ Reached \subseteq Modules /\ ordered \in Seq(Reached)
        /\ DOMAIN compiled = Reached /\ BoundAsDeclared /\ IsApplication(app)
    <2>1. ordered \in Seq(Modules) /\ Reached = ToSet(ordered) /\ DOMAIN compiled = Reached /\ IsApplication(app)
      BY DEF WalkInv, WalkTypes, Reached
    <2>2. ordered \in Seq(Reached) /\ Reached \subseteq Modules
      BY <2>1, OwnEntries DEF IsSequence
    <2> QED
      BY <2>1, <2>2, BindsWhatIsDeclared, ContractsAssumption, CompilerAssumption
  <1>2. IsSequence(P) /\ IsSequence(G) /\ IsSequence(C) /\ IsSequence(H)
    <2>1. IsSequence(P)
      <3>1. <<PolicyGuard>> \in Seq(ToSet(<<PolicyGuard>>)) /\ <<>> \in Seq(ToSet(<<>>))
        BY DEF ToSet
      <3> QED
        BY <3>1 DEF IsSequence
    <2>2. IsSequence(G)
      <3> DEFINE b == Picked(ordered, {n \in DOMAIN ordered : GuardToken \in Local(ordered[n])})
      <3>1. {n \in DOMAIN ordered : GuardToken \in Local(ordered[n])} \in SUBSET DOMAIN ordered
        OBVIOUS
      <3>2. b \in Seq(Reached)
        BY <1>1, <3>1, PickedIsSeq
      <3>3. G = [n \in DOMAIN b |-> Global(GuardToken, b[n])]
        BY DEF GlobalProviders
      <3> HIDE DEF b, G
      <3>4. DOMAIN b = 1..Len(b) /\ Len(b) \in Nat
        BY <3>2, LenProperties
      <3>5. G = [n \in 1..Len(b) |-> G[n]]
        BY <3>3, <3>4
      <3> QED
        BY <3>4, <3>5, IntervalIsSeq
    <2> QED
      BY <2>1, <2>2 DEF IsDeclared
  <1>3. gs = IF HasPolicy(Merged(c, h)) THEN P \o all ELSE all
    BY DEF Contract, MergedGuards
  <1>4. /\ \A n \in DOMAIN G : G[n] \in refs
        /\ \A x \in ToSet(C) \cup ToSet(H) \cup ToSet(P) : x \notin refs
    <2>1. \A n \in DOMAIN G : G[n] \in refs
      <3> DEFINE b == Picked(ordered, {n \in DOMAIN ordered : GuardToken \in Local(ordered[n])})
      <3>1. {n \in DOMAIN ordered : GuardToken \in Local(ordered[n])} \in SUBSET DOMAIN ordered
        OBVIOUS
      <3>2. b \in Seq(Reached)
        BY <1>1, <3>1, PickedIsSeq
      <3>3. G = [n \in DOMAIN b |-> Global(GuardToken, b[n])]
        BY DEF GlobalProviders
      <3>4. \A n \in DOMAIN b : b[n] \in Reached
        <4> HIDE DEF b
        <4> QED
          BY <3>2, ElementOfSeq, LenProperties
      <3> HIDE DEF b, G
      <3> QED
        BY <3>3, <3>4
    <2>2. \A x \in ToSet(C) \cup ToSet(H) : x \notin refs
      BY <1>1 DEF IsDeclared
    <2>3. PolicyGuard \notin refs
      <3>1. \A k : DOMAIN Global(GuardToken, k) = {"token", "module"}
        BY DEF Global
      <3>2. DOMAIN PolicyGuard = {"guard"}
        BY DEF PolicyGuard
      <3>3. "guard" \notin {"token", "module"}
        OBVIOUS
      <3> QED
        BY <3>1, <3>2, <3>3
    <2>4. ToSet(P) \subseteq {PolicyGuard}
      BY DEF ToSet
    <2> HIDE DEF refs, P, C, H, G
    <2> QED
      BY <2>1, <2>2, <2>3, <2>4
  <1>5. ASSUME NEW k \in Reached PROVE resolve(Global(GuardToken, k)) = HandedOver(compiled[k].binds, GuardToken)
    <2>1. Global(GuardToken, k).module = k
      BY DEF Global
    <2> QED
      BY <2>1
  <1>6. GuardsRun(Contract(m, c, h)) = FlattenSeq([n \in DOMAIN gs |-> resolve(gs[n])])
    BY DEF GuardsRun
  <1>7. \A x \in T : IsSequence(resolve(x))
    <2>1. \A x : IsSequence(<<x>>)
      <3> SUFFICES ASSUME NEW x PROVE <<x>> \in Seq(ToSet(<<x>>))
        BY DEF IsSequence
      <3> QED
        BY DEF ToSet
    <2>2. \A k \in Reached : IsSequence(HandedOver(compiled[k].binds, GuardToken))
      <3> SUFFICES ASSUME NEW k \in Reached PROVE IsSequence(HandedOver(compiled[k].binds, GuardToken))
        OBVIOUS
      <3> DEFINE s == SuppliedBy(k, GuardToken)
                 u == HandedOver(compiled[k].binds, GuardToken)
      <3>1. IsSequence(s)
        BY <1>1, SuppliedIsSeq
      <3>2. u = [n \in DOMAIN s |-> Bound(s[n])]
        BY <1>1 DEF BoundAsDeclared, SuppliedBy
      <3> HIDE DEF s, u
      <3>3. DOMAIN s = 1..Len(s) /\ Len(s) \in Nat
        BY <3>1 DEF IsSequence
      <3>4. u = [n \in 1..Len(s) |-> u[n]]
        BY <3>2, <3>3
      <3>5. IsSequence(u)
        BY <3>3, <3>4, IntervalIsSeq
      <3> QED
        BY <3>5 DEF u
    <2> SUFFICES ASSUME NEW x \in T PROVE IsSequence(resolve(x))
      OBVIOUS
    <2>3. CASE x \in refs
      BY <1>5, <2>2, <2>3
    <2>4. CASE x \notin refs
      BY <2>1, <2>4
    <2> QED
      BY <2>3, <2>4
  <1>8. /\ f = [x \in T |-> f[x]] /\ \A x \in T : f[x] = resolve(x)
    OBVIOUS
  <1> HIDE DEF refs, P, G, C, H, E, X, gs
  <1>9. /\ IsSequence(G \o C) /\ IsSequence(all) /\ ToSet(all) = ToSet(G) \cup ToSet(C) \cup ToSet(H)
        /\ ToSet(G \o C) \subseteq ToSet(all)
    BY <1>2, ConcatOfAny
  <1> DEFINE a == all
  <1>10. ToSet(P) \subseteq T /\ ToSet(a) \subseteq T /\ ToSet(gs) \subseteq T
    OBVIOUS
  <1> HIDE DEF T, f
  <1>11. \A x \in T : IsSequence(f[x])
    BY <1>7, <1>8
  <1>12. PICK S : IsMap(f, T, Seq(S))
    BY <1>8, <1>11, MapsToSequences
  <1> HIDE DEF resolve
  <1>13. /\ P \in Seq(T) /\ G \in Seq(T) /\ C \in Seq(T) /\ H \in Seq(T) /\ G \o C \in Seq(T) /\ a \in Seq(T)
    BY <1>2, <1>9, <1>10, OwnEntries
  <1> HIDE DEF a
  <1>14. FlatMap(G, f) = X
    <2>1. ASSUME NEW n \in DOMAIN G, NEW k \in Reached, G[n] = Global(GuardToken, k)
          PROVE  f[G[n]] = HandedOver(compiled[k].binds, GuardToken)
      <3>1. G[n] \in T
        BY <1>13, ElementOfSeq, LenProperties
      <3> QED
        BY <1>5, <1>8, <2>1, <3>1
    <2> QED
      BY <1>1, <2>1, ReferencesYield DEF G, X, E
  <1>15. ASSUME NEW s, s \in Seq(T), \A x \in ToSet(s) : x \notin refs
         PROVE  FlatMap(s, f) = s
    <2>1. \A x \in ToSet(s) : x \in T
      BY <1>15, OwnEntries
    <2>2. \A x \in ToSet(s) : f[x] = <<x>>
      BY <1>8, <1>15, <2>1 DEF resolve
    <2> QED
      BY <1>12, <1>15, <2>2, FlatMapOfOnes
  <1>16. FlatMap(P, f) = P /\ FlatMap(C, f) = C /\ FlatMap(H, f) = H
    BY <1>4, <1>13, <1>15
  <1>17. FlatMap(a, f) = (X \o C) \o H
    <2>1. FlatMap(G \o C, f) = FlatMap(G, f) \o FlatMap(C, f)
      <3>1. G \in Seq(T) /\ C \in Seq(T)
        BY <1>13
      <3> QED
        BY ONLY <1>12, <3>1, FlatMapOfConcat
    <2>2. PICK gc \in Seq(T) : gc = G \o C
      BY <1>13
    <2>3. FlatMap(gc \o H, f) = FlatMap(gc, f) \o FlatMap(H, f)
      <3>1. gc \in Seq(T) /\ H \in Seq(T)
        BY <1>13, <2>2
      <3> QED
        BY ONLY <1>12, <3>1, FlatMapOfConcat
    <2> QED
      BY <1>14, <1>16, <2>1, <2>2, <2>3 DEF a
  <1>18. FlatMap(P \o a, f) = P \o ((X \o C) \o H)
    <2>1. FlatMap(P \o a, f) = FlatMap(P, f) \o FlatMap(a, f)
      <3>1. P \in Seq(T) /\ a \in Seq(T)
        BY <1>13
      <3> QED
        BY ONLY <1>12, <3>1, FlatMapOfConcat
    <2> QED
      BY <1>16, <1>17, <2>1
  <1>19. IsSequence(X)
    <2>1. FlatMap(G, f) \in Seq(S)
      BY <1>12, <1>13, FlatMapIsSeq
    <2> QED
      BY <1>14, <2>1, OwnEntries
  <1>20. P \o ((X \o C) \o H) = ((P \o X) \o C) \o H
    <2>1. Four(P, X, C, H)
      BY <1>2, <1>19 DEF Four
    <2> QED
      BY ONLY <2>1, Regrouped
  <1>21. GuardsRun(Contract(m, c, h)) = FlatMap(gs, f)
    <2>1. \A n \in DOMAIN gs : gs[n] \in T
      BY <1>10 DEF ToSet
    <2>2. \A n \in DOMAIN gs : f[gs[n]] = resolve(gs[n])
      BY <1>8, <2>1
    <2>3. Mapped(gs, f) = [n \in DOMAIN gs |-> resolve(gs[n])]
      BY <2>2 DEF Mapped
    <2> QED
      BY <1>6, <2>3 DEF FlatMap
  <1>22. GuardsDeclared(c, h)
             = ((IF HasPolicy(Merged(c, h)) THEN <<PolicyGuard>> ELSE <<>>) \o X \o C) \o H
    BY SilentHaveNoPolicy DEF GuardsDeclared, X, E, C, H, IsDeclared
  <1>23. CASE HasPolicy(Merged(c, h))
    BY <1>3, <1>18, <1>20, <1>21, <1>22, <1>23 DEF P, a
  <1>24. CASE ~HasPolicy(Merged(c, h))
    <2>1. GuardsRun(Contract(m, c, h)) = (X \o C) \o H
      BY <1>3, <1>17, <1>21, <1>24 DEF a
    <2>2. P = <<>>
      BY <1>24 DEF P
    <2>3. <<>> \o X = X
      <3>1. X \in Seq(ToSet(X))
        BY <1>19 DEF IsSequence
      <3> QED
        BY <3>1, ConcatEmptySeq
    <2> QED
      BY <1>22, <1>24, <2>1, <2>3
  <1> QED
    BY <1>23, <1>24

\* What is served is what was made of the handlers, none of which was refused.
MadeOfHandlers ==
    stage \in {"routing", "registering", "serving"} =>
        /\ contracts = [n \in DOMAIN ScannedHandlers |->
               Contract(ScannedHandlers[n].module, ScannedHandlers[n].controller, ScannedHandlers[n].handler)]
        /\ \A s \in ToSet(ScannedHandlers) : ~Unservable(s.module, s.controller, s.handler)

LEMMA SameContracts ==
    ASSUME UNCHANGED <<ordered, compiled, visible>>
    PROVE  /\ ScannedHandlers' = ScannedHandlers
           /\ \A m, c, h : Contract(m, c, h)' = Contract(m, c, h) /\ (Unservable(m, c, h)' <=> Unservable(m, c, h))
  <1>1. ScannedHandlers' = ScannedHandlers
    BY DEF ScannedHandlers
  <1>2. \A t : GlobalProviders(t)' = GlobalProviders(t)
    BY DEF GlobalProviders, Local
  <1>3. \A c, h : MergedGuards(c, h)' = MergedGuards(c, h)
    BY <1>2 DEF MergedGuards
  <1>4. \A m, c, h : Contract(m, c, h)' = Contract(m, c, h)
    BY <1>3 DEF Contract
  <1>5. \A p : DeclaredComponents(p)' = DeclaredComponents(p)
    BY DEF DeclaredComponents
  <1>6. \A c, h : MutatesRaw(c, h)' <=> MutatesRaw(c, h)
    BY <1>2, <1>5 DEF MutatesRaw
  <1>7. \A m : VisibleRegistry(m)' = VisibleRegistry(m)
    BY DEF VisibleRegistry, Located
  <1>8. \A m, o : Unauthenticated(m, o)' <=> Unauthenticated(m, o)
    BY <1>7 DEF Unauthenticated
  <1>9. \A m, c, h : Unservable(m, c, h)' <=> Unservable(m, c, h)
    BY <1>6, <1>8 DEF Unservable
  <1> QED
    BY <1>1, <1>4, <1>9

LEMMA MadeRests ==
    ASSUME MadeOfHandlers, UNCHANGED <<ordered, compiled, visible, contracts>>,
           stage' \in {"routing", "registering", "serving"} => stage \in {"routing", "registering", "serving"}
    PROVE  MadeOfHandlers'
  <1>1. /\ ScannedHandlers' = ScannedHandlers
        /\ \A m, c, h : Contract(m, c, h)' = Contract(m, c, h)
        /\ \A m, c, h : Unservable(m, c, h)' <=> Unservable(m, c, h)
    BY SameContracts
  <1>2. contracts' = contracts
    OBVIOUS
  <1> QED
    BY <1>1, <1>2 DEF MadeOfHandlers

LEMMA MadeGoesOn ==
    ASSUME MadeOfHandlers, [Next]_bootstrapVars
    PROVE  MadeOfHandlers'
  <1>1. CASE AssemblyNext
    <2>1. stage' \notin {"routing", "registering", "serving"}
      BY <1>1, AssemblyGoesOn
    <2> QED
      BY <2>1 DEF MadeOfHandlers
  <1>2. CASE CompileContracts
    <2>1. UNCHANGED <<ordered, compiled, visible>>
      BY <1>2, TableIsBuilt DEF graphVars, tableVars
    <2>2. CASE stage' = "refused"
      BY <2>2 DEF MadeOfHandlers
    <2>3. CASE stage' # "refused"
      <3>1. /\ contracts' = [n \in DOMAIN ScannedHandlers |->
                  Contract(ScannedHandlers[n].module, ScannedHandlers[n].controller, ScannedHandlers[n].handler)]
            /\ \A s \in ToSet(ScannedHandlers) : ~Unservable(s.module, s.controller, s.handler)
        BY <1>2, <2>3 DEF CompileContracts, RefusePlan, GoesOn
      <3>2. /\ ScannedHandlers' = ScannedHandlers
            /\ \A m, c, h : Contract(m, c, h)' = Contract(m, c, h)
            /\ \A m, c, h : Unservable(m, c, h)' <=> Unservable(m, c, h)
        BY <2>1, SameContracts
      <3> QED
        BY <3>1, <3>2 DEF MadeOfHandlers
    <2> QED
      BY <2>2, <2>3
  <1>3. CASE PlanByPath \/ PlanByHeader
    <2>1. UNCHANGED <<ordered, compiled, visible>>
      BY <1>3, TableIsBuilt DEF graphVars, tableVars
    <2>2. contracts' = contracts /\ stage = "routing"
      BY <1>3 DEF PlanByPath, PlanByHeader, RefusePlan, planVars
    <2> QED
      BY <2>1, <2>2, MadeRests
  <1>4. CASE CheckCapabilities \/ RegisterNext
    <2>1. UNCHANGED <<ordered, compiled, visible>>
      BY <1>4, TableIsBuilt DEF graphVars, tableVars
    <2>2. contracts' = contracts /\ stage \in {"routing", "registering"}
      BY <1>4 DEF CheckCapabilities, RegisterNext, RefusePlan, planVars
    <2> QED
      BY <2>1, <2>2, MadeRests
  <1>5. CASE UNCHANGED bootstrapVars
    BY <1>5, MadeRests DEF bootstrapVars, assemblyVars, graphVars, tableVars, planVars
  <1> QED
    BY <1>1, <1>2, <1>3, <1>4, <1>5 DEF Next

\* A handler that is found belongs to a controller of a module that was reached.
LEMMA ScannedAreDeclared ==
    ASSUME WalkInv, OfAFamily, NEW n \in DOMAIN ScannedHandlers
    PROVE  LET s == ScannedHandlers[n] IN
           /\ s \in ToSet(ScannedHandlers) /\ s.module \in Reached /\ s.module \in Modules
           /\ IsDeclared(s.controller) /\ IsDeclared(s.handler) /\ IsHandler(s.handler)
  <1> DEFINE s == ScannedHandlers[n]
  <1>1. s \in ScannedSet
    BY ScannedIsSeq, ElementOfSeq, LenProperties
  <1>2. PICK m \in Reached : s \in HandlersOf(m)
    BY <1>1 DEF ScannedSet
  <1>3. m \in Modules
    BY <1>2, OwnEntries DEF Reached, WalkInv, WalkTypes
  <1>4. PICK c \in ToSet(Expanded(m).controllers) :
            s \in {[module |-> m, controller |-> c, handler |-> h] : h \in ToSet(c.handlers)}
    BY <1>2 DEF HandlersOf
  <1>5. PICK h \in ToSet(c.handlers) : s = [module |-> m, controller |-> c, handler |-> h]
    BY <1>4
  <1>6. IsDeclared(c) /\ IsDeclared(h) /\ IsHandler(h)
    BY <1>3, <1>5, ExpandedIsServable DEF IsServable
  <1>7. s.module = m /\ s.controller = c /\ s.handler = h
    BY <1>5
  <1>8. s \in ToSet(ScannedHandlers)
    BY DEF ToSet
  <1> HIDE DEF s
  <1>9. /\ s \in ToSet(ScannedHandlers) /\ s.module \in Reached /\ s.module \in Modules
        /\ IsDeclared(s.controller) /\ IsDeclared(s.handler) /\ IsHandler(s.handler)
    BY <1>3, <1>6, <1>7, <1>8
  <1> QED
    BY <1>9 DEF s

\* PolicyGuard admits whom the declarations let through: where a handler asks for something
\* its controller does not waive it.
LEMMA AdmitsWhomDeclared ==
    ASSUME NEW c, NEW h, c.policy \in Policies, h.policy \in Policies, NEW caller \in Callers,
           ~Contradicts(c.policy), ~Contradicts(h.policy)
    PROVE  Admits(Merged(c, h), caller) = LetsThrough(c, h, caller)
  <1> DEFINE p == c.policy
             q == h.policy
             auth == p.auth \/ q.auth
             roles == p.roles \cup q.roles
             principal == IF auth THEN caller.known ELSE caller.attached
  <1>1. /\ Merged(c, h).auth = auth /\ Merged(c, h).roles = roles
        /\ Merged(c, h).public = IsPublic(c, h)
    BY DEF Merged
  <1>2. /\ p.auth \in BOOLEAN /\ p.public \in BOOLEAN
        /\ q.auth \in BOOLEAN /\ q.public \in BOOLEAN
        /\ caller.known \in BOOLEAN /\ caller.attached \in BOOLEAN
    BY DEF Policies, Callers
  <1>3. /\ p.public => ~p.auth /\ p.roles = {}
        /\ q.public => ~q.auth /\ q.roles = {}
    BY DEF Contradicts, RequiresAccess
  <1>4. IsPublic(c, h) <=> q.public \/ (p.public /\ ~(q.auth \/ q.roles # {}))
    BY <1>2 DEF IsPublic, RequiresAccess
  <1>5. Admits(Merged(c, h), caller) <=>
            \/ IsPublic(c, h)
            \/ (auth => principal) /\ (roles # {} => principal /\ roles \subseteq caller.roles)
    BY <1>1 DEF Admits
  <1>6. LetsThrough(c, h, caller) <=>
            \/ q.public
            \/ p.public /\ ~(q.auth \/ q.roles # {})
            \/ (auth => caller.known) /\ (roles # {} => (auth \/ caller.attached) /\ roles \subseteq caller.roles)
    BY DEF LetsThrough, RequiresAccess
  <1>7. principal = IF auth THEN caller.known ELSE caller.attached
    OBVIOUS
  <1> HIDE DEF principal
  <1>8. Admits(Merged(c, h), caller) <=> LetsThrough(c, h, caller)
    BY <1>2, <1>4, <1>5, <1>6, <1>7
  <1>9. Admits(Merged(c, h), caller) \in BOOLEAN /\ LetsThrough(c, h, caller) \in BOOLEAN
    BY DEF Admits, LetsThrough
  <1> QED
    BY <1>8, <1>9

\* A token that names no slot is declared once by a valid module, and bound to what it is.
LEMMA BoundOnce ==
    ASSUME NEW m \in Modules, IsApplication(app), ~Invalid(Expanded(m)), NEW t \in Tokens \ MultiTokens,
           NEW e \in ToSet(Entries(Expanded(m).providers, t))
    PROVE  Bindings(Expanded(m).providers)[t] = Bound(e)
  <1> DEFINE ps == Expanded(m).providers
             A == {i \in DOMAIN ps : ps[i].token = t}
             E == Entries(ps, t)
             declared == {d.token : d \in ToSet(ps)}
             folded == {x \in declared : Len(Entries(ps, x)) > 1}
             parts == UNION {{EntryToken(x, n) : n \in DOMAIN Entries(ps, x)} : x \in folded}
  <1>1. IsSequence(ps)
    BY ExpandedIsMetadata DEF IsMetadata
  <1>2. \A i, j \in DOMAIN ps : i < j => ~Collide(ps[i], ps[j])
    BY DEF Invalid
  <1>3. Bindings(ps) = [x \in declared \cup parts |->
                   IF x \in folded THEN Joined(x, Len(Entries(ps, x)))
                   ELSE IF x \in declared THEN Bound(Entries(ps, x)[1])
                   ELSE Bound(Entries(ps, x[1])[x[2]])]
    BY DEF Bindings
  <1>4. E = Picked(ps, A)
    BY DEF Entries
  <1>5. e \in ToSet(E)
    OBVIOUS
  <1> HIDE DEF ps, parts
  <1>6. ASSUME NEW i \in A, NEW j \in A PROVE i = j
    <2>1. i \in Nat /\ j \in Nat
      <3>1. DOMAIN ps \subseteq Nat
        BY <1>1 DEF IsSequence
      <3> QED
        BY <3>1
    <2>2. Collide(ps[i], ps[j]) /\ Collide(ps[j], ps[i])
      BY DEF Collide
    <2> QED
      BY <1>2, <2>1, <2>2
  <1>7. /\ IsSequence(E) /\ ToSet(E) = {d \in ToSet(ps) : d.token = t}
        /\ ToSet(E) = {ps[i] : i \in A}
    <2>1. ps \in Seq(ToSet(ps)) /\ A \in SUBSET DOMAIN ps
      BY <1>1 DEF IsSequence
    <2> HIDE DEF A, E
    <2>2. ToSet(Picked(ps, A)) = {ps[i] : i \in A}
      BY <2>1, PickedIsAll
    <2> QED
      BY <1>1, <1>4, <2>2, EntriesAreSeq DEF E
  <1>8. t \in declared
    BY <1>5, <1>7
  <1>9. PICK i \in A : e = ps[i]
    BY <1>5, <1>7
  <1>10. A = {i}
    BY <1>6
  <1> HIDE DEF A, E, declared
  <1>11. E = <<e>>
    <2>1. i \in DOMAIN ps
      BY <1>9 DEF A
    <2> QED
      BY <1>1, <1>4, <1>9, <1>10, <2>1, PickedOfOne
  <1>12. Len(Entries(ps, t)) = 1 /\ Entries(ps, t)[1] = e
    BY <1>11 DEF E
  <1>13. t \notin folded
    <2>1. ~(Len(Entries(ps, t)) > 1)
      BY <1>12
    <2> QED
      BY <2>1
  <1> HIDE DEF folded
  <1> QED
    BY <1>3, <1>8, <1>12, <1>13 DEF ps

\* The registry that a route's module sees is one the policy guard can ask without waiting.
LEMMA RegistryAnswers ==
    ASSUME WalkInv, TableInv, OnlyValid, stage = "serving", NEW m \in Reached, NEW o,
           o.auth, ~o.public, ~Unauthenticated(m, o)
    PROVE  \E k \in Answerers(m, RegistryToken) :
               ~\E e \in ToSet(Entries(Expanded(k).providers, RegistryToken)) :
                     e.form = "factory" /\ e.trait = "awaits"
  <1> DEFINE t == RegistryToken
             k == visible[m][t]
  <1>1. t \in Tokens \ MultiTokens
    BY ContractsAssumption
  <1>2. Located(t, m) /\ VisibleRegistry(m) = {k}
    BY DEF Unauthenticated, VisibleRegistry
  <1>3. Answerers(m, t) = {k} /\ k \in Reached /\ t \in Local(k)
    BY <1>1, <1>2, EachIsLocated DEF Located
  <1>4. IsApplication(app) /\ k \in Modules /\ k \in DOMAIN compiled /\ compiled[k] = Compiled(k)
    <2>1. ordered \in Seq(Modules) /\ DOMAIN compiled = Reached /\ IsApplication(app)
          /\ \A j \in DOMAIN compiled : compiled[j] = Compiled(j)
      BY DEF WalkInv, WalkTypes, Reached
    <2> QED
      BY <1>3, <2>1, OwnEntries DEF Reached
  <1> HIDE DEF k
  <1>5. ~(compiled[k].binds[t].kind = "factory" /\ compiled[k].binds[t].trait = "awaits")
    BY <1>2 DEF Unauthenticated
  <1>6. compiled[k].binds = Bindings(Expanded(k).providers)
    BY <1>4 DEF Compiled
  <1>7. ASSUME NEW e \in ToSet(Entries(Expanded(k).providers, t)), e.form = "factory", e.trait = "awaits"
        PROVE  FALSE
    <2>1. compiled[k].binds[t] = Bound(e)
      BY <1>1, <1>4, <1>6, BoundOnce DEF OnlyValid
    <2>2. Bound(e).kind = "factory" /\ Bound(e).trait = "awaits"
      BY <1>7 DEF Bound
    <2> QED
      BY <1>5, <2>1, <2>2
  <1> QED
    BY <1>3, <1>7

\* What a module supplies to a slot is found among the components the slot's references name.
LEMMA SuppliedIsReferred ==
    ASSUME WalkInv, OnlyValid, NEW t \in Tokens, NEW e \in ToSet(SuppliedEverywhere(t))
    PROVE  \E p \in ToSet(GlobalProviders(t)) : Bound(e) \in ToSet(HandedOver(compiled[p.module].binds, p.token))
  <1> DEFINE all == [n \in DOMAIN ordered |-> SuppliedBy(ordered[n], t)]
             S == UNION {ToSet(SuppliedBy(m, t)) : m \in Modules}
  <1>1. /\ ordered \in Seq(Modules) /\ Reached = ToSet(ordered) /\ DOMAIN compiled = Reached
        /\ IsApplication(app) /\ BoundAsDeclared
    BY BindsWhatIsDeclared DEF WalkInv, WalkTypes, Reached
  <1>2. SuppliedEverywhere(t) = FlattenSeq(all)
    BY DEF SuppliedEverywhere, SuppliedBy
  <1>3. \A m \in Modules : SuppliedBy(m, t) \in Seq(S)
    <2> SUFFICES ASSUME NEW m \in Modules PROVE SuppliedBy(m, t) \in Seq(S)
      OBVIOUS
    <2>1. IsSequence(SuppliedBy(m, t)) /\ ToSet(SuppliedBy(m, t)) \subseteq S
      BY <1>1, SuppliedIsSeq
    <2> HIDE DEF S
    <2> QED
      BY <2>1, OwnEntries
  <1>4. DOMAIN ordered = 1..Len(ordered) /\ Len(ordered) \in Nat /\ \A n \in DOMAIN ordered : ordered[n] \in Modules
    BY <1>1, ElementOfSeq, LenProperties
  <1> HIDE DEF S
  <1>5. all \in Seq(Seq(S)) /\ DOMAIN all = DOMAIN ordered
    <2>1. all \in [1..Len(ordered) -> Seq(S)]
      BY <1>3, <1>4
    <2> HIDE DEF all
    <2> QED
      BY <1>4, <2>1, FunctionIsSeq
  <1>6. PICK n \in DOMAIN ordered : e \in ToSet(SuppliedBy(ordered[n], t))
    <2> HIDE DEF all
    <2>1. ToSet(FlattenSeq(all)) = UNION {ToSet(all[n]) : n \in DOMAIN all}
      BY <1>5, FlattenIsSeq
    <2>2. PICK n \in DOMAIN all : e \in ToSet(all[n])
      BY <1>2, <2>1
    <2> QED
      BY <1>5, <2>2 DEF all
  <1> HIDE DEF all
  <1>7. PICK m : m = ordered[n] /\ m \in Reached /\ m \in Modules
    BY <1>1, <1>4 DEF ToSet
  <1> DEFINE s == SuppliedBy(m, t)
             u == HandedOver(compiled[m].binds, t)
  <1>8. u = [i \in DOMAIN s |-> Bound(s[i])]
    BY <1>1, <1>7 DEF BoundAsDeclared, SuppliedBy
  <1>9. PICK i \in DOMAIN s : e = s[i]
    BY <1>6, <1>7 DEF ToSet
  <1>10. Bound(e) \in ToSet(u) /\ i \in DOMAIN u
    BY <1>8, <1>9 DEF ToSet
  <1>11. t \in Local(m)
    <2>1. CASE t \notin DOMAIN compiled[m].binds
      <3>1. u = <<>>
        BY <2>1 DEF HandedOver
      <3> QED
        BY <1>10, <3>1
    <2> QED
      BY <2>1 DEF Local
  <1> HIDE DEF s, u
  <1>12. Global(t, m) \in ToSet(GlobalProviders(t))
    <2> DEFINE A == {j \in DOMAIN ordered : t \in Local(ordered[j])}
               b == Picked(ordered, A)
    <2>1. A \in SUBSET DOMAIN ordered /\ n \in A
      BY <1>7, <1>11
    <2> HIDE DEF A
    <2>2. ToSet(b) = {ordered[j] : j \in A}
      BY <1>1, <2>1, PickedIsAll
    <2>3. m \in ToSet(b)
      BY <1>7, <2>1, <2>2
    <2>4. GlobalProviders(t) = [j \in DOMAIN b |-> Global(t, b[j])]
      BY DEF GlobalProviders, A
    <2> HIDE DEF b
    <2> QED
      BY <2>3, <2>4 DEF ToSet
  <1>13. Global(t, m).module = m /\ Global(t, m).token = t
    BY DEF Global
  <1> QED
    BY <1>10, <1>12, <1>13 DEF u

\* A route whose response is handed on as it is meets no interceptor that would change it.
LEMMA RawIsLeftAlone ==
    ASSUME WalkInv, OnlyValid, NEW c, NEW h, h.raw, ~MutatesRaw(c, h)
    PROVE  ~\E e \in ToSet(SuppliedEverywhere(InterceptorToken)) :
                 e.form \in {"bare", "class", "value"} /\ e.trait = "mutates"
  <1> SUFFICES ASSUME NEW e \in ToSet(SuppliedEverywhere(InterceptorToken)),
                      e.form \in {"bare", "class", "value"}, e.trait = "mutates"
               PROVE  FALSE
    OBVIOUS
  <1>1. InterceptorToken \in Tokens
    BY ContractsAssumption, CompilerAssumption
  <1>2. PICK p \in ToSet(GlobalProviders(InterceptorToken)) :
            Bound(e) \in ToSet(HandedOver(compiled[p.module].binds, p.token))
    BY <1>1, SuppliedIsReferred
  <1>3. Readable(Bound(e)) /\ Bound(e).trait = "mutates"
    BY DEF Readable, Bound
  <1>4. Bound(e) \in DeclaredComponents(p)
    BY <1>2, <1>3 DEF DeclaredComponents
  <1> QED
    BY <1>2, <1>3, <1>4 DEF MutatesRaw

\* Each of the four clauses, for one handler that is served.
LEMMA ServedAsDeclared ==
    ASSUME WalkInv, TableInv, OnlyValid, OfAFamily, MadeOfHandlers, stage = "serving",
           NEW n \in DOMAIN contracts
    PROVE  LET s == ScannedHandlers[n]  c == s.controller  h == s.handler IN
           /\ GuardsRun(contracts[n]) = GuardsDeclared(c, h)
           /\ \A caller \in Callers : Admits(contracts[n].policy, caller) = LetsThrough(c, h, caller)
           /\ ~contracts[n].policy.public /\ (c.policy.auth \/ h.policy.auth) =>
                 \E k \in Answerers(s.module, RegistryToken) :
                     ~\E e \in ToSet(Entries(Expanded(k).providers, RegistryToken)) :
                           e.form = "factory" /\ e.trait = "awaits"
           /\ h.raw => ~\E e \in ToSet(SuppliedEverywhere(InterceptorToken)) :
                             e.form \in {"bare", "class", "value"} /\ e.trait = "mutates"
  <1> DEFINE s == ScannedHandlers[n]
             m == s.module
             c == s.controller
             h == s.handler
  <1>1. /\ n \in DOMAIN ScannedHandlers /\ contracts[n] = Contract(m, c, h)
        /\ s \in ToSet(ScannedHandlers) => ~Unservable(m, c, h)
    BY DEF MadeOfHandlers
  <1>2. s \in ToSet(ScannedHandlers) /\ m \in Reached /\ m \in Modules /\ IsDeclared(c) /\ IsDeclared(h)
    BY <1>1, ScannedAreDeclared
  <1> HIDE DEF s, m, c, h
  <1>3. /\ ~Contradicts(c.policy) /\ ~Contradicts(h.policy)
        /\ ~Unauthenticated(m, Merged(c, h)) /\ ~MutatesRaw(c, h)
    BY <1>1, <1>2 DEF Unservable
  <1>4. contracts[n].policy = Merged(c, h)
    BY <1>1 DEF Contract
  <1>5. GuardsRun(contracts[n]) = GuardsDeclared(c, h)
    BY <1>1, <1>2, GuardsAreDeclared
  <1>6. \A caller \in Callers : Admits(contracts[n].policy, caller) = LetsThrough(c, h, caller)
    BY <1>2, <1>3, <1>4, AdmitsWhomDeclared DEF IsDeclared
  <1>7. ASSUME ~contracts[n].policy.public, c.policy.auth \/ h.policy.auth
        PROVE  \E k \in Answerers(m, RegistryToken) :
                     ~\E e \in ToSet(Entries(Expanded(k).providers, RegistryToken)) :
                           e.form = "factory" /\ e.trait = "awaits"
    <2>1. Merged(c, h).auth /\ ~Merged(c, h).public
      BY <1>4, <1>7 DEF Merged
    <2> QED
      BY <1>2, <1>3, <2>1, RegistryAnswers
  <1>8. h.raw => ~\E e \in ToSet(SuppliedEverywhere(InterceptorToken)) :
                             e.form \in {"bare", "class", "value"} /\ e.trait = "mutates"
    BY <1>3, RawIsLeftAlone
  <1> QED
    BY <1>5, <1>6, <1>7, <1>8 DEF s, m, c, h

\* RouteCompiler and PolicyGuard, of any application: what is served runs the guards that
\* are declared, in their order, and lets through whom the declarations let through; its
\* policy guard has a registry to ask, and no readable interceptor changes a response that
\* is handed on as it is.
THEOREM GuardsAreAsDeclared ==
    Spec => []GuardedByDeclaration
  <1>1. Init => WalkInv /\ TableInv /\ OnlyValid /\ PlanInv /\ MadeOfHandlers
    <2>1. Init => OnlyValid /\ MadeOfHandlers
      BY DEF Init, AssemblyInit, OnlyValid, Nothing, MadeOfHandlers
    <2> QED
      BY <2>1, WalkStarts, TableStarts, PlanStarts
  <1>2. /\ WalkInv /\ [Next]_bootstrapVars => WalkInv'
        /\ WalkInv /\ WalkInv' /\ TableInv /\ [Next]_bootstrapVars => TableInv'
        /\ OnlyValid /\ [Next]_bootstrapVars => OnlyValid'
        /\ WalkInv /\ PlanInv /\ [Next]_bootstrapVars => PlanInv'
        /\ MadeOfHandlers /\ [Next]_bootstrapVars => MadeOfHandlers'
    BY WalkGoesOn, TableGoesOn, ValidStays, PlanGoesOn, MadeGoesOn
  <1>3. WalkInv /\ TableInv /\ OnlyValid /\ PlanInv /\ MadeOfHandlers => GuardedByDeclaration
    <2> SUFFICES ASSUME WalkInv, TableInv, OnlyValid, PlanInv, MadeOfHandlers PROVE GuardedByDeclaration
      OBVIOUS
    <2>1. OfAFamily
      BY DEF PlanInv
    <2>2. ASSUME stage = "serving", NEW n \in DOMAIN contracts
          PROVE  LET s == ScannedHandlers[n]  c == s.controller  h == s.handler IN
                 /\ GuardsRun(contracts[n]) = GuardsDeclared(c, h)
                 /\ \A caller \in Callers : Admits(contracts[n].policy, caller) = LetsThrough(c, h, caller)
                 /\ ~contracts[n].policy.public /\ (c.policy.auth \/ h.policy.auth) =>
                       \E k \in Answerers(s.module, RegistryToken) :
                           ~\E e \in ToSet(Entries(Expanded(k).providers, RegistryToken)) :
                                 e.form = "factory" /\ e.trait = "awaits"
                 /\ h.raw => ~\E e \in ToSet(SuppliedEverywhere(InterceptorToken)) :
                                   e.form \in {"bare", "class", "value"} /\ e.trait = "mutates"
      BY <2>1, <2>2, ServedAsDeclared
    <2> QED
      BY <2>2 DEF GuardedByDeclaration
  <1> QED
    BY <1>1, <1>2, <1>3, PTL DEF Spec

-----------------------------------------------------------------------------
(* Refused for cause.                                                        *)

\* What a class is charged with is no more than each module that builds it gives it.
NoneOvercharged == \A k \in Keys : Needs(k) \subseteq Asks(k)

\* What shows that a scope is as narrow as it is.
Witnesses(w, s) ==
    IF w[2] \in RequestDerived THEN s = "request"
    ELSE w \in Keys /\ ~PassesThrough(w) /\ Of(w).scope = s

\* While scopes are being solved, whatever has no lifetime of its own and was given one holds
\* something that has it.
NarrowedWithCause ==
    stage = "planning" /\ NoneOvercharged =>
        \A j \in Keys : PassesThrough(j) /\ scopes[j] # "transient" =>
            \E w \in Held(j) : Witnesses(w, scopes[j])

RefusalInv ==
    /\ reason # "none" => stage = "refused"
    /\ NarrowedWithCause
    /\ NoneOvercharged => EscapesAreReal
    /\ CollisionsAreReal

\* The narrowest of some lifetimes is one of them.
LEMMA NarrowestIsOne ==
    ASSUME NEW ss
    PROVE  Narrowest(ss) \in ss \cup {"transient"}
  <1> DEFINE all == ss \cup {"transient"}
             widths == {Width(x) : x \in all}
  <1>1. widths \in SUBSET Nat /\ widths # {}
    BY Widths
  <1>2. PICK n \in widths : \A k \in widths : n <= k
    <2> HIDE DEF widths
    <2> QED
      BY <1>1, LeastNumber
  <1>3. PICK x \in all : n = Width(x)
    BY <1>2
  <1>4. \A y \in all : Width(x) <= Width(y)
    BY <1>2, <1>3
  <1>5. \E s \in all : \A y \in ss : Width(s) <= Width(y)
    BY <1>4
  <1> QED
    BY <1>5 DEF Narrowest

\* What a transient holds, whoever holds the transient holds.
LEMMA HeldBehind ==
    ASSUME NEW k, NEW j \in Keys, PassesThrough(j), j \in Direct(k)
    PROVE  Held(j) \subseteq Held(k)
  <1> DEFINE through == {x \in Keys : PassesThrough(x)}
             step == [x \in through |-> Direct(x) \cap through]
             behind(x) == Closure(Direct(x) \cap through, step)
  <1>1. /\ DOMAIN step = through
        /\ \A x \in through : step[x] = Direct(x) \cap through
        /\ \A x : Direct(x) \cap through \in SUBSET DOMAIN step
    OBVIOUS
  <1>2. \A x : Held(x) = Direct(x) \cup UNION {Direct(y) : y \in behind(x)}
    BY DEF Held
  <1>3. j \in through /\ j \in Direct(k) \cap through
    OBVIOUS
  <1> HIDE DEF step, through
  <1>4. j \in behind(k)
    BY <1>1, <1>3, ClosureHas
  <1>5. \A y \in behind(k) : step[y] \subseteq behind(k) /\ y \in DOMAIN step
    <2>1. \A y \in DOMAIN step : step[y] \subseteq DOMAIN step
      BY <1>1
    <2> QED
      BY <2>1, ClosureGoesOn
  <1>6. behind(j) \subseteq behind(k)
    <2>1. Direct(j) \cap through \subseteq behind(k)
      BY <1>1, <1>3, <1>4, <1>5
    <2>2. behind(k) \in SUBSET DOMAIN step
      BY <1>5
    <2> QED
      BY <1>5, <2>1, <2>2, ClosureIsLeast
  <1> HIDE DEF behind
  <1> QED
    BY <1>2, <1>4, <1>6

\* A scope that something is reached with is one that something held has.
LEMMA ReachedWithCause ==
    ASSUME WalkInv, TableInv, ScopesInv, NarrowedWithCause, NoneOvercharged, stage = "planning",
           NEW k \in Keys, NEW t \in Needs(k), ReachedScope(t, k[1]) # "transient"
    PROVE  \E w \in Held(k) : Witnesses(w, ReachedScope(t, k[1]))
  <1>1. t \in Asks(k)
    BY DEF NoneOvercharged
  <1>2. Direct(k) \subseteq Held(k)
    BY DEF Held
  <1>3. CASE t \in RequestDerived
    <2>1. <<k[1], t>> \in Direct(k)
      BY <1>1, <1>3 DEF Direct
    <2>2. Witnesses(<<k[1], t>>, ReachedScope(t, k[1]))
      BY <1>3 DEF Witnesses, ReachedScope
    <2> QED
      BY <1>2, <2>1, <2>2
  <1>4. CASE t \notin RequestDerived
    <2>1. Located(t, k[1]) /\ ReachedScope(t, k[1]) = scopes[At(t, k[1])]
      BY <1>4 DEF ReachedScope
    <2>2. PICK j : j = At(t, k[1])
      OBVIOUS
    <2>3. j \in Keys /\ j[2] = t
      BY <2>1, <2>2, SeenIsBound
    <2>4. j \in Direct(k)
      BY <1>1, <1>4, <2>1, <2>2 DEF Direct
    <2>5. CASE PassesThrough(j)
      <3>1. \E w \in Held(j) : Witnesses(w, scopes[j])
        BY <2>1, <2>2, <2>3, <2>5 DEF NarrowedWithCause
      <3> QED
        BY <2>1, <2>2, <2>3, <2>4, <2>5, <3>1, HeldBehind
    <2>6. CASE ~PassesThrough(j)
      <3>1. scopes[j] = Of(j).scope
        BY <2>3, <2>6 DEF ScopesInv
      <3>2. Witnesses(j, scopes[j])
        BY <1>4, <2>3, <2>6, <3>1 DEF Witnesses
      <3> QED
        BY <1>2, <2>1, <2>2, <2>4, <3>2
    <2> QED
      BY <2>5, <2>6
  <1> QED
    BY <1>3, <1>4

\* A step of solve gives no scope without a cause.
LEMMA SettlesWithCause ==
    ASSUME WalkInv, TableInv, ScopesInv, NarrowedWithCause, NEW k \in Keys, Settle(k)
    PROVE  NarrowedWithCause'
  <1>1. /\ stage = "planning" /\ stage' = stage /\ k \in Unsettled
        /\ scopes' = [scopes EXCEPT ![k] = Narrowed(k)]
        /\ UNCHANGED <<ordered, compiled, visible>>
    BY DEF Settle, graphVars, tableVars
  <1>2. /\ Keys' = Keys
        /\ \A j : /\ Of(j)' = Of(j) /\ PassesThrough(j)' = PassesThrough(j)
                  /\ Needs(j)' = Needs(j) /\ Asks(j)' = Asks(j) /\ Held(j)' = Held(j)
    BY <1>1, SameHolds
  <1>3. NoneOvercharged' <=> NoneOvercharged
    BY <1>2 DEF NoneOvercharged
  <1>4. \A w, s : Witnesses(w, s)' <=> Witnesses(w, s)
    BY <1>2 DEF Witnesses
  <1>5. DOMAIN scopes = Keys
    BY <1>1 DEF ScopesInv
  <1> SUFFICES ASSUME NoneOvercharged, NEW j \in Keys, PassesThrough(j), scopes'[j] # "transient"
               PROVE  \E w \in Held(j) : Witnesses(w, scopes'[j])
    BY <1>2, <1>3, <1>4 DEF NarrowedWithCause
  <1>6. CASE j # k
    <2>1. scopes'[j] = scopes[j]
      BY <1>1, <1>5, <1>6
    <2> QED
      BY <1>1, <2>1 DEF NarrowedWithCause
  <1>7. CASE j = k
    <2>1. scopes'[k] = Narrowest({ReachedScope(t, k[1]) : t \in Needs(k)})
      BY <1>1, <1>5 DEF Narrowed
    <2>2. PICK t \in Needs(k) : scopes'[k] = ReachedScope(t, k[1])
      BY <1>7, <2>1, NarrowestIsOne
    <2>3. \E w \in Held(k) : Witnesses(w, ReachedScope(t, k[1]))
      BY <1>1, <1>7, <2>2, ReachedWithCause
    <2> QED
      BY <1>7, <2>2, <2>3
  <1> QED
    BY <1>6, <1>7

\* What violates the plan outlives something it holds.
LEMMA ViolatesWithCause ==
    ASSUME WalkInv, TableInv, ScopesInv, NarrowedWithCause, NoneOvercharged, stage = "planning",
           NEW k \in Keys, Violates(k)
    PROVE  ~PassesThrough(k) /\ (Inquirer \in Asks(k) \/ \E j \in Held(k) : Outlives(k, j))
  <1>1. ~PassesThrough(k)
    BY DEF Violates
  <1>2. PICK t \in Needs(k) : t = Inquirer \/ Escapes(k, t)
    BY DEF Violates
  <1>3. CASE t = Inquirer
    BY <1>1, <1>3 DEF NoneOvercharged
  <1>4. CASE Escapes(k, t)
    <2>1. /\ ReachedScope(t, k[1]) # "transient"
          /\ Width(Of(k).scope) > Width(ReachedScope(t, k[1]))
      BY <1>4 DEF Escapes
    <2>2. PICK w \in Held(k) : Witnesses(w, ReachedScope(t, k[1]))
      BY <2>1, ReachedWithCause
    <2>3. CASE w[2] \in RequestDerived
      <3>1. ReachedScope(t, k[1]) = "request"
        BY <2>2, <2>3 DEF Witnesses
      <3>2. Of(k).scope # "request"
        <4>1. Width("request") = 0
          BY Widths
        <4> QED
          BY <2>1, <3>1, <4>1
      <3> QED
        BY <1>1, <2>3, <3>2 DEF Outlives
    <2>4. CASE w[2] \notin RequestDerived
      BY <1>1, <2>1, <2>2, <2>4 DEF Witnesses, Outlives
    <2> QED
      BY <2>3, <2>4
  <1> QED
    BY <1>2, <1>3, <1>4

\* Two offers of one token are two modules that chains of exports lead to.
LEMMA CollidesWithCause ==
    ASSUME WalkInv, TableInv, Resolve, Collides(left[Cardinality(DOMAIN base) + 1])
    PROVE  \E m \in ReachedFromRoot : \E t \in Tokens \ Binds(m) :
               Cardinality(UNION {Hands(t, k) : k \in DeclaredImports(m)}) > 1
  <1> DEFINE n == Cardinality(DOMAIN base)
             m == left[n + 1]
  <1>1. /\ m \in ToSet(left) /\ DOMAIN base \subseteq ToSet(left)
        /\ DeclaredImports(m) \subseteq DOMAIN base
    BY ResolvesNext DEF TableInv
  <1>2. Collides(m)
    OBVIOUS
  <1> HIDE DEF m, n
  <1>3. \A k \in DeclaredImports(m) : k \in ToSet(left) /\ Resolved(k)
    BY <1>1 DEF TableInv
  <1>4. m \in Modules /\ m \in ToSet(ordered) /\ compiled[m] = Compiled(m) /\ IsApplication(app)
    BY <1>1, LeftIsCompiled DEF WalkInv, WalkTypes
  <1>5. m \in ReachedFromRoot
    BY <1>4 DEF WalkInv, Connected
  <1>6. PICK t \in Offered(m) : Cardinality(Offers(m, t)) > 1
    BY <1>2 DEF Collides
  <1>7. t \in Tokens /\ t \notin Local(m)
    BY DEF Offered
  <1>8. t \in Tokens \ Binds(m)
    BY <1>4, <1>7, LocalTokens
  <1>9. Offers(m, t) = UNION {Hands(t, k) : k \in DeclaredImports(m)}
    BY <1>1, <1>3, <1>7, OffersAreHands
  <1> QED
    BY <1>5, <1>6, <1>8, <1>9

\* Before the plan nothing has been refused, and nothing is refused for a lifetime.
LEMMA RefusesBeforehand ==
    ASSUME RefusalInv,
           \/ \E m \in Modules : Skip(m) \/ Enter(m) \/ RejectCycle(m)
           \/ Leave \/ Resolve \/ Publish \/ CheckModules
    PROVE  /\ reason = "none" /\ (reason' # "none" => stage' = "refused") /\ reason' # "plan"
           /\ ~Resolve => reason' # "collision"
           /\ stage' # "planning" \/ CheckModules
  <1>1. reason = "none"
    <2>1. stage # "refused"
      BY DEF Skip, Enter, RejectCycle, Importing, Leave, Resolve, Publish, CheckModules
    <2> QED
      BY <2>1 DEF RefusalInv
  <1>2. CASE \E m \in Modules : Skip(m) \/ Enter(m) \/ RejectCycle(m)
    <2>1. /\ reason' \in {"none", "declaration", "cycle"} /\ (reason' # "none" => stage' = "refused")
          /\ stage' \in {"discovering", "refused"}
      BY <1>1, <1>2 DEF Skip, Enter, RejectCycle, Importing, Refuse
    <2> QED
      BY <1>1, <2>1
  <1>3. CASE Leave
    BY <1>1, <1>3 DEF Leave
  <1>4. CASE Resolve
    BY <1>1, <1>4 DEF Resolve, Refuse
  <1>5. CASE Publish
    BY <1>1, <1>5 DEF Publish, Refuse
  <1>6. CASE CheckModules
    <2>1. reason' \in {"none", "export", "controller"} /\ (reason' # "none" => stage' = "refused")
      BY <1>1, <1>6 DEF CheckModules, Refuse
    <2> QED
      BY <1>1, <1>6, <2>1
  <1> QED
    BY <1>2, <1>3, <1>4, <1>5, <1>6

LEMMA RefusesWithCause ==
    ASSUME WalkInv, TableInv, ScopesInv, RefusalInv, [Next]_bootstrapVars
    PROVE  RefusalInv'
  <1>1. CASE \/ \E m \in Modules : Skip(m) \/ Enter(m) \/ RejectCycle(m)
             \/ Leave \/ Resolve \/ Publish \/ CheckModules
    <2>1. /\ reason = "none" /\ (reason' # "none" => stage' = "refused") /\ reason' # "plan"
          /\ ~Resolve => reason' # "collision"
          /\ stage' # "planning" \/ CheckModules
      BY <1>1, RefusesBeforehand
    <2>2. EscapesAreReal'
      BY <2>1 DEF EscapesAreReal
    <2>3. CollisionsAreReal'
      <3>1. CASE ~Resolve
        BY <2>1, <3>1 DEF CollisionsAreReal
      <3>2. CASE Resolve
        <4> SUFFICES ASSUME reason' = "collision" PROVE CollisionsAreReal'
          BY DEF CollisionsAreReal
        <4>1. Collides(left[Cardinality(DOMAIN base) + 1]) /\ app' = app
          BY <2>1, <3>2 DEF Resolve, Refuse
        <4>2. PICK m \in ReachedFromRoot : \E t \in Tokens \ Binds(m) :
                  Cardinality(UNION {Hands(t, k) : k \in DeclaredImports(m)}) > 1
          BY <3>2, <4>1, CollidesWithCause
        <4>3. PICK t \in Tokens \ Binds(m) : Cardinality(UNION {Hands(t, k) : k \in DeclaredImports(m)}) > 1
          BY <4>2
        <4>4. /\ ReachedFromRoot' = ReachedFromRoot
              /\ \A k : Hands(t, k)' = Hands(t, k) /\ Binds(k)' = Binds(k)
              /\ DeclaredImports(m)' = DeclaredImports(m)
          BY <4>1, SameDeclared, SameTables
        <4>5. (UNION {Hands(t, k) : k \in DeclaredImports(m)})' = UNION {Hands(t, k) : k \in DeclaredImports(m)}
          BY <4>4
        <4>6. (Cardinality(UNION {Hands(t, k) : k \in DeclaredImports(m)}) > 1)'
          BY ONLY <4>3, <4>5
        <4> QED
          BY <4>4, <4>6 DEF CollisionsAreReal
      <3> QED
        BY <3>1, <3>2
    <2>4. NarrowedWithCause'
      <3>1. CASE stage' # "planning"
        BY <3>1 DEF NarrowedWithCause
      <3>2. CASE stage' = "planning"
        <4>1. CheckModules
          BY <2>1, <3>2
        <4>2. /\ scopes' = [k \in Keys |-> Of(k).scope] /\ UNCHANGED <<ordered, compiled, visible>>
          BY <3>2, <4>1 DEF CheckModules, Refuse, graphVars, tableVars
        <4>3. Keys' = Keys /\ \A k : PassesThrough(k)' = PassesThrough(k)
          BY <4>2, SameHolds
        <4>4. \A k \in Keys : PassesThrough(k) => scopes'[k] = "transient"
          BY <4>2 DEF PassesThrough
        <4> QED
          BY <4>3, <4>4 DEF NarrowedWithCause
      <3> QED
        BY <3>1, <3>2
    <2> QED
      BY <2>1, <2>2, <2>3, <2>4 DEF RefusalInv
  <1>2. ASSUME UNCHANGED <<app, graphVars, tableVars>>
        PROVE  /\ CollisionsAreReal /\ reason' = reason => CollisionsAreReal'
               /\ (NoneOvercharged' <=> NoneOvercharged)
               /\ EscapesAreReal /\ reason' = reason => EscapesAreReal'
    <2>1. /\ ReachedFromRoot' = ReachedFromRoot
          /\ \A t, m : /\ Hands(t, m)' = Hands(t, m) /\ Binds(m)' = Binds(m)
                       /\ DeclaredImports(m)' = DeclaredImports(m)
      BY <1>2, SameDeclared, SameTables
    <2>2. /\ Keys' = Keys
          /\ \A k : /\ Of(k)' = Of(k) /\ PassesThrough(k)' = PassesThrough(k)
                    /\ Unsatisfied(k)' = Unsatisfied(k) /\ Needs(k)' = Needs(k)
                    /\ Asks(k)' = Asks(k) /\ Held(k)' = Held(k)
      BY <1>2, SameHolds DEF graphVars, tableVars
    <2>3. NoneOvercharged' <=> NoneOvercharged
      BY <2>2 DEF NoneOvercharged
    <2>4. ASSUME CollisionsAreReal, reason' = reason PROVE CollisionsAreReal'
      BY <2>1, <2>4 DEF CollisionsAreReal
    <2>5. \A k, j : Outlives(k, j)' <=> Outlives(k, j)
      BY <2>2 DEF Outlives
    <2>6. ASSUME EscapesAreReal, reason' = reason PROVE EscapesAreReal'
      BY <2>2, <2>5, <2>6 DEF EscapesAreReal
    <2> QED
      BY <2>3, <2>4, <2>6
  <1>3. CASE \E k \in Keys : Settle(k)
    <2>1. PICK k \in Keys : Settle(k)
      BY <1>3
    <2>2. UNCHANGED <<app, graphVars, tableVars>> /\ reason' = reason /\ stage' = stage
      BY <2>1 DEF Settle
    <2>3. NarrowedWithCause'
      BY <2>1, SettlesWithCause DEF RefusalInv
    <2> QED
      BY <1>2, <2>2, <2>3 DEF RefusalInv
  <1>4. CASE Judge
    <2>1. /\ UNCHANGED <<app, graphVars, tableVars>> /\ stage = "planning" /\ reason = "none"
          /\ stage' \in {"assembled", "refused"}
      BY <1>4 DEF Judge, Refuse, RefusalInv
    <2>2. CASE \E k \in Keys : Violates(k) \/ Unsatisfied(k)
      <3>1. reason' = "plan" /\ stage' = "refused"
        BY <1>4, <2>2 DEF Judge, Refuse
      <3>2. CollisionsAreReal'
        BY <3>1 DEF CollisionsAreReal
      <3>3. NarrowedWithCause'
        BY <3>1 DEF NarrowedWithCause
      <3>4. ASSUME NoneOvercharged'
            PROVE  \E k \in Keys : \/ Unsatisfied(k)
                                   \/ ~PassesThrough(k) /\ (Inquirer \in Asks(k) \/ \E j \in Held(k) : Outlives(k, j))
        <4>1. NoneOvercharged
          BY <1>2, <2>1, <3>4
        <4>2. PICK k \in Keys : Violates(k) \/ Unsatisfied(k)
          BY <2>2
        <4>3. CASE Unsatisfied(k)
          BY <4>3
        <4>4. CASE Violates(k)
          BY <2>1, <4>1, <4>4, ViolatesWithCause DEF RefusalInv
        <4> QED
          BY <4>2, <4>3, <4>4
      <3>5. /\ Keys' = Keys
            /\ \A k : /\ Of(k)' = Of(k) /\ PassesThrough(k)' = PassesThrough(k)
                      /\ Unsatisfied(k)' = Unsatisfied(k)
                      /\ Asks(k)' = Asks(k) /\ Held(k)' = Held(k)
        BY <2>1, SameHolds DEF graphVars, tableVars
      <3>6. \A k, j : Outlives(k, j)' <=> Outlives(k, j)
        BY <3>5 DEF Outlives
      <3>7. NoneOvercharged' => EscapesAreReal'
        BY <3>4, <3>5, <3>6 DEF EscapesAreReal
      <3> QED
        BY <3>1, <3>2, <3>3, <3>7 DEF RefusalInv
    <2>3. CASE ~\E k \in Keys : Violates(k) \/ Unsatisfied(k)
      <3>1. reason' = "none" /\ stage' = "assembled"
        BY <1>4, <2>1, <2>3 DEF Judge
      <3> QED
        BY <3>1 DEF RefusalInv, CollisionsAreReal, EscapesAreReal, NarrowedWithCause
    <2> QED
      BY <2>2, <2>3
  <1>5. CASE CompileContracts \/ PlanByPath \/ PlanByHeader \/ CheckCapabilities \/ RegisterNext
    <2>1. stage \in {"assembled", "routing", "registering"}
      BY <1>5 DEF CompileContracts, PlanByPath, PlanByHeader, CheckCapabilities, RegisterNext
    <2>2. reason = "none"
      BY <2>1 DEF RefusalInv
    <2>3. /\ reason' \in {"none", "contract", "conflict", "duplicate", "overlap", "hosts"}
          /\ reason' # "none" => stage' = "refused"
          /\ stage' # "planning"
      <3>1. CASE CompileContracts
        BY <2>1, <2>2, <3>1 DEF CompileContracts, RefusePlan, GoesOn
      <3>2. CASE PlanByPath
        BY <2>1, <2>2, <3>2 DEF PlanByPath, RefusePlan, assemblyVars
      <3>3. CASE PlanByHeader
        BY <2>1, <2>2, <3>3 DEF PlanByHeader, RefusePlan, assemblyVars
      <3>4. CASE CheckCapabilities
        BY <2>1, <2>2, <3>4 DEF CheckCapabilities, RefusePlan, GoesOn
      <3>5. CASE RegisterNext
        BY <2>1, <2>2, <3>5 DEF RegisterNext, GoesOn
      <3> QED
        BY <1>5, <3>1, <3>2, <3>3, <3>4, <3>5
    <2> QED
      BY <2>3 DEF RefusalInv, CollisionsAreReal, EscapesAreReal, NarrowedWithCause
  <1>6. CASE UNCHANGED bootstrapVars
    <2>1. UNCHANGED <<app, graphVars, tableVars>> /\ reason' = reason /\ stage' = stage /\ scopes' = scopes
      BY <1>6 DEF bootstrapVars, assemblyVars
    <2>2. NarrowedWithCause'
      <3>1. /\ Keys' = Keys
            /\ \A k : Of(k)' = Of(k) /\ PassesThrough(k)' = PassesThrough(k) /\ Held(k)' = Held(k)
        BY <2>1, SameHolds DEF graphVars, tableVars
      <3>2. \A w, s : Witnesses(w, s)' <=> Witnesses(w, s)
        BY <3>1 DEF Witnesses
      <3>3. (NoneOvercharged' <=> NoneOvercharged) /\ NarrowedWithCause
        BY <1>2, <2>1 DEF RefusalInv
      <3> QED
        BY <2>1, <3>1, <3>2, <3>3 DEF NarrowedWithCause
    <2> QED
      BY <1>2, <2>1, <2>2 DEF RefusalInv
  <1> QED
    BY <1>1, <1>3, <1>4, <1>5, <1>6 DEF Next, AssemblyNext

\* Resolve and Judge, of any application: whoever is refused for a collision has one, and
\* whoever is refused for a lifetime outlives something it holds.
THEOREM RefusedForCause ==
    Spec => [](CollisionsAreReal /\ (NoneOvercharged => EscapesAreReal))
  <1>1. Init => RefusalInv
    BY DEF Init, AssemblyInit, RefusalInv, NarrowedWithCause, EscapesAreReal, CollisionsAreReal
  <1>2. WalkInv /\ TableInv /\ ScopesInv /\ RefusalInv /\ [Next]_bootstrapVars => RefusalInv'
    BY RefusesWithCause
  <1>3. RefusalInv => CollisionsAreReal /\ (NoneOvercharged => EscapesAreReal)
    BY DEF RefusalInv
  <1> QED
    BY <1>1, <1>2, <1>3, ScopesAreSolved, PTL DEF Spec

\* The modules are walked in order, and only those whose declaration is valid are compiled.
THEOREM OnlyValidIsCompiled ==
    Spec => [](WalkInv /\ OnlyValid)
  <1>1. Init => OnlyValid
    BY DEF Init, AssemblyInit, OnlyValid, Nothing
  <1>2. OnlyValid /\ [Next]_bootstrapVars => OnlyValid'
    BY ValidStays
  <1> QED
    BY <1>1, <1>2, ModulesAreVisitedInOrder, PTL DEF Spec

\* _discover_modules, expand_module_input and _build_visibility_tables, of any application:
\* the graph is the one that is declared, each module answers as it declares, and who is
\* refused for two answers has two.
THEOREM GraphIsAsDeclared ==
    Spec => []GraphIsDeclared
  <1>1. WalkInv /\ OnlyValid => GraphIsTheImports /\ BoundAsDeclared
    BY WalkFinds, BindsWhatIsDeclared
  <1>2. GraphIsTheImports /\ BoundAsDeclared /\ OneAnswerPerToken /\ CollisionsAreReal => GraphIsDeclared
    BY DEF GraphIsDeclared
  <1> QED
    BY <1>1, <1>2, OnlyValidIsCompiled, EachTokenHasOneAnswer, RefusedForCause, PTL

\* A declared lifetime is kept all the way: a kept object holds nothing that is dropped before it
\* and nobody is refused who would not (wherever the plan charges a class with what each module
\* that builds it gives it), and no binding keeps an instance of a class longer than the class
\* allows (_use_class_scope, the scope check of _bind).
THEOREM NothingIsKeptTooLong ==
    Spec => [](AllCharged /\ NoneOvercharged => LifetimesHold)
  <1>1. WalkInv /\ OnlyValid => KeptAsItsClassAllows
    BY KeptAsAllowed
  <1>2. /\ KeptAsItsClassAllows /\ (AllCharged => NothingOutlivesItsParts)
        /\ CollisionsAreReal /\ (NoneOvercharged => EscapesAreReal)
        => (AllCharged /\ NoneOvercharged => LifetimesHold)
    BY DEF LifetimesHold
  <1> QED
    BY <1>1, <1>2, OnlyValidIsCompiled, NothingOutlivesWhatItHolds, RefusedForCause, PTL

-----------------------------------------------------------------------------
(* The call that builds a class.                                             *)

\* Where the first places of a sequence are all picked, each is picked at its own number.
LEMMA FirstPlacesStay ==
    ASSUME NEW N \in Nat, NEW A \in SUBSET (1..N), NEW n \in Nat, 1..n \subseteq A, NEW i \in 1..n
    PROVE  i \in 1..Cardinality(A) /\ Place(A, i) = i
  <1>1. PICK m \in 1..Cardinality(A) : Place(A, m) = i
    BY PlacesInOrder
  <1>2. Cardinality({j \in A : j <= Place(A, m)}) = m
    BY PlaceIsIn
  <1>3. {j \in A : j <= i} = 1..i
    <2>1. \A j \in A : j \in Nat /\ 1 <= j
      OBVIOUS
    <2>2. \A j \in 1..i : j \in 1..n /\ j <= i
      OBVIOUS
    <2>3. i \in Nat /\ \A j \in Nat : 1 <= j /\ j <= i => j \in 1..i
      OBVIOUS
    <2> QED
      BY <2>1, <2>2, <2>3
  <1>4. Cardinality(1..i) = i
    BY FS_Interval
  <1> QED
    BY <1>1, <1>2, <1>3, <1>4

\* Places that leave out none before them are the first places, picked at their own numbers.
LEMMA WithAllBefore ==
    ASSUME NEW K \in Nat, NEW B \in SUBSET (1..K), \A i \in B : 1..i \subseteq B
    PROVE  /\ Cardinality(B) \in Nat /\ B = 1..Cardinality(B)
           /\ \A n \in 1..Cardinality(B) : Place(B, n) = n
  <1> DEFINE b == Cardinality(B)
  <1>1. /\ b \in Nat
        /\ \A n \in 1..b : Place(B, n) \in B
        /\ \A n, m \in 1..b : n < m => Place(B, n) < Place(B, m)
    BY PlacesInOrder
  <1>2. \A i \in B : i \in Nat /\ i \in 1..i
    OBVIOUS
  <1>3. ASSUME NEW i \in B PROVE i \in 1..b /\ Place(B, i) = i
    BY <1>2, FirstPlacesStay
  <1> HIDE DEF b
  <1>4. ASSUME NEW n \in 1..b PROVE Place(B, n) = n
    <2>1. PICK m \in B : m = Place(B, n)
      BY <1>1
    <2>2. m \in 1..b /\ Place(B, m) = m
      BY <1>3
    <2>3. ~(m < n) /\ ~(n < m)
      BY <1>1, <2>1, <2>2
    <2> QED
      BY <2>1, <2>2, <2>3
  <1>5. B = 1..b
    BY <1>1, <1>3, <1>4
  <1> QED
    BY <1>1, <1>4, <1>5 DEF b

\* The parameters that something is passed for.
PassedTo(c, seen) == {n \in DOMAIN c.parameters : ~Left(c.parameters[n], c, seen)}

\* The n-th argument is for the n-th of them.
LEMMA ArgumentsInOrder ==
    ASSUME NEW c, IsConstructor(c), NEW seen
    PROVE  LET A == PassedTo(c, seen)  arguments == Arguments(c, seen) IN
           /\ Len(c.parameters) \in Nat /\ DOMAIN c.parameters = 1..Len(c.parameters)
           /\ A \in SUBSET (1..Len(c.parameters)) /\ Cardinality(A) \in Nat
           /\ arguments \in Seq(ToSet(arguments)) /\ DOMAIN arguments = 1..Cardinality(A)
           /\ \A i \in 1..Cardinality(A) :
                 /\ Place(A, i) \in A /\ arguments[i].parameter = Place(A, i)
                 /\ arguments[i].positional = ByPlace(c, Place(A, i), seen)
  <1> DEFINE ps == c.parameters
             N == Len(ps)
             A == PassedTo(c, seen)
             K == Cardinality(A)
             id == [n \in DOMAIN ps |-> n]
             passed == Picked(id, A)
             arguments == Arguments(c, seen)
  <1>1. N \in Nat /\ DOMAIN ps = 1..N
    BY LenProperties DEF IsConstructor, IsSequence
  <1>2. A \in SUBSET (1..N)
    BY <1>1 DEF PassedTo
  <1>3. K \in Nat /\ \A i \in 1..K : Place(A, i) \in A
    BY <1>1, <1>2, PlacesInOrder
  <1>4. DOMAIN passed = 1..K /\ \A i \in 1..K : passed[i] = Place(A, i)
    <2>1. DOMAIN passed = 1..K /\ \A i \in 1..K : passed[i] = id[Place(A, i)]
      BY DEF Picked, Place
    <2> QED
      BY <1>1, <1>2, <1>3, <2>1
  <1>5. /\ DOMAIN arguments = DOMAIN passed
        /\ \A i \in DOMAIN passed : /\ arguments[i].parameter = passed[i]
                                    /\ arguments[i].positional = ByPlace(c, passed[i], seen)
    BY DEF Arguments, PassedTo
  <1>6. arguments = [i \in DOMAIN passed |-> arguments[i]]
    BY DEF Arguments, PassedTo
  <1> HIDE DEF arguments, passed, A
  <1>7. arguments \in Seq(ToSet(arguments))
    <2>1. arguments = [i \in 1..K |-> arguments[i]]
      BY <1>4, <1>6
    <2>2. \A i \in 1..K : arguments[i] \in ToSet(arguments)
      BY <1>4, <1>5 DEF ToSet
    <2>3. arguments \in [1..K -> ToSet(arguments)]
      BY <2>1, <2>2
    <2> QED
      BY <1>3, <2>3, SeqDef
  <1>8. /\ DOMAIN arguments = 1..K
        /\ \A i \in 1..K : /\ Place(A, i) \in A /\ arguments[i].parameter = Place(A, i)
                           /\ arguments[i].positional = ByPlace(c, Place(A, i), seen)
    BY <1>3, <1>4, <1>5
  <1> QED
    BY <1>1, <1>2, <1>3, <1>7, <1>8 DEF A, arguments

\* The arguments that go by place.
GoByPlace(c, seen) == {i \in DOMAIN Arguments(c, seen) : Arguments(c, seen)[i].positional}

\* What goes by place goes before all that does not, each to the parameter of its own number.
LEMMA ByPlaceInOrder ==
    ASSUME NEW c, IsConstructor(c), NEW seen
    PROVE  LET A == PassedTo(c, seen)  arguments == Arguments(c, seen)
               B == GoByPlace(c, seen)
           IN  /\ B \subseteq DOMAIN arguments /\ Cardinality(B) \in Nat /\ B = 1..Cardinality(B)
               /\ Len(Picked(arguments, B)) = Cardinality(B)
               /\ \A i \in B : Picked(arguments, B)[i] = arguments[i] /\ Place(A, i) = i
  <1> DEFINE N == Len(c.parameters)
             A == PassedTo(c, seen)
             K == Cardinality(A)
             arguments == Arguments(c, seen)
             B == GoByPlace(c, seen)
             b == Cardinality(B)
  <1>1. /\ N \in Nat /\ DOMAIN c.parameters = 1..N /\ A \in SUBSET (1..N) /\ K \in Nat
        /\ DOMAIN arguments = 1..K
        /\ \A i \in 1..K : Place(A, i) \in A /\ arguments[i].positional = ByPlace(c, Place(A, i), seen)
    BY ArgumentsInOrder
  <1>2. \A n, m \in 1..K : n < m => Place(A, n) < Place(A, m)
    BY <1>1, PlacesInOrder
  <1>3. \A n \in A : n \in 1..N
    BY <1>1
  <1>4. ASSUME NEW n \in A, ByPlace(c, n, seen)
        PROVE  1..n \subseteq A /\ \A j \in 1..n : ByPlace(c, j, seen)
    <2>1. n \in 1..N /\ ~AfterDefault(c, n, seen) /\ c.parameters[n].kind \in {"positional", "either"}
      BY <1>3, <1>4 DEF ByPlace
    <2>2. \A j \in 1..(n - 1) : ~Left(c.parameters[j], c, seen)
      BY <2>1 DEF AfterDefault
    <2>3. \A j \in 1..n : j \in 1..N /\ (j = n \/ j \in 1..(n - 1))
      BY <1>1, <2>1
    <2>4. 1..n \subseteq A
      BY <1>1, <2>2, <2>3 DEF PassedTo
    <2>5. ASSUME NEW j \in 1..n PROVE ByPlace(c, j, seen)
      <3>1. c.parameters[j].kind \in {"positional", "either"}
        BY <1>1, <2>1, <2>3 DEF IsConstructor
      <3>2. ~AfterDefault(c, j, seen)
        <4>1. \A i \in 1..(j - 1) : i \in 1..(n - 1)
          BY <2>1
        <4> QED
          BY <2>2, <4>1 DEF AfterDefault
      <3> QED
        BY <3>1, <3>2 DEF ByPlace
    <2> QED
      BY <2>4, <2>5
  <1>5. \A i \in B : i \in 1..K /\ ByPlace(c, Place(A, i), seen)
    BY <1>1 DEF GoByPlace
  <1>6. \A i \in 1..K : ByPlace(c, Place(A, i), seen) => i \in B
    BY <1>1 DEF GoByPlace
  <1>7. B \in SUBSET (1..K)
    BY <1>1 DEF GoByPlace
  <1> HIDE DEF A, B, K, N
  <1>8. ASSUME NEW i \in B PROVE 1..i \subseteq B /\ Place(A, i) = i
    <2>1. PICK n \in A : n = Place(A, i)
      BY <1>1, <1>5
    <2>2. /\ n \in 1..N /\ 1..n \subseteq A /\ \A j \in 1..n : ByPlace(c, j, seen)
      BY <1>3, <1>4, <1>5, <2>1
    <2>3. ASSUME NEW j \in 1..n PROVE j \in 1..K /\ Place(A, j) = j
      <3>1. n \in Nat /\ N \in Nat /\ A \in SUBSET (1..N) /\ 1..n \subseteq A
        BY <1>1, <2>2
      <3>2. j \in 1..Cardinality(A) /\ Place(A, j) = j
        BY ONLY <3>1, j \in 1..n, FirstPlacesStay
      <3> QED
        BY <3>2 DEF K
    <2>4. n \in 1..K /\ Place(A, n) = n /\ i \in 1..K
      BY <1>1, <1>5, <2>2, <2>3
    <2>5. n = i
      <3>1. ~(n < i) /\ ~(i < n)
        BY <1>1, <1>2, <2>1, <2>2, <2>4
      <3> QED
        BY <1>1, <2>2, <2>4, <3>1
    <2> QED
      BY <1>6, <2>1, <2>2, <2>3, <2>5
  <1>9. b \in Nat /\ B = 1..b /\ \A n \in 1..b : Place(B, n) = n
    BY <1>1, <1>7, <1>8, WithAllBefore
  <1>10. DOMAIN Picked(arguments, B) = 1..b /\ \A n \in 1..b : Picked(arguments, B)[n] = arguments[Place(B, n)]
    BY DEF Picked, Place
  <1>11. Len(Picked(arguments, B)) = b
    <2>1. Picked(arguments, B) \in Seq(ToSet(arguments))
      BY <1>1, <1>7, ArgumentsInOrder, PickedIsSeq
    <2> QED
      BY <1>9, <1>10, <2>1, LenProperties
  <1> HIDE DEF b
  <1>12. \A i \in B : Picked(arguments, B)[i] = arguments[i] /\ Place(A, i) = i
    BY <1>8, <1>9, <1>10
  <1> QED
    BY <1>1, <1>7, <1>9, <1>11, <1>12 DEF A, B, b

\* Each argument reaches the parameter it was made for.
LEMMA ArgumentsReach ==
    ASSUME NEW c, IsConstructor(c), NEW seen, Plannable(c, seen),
           NEW i \in DOMAIN Arguments(c, seen)
    PROVE  Arguments(c, seen)[i] \in Receives(c, Arguments(c, seen), Arguments(c, seen)[i].parameter)
  <1> DEFINE A == PassedTo(c, seen)
             arguments == Arguments(c, seen)
             B == GoByPlace(c, seen)
             b == Cardinality(B)
             byPlace == Picked(arguments, B)
  <1>1. /\ B \subseteq DOMAIN arguments /\ b \in Nat /\ B = 1..b /\ Len(byPlace) = b
        /\ \A j \in B : byPlace[j] = arguments[j] /\ Place(A, j) = j
    BY ByPlaceInOrder
  <1> DEFINE n == Place(A, i)
             kind == c.parameters[n].kind
             byName == {g \in ToSet(arguments) : ~g.positional /\ g.parameter = n}
  <1>2. /\ DOMAIN c.parameters = 1..Len(c.parameters) /\ n \in A /\ n \in DOMAIN c.parameters
        /\ arguments[i].parameter = n /\ arguments[i].positional = ByPlace(c, n, seen)
    BY ArgumentsInOrder
  <1>3. i \in B <=> ByPlace(c, n, seen)
    BY <1>2 DEF GoByPlace
  <1>4. Receives(c, arguments, n) =
           (IF n <= Len(byPlace) /\ kind \in {"positional", "either"} THEN {byPlace[n]} ELSE {})
               \cup (IF kind = "positional" THEN {} ELSE byName)
    BY DEF Receives, GoByPlace
  <1>5. CASE i \in B
    <2>1. n = i /\ byPlace[n] = arguments[i] /\ i \in 1..b
      BY <1>1, <1>5
    <2>2. kind \in {"positional", "either"} /\ n <= Len(byPlace)
      BY <1>1, <1>3, <1>5, <2>1 DEF ByPlace
    <2> HIDE DEF n, byPlace, byName, kind
    <2> QED
      BY <1>2, <1>4, <2>1, <2>2
  <1>6. CASE i \notin B
    <2>1. ~ByPlace(c, n, seen) /\ arguments[i] \in byName
      BY <1>2, <1>3, <1>6 DEF ToSet
    <2>2. kind # "positional"
      <3>1. ~Unreadable(c, seen) /\ ~Left(c.parameters[n], c, seen)
        BY <1>2 DEF Plannable, PassedTo
      <3>2. ~(kind = "positional" /\ AfterDefault(c, n, seen))
        BY <1>2, <3>1 DEF Unreadable
      <3> QED
        BY <2>1, <3>2 DEF ByPlace
    <2> HIDE DEF n, byPlace, byName, kind
    <2> QED
      BY <1>2, <1>4, <2>1, <2>2
  <1> QED
    BY <1>5, <1>6

\* What a parameter receives is the argument that was made for it.
LEMMA ReceivesItsOwn ==
    ASSUME NEW c, IsConstructor(c), NEW seen, NEW n \in DOMAIN c.parameters,
           NEW g \in Receives(c, Arguments(c, seen), n)
    PROVE  \E i \in DOMAIN Arguments(c, seen) :
               g = Arguments(c, seen)[i] /\ g.parameter = n /\ Place(PassedTo(c, seen), i) = n
  <1> DEFINE A == PassedTo(c, seen)
             arguments == Arguments(c, seen)
             B == GoByPlace(c, seen)
             b == Cardinality(B)
             byPlace == Picked(arguments, B)
             byName == {f \in ToSet(arguments) : ~f.positional /\ f.parameter = n}
  <1>1. /\ DOMAIN c.parameters = 1..Len(c.parameters)
        /\ \A i \in DOMAIN arguments : arguments[i].parameter = Place(A, i)
    BY ArgumentsInOrder
  <1>2. /\ B \subseteq DOMAIN arguments /\ b \in Nat /\ B = 1..b /\ Len(byPlace) = b
        /\ \A j \in B : byPlace[j] = arguments[j] /\ Place(A, j) = j
    BY ByPlaceInOrder
  <1>3. g \in byName \/ (n <= Len(byPlace) /\ g = byPlace[n])
    <2>1. Receives(c, arguments, n) =
             (IF n <= Len(byPlace) /\ c.parameters[n].kind \in {"positional", "either"}
              THEN {byPlace[n]} ELSE {})
                 \cup (IF c.parameters[n].kind = "positional" THEN {} ELSE byName)
      BY DEF Receives, GoByPlace
    <2> HIDE DEF byPlace, byName
    <2> QED
      BY <2>1
  <1>4. CASE g \in byName
    <2>1. PICK i \in DOMAIN arguments : g = arguments[i]
      BY <1>4 DEF ToSet
    <2>2. g.parameter = n
      BY <1>4
    <2> QED
      BY <1>1, <2>1, <2>2
  <1>5. CASE n <= Len(byPlace) /\ g = byPlace[n]
    <2>1. n \in B
      <3>1. n \in 1..Len(c.parameters)
        BY <1>1
      <3> HIDE DEF B, b, byPlace
      <3> QED
        BY <1>2, <1>5, <3>1
    <2>2. g = arguments[n] /\ Place(A, n) = n /\ n \in DOMAIN arguments
      BY <1>2, <1>5, <2>1
    <2>3. g.parameter = n
      BY <1>1, <2>2
    <2> HIDE DEF A, arguments, byPlace, byName, B, b
    <2> QED
      BY <2>2, <2>3 DEF A, arguments
  <1> QED
    BY <1>3, <1>4, <1>5

\* A constructor that can be planned is called as Python accepts.
LEMMA EachArgumentArrives ==
    ASSUME NEW c, IsConstructor(c), NEW seen, Plannable(c, seen)
    PROVE  EachArrives(c, seen)
  <1> DEFINE A == PassedTo(c, seen)
             K == Cardinality(A)
             arguments == Arguments(c, seen)
             N == Len(c.parameters)
  <1>1. /\ N \in Nat /\ DOMAIN c.parameters = 1..N /\ A \in SUBSET (1..N) /\ K \in Nat
        /\ DOMAIN arguments = 1..K
        /\ \A i \in 1..K : Place(A, i) \in A /\ arguments[i].parameter = Place(A, i)
    BY ArgumentsInOrder
  <1>2. /\ \A n, m \in 1..K : n < m => Place(A, n) < Place(A, m)
        /\ \A n \in A : \E i \in 1..K : Place(A, i) = n
    BY <1>1, PlacesInOrder
  <1>3. \A i \in 1..K : Place(A, i) \in Nat
    BY <1>1
  <1>4. ASSUME NEW n \in DOMAIN c.parameters, NEW g \in Receives(c, arguments, n),
               NEW f \in Receives(c, arguments, n)
        PROVE  g = f /\ g.parameter = n
    <2>1. PICK i \in 1..K : g = arguments[i] /\ g.parameter = n /\ Place(A, i) = n
      BY <1>1, ReceivesItsOwn
    <2>2. PICK j \in 1..K : f = arguments[j] /\ Place(A, j) = n
      BY <1>1, ReceivesItsOwn
    <2> HIDE DEF K
    <2>3. i = j
      <3>1. ~(i < j) /\ ~(j < i)
        BY <1>2, <1>3, <2>1, <2>2
      <3> QED
        BY <1>1, <3>1
    <2> QED
      BY <2>1, <2>2, <2>3
  <1>5. ASSUME NEW i \in 1..K
        PROVE  /\ arguments[i] \in Receives(c, arguments, arguments[i].parameter)
               /\ arguments[i].parameter \in DOMAIN c.parameters
    BY <1>1, ArgumentsReach
  <1>6. ASSUME NEW n \in DOMAIN c.parameters, Receives(c, arguments, n) = {}
        PROVE  c.parameters[n].default
    <2>1. n \notin A
      <3> SUFFICES ASSUME n \in A PROVE FALSE
        OBVIOUS
      <3>1. PICK i \in 1..K : Place(A, i) = n
        BY <1>2
      <3> QED
        BY <1>1, <1>5, <1>6, <3>1
    <2>2. Left(c.parameters[n], c, seen)
      BY <2>1 DEF PassedTo
    <2> QED
      BY <2>2 DEF Left
  <1>7. \A g \in ToSet(arguments) : \E n \in DOMAIN c.parameters : g \in Receives(c, arguments, n)
    <2> SUFFICES ASSUME NEW g \in ToSet(arguments)
                 PROVE  \E n \in DOMAIN c.parameters : g \in Receives(c, arguments, n)
      OBVIOUS
    <2>1. PICK i \in 1..K : g = arguments[i]
      BY <1>1 DEF ToSet
    <2> QED
      BY <1>5, <2>1
  <1> QED
    BY <1>4, <1>6, <1>7 DEF EachArrives

-----------------------------------------------------------------------------
(* What a constructor's annotations are read as.                             *)

\* A value for each of so many turns, all of one set.
Turning(f, a, F, N, D) ==
    /\ f = [n \in 0..N |-> IF n = 0 THEN a ELSE F[f[n - 1]]]
    /\ \A n \in 0..N : f[n] \in D

LEMMA Turns ==
    ASSUME NEW D, NEW F, IsMap(F, D, D), NEW a \in D, NEW N \in Nat
    PROVE  \E f : Turning(f, a, F, N, D)
  <1> DEFINE T == {k \in 0..N : \E f : Turning(f, a, F, k, D)}
  <1>1. 0 \in T
    <2> DEFINE f == [n \in 0..0 |-> a]
    <2>1. \A n \in 0..0 : n = 0
      OBVIOUS
    <2>2. f = [n \in 0..0 |-> IF n = 0 THEN a ELSE F[f[n - 1]]]
      BY <2>1
    <2>3. \A n \in 0..0 : f[n] \in D
      OBVIOUS
    <2> HIDE DEF f
    <2>4. Turning(f, a, F, 0, D)
      BY <2>2, <2>3 DEF Turning
    <2> QED
      BY <2>4
  <1>2. ASSUME NEW k \in 1..N, NEW f, Turning(f, a, F, k - 1, D)
        PROVE  \E h : Turning(h, a, F, k, D)
    <2> DEFINE h == [n \in 0..k |-> IF n = k THEN F[f[k - 1]] ELSE f[n]]
    <2>1. /\ \A n \in 0..k : n = k \/ n \in 0..(k - 1)
          /\ \A n \in 0..k : n # 0 => n - 1 \in 0..(k - 1) /\ n - 1 # k
          /\ \A n \in 0..(k - 1) : n \in 0..k /\ n # k
          /\ k \in 0..k /\ k # 0 /\ k - 1 \in 0..(k - 1)
      OBVIOUS
    <2>2. /\ \A n \in 0..(k - 1) : f[n] = IF n = 0 THEN a ELSE F[f[n - 1]]
          /\ \A n \in 0..(k - 1) : f[n] \in D
      BY <1>2 DEF Turning
    <2>3. /\ \A n \in 0..(k - 1) : h[n] = f[n]
          /\ h[k] = F[f[k - 1]] /\ DOMAIN h = 0..k /\ h = [n \in 0..k |-> h[n]]
      BY <2>1
    <2>4. F[f[k - 1]] \in D
      BY <2>1, <2>2, MapsTo
    <2> HIDE DEF h
    <2>5. \A n \in 0..k : h[n] \in D
      BY <2>1, <2>2, <2>3, <2>4
    <2>6. ASSUME NEW n \in 0..k PROVE h[n] = IF n = 0 THEN a ELSE F[h[n - 1]]
      <3>1. n # 0 => h[n - 1] = f[n - 1]
        BY <2>1, <2>3
      <3>2. CASE n = k
        BY <2>1, <2>3, <3>1, <3>2
      <3>3. CASE n # k
        BY <2>1, <2>2, <2>3, <3>1, <3>3
      <3> QED
        BY <3>2, <3>3
    <2>7. h = [n \in 0..k |-> IF n = 0 THEN a ELSE F[h[n - 1]]]
      BY <2>3, <2>6
    <2>8. Turning(h, a, F, k, D)
      BY <2>5, <2>7 DEF Turning
    <2> QED
      BY <2>8
  <1>3. \A k \in 1..N : k - 1 \in T => k \in T
    BY <1>2
  <1>4. T \in SUBSET (0..N)
    OBVIOUS
  <1> HIDE DEF T
  <1>5. N \in T
    BY <1>1, <1>3, <1>4, EachPlace
  <1> QED
    BY <1>5 DEF T

\* A name means one annotation at the most.
LEMMA MeansOneThing ==
    ASSUME NEW c, IsConstructor(c), NEW seen, NEW n, NEW z \in Meanings(n, c, seen)
    PROVE  Meanings(n, c, seen) = {z} /\ z \in Annotations
  <1>1. CASE n \in DOMAIN c.globals
    BY <1>1 DEF Meanings, IsConstructor
  <1>2. CASE n \notin DOMAIN c.globals
    <2> DEFINE claimants == {t \in seen \cap Tokens : NameOf[t] = n}
    <2>1. Meanings(n, c, seen) = {Token(t) : t \in {t \in claimants : claimants = {t}}}
      BY <1>2 DEF Meanings
    <2>2. \A t \in claimants : t \in Tokens
      OBVIOUS
    <2> HIDE DEF claimants
    <2>3. PICK t \in claimants : claimants = {t} /\ z = Token(t)
      BY <2>1
    <2>4. z \in Annotations
      BY <2>2, <2>3, AnnotationsAssumption
    <2> QED
      BY <2>1, <2>3, <2>4
  <1> QED
    BY <1>1, <1>2

LEMMA LookedUpIs ==
    ASSUME NEW c, IsConstructor(c), NEW seen, NEW s \in SUBSET Annotations
    PROVE  LookedUp(s, c, seen) \in SUBSET Annotations
  <1>1. \A x \in s : x.is = "name" => Meanings(x.name, c, seen) \subseteq Annotations
    BY MeansOneThing
  <1> QED
    BY <1>1 DEF LookedUp

\* A name is looked up so many times, and an annotation is none after that.
LEMMA DereferencedIs ==
    ASSUME NEW c, IsConstructor(c), NEW seen, NEW a \in Annotations
    PROVE  \E f : /\ f[0] = {a} /\ \A n \in 1..(Rounds - 1) : f[n] = LookedUp(f[n - 1], c, seen)
                  /\ \A n \in 0..(Rounds - 1) : f[n] \subseteq Annotations
                  /\ Dereferenced(a, c, seen) =
                        IF a.is = "name" THEN {x \in f[Rounds - 1] : x.is # "name"} ELSE {a}
  <1> DEFINE D == SUBSET Annotations
             F == [s \in D |-> LookedUp(s, c, seen)]
             Is(f) == f = [n \in 0..(Rounds - 1) |-> IF n = 0 THEN {a} ELSE LookedUp(f[n - 1], c, seen)]
             looked[n \in 0..(Rounds - 1)] == IF n = 0 THEN {a} ELSE LookedUp(looked[n - 1], c, seen)
  <1>1. Rounds - 1 \in Nat /\ \A n \in 0..(Rounds - 1) : n # 0 => n - 1 \in 0..(Rounds - 1)
    BY DEF Rounds
  <1>2. Dereferenced(a, c, seen) =
            IF a.is = "name" THEN {x \in looked[Rounds - 1] : x.is # "name"} ELSE {a}
    BY DEF Dereferenced
  <1>3. \E f : Is(f)
    <2>1. IsMap(F, D, D)
      <3>1. \A s \in D : LookedUp(s, c, seen) \in D
        BY LookedUpIs
      <3> QED
        BY <3>1 DEF IsMap
    <2>2. {a} \in D /\ \A s \in D : F[s] = LookedUp(s, c, seen)
      OBVIOUS
    <2> HIDE DEF D, F
    <2>3. PICK f : Turning(f, {a}, F, Rounds - 1, D)
      BY <1>1, <2>1, <2>2, Turns
    <2>4. \A n \in 0..(Rounds - 1) : n # 0 => F[f[n - 1]] = LookedUp(f[n - 1], c, seen)
      BY <1>1, <2>2, <2>3 DEF Turning
    <2>5. f = [n \in 0..(Rounds - 1) |-> IF n = 0 THEN {a} ELSE F[f[n - 1]]]
      BY <2>3 DEF Turning
    <2>6. Is(f)
      BY <2>4, <2>5
    <2> QED
      BY <2>6
  <1>4. looked = CHOOSE f : Is(f)
    OBVIOUS
  <1>5. Is(looked)
    <2> HIDE DEF Is, looked
    <2> QED
      BY <1>3, <1>4
  <1> HIDE DEF looked
  <1>6. \A n \in 0..(Rounds - 1) : looked[n] = IF n = 0 THEN {a} ELSE LookedUp(looked[n - 1], c, seen)
    BY <1>5
  <1>7. looked[0] = {a} /\ \A n \in 1..(Rounds - 1) : looked[n] = LookedUp(looked[n - 1], c, seen)
    BY <1>1, <1>6
  <1>8. \A n \in 0..(Rounds - 1) : looked[n] \subseteq Annotations
    <2> DEFINE T == {n \in 0..(Rounds - 1) : looked[n] \subseteq Annotations}
    <2>1. 0 \in T
      BY <1>1, <1>7
    <2>2. \A n \in 1..(Rounds - 1) : n - 1 \in T => n \in T
      BY <1>1, <1>7, LookedUpIs
    <2>3. T \in SUBSET (0..(Rounds - 1))
      OBVIOUS
    <2>4. T = 0..(Rounds - 1)
      <3> HIDE DEF T
      <3> QED
        BY <1>1, <2>1, <2>2, <2>3, EachPlace
    <2> QED
      BY <2>4
  <1> HIDE DEF Is
  <1> QED
    BY <1>2, <1>7, <1>8

LEMMA DereferencedStays ==
    ASSUME NEW c, IsConstructor(c), NEW seen, NEW a \in Annotations
    PROVE  Dereferenced(a, c, seen) \subseteq Annotations
  <1>1. PICK f : /\ \A n \in 0..(Rounds - 1) : f[n] \subseteq Annotations
                 /\ Dereferenced(a, c, seen) =
                        IF a.is = "name" THEN {x \in f[Rounds - 1] : x.is # "name"} ELSE {a}
    BY DereferencedIs
  <1>2. Rounds - 1 \in 0..(Rounds - 1)
    BY DEF Rounds
  <1> QED
    BY <1>1, <1>2

\* All that an annotation leads to, one step after the other.
LeadsOn(g, a, c, seen) ==
    g[0] = {a} /\ \A i \in 1..(Rounds * Layers) : g[i] = WithBeneath(g[i - 1], c, seen)

LEMMA WithBeneathIs ==
    ASSUME NEW c, IsConstructor(c), NEW seen, NEW s \in SUBSET Annotations
    PROVE  WithBeneath(s, c, seen) \in SUBSET Annotations
  <1>1. ASSUME NEW x \in s PROVE Beneath(x, c, seen) \subseteq Annotations
    <2>1. CASE x.is = "name"
      BY <2>1, MeansOneThing DEF Beneath
    <2>2. CASE x.is = "annotated"
      BY <2>2, AnnotationsAssumption DEF Beneath
    <2>3. CASE x.is = "union" /\ x.none
      <3>1. ToSet(x.members) \subseteq Annotations
        BY <2>3, AnnotationsAssumption, OwnEntries
      <3> QED
        BY <2>3, <3>1 DEF Beneath
    <2>4. CASE x.is \notin {"name", "annotated"} /\ ~(x.is = "union" /\ x.none)
      BY <2>4 DEF Beneath
    <2> QED
      BY <2>1, <2>2, <2>3, <2>4
  <1> QED
    BY <1>1 DEF WithBeneath

LEMMA LeadsToIs ==
    ASSUME NEW c, IsConstructor(c), NEW seen, NEW a \in Annotations
    PROVE  \E g : LeadsOn(g, a, c, seen) /\ LeadsTo(a, c, seen) = g[Rounds * Layers]
  <1> DEFINE N == Rounds * Layers
             D == SUBSET Annotations
             F == [s \in D |-> WithBeneath(s, c, seen)]
             Is(f) == f = [i \in 0..(Rounds * Layers) |-> IF i = 0 THEN {a} ELSE WithBeneath(f[i - 1], c, seen)]
             grown[i \in 0..(Rounds * Layers)] ==
                 IF i = 0 THEN {a} ELSE WithBeneath(grown[i - 1], c, seen)
  <1>1. N \in Nat /\ N = Rounds * Layers
    BY ConstructorsAssumption DEF Rounds
  <1>2. LeadsTo(a, c, seen) = grown[N]
    BY DEF LeadsTo
  <1>3. \E f : Is(f)
    <2>1. IsMap(F, D, D)
      <3>1. \A s \in D : WithBeneath(s, c, seen) \in D
        BY WithBeneathIs
      <3> QED
        BY <3>1 DEF IsMap
    <2>2. {a} \in D /\ \A s \in D : F[s] = WithBeneath(s, c, seen)
      OBVIOUS
    <2> HIDE DEF D, F, N
    <2>3. PICK f : Turning(f, {a}, F, N, D)
      BY <1>1, <2>1, <2>2, Turns
    <2>4. \A n \in 0..N : n # 0 => n - 1 \in 0..N
      BY <1>1
    <2>5. \A n \in 0..N : n # 0 => F[f[n - 1]] = WithBeneath(f[n - 1], c, seen)
      BY <2>2, <2>3, <2>4 DEF Turning
    <2>6. f = [n \in 0..N |-> IF n = 0 THEN {a} ELSE F[f[n - 1]]]
      BY <2>3 DEF Turning
    <2>7. f = [n \in 0..N |-> IF n = 0 THEN {a} ELSE WithBeneath(f[n - 1], c, seen)]
      BY <2>5, <2>6
    <2>8. Is(f)
      BY <2>7 DEF N
    <2> QED
      BY <2>8
  <1>4. grown = CHOOSE f : Is(f)
    OBVIOUS
  <1>5. Is(grown)
    <2> HIDE DEF Is, grown
    <2> QED
      BY <1>3, <1>4
  <1> HIDE DEF grown
  <1>6. grown = [i \in 0..N |-> IF i = 0 THEN {a} ELSE WithBeneath(grown[i - 1], c, seen)]
    BY <1>5
  <1> HIDE DEF N, Is
  <1>7. grown[0] = {a} /\ \A i \in 1..N : grown[i] = WithBeneath(grown[i - 1], c, seen)
    <2>1. 0 \in 0..N /\ \A i \in 1..N : i \in 0..N /\ i # 0
      BY <1>1
    <2> QED
      BY <1>6, <2>1
  <1>8. LeadsOn(grown, a, c, seen)
    BY <1>1, <1>7 DEF LeadsOn
  <1> QED
    BY <1>1, <1>2, <1>8

MarkedBy(X) == UNION {ToSet(x.inject) : x \in {x \in X : x.is = "annotated"}}
AllowsNone(x) == (x.is = "union" /\ x.none) \/ (x.is = "annotated" /\ x.optional)

\* A reading that came to y by way of X: all of X leads on to it, and marks it so.
ByWayOf(X, y, inject, optional, c, seen) ==
    /\ \A x \in X : x.is # "token" /\ Beneath(x, c, seen) \subseteq X \cup {y}
    /\ MarkedBy(X) = ToSet(inject)
    /\ optional => \E x \in X : AllowsNone(x)

\* So it came to y in no more than `within` steps.
Comes(g, y, inject, optional, within, c, seen) ==
    /\ y \in Annotations
    /\ \E j \in 0..within : \E X : g[j] = X \cup {y} /\ ByWayOf(X, y, inject, optional, c, seen)

LEMMA ComesLater ==
    ASSUME NEW g, NEW y, NEW inject, NEW optional, NEW c, NEW seen,
           NEW m \in Nat, NEW n \in Nat, m <= n, Comes(g, y, inject, optional, m, c, seen)
    PROVE  Comes(g, y, inject, optional, n, c, seen)
  <1>1. \A j \in 0..m : j \in 0..n
    OBVIOUS
  <1> QED
    BY <1>1 DEF Comes

\* One step further, where there is one.
LEMMA ComesFurther ==
    ASSUME NEW g, NEW a, NEW c, NEW seen, LeadsOn(g, a, c, seen),
           NEW y, NEW inject, NEW optional, NEW m \in Nat, m < Rounds * Layers,
           Comes(g, y, inject, optional, m, c, seen), y.is # "token",
           NEW z \in Annotations, Beneath(y, c, seen) = {z},
           NEW marks, ToSet(marks) = ToSet(inject) \cup MarkedBy({y}),
           NEW allows, allows => optional \/ AllowsNone(y)
    PROVE  Comes(g, z, marks, allows, m + 1, c, seen)
  <1>0. PICK j \in 0..m : \E X : g[j] = X \cup {y} /\ ByWayOf(X, y, inject, optional, c, seen)
    BY DEF Comes
  <1>1. PICK X : g[j] = X \cup {y} /\ ByWayOf(X, y, inject, optional, c, seen)
    BY <1>0
  <1> DEFINE Y == X \cup {y}
  <1>2. /\ \A x \in X : x.is # "token" /\ Beneath(x, c, seen) \subseteq Y
        /\ MarkedBy(X) = ToSet(inject)
        /\ optional => \E x \in X : AllowsNone(x)
    BY <1>1 DEF ByWayOf
  <1>3. j + 1 \in 1..(Rounds * Layers) /\ j + 1 \in 0..(m + 1) /\ (j + 1) - 1 = j
    BY ConstructorsAssumption DEF Rounds
  <1>4. g[j + 1] = Y \cup {z}
    <2>1. g[j + 1] = WithBeneath(g[j], c, seen)
      BY <1>3 DEF LeadsOn
    <2>2. WithBeneath(Y, c, seen) = Y \cup {z}
      <3>1. \A x \in Y : Beneath(x, c, seen) \subseteq Y \cup {z}
        BY <1>2
      <3>2. y \in Y
        OBVIOUS
      <3> HIDE DEF Y
      <3> QED
        BY <3>1, <3>2 DEF WithBeneath
    <2> QED
      BY <1>1, <2>1, <2>2
  <1>5. MarkedBy(Y) = ToSet(marks)
    <2>1. MarkedBy(Y) = MarkedBy(X) \cup MarkedBy({y})
      BY DEF MarkedBy
    <2> QED
      BY <1>2, <2>1
  <1>6. allows => \E x \in Y : AllowsNone(x)
    BY <1>2
  <1>7. \A x \in Y : x.is # "token" /\ Beneath(x, c, seen) \subseteq Y \cup {z}
    BY <1>2
  <1> HIDE DEF Y
  <1>8. ByWayOf(Y, z, marks, allows, c, seen)
    BY <1>5, <1>6, <1>7 DEF ByWayOf
  <1> QED
    BY <1>3, <1>4, <1>8 DEF Comes

\* Names are followed, and mark nothing.
LEMMA ComesToItsMeaning ==
    ASSUME NEW c, IsConstructor(c), NEW seen, NEW g, NEW a, LeadsOn(g, a, c, seen),
           NEW y, NEW inject, NEW optional \in BOOLEAN, NEW m \in Nat, m + Rounds - 1 <= Rounds * Layers,
           Comes(g, y, inject, optional, m, c, seen), NEW z \in Dereferenced(y, c, seen)
    PROVE  Comes(g, z, inject, optional, m + Rounds - 1, c, seen)
  <1> DEFINE N == Rounds - 1
  <1>1. y \in Annotations
    BY DEF Comes
  <1>2. PICK f : /\ f[0] = {y} /\ \A n \in 1..N : f[n] = LookedUp(f[n - 1], c, seen)
                 /\ Dereferenced(y, c, seen) =
                       IF y.is = "name" THEN {x \in f[N] : x.is # "name"} ELSE {y}
    BY <1>1, DereferencedIs
  <1>3. /\ N \in Nat /\ m + N <= Rounds * Layers /\ Rounds * Layers \in Nat
        /\ m + Rounds - 1 = m + N /\ m <= m + N
    BY ConstructorsAssumption DEF Rounds
  <1> HIDE DEF N
  <1> DEFINE T == {n \in 0..N : \A x \in f[n] : Comes(g, x, inject, optional, m + n, c, seen)}
  <1>4. 0 \in T
    BY <1>2, <1>3
  <1>5. ASSUME NEW n \in 1..N, n - 1 \in T PROVE n \in T
    <2>0. m + (n - 1) \in Nat /\ m + n \in Nat /\ (m + (n - 1)) + 1 = m + n
          /\ m + (n - 1) < Rounds * Layers /\ m + (n - 1) <= m + n /\ n \in 0..N
      BY <1>3
    <2> SUFFICES ASSUME NEW x \in f[n] PROVE Comes(g, x, inject, optional, m + n, c, seen)
      BY <2>0
    <2>1. PICK w \in f[n - 1] : x \in IF w.is = "name" THEN Meanings(w.name, c, seen) ELSE {w}
      BY <1>2 DEF LookedUp
    <2>2. Comes(g, w, inject, optional, m + (n - 1), c, seen)
      BY <1>5
    <2>3. CASE w.is = "name"
      <3>1. Beneath(w, c, seen) = {x} /\ x \in Annotations
        BY <2>1, <2>3, MeansOneThing DEF Beneath
      <3>2. ToSet(inject) = ToSet(inject) \cup MarkedBy({w})
        BY <2>3 DEF MarkedBy
      <3>3. Comes(g, x, inject, optional, (m + (n - 1)) + 1, c, seen)
        BY <2>0, <2>2, <2>3, <3>1, <3>2, ComesFurther
      <3> QED
        BY <2>0, <3>3
    <2>4. CASE w.is # "name"
      BY <2>0, <2>1, <2>2, <2>4, ComesLater
    <2> QED
      BY <2>3, <2>4
  <1>6. T \in SUBSET (0..N)
    OBVIOUS
  <1> HIDE DEF T
  <1>7. N \in T
    <2>1. T = 0..N
      BY <1>3, <1>4, <1>5, <1>6, EachPlace
    <2> QED
      BY <1>3, <2>1
  <1>8. \A x \in f[N] : Comes(g, x, inject, optional, m + N, c, seen)
    BY <1>7 DEF T
  <1>9. CASE y.is = "name"
    BY <1>2, <1>3, <1>8, <1>9
  <1>10. CASE y.is # "name"
    BY <1>2, <1>3, <1>10, ComesLater
  <1> QED
    BY <1>9, <1>10

\* What an annotation may be read as.
Readings ==
    {Reading(x, i, o) : x \in Annotations, i \in Seq(MarkedBy(Annotations)), o \in BOOLEAN}

LEMMA ReadingIs ==
    /\ \A x \in Annotations, i \in Seq(MarkedBy(Annotations)), o \in BOOLEAN :
          /\ Reading(x, i, o) \in Readings /\ Reading(x, i, o).of = x
          /\ Reading(x, i, o).inject = i /\ Reading(x, i, o).optional = o
    /\ \A r \in Readings :
          r.of \in Annotations /\ r.inject \in Seq(MarkedBy(Annotations)) /\ r.optional \in BOOLEAN
  <1>1. \A x, i, o : Reading(x, i, o).of = x /\ Reading(x, i, o).inject = i /\ Reading(x, i, o).optional = o
    BY DEF Reading
  <1>2. \A x \in Annotations, i \in Seq(MarkedBy(Annotations)), o \in BOOLEAN : Reading(x, i, o) \in Readings
    BY DEF Readings
  <1>3. ASSUME NEW r \in Readings
        PROVE  r.of \in Annotations /\ r.inject \in Seq(MarkedBy(Annotations)) /\ r.optional \in BOOLEAN
    <2>1. PICK x \in Annotations, i \in Seq(MarkedBy(Annotations)), o \in BOOLEAN : r = Reading(x, i, o)
      BY DEF Readings
    <2> QED
      BY <1>1, <2>1
  <1> QED
    BY <1>1, <1>2, <1>3

\* What is left of a reading when the metadata of e, or the None in it, is taken off.
Unmarks(r, e, s) ==
    /\ e.is = "annotated" /\ e.of \in Annotations
    /\ r.inject \o e.inject \in Seq(MarkedBy(Annotations))
    /\ ToSet(r.inject \o e.inject) = ToSet(r.inject) \cup MarkedBy({e})
    /\ s = Reading(e.of, r.inject \o e.inject, r.optional \/ e.optional)
Unites(r, e, s) ==
    /\ e.is = "union" /\ e.none
    /\ \E x \in Annotations : ToSet(e.members) = {x} /\ s = Reading(x, r.inject, TRUE)

LEMMA StrippedIs ==
    ASSUME NEW c, IsConstructor(c), NEW seen, NEW r \in Readings, NEW s \in Stripped(r, c, seen)
    PROVE  \E e \in Dereferenced(r.of, c, seen) :
              Unmarks(r, e, s) \/ Unites(r, e, s) \/ s = Reading(e, r.inject, r.optional)
  <1>1. PICK e \in Dereferenced(r.of, c, seen) :
            s \in CASE e.is = "annotated" ->
                         {Reading(e.of, r.inject \o e.inject, r.optional \/ e.optional)}
                    [] e.is = "union" /\ e.none ->
                         {Reading(x, r.inject, TRUE) : x \in IF Len(e.members) = 1 THEN ToSet(e.members) ELSE {}}
                    [] OTHER -> {Reading(e, r.inject, r.optional)}
    BY DEF Stripped
  <1>2. e \in Annotations /\ r.inject \in Seq(MarkedBy(Annotations))
    <2>1. r.of \in Annotations /\ r.inject \in Seq(MarkedBy(Annotations))
      BY ReadingIs
    <2> QED
      BY <2>1, DereferencedStays
  <1>3. CASE e.is = "annotated"
    <2>1. s = Reading(e.of, r.inject \o e.inject, r.optional \/ e.optional)
      BY <1>1, <1>3
    <2>2. e.of \in Annotations /\ e.inject \in Seq(ToSet(e.inject))
      BY <1>2, <1>3, AnnotationsAssumption
    <2>3. MarkedBy({e}) = ToSet(e.inject) /\ ToSet(e.inject) \subseteq MarkedBy(Annotations)
      BY <1>2, <1>3 DEF MarkedBy
    <2>4. e.inject \in Seq(MarkedBy(Annotations))
      BY <2>2, <2>3, SeqMonotonic
    <2>5. /\ r.inject \o e.inject \in Seq(MarkedBy(Annotations))
          /\ ToSet(r.inject \o e.inject) = ToSet(r.inject) \cup ToSet(e.inject)
      BY <1>2, <2>4, ConcatIsSeq
    <2> QED
      BY <1>3, <2>1, <2>2, <2>3, <2>5 DEF Unmarks
  <1>4. CASE e.is = "union" /\ e.none
    <2>1. PICK x \in ToSet(e.members) : Len(e.members) = 1 /\ s = Reading(x, r.inject, TRUE)
      BY <1>1, <1>4
    <2>2. e.members \in Seq(Annotations)
      BY <1>2, <1>4, AnnotationsAssumption
    <2>3. ToSet(e.members) \subseteq Annotations
      BY <2>2, OwnEntries
    <2>4. ToSet(e.members) = {x}
      <3>1. DOMAIN e.members = 1..1
        BY <2>1, <2>2, LenProperties
      <3>2. \A n \in 1..1 : n = 1
        OBVIOUS
      <3> QED
        BY <2>1, <3>1, <3>2 DEF ToSet
    <2> QED
      BY <1>4, <2>1, <2>3, <2>4 DEF Unites
  <1>5. CASE e.is # "annotated" /\ ~(e.is = "union" /\ e.none)
    BY <1>1, <1>5
  <1> QED
    BY <1>3, <1>4, <1>5

LEMMA StrippedStays ==
    ASSUME NEW c, IsConstructor(c), NEW seen, NEW r \in Readings, NEW s \in Stripped(r, c, seen)
    PROVE  s \in Readings
  <1>1. PICK e \in Dereferenced(r.of, c, seen) :
            Unmarks(r, e, s) \/ Unites(r, e, s) \/ s = Reading(e, r.inject, r.optional)
    BY StrippedIs
  <1>2. r.of \in Annotations /\ r.inject \in Seq(MarkedBy(Annotations)) /\ r.optional \in BOOLEAN
    BY ReadingIs
  <1>3. e \in Annotations
    BY <1>2, DereferencedStays
  <1>4. CASE Unmarks(r, e, s)
    <2>1. PICK i \in Seq(MarkedBy(Annotations)), o \in BOOLEAN : s = Reading(e.of, i, o)
      BY <1>4 DEF Unmarks
    <2>2. e.of \in Annotations
      BY <1>4 DEF Unmarks
    <2> QED
      BY <2>1, <2>2, ReadingIs
  <1>5. CASE Unites(r, e, s)
    <2>1. PICK x \in Annotations : s = Reading(x, r.inject, TRUE)
      BY <1>5 DEF Unites
    <2>2. TRUE \in BOOLEAN
      OBVIOUS
    <2> QED
      BY <1>2, <2>1, <2>2, ReadingIs
  <1>6. CASE s = Reading(e, r.inject, r.optional)
    BY <1>2, <1>3, <1>6, ReadingIs
  <1> QED
    BY <1>1, <1>4, <1>5, <1>6

\* One turn comes as much further.
LEMMA StrippedComes ==
    ASSUME NEW c, IsConstructor(c), NEW seen, NEW g, NEW a, LeadsOn(g, a, c, seen),
           NEW r \in Readings, NEW m \in Nat, m + Rounds <= Rounds * Layers,
           Comes(g, r.of, r.inject, r.optional, m, c, seen), NEW s \in Stripped(r, c, seen)
    PROVE  Comes(g, s.of, s.inject, s.optional, m + Rounds, c, seen)
  <1>1. r.of \in Annotations /\ r.inject \in Seq(MarkedBy(Annotations)) /\ r.optional \in BOOLEAN
    BY ReadingIs
  <1>2. PICK e \in Dereferenced(r.of, c, seen) :
            Unmarks(r, e, s) \/ Unites(r, e, s) \/ s = Reading(e, r.inject, r.optional)
    BY StrippedIs
  <1>3. /\ m + Rounds - 1 \in Nat /\ m + Rounds - 1 < Rounds * Layers /\ m + Rounds \in Nat
        /\ (m + Rounds - 1) + 1 = m + Rounds /\ m + Rounds - 1 <= m + Rounds
        /\ m + Rounds - 1 <= Rounds * Layers
    BY ConstructorsAssumption DEF Rounds
  <1>4. Comes(g, e, r.inject, r.optional, m + Rounds - 1, c, seen)
    BY <1>1, <1>3, ComesToItsMeaning
  <1>5. CASE Unmarks(r, e, s)
    <2>0. /\ e.is = "annotated" /\ e.of \in Annotations
          /\ ToSet(r.inject \o e.inject) = ToSet(r.inject) \cup MarkedBy({e})
          /\ s = Reading(e.of, r.inject \o e.inject, r.optional \/ e.optional)
      BY <1>5 DEF Unmarks
    <2>1. s.of = e.of /\ s.inject = r.inject \o e.inject /\ s.optional = (r.optional \/ e.optional)
      BY <2>0 DEF Reading
    <2>2. Beneath(e, c, seen) = {e.of} /\ e.is # "token"
      BY <2>0 DEF Beneath
    <2>3. s.optional => r.optional \/ AllowsNone(e)
      BY <2>0, <2>1 DEF AllowsNone
    <2> QED
      BY <1>3, <1>4, <2>0, <2>1, <2>2, <2>3, ComesFurther
  <1>6. CASE Unites(r, e, s)
    <2>1. PICK x \in Annotations : /\ e.is = "union" /\ e.none
                                   /\ ToSet(e.members) = {x} /\ s = Reading(x, r.inject, TRUE)
      BY <1>6 DEF Unites
    <2>2. s.of = x /\ s.inject = r.inject /\ s.optional = TRUE
      BY <2>1 DEF Reading
    <2>3. Beneath(e, c, seen) = {x} /\ e.is # "token"
      BY <2>1 DEF Beneath
    <2>4. AllowsNone(e)
      BY <2>1 DEF AllowsNone
    <2>5. ToSet(r.inject) = ToSet(r.inject) \cup MarkedBy({e})
      BY <2>1 DEF MarkedBy
    <2> QED
      BY <1>3, <1>4, <2>2, <2>3, <2>4, <2>5, ComesFurther
  <1>7. CASE s = Reading(e, r.inject, r.optional)
    <2>1. s.of = e /\ s.inject = r.inject /\ s.optional = r.optional
      BY <1>7 DEF Reading
    <2> QED
      BY <1>3, <1>4, <2>1, ComesLater
  <1> QED
    BY <1>2, <1>5, <1>6, <1>7

\* The reading a requirement is made of came all the way.
IsBare(r) == r.of.is = "token" \/ (r.of.is = "union" /\ ~r.of.none)
States(q, r) ==
    /\ q.token = IF r.inject # <<>> THEN r.inject[1] ELSE IF r.of.is = "token" THEN r.of.token ELSE Opaque
    /\ q.optional = r.optional
StatedBy(s) ==
    {[token |-> IF r.inject # <<>> THEN r.inject[1]
                ELSE IF r.of.is = "token" THEN r.of.token ELSE Opaque,
      optional |-> r.optional] : r \in {r \in {r \in s : IsBare(r)} : Len(r.inject) <= 1}}
ComesAsRead(g, r, within, c, seen) == Comes(g, r.of, r.inject, r.optional, within, c, seen)

LEMMA StrippedAllStays ==
    ASSUME NEW c, IsConstructor(c), NEW seen
    PROVE  \A s \in SUBSET Readings : StrippedAll(s, c, seen) \in SUBSET Readings
  BY StrippedStays DEF StrippedAll

\* The layers around an annotation are taken off, one after the other.
IsLayered(f, a, c, seen) ==
    /\ f[0] = {Reading(a, <<>>, FALSE)}
    /\ \A n \in 1..Layers : f[n] = StrippedAll(f[n - 1], c, seen)
    /\ \A n \in 0..Layers : f[n] \subseteq Readings
    /\ Requirement(a, c, seen) = StatedBy(f[Layers])

LEMMA LayersAre ==
    ASSUME NEW c, IsConstructor(c), NEW seen, NEW a \in Annotations
    PROVE  \E f : IsLayered(f, a, c, seen)
  <1> DEFINE D == SUBSET Readings
             F == [s \in D |-> StrippedAll(s, c, seen)]
             start == {Reading(a, <<>>, FALSE)}
             Is(f) == f = [n \in 0..Layers |->
                              IF n = 0 THEN {Reading(a, <<>>, FALSE)} ELSE StrippedAll(f[n - 1], c, seen)]
             layer[n \in 0..Layers] ==
                 IF n = 0 THEN {Reading(a, <<>>, FALSE)} ELSE StrippedAll(layer[n - 1], c, seen)
  <1>1. Layers \in Nat /\ \A n \in 0..Layers : n # 0 => n - 1 \in 0..Layers
    BY ConstructorsAssumption
  <1>2. Requirement(a, c, seen) = StatedBy(layer[Layers])
    BY DEF Requirement, StatedBy, IsBare
  <1>3. \E f : Is(f)
    <2>1. IsMap(F, D, D)
      <3>1. \A s \in D : StrippedAll(s, c, seen) \in D
        BY StrippedAllStays
      <3> QED
        BY <3>1 DEF IsMap
    <2>2. start \in D /\ \A s \in D : F[s] = StrippedAll(s, c, seen)
      <3>1. <<>> \in Seq(MarkedBy(Annotations)) /\ FALSE \in BOOLEAN
        OBVIOUS
      <3>2. Reading(a, <<>>, FALSE) \in Readings
        BY <3>1, ReadingIs
      <3> QED
        BY <3>2
    <2>0. start = {Reading(a, <<>>, FALSE)}
      OBVIOUS
    <2> HIDE DEF D, F, start
    <2>3. PICK f : Turning(f, start, F, Layers, D)
      BY <1>1, <2>1, <2>2, Turns
    <2>4. \A n \in 0..Layers : n # 0 => F[f[n - 1]] = StrippedAll(f[n - 1], c, seen)
      BY <1>1, <2>2, <2>3 DEF Turning
    <2>5. f = [n \in 0..Layers |-> IF n = 0 THEN start ELSE F[f[n - 1]]]
      BY <2>3 DEF Turning
    <2>6. Is(f)
      BY <2>0, <2>4, <2>5
    <2> QED
      BY <2>6
  <1>4. layer = CHOOSE f : Is(f)
    OBVIOUS
  <1>5. Is(layer)
    <2> HIDE DEF Is, layer
    <2> QED
      BY <1>3, <1>4
  <1> HIDE DEF layer
  <1>6. layer[0] = start /\ \A n \in 1..Layers : layer[n] = StrippedAll(layer[n - 1], c, seen)
    <2>1. \A n \in 0..Layers : layer[n] = IF n = 0 THEN start ELSE StrippedAll(layer[n - 1], c, seen)
      BY <1>5
    <2>2. 0 \in 0..Layers /\ \A n \in 1..Layers : n \in 0..Layers /\ n # 0
      BY <1>1
    <2> QED
      BY <2>1, <2>2
  <1>7. \A n \in 0..Layers : layer[n] \subseteq Readings
    <2> DEFINE T == {n \in 0..Layers : layer[n] \subseteq Readings}
    <2>0. 0 \in 0..Layers /\ \A n \in 1..Layers : n \in 0..Layers
      BY <1>1
    <2>1. 0 \in T
      <3>1. start \subseteq Readings
        <4>1. <<>> \in Seq(MarkedBy(Annotations)) /\ FALSE \in BOOLEAN
          OBVIOUS
        <4>2. Reading(a, <<>>, FALSE) \in Readings
          BY <4>1, ReadingIs
        <4> QED
          BY <4>2
      <3> QED
        BY <1>6, <2>0, <3>1
    <2>2. \A n \in 1..Layers : n - 1 \in T => n \in T
      BY <1>6, <2>0, StrippedAllStays
    <2>3. T \in SUBSET (0..Layers)
      OBVIOUS
    <2>4. T = 0..Layers
      <3> HIDE DEF T
      <3> QED
        BY <1>1, <2>1, <2>2, <2>3, EachPlace
    <2> QED
      BY <2>4
  <1> HIDE DEF Is
  <1>8. /\ layer[0] = {Reading(a, <<>>, FALSE)} /\ Requirement(a, c, seen) = StatedBy(layer[Layers])
        /\ \A n \in 1..Layers : layer[n] = StrippedAll(layer[n - 1], c, seen)
    BY <1>2, <1>6
  <1> QED
    BY <1>7, <1>8 DEF IsLayered

LEMMA RequirementIs ==
    ASSUME NEW c, IsConstructor(c), NEW seen, NEW a \in Annotations, NEW g, LeadsOn(g, a, c, seen),
           NEW q \in Requirement(a, c, seen)
    PROVE  \E r \in Readings : /\ ComesAsRead(g, r, Rounds * Layers, c, seen)
                               /\ IsBare(r) /\ Len(r.inject) <= 1 /\ States(q, r)
  <1>0. PICK f : IsLayered(f, a, c, seen)
    BY LayersAre
  <1>1. /\ f[0] = {Reading(a, <<>>, FALSE)}
        /\ \A n \in 1..Layers : f[n] = StrippedAll(f[n - 1], c, seen)
        /\ \A n \in 0..Layers : f[n] \subseteq Readings
        /\ Requirement(a, c, seen) = StatedBy(f[Layers])
    BY <1>0 DEF IsLayered
  <1>2. /\ Layers \in Nat /\ 0 \in 0..Layers /\ Layers \in 0..Layers
        /\ \A n \in 1..Layers : n \in 0..Layers /\ n - 1 \in 0..Layers
    BY ConstructorsAssumption
  <1> DEFINE T == {n \in 0..Layers : \A r \in f[n] : ComesAsRead(g, r, Rounds * n, c, seen)}
  <1>3. 0 \in T
    <2> DEFINE r == Reading(a, <<>>, FALSE)
    <2>1. r.of = a /\ r.inject = <<>> /\ r.optional = FALSE
      BY DEF Reading
    <2>2. ByWayOf({}, a, <<>>, FALSE, c, seen)
      BY DEF ByWayOf, MarkedBy, ToSet
    <2>3. g[0] = {} \cup {a}
      BY DEF LeadsOn
    <2>4. Rounds * 0 = 0 /\ 0 \in 0..0
      BY DEF Rounds
    <2>5. Comes(g, a, <<>>, FALSE, 0, c, seen)
      BY <2>2, <2>3, <2>4 DEF Comes
    <2>6. ComesAsRead(g, r, Rounds * 0, c, seen)
      BY <2>1, <2>4, <2>5 DEF ComesAsRead
    <2> QED
      BY <1>1, <1>2, <2>6
  <1>4. ASSUME NEW n \in 1..Layers, n - 1 \in T PROVE n \in T
    <2>1. /\ Rounds * (n - 1) \in Nat /\ Rounds * (n - 1) + Rounds = Rounds * n
          /\ Rounds * (n - 1) + Rounds <= Rounds * Layers
      BY <1>2 DEF Rounds
    <2> SUFFICES ASSUME NEW s \in f[n] PROVE ComesAsRead(g, s, Rounds * n, c, seen)
      BY <1>2
    <2>2. PICK r \in f[n - 1] : s \in Stripped(r, c, seen)
      BY <1>1 DEF StrippedAll
    <2>3. r \in Readings /\ ComesAsRead(g, r, Rounds * (n - 1), c, seen)
      BY <1>1, <1>2, <1>4
    <2>4. Comes(g, r.of, r.inject, r.optional, Rounds * (n - 1), c, seen)
      BY <2>3 DEF ComesAsRead
    <2>5. Comes(g, s.of, s.inject, s.optional, Rounds * (n - 1) + Rounds, c, seen)
      BY <2>1, <2>2, <2>3, <2>4, StrippedComes
    <2> QED
      BY <2>1, <2>5 DEF ComesAsRead
  <1>5. T \in SUBSET (0..Layers)
    OBVIOUS
  <1> HIDE DEF T
  <1>6. Layers \in T
    <2>1. T = 0..Layers
      BY <1>2, <1>3, <1>4, <1>5, EachPlace
    <2> QED
      BY <1>2, <2>1
  <1>7. \A r \in f[Layers] : ComesAsRead(g, r, Rounds * Layers, c, seen)
    BY <1>6 DEF T
  <1>8. PICK r \in f[Layers] : /\ IsBare(r) /\ Len(r.inject) <= 1
                               /\ q = [token |-> IF r.inject # <<>> THEN r.inject[1]
                                                 ELSE IF r.of.is = "token" THEN r.of.token ELSE Opaque,
                                       optional |-> r.optional]
    BY <1>1 DEF StatedBy
  <1>9. States(q, r)
    BY <1>8 DEF States
  <1>10. r \in Readings
    BY <1>1, <1>2
  <1> QED
    BY <1>7, <1>8, <1>9, <1>10

\* Where a reading ends nothing more is led to.
LEMMA ComesToAnEnd ==
    ASSUME NEW c, NEW seen, NEW g, NEW a, LeadsOn(g, a, c, seen),
           NEW y, NEW inject, NEW optional, Beneath(y, c, seen) = {},
           Comes(g, y, inject, optional, Rounds * Layers, c, seen)
    PROVE  \E X : g[Rounds * Layers] = X \cup {y} /\ ByWayOf(X, y, inject, optional, c, seen)
  <1> DEFINE N == Rounds * Layers
  <1>1. PICK j \in 0..N : \E X : g[j] = X \cup {y} /\ ByWayOf(X, y, inject, optional, c, seen)
    BY DEF Comes
  <1>2. PICK X : g[j] = X \cup {y} /\ ByWayOf(X, y, inject, optional, c, seen)
    BY <1>1
  <1>3. N \in Nat /\ \A i \in 1..N : g[i] = WithBeneath(g[i - 1], c, seen)
    BY ConstructorsAssumption DEF LeadsOn, Rounds
  <1>4. WithBeneath(g[j], c, seen) = g[j]
    <2>1. \A x \in g[j] : Beneath(x, c, seen) \subseteq g[j]
      BY <1>2 DEF ByWayOf
    <2> QED
      BY <2>1 DEF WithBeneath
  <1> HIDE DEF N
  <1> DEFINE T == {i \in 0..N : i >= j => g[i] = g[j]}
  <1>5. 0 \in T
    BY <1>3
  <1>6. ASSUME NEW i \in 1..N, i - 1 \in T PROVE i \in T
    <2>1. CASE i > j
      <3>1. i - 1 >= j /\ i \in 0..N
        BY <1>3, <2>1
      <3> QED
        BY <1>3, <1>4, <1>6, <3>1
    <2>2. CASE ~(i > j)
      <3>1. i >= j => i = j
        BY <1>3, <2>2
      <3> QED
        BY <1>3, <3>1
    <2> QED
      BY <2>1, <2>2
  <1>7. T \in SUBSET (0..N)
    OBVIOUS
  <1> HIDE DEF T
  <1>8. N \in T
    <2>1. T = 0..N
      BY <1>3, <1>5, <1>6, <1>7, EachPlace
    <2> QED
      BY <1>3, <2>1
  <1>9. g[N] = g[j]
    BY <1>3, <1>8 DEF T
  <1> QED
    BY <1>2, <1>9 DEF N

\* What is read for a parameter is what its annotation leads to.
LEMMA MeantAsRead ==
    ASSUME NEW c, IsConstructor(c), NEW seen, NEW p, p.annotation \in Annotations,
           NEW q \in Requirement(p.annotation, c, seen),
           NEW g, g.token = q.token, g.sources = Sources(q, seen)
    PROVE  MayReceive(p, c, seen, g)
  <1> DEFINE a == p.annotation
             reached == LeadsTo(a, c, seen)
             marked == UNION {ToSet(x.inject) : x \in {x \in reached : x.is = "annotated"}}
             plain == {x.token : x \in {x \in reached : x.is = "token"}}
  <1>1. PICK h : LeadsOn(h, a, c, seen) /\ reached = h[Rounds * Layers]
    BY LeadsToIs
  <1>2. PICK r \in Readings : /\ ComesAsRead(h, r, Rounds * Layers, c, seen)
                              /\ IsBare(r) /\ Len(r.inject) <= 1 /\ States(q, r)
    BY <1>1, RequirementIs
  <1> DEFINE y == r.of
  <1>3. /\ y \in Annotations /\ r.inject \in Seq(MarkedBy(Annotations))
        /\ Comes(h, y, r.inject, r.optional, Rounds * Layers, c, seen)
    BY <1>2, ReadingIs DEF ComesAsRead
  <1>4. Beneath(y, c, seen) = {} /\ y.is # "annotated"
    BY <1>2 DEF Beneath, IsBare
  <1>5. PICK X : h[Rounds * Layers] = X \cup {y} /\ ByWayOf(X, y, r.inject, r.optional, c, seen)
    <2> HIDE DEF y, a, reached
    <2> QED
      BY <1>1, <1>3, <1>4, ComesToAnEnd
  <1>6. /\ reached = X \cup {y} /\ \A x \in X : x.is # "token"
        /\ MarkedBy(X) = ToSet(r.inject)
        /\ r.optional => \E x \in X : AllowsNone(x)
    BY <1>1, <1>5 DEF ByWayOf
  <1>7. g.token = (IF r.inject # <<>> THEN r.inject[1] ELSE IF y.is = "token" THEN y.token ELSE Opaque)
        /\ q.optional = r.optional
    BY <1>2 DEF States
  <1> HIDE DEF reached, a, y
  <1>8. marked = ToSet(r.inject)
    BY <1>4, <1>6 DEF MarkedBy
  <1>9. plain = IF y.is = "token" THEN {y.token} ELSE {}
    BY <1>6
  <1>10. IF marked # {} THEN marked = {g.token} ELSE plain \subseteq {g.token}
    <2>1. CASE r.inject = <<>>
      <3>0. ToSet(<<>>) = {}
        BY DEF ToSet
      <3>1. marked = {}
        BY <1>8, <2>1, <3>0
      <3> QED
        BY <1>7, <1>9, <2>1, <3>1
    <2>2. CASE r.inject # <<>>
      <3>1. Len(r.inject) = 1 /\ DOMAIN r.inject = 1..1
        <4>1. Len(r.inject) \in Nat /\ DOMAIN r.inject = 1..Len(r.inject) /\ Len(r.inject) # 0
          BY <1>3, <2>2, LenProperties, EmptySeq
        <4>2. Len(r.inject) <= 1
          BY <1>2
        <4>3. \A k \in Nat : k # 0 /\ k <= 1 => k = 1
          OBVIOUS
        <4>4. PICK k \in Nat : k = Len(r.inject) /\ k <= 1 /\ k # 0
          BY <4>1, <4>2
        <4> QED
          BY <4>1, <4>3, <4>4
      <3>2. \A n : n \in 1..1 <=> n = 1
        OBVIOUS
      <3>3. ToSet(r.inject) = {r.inject[1]}
        BY <3>1, <3>2 DEF ToSet
      <3> QED
        BY <1>7, <1>8, <2>2, <3>3
    <2> QED
      BY <2>1, <2>2
  <1>11. ASSUME g.sources = {"none"}
         PROVE  /\ g.token \notin seen
                /\ \E x \in reached : (x.is = "union" /\ x.none) \/ (x.is = "annotated" /\ x.optional)
    <2>1. q.token \notin seen /\ q.optional
      <3>1. Sources(q, seen) = {"none"}
        BY <1>11
      <3>2. "container" # "none" /\ "table" # "none" /\ {"container"} # {"none"} /\ {"table"} # {"none"}
        OBVIOUS
      <3> QED
        BY <3>1, <3>2 DEF Sources
    <2>2. PICK x \in X : AllowsNone(x)
      BY <1>6, <1>7, <2>1
    <2>3. x \in reached
      BY <1>6
    <2> QED
      BY <2>1, <2>2, <2>3 DEF AllowsNone
  <1> HIDE DEF marked, plain
  <1>12. MayReceive(p, c, seen, g) =
            /\ IF marked # {} THEN marked = {g.token} ELSE plain \subseteq {g.token}
            /\ g.sources = {"none"} =>
                  /\ g.token \notin seen
                  /\ \E x \in reached : (x.is = "union" /\ x.none) \/ (x.is = "annotated" /\ x.optional)
    BY DEF MayReceive, marked, plain, reached, a
  <1> QED
    BY <1>10, <1>11, <1>12

\* Each argument is made of a requirement of the parameter it is for.
LEMMA MadeAsRequired ==
    ASSUME NEW c, IsConstructor(c), NEW seen, Plannable(c, seen), NEW i \in DOMAIN Arguments(c, seen)
    PROVE  LET n == Place(PassedTo(c, seen), i)  g == Arguments(c, seen)[i] IN
           /\ n \in DOMAIN c.parameters /\ c.parameters[n].annotation \in Annotations
           /\ \E q \in Requirement(c.parameters[n].annotation, c, seen) :
                 g.token = q.token /\ g.sources = Sources(q, seen)
  <1> DEFINE ps == c.parameters
             A == PassedTo(c, seen)
             id == [n \in DOMAIN ps |-> n]
             passed == Picked(id, A)
             n == Place(A, i)
             p == ps[n]
             g == Arguments(c, seen)[i]
             q == CHOOSE q \in Required(p, c, seen) : TRUE
  <1>1. /\ Len(ps) \in Nat /\ DOMAIN ps = 1..Len(ps) /\ A \in SUBSET (1..Len(ps))
        /\ DOMAIN Arguments(c, seen) = 1..Cardinality(A)
    BY ArgumentsInOrder
  <1>2. i \in 1..Cardinality(A) /\ n \in A /\ n \in DOMAIN ps
    BY <1>1, PlacesInOrder
  <1>3. passed[i] = n /\ i \in DOMAIN passed
    <2>1. DOMAIN passed = 1..Cardinality(A) /\ passed[i] = id[n]
      BY <1>2 DEF Picked, Place
    <2> QED
      BY <1>2, <2>1
  <1>4. g.token = q.token /\ g.sources = Sources(q, seen)
    <2>1. Arguments(c, seen) =
            [j \in DOMAIN passed |->
                LET x == CHOOSE x \in Required(ps[passed[j]], c, seen) : TRUE IN
                [parameter |-> passed[j], positional |-> ByPlace(c, passed[j], seen),
                 token |-> x.token, sources |-> Sources(x, seen)]]
      BY DEF Arguments, PassedTo
    <2> HIDE DEF passed
    <2>2. g = [parameter |-> n, positional |-> ByPlace(c, n, seen),
               token |-> q.token, sources |-> Sources(q, seen)]
      BY <1>3, <2>1
    <2> HIDE DEF g, q
    <2> QED
      BY <2>2
  <1>5. ~Left(p, c, seen) /\ ~Unreadable(c, seen)
    BY <1>2 DEF PassedTo, Plannable
  <1>6. p.annotation # Missing /\ Required(p, c, seen) # {}
    <2>1. ~(IF p.annotation = Missing THEN ~p.default ELSE Required(p, c, seen) = {})
      BY <1>2, <1>5 DEF Unreadable
    <2>2. ~(p.default /\ p.annotation = Missing)
      BY <1>5 DEF Left
    <2> QED
      BY <2>1, <2>2
  <1>7. p.annotation \in Annotations
    <2>1. p.annotation \in Annotations \cup {Missing}
      BY <1>2 DEF IsConstructor
    <2> QED
      BY <1>6, <2>1
  <1>8. Required(p, c, seen) = Requirement(p.annotation, c, seen)
    BY <1>6 DEF Required
  <1>9. q \in Required(p, c, seen)
    BY <1>6
  <1> HIDE DEF q, g, n, p
  <1>10. \E x \in Requirement(p.annotation, c, seen) : g.token = x.token /\ g.sources = Sources(x, seen)
    BY <1>4, <1>8, <1>9
  <1> QED
    BY <1>2, <1>7, <1>10 DEF p, g, n

\* A constructor that can be planned is passed what its annotations say.
LEMMA EachArgumentIsMeant ==
    ASSUME NEW c, IsConstructor(c), NEW seen, Plannable(c, seen)
    PROVE  EachIsMeant(c, seen)
  <1> SUFFICES ASSUME NEW n \in DOMAIN c.parameters, NEW g \in Receives(c, Arguments(c, seen), n)
               PROVE  MayReceive(c.parameters[n], c, seen, g)
    BY DEF EachIsMeant
  <1>1. PICK i \in DOMAIN Arguments(c, seen) : /\ g = Arguments(c, seen)[i]
                                               /\ Place(PassedTo(c, seen), i) = n
    BY ReceivesItsOwn
  <1>2. /\ c.parameters[n].annotation \in Annotations
        /\ \E q \in Requirement(c.parameters[n].annotation, c, seen) :
              g.token = q.token /\ g.sources = Sources(q, seen)
    BY <1>1, MadeAsRequired
  <1>3. PICK q \in Requirement(c.parameters[n].annotation, c, seen) :
            g.token = q.token /\ g.sources = Sources(q, seen)
    BY <1>2
  <1> QED
    BY <1>2, <1>3, MeantAsRead

\* What is bound was declared, or joins what was.
LEMMA BoundToDeclared ==
    ASSUME NEW ps, IsSequence(ps), NEW t \in DOMAIN Bindings(ps), Bindings(ps)[t].kind = "class"
    PROVE  \E e \in ToSet(ps) : Bindings(ps)[t] = Bound(e)
  <1> DEFINE declared == {e.token : e \in ToSet(ps)}
             folded == {x \in declared : Len(Entries(ps, x)) > 1}
             parts == UNION {{EntryToken(x, n) : n \in DOMAIN Entries(ps, x)} : x \in folded}
  <1>1. Bindings(ps) = [x \in declared \cup parts |->
                   IF x \in folded THEN Joined(x, Len(Entries(ps, x)))
                   ELSE IF x \in declared THEN Bound(Entries(ps, x)[1])
                   ELSE Bound(Entries(ps, x[1])[x[2]])]
    BY DEF Bindings
  <1>2. /\ t \in declared \cup parts
        /\ Bindings(ps)[t] = IF t \in folded THEN Joined(t, Len(Entries(ps, t)))
                             ELSE IF t \in declared THEN Bound(Entries(ps, t)[1])
                             ELSE Bound(Entries(ps, t[1])[t[2]])
    <2> HIDE DEF declared, folded, parts
    <2> QED
      BY <1>1
  <1>3. \A x, n : n \in DOMAIN Entries(ps, x) => Entries(ps, x)[n] \in ToSet(ps)
    <2> SUFFICES ASSUME NEW x, NEW n \in DOMAIN Entries(ps, x)
                 PROVE  Entries(ps, x)[n] \in ToSet(ps)
      OBVIOUS
    <2>1. Entries(ps, x)[n] \in ToSet(Entries(ps, x))
      BY DEF ToSet
    <2>2. ToSet(Entries(ps, x)) = {e \in ToSet(ps) : e.token = x}
      BY EntriesAreSeq
    <2> QED
      BY <2>1, <2>2
  <1>4. t \notin folded
    <2>1. \A x, n : Joined(x, n).kind = "factory"
      BY DEF Joined
    <2> HIDE DEF declared, folded, parts
    <2> QED
      BY <1>2, <2>1
  <1>5. CASE t \in declared
    <2>1. PICK e \in ToSet(ps) : e.token = t
      BY <1>5
    <2>2. /\ ToSet(Entries(ps, t)) = {x \in ToSet(ps) : x.token = t}
          /\ Len(Entries(ps, t)) \in Nat /\ DOMAIN Entries(ps, t) = 1..Len(Entries(ps, t))
      BY EntriesAreSeq
    <2>3. e \in ToSet(Entries(ps, t))
      BY <2>1, <2>2
    <2>4. PICK n \in 1..Len(Entries(ps, t)) : e = Entries(ps, t)[n]
      BY <2>2, <2>3 DEF ToSet
    <2>5. 1 \in DOMAIN Entries(ps, t)
      BY <2>2, <2>4
    <2>6. Entries(ps, t)[1] \in ToSet(ps)
      BY <1>3, <2>5
    <2> HIDE DEF declared, folded, parts
    <2> QED
      BY <1>2, <1>4, <1>5, <2>6
  <1>6. CASE t \notin declared
    <2>1. t \in parts
      BY <1>2, <1>6
    <2>2. PICK x \in folded : t \in {EntryToken(x, n) : n \in DOMAIN Entries(ps, x)}
      BY <2>1
    <2>3. PICK n \in DOMAIN Entries(ps, x) : t = <<x, n>>
      BY <2>2 DEF EntryToken
    <2>4. Entries(ps, t[1])[t[2]] \in ToSet(ps)
      BY <1>3, <2>3
    <2> HIDE DEF declared, folded, parts
    <2> QED
      BY <1>2, <1>4, <1>6, <2>4
  <1> QED
    BY <1>5, <1>6

\* What is planned has a constructor.
LEMMA PlannedIsConstructed ==
    ASSUME WalkInv, NEW k \in Keys, IsPlanned(k)
    PROVE  IsConstructor(Of(k).constructor)
  <1> DEFINE m == k[1]
             ps == Expanded(m).providers
  <1>1. m \in DOMAIN compiled /\ k[2] \in Local(m) \cup {ControllerToken(n) : n \in DOMAIN compiled[m].controllers}
    BY DEF Keys, Registered
  <1>2. m \in Modules /\ compiled[m] = Compiled(m) /\ IsApplication(app)
    <2>1. /\ DOMAIN compiled = ToSet(ordered) /\ ordered \in Seq(Modules) /\ IsApplication(app)
          /\ \A x \in ToSet(ordered) : compiled[x] = Compiled(x)
      BY DEF WalkInv, WalkTypes
    <2>2. ToSet(ordered) \subseteq Modules
      BY <2>1, OwnEntries
    <2> QED
      BY <1>1, <2>1, <2>2
  <1>3. /\ compiled[m].controllers = Expanded(m).controllers
        /\ compiled[m].binds = Bindings(ps)
    BY <1>2 DEF Compiled
  <1>4. /\ IsSequence(ps) /\ IsSequence(Expanded(m).controllers)
        /\ \A n \in DOMAIN ps : IsProvided(ps[n])
        /\ \A n \in DOMAIN Expanded(m).controllers : IsController(Expanded(m).controllers[n])
    BY <1>2, ExpandedIsMetadata DEF IsMetadata
  <1>5. CASE k[2] \in Local(m)
    <2>1. Of(k) = Bindings(ps)[k[2]] /\ k[2] \in DOMAIN Bindings(ps)
      BY <1>3, <1>5 DEF Of, Local
    <2>2. Bindings(ps)[k[2]].kind = "class"
      BY <2>1 DEF IsPlanned
    <2>3. PICK e \in ToSet(ps) : Bindings(ps)[k[2]] = Bound(e)
      <3> HIDE DEF ps
      <3> QED
        BY <1>4, <2>1, <2>2, BoundToDeclared
    <2>4. IsProvided(e)
      BY <1>4, <2>3 DEF ToSet
    <2>5. Bound(e).constructor = e.constructor
      BY DEF Bound
    <2> QED
      BY <2>1, <2>3, <2>4, <2>5 DEF IsProvided
  <1>6. CASE k[2] \notin Local(m)
    <2>1. PICK n \in DOMAIN compiled[m].controllers : k[2] = <<"controller", n>>
      BY <1>1, <1>6 DEF ControllerToken
    <2>2. k[2][2] = n
      BY <2>1
    <2>3. Of(k).constructor = compiled[m].controllers[n].constructor
      BY <1>6, <2>2 DEF Of
    <2>4. IsController(compiled[m].controllers[n])
      BY <1>3, <1>4, <2>1
    <2> QED
      BY <2>3, <2>4 DEF IsController
  <1> QED
    BY <1>5, <1>6

\* annotations.py, container_plan.py and _build_steps: every class of an application that is not
\* refused is built by a call its constructor accepts: whatever is left to a default, each
\* argument reaches the parameter it was made for, and is what its annotation says, through
\* any names, metadata and unions.
THEOREM ClassesAreCalledAsWritten == Spec => []CalledAsWritten
  <1>1. WalkInv /\ ScopesInv => CalledAsWritten
    <2> SUFFICES ASSUME WalkInv, ScopesInv, stage = "assembled", NEW k \in Keys, IsPlanned(k)
                 PROVE  CallIsAccepted(Of(k).constructor, Sees(k[1]))
      BY DEF CalledAsWritten
    <2>1. ~Unsatisfied(k)
      BY DEF ScopesInv
    <2>2. Plannable(Of(k).constructor, Sees(k[1]))
      BY <2>1 DEF Unsatisfied
    <2>3. IsConstructor(Of(k).constructor)
      BY PlannedIsConstructed
    <2> QED
      BY <2>2, <2>3, EachArgumentArrives, EachArgumentIsMeant DEF CallIsAccepted
  <1> QED
    BY <1>1, ScopesAreSolved, PTL
=============================================================================
