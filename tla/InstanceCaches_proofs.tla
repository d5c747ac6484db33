------------------------- MODULE InstanceCaches_proofs -------------------------
(***************************************************************************)
(* Proofs about InstanceCaches, when overrides are registered while nobody *)
(* resolves and a shutdown waits for the requests.                         *)
(***************************************************************************)
EXTENDS InstanceCaches, TLAPS

-----------------------------------------------------------------------------
(* The inductive invariant.                                                  *)

Frames == [of : Nodes, todo : Seq(Tokens), gen : Nat, sees : SUBSET Tokens]
IsTable(f, tokens) == DOMAIN f \subseteq tokens /\ f \in [DOMAIN f -> Instances]
IsMemo(m) ==
    /\ m = [gen |-> m.gen, entries |-> m.entries, whole |-> m.whole]
    /\ m.gen \in Nat /\ IsTable(m.entries, Singletons)
    /\ m.whole # None => m.whole \in Seq(Instances)

CachesTypeOK ==
    /\ phase \in {"new", "starting", "started", "stopped"}
    /\ shut \in BOOLEAN /\ started \in BOOLEAN /\ generation \in Nat
    /\ overridden \subseteq Replaceable
    /\ IsTable(cached, Singletons) /\ IsTable(controllers, {Controller})
    /\ memo = [p \in Routes |-> memo[p]] /\ \A p \in Routes : IsMemo(memo[p])
    /\ doing \in [Actors -> {"idle", "warming", "pipeline", "controller", "ready"}]
    /\ route = [a \in Actors |-> route[a]]
    /\ got \in [Actors -> Seq(Instances)]
    /\ settled \in [Actors -> BOOLEAN]
    /\ frames \in [Actors -> Seq(Frames)]
    /\ shown \subseteq Instances

\* A request is about a route; only startup warms.
Places ==
    /\ doing[Boot] \in {"idle", "warming"}
    /\ \A r \in Requests : doing[r] # "warming" /\ (Active(r) => route[r] \in Routes)
    /\ \A a \in Actors : ~Active(a) => got[a] = <<>> /\ frames[a] = <<>>

\* The instance everybody is handed for a shared token today.
Current(i) ==
    /\ i.of \in Singletons =>
          IF i.of \in overridden THEN i = Replacement(i.of)
          ELSE i.of \in DOMAIN cached /\ cached[i.of] = i
    /\ i.of = Controller => Controller \in DOMAIN controllers /\ controllers[Controller] = i
Served(i) == Fresh(i) /\ Current(i)

CachesFresh ==
    /\ \A t \in DOMAIN cached : cached[t].of = t /\ Fresh(cached[t])
    /\ \A t \in DOMAIN controllers : controllers[t].of = t /\ Fresh(controllers[t])

GotServed == \A a \in Actors : \A n \in DOMAIN got[a] : Served(got[a][n])
ShownCurrent == \A i \in shown : Current(i)

\* A memo of this generation was filled since the start of it, with singletons.
Kept(i) == started /\ i.of \in Singletons /\ Served(i)
MemoServed(m) ==
    m.gen = generation =>
        /\ \A t \in DOMAIN m.entries : m.entries[t].of = t /\ Kept(m.entries[t])
        /\ m.whole # None => \A n \in DOMAIN m.whole : Kept(m.whole[n])
MemosServed == \A p \in Routes : memo[p].gen <= generation /\ MemoServed(memo[p])

\* What is settled so far was kept since the start.
SettledKept ==
    \A a \in Actors : doing[a] = "pipeline" /\ settled[a] =>
        \A n \in DOMAIN got[a] : started /\ got[a][n].of \in Singletons

\* The replacements that reach a construction through what it has still to ask for.
Sights(tokens) == overridden \cap UNION {Reach(u, overridden) : u \in tokens}

\* What is under construction is nowhere to be found, and sees, with what it has still to
\* be given, what stands for something it is built from.
FrameOK(f) ==
    /\ f.gen = generation /\ f.of \notin overridden
    /\ f.of \notin DOMAIN cached /\ f.of \notin DOMAIN controllers
    /\ f.sees \cup Sights(Range(f.todo)) = Sights(Range(Needs[f.of]))
FramesOK == \A a \in Actors : \A n \in DOMAIN frames[a] : FrameOK(frames[a][n])

\* Each construction is what the one around it has asked for.
Nested ==
    \A a \in Actors : \A n \in DOMAIN frames[a] : n + 1 \in DOMAIN frames[a] =>
        frames[a][n].todo # <<>> /\ Head(frames[a][n].todo) = frames[a][n + 1].of

OneConstruction ==
    \A a, b \in Actors : \A m \in DOMAIN frames[a] : \A n \in DOMAIN frames[b] :
        frames[a][m].of = frames[b][n].of /\ frames[a][m].of \notin Fleeting => a = b /\ m = n

CachesInv ==
    /\ CachesTypeOK /\ Places /\ CachesFresh /\ GotServed /\ ShownCurrent /\ MemosServed
    /\ SettledKept /\ FramesOK /\ Nested /\ OneConstruction


-----------------------------------------------------------------------------
(* What a token is built from.                                               *)

USE GraphAssumption

LEMMA NeedsTokens == ASSUME NEW t \in Nodes
                     PROVE  Needs[t] \in Seq(Tokens) /\ Range(Needs[t]) \subseteq Tokens
  BY DEF Range

LEMMA ReachHolds ==
  ASSUME NEW t \in Nodes, NEW cut
  PROVE  /\ t \in Reach(t, cut)
         /\ Reach(t, cut) \subseteq Nodes
         /\ Closed(Reach(t, cut), cut)
<1>1. t \in Reach(t, cut) /\ Reach(t, cut) \subseteq Nodes
  BY DEF Reach
<1>2. ASSUME NEW u \in Reach(t, cut) \ cut, NEW v \in Range(Needs[u])
      PROVE  v \in Reach(t, cut)
  <2>1. u \in Nodes /\ v \in Nodes
    BY <1>1, NeedsTokens DEF Nodes
  <2>2. ASSUME NEW s \in SUBSET Nodes, t \in s, Closed(s, cut)
        PROVE  v \in s
    BY <2>2 DEF Reach, Closed
  <2> QED
    BY <2>1, <2>2 DEF Reach
<1> QED
  BY <1>1, <1>2 DEF Closed

LEMMA ReachLeast ==
  ASSUME NEW s \in SUBSET Nodes, NEW t \in s, NEW cut, Closed(s, cut)
  PROVE  Reach(t, cut) \subseteq s
  BY DEF Reach

\* Unless something stands for it, a token is built from what its parts are built from.
LEMMA ReachUnfolds ==
  ASSUME NEW t \in Nodes, NEW cut, t \notin cut
  PROVE  Reach(t, cut) = {t} \cup UNION {Reach(u, cut) : u \in Range(Needs[t])}
<1> DEFINE parts == UNION {Reach(u, cut) : u \in Range(Needs[t])}
           all == {t} \cup parts
<1>1. \A u \in Range(Needs[t]) : u \in Nodes /\ u \in Reach(t, cut)
  BY NeedsTokens, ReachHolds DEF Closed, Nodes
<1>2. all \subseteq Nodes
  BY <1>1, ReachHolds
<1>3. Closed(all, cut)
  <2> SUFFICES ASSUME NEW u \in all \ cut, NEW v \in Range(Needs[u]) PROVE v \in all
    BY DEF Closed
  <2>1. CASE u = t
    BY <2>1, <1>1, ReachHolds
  <2>2. CASE u \in parts
    <3>1. PICK w \in Range(Needs[t]) : u \in Reach(w, cut)
      BY <2>2
    <3>2. v \in Reach(w, cut)
      BY <3>1, <1>1, ReachHolds DEF Closed
    <3> QED
      BY <3>2
  <2> QED
    BY <2>1, <2>2
<1>4. Reach(t, cut) \subseteq all
  BY <1>2, <1>3, ReachLeast
<1>5. ASSUME NEW u \in Range(Needs[t]) PROVE Reach(u, cut) \subseteq Reach(t, cut)
  BY <1>1, <1>5, ReachHolds, ReachLeast
<1>6. all \subseteq Reach(t, cut)
  BY <1>5, ReachHolds
<1> QED
  BY <1>4, <1>6

LEMMA ReachOfCut ==
  ASSUME NEW t \in Nodes, NEW cut, t \in cut
  PROVE  Reach(t, cut) = {t}
<1>1. Closed({t}, cut)
  BY DEF Closed
<1>2. {t} \in SUBSET Nodes /\ t \in {t}
  OBVIOUS
<1>3. Reach(t, cut) \subseteq {t}
  BY <1>1, <1>2, ReachLeast
<1> QED
  BY <1>3, ReachHolds

\* What does not reach a token is built as before when something stands for that token, or
\* no longer does.
LEMMA ReachWithout ==
  ASSUME NEW t \in Nodes, NEW x, NEW cut, x \notin Reach(t, {})
  PROVE  /\ x \notin Reach(t, cut) /\ x \notin Reach(t, cut \cup {x})
         /\ Reach(t, cut \cup {x}) = Reach(t, cut)
<1>1. \A c : Closed(Reach(t, {}), c)
  BY ReachHolds DEF Closed
<1>2. \A c : Reach(t, c) \subseteq Reach(t, {})
  BY <1>1, ReachHolds, ReachLeast
<1>3. Closed(Reach(t, cut), cut \cup {x})
  BY ReachHolds DEF Closed
<1>4. Closed(Reach(t, cut \cup {x}), cut)
  BY <1>2, ReachHolds DEF Closed
<1>5. /\ Reach(t, cut) \in SUBSET Nodes /\ t \in Reach(t, cut)
      /\ Reach(t, cut \cup {x}) \in SUBSET Nodes /\ t \in Reach(t, cut \cup {x})
  BY ReachHolds
<1>6. Reach(t, cut \cup {x}) \subseteq Reach(t, cut)
  BY <1>3, <1>5, ReachLeast
<1>7. Reach(t, cut) \subseteq Reach(t, cut \cup {x})
  BY <1>4, <1>5, ReachLeast
<1> QED
  BY <1>2, <1>6, <1>7

-----------------------------------------------------------------------------
(* What the caches and the memos hold.                                       *)

LEMMA InstanceFields ==
  ASSUME NEW i \in Instances
  PROVE  /\ i = [of |-> i.of, by |-> i.by, gen |-> i.gen, sees |-> i.sees]
         /\ i.of \in Nodes /\ i.gen \in Nat /\ i.sees \in SUBSET Tokens
  BY DEF Instances

LEMMA FollowedMemo ==
  ASSUME CachesInv, NEW p \in Routes
  PROVE  LET m == Followed(memo[p]) IN IsMemo(m) /\ m.gen = generation /\ MemoServed(m)
<1>1. IsMemo(memo[p]) /\ MemoServed(memo[p]) /\ generation \in Nat
  BY DEF CachesInv, CachesTypeOK, MemosServed
<1>2. CASE memo[p].gen = generation
  BY <1>1, <1>2 DEF Followed
<1>3. CASE memo[p].gen # generation
  <2>1. Followed(memo[p]) = [gen |-> generation, entries |-> EmptyTable, whole |-> None]
    BY <1>3 DEF Followed, EmptyMemo
  <2>2. DOMAIN EmptyTable = {}
    BY DEF EmptyTable
  <2>3. IsTable(EmptyTable, Singletons)
    BY <2>2 DEF IsTable, EmptyTable
  <2> QED
    BY <1>1, <2>1, <2>2, <2>3 DEF IsMemo, MemoServed
<1> QED
  BY <1>2, <1>3

\* An instance that reaches its actor leaves everything as the invariant has it: what was
\* served before, what the route keeps of it, and what has been shown.
LEMMA HandedOver ==
  ASSUME CachesInv, NEW a \in Actors, Active(a), NEW i \in Instances, NEW fresh \in BOOLEAN,
         HandOver(a, i, fresh),
         UNCHANGED <<phase, shut, started, generation, overridden, route>>,
         Served(i)', ~fresh => started /\ i.of \in Singletons,
         \A j \in Instances : (Current(j) => Current(j)') /\ (Fresh(j) => Fresh(j)')
  PROVE  /\ memo' = [p \in Routes |-> memo'[p]] /\ \A p \in Routes : IsMemo(memo'[p])
         /\ doing' \in [Actors -> {"idle", "warming", "pipeline", "controller", "ready"}]
         /\ got' \in [Actors -> Seq(Instances)]
         /\ settled' \in [Actors -> BOOLEAN] /\ shown' \subseteq Instances
         /\ doing'[Boot] \in {"idle", "warming"}
         /\ \A r \in Requests : doing'[r] # "warming" /\ (Active(r)' => route[r] \in Routes)
         /\ \A b \in Actors : b # a => doing'[b] = doing[b] /\ got'[b] = got[b]
         /\ Active(a)'
         /\ GotServed' /\ ShownCurrent' /\ MemosServed' /\ SettledKept'
<1> USE DEF CachesInv, CachesTypeOK
<1>1. got' = [got EXCEPT ![a] = Append(@, i)]
  BY DEF HandOver
<1>2. got' \in [Actors -> Seq(Instances)] /\ got'[a] = Append(got[a], i)
  BY <1>1
<1>3. \A j \in Instances : Served(j) => Served(j)'
  BY DEF Served
<1>4. GotServed'
  <2> SUFFICES ASSUME NEW b \in Actors, NEW n \in DOMAIN got'[b] PROVE (Served(got[b][n]))'
    BY DEF GotServed
  <2>1. CASE b # a
    <3>1. got'[b] = got[b] /\ got[b][n] \in Instances /\ Served(got[b][n])
      BY <2>1, <1>1 DEF GotServed
    <3> QED
      BY <3>1, <1>3 DEF Served, Fresh, Current, Replacement, Instance
  <2>2. CASE b = a /\ n \in DOMAIN got[a]
    <3>1. got'[b][n] = got[a][n] /\ got[a][n] \in Instances /\ Served(got[a][n])
      BY <2>2, <1>2 DEF GotServed
    <3> QED
      BY <3>1, <1>3 DEF Served, Fresh, Current, Replacement, Instance
  <2>3. CASE b = a /\ n \notin DOMAIN got[a]
    <3>1. got'[b][n] = i
      BY <2>3, <1>2
    <3> QED
      BY <3>1 DEF Served, Fresh, Current, Replacement, Instance
  <2> QED
    BY <2>1, <2>2, <2>3
<1>5. \A b \in Actors : b # a => got'[b] = got[b]
  BY <1>1
<1>6. \A q \in Routes : IsMemo(memo[q]) /\ memo[q].gen <= generation /\ MemoServed(memo[q])
  BY DEF MemosServed
<1>7. \A j \in Instances : Kept(j) => Kept(j)'
  BY <1>3 DEF Kept
<1>8. ASSUME NEW n, IsMemo(n), MemoServed(n) PROVE MemoServed(n)'
  <2>1. ASSUME n.gen = generation, NEW t \in DOMAIN n.entries
        PROVE  n.entries[t].of = t /\ Kept(n.entries[t])'
    BY <1>7, <1>8, <2>1 DEF MemoServed, IsMemo, IsTable
  <2>2. ASSUME n.gen = generation, n.whole # None, NEW k \in DOMAIN n.whole
        PROVE  Kept(n.whole[k])'
    BY <1>7, <1>8, <2>2 DEF MemoServed, IsMemo
  <2> QED
    BY <2>1, <2>2 DEF MemoServed
<1>9. CASE doing[a] = "warming"
  <2>1. UNCHANGED <<doing, settled, memo, shown>>
    BY <1>9 DEF HandOver
  <2>2. ShownCurrent'
    BY <2>1 DEF ShownCurrent
  <2>3. MemosServed'
    BY <1>6, <1>8, <2>1 DEF MemosServed
  <2>4. SettledKept'
    BY <2>1, <1>9, <1>5 DEF SettledKept
  <2> QED
    BY <1>2, <1>4, <1>5, <2>1, <2>2, <2>3, <2>4 DEF Places, Active
<1>10. CASE doing[a] = "pipeline"
  <2>p. PICK p : p = route[a]
    OBVIOUS
  <2>m. PICK m : m = Followed(memo[p])
    OBVIOUS
  <2>all. PICK all \in BOOLEAN : all = (settled[a] /\ (fresh => Settled(i.of)))
    OBVIOUS
  <2>last. PICK last \in BOOLEAN : last = (Len(got[a]) + 1 = Len(Components[p]))
    OBVIOUS
  <2>pipe. PICK pipeline : pipeline = Append(got[a], i)
    OBVIOUS
  <2>kept. PICK kept : kept = IF fresh /\ Settled(i.of)
                         THEN [m EXCEPT !.entries = Extended(@, i.of, i)] ELSE m
    OBVIOUS
  <2>new. PICK new : new = IF last /\ all THEN [kept EXCEPT !.whole = pipeline] ELSE kept
    OBVIOUS
  <2>1. a \in Requests /\ p \in Routes
    BY <1>10, <2>p DEF Places, Active, Actors
  <2>2. /\ Remembered(a, i, fresh) /\ UNCHANGED shown
        /\ doing' = [doing EXCEPT ![a] = IF last THEN "controller" ELSE @]
    BY <1>10, <2>p, <2>last DEF HandOver
  <2>3. settled' = [settled EXCEPT ![a] = all] /\ memo' = [memo EXCEPT ![p] = new]
    BY <2>2, <2>p, <2>m, <2>all, <2>last, <2>pipe, <2>kept, <2>new DEF Remembered
  <2>4. all => started /\ i.of \in Singletons
    BY <2>all DEF Settled
  <2>5. IsMemo(m) /\ m.gen = generation /\ MemoServed(m)'
    BY <2>1, <2>m, <1>8, FollowedMemo
  <2>6. IsMemo(kept) /\ kept.gen = generation /\ MemoServed(kept)'
    <3>1. CASE fresh /\ Settled(i.of)
      <4>1. i.of \in Singletons /\ started /\ Kept(i)'
        BY <3>1 DEF Settled, Kept
      <4>t. PICK table : table = Extended(m.entries, i.of, i)
        OBVIOUS
      <4>2. kept = [gen |-> m.gen, entries |-> table, whole |-> m.whole]
        BY <3>1, <2>5, <2>kept, <4>t DEF IsMemo
      <4>3. IsTable(m.entries, Singletons)
        BY <2>5 DEF IsMemo
      <4>4. /\ IsTable(table, Singletons) /\ DOMAIN table = DOMAIN m.entries \cup {i.of}
            /\ table[i.of] = i
            /\ \A u \in DOMAIN m.entries : u # i.of => table[u] = m.entries[u]
        <5>1. table = [u \in DOMAIN m.entries \cup {i.of} |->
                          IF u = i.of THEN i ELSE m.entries[u]]
          BY <4>t DEF Extended
        <5>2. \A u \in DOMAIN table : table[u] \in Instances
          BY <5>1, <4>3 DEF IsTable
        <5> QED
          BY <5>1, <5>2, <4>1, <4>3 DEF IsTable
      <4>5. \A t \in DOMAIN table : table[t].of = t /\ Kept(table[t])'
        BY <4>1, <4>4, <2>5 DEF MemoServed
      <4>6. kept.gen = generation /\ kept.entries = table /\ kept.whole = m.whole
        BY <4>2, <2>5
      <4>7. IsMemo(kept)
        BY <4>2, <4>4, <2>5 DEF IsMemo
      <4>8. m.whole # None => \A n \in DOMAIN m.whole : Kept(m.whole[n])'
        BY <2>5 DEF MemoServed
      <4> QED
        BY <4>5, <4>6, <4>7, <4>8 DEF MemoServed
    <3>2. CASE ~(fresh /\ Settled(i.of))
      BY <3>2, <2>5, <2>kept
    <3> QED
      BY <3>1, <3>2
  <2>7. IsMemo(new) /\ new.gen = generation /\ MemoServed(new)'
    <3>1. CASE last /\ all
      <4>1. new = [gen |-> kept.gen, entries |-> kept.entries, whole |-> pipeline]
        BY <3>1, <2>6, <2>new DEF IsMemo
      <4>2. new.gen = generation /\ new.entries = kept.entries /\ new.whole = pipeline
        BY <4>1, <2>6
      <4>3. \A n \in DOMAIN got[a] : started /\ got[a][n].of \in Singletons
        BY <1>10, <3>1, <2>all DEF SettledKept
      <4>4. ASSUME NEW n \in DOMAIN pipeline PROVE Kept(pipeline[n])'
        <5>1. pipeline = got'[a]
          BY <1>2, <2>pipe
        <5>2. (Served(got[a][n]))'
          BY <5>1, <1>4 DEF GotServed
        <5>3. Served(pipeline[n])'
          BY <5>1, <5>2 DEF Served, Fresh, Current, Replacement, Instance
        <5>4. pipeline[n].of \in Singletons /\ started
          BY <4>3, <3>1, <2>4, <1>2, <5>1
        <5> QED
          BY <5>3, <5>4 DEF Kept
      <4>5. \A t \in DOMAIN kept.entries : kept.entries[t].of = t /\ Kept(kept.entries[t])'
        BY <2>6 DEF MemoServed
      <4>6. IsMemo(new)
        <5>1. pipeline \in Seq(Instances)
          BY <1>2, <2>pipe
        <5> QED
          BY <4>1, <4>2, <5>1, <2>6 DEF IsMemo
      <4> QED
        BY <4>2, <4>4, <4>5, <4>6 DEF MemoServed
    <3>2. CASE ~(last /\ all)
      BY <3>2, <2>6, <2>new
    <3> QED
      BY <3>1, <3>2
  <2>8. \A q \in Routes : memo'[q] = IF q = p THEN new ELSE memo[q]
    BY <2>3
  <2>9. MemosServed'
    <3> SUFFICES ASSUME NEW q \in Routes PROVE (memo[q].gen <= generation /\ MemoServed(memo[q]))'
      BY DEF MemosServed
    <3>1. CASE q = p
      BY <3>1, <2>7, <2>8
    <3>2. CASE q # p
      BY <3>2, <2>8, <1>6, <1>8
    <3> QED
      BY <3>1, <3>2
  <2>10. memo' = [q \in Routes |-> memo'[q]] /\ \A q \in Routes : IsMemo(memo'[q])
    BY <2>3, <2>7, <2>8
  <2>11. SettledKept'
    <3> SUFFICES ASSUME NEW b \in Actors, doing'[b] = "pipeline", settled'[b],
                        NEW n \in DOMAIN got'[b]
                 PROVE  started /\ got'[b][n].of \in Singletons
      BY DEF SettledKept
    <3>1. CASE b = a
      <4>1. all
        BY <3>1, <2>3
      <4> QED
        BY <3>1, <4>1, <2>4, <2>all, <1>2, <1>10 DEF SettledKept
    <3>2. CASE b # a
      BY <3>2, <2>2, <2>3, <1>5 DEF SettledKept
    <3> QED
      BY <3>1, <3>2
  <2>12. ShownCurrent'
    BY <2>2 DEF ShownCurrent
  <2>13. \A b \in Actors : doing'[b] = IF b = a /\ last THEN "controller" ELSE doing[b]
    BY <2>2
  <2>14. settled' \in [Actors -> BOOLEAN]
    BY <2>3
  <2> QED
    BY <1>2, <1>4, <1>5, <1>10, <2>1, <2>2, <2>9, <2>10, <2>11, <2>12, <2>13, <2>14
    DEF Places, Active, Actors
<1>11. CASE doing[a] \notin {"warming", "pipeline"}
  <2>1. /\ doing' = [doing EXCEPT ![a] = "ready"] /\ shown' = shown \cup Range(got'[a])
        /\ UNCHANGED <<settled, memo>>
    BY <1>11 DEF HandOver
  <2>2. a \in Requests
    BY <1>11 DEF Places, Active, Actors
  <2>3. MemosServed'
    BY <1>6, <1>8, <2>1 DEF MemosServed
  <2>4. SettledKept'
    BY <2>1, <1>5 DEF SettledKept
  <2>5. \A j \in Range(got'[a]) : j \in Instances /\ Current(j)'
    <3> SUFFICES ASSUME NEW j \in Range(got'[a]) PROVE j \in Instances /\ Current(j)'
      OBVIOUS
    <3>1. PICK n \in DOMAIN got'[a] : j = got'[a][n]
      BY DEF Range
    <3>2. (Served(got[a][n]))'
      BY <1>4 DEF GotServed
    <3> QED
      <4>1. j \in Instances
        BY <3>1, <1>2
      <4>2. j = got[a][n]' /\ (Current(got[a][n]))'
        BY <3>1, <3>2 DEF Served
      <4>3. Current(j)'
        BY <4>2 DEF Current, Replacement, Instance
      <4> QED
        BY <4>1, <4>3
  <2>6. ShownCurrent' /\ shown' \subseteq Instances
    BY <2>1, <2>5 DEF ShownCurrent
  <2> QED
    BY <1>2, <1>4, <1>5, <2>1, <2>2, <2>3, <2>4, <2>6 DEF Places, Active, Actors
<1> QED
  BY <1>9, <1>10, <1>11

-----------------------------------------------------------------------------
(* What is under construction.                                               *)

LEMMA FrameFields ==
  ASSUME NEW f \in Frames
  PROVE  /\ f = [of |-> f.of, todo |-> f.todo, gen |-> f.gen, sees |-> f.sees]
         /\ f.of \in Nodes /\ f.todo \in Seq(Tokens) /\ f.gen \in Nat
         /\ f.sees \in SUBSET Tokens
  BY DEF Frames

\* What a construction sees counts, when it is given a part, what that part is built from.
LEMMA GivenAPart ==
  ASSUME NEW f \in Frames, f.todo # <<>>, NEW i \in Instances, Head(f.todo) = i.of,
         generation \in Nat, f.gen = generation, i.gen = generation,
         i.sees = overridden \cap Reach(i.of, overridden),
         f.sees \cup Sights(Range(f.todo)) = Sights(Range(Needs[f.of]))
  PROVE  LET g == Given(f, i) IN
         /\ g \in Frames /\ g.of = f.of /\ g.gen = generation
         /\ g.sees \cup Sights(Range(g.todo)) = Sights(Range(Needs[g.of]))
<1> DEFINE g == [of |-> f.of, todo |-> Tail(f.todo), gen |-> generation,
                 sees |-> f.sees \cup i.sees]
<1>1. Min({f.gen, i.gen}) = generation
  BY DEF Min
<1>2. Given(f, i) = g
  <2>1. Given(f, i) = [f EXCEPT !.todo = Tail(f.todo), !.gen = generation,
                                !.sees = f.sees \cup i.sees]
    BY <1>1 DEF Given
  <2>2. f = [of |-> f.of, todo |-> f.todo, gen |-> f.gen, sees |-> f.sees]
    BY FrameFields
  <2> QED
    BY <2>1, <2>2
<1>3. Range(f.todo) = {i.of} \cup Range(Tail(f.todo))
  <2>1. f.todo \in Seq(Tokens)
    BY FrameFields
  <2>2. \A n \in 1..(Len(f.todo) - 1) : Tail(f.todo)[n] = f.todo[n + 1]
    BY <2>1
  <2>3. DOMAIN Tail(f.todo) = 1..(Len(f.todo) - 1) /\ DOMAIN f.todo = 1..Len(f.todo)
    BY <2>1
  <2>4. \A n \in DOMAIN f.todo : n = 1 \/ (n - 1 \in DOMAIN Tail(f.todo) /\ n = (n - 1) + 1)
    BY <2>3
  <2>5. ASSUME NEW n \in DOMAIN f.todo, n # 1 PROVE f.todo[n] \in Range(Tail(f.todo))
    <3>1. n - 1 \in 1..(Len(f.todo) - 1) /\ (n - 1) + 1 = n
      BY <2>3, <2>4, <2>5
    <3>2. f.todo[n] = Tail(f.todo)[n - 1]
      BY <3>1, <2>2
    <3> QED
      BY <3>1, <3>2, <2>3 DEF Range
  <2>6. 1 \in DOMAIN f.todo /\ f.todo[1] = i.of
    BY <2>1
  <2>7. \A n \in DOMAIN Tail(f.todo) : n + 1 \in DOMAIN f.todo
    BY <2>3, <2>1
  <2>8. Range(Tail(f.todo)) \subseteq Range(f.todo)
    BY <2>2, <2>3, <2>7 DEF Range
  <2> QED
    BY <2>5, <2>6, <2>8 DEF Range
<1>4. Sights(Range(f.todo)) = i.sees \cup Sights(Range(Tail(f.todo)))
  BY <1>3 DEF Sights
<1>5. g \in Frames
  BY FrameFields, InstanceFields DEF Frames
<1>6. g.sees \cup Sights(Range(g.todo)) = Sights(Range(Needs[g.of]))
  BY <1>4
<1> QED
  BY <1>2, <1>5, <1>6

\* Given its last part, a construction sees what stands for something it is built from.
LEMMA BuiltFresh ==
  ASSUME NEW f \in Frames, FrameOK(f), f.todo = <<>>
  PROVE  f.sees = overridden \cap Reach(f.of, overridden)
<1>1. Range(f.todo) = {}
  BY DEF Range
<1>2. f.sees = Sights(Range(Needs[f.of]))
  BY <1>1 DEF FrameOK, Sights
<1>3. f.of \in Nodes /\ f.of \notin overridden
  BY FrameFields DEF FrameOK
<1>4. Reach(f.of, overridden) =
          {f.of} \cup UNION {Reach(u, overridden) : u \in Range(Needs[f.of])}
  BY <1>3, ReachUnfolds
<1> QED
  BY <1>2, <1>3, <1>4 DEF Sights

\* The answer of a machine leaves the invariant as it is, when what else is under
\* construction is still nowhere to be found.
LEMMA Delivered ==
  ASSUME CachesInv, NEW a \in Actors, Active(a), NEW i \in Instances, NEW left,
         Deliver(a, i, left),
         UNCHANGED <<phase, shut, started, generation, overridden, route>>,
         Served(i)',
         \A j \in Instances : (Current(j) => Current(j)') /\ (Fresh(j) => Fresh(j)'),
         IsTable(cached, Singletons)', IsTable(controllers, {Controller})', CachesFresh',
         left \in Seq(Frames), Len(left) <= Len(frames[a]),
         \A n \in 1..Len(left) : left[n] = frames[a][n],
         left # <<>> => Last(left).todo # <<>> /\ Head(Last(left).todo) = i.of,
         \A b \in Actors : \A n \in DOMAIN frames[b] :
             b # a \/ n <= Len(left) =>
                 frames[b][n].of \notin DOMAIN cached' /\ frames[b][n].of \notin DOMAIN controllers'
  PROVE  CachesInv'
<1> USE DEF CachesInv, CachesTypeOK
<1>1. /\ frames' \in [Actors -> Seq(Frames)]
      /\ \A b \in Actors : b # a => frames'[b] = frames[b]
      /\ DOMAIN frames'[a] = 1..Len(left)
      /\ \A n \in 1..Len(left) : frames'[a][n].of = frames[a][n].of /\ FrameOK(frames[a][n])
      /\ \A n \in 1..Len(left) : n # Len(left) => frames'[a][n] = frames[a][n]
      /\ \A n \in 1..Len(left) : /\ frames'[a][n].gen = generation
                                 /\ frames'[a][n].sees \cup Sights(Range(frames'[a][n].todo))
                                       = Sights(Range(Needs[frames'[a][n].of]))
  <2>1. \A n \in 1..Len(left) : n \in DOMAIN frames[a] /\ FrameOK(frames[a][n])
    BY DEF FramesOK
  <2>2. CASE left = <<>>
    <3>1. frames' = [frames EXCEPT ![a] = <<>>]
      BY <2>2 DEF Deliver
    <3>2. <<>> \in Seq(Frames) /\ DOMAIN <<>> = 1..Len(left)
      BY <2>2
    <3> QED
      BY <2>2, <3>1, <3>2
  <2>3. CASE left # <<>>
    <3>k. PICK k \in Nat \ {0} : k = Len(left)
      <4>1. Len(left) \in Nat /\ Len(left) # 0
        BY <2>3
      <4> QED
        BY <4>1
    <3>f. PICK f : f = left[k]
      OBVIOUS
    <3>g. PICK g : g = Given(f, i)
      OBVIOUS
    <3>1. f \in Frames /\ f.todo # <<>> /\ Head(f.todo) = i.of /\ FrameOK(f) /\ Last(left) = f
      BY <2>1, <2>3, <3>k, <3>f DEF Last
    <3>2. i.gen = generation /\ i.sees = overridden \cap Reach(i.of, overridden)
      BY DEF Served, Fresh
    <3>3. /\ g \in Frames /\ g.of = f.of /\ g.gen = generation
          /\ g.sees \cup Sights(Range(g.todo)) = Sights(Range(Needs[g.of]))
      <4>1. /\ f.gen = generation
            /\ f.sees \cup Sights(Range(f.todo)) = Sights(Range(Needs[f.of]))
        BY <3>1 DEF FrameOK
      <4> HIDE DEF CachesInv
      <4>2. generation \in Nat
        BY DEF CachesInv
      <4> QED
        BY <3>1, <3>2, <3>g, <4>1, <4>2, GivenAPart
    <3>4. frames' = [frames EXCEPT ![a] = Append(Front(left), g)]
      BY <2>3, <3>1, <3>g DEF Deliver
    <3>5. /\ Front(left) \in Seq(Frames) /\ Len(Front(left)) = k - 1
          /\ \A n \in 1..(k - 1) : Front(left)[n] = left[n]
      BY <3>k DEF Front
    <3>6. /\ frames'[a] = Append(Front(left), g) /\ frames' \in [Actors -> Seq(Frames)]
          /\ \A b \in Actors : b # a => frames'[b] = frames[b]
      BY <3>3, <3>4, <3>5
    <3>7. DOMAIN frames'[a] = 1..k /\ frames'[a][k] = g
      BY <3>5, <3>6, <3>3
    <3>8. \A n \in 1..k : n # k => frames'[a][n] = frames[a][n]
      BY <3>5, <3>6, <3>k, <3>3
    <3>9. frames[a][k] = f
      BY <3>k, <3>f
    <3>10. \A n \in 1..k : n # k => /\ frames[a][n].gen = generation
                                    /\ frames[a][n].sees \cup Sights(Range(frames[a][n].todo))
                                          = Sights(Range(Needs[frames[a][n].of]))
      BY <2>1, <3>k DEF FrameOK
    <3> QED
      BY <2>1, <3>k, <3>3, <3>6, <3>7, <3>8, <3>9, <3>10
  <2> QED
    BY <2>2, <2>3
<1>2. /\ memo' = [p \in Routes |-> memo'[p]] /\ \A p \in Routes : IsMemo(memo'[p])
      /\ doing' \in [Actors -> {"idle", "warming", "pipeline", "controller", "ready"}]
      /\ got' \in [Actors -> Seq(Instances)]
      /\ settled' \in [Actors -> BOOLEAN] /\ shown' \subseteq Instances
      /\ Places' /\ GotServed' /\ ShownCurrent' /\ MemosServed' /\ SettledKept'
  <2>1. CASE left = <<>>
    <3>1. HandOver(a, i, TRUE)
      BY <2>1 DEF Deliver
    <3>2. /\ memo' = [p \in Routes |-> memo'[p]] /\ \A p \in Routes : IsMemo(memo'[p])
          /\ doing' \in [Actors -> {"idle", "warming", "pipeline", "controller", "ready"}]
          /\ got' \in [Actors -> Seq(Instances)]
          /\ settled' \in [Actors -> BOOLEAN] /\ shown' \subseteq Instances
          /\ doing'[Boot] \in {"idle", "warming"}
          /\ \A r \in Requests : doing'[r] # "warming" /\ (Active(r)' => route[r] \in Routes)
          /\ \A b \in Actors : b # a => doing'[b] = doing[b] /\ got'[b] = got[b]
          /\ Active(a)'
          /\ GotServed' /\ ShownCurrent' /\ MemosServed' /\ SettledKept'
      BY <3>1, HandedOver
    <3>3. Places'
      BY <3>2, <1>1 DEF Places, Active
    <3> QED
      BY <3>2, <3>3
  <2>2. CASE left # <<>>
    <3>1. UNCHANGED <<got, doing, settled, memo, shown>>
      BY <2>2 DEF Deliver
    <3>2. Places'
      BY <3>1, <1>1 DEF Places, Active
    <3>3. GotServed'
      <4> SUFFICES ASSUME NEW b \in Actors, NEW n \in DOMAIN got[b]
                   PROVE  Served(got[b][n])'
        BY <3>1 DEF GotServed
      <4>1. got[b][n] \in Instances /\ Served(got[b][n])
        BY DEF GotServed
      <4> QED
        BY <3>1, <4>1 DEF Served
    <3>4. ShownCurrent'
      BY <3>1 DEF ShownCurrent
    <3>5. MemosServed'
      <4> SUFFICES ASSUME NEW p \in Routes PROVE (memo[p].gen <= generation /\ MemoServed(memo[p]))'
        BY DEF MemosServed
      <4>m. PICK m : m = memo[p] /\ m = memo'[p]
        BY <3>1
      <4>1. IsMemo(m) /\ MemoServed(m) /\ m.gen <= generation
        BY <4>m DEF MemosServed
      <4>2. \A j \in Instances : Kept(j) => Kept(j)'
        BY DEF Kept, Served
      <4>3. MemoServed(m)'
        BY <4>1, <4>2 DEF MemoServed, IsMemo, IsTable
      <4> QED
        BY <4>m, <4>1, <4>3
    <3>6. SettledKept'
      BY <3>1 DEF SettledKept
    <3> QED
      BY <3>1, <3>2, <3>3, <3>4, <3>5, <3>6
  <2> QED
    BY <2>1, <2>2
<1>3. FramesOK'
  <2> SUFFICES ASSUME NEW b \in Actors, NEW n \in DOMAIN frames'[b]
               PROVE  (FrameOK(frames[b][n]))'
    BY DEF FramesOK
  <2>0. \A s : Sights(s)' = Sights(s)
    BY DEF Sights
  <2>1. CASE b # a
    <3>1. frames'[b] = frames[b] /\ n \in DOMAIN frames[b] /\ FrameOK(frames[b][n])
      BY <2>1, <1>1 DEF FramesOK
    <3> QED
      BY <2>0, <2>1, <3>1 DEF FrameOK
  <2>2. CASE b = a
    <3>1. n \in 1..Len(left) /\ n \in DOMAIN frames[a] /\ n <= Len(left)
      BY <2>2, <1>1
    <3>2. FrameOK(frames[a][n]) /\ frames'[a][n].of = frames[a][n].of
      BY <3>1, <1>1
    <3> QED
      BY <2>0, <2>2, <3>1, <3>2, <1>1 DEF FrameOK
  <2> QED
    BY <2>1, <2>2
<1>4. Nested'
  <2> SUFFICES ASSUME NEW b \in Actors, NEW n \in DOMAIN frames'[b], n + 1 \in DOMAIN frames'[b]
               PROVE  frames'[b][n].todo # <<>> /\ Head(frames'[b][n].todo) = frames'[b][n + 1].of
    BY DEF Nested
  <2>1. CASE b # a
    BY <2>1, <1>1 DEF Nested
  <2>2. CASE b = a
    <3>1. /\ n \in 1..Len(left) /\ n + 1 \in 1..Len(left) /\ n # Len(left)
          /\ n \in DOMAIN frames[a] /\ n + 1 \in DOMAIN frames[a]
      BY <2>2, <1>1
    <3>2. frames'[a][n] = frames[a][n] /\ frames'[a][n + 1].of = frames[a][n + 1].of
      BY <3>1, <1>1
    <3> QED
      BY <2>2, <3>1, <3>2 DEF Nested
  <2> QED
    BY <2>1, <2>2
<1>5. OneConstruction'
  <2>1. \A b \in Actors : \A n \in DOMAIN frames'[b] :
            n \in DOMAIN frames[b] /\ frames'[b][n].of = frames[b][n].of
    <3> SUFFICES ASSUME NEW b \in Actors, NEW n \in DOMAIN frames'[b]
                 PROVE  n \in DOMAIN frames[b] /\ frames'[b][n].of = frames[b][n].of
      OBVIOUS
    <3>1. CASE b # a
      BY <3>1, <1>1
    <3>2. CASE b = a
      <4>1. n \in 1..Len(left) /\ Len(left) \in Nat /\ frames[a] \in Seq(Frames)
        BY <3>2, <1>1
      <4>2. n \in DOMAIN frames[a]
        BY <4>1
      <4> QED
        BY <3>2, <4>1, <4>2, <1>1
    <3> QED
      BY <3>1, <3>2
  <2> SUFFICES ASSUME NEW b \in Actors, NEW c \in Actors,
                      NEW m \in DOMAIN frames'[b], NEW n \in DOMAIN frames'[c],
                      frames'[b][m].of = frames'[c][n].of, frames'[b][m].of \notin Fleeting
               PROVE  b = c /\ m = n
    BY DEF OneConstruction
  <2>2. /\ m \in DOMAIN frames[b] /\ frames'[b][m].of = frames[b][m].of
        /\ n \in DOMAIN frames[c] /\ frames'[c][n].of = frames[c][n].of
    BY <2>1
  <2>3. frames[b][m].of = frames[c][n].of /\ frames[b][m].of \notin Fleeting
    BY <2>2
  <2>4. OneConstruction
    OBVIOUS
  <2> HIDE DEF CachesInv, CachesTypeOK
  <2> QED
    BY <2>2, <2>3, <2>4 DEF OneConstruction
<1> QED
  BY <1>1, <1>2, <1>3, <1>4, <1>5

-----------------------------------------------------------------------------
(* Resolution.                                                               *)

LEMMA AskedIsNode ==
  ASSUME CachesInv, NEW a \in Actors, Active(a), Asking(a)
  PROVE  Asked(a) \in Nodes /\ (frames[a] # <<>> => Asked(a) \in Tokens)
<1> USE DEF CachesInv, CachesTypeOK
<1>1. CASE frames[a] = <<>>
  <2>1. Todo(a) \in Seq(Nodes)
    <3>1. CASE doing[a] = "warming"
      <4>1. WarmUp \in Seq(Singletons) /\ Singletons \subseteq Nodes
        BY DEF Nodes, Tokens
      <4> QED
        BY <3>1, <4>1 DEF Todo
    <3>2. CASE doing[a] \in {"pipeline", "controller"}
      <4>1. route[a] \in Routes
        BY <3>2 DEF Places, Actors, Active
      <4>2. Components[route[a]] \in Seq(Nodes) /\ Controller \in Nodes
        BY <4>1 DEF Nodes
      <4> QED
        BY <3>2, <4>2 DEF Todo
    <3>3. CASE doing[a] \notin {"warming", "pipeline", "controller"}
      BY <3>3 DEF Todo
    <3> QED
      BY <3>1, <3>2, <3>3
  <2>2. Len(got[a]) \in Nat /\ Len(got[a]) < Len(Todo(a))
    BY <1>1 DEF Asking
  <2>3. Len(got[a]) + 1 \in 1..Len(Todo(a))
    BY <2>1, <2>2
  <2> QED
    BY <1>1, <2>1, <2>3 DEF Asked
<1>2. CASE frames[a] # <<>>
  <2>1. Top(a) \in Frames
    BY <1>2 DEF Top, Last
  <2>2. Top(a).todo \in Seq(Tokens) /\ Top(a).todo # <<>>
    BY <1>2, <2>1, FrameFields DEF Asking
  <2> QED
    BY <1>2, <2>2 DEF Asked, Nodes
<1> QED
  BY <1>1, <1>2

LEMMA FoundIsServed ==
  ASSUME CachesInv, NEW t \in Nodes
  PROVE  /\ Found(t) # None => Found(t) \in Instances /\ Found(t).of = t /\ Served(Found(t))
         /\ Found(t) = None =>
               t \notin overridden /\ t \notin DOMAIN cached /\ t \notin DOMAIN controllers
<1> USE DEF CachesInv, CachesTypeOK
<1>1. CASE t \in overridden
  <2>1. t \in Tokens /\ t # Controller
    BY <1>1
  <2>i. PICK i : i = Replacement(t)
    OBVIOUS
  <2>2. i = [of |-> t, by |-> None, gen |-> generation, sees |-> {t}]
    BY <2>i DEF Replacement, Instance
  <2>3. i \in Instances /\ i.of = t /\ i.gen = generation /\ i.sees = {t}
    BY <2>1, <2>2 DEF Instances
  <2>4. Reach(t, overridden) = {t}
    BY <1>1, ReachOfCut
  <2>5. Served(i)
    BY <1>1, <2>1, <2>3, <2>4, <2>i DEF Served, Fresh, Current
  <2>6. Found(t) = i
    BY <1>1, <2>i DEF Found
  <2> QED
    BY <2>3, <2>5, <2>6
<1>2. CASE t \notin overridden /\ t \in DOMAIN cached
  <2>1. Found(t) = cached[t] /\ cached[t] \in Instances /\ cached[t].of = t /\ Fresh(cached[t])
    BY <1>2 DEF Found, CachesFresh, IsTable
  <2>2. t \in Singletons /\ t # Controller
    BY <1>2 DEF IsTable, Tokens
  <2>3. Current(cached[t])
    BY <1>2, <2>1, <2>2 DEF Current
  <2> QED
    BY <2>1, <2>3 DEF Served
<1>3. CASE t \notin overridden /\ t \notin DOMAIN cached /\ t \in DOMAIN controllers
  <2>1. /\ Found(t) = controllers[t] /\ controllers[t] \in Instances
        /\ controllers[t].of = t /\ Fresh(controllers[t])
    BY <1>3 DEF Found, CachesFresh, IsTable
  <2>2. t = Controller /\ t \notin Singletons
    BY <1>3 DEF IsTable, Tokens
  <2>3. Current(controllers[t])
    BY <1>3, <2>1, <2>2 DEF Current
  <2> QED
    BY <2>1, <2>3 DEF Served
<1>4. CASE t \notin overridden /\ t \notin DOMAIN cached /\ t \notin DOMAIN controllers
  BY <1>4 DEF Found
<1> QED
  BY <1>1, <1>2, <1>3, <1>4

LEMMA TakeKeptStep ==
  ASSUME CachesInv, NEW a \in Actors, TakeKept(a)
  PROVE  CachesInv'
<1> USE DEF CachesInv, CachesTypeOK
<1>m. PICK m : m = Followed(memo[route[a]])
  OBVIOUS
<1>i. PICK i : i = m.entries[Asked(a)]
  OBVIOUS
<1>1. /\ doing[a] = "pipeline" /\ Asked(a) \in DOMAIN m.entries /\ HandOver(a, i, FALSE)
      /\ UNCHANGED <<containerVars, cached, controllers, route, frames>>
  BY <1>m, <1>i DEF TakeKept
<1>2. UNCHANGED <<phase, shut, started, generation, overridden>>
  BY <1>1 DEF containerVars
<1>3. a \in Requests /\ Active(a) /\ route[a] \in Routes
  BY <1>1 DEF Places, Active, Actors
<1>4. IsMemo(m) /\ m.gen = generation /\ MemoServed(m)
  BY <1>3, <1>m, FollowedMemo
<1>5. i \in Instances /\ Kept(i)
  BY <1>1, <1>4, <1>i DEF MemoServed, IsMemo, IsTable
<1>6. \A j : (Current(j) => Current(j)') /\ (Fresh(j) => Fresh(j)')
  BY <1>1, <1>2 DEF Current, Fresh, Replacement, Instance
<1>7. Served(i)' /\ started /\ i.of \in Singletons
  BY <1>5, <1>6 DEF Kept, Served
<1>8. /\ memo' = [p \in Routes |-> memo'[p]] /\ \A p \in Routes : IsMemo(memo'[p])
      /\ doing' \in [Actors -> {"idle", "warming", "pipeline", "controller", "ready"}]
      /\ got' \in [Actors -> Seq(Instances)]
      /\ settled' \in [Actors -> BOOLEAN] /\ shown' \subseteq Instances
      /\ doing'[Boot] \in {"idle", "warming"}
      /\ \A r \in Requests : doing'[r] # "warming" /\ (Active(r)' => route[r] \in Routes)
      /\ \A b \in Actors : b # a => doing'[b] = doing[b] /\ got'[b] = got[b]
      /\ Active(a)'
      /\ GotServed' /\ ShownCurrent' /\ MemosServed' /\ SettledKept'
  <2> HIDE DEF CachesInv, CachesTypeOK
  <2>1. UNCHANGED <<phase, shut, started, generation, overridden, route>>
    BY <1>1, <1>2
  <2>2. FALSE \in BOOLEAN
    OBVIOUS
  <2> QED
    BY <1>1, <1>3, <1>5, <1>6, <1>7, <2>1, <2>2, HandedOver
<1>9. CachesTypeOK'
  BY <1>1, <1>2, <1>8
<1>10. Places'
  BY <1>1, <1>8 DEF Places, Active
<1>11. CachesFresh'
  BY <1>1, <1>2 DEF CachesFresh, Fresh
<1>12. FramesOK'
  <2>1. \A s : Sights(s)' = Sights(s)
    BY <1>2 DEF Sights
  <2>2. \A f : FrameOK(f) => FrameOK(f)'
    BY <2>1, <1>1, <1>2 DEF FrameOK
  <2> QED
    BY <2>2, <1>1 DEF FramesOK
<1>13. Nested' /\ OneConstruction'
  BY <1>1 DEF Nested, OneConstruction
<1> QED
  BY <1>8, <1>9, <1>10, <1>11, <1>12, <1>13

LEMMA TakeFoundStep ==
  ASSUME CachesInv, NEW a \in Actors, TakeFound(a)
  PROVE  CachesInv'
<1> USE DEF CachesInv, CachesTypeOK
<1>i. PICK i : i = Found(Asked(a))
  OBVIOUS
<1>l. PICK left : left = frames[a]
  OBVIOUS
<1>1. /\ Active(a) /\ Asking(a) /\ i # None /\ Deliver(a, i, left)
      /\ UNCHANGED <<containerVars, cached, controllers, route>>
  BY <1>i, <1>l DEF TakeFound
<1>2. UNCHANGED <<phase, shut, started, generation, overridden, route>>
  BY <1>1 DEF containerVars
<1>3. i \in Instances /\ i.of = Asked(a) /\ Served(i)
  BY <1>1, <1>i, AskedIsNode, FoundIsServed
<1>4. \A j : (Current(j) => Current(j)') /\ (Fresh(j) => Fresh(j)')
  BY <1>1, <1>2 DEF Current, Fresh, Replacement, Instance
<1>5. Served(i)'
  BY <1>3, <1>4 DEF Served
<1>6. IsTable(cached, Singletons)' /\ IsTable(controllers, {Controller})' /\ CachesFresh'
  BY <1>1, <1>2 DEF CachesFresh, Fresh, IsTable
<1>7. /\ left \in Seq(Frames) /\ Len(left) <= Len(frames[a])
      /\ \A n \in 1..Len(left) : left[n] = frames[a][n]
  BY <1>l
<1>8. left # <<>> => Last(left).todo # <<>> /\ Head(Last(left).todo) = i.of
  BY <1>1, <1>3, <1>l DEF Asking, Asked, Top
<1>9. \A b \in Actors : \A n \in DOMAIN frames[b] :
          frames[b][n].of \notin DOMAIN cached' /\ frames[b][n].of \notin DOMAIN controllers'
  BY <1>1 DEF FramesOK, FrameOK
<1> HIDE DEF CachesInv, CachesTypeOK
<1> QED
  BY <1>1, <1>2, <1>3, <1>4, <1>5, <1>6, <1>7, <1>8, <1>9, Delivered

LEMMA BeginStep ==
  ASSUME CachesInv, NEW a \in Actors, Begin(a)
  PROVE  CachesInv'
<1> USE DEF CachesInv, CachesTypeOK
<1>t. PICK t : t = Asked(a)
  OBVIOUS
<1>f. PICK f : f = Frame(t)
  OBVIOUS
<1>k. PICK k \in Nat : k = Len(frames[a])
  <2>1. Len(frames[a]) \in Nat
    OBVIOUS
  <2> QED
    BY <2>1
<1>1. /\ Active(a) /\ Asking(a) /\ Found(t) = None /\ (t \in Fleeting \/ ~Building(t))
      /\ frames' = [frames EXCEPT ![a] = Append(@, f)]
      /\ UNCHANGED <<containerVars, cacheVars, doing, route, got, settled, shown>>
  BY <1>t, <1>f DEF Begin
<1>2. UNCHANGED <<phase, shut, started, generation, overridden, cached, controllers, memo>>
  BY <1>1 DEF containerVars, cacheVars
<1>3. t \in Nodes /\ t \notin overridden /\ t \notin DOMAIN cached /\ t \notin DOMAIN controllers
  BY <1>1, <1>t, AskedIsNode, FoundIsServed
<1>4. f = [of |-> t, todo |-> Needs[t], gen |-> generation, sees |-> {}]
  BY <1>f DEF Frame
<1>5. f \in Frames /\ f.of = t
  BY <1>3, <1>4, NeedsTokens DEF Frames
<1>6. FrameOK(f)
  BY <1>3, <1>4 DEF FrameOK
<1>7. /\ frames' \in [Actors -> Seq(Frames)] /\ DOMAIN frames'[a] = 1..(k + 1)
      /\ frames'[a][k + 1] = f /\ DOMAIN frames[a] = 1..k
      /\ \A n \in 1..k : frames'[a][n] = frames[a][n]
      /\ \A b \in Actors : b # a => frames'[b] = frames[b]
  BY <1>1, <1>5, <1>k
<1>8. CachesTypeOK'
  BY <1>1, <1>2, <1>7
<1>9. Places'
  BY <1>1, <1>7 DEF Places, Active
<1>10. \A j : (Current(j) => Current(j)') /\ (Fresh(j) => Fresh(j)') /\ (Kept(j) => Kept(j)')
  BY <1>2 DEF Current, Fresh, Replacement, Instance, Kept, Served
<1>11. CachesFresh' /\ GotServed' /\ ShownCurrent' /\ SettledKept'
  BY <1>1, <1>2, <1>10 DEF CachesFresh, GotServed, Served, ShownCurrent, SettledKept
<1>12. MemosServed'
  BY <1>2, <1>10 DEF MemosServed, MemoServed
<1>13. FramesOK'
  <2>1. \A s : Sights(s)' = Sights(s)
    BY <1>2 DEF Sights
  <2>2. \A g : FrameOK(g) => FrameOK(g)'
    BY <2>1, <1>2 DEF FrameOK
  <2> SUFFICES ASSUME NEW b \in Actors, NEW n \in DOMAIN frames'[b]
               PROVE  (FrameOK(frames[b][n]))'
    BY DEF FramesOK
  <2>3. CASE b # a
    BY <2>2, <2>3, <1>7 DEF FramesOK
  <2>4. CASE b = a /\ n = k + 1
    BY <2>2, <2>4, <1>6, <1>7
  <2>5. CASE b = a /\ n \in 1..k
    BY <2>2, <2>5, <1>7 DEF FramesOK
  <2> QED
    BY <2>3, <2>4, <2>5, <1>7
<1>14. Nested'
  <2> SUFFICES ASSUME NEW b \in Actors, NEW n \in DOMAIN frames'[b], n + 1 \in DOMAIN frames'[b]
               PROVE  frames'[b][n].todo # <<>> /\ Head(frames'[b][n].todo) = frames'[b][n + 1].of
    BY DEF Nested
  <2>1. CASE b # a
    BY <2>1, <1>7 DEF Nested
  <2>2. CASE b = a /\ n = k
    <3>1. k # 0 /\ frames[a] # <<>>
      BY <2>2, <1>7, <1>k
    <3>2. Top(a) = frames'[a][k]
      BY <3>1, <1>k, <1>7 DEF Top, Last
    <3>3. Top(a).todo # <<>> /\ Head(Top(a).todo) = t
      BY <3>1, <1>1, <1>t DEF Asking, Asked
    <3> QED
      BY <2>2, <3>2, <3>3, <1>5, <1>7
  <2>3. CASE b = a /\ n # k
    <3>1. n \in 1..k /\ n + 1 \in 1..k
      BY <2>3, <1>7
    <3>2. n \in DOMAIN frames[a] /\ n + 1 \in DOMAIN frames[a]
      BY <3>1, <1>7
    <3>3. frames'[a][n] = frames[a][n] /\ frames'[a][n + 1] = frames[a][n + 1]
      BY <3>1, <1>7
    <3>4. frames[a][n].todo # <<>> /\ Head(frames[a][n].todo) = frames[a][n + 1].of
      BY <3>2 DEF Nested
    <3> QED
      BY <2>3, <3>3, <3>4
  <2> QED
    BY <2>1, <2>2, <2>3
<1>15. OneConstruction'
  <2> SUFFICES ASSUME NEW b \in Actors, NEW c \in Actors,
                      NEW m \in DOMAIN frames'[b], NEW n \in DOMAIN frames'[c],
                      frames'[b][m].of = frames'[c][n].of, frames'[b][m].of \notin Fleeting
               PROVE  b = c /\ m = n
    BY DEF OneConstruction
  <2>1. \A d \in Actors : \A l \in DOMAIN frames'[d] :
            \/ d = a /\ l = k + 1
            \/ l \in DOMAIN frames[d] /\ frames'[d][l] = frames[d][l]
    <3> SUFFICES ASSUME NEW d \in Actors, NEW l \in DOMAIN frames'[d], ~(d = a /\ l = k + 1)
                 PROVE  l \in DOMAIN frames[d] /\ frames'[d][l] = frames[d][l]
      OBVIOUS
    <3>1. CASE d = a
      <4>1. l \in 1..k
        BY <3>1, <1>7
      <4> QED
        BY <3>1, <4>1, <1>7
    <3>2. CASE d # a
      BY <3>2, <1>7
    <3> QED
      BY <3>1, <3>2
  <2>2. t \in Fleeting \/ \A d \in Actors : \A l \in DOMAIN frames[d] : frames[d][l].of # t
    BY <1>1 DEF Building
  <2>3. CASE (b = a /\ m = k + 1) \/ (c = a /\ n = k + 1)
    BY <2>1, <2>2, <2>3, <1>5, <1>7
  <2>4. CASE ~(b = a /\ m = k + 1) /\ ~(c = a /\ n = k + 1)
    <3>1. /\ m \in DOMAIN frames[b] /\ n \in DOMAIN frames[c]
          /\ frames[b][m].of = frames[c][n].of /\ frames[b][m].of \notin Fleeting
      BY <2>1, <2>4
    <3> QED
      BY <3>1 DEF OneConstruction
  <2> QED
    BY <2>3, <2>4
<1> QED
  BY <1>8, <1>9, <1>11, <1>12, <1>13, <1>14, <1>15

LEMMA BuildStep ==
  ASSUME CachesInv, NEW a \in Actors, Build(a)
  PROVE  CachesInv'
<1> USE DEF CachesInv, CachesTypeOK
<1>k. PICK k \in Nat \ {0} : k = Len(frames[a])
  <2>1. frames[a] # <<>>
    BY DEF Build
  <2>2. Len(frames[a]) \in Nat /\ Len(frames[a]) # 0
    BY <2>1
  <2> QED
    BY <2>2
<1>f. PICK f : f = Top(a)
  OBVIOUS
<1>n. PICK new : new = Instance(f.of, a, f.gen, f.sees)
  OBVIOUS
<1>l. PICK left : left = Front(frames[a])
  OBVIOUS
<1>1. /\ frames[a] # <<>> /\ f.todo = <<>>
      /\ cached' = IF f.of \in Singletons
                   THEN Extended(cached, f.of, IF f.of \in DOMAIN cached THEN cached[f.of] ELSE new)
                   ELSE cached
      /\ controllers' = IF f.of = Controller THEN Extended(controllers, f.of, new)
                        ELSE controllers
      /\ Deliver(a, IF f.of \in DOMAIN cached THEN cached[f.of] ELSE new, left)
      /\ UNCHANGED <<containerVars, route>>
  BY <1>f, <1>n, <1>l DEF Build
<1>2. UNCHANGED <<phase, shut, started, generation, overridden, route>>
  BY <1>1 DEF containerVars
<1>3. f = frames[a][k] /\ k \in DOMAIN frames[a] /\ f \in Frames /\ FrameOK(f)
  <2>1. f = frames[a][k] /\ k \in DOMAIN frames[a]
    BY <1>k, <1>f DEF Top, Last
  <2> QED
    BY <2>1 DEF FramesOK
<1>4. /\ f.of \in Nodes /\ f.of \notin overridden /\ f.of \notin DOMAIN cached
      /\ f.of \notin DOMAIN controllers /\ f.gen = generation /\ f.sees \in SUBSET Tokens
  BY <1>3, FrameFields DEF FrameOK
<1>5. new = [of |-> f.of, by |-> a, gen |-> f.gen, sees |-> f.sees]
  BY <1>n DEF Instance
<1>6. new \in Instances /\ new.of = f.of /\ new.gen = generation /\ new.sees = f.sees
  BY <1>4, <1>5 DEF Instances
<1>7. new.sees = overridden \cap Reach(new.of, overridden)
  BY <1>1, <1>3, <1>6, BuiltFresh
<1>8. /\ Deliver(a, new, left)
      /\ cached' = IF f.of \in Singletons THEN Extended(cached, f.of, new) ELSE cached
  BY <1>1, <1>4
<1>9. /\ IsTable(cached', Singletons)
      /\ DOMAIN cached' = DOMAIN cached \cup (IF f.of \in Singletons THEN {f.of} ELSE {})
      /\ f.of \in Singletons => cached'[f.of] = new
      /\ \A t \in DOMAIN cached : cached'[t] = cached[t]
  <2>1. CASE f.of \in Singletons
    <3>1. cached' = [u \in DOMAIN cached \cup {f.of} |-> IF u = f.of THEN new ELSE cached[u]]
      BY <2>1, <1>8 DEF Extended
    <3>2. \A u \in DOMAIN cached' : cached'[u] \in Instances
      BY <3>1, <1>6 DEF IsTable
    <3> QED
      BY <2>1, <3>1, <3>2, <1>4 DEF IsTable
  <2>2. CASE f.of \notin Singletons
    BY <2>2, <1>8
  <2> QED
    BY <2>1, <2>2
<1>10. /\ IsTable(controllers', {Controller})
       /\ DOMAIN controllers' = DOMAIN controllers \cup (IF f.of = Controller THEN {f.of} ELSE {})
       /\ f.of = Controller => controllers'[f.of] = new
       /\ \A t \in DOMAIN controllers : controllers'[t] = controllers[t]
  <2>1. CASE f.of = Controller
    <3>1. controllers' = [u \in DOMAIN controllers \cup {f.of} |->
                              IF u = f.of THEN new ELSE controllers[u]]
      BY <2>1, <1>1 DEF Extended
    <3>2. \A u \in DOMAIN controllers' : controllers'[u] \in Instances
      BY <3>1, <1>6 DEF IsTable
    <3> QED
      BY <2>1, <3>1, <3>2, <1>4 DEF IsTable
  <2>2. CASE f.of # Controller
    BY <2>2, <1>1
  <2> QED
    BY <2>1, <2>2
<1>11. \A j : (Current(j) => Current(j)') /\ (Fresh(j) => Fresh(j)')
  <2> SUFFICES ASSUME NEW j PROVE (Current(j) => Current(j)') /\ (Fresh(j) => Fresh(j)')
    OBVIOUS
  <2>1. Fresh(j) => Fresh(j)'
    BY <1>2 DEF Fresh
  <2>2. ASSUME Current(j), j.of \in Singletons
        PROVE  IF j.of \in overridden' THEN j = Replacement(j.of)'
               ELSE j.of \in DOMAIN cached' /\ cached'[j.of] = j
    BY <2>2, <1>2, <1>9 DEF Current, Replacement, Instance
  <2>3. ASSUME Current(j), j.of = Controller
        PROVE  Controller \in DOMAIN controllers' /\ controllers'[Controller] = j
    BY <2>3, <1>10 DEF Current
  <2> QED
    BY <2>1, <2>2, <2>3 DEF Current
<1>12. Served(new)'
  <2>1. Fresh(new)'
    BY <1>2, <1>6, <1>7 DEF Fresh
  <2>2. Current(new)'
    BY <1>2, <1>4, <1>6, <1>9, <1>10 DEF Current
  <2> QED
    BY <2>1, <2>2 DEF Served
<1>13. CachesFresh'
  <2>1. ASSUME NEW t \in DOMAIN cached' PROVE cached'[t].of = t /\ (Fresh(cached[t]))'
    <3>1. CASE t \in DOMAIN cached
      <4>1. cached'[t] = cached[t] /\ cached[t].of = t /\ Fresh(cached[t])
        BY <3>1, <1>9 DEF CachesFresh
      <4> QED
        BY <4>1, <1>11
    <3>2. CASE t \notin DOMAIN cached
      <4>1. cached'[t] = new /\ t = f.of
        BY <3>2, <1>9
      <4> QED
        BY <4>1, <1>6, <1>12 DEF Served
    <3> QED
      BY <3>1, <3>2
  <2>2. ASSUME NEW t \in DOMAIN controllers'
        PROVE  controllers'[t].of = t /\ (Fresh(controllers[t]))'
    <3>1. CASE t \in DOMAIN controllers
      <4>1. controllers'[t] = controllers[t] /\ controllers[t].of = t /\ Fresh(controllers[t])
        BY <3>1, <1>10 DEF CachesFresh
      <4> QED
        BY <4>1, <1>11
    <3>2. CASE t \notin DOMAIN controllers
      <4>1. controllers'[t] = new /\ t = f.of
        BY <3>2, <1>10
      <4> QED
        BY <4>1, <1>6, <1>12 DEF Served
    <3> QED
      BY <3>1, <3>2
  <2> QED
    BY <2>1, <2>2 DEF CachesFresh
<1>14. /\ left \in Seq(Frames) /\ Len(left) = k - 1
       /\ \A n \in 1..(k - 1) : left[n] = frames[a][n]
  BY <1>k, <1>l DEF Front
<1>15. left # <<>> => Last(left).todo # <<>> /\ Head(Last(left).todo) = new.of
  <2> SUFFICES ASSUME left # <<>>
               PROVE  Last(left).todo # <<>> /\ Head(Last(left).todo) = new.of
    OBVIOUS
  <2>1. k - 1 # 0
    BY <1>14
  <2>2. k - 1 \in DOMAIN frames[a] /\ (k - 1) + 1 = k /\ k - 1 \in 1..(k - 1)
    BY <2>1, <1>k
  <2>3. Last(left) = frames[a][k - 1]
    BY <2>2, <1>14 DEF Last
  <2> QED
    BY <2>2, <2>3, <1>3, <1>6 DEF Nested
<1>16. \A b \in Actors : \A n \in DOMAIN frames[b] :
           b # a \/ n <= Len(left) =>
               frames[b][n].of \notin DOMAIN cached' /\ frames[b][n].of \notin DOMAIN controllers'
  <2> SUFFICES ASSUME NEW b \in Actors, NEW n \in DOMAIN frames[b], b # a \/ n <= Len(left)
               PROVE  /\ frames[b][n].of \notin DOMAIN cached'
                      /\ frames[b][n].of \notin DOMAIN controllers'
    OBVIOUS
  <2>1. frames[b][n].of \notin DOMAIN cached /\ frames[b][n].of \notin DOMAIN controllers
    BY DEF FramesOK, FrameOK
  <2>2. b # a \/ n # k
    BY <1>14
  <2>3. f.of \in Singletons \/ f.of = Controller => f.of \notin Fleeting
    BY DEF Tokens
  <2>4. f.of \in Singletons \/ f.of = Controller => frames[b][n].of # f.of
    BY <2>2, <2>3, <1>3 DEF OneConstruction
  <2> QED
    BY <2>1, <2>4, <1>9, <1>10
<1>17. Len(left) <= Len(frames[a]) /\ \A n \in 1..Len(left) : left[n] = frames[a][n]
  BY <1>14, <1>k
<1>18. Active(a)
  BY <1>1 DEF Places
<1>19. IsTable(cached, Singletons)' /\ IsTable(controllers, {Controller})'
  BY <1>9, <1>10
<1> HIDE DEF CachesInv, CachesTypeOK
<1> QED
  BY <1>2, <1>6, <1>8, <1>11, <1>12, <1>13, <1>14, <1>15, <1>16, <1>17, <1>18, <1>19, Delivered

-----------------------------------------------------------------------------
(* Requests.                                                                 *)

LEMMA ArriveStep ==
  ASSUME CachesInv, NEW r \in Requests, Arrive(r)
  PROVE  CachesInv'
<1> USE DEF CachesInv, CachesTypeOK
<1>p. PICK p \in Routes :
         LET m == Followed(memo[p]) IN
         /\ ~Active(r)
         /\ route' = [route EXCEPT ![r] = p]
         /\ memo' = [memo EXCEPT ![p] = m]
         /\ settled' = [settled EXCEPT ![r] = TRUE]
         /\ got' = [got EXCEPT ![r] = IF m.whole = None THEN <<>> ELSE m.whole]
         /\ doing' = [doing EXCEPT ![r] = IF m.whole = None /\ Components[p] # <<>>
                                          THEN "pipeline" ELSE "controller"]
         /\ UNCHANGED <<containerVars, cached, controllers, frames, shown>>
  BY DEF Arrive
<1>m. PICK m : m = Followed(memo[p])
  OBVIOUS
<1>s. PICK served : served = IF m.whole = None THEN <<>> ELSE m.whole
  OBVIOUS
<1>1. /\ ~Active(r) /\ route' = [route EXCEPT ![r] = p] /\ memo' = [memo EXCEPT ![p] = m]
      /\ settled' = [settled EXCEPT ![r] = TRUE] /\ got' = [got EXCEPT ![r] = served]
      /\ doing' = [doing EXCEPT ![r] = IF m.whole = None /\ Components[p] # <<>>
                                       THEN "pipeline" ELSE "controller"]
      /\ UNCHANGED <<containerVars, cached, controllers, frames, shown>>
  BY <1>p, <1>m, <1>s
<1>2. UNCHANGED <<phase, shut, started, generation, overridden, cached, controllers>>
  BY <1>1 DEF containerVars
<1>3. r \in Actors /\ r # Boot
  BY DEF Actors
<1>4. IsMemo(m) /\ m.gen = generation /\ MemoServed(m)
  BY <1>m, FollowedMemo
<1>5. served \in Seq(Instances) /\ \A n \in DOMAIN served : Kept(served[n])
  BY <1>4, <1>s DEF IsMemo, MemoServed
<1>6. \A j : (Current(j) => Current(j)') /\ (Fresh(j) => Fresh(j)') /\ (Kept(j) => Kept(j)')
  BY <1>2 DEF Current, Fresh, Replacement, Instance, Kept, Served
<1>7. /\ got' \in [Actors -> Seq(Instances)] /\ got'[r] = served
      /\ \A b \in Actors : b # r => got'[b] = got[b] /\ doing'[b] = doing[b] /\ settled'[b] = settled[b]
                                    /\ route'[b] = route[b]
      /\ route'[r] = p /\ doing'[r] \in {"pipeline", "controller"}
      /\ doing'[r] = "pipeline" => m.whole = None
  BY <1>1, <1>3, <1>5
<1>8. \A q \in Routes : memo'[q] = IF q = p THEN m ELSE memo[q]
  BY <1>1
<1>9. /\ memo' = [q \in Routes |-> memo'[q]] /\ \A q \in Routes : IsMemo(memo'[q])
      /\ route' = [a \in Actors |-> route'[a]]
  BY <1>1, <1>4, <1>8
<1>10. doing' \in [Actors -> {"idle", "warming", "pipeline", "controller", "ready"}]
  BY <1>1
<1>11. CachesTypeOK'
  BY <1>1, <1>2, <1>7, <1>9, <1>10
<1>12. Places'
  BY <1>1, <1>3, <1>7 DEF Places, Active, Actors
<1>13. GotServed'
  <2> SUFFICES ASSUME NEW b \in Actors, NEW n \in DOMAIN got'[b] PROVE (Served(got[b][n]))'
    BY DEF GotServed
  <2>1. \A j : Served(j) => Served(j)'
    BY <1>6 DEF Served
  <2>2. CASE b = r
    BY <2>1, <2>2, <1>5, <1>7 DEF Kept
  <2>3. CASE b # r
    BY <2>1, <2>3, <1>7 DEF GotServed
  <2> QED
    BY <2>2, <2>3
<1>14. MemosServed'
  <2> SUFFICES ASSUME NEW q \in Routes PROVE (memo[q].gen <= generation /\ MemoServed(memo[q]))'
    BY DEF MemosServed
  <2>1. \A n : MemoServed(n) => MemoServed(n)'
    BY <1>2, <1>6 DEF MemoServed
  <2>2. CASE q = p
    BY <2>1, <2>2, <1>2, <1>4, <1>8
  <2>3. CASE q # p
    BY <2>1, <2>3, <1>2, <1>8 DEF MemosServed
  <2> QED
    BY <2>2, <2>3
<1>15. SettledKept'
  <2> SUFFICES ASSUME NEW b \in Actors, doing'[b] = "pipeline", settled'[b],
                      NEW n \in DOMAIN got'[b]
               PROVE  started /\ got'[b][n].of \in Singletons
    BY <1>2 DEF SettledKept
  <2>1. CASE b = r
    <3>1. got'[b] = <<>>
      BY <2>1, <1>7, <1>s
    <3> QED
      BY <3>1
  <2>2. CASE b # r
    BY <2>2, <1>7 DEF SettledKept
  <2> QED
    BY <2>1, <2>2
<1>16. CachesFresh' /\ ShownCurrent'
  BY <1>1, <1>2, <1>6 DEF CachesFresh, ShownCurrent
<1>17. FramesOK'
  <2>1. \A s : Sights(s)' = Sights(s)
    BY <1>2 DEF Sights
  <2>2. \A g : FrameOK(g) => FrameOK(g)'
    BY <2>1, <1>2 DEF FrameOK
  <2> QED
    BY <2>2, <1>1 DEF FramesOK
<1>18. Nested' /\ OneConstruction'
  BY <1>1 DEF Nested, OneConstruction
<1> QED
  BY <1>11, <1>12, <1>13, <1>14, <1>15, <1>16, <1>17, <1>18

\* An actor that lets go of what it holds, in a container that keeps what it has.
LEMMA IdleStep ==
  ASSUME CachesInv, NEW a \in Actors, Idle(a),
         UNCHANGED <<shut, generation, overridden, cacheVars, route, settled, shown>>,
         phase' \in {"new", "starting", "started", "stopped"}, started' \in BOOLEAN,
         started => started'
  PROVE  CachesInv'
<1> USE DEF CachesInv, CachesTypeOK
<1>1. UNCHANGED <<shut, generation, overridden, cached, controllers, memo, route, settled, shown>>
  BY DEF cacheVars
<1>2. /\ doing' = [doing EXCEPT ![a] = "idle"] /\ got' = [got EXCEPT ![a] = <<>>]
      /\ frames' = [frames EXCEPT ![a] = <<>>]
  BY DEF Idle
<1>3. /\ doing' \in [Actors -> {"idle", "warming", "pipeline", "controller", "ready"}]
      /\ got' \in [Actors -> Seq(Instances)] /\ frames' \in [Actors -> Seq(Frames)]
      /\ doing'[a] = "idle" /\ got'[a] = <<>> /\ frames'[a] = <<>>
      /\ \A b \in Actors : b # a => doing'[b] = doing[b] /\ got'[b] = got[b] /\ frames'[b] = frames[b]
  BY <1>2
<1>4. CachesTypeOK'
  BY <1>1, <1>3
<1>5. Places'
  BY <1>1, <1>3 DEF Places, Active, Actors
<1>6. \A j : (Current(j) => Current(j)') /\ (Fresh(j) => Fresh(j)') /\ (Kept(j) => Kept(j)')
  BY <1>1 DEF Current, Fresh, Replacement, Instance, Kept, Served
<1>7. CachesFresh' /\ ShownCurrent'
  BY <1>1, <1>6 DEF CachesFresh, ShownCurrent
<1>8. GotServed' /\ SettledKept'
  <2>1. \A b \in Actors : \A n \in DOMAIN got'[b] : b # a
    BY <1>3
  <2>2. GotServed'
    BY <1>3, <1>6, <2>1 DEF GotServed, Served
  <2>3. SettledKept'
    BY <1>1, <1>3, <2>1 DEF SettledKept
  <2> QED
    BY <2>2, <2>3
<1>9. MemosServed'
  BY <1>1, <1>6 DEF MemosServed, MemoServed
<1>10. \A b \in Actors : \A n \in DOMAIN frames'[b] : b # a /\ frames'[b] = frames[b]
  BY <1>3
<1>11. FramesOK'
  <2>1. \A s : Sights(s)' = Sights(s)
    BY <1>1 DEF Sights
  <2>2. \A g : FrameOK(g) => FrameOK(g)'
    BY <2>1, <1>1 DEF FrameOK
  <2> QED
    BY <2>2, <1>10 DEF FramesOK
<1>12. Nested' /\ OneConstruction'
  BY <1>10 DEF Nested, OneConstruction
<1> QED
  BY <1>4, <1>5, <1>7, <1>8, <1>9, <1>11, <1>12

LEMMA LeaveStep ==
  ASSUME CachesInv, NEW r \in Requests, Fail(r) \/ Finish(r)
  PROVE  CachesInv'
<1>1. r \in Actors
  BY DEF Actors
<1>2. /\ Idle(r) /\ UNCHANGED <<phase, shut, started, generation, overridden>>
      /\ UNCHANGED <<cacheVars, route, settled, shown>>
  BY DEF Fail, Finish, containerVars
<1>3. phase \in {"new", "starting", "started", "stopped"} /\ started \in BOOLEAN
  BY DEF CachesInv, CachesTypeOK
<1> QED
  BY <1>1, <1>2, <1>3, IdleStep

-----------------------------------------------------------------------------
(* Startup and shutdown.                                                     *)

LEMMA StartupEndsStep ==
  ASSUME CachesInv, StartupEnds
  PROVE  CachesInv'
<1>1. Boot \in Actors
  BY DEF Actors
<1>2. /\ Idle(Boot) /\ phase' = "started" /\ started' = TRUE
      /\ UNCHANGED <<shut, generation, overridden, cacheVars, route, settled, shown>>
  BY DEF StartupEnds
<1> QED
  BY <1>1, <1>2, IdleStep

LEMMA StartupBeginsStep ==
  ASSUME CachesInv, StartupBegins
  PROVE  CachesInv'
<1> USE DEF CachesInv, CachesTypeOK
<1>1. /\ phase' = "starting" /\ shut' = FALSE /\ doing' = [doing EXCEPT ![Boot] = "warming"]
      /\ UNCHANGED <<started, generation, overridden, cached, controllers, memo,
                     route, got, settled, frames, shown>>
  BY DEF StartupBegins, cacheVars
<1>2. /\ doing' \in [Actors -> {"idle", "warming", "pipeline", "controller", "ready"}]
      /\ doing'[Boot] = "warming" /\ \A b \in Actors : b # Boot => doing'[b] = doing[b]
  BY <1>1 DEF Actors
<1>3. CachesTypeOK'
  BY <1>1, <1>2
<1>4. Places'
  BY <1>1, <1>2 DEF Places, Active, Actors
<1>5. \A j : (Current(j) => Current(j)') /\ (Fresh(j) => Fresh(j)') /\ (Kept(j) => Kept(j)')
  BY <1>1 DEF Current, Fresh, Replacement, Instance, Kept, Served
<1>6. CachesFresh' /\ ShownCurrent' /\ GotServed'
  BY <1>1, <1>5 DEF CachesFresh, ShownCurrent, GotServed, Served
<1>7. SettledKept'
  BY <1>1, <1>2 DEF SettledKept
<1>8. MemosServed'
  BY <1>1, <1>5 DEF MemosServed, MemoServed
<1>9. FramesOK'
  <2>1. \A s : Sights(s)' = Sights(s)
    BY <1>1 DEF Sights
  <2>2. \A g : FrameOK(g) => FrameOK(g)'
    BY <2>1, <1>1 DEF FrameOK
  <2> QED
    BY <2>2, <1>1 DEF FramesOK
<1>10. Nested' /\ OneConstruction'
  BY <1>1 DEF Nested, OneConstruction
<1> QED
  BY <1>3, <1>4, <1>6, <1>7, <1>8, <1>9, <1>10

\* Nothing is held of a generation that is gone, when no request is under way.
LEMMA StopStep ==
  ASSUME CachesInv, Drained, Stop
  PROVE  CachesInv'
<1> USE DEF CachesInv, CachesTypeOK
<1>1. /\ \A r \in Requests : ~Active(r)
      /\ phase' = "stopped" /\ cached' = EmptyTable /\ controllers' = EmptyTable
      /\ shut' = TRUE /\ started' = FALSE /\ generation' = generation + 1 /\ shown' = {}
      /\ doing' = [doing EXCEPT ![Boot] = "idle"] /\ got' = [got EXCEPT ![Boot] = <<>>]
      /\ frames' = [frames EXCEPT ![Boot] = <<>>]
      /\ UNCHANGED <<overridden, memo, route, settled>>
  BY DEF Stop, Forgotten, Idle
<1>2. Boot \in Actors /\ \A a \in Actors : a # Boot => ~Active(a) /\ got[a] = <<>> /\ frames[a] = <<>>
  BY <1>1 DEF Actors, Places
<1>3. /\ \A a \in Actors : doing'[a] = "idle" /\ got'[a] = <<>> /\ frames'[a] = <<>>
      /\ doing' \in [Actors -> {"idle", "warming", "pipeline", "controller", "ready"}]
      /\ got' \in [Actors -> Seq(Instances)] /\ frames' \in [Actors -> Seq(Frames)]
  BY <1>1, <1>2 DEF Active
<1>4. DOMAIN EmptyTable = {} /\ \A s : IsTable(EmptyTable, s)
  BY DEF EmptyTable, IsTable
<1>5. CachesTypeOK'
  <2>1. IsTable(cached, Singletons)' /\ IsTable(controllers, {Controller})'
    BY <1>1, <1>4
  <2>2. generation' \in Nat /\ shown' \subseteq Instances
    BY <1>1
  <2>3. memo' = [p \in Routes |-> memo'[p]] /\ \A p \in Routes : IsMemo(memo'[p])
    BY <1>1
  <2> QED
    BY <1>1, <1>3, <2>1, <2>2, <2>3
<1>6. Places'
  BY <1>3 DEF Places, Active, Actors
<1>7. CachesFresh' /\ ShownCurrent'
  BY <1>1, <1>4 DEF CachesFresh, ShownCurrent
<1>8. GotServed' /\ SettledKept' /\ FramesOK' /\ Nested' /\ OneConstruction'
  <2>1. \A a \in Actors : DOMAIN got'[a] = {} /\ DOMAIN frames'[a] = {}
    BY <1>3
  <2> QED
    BY <2>1 DEF GotServed, SettledKept, FramesOK, Nested, OneConstruction
<1>9. MemosServed'
  <2> SUFFICES ASSUME NEW p \in Routes PROVE (memo[p].gen <= generation /\ MemoServed(memo[p]))'
    BY DEF MemosServed
  <2>1. memo[p].gen \in Nat /\ memo[p].gen <= generation /\ memo'[p] = memo[p]
    BY <1>1 DEF MemosServed, IsMemo
  <2>2. memo'[p].gen <= generation' /\ memo'[p].gen # generation'
    BY <1>1, <2>1
  <2> QED
    BY <2>2 DEF MemoServed
<1> QED
  BY <1>5, <1>6, <1>7, <1>8, <1>9

-----------------------------------------------------------------------------
(* Overrides.                                                                *)

\* While nobody resolves, and before the start, changing what stands for a token leaves
\* nothing stale, if what is left in the cache is fresh.
LEMMA Overridden ==
  ASSUME CachesInv, Quiet, MayOverride,
         UNCHANGED <<phase, shut, started, generation, memo, actorVars>>,
         overridden' \subseteq Replaceable, IsTable(cached', Singletons),
         controllers' = EmptyTable, shown' = {},
         \A t \in DOMAIN cached' : cached'[t].of = t /\ (Fresh(cached[t]))'
  PROVE  CachesInv'
<1> USE DEF CachesInv, CachesTypeOK
<1>1. /\ ~started /\ \A a \in Actors : got[a] = <<>> /\ frames[a] = <<>>
      /\ UNCHANGED <<doing, route, got, settled, frames>>
  BY DEF MayOverride, actorVars, Places
<1>2. DOMAIN EmptyTable = {} /\ \A s : IsTable(EmptyTable, s)
  BY DEF EmptyTable, IsTable
<1>3. CachesTypeOK'
  BY <1>1, <1>2
<1>4. Places'
  BY <1>1 DEF Places, Active
<1>5. CachesFresh' /\ ShownCurrent'
  BY <1>2 DEF CachesFresh, ShownCurrent
<1>6. GotServed' /\ SettledKept' /\ FramesOK' /\ Nested' /\ OneConstruction'
  <2>1. \A a \in Actors : DOMAIN got'[a] = {} /\ DOMAIN frames'[a] = {}
    BY <1>1
  <2> QED
    BY <2>1 DEF GotServed, SettledKept, FramesOK, Nested, OneConstruction
<1>7. MemosServed'
  <2> SUFFICES ASSUME NEW p \in Routes PROVE (memo[p].gen <= generation /\ MemoServed(memo[p]))'
    BY DEF MemosServed
  <2>m. PICK m : m = memo[p] /\ m = memo'[p]
    OBVIOUS
  <2>1. m.gen <= generation /\ MemoServed(m)
    BY <2>m DEF MemosServed
  <2>2. \A i : ~Kept(i)
    BY <1>1 DEF Kept
  <2>3. MemoServed(m)'
    BY <2>1, <2>2 DEF MemoServed
  <2> QED
    BY <2>m, <2>1, <2>3
<1> QED
  BY <1>3, <1>4, <1>5, <1>6, <1>7

\* What is kept when a replacement comes or goes is as fresh after it as it was.
LEMMA LeftFresh ==
  ASSUME CachesInv, NEW x \in Tokens, NEW t \in DOMAIN cached \ ReachedBy(x)
  PROVE  /\ cached[t].of = t /\ cached[t].gen = generation
         /\ cached[t].sees = (overridden \cup {x}) \cap Reach(t, overridden \cup {x})
         /\ cached[t].sees = (overridden \ {x}) \cap Reach(t, overridden \ {x})
<1>1. t \in Tokens /\ t \in Nodes
  BY DEF CachesInv, CachesTypeOK, IsTable, Tokens, Nodes
<1>2. x \notin Reach(t, {})
  BY <1>1 DEF ReachedBy
<1>3. /\ cached[t].of = t /\ cached[t].gen = generation
      /\ cached[t].sees = overridden \cap Reach(t, overridden)
  BY DEF CachesInv, CachesFresh, Fresh
<1>4. x \notin Reach(t, overridden) /\ Reach(t, overridden \cup {x}) = Reach(t, overridden)
  BY <1>1, <1>2, ReachWithout
<1>5. Reach(t, overridden \ {x}) = Reach(t, overridden)
  <2>1. Reach(t, (overridden \ {x}) \cup {x}) = Reach(t, overridden \ {x})
    BY <1>1, <1>2, ReachWithout
  <2>2. CASE x \in overridden
    <3>1. (overridden \ {x}) \cup {x} = overridden
      BY <2>2
    <3> QED
      BY <2>1, <3>1
  <2>3. CASE x \notin overridden
    <3>1. overridden \ {x} = overridden
      BY <2>3
    <3> QED
      BY <3>1
  <2> QED
    BY <2>2, <2>3
<1> QED
  BY <1>3, <1>4, <1>5

LEMMA OverrideStep ==
  ASSUME CachesInv, Quiet, NEW x \in Replaceable, Override(x)
  PROVE  CachesInv'
<1>l. PICK left : left = [t \in DOMAIN cached \ ReachedBy(x) |-> cached[t]]
  OBVIOUS
<1>r. PICK i : i = Replacement(x)
  OBVIOUS
<1>1. /\ MayOverride /\ overridden' = overridden \cup {x}
      /\ cached' = IF x \in Singletons THEN Extended(left, x, i) ELSE left
      /\ controllers' = EmptyTable /\ shown' = {}
      /\ UNCHANGED <<phase, shut, started, generation, memo, actorVars>>
  BY <1>l, <1>r DEF Override
<1>2. x \in Tokens /\ x \in Nodes
  BY DEF Nodes
<1>3. DOMAIN left = DOMAIN cached \ ReachedBy(x) /\ \A t \in DOMAIN left : left[t] = cached[t]
  BY <1>l
<1>4. IsTable(left, Singletons)
  BY <1>l, <1>3 DEF IsTable, CachesInv, CachesTypeOK
<1>5. i = [of |-> x, by |-> None, gen |-> generation, sees |-> {x}]
  BY <1>r DEF Replacement, Instance
<1>6. i \in Instances /\ i.of = x /\ i.gen = generation /\ i.sees = {x}
  BY <1>2, <1>5 DEF Instances, CachesInv, CachesTypeOK
<1>7. overridden' \cap Reach(x, overridden') = {x}
  <2>1. x \in overridden'
    BY <1>1
  <2>2. Reach(x, overridden') = {x}
    BY <1>2, <2>1, ReachOfCut
  <2> QED
    BY <2>1, <2>2
<1>8. \A t \in DOMAIN left : /\ left[t].of = t /\ left[t].gen = generation
                             /\ left[t].sees = overridden' \cap Reach(t, overridden')
  <2>1. \A t \in DOMAIN cached \ ReachedBy(x) :
            /\ cached[t].of = t /\ cached[t].gen = generation
            /\ cached[t].sees = (overridden \cup {x}) \cap Reach(t, overridden \cup {x})
    BY <1>2, LeftFresh
  <2> QED
    BY <1>1, <1>3, <2>1
<1>9. /\ IsTable(cached', Singletons)
      /\ \A t \in DOMAIN cached' : /\ cached'[t].of = t /\ cached'[t].gen = generation
                                   /\ cached'[t].sees = overridden' \cap Reach(t, overridden')
  <2>1. CASE x \in Singletons
    <3>1. cached' = [u \in DOMAIN left \cup {x} |-> IF u = x THEN i ELSE left[u]]
      BY <2>1, <1>1 DEF Extended
    <3>2. \A u \in DOMAIN cached' : cached'[u] \in Instances
      BY <3>1, <1>4, <1>6 DEF IsTable
    <3>3. IsTable(cached', Singletons)
      BY <2>1, <3>1, <3>2, <1>4 DEF IsTable
    <3> QED
      BY <3>1, <3>3, <1>6, <1>7, <1>8
  <2>2. CASE x \notin Singletons
    BY <2>2, <1>1, <1>4, <1>8
  <2> QED
    BY <2>1, <2>2
<1>10. \A t \in DOMAIN cached' : cached'[t].of = t /\ (Fresh(cached[t]))'
  BY <1>1, <1>9 DEF Fresh
<1>11. overridden' \subseteq Replaceable
  BY <1>1 DEF CachesInv, CachesTypeOK
<1> QED
  BY <1>1, <1>9, <1>10, <1>11, Overridden

LEMMA ClearOverrideStep ==
  ASSUME CachesInv, Quiet, NEW x \in Replaceable, ClearOverride(x)
  PROVE  CachesInv'
<1>1. /\ MayOverride /\ overridden' = overridden \ {x}
      /\ cached' = [t \in DOMAIN cached \ ReachedBy(x) |-> cached[t]]
      /\ controllers' = EmptyTable /\ shown' = {}
      /\ UNCHANGED <<phase, shut, started, generation, memo, actorVars>>
  BY DEF ClearOverride, Evict
<1>2. x \in Tokens
  OBVIOUS
<1>3. DOMAIN cached' = DOMAIN cached \ ReachedBy(x) /\ \A t \in DOMAIN cached' : cached'[t] = cached[t]
  BY <1>1
<1>4. IsTable(cached', Singletons)
  BY <1>1, <1>3 DEF IsTable, CachesInv, CachesTypeOK
<1>5. \A t \in DOMAIN cached' : /\ cached'[t].of = t /\ cached'[t].gen = generation
                                /\ cached'[t].sees = overridden' \cap Reach(t, overridden')
  <2>1. \A t \in DOMAIN cached \ ReachedBy(x) :
            /\ cached[t].of = t /\ cached[t].gen = generation
            /\ cached[t].sees = (overridden \ {x}) \cap Reach(t, overridden \ {x})
    BY <1>2, LeftFresh
  <2> QED
    BY <1>1, <1>3, <2>1
<1>6. \A t \in DOMAIN cached' : cached'[t].of = t /\ (Fresh(cached[t]))'
  BY <1>1, <1>5 DEF Fresh
<1>7. overridden' \subseteq Replaceable
  BY <1>1 DEF CachesInv, CachesTypeOK
<1> QED
  BY <1>1, <1>4, <1>6, <1>7, Overridden

-----------------------------------------------------------------------------
(* The theorems.                                                             *)

\* Whatever the overrides, startups and shutdowns, what the caches, the memos and the
\* requests hold is of today's generation and of today's replacements.
THEOREM CachesInvariance == ASSUME Quiet, Drained PROVE Spec => []CachesInv
<1>1. Init => CachesInv
  <2> SUFFICES ASSUME Init PROVE CachesInv
    OBVIOUS
  <2> USE DEF Init
  <2>1. DOMAIN EmptyTable = {} /\ \A s : IsTable(EmptyTable, s)
    BY DEF EmptyTable, IsTable
  <2>2. IsMemo(EmptyMemo) /\ EmptyMemo.gen = 0 /\ MemoServed(EmptyMemo)
    BY <2>1 DEF EmptyMemo, IsMemo, MemoServed
  <2>3. CachesTypeOK
    <3>1. IsTable(cached, Singletons) /\ IsTable(controllers, {Controller})
      BY <2>1
    <3>2. memo = [p \in Routes |-> memo[p]] /\ \A p \in Routes : IsMemo(memo[p])
      BY <2>2
    <3>3. /\ doing \in [Actors -> {"idle", "warming", "pipeline", "controller", "ready"}]
          /\ route = [a \in Actors |-> route[a]]
          /\ got \in [Actors -> Seq(Instances)] /\ settled \in [Actors -> BOOLEAN]
          /\ frames \in [Actors -> Seq(Frames)]
      OBVIOUS
    <3> QED
      BY <3>1, <3>2, <3>3 DEF CachesTypeOK
  <2>4. Places
    BY DEF Places, Active, Actors
  <2>5. CachesFresh /\ ShownCurrent
    BY <2>1 DEF CachesFresh, ShownCurrent
  <2>6. GotServed /\ SettledKept /\ FramesOK /\ Nested /\ OneConstruction
    <3>1. \A a \in Actors : DOMAIN got[a] = {} /\ DOMAIN frames[a] = {}
      OBVIOUS
    <3> QED
      BY <3>1 DEF GotServed, SettledKept, FramesOK, Nested, OneConstruction
  <2>7. MemosServed
    BY <2>2 DEF MemosServed
  <2> QED
    BY <2>3, <2>4, <2>5, <2>6, <2>7 DEF CachesInv
<1>2. CachesInv /\ [Next]_vars => CachesInv'
  <2> SUFFICES ASSUME CachesInv, [Next]_vars PROVE CachesInv'
    OBVIOUS
  <2>1. CASE \E a \in Actors : Resolves(a)
    BY <2>1, TakeKeptStep, TakeFoundStep, BeginStep, BuildStep DEF Resolves
  <2>2. CASE \E r \in Requests : Arrive(r) \/ Fail(r) \/ Finish(r)
    BY <2>2, ArriveStep, LeaveStep
  <2>3. CASE StartupBegins \/ StartupEnds \/ Stop
    BY <2>3, StartupBeginsStep, StartupEndsStep, StopStep
  <2>4. CASE \E x \in Replaceable : Override(x) \/ ClearOverride(x)
    BY <2>4, OverrideStep, ClearOverrideStep
  <2>5. CASE UNCHANGED vars
    <3>1. UNCHANGED <<phase, shut, started, generation, overridden, cached, controllers, memo,
                      doing, route, got, settled, frames, shown>>
      BY <2>5 DEF vars, containerVars, cacheVars, actorVars
    <3>2. CachesTypeOK' /\ Places'
      BY <3>1 DEF CachesInv, CachesTypeOK, Places, Active
    <3>3. \A j : (Current(j) => Current(j)') /\ (Fresh(j) => Fresh(j)') /\ (Kept(j) => Kept(j)')
      BY <3>1 DEF Current, Fresh, Replacement, Instance, Kept, Served
    <3>4. CachesFresh' /\ ShownCurrent' /\ GotServed' /\ SettledKept'
      BY <3>1, <3>3 DEF CachesInv, CachesFresh, ShownCurrent, GotServed, Served, SettledKept
    <3>5. MemosServed'
      BY <3>1, <3>3 DEF CachesInv, MemosServed, MemoServed
    <3>6. FramesOK'
      <4>1. \A s : Sights(s)' = Sights(s)
        BY <3>1 DEF Sights
      <4>2. \A f : FrameOK(f) => FrameOK(f)'
        BY <4>1, <3>1 DEF FrameOK
      <4> QED
        BY <4>2, <3>1 DEF CachesInv, FramesOK
    <3>7. Nested' /\ OneConstruction'
      BY <3>1 DEF CachesInv, Nested, OneConstruction
    <3> QED
      BY <3>2, <3>4, <3>5, <3>6, <3>7 DEF CachesInv
  <2> QED
    BY <2>1, <2>2, <2>3, <2>4, <2>5 DEF Next
<1> QED
  BY <1>1, <1>2, PTL DEF Spec

\* PipelineMemo, _evict_reach: no request is handed what a shutdown destroyed, or what was
\* built from a provider that an override has taken the place of, however deep in it.
THEOREM NothingStaleIsServed == ASSUME Quiet, Drained PROVE Spec => []ServedFresh
<1>1. CachesInv => ServedFresh
  BY DEF CachesInv, GotServed, Served, ServedFresh, Actors
<1> QED
  BY <1>1, CachesInvariance, PTL

\* instantiate_async, InstanceCache.keep: until something is dropped, all requests are handed
\* the same controller and the same singletons, whether from a cache or from a memo.
THEOREM EverybodyHandedTheSame == ASSUME Quiet, Drained PROVE Spec => []OneInstance
<1>1. CachesInv => OneInstance
  <2> SUFFICES ASSUME CachesInv, NEW i \in shown, NEW j \in shown, i.of = j.of,
                      i.of \notin Fleeting
               PROVE  i = j
    BY DEF OneInstance
  <2>1. i \in Instances /\ Current(i) /\ Current(j)
    BY DEF CachesInv, CachesTypeOK, ShownCurrent
  <2>2. i.of \in Singletons \/ i.of = Controller
    BY <2>1, InstanceFields DEF Nodes, Tokens
  <2> QED
    BY <2>1, <2>2 DEF Current
<1> QED
  BY <1>1, CachesInvariance, PTL

\* _follow: what a route keeps "is dropped rather than served once either has moved on"
\* (controller_factory.py:54-57).
THEOREM MemosFollow == ASSUME Quiet, Drained PROVE Spec => []MemoFollows
<1>1. CachesInv => MemoFollows
  BY DEF CachesInv, MemosServed, MemoServed, Kept, Served, Fresh, MemoFollows
<1> QED
  BY <1>1, CachesInvariance, PTL
=============================================================================
