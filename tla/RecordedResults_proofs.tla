------------------------- MODULE RecordedResults_proofs -------------------------
(***************************************************************************)
(* Theorems about RecordedResults, for any requests, callers, routes,      *)
(* stores and limits.  What is said of a replay is for routes that the     *)
(* handler, the method and the path tell apart: a result is recorded under *)
(* these, and not under its route.                                         *)
(***************************************************************************)
EXTENDS RecordedResults, FiniteSetTheorems, SequenceTheorems, WellFoundedInduction, TLAPS

-----------------------------------------------------------------------------
(* What a store holds after it forgets, records and drops.                   *)

\* A set of numbers that is not empty has a least one.
LEMMA LeastNumber ==
  ASSUME NEW T \in SUBSET Nat, T # {}
  PROVE  \E m \in T : \A k \in T : m <= k
  <1> DEFINE R == OpToRel(<, Nat)
  <1>1. IsWellFoundedOn(R, Nat)
    BY NatLessThanWellFounded
  <1>2. R = {ss \in Nat \X Nat : ss[1] < ss[2]}
    BY DEF OpToRel
  <1> HIDE DEF R
  <1>3. PICK m \in T : \A k \in T : ~(<<k, m>> \in R)
    BY <1>1, WFMin
  <1>4. \A k \in T : ~(k < m)
    BY <1>2, <1>3
  <1>5. QED
    BY <1>4

\* What a sequence holds, in whatever order.
Of(s) == {s[i] : i \in 1..Len(s)}

LEMMA PartOf ==
  ASSUME NEW S, NEW s \in Seq(S), NEW m \in Nat, NEW n \in Nat, m >= 1, n <= Len(s)
  PROVE  SubSeq(s, m, n) \in Seq(S) /\ Of(SubSeq(s, m, n)) \subseteq Of(s)
  <1>1. SubSeq(s, m, n) \in Seq(S)
    OBVIOUS
  <1>2. ASSUME NEW i \in 1..Len(SubSeq(s, m, n))
        PROVE  m + i - 1 \in 1..Len(s) /\ SubSeq(s, m, n)[i] = s[m + i - 1]
    OBVIOUS
  <1>3. QED
    BY <1>1, <1>2 DEF Of

LEMMA JoinOf ==
  ASSUME NEW S, NEW s \in Seq(S), NEW t \in Seq(S)
  PROVE  s \o t \in Seq(S) /\ Of(s \o t) \subseteq Of(s) \union Of(t)
  <1>1. ASSUME NEW i \in 1..Len(s \o t)
        PROVE  (s \o t)[i] \in Of(s) \union Of(t)
    <2>1. CASE i <= Len(s)
      BY <2>1 DEF Of
    <2>2. CASE i > Len(s)
      BY <2>2 DEF Of
    <2>3. QED
      BY <2>1, <2>2
  <1>2. QED
    BY <1>1 DEF Of

LEMMA AppendOf ==
  ASSUME NEW S, NEW s \in Seq(S), NEW x \in S
  PROVE  Append(s, x) \in Seq(S) /\ Of(Append(s, x)) = Of(s) \union {x}
  <1>1. Len(Append(s, x)) = Len(s) + 1 /\ Append(s, x)[Len(s) + 1] = x
        /\ \A i \in 1..Len(s) : Append(s, x)[i] = s[i]
    OBVIOUS
  <1>2. QED
    BY <1>1 DEF Of

Entries == [key : {Key(a) : a \in Asks}, by : Requests, expires : Int]

\* Forgetting a key leaves of a store what it held.
LEMMA WithoutPart ==
  ASSUME NEW held \in Seq(Entries), NEW key
  PROVE  Without(held, key) \in Seq(Entries) /\ Of(Without(held, key)) \subseteq Of(held)
  <1>1. CASE Held(held, key) = {}
    BY <1>1 DEF Without
  <1>2. CASE Held(held, key) # {}
    <2> DEFINE i == CHOOSE i \in Held(held, key) : TRUE
    <2>1. i \in 1..Len(held)
      BY <1>2 DEF Held
    <2>2. Without(held, key) = SubSeq(held, 1, i - 1) \o SubSeq(held, i + 1, Len(held))
      BY <1>2 DEF Without, RemoveAt
    <2> HIDE DEF i
    <2>3. /\ SubSeq(held, 1, i - 1) \in Seq(Entries)
          /\ Of(SubSeq(held, 1, i - 1)) \subseteq Of(held)
      BY <2>1, PartOf
    <2>4. /\ SubSeq(held, i + 1, Len(held)) \in Seq(Entries)
          /\ Of(SubSeq(held, i + 1, Len(held))) \subseteq Of(held)
      BY <2>1, PartOf
    <2> DEFINE front == SubSeq(held, 1, i - 1)
               back == SubSeq(held, i + 1, Len(held))
    <2>5. Without(held, key) = front \o back
      BY <2>2
    <2>6. front \in Seq(Entries) /\ Of(front) \subseteq Of(held)
      BY <2>3
    <2>7. back \in Seq(Entries) /\ Of(back) \subseteq Of(held)
      BY <2>4
    <2> HIDE DEF front, back
    <2>8. front \o back \in Seq(Entries) /\ Of(front \o back) \subseteq Of(front) \union Of(back)
      BY <2>6, <2>7, JoinOf
    <2>9. QED
      BY <2>5, <2>6, <2>7, <2>8, Zenon
  <1>3. QED
    BY <1>1, <1>2

\* Dropping from the front stops somewhere, and what it drops has expired or is too much.
LEMMA DropStaleStops ==
  ASSUME NEW held \in Seq(Entries), clock \in Nat
  PROVE  \E m \in 0..Len(held) :
            /\ DropStale(held) = SubSeq(held, m + 1, Len(held))
            /\ \A j \in 1..m : Len(held) - (j - 1) > Limit \/ held[j].expires <= clock
  <1> DEFINE Goes(i) == Len(held) - i > Limit \/ held[i + 1].expires <= clock
             Stops(n) ==
                 /\ \A j \in 1..n : Len(held) - (j - 1) > Limit \/ held[j].expires <= clock
                 /\ n < Len(held) => Len(held) - n <= Limit /\ held[n + 1].expires > clock
             T == {i \in 0..Len(held) : i < Len(held) => ~Goes(i)}
  <1>1. T \subseteq Nat /\ Len(held) \in T
    OBVIOUS
  <1>2. PICK n \in T : \A k \in T : n <= k
    BY <1>1, LeastNumber
  <1>3. n \in 0..Len(held)
    OBVIOUS
  <1>4. ASSUME NEW j \in 1..n
        PROVE  Len(held) - (j - 1) > Limit \/ held[j].expires <= clock
    <2>1. j - 1 \in 0..Len(held) /\ j - 1 < Len(held) /\ j - 1 \notin T /\ (j - 1) + 1 = j
      BY <1>2, <1>3
    <2>2. Goes(j - 1)
      BY <2>1
    <2>3. QED
      BY <2>1, <2>2
  <1>5. ASSUME n < Len(held)
        PROVE  Len(held) - n <= Limit /\ held[n + 1].expires > clock
    <2>0. held[n + 1] \in Entries
      <3> HIDE DEF T
      <3>1. n + 1 \in 1..Len(held)
        BY <1>3, <1>5
      <3>2. QED
        BY <3>1
    <2>1. held[n + 1].expires \in Int
      BY <2>0 DEF Entries
    <2>2. ~Goes(n)
      BY <1>5
    <2>3. QED
      BY <1>3, <2>1, <2>2, RecordedResultsAssumption
  <1>6. Stops(n)
    BY <1>4, <1>5
  <1> DEFINE m == CHOOSE i \in 0..Len(held) : Stops(i)
  <1>7. m \in 0..Len(held) /\ Stops(m)
    BY <1>3, <1>6
  <1>8. DropStale(held) = SubSeq(held, m + 1, Len(held))
    BY DEF DropStale
  <1>9. \A j \in 1..m : Len(held) - (j - 1) > Limit \/ held[j].expires <= clock
    BY <1>7
  <1> HIDE DEF m
  <1>10. QED
    BY <1>7, <1>8, <1>9

\* What it leaves of a store the store held.
LEMMA DropStalePart ==
  ASSUME NEW held \in Seq(Entries), clock \in Nat
  PROVE  DropStale(held) \in Seq(Entries) /\ Of(DropStale(held)) \subseteq Of(held)
  <1>1. PICK m \in 0..Len(held) : DropStale(held) = SubSeq(held, m + 1, Len(held))
    BY DropStaleStops
  <1>2. QED
    BY <1>1, PartOf

\* A record adds one entry, and otherwise leaves of a store what it held.
LEMMA RecordAdds ==
  ASSUME NEW held \in Seq(Entries), NEW e \in Entries, NEW ttl \in Nat,
         e.expires = clock + ttl, clock \in Nat
  PROVE  /\ Record(held, e.key, e.by, ttl) \in Seq(Entries)
         /\ Of(Record(held, e.key, e.by, ttl)) \subseteq Of(held) \union {e}
  <1> DEFINE without == Without(held, e.key)
  <1>1. without \in Seq(Entries) /\ Of(without) \subseteq Of(held)
    BY WithoutPart
  <1>2. e = [key |-> e.key, by |-> e.by, expires |-> clock + ttl]
    BY DEF Entries
  <1>3. Record(held, e.key, e.by, ttl) = DropStale(Append(without, e))
    BY <1>2 DEF Record
  <1> HIDE DEF without
  <1>4. /\ Append(without, e) \in Seq(Entries)
        /\ Of(Append(without, e)) = Of(without) \union {e}
    BY <1>1, AppendOf
  <1>5. QED
    BY <1>1, <1>3, <1>4, DropStalePart

-----------------------------------------------------------------------------
(* The invariant.                                                            *)

Recordings == [key : {Key(a) : a \in Asks}, by : Requests, at : Nat]

StateOK ==
    /\ clock \in Nat
    /\ entries \in [Stores -> Seq(Entries)]
    /\ stage \in [Requests -> {"idle", "running", "served", "refused", "failed"}]
    /\ ask \in [Requests -> Asks \union {None}]
    /\ result \in [Requests -> Requests \union {None}]
    /\ log \in [Stores -> Seq(Recordings)]

\* Nobody is past the guard who was not admitted.
AdmittedOK ==
    \A r \in Requests :
        stage[r] \in {"running", "served", "failed"} => ask[r] \in Asks /\ Admits(ask[r])

\* What a store holds was recorded into it, under the key of who computed it and for the
\* ttl of their route.
Accounted(s, e) ==
    /\ stage[e.by] = "served"
    /\ StoreOf[ask[e.by].route] = s
    /\ Key(ask[e.by]) = e.key
    /\ \E j \in 1..Len(log[s]) :
          /\ log[s][j].by = e.by
          /\ log[s][j].at + Ttl[ask[e.by].route] = e.expires

EntriesOK == \A s \in Stores : \A e \in Of(entries[s]) : Accounted(s, e)

IInv == StateOK /\ AdmittedOK /\ EntriesOK

\* Nothing of a store's account is lost in a step that leaves who was served alone and
\* only adds to what was recorded.
LEMMA StaysAccounted ==
  ASSUME StateOK, NEW s \in Stores, NEW e \in Entries, Accounted(s, e),
         stage[e.by] = "served" => stage'[e.by] = "served" /\ ask'[e.by] = ask[e.by],
         log'[s] = log[s] \/ \E x \in Recordings : log'[s] = Append(log[s], x)
  PROVE  Accounted(s, e)'
  <1>1. log[s] \in Seq(Recordings)
    BY DEF StateOK
  <1>2. PICK j \in 1..Len(log[s]) :
          /\ log[s][j].by = e.by
          /\ log[s][j].at + Ttl[ask[e.by].route] = e.expires
    BY DEF Accounted
  <1>3. j \in 1..Len(log'[s]) /\ log'[s][j] = log[s][j]
    <2>1. CASE log'[s] = log[s]
      BY <2>1
    <2>2. CASE \E x \in Recordings : log'[s] = Append(log[s], x)
      BY <2>2, <1>1, <1>2
    <2>3. QED
      BY <2>1, <2>2
  <1>4. stage'[e.by] = "served" /\ ask'[e.by] = ask[e.by]
    BY DEF Accounted
  <1>5. QED
    BY <1>2, <1>3, <1>4 DEF Accounted

LEMMA EntryOf ==
  ASSUME StateOK, NEW s \in Stores, NEW e \in Of(entries[s])
  PROVE  e \in Entries
  <1>1. entries[s] \in Seq(Entries)
    BY DEF StateOK
  <1>2. QED
    BY <1>1 DEF Of

LEMMA InitOK ==
  ASSUME Init
  PROVE  IInv
  <1>1. StateOK
    BY DEF Init, StateOK
  <1>2. AdmittedOK
    BY DEF Init, AdmittedOK
  <1>3. EntriesOK
    BY DEF Init, EntriesOK, Of
  <1>4. QED
    BY <1>1, <1>2, <1>3 DEF IInv

LEMMA AskOK ==
  ASSUME IInv, NEW r \in Requests, NEW a \in Asks, Ask(r, a)
  PROVE  IInv'
  <1> DEFINE store == StoreOf[a.route]
  <1>1. store \in Stores /\ StateOK /\ AdmittedOK /\ EntriesOK
    BY RecordedResultsAssumption DEF IInv
  <1>2. /\ stage[r] = "idle" /\ clock' = clock /\ log' = log
        /\ ask' = [ask EXCEPT ![r] = a]
    BY DEF Ask
  <1>3. \E to \in {"refused", "running", "served"} :
            stage' = [stage EXCEPT ![r] = to] /\ (to = "refused" \/ Admits(a))
    BY DEF Ask
  <1>4. /\ entries' \in [Stores -> Seq(Entries)]
        /\ \A s \in Stores : Of(entries'[s]) \subseteq Of(entries[s])
    <2>1. CASE UNCHANGED entries
      BY <2>1, <1>1 DEF StateOK
    <2>2. CASE entries' = [entries EXCEPT ![store] = Forgetting(entries[store], Key(a))]
      <3>1. entries[store] \in Seq(Entries)
        BY <1>1 DEF StateOK
      <3>2. /\ Forgetting(entries[store], Key(a)) \in Seq(Entries)
            /\ Of(Forgetting(entries[store], Key(a))) \subseteq Of(entries[store])
        BY <3>1, WithoutPart DEF Forgetting
      <3> HIDE DEF store
      <3>3. QED
        BY <2>2, <3>2, <1>1 DEF StateOK
    <2>3. CASE entries' = [entries EXCEPT ![store] = entries[store]]
      BY <2>3, <1>1 DEF StateOK
    <2>4. QED
      BY <2>1, <2>2, <2>3 DEF Ask
  <1>5. result' \in [Requests -> Requests \union {None}]
    <2>1. CASE UNCHANGED result
      BY <2>1, <1>1 DEF StateOK
    <2>2. CASE \E by \in Answer(entries[store], Key(a)) : result' = [result EXCEPT ![r] = by]
      <3>1. entries[store] \in Seq(Entries)
        BY <1>1 DEF StateOK
      <3>2. ASSUME NEW i \in 1..Len(entries[store])
            PROVE  entries[store][i].by \in Requests
        <4>1. entries[store][i] \in Entries
          BY <3>1
        <4>2. QED
          BY <4>1 DEF Entries
      <3>3. Answer(entries[store], Key(a)) \subseteq Requests
        BY <3>2 DEF Answer, Held
      <3>4. QED
        BY <2>2, <3>3, <1>1 DEF StateOK
    <2>3. QED
      BY <2>1, <2>2 DEF Ask
  <1>6. StateOK'
    BY <1>1, <1>2, <1>3, <1>4, <1>5 DEF StateOK
  <1>7. AdmittedOK'
    BY <1>1, <1>2, <1>3 DEF AdmittedOK, StateOK
  <1>8. EntriesOK'
    <2>1. SUFFICES ASSUME NEW s \in Stores, NEW e \in Of(entries'[s])
                   PROVE  Accounted(s, e)'
      BY DEF EntriesOK
    <2>2. e \in Of(entries[s]) /\ e \in Entries
      BY <1>1, <1>4, EntryOf
    <2>3. Accounted(s, e) /\ e.by \in Requests
      BY <1>1, <2>2 DEF EntriesOK, Entries
    <2>4. stage[e.by] = "served" => stage'[e.by] = "served" /\ ask'[e.by] = ask[e.by]
      BY <1>1, <1>2, <1>3, <2>3 DEF StateOK
    <2>5. QED
      BY <1>1, <1>2, <2>2, <2>3, <2>4, StaysAccounted
  <1>9. QED
    BY <1>6, <1>7, <1>8 DEF IInv

LEMMA HandlerReturnsOK ==
  ASSUME IInv, NEW r \in Requests, HandlerReturns(r)
  PROVE  IInv'
  <1> DEFINE a == ask[r]
             store == StoreOf[a.route]
             ttl == Ttl[a.route]
             e == [key |-> Key(a), by |-> r, expires |-> clock + ttl]
             x == [key |-> Key(a), by |-> r, at |-> clock]
  <1>1. /\ StateOK /\ AdmittedOK /\ EntriesOK
        /\ stage[r] = "running" /\ a \in Asks /\ Admits(a)
        /\ clock' = clock /\ ask' = ask
        /\ stage' = [stage EXCEPT ![r] = "served"]
        /\ result' = [result EXCEPT ![r] = r]
    BY DEF IInv, HandlerReturns, AdmittedOK
  <1>2. store \in Stores /\ ttl \in Nat /\ clock \in Nat
    BY <1>1, RecordedResultsAssumption DEF StateOK
  <1>3. e \in Entries /\ x \in Recordings
    BY <1>1, <1>2 DEF Entries, Recordings
  <1>4. \/ UNCHANGED <<entries, log>>
        \/ /\ entries' = [entries EXCEPT ![store] = Record(entries[store], Key(a), r, ttl)]
           /\ log' = [log EXCEPT ![store] = Append(log[store], x)]
    BY DEF HandlerReturns
  <1>5. /\ entries' \in [Stores -> Seq(Entries)]
        /\ \A s \in Stores \ {store} : entries'[s] = entries[s]
        /\ Of(entries'[store]) \subseteq Of(entries[store]) \union {e}
        /\ \/ UNCHANGED <<entries, log>>
           \/ log' = [log EXCEPT ![store] = Append(log[store], x)]
    <2>1. CASE UNCHANGED <<entries, log>>
      BY <2>1, <1>1 DEF StateOK
    <2>2. CASE /\ entries' = [entries EXCEPT ![store] = Record(entries[store], Key(a), r, ttl)]
               /\ log' = [log EXCEPT ![store] = Append(log[store], x)]
      <3>1. entries[store] \in Seq(Entries) /\ entries \in [Stores -> Seq(Entries)]
        BY <1>1, <1>2 DEF StateOK
      <3>2. e.key = Key(a) /\ e.by = r /\ e.expires = clock + ttl
        OBVIOUS
      <3> HIDE DEF e, x, store, ttl, a
      <3>3. /\ Record(entries[store], Key(a), r, ttl) \in Seq(Entries)
            /\ Of(Record(entries[store], Key(a), r, ttl)) \subseteq Of(entries[store]) \union {e}
        BY <3>1, <3>2, <1>2, <1>3, RecordAdds
      <3>4. QED
        BY <2>2, <3>1, <3>3, <1>2
    <2>3. QED
      BY <1>4, <2>1, <2>2
  <1>6. /\ log' \in [Stores -> Seq(Recordings)]
        /\ \A s \in Stores : log'[s] = log[s] \/ \E y \in Recordings : log'[s] = Append(log[s], y)
    <2>1. log \in [Stores -> Seq(Recordings)] /\ log[store] \in Seq(Recordings)
      BY <1>1, <1>2 DEF StateOK
    <2> HIDE DEF x, store
    <2>2. CASE log' = log
      BY <2>1, <2>2
    <2>3. CASE log' = [log EXCEPT ![store] = Append(log[store], x)]
      <3>1. Append(log[store], x) \in Seq(Recordings)
        BY <2>1, <1>3
      <3>2. QED
        BY <2>1, <2>3, <3>1, <1>2, <1>3
    <2>4. QED
      BY <1>5, <2>2, <2>3
  <1>7. StateOK'
    BY <1>1, <1>5, <1>6 DEF StateOK
  <1>8. AdmittedOK'
    BY <1>1 DEF AdmittedOK, StateOK
  <1>9. EntriesOK'
    <2>1. SUFFICES ASSUME NEW s \in Stores, NEW d \in Of(entries'[s])
                   PROVE  Accounted(s, d)'
      BY DEF EntriesOK
    <2>2. CASE d \in Of(entries[s])
      <3>1. d \in Entries /\ Accounted(s, d)
        BY <1>1, <2>2, EntryOf DEF EntriesOK
      <3>2. d.by \in Requests
        BY <3>1 DEF Entries
      <3>3. stage[d.by] = "served" => stage'[d.by] = "served" /\ ask'[d.by] = ask[d.by]
        BY <1>1, <3>2 DEF StateOK
      <3>4. QED
        BY <1>1, <1>6, <3>1, <3>3, StaysAccounted
    <2>3. CASE d \notin Of(entries[s])
      <3>1. s = store /\ d = e /\ log'[store] = Append(log[store], x)
        BY <1>1, <1>2, <1>5, <2>3 DEF StateOK
      <3>2. log[store] \in Seq(Recordings)
        BY <1>1, <1>2 DEF StateOK
      <3>3. Len(log'[store]) = Len(log[store]) + 1 /\ log'[store][Len(log[store]) + 1] = x
        BY <3>1, <3>2, <1>3
      <3>4. Len(log[store]) + 1 \in 1..Len(log'[store])
        BY <3>2, <3>3
      <3>5. stage'[r] = "served" /\ ask'[r] = a
        BY <1>1 DEF StateOK
      <3>6. d.by = r /\ d.key = Key(a) /\ d.expires = clock + ttl /\ x.by = r /\ x.at = clock
        BY <3>1
      <3> HIDE DEF e, x
      <3>7. QED
        BY <3>1, <3>3, <3>4, <3>5, <3>6 DEF Accounted
    <2>4. QED
      BY <2>2, <2>3
  <1>10. QED
    BY <1>7, <1>8, <1>9 DEF IInv

LEMMA HandlerFailsOK ==
  ASSUME IInv, NEW r \in Requests, HandlerFails(r)
  PROVE  IInv'
  <1>1. /\ StateOK /\ AdmittedOK /\ EntriesOK /\ stage[r] = "running"
        /\ stage' = [stage EXCEPT ![r] = "failed"]
        /\ clock' = clock /\ entries' = entries /\ ask' = ask
        /\ result' = result /\ log' = log
    BY DEF IInv, HandlerFails
  <1>2. StateOK'
    BY <1>1 DEF StateOK
  <1>3. AdmittedOK'
    BY <1>1 DEF AdmittedOK, StateOK
  <1>4. EntriesOK'
    <2>1. SUFFICES ASSUME NEW s \in Stores, NEW e \in Of(entries'[s])
                   PROVE  Accounted(s, e)'
      BY DEF EntriesOK
    <2>2. e \in Entries /\ Accounted(s, e)
      BY <1>1, EntryOf DEF EntriesOK
    <2>3. e.by \in Requests
      BY <2>2 DEF Entries
    <2>4. stage[e.by] = "served" => stage'[e.by] = "served" /\ ask'[e.by] = ask[e.by]
      BY <1>1, <2>3 DEF StateOK
    <2>5. QED
      BY <1>1, <2>2, <2>4, StaysAccounted
  <1>5. QED
    BY <1>2, <1>3, <1>4 DEF IInv

LEMMA TickOK ==
  ASSUME IInv, Tick
  PROVE  IInv'
  <1>1. /\ clock \in Nat /\ clock' = clock + 1
        /\ entries' = entries /\ stage' = stage /\ ask' = ask
        /\ result' = result /\ log' = log
    BY DEF IInv, StateOK, Tick
  <1>2. StateOK' /\ AdmittedOK'
    BY <1>1 DEF IInv, StateOK, AdmittedOK
  <1>3. EntriesOK'
    BY <1>1 DEF IInv, EntriesOK, Accounted, Of
  <1>4. QED
    BY <1>2, <1>3 DEF IInv

LEMMA StutterOK ==
  ASSUME IInv, UNCHANGED vars
  PROVE  IInv'
  <1>1. StateOK'
    BY DEF IInv, StateOK, vars
  <1>2. AdmittedOK'
    BY DEF IInv, AdmittedOK, vars
  <1>3. \A s, e : Accounted(s, e)' <=> Accounted(s, e)
    BY DEF Accounted, vars
  <1>4. entries' = entries
    BY DEF vars
  <1>5. EntriesOK'
    BY <1>3, <1>4 DEF IInv, EntriesOK
  <1>6. QED
    BY <1>1, <1>2, <1>5 DEF IInv

LEMMA NextOK ==
  ASSUME IInv, [Next]_vars
  PROVE  IInv'
  <1>1. CASE Tick
    BY <1>1, TickOK
  <1>2. CASE \E r \in Requests : \E a \in Asks : Ask(r, a)
    BY <1>2, AskOK
  <1>3. CASE \E r \in Requests : HandlerReturns(r)
    BY <1>3, HandlerReturnsOK
  <1>4. CASE \E r \in Requests : HandlerFails(r)
    BY <1>4, HandlerFailsOK
  <1>5. CASE UNCHANGED vars
    BY <1>5, StutterOK
  <1>6. QED
    BY <1>1, <1>2, <1>3, <1>4, <1>5 DEF Next

-----------------------------------------------------------------------------
(* The theorems.                                                             *)

\* At every moment whoever is past the guard was admitted, and what every store holds is
\* accounted for by what was recorded into it (_RecordedResults, PolicyGuard).
THEOREM Invariance == Spec => []IInv
  <1>1. Init => IInv
    BY InitOK
  <1>2. IInv /\ [Next]_vars => IInv'
    BY NextOK
  <1>3. QED
    BY <1>1, <1>2, PTL DEF Spec

\* The guard's reading of the two declarations together never lets anybody past what
\* either of them requires, unless it is waived by who may waive it.
LEMMA AdmitsAsDeclared ==
  ASSUME NEW a, Admits(a)
  PROVE  \E waived \in SUBSET {Controller[a.route], Handler[a.route]} :
            /\ waived # {} => \/ Handler[a.route].public
                              \/ Controller[a.route].public /\ ~Requires(Handler[a.route])
            /\ \A policy \in {Controller[a.route], Handler[a.route]} \ waived :
                  /\ policy.auth => a.caller # None
                  /\ policy.roles # {} => /\ a.caller \in DOMAIN RolesOf
                                          /\ policy.roles \subseteq RolesOf[a.caller]
  <1>1. CASE Public(a.route)
    <2>1. WITNESS {Controller[a.route], Handler[a.route]}
                    \in SUBSET {Controller[a.route], Handler[a.route]}
    <2>2. QED
      BY <1>1 DEF Public
  <1>2. CASE ~Public(a.route)
    <2>1. WITNESS {} \in SUBSET {Controller[a.route], Handler[a.route]}
    <2>2. SUFFICES ASSUME NEW policy \in {Controller[a.route], Handler[a.route]}
                   PROVE  /\ policy.auth => a.caller # None
                          /\ policy.roles # {} => /\ a.caller \in DOMAIN RolesOf
                                                  /\ policy.roles \subseteq RolesOf[a.caller]
      OBVIOUS
    <2>3. policy.auth => a.caller # None
      BY <1>2 DEF Admits, Authenticates
    <2>4. ASSUME policy.roles # {}
          PROVE  a.caller \in DOMAIN RolesOf /\ policy.roles \subseteq RolesOf[a.caller]
      <3>1. Roles(a.route) # {} /\ policy.roles \subseteq Roles(a.route)
        BY <2>4 DEF Roles
      <3>2. Principal(a) \in DOMAIN RolesOf /\ Roles(a.route) \subseteq RolesOf[Principal(a)]
        BY <1>2, <3>1 DEF Admits
      <3>3. Principal(a) = a.caller
        BY <3>2, RecordedResultsAssumption DEF Principal
      <3>4. QED
        BY <3>1, <3>2, <3>3
    <2>5. QED
      BY <2>3, <2>4
  <1>3. QED
    BY <1>1, <1>2

\* Nobody is served past what was declared for them, from the store as little as from the
\* handler (PolicyGuard.can_activate over merge_policy_metadata).
THEOREM GuardedAsDeclared == Spec => []ServedAsDeclared
  <1>1. IInv => ServedAsDeclared
    <2>1. SUFFICES ASSUME AdmittedOK
                   PROVE  ServedAsDeclared
      BY DEF IInv
    <2>2. QED
      BY <2>1, AdmitsAsDeclared DEF AdmittedOK, ServedAsDeclared
  <1>2. QED
    BY <1>1, Invariance, PTL

\* The routes one function serves, inherited by several controllers, answer at paths or to
\* methods of their own.
RoutesToldApart ==
    \A a, b \in Asks :
        /\ HandlerOf[a.route] = HandlerOf[b.route]
        /\ a.method = b.method /\ a.path = b.path
        => a.route = b.route

LEMMA SameFour ==
  ASSUME NEW a1, NEW a2, NEW a3, NEW a4, NEW b1, NEW b2, NEW b3, NEW b4,
         <<a1, a2, a3, a4>> = <<b1, b2, b3, b4>>
  PROVE  a1 = b1 /\ a2 = b2 /\ a3 = b3 /\ a4 = b4
  OBVIOUS

LEMMA SameFive ==
  ASSUME NEW a1, NEW a2, NEW a3, NEW a4, NEW a5, NEW b1, NEW b2, NEW b3, NEW b4, NEW b5,
         <<a1, a2, a3, a4, a5>> = <<b1, b2, b3, b4, b5>>
  PROVE  a1 = b1 /\ a2 = b2 /\ a3 = b3 /\ a4 = b4 /\ a5 = b5
  OBVIOUS

\* Two asks recorded under one key ask the same thing, and of a cache the same caller.
LEMMA KeyTellsApart ==
  ASSUME NEW a \in Asks, NEW b \in Asks, RoutesToldApart,
         Key(a) = Key(b), Key(a) # None, StoreOf[a.route] = StoreOf[b.route]
  PROVE  /\ a.route = b.route /\ a.method = b.method /\ a.path = b.path
         /\ IF StoreOf[a.route] \in IsCache
            THEN /\ a.query = b.query
                 /\ \/ Public(a.route) \/ ~Authenticates(a.route)
                    \/ a.caller = b.caller /\ a.caller # Nameless
            ELSE a.presented = b.presented
  <1>1. a.route \in Routes /\ b.route \in Routes
    BY RecordedResultsAssumption
  <1>2. CASE StoreOf[a.route] \in IsCache
    <2>1. /\ Key(a) = <<HandlerOf[a.route], a.method, a.path, a.query, Principal(a)>>
          /\ Key(b) = <<HandlerOf[b.route], b.method, b.path, b.query, Principal(b)>>
          /\ Principal(a) # Nameless
      BY <1>2 DEF Key
    <2>2. /\ HandlerOf[a.route] = HandlerOf[b.route] /\ a.method = b.method
          /\ a.path = b.path /\ a.query = b.query /\ Principal(a) = Principal(b)
      <3>1. <<HandlerOf[a.route], a.method, a.path, a.query, Principal(a)>>
             = <<HandlerOf[b.route], b.method, b.path, b.query, Principal(b)>>
        BY <2>1, Zenon
      <3>2. QED
        BY <3>1, SameFive, Zenon
    <2>3. a.route = b.route
      BY <1>1, <2>2 DEF RoutesToldApart
    <2>4. \/ Public(a.route) \/ ~Authenticates(a.route)
          \/ a.caller = b.caller /\ a.caller # Nameless
      BY <2>1, <2>2, <2>3 DEF Principal
    <2>5. QED
      BY <1>2, <2>2, <2>3, <2>4
  <1>3. CASE StoreOf[a.route] \notin IsCache
    <2>1. /\ Key(a) = <<HandlerOf[a.route], a.method, a.path, a.presented>>
          /\ Key(b) = <<HandlerOf[b.route], b.method, b.path, b.presented>>
      BY <1>3 DEF Key
    <2>2. /\ HandlerOf[a.route] = HandlerOf[b.route] /\ a.method = b.method
          /\ a.path = b.path /\ a.presented = b.presented
      <3>1. <<HandlerOf[a.route], a.method, a.path, a.presented>>
             = <<HandlerOf[b.route], b.method, b.path, b.presented>>
        BY <2>1, Zenon
      <3>2. QED
        BY <3>1, SameFour, Zenon
    <2>3. QED
      BY <1>1, <1>3, <2>2 DEF RoutesToldApart
  <1>4. QED
    BY <1>2, <1>3

\* Where handler, method and path tell the routes apart, a result is replayed to nobody it was not
\* computed for, and not a moment after its ttl: the store is anybody's while a handler
\* runs, and what is found in it is still named by the key of who computed it
\* (_cacheable_key, _presented_idempotency_key, _RecordedResults).
THEOREM ReplayedToTheAsked ==
  ASSUME RoutesToldApart
  PROVE  Spec => ReplayIsForTheAsked
  <1> DEFINE Replay(r) ==
             (stage[r] = "idle" /\ stage'[r] = "served") =>
             LET a == ask'[r]
                 b == ask[result'[r]]
             IN  /\ a.route = b.route /\ a.method = b.method /\ a.path = b.path
                 /\ IF StoreOf[a.route] \in IsCache
                    THEN /\ a.query = b.query
                         /\ \/ Public(a.route) \/ ~Authenticates(a.route)
                            \/ a.caller = b.caller /\ a.caller # Nameless
                    ELSE a.presented = b.presented
                 /\ \E i \in 1..Len(log[StoreOf[a.route]]) :
                       /\ log[StoreOf[a.route]][i].by = result'[r]
                       /\ clock - log[StoreOf[a.route]][i].at < Ttl[a.route]
  <1>1. ASSUME IInv, [Next]_vars, NEW r \in Requests,
               stage[r] = "idle", stage'[r] = "served"
        PROVE  Replay(r)
    <2>1. StateOK /\ AdmittedOK /\ EntriesOK
      BY <1>1 DEF IInv
    <2>2. PICK a \in Asks : Ask(r, a)
      <3>1. CASE Tick \/ UNCHANGED vars
        BY <3>1, <1>1 DEF Tick, vars
      <3>2. CASE \E q \in Requests : HandlerReturns(q)
        BY <3>2, <1>1, <2>1 DEF HandlerReturns, StateOK
      <3>3. CASE \E q \in Requests : HandlerFails(q)
        BY <3>3, <1>1, <2>1 DEF HandlerFails, StateOK
      <3>4. CASE \E q \in Requests : \E a \in Asks : Ask(q, a)
        <4>1. PICK q \in Requests : \E a \in Asks : Ask(q, a)
          BY <3>4
        <4>2. \E to : stage' = [stage EXCEPT ![q] = to]
          BY <4>1 DEF Ask
        <4>3. q = r
          BY <4>2, <1>1, <2>1 DEF StateOK
        <4>4. QED
          BY <4>1, <4>3
      <3>5. QED
        BY <1>1, <3>1, <3>2, <3>3, <3>4 DEF Next
    <2> DEFINE store == StoreOf[a.route]
    <2>3. store \in Stores /\ entries[store] \in Seq(Entries) /\ ask'[r] = a
      BY <2>1, <2>2, RecordedResultsAssumption DEF StateOK, Ask
    <2>4. /\ Key(a) # None
          /\ \E by \in Answer(entries[store], Key(a)) : result' = [result EXCEPT ![r] = by]
      BY <1>1, <2>1, <2>2 DEF Ask, StateOK
    <2>5. PICK i \in 1..Len(entries[store]) :
            /\ entries[store][i].key = Key(a) /\ entries[store][i].expires > clock
            /\ result' = [result EXCEPT ![r] = entries[store][i].by]
      BY <2>4 DEF Answer, Held
    <2> DEFINE e == entries[store][i]
               b == ask[e.by]
    <2>6. e \in Entries /\ Accounted(store, e)
      BY <2>1, <2>3 DEF EntriesOK, Of
    <2>7. e.by \in Requests /\ result'[r] = e.by
      BY <2>1, <2>5, <2>6 DEF Entries, StateOK
    <2>8. b \in Asks /\ StoreOf[b.route] = store /\ Key(b) = Key(a)
      BY <2>1, <2>5, <2>6, <2>7 DEF AdmittedOK, Accounted
    <2>9. /\ a.route = b.route /\ a.method = b.method /\ a.path = b.path
          /\ IF StoreOf[a.route] \in IsCache
             THEN /\ a.query = b.query
                  /\ \/ Public(a.route) \/ ~Authenticates(a.route)
                     \/ a.caller = b.caller /\ a.caller # Nameless
             ELSE a.presented = b.presented
      BY <2>4, <2>8, KeyTellsApart
    <2>10. PICK j \in 1..Len(log[store]) :
             log[store][j].by = e.by /\ log[store][j].at + Ttl[b.route] = e.expires
      BY <2>6 DEF Accounted
    <2>11. clock - log[store][j].at < Ttl[a.route]
      <3>1. /\ clock \in Nat /\ e.expires \in Int /\ e.expires > clock
            /\ a.route = b.route /\ a.route \in Routes
        BY <2>1, <2>5, <2>6, <2>9, RecordedResultsAssumption DEF StateOK, Entries
      <3>2. log[store] \in Seq(Recordings)
        BY <2>1, <2>3 DEF StateOK
      <3> DEFINE x == log[store][j]
      <3>3. x \in Recordings
        BY <2>10, <3>2
      <3>4. x.at + Ttl[a.route] = e.expires
        BY <2>10, <3>1
      <3> HIDE DEF x, e, store
      <3>5. x.at \in Nat /\ Ttl[a.route] \in Nat
        BY <3>1, <3>3, RecordedResultsAssumption DEF Recordings
      <3>6. clock - x.at < Ttl[a.route]
        BY <3>1, <3>4, <3>5
      <3>7. QED
        BY <3>6 DEF x
    <2>12. QED
      BY <2>3, <2>7, <2>9, <2>10, <2>11
  <1>2. IInv /\ [Next]_vars => [\A r \in Requests : Replay(r)]_vars
    BY <1>1
  <1>3. QED
    BY <1>2, Invariance, PTL DEF Spec, ReplayIsForTheAsked

-----------------------------------------------------------------------------
(* What is left to replay.                                                   *)

Past == [key : {Key(a) : a \in Asks}, until : Int]

\* The recordings of a store, each with the moment it expires.
Recorded(s) ==
    [i \in 1..Len(log[s]) |->
        [key |-> log[s][i].key, until |-> log[s][i].at + Ttl[ask[log[s][i].by].route]]]

\* The last recording of its key.
Latest(past, i) ==
    i \in 1..Len(past) /\ \A j \in (i + 1)..Len(past) : past[j].key # past[i].key

KeysAfter(past, i) == {past[j].key : j \in (i + 1)..Len(past)}

\* An entry stands for the last recording of its key.
StandsFor(e, past, i) == Latest(past, i) /\ past[i].key = e.key

\* A store holds one entry of a key, in the order in which they were recorded.
Ordered(held, past) ==
    /\ \A n \in 1..Len(held) :
          \E i \in 1..Len(past) : StandsFor(held[n], past, i) /\ past[i].until = held[n].expires
    /\ \A m, n \in 1..Len(held) : m < n =>
          \A i, j \in 1..Len(past) :
              StandsFor(held[m], past, i) /\ StandsFor(held[n], past, j) => i < j

\* What was recorded last under a key is held, has expired, or was pushed out.
Remembered(held, past, now) ==
    \A i \in 1..Len(past) : Latest(past, i) =>
        \/ \E n \in 1..Len(held) : held[n].key = past[i].key
        \/ past[i].until <= now
        \/ Cardinality(KeysAfter(past, i)) >= Limit

\* A sequence without one of its places.
LEMMA RemoveOne ==
  ASSUME NEW S, NEW s \in Seq(S), NEW k \in 1..Len(s)
  PROVE  /\ RemoveAt(s, k) \in Seq(S) /\ Len(RemoveAt(s, k)) = Len(s) - 1
         /\ \A i \in 1..(Len(s) - 1) :
               RemoveAt(s, k)[i] = s[IF i < k THEN i ELSE i + 1]
  <1> DEFINE a == SubSeq(s, 1, k - 1)
             b == SubSeq(s, k + 1, Len(s))
             c == a \o b
  <1>1. Len(s) \in Nat
    OBVIOUS
  <1>2. a \in Seq(S) /\ Len(a) = k - 1 /\ \A i \in 1..(k - 1) : a[i] = s[i]
    OBVIOUS
  <1>3. /\ b \in Seq(S) /\ Len(b) = Len(s) - k
        /\ \A i \in 1..(Len(s) - k) : b[i] = s[k + i]
    OBVIOUS
  <1>4. RemoveAt(s, k) = c
    BY DEF RemoveAt
  <1> HIDE DEF a, b
  <1>5. /\ c \in Seq(S) /\ Len(c) = Len(a) + Len(b)
        /\ \A i \in 1..(Len(a) + Len(b)) : c[i] = IF i <= Len(a) THEN a[i] ELSE b[i - Len(a)]
    BY <1>2, <1>3, ConcatProperties
  <1> HIDE DEF c
  <1>6. Len(a) = k - 1 /\ Len(a) + Len(b) = Len(s) - 1
    BY <1>1, <1>2, <1>3
  <1>7. \A i \in 1..(Len(s) - 1) : c[i] = IF i <= k - 1 THEN a[i] ELSE b[i - (k - 1)]
    BY <1>5, <1>6, Zenon
  <1>8. ASSUME NEW i \in 1..(Len(s) - 1)
        PROVE  c[i] = s[IF i < k THEN i ELSE i + 1]
    <2>1. CASE i < k
      <3>1. i <= k - 1 /\ i \in 1..(k - 1)
        BY <1>1, <2>1
      <3>2. QED
        BY <1>2, <1>7, <2>1, <3>1
    <2>2. CASE ~(i < k)
      <3>1. i - (k - 1) \in 1..(Len(s) - k) /\ k + (i - (k - 1)) = i + 1 /\ ~(i <= k - 1)
        BY <1>1, <2>2
      <3>2. c[i] = b[i - (k - 1)]
        BY <1>7, <3>1
      <3>3. QED
        BY <1>3, <2>2, <3>1, <3>2
    <2>3. QED
      BY <2>1, <2>2
  <1>9. QED
    BY <1>4, <1>5, <1>6, <1>8

\* The entries of a store are of as many keys.
LEMMA KeysApart ==
  ASSUME NEW held \in Seq(Entries), NEW past \in Seq(Past), Ordered(held, past),
         NEW m \in 1..Len(held), NEW n \in 1..Len(held), held[m].key = held[n].key
  PROVE  m = n
  <1>1. PICK i \in 1..Len(past) : StandsFor(held[m], past, i)
    BY DEF Ordered
  <1>2. StandsFor(held[n], past, i)
    BY <1>1 DEF StandsFor
  <1>3. ~(m < n) /\ ~(n < m)
    BY <1>1, <1>2 DEF Ordered
  <1>4. QED
    BY <1>3

\* A part of a store, in the same order.
LEMMA PartOrdered ==
  ASSUME NEW held \in Seq(Entries), NEW past \in Seq(Past), Ordered(held, past),
         NEW part \in Seq(Entries), NEW f \in [1..Len(part) -> 1..Len(held)],
         \A m, n \in 1..Len(part) : m < n => f[m] < f[n],
         \A n \in 1..Len(part) : part[n] = held[f[n]]
  PROVE  Ordered(part, past)
  <1>1. ASSUME NEW n \in 1..Len(part)
        PROVE  \E i \in 1..Len(past) : StandsFor(part[n], past, i) /\ past[i].until = part[n].expires
    <2>1. f[n] \in 1..Len(held) /\ part[n] = held[f[n]]
      OBVIOUS
    <2>2. QED
      BY <2>1 DEF Ordered
  <1>2. ASSUME NEW m \in 1..Len(part), NEW n \in 1..Len(part), m < n,
               NEW i \in 1..Len(past), NEW j \in 1..Len(past),
               StandsFor(part[m], past, i), StandsFor(part[n], past, j)
        PROVE  i < j
    <2>1. f[m] < f[n] /\ part[m] = held[f[m]] /\ part[n] = held[f[n]]
      BY <1>2
    <2>2. QED
      BY <1>2, <2>1 DEF Ordered
  <1>3. QED
    BY <1>1, <1>2 DEF Ordered

\* A store that has forgotten a key holds the rest, in order.
LEMMA WithoutOrdered ==
  ASSUME NEW held \in Seq(Entries), NEW past \in Seq(Past), Ordered(held, past), NEW key
  PROVE  /\ Without(held, key) \in Seq(Entries) /\ Ordered(Without(held, key), past)
         /\ \A n \in 1..Len(Without(held, key)) : Without(held, key)[n].key # key
         /\ \A n \in 1..Len(held) : held[n].key # key =>
               \E i \in 1..Len(Without(held, key)) : Without(held, key)[i] = held[n]
  <1>1. CASE Held(held, key) = {}
    BY <1>1 DEF Without, Held
  <1>2. CASE Held(held, key) # {}
    <2>1. PICK k \in Held(held, key) : Without(held, key) = RemoveAt(held, k)
      BY <1>2 DEF Without
    <2>2. k \in 1..Len(held) /\ held[k].key = key
      BY <2>1 DEF Held
    <2>3. PICK part : part = RemoveAt(held, k)
      OBVIOUS
    <2>4. /\ part \in Seq(Entries) /\ Len(held) \in Nat /\ Len(part) = Len(held) - 1
          /\ \A i \in 1..(Len(held) - 1) : part[i] = held[IF i < k THEN i ELSE i + 1]
      BY <2>2, <2>3, RemoveOne
    <2> DEFINE f == [i \in 1..Len(part) |-> IF i < k THEN i ELSE i + 1]
    <2>5. /\ f \in [1..Len(part) -> 1..Len(held)]
          /\ \A m, n \in 1..Len(part) : m < n => f[m] < f[n]
          /\ \A n \in 1..Len(part) : part[n] = held[f[n]] /\ f[n] # k
      BY <2>2, <2>4
    <2>6. \A n \in 1..Len(held) : n # k => \E i \in 1..Len(part) : f[i] = n
      <3>1. ASSUME NEW n \in 1..Len(held), n # k
            PROVE  \E i \in 1..Len(part) : f[i] = n
        <4>1. CASE n < k
          BY <2>2, <2>4, <4>1
        <4>2. CASE n > k
          <5>1. n - 1 \in 1..Len(part) /\ ~(n - 1 < k) /\ (n - 1) + 1 = n
            BY <2>2, <2>4, <4>2
          <5>2. QED
            BY <5>1
        <4>3. QED
          BY <2>2, <3>1, <4>1, <4>2
      <3>2. QED
        BY <3>1
    <2> HIDE DEF f
    <2>7. Ordered(part, past)
      BY <2>4, <2>5, PartOrdered
    <2>8. \A n \in 1..Len(part) : part[n].key # key
      <3>1. ASSUME NEW n \in 1..Len(part), part[n].key = key
            PROVE  FALSE
        <4>1. f[n] \in 1..Len(held) /\ held[f[n]].key = held[k].key /\ f[n] # k
          BY <2>2, <2>5, <3>1
        <4>2. QED
          BY <2>2, <4>1, KeysApart
      <3>2. QED
        BY <3>1
    <2>9. \A n \in 1..Len(held) : held[n].key # key => \E i \in 1..Len(part) : part[i] = held[n]
      BY <2>2, <2>5, <2>6
    <2>10. QED
      BY <2>1, <2>3, <2>4, <2>7, <2>8, <2>9
  <1>3. QED
    BY <1>1, <1>2

\* One recording more.
LEMMA RecordedMore ==
  ASSUME NEW past \in Seq(Past), NEW x \in Past
  PROVE  /\ Append(past, x) \in Seq(Past) /\ Len(Append(past, x)) = Len(past) + 1
         /\ Latest(Append(past, x), Len(past) + 1)
         /\ Append(past, x)[Len(past) + 1] = x
         /\ \A i \in 1..Len(past) :
               /\ Append(past, x)[i] = past[i]
               /\ Latest(Append(past, x), i) <=> Latest(past, i) /\ past[i].key # x.key
               /\ KeysAfter(past, i) \subseteq KeysAfter(Append(past, x), i)
  <1>1. PICK more : more = Append(past, x)
    OBVIOUS
  <1>2. /\ more \in Seq(Past) /\ Len(past) \in Nat /\ Len(more) = Len(past) + 1
        /\ more[Len(past) + 1] = x /\ \A i \in 1..Len(past) : more[i] = past[i]
    BY <1>1
  <1>3. Latest(more, Len(past) + 1)
    BY <1>2 DEF Latest
  <1>4. ASSUME NEW i \in 1..Len(past)
        PROVE  /\ Latest(more, i) <=> Latest(past, i) /\ past[i].key # x.key
               /\ KeysAfter(past, i) \subseteq KeysAfter(more, i)
    <2>1. \A j \in (i + 1)..Len(past) : j \in 1..Len(past) /\ j \in (i + 1)..Len(more)
      BY <1>2
    <2>2. \A j \in (i + 1)..Len(more) : j \in (i + 1)..Len(past) \/ j = Len(past) + 1
      BY <1>2
    <2>3. Len(past) + 1 \in (i + 1)..Len(more) /\ i \in 1..Len(more)
      BY <1>2
    <2>4. Latest(more, i) <=> Latest(past, i) /\ past[i].key # x.key
      BY <1>2, <2>1, <2>2, <2>3 DEF Latest
    <2>5. KeysAfter(past, i) \subseteq KeysAfter(more, i)
      BY <1>2, <2>1 DEF KeysAfter
    <2>6. QED
      BY <2>4, <2>5
  <1>5. QED
    BY <1>1, <1>2, <1>3, <1>4

LEMMA KeysAfterFinite ==
  ASSUME NEW past \in Seq(Past), NEW i \in 1..Len(past)
  PROVE  IsFiniteSet(KeysAfter(past, i)) /\ Cardinality(KeysAfter(past, i)) \in Nat
  <1> DEFINE S == (i + 1)..Len(past)
             f == [j \in S |-> past[j].key]
  <1>1. IsFiniteSet(S)
    BY FS_Interval
  <1>2. f \in Surjection(S, KeysAfter(past, i))
    BY DEF Surjection, KeysAfter
  <1>3. IsFiniteSet(KeysAfter(past, i))
    BY <1>1, <1>2, FS_Surjection
  <1>4. QED
    BY <1>3, FS_CardinalityType

\* As many keys were recorded after an entry as the store holds entries behind it.
LEMMA PushedOut ==
  ASSUME NEW held \in Seq(Entries), NEW past \in Seq(Past), Ordered(held, past),
         NEW n \in 1..Len(held), NEW i \in 1..Len(past), StandsFor(held[n], past, i)
  PROVE  Cardinality(KeysAfter(past, i)) >= Len(held) - n
  <1> DEFINE S == (n + 1)..Len(held)
             T == KeysAfter(past, i)
             f == [m \in S |-> held[m].key]
  <1>0. Len(held) \in Nat /\ \A m \in S : m \in 1..Len(held) /\ n < m
    OBVIOUS
  <1>1. IsFiniteSet(S) /\ Cardinality(S) = Len(held) - n
    BY <1>0, FS_Interval
  <1>2. IsFiniteSet(T) /\ Cardinality(T) \in Nat
    BY KeysAfterFinite
  <1>3. ASSUME NEW m \in S
        PROVE  held[m].key \in T
    <2>1. m \in 1..Len(held) /\ n < m
      BY <1>0
    <2>2. PICK j \in 1..Len(past) : StandsFor(held[m], past, j)
      BY <2>1 DEF Ordered
    <2>3. i < j
      BY <2>1, <2>2 DEF Ordered
    <2>4. j \in (i + 1)..Len(past) /\ past[j].key = held[m].key
      BY <2>2, <2>3 DEF StandsFor
    <2>5. QED
      BY <2>4 DEF KeysAfter
  <1>4. ASSUME NEW l \in S, NEW m \in S, held[l].key = held[m].key
        PROVE  l = m
    BY <1>0, <1>4, KeysApart
  <1> HIDE DEF T
  <1>5. f \in Injection(S, T)
    BY <1>3, <1>4 DEF Injection, IsInjective
  <1>6. Cardinality(S) <= Cardinality(T)
    BY <1>2, <1>5, FS_Injection
  <1>7. QED
    BY <1>0, <1>1, <1>2, <1>6 DEF T


\* Under a key only one recording is the last.
LEMMA LatestUnique ==
  ASSUME NEW past \in Seq(Past), NEW e, NEW i \in 1..Len(past), NEW j \in 1..Len(past),
         StandsFor(e, past, i), StandsFor(e, past, j)
  PROVE  i = j
  <1>1. Len(past) \in Nat /\ past[i].key = past[j].key
    BY DEF StandsFor
  <1>2. \A k \in (i + 1)..Len(past) : past[k].key # past[i].key
    BY DEF StandsFor, Latest
  <1>3. \A k \in (j + 1)..Len(past) : past[k].key # past[j].key
    BY DEF StandsFor, Latest
  <1>4. ~(i < j)
    BY <1>1, <1>2
  <1>5. ~(j < i)
    BY <1>1, <1>3
  <1>6. QED
    BY <1>1, <1>4, <1>5

\* What a store holds of a recording expires with it.
LEMMA ExpiresWith ==
  ASSUME NEW held \in Seq(Entries), NEW past \in Seq(Past), Ordered(held, past),
         NEW n \in 1..Len(held), NEW i \in 1..Len(past), Latest(past, i),
         held[n].key = past[i].key
  PROVE  StandsFor(held[n], past, i) /\ held[n].expires = past[i].until
  <1>1. StandsFor(held[n], past, i)
    BY DEF StandsFor
  <1>2. PICK j \in 1..Len(past) : StandsFor(held[n], past, j) /\ past[j].until = held[n].expires
    BY DEF Ordered
  <1>3. QED
    BY <1>1, <1>2, LatestUnique

\* A recording is held at the end, and everything else before it.
LEMMA AppendOrdered ==
  ASSUME NEW held \in Seq(Entries), NEW past \in Seq(Past), Ordered(held, past),
         NEW e \in Entries, NEW x \in Past, e.key = x.key, e.expires = x.until,
         \A n \in 1..Len(held) : held[n].key # x.key
  PROVE  Append(held, e) \in Seq(Entries) /\ Ordered(Append(held, e), Append(past, x))
  <1>1. PICK more : more = Append(past, x)
    OBVIOUS
  <1>2. PICK grown : grown = Append(held, e)
    OBVIOUS
  <1>3. /\ more \in Seq(Past) /\ Len(past) \in Nat /\ Len(more) = Len(past) + 1
        /\ more[Len(past) + 1] = x /\ Latest(more, Len(past) + 1)
        /\ \A i \in 1..Len(past) :
              more[i] = past[i] /\ (Latest(more, i) <=> Latest(past, i) /\ past[i].key # x.key)
    BY <1>1, RecordedMore
  <1>4. /\ grown \in Seq(Entries) /\ Len(held) \in Nat /\ Len(grown) = Len(held) + 1
        /\ grown[Len(held) + 1] = e /\ \A n \in 1..Len(held) : grown[n] = held[n]
    BY <1>2
  <1>5. ASSUME NEW n \in 1..Len(held), NEW i \in 1..Len(past)
        PROVE  StandsFor(grown[n], more, i) <=> StandsFor(held[n], past, i)
    BY <1>3, <1>4 DEF StandsFor
  <1>6. ASSUME NEW n \in 1..Len(held)
        PROVE  ~StandsFor(grown[n], more, Len(past) + 1)
    BY <1>3, <1>4 DEF StandsFor
  <1>7. ASSUME NEW i \in 1..Len(past)
        PROVE  ~StandsFor(e, more, i)
    BY <1>3 DEF StandsFor
  <1>8. /\ \A n \in 1..Len(grown) : n \in 1..Len(held) \/ n = Len(held) + 1
        /\ \A i \in 1..Len(more) : i \in 1..Len(past) \/ i = Len(past) + 1
        /\ \A i \in 1..Len(past) : i \in 1..Len(more) /\ i < Len(past) + 1
        /\ Len(past) + 1 \in 1..Len(more)
    BY <1>3, <1>4
  <1>9. ASSUME NEW n \in 1..Len(grown)
        PROVE  \E i \in 1..Len(more) : StandsFor(grown[n], more, i) /\ more[i].until = grown[n].expires
    <2>1. CASE n \in 1..Len(held)
      <3>1. PICK i \in 1..Len(past) : StandsFor(held[n], past, i) /\ past[i].until = held[n].expires
        BY <2>1 DEF Ordered
      <3>2. QED
        BY <1>3, <1>4, <1>5, <1>8, <2>1, <3>1
    <2>2. CASE n = Len(held) + 1
      <3>1. StandsFor(e, more, Len(past) + 1)
        BY <1>3 DEF StandsFor
      <3>2. QED
        BY <1>3, <1>4, <1>8, <2>2, <3>1
    <2>3. QED
      BY <1>8, <2>1, <2>2
  <1>10. ASSUME NEW m \in 1..Len(grown), NEW n \in 1..Len(grown), m < n,
                NEW i \in 1..Len(more), NEW j \in 1..Len(more),
                StandsFor(grown[m], more, i), StandsFor(grown[n], more, j)
         PROVE  i < j
    <2>1. m \in 1..Len(held)
      BY <1>4, <1>10
    <2>2. i \in 1..Len(past) /\ StandsFor(held[m], past, i)
      BY <1>5, <1>6, <1>8, <1>10, <2>1
    <2>3. CASE n \in 1..Len(held)
      <3>1. j \in 1..Len(past) /\ StandsFor(held[n], past, j)
        BY <1>5, <1>6, <1>8, <1>10, <2>3
      <3>2. QED
        BY <1>10, <2>1, <2>2, <2>3, <3>1 DEF Ordered
    <2>4. CASE n = Len(held) + 1
      <3>1. j = Len(past) + 1
        BY <1>4, <1>7, <1>8, <1>10, <2>4
      <3>2. QED
        BY <1>8, <2>2, <3>1
    <2>5. QED
      BY <1>8, <2>3, <2>4
  <1>11. QED
    BY <1>1, <1>2, <1>4, <1>9, <1>10 DEF Ordered

\* And what was remembered still is.
LEMMA AppendRemembered ==
  ASSUME NEW held \in Seq(Entries), NEW part \in Seq(Entries), NEW past \in Seq(Past),
         NEW now \in Nat, Remembered(held, past, now),
         NEW e \in Entries, NEW x \in Past, e.key = x.key,
         \A n \in 1..Len(held) : held[n].key # x.key => \E i \in 1..Len(part) : part[i] = held[n]
  PROVE  Remembered(Append(part, e), Append(past, x), now)
  <1>1. PICK more : more = Append(past, x)
    OBVIOUS
  <1>2. PICK grown : grown = Append(part, e)
    OBVIOUS
  <1>3. /\ more \in Seq(Past) /\ Len(past) \in Nat /\ Len(more) = Len(past) + 1
        /\ more[Len(past) + 1] = x
        /\ \A i \in 1..Len(past) :
              /\ more[i] = past[i] /\ (Latest(more, i) <=> Latest(past, i) /\ past[i].key # x.key)
              /\ KeysAfter(past, i) \subseteq KeysAfter(more, i)
    BY <1>1, RecordedMore
  <1>4. /\ Len(part) \in Nat /\ Len(grown) = Len(part) + 1 /\ grown[Len(part) + 1] = e
        /\ \A n \in 1..Len(part) : grown[n] = part[n] /\ n \in 1..Len(grown)
        /\ Len(part) + 1 \in 1..Len(grown)
    BY <1>2
  <1>5. \A i \in 1..Len(more) : i \in 1..Len(past) \/ i = Len(past) + 1
    BY <1>3
  <1>6. ASSUME NEW i \in 1..Len(more), Latest(more, i)
        PROVE  \/ \E n \in 1..Len(grown) : grown[n].key = more[i].key
               \/ more[i].until <= now
               \/ Cardinality(KeysAfter(more, i)) >= Limit
    <2>1. CASE i = Len(past) + 1
      BY <1>3, <1>4, <2>1
    <2>2. CASE i \in 1..Len(past)
      <3>1. Latest(past, i) /\ past[i].key # x.key /\ more[i] = past[i]
        BY <1>3, <1>6, <2>2
      <3>2. CASE \E n \in 1..Len(held) : held[n].key = past[i].key
        <4>1. PICK n \in 1..Len(held) : held[n].key = past[i].key
          BY <3>2
        <4>2. PICK k \in 1..Len(part) : part[k] = held[n]
          BY <3>1, <4>1
        <4>3. QED
          BY <1>4, <3>1, <4>1, <4>2
      <3>3. CASE past[i].until <= now
        BY <3>1, <3>3
      <3>4. CASE Cardinality(KeysAfter(past, i)) >= Limit
        <4>1. i \in 1..Len(more) /\ KeysAfter(past, i) \subseteq KeysAfter(more, i)
          BY <1>3, <2>2
        <4>2. /\ IsFiniteSet(KeysAfter(more, i)) /\ Cardinality(KeysAfter(more, i)) \in Nat
              /\ Cardinality(KeysAfter(past, i)) \in Nat
          BY <1>3, <2>2, <4>1, KeysAfterFinite
        <4>3. Cardinality(KeysAfter(past, i)) <= Cardinality(KeysAfter(more, i))
          BY <4>1, <4>2, FS_Subset
        <4>4. QED
          BY <3>4, <4>2, <4>3, RecordedResultsAssumption
      <3>5. QED
        BY <2>2, <3>1, <3>2, <3>3, <3>4 DEF Remembered
    <2>3. QED
      BY <1>5, <2>1, <2>2
  <1>7. QED
    BY <1>1, <1>2, <1>6 DEF Remembered

\* What a store drops has expired or was pushed out.
LEMMA DropStaleKeeps ==
  ASSUME NEW held \in Seq(Entries), NEW past \in Seq(Past), clock \in Nat,
         Ordered(held, past), Remembered(held, past, clock)
  PROVE  /\ DropStale(held) \in Seq(Entries)
         /\ Ordered(DropStale(held), past) /\ Remembered(DropStale(held), past, clock)
  <1>1. PICK m \in 0..Len(held) :
          /\ DropStale(held) = SubSeq(held, m + 1, Len(held))
          /\ \A j \in 1..m : Len(held) - (j - 1) > Limit \/ held[j].expires <= clock
    BY DropStaleStops
  <1>2. PICK part : part = SubSeq(held, m + 1, Len(held))
    OBVIOUS
  <1>3. /\ Len(held) \in Nat /\ part \in Seq(Entries) /\ Len(part) = Len(held) - m
        /\ \A n \in 1..Len(part) : part[n] = held[m + n]
    BY <1>2
  <1> DEFINE f == [n \in 1..Len(part) |-> m + n]
  <1>4. /\ f \in [1..Len(part) -> 1..Len(held)]
        /\ \A k, n \in 1..Len(part) : k < n => f[k] < f[n]
        /\ \A n \in 1..Len(part) : part[n] = held[f[n]]
    BY <1>3
  <1> HIDE DEF f
  <1>5. Ordered(part, past)
    BY <1>3, <1>4, PartOrdered
  <1>6. ASSUME NEW i \in 1..Len(past), Latest(past, i)
        PROVE  \/ \E n \in 1..Len(part) : part[n].key = past[i].key
               \/ past[i].until <= clock
               \/ Cardinality(KeysAfter(past, i)) >= Limit
    <2>1. CASE \E n \in 1..Len(held) : held[n].key = past[i].key
      <3>1. PICK n \in 1..Len(held) : held[n].key = past[i].key
        BY <2>1
      <3>2. CASE n > m
        <4>1. n - m \in 1..Len(part) /\ m + (n - m) = n
          BY <1>3, <3>2
        <4>2. QED
          BY <1>3, <3>1, <4>1
      <3>3. CASE ~(n > m)
        <4>1. n \in 1..m
          BY <1>3, <3>3
        <4>2. StandsFor(held[n], past, i) /\ held[n].expires = past[i].until
          BY <1>6, <3>1, ExpiresWith
        <4>3. CASE held[n].expires <= clock
          BY <4>2, <4>3
        <4>4. CASE Len(held) - (n - 1) > Limit
          <5>1. Cardinality(KeysAfter(past, i)) >= Len(held) - n
            BY <4>2, PushedOut
          <5>2. Cardinality(KeysAfter(past, i)) \in Nat
            BY KeysAfterFinite
          <5>3. QED
            BY <1>3, <4>4, <5>1, <5>2, RecordedResultsAssumption
        <4>5. QED
          BY <1>1, <4>1, <4>3, <4>4
      <3>4. QED
        BY <3>2, <3>3
    <2>2. CASE ~\E n \in 1..Len(held) : held[n].key = past[i].key
      BY <1>6, <2>2 DEF Remembered
    <2>3. QED
      BY <2>1, <2>2
  <1>7. QED
    BY <1>1, <1>2, <1>3, <1>5, <1>6 DEF Remembered

\* To record forgets the key, adds to the end and drops from the front.
LEMMA RecordKeeps ==
  ASSUME NEW held \in Seq(Entries), NEW past \in Seq(Past), clock \in Nat,
         Ordered(held, past), Remembered(held, past, clock),
         NEW e \in Entries, NEW ttl \in Nat, e.expires = clock + ttl,
         NEW x \in Past, e.key = x.key, e.expires = x.until
  PROVE  /\ Ordered(Record(held, e.key, e.by, ttl), Append(past, x))
         /\ Remembered(Record(held, e.key, e.by, ttl), Append(past, x), clock)
  <1>1. PICK part : part = Without(held, e.key)
    OBVIOUS
  <1>2. /\ part \in Seq(Entries) /\ Ordered(part, past)
        /\ \A n \in 1..Len(part) : part[n].key # x.key
        /\ \A n \in 1..Len(held) : held[n].key # x.key => \E i \in 1..Len(part) : part[i] = held[n]
    BY <1>1, WithoutOrdered
  <1>3. e = [key |-> e.key, by |-> e.by, expires |-> clock + ttl]
    BY DEF Entries
  <1>4. Record(held, e.key, e.by, ttl) = DropStale(Append(part, e))
    BY <1>1, <1>3 DEF Record
  <1>5. PICK grown : grown = Append(part, e)
    OBVIOUS
  <1>6. PICK more : more = Append(past, x)
    OBVIOUS
  <1>7. grown \in Seq(Entries) /\ Ordered(grown, more)
    BY <1>2, <1>5, <1>6, AppendOrdered
  <1>8. more \in Seq(Past)
    BY <1>6, RecordedMore
  <1>9. Remembered(grown, more, clock)
    BY <1>2, <1>5, <1>6, AppendRemembered
  <1>10. QED
    BY <1>4, <1>5, <1>6, <1>7, <1>8, <1>9, DropStaleKeeps

\* What a store forgets has expired.
LEMMA ForgettingKeeps ==
  ASSUME NEW held \in Seq(Entries), NEW past \in Seq(Past), clock \in Nat,
         Ordered(held, past), Remembered(held, past, clock), NEW key
  PROVE  /\ Ordered(Forgetting(held, key), past)
         /\ Remembered(Forgetting(held, key), past, clock)
  <1>1. CASE Answer(held, key) # {}
    BY <1>1 DEF Forgetting
  <1>2. CASE Answer(held, key) = {}
    <2>1. PICK part : part = Without(held, key)
      OBVIOUS
    <2>2. Forgetting(held, key) = part
      BY <1>2, <2>1 DEF Forgetting
    <2>3. /\ part \in Seq(Entries) /\ Ordered(part, past)
          /\ \A n \in 1..Len(held) : held[n].key # key => \E i \in 1..Len(part) : part[i] = held[n]
      BY <2>1, WithoutOrdered
    <2>4. ASSUME NEW i \in 1..Len(past), Latest(past, i)
          PROVE  \/ \E n \in 1..Len(part) : part[n].key = past[i].key
                 \/ past[i].until <= clock
                 \/ Cardinality(KeysAfter(past, i)) >= Limit
      <3>1. CASE \E n \in 1..Len(held) : held[n].key = past[i].key
        <4>1. PICK n \in 1..Len(held) : held[n].key = past[i].key
          BY <3>1
        <4>2. CASE held[n].key = key
          <5>1. held[n].expires = past[i].until
            BY <2>4, <4>1, ExpiresWith
          <5>2. held[n] \in Entries
            BY <4>1
          <5>3. ~(held[n].expires > clock)
            BY <1>2, <4>1, <4>2 DEF Answer, Held
          <5>4. held[n].expires \in Int
            BY <5>2 DEF Entries
          <5>5. QED
            BY <5>1, <5>3, <5>4
        <4>3. CASE held[n].key # key
          BY <2>3, <4>1, <4>3
        <4>4. QED
          BY <4>2, <4>3
      <3>2. CASE ~\E n \in 1..Len(held) : held[n].key = past[i].key
        BY <2>4, <3>2 DEF Remembered
      <3>3. QED
        BY <3>1, <3>2
    <2>5. QED
      BY <2>2, <2>3, <2>4 DEF Remembered
  <1>3. QED
    BY <1>1, <1>2

-----------------------------------------------------------------------------
(* Nothing is run while there is something to replay.                        *)

LoggedOK == \A s \in Stores : \A i \in 1..Len(log[s]) : stage[log[s][i].by] = "served"

\* What a store holds are the last recordings of their keys, and the others have expired
\* or were pushed out.
MemoryOK ==
    \A s \in Stores :
        /\ Ordered(entries[s], Recorded(s))
        /\ Remembered(entries[s], Recorded(s), clock)

MInv == IInv /\ LoggedOK /\ MemoryOK

\* Who computed what was recorded.
LEMMA RecorderOf ==
  ASSUME IInv, LoggedOK, NEW s \in Stores, NEW i \in 1..Len(log[s])
  PROVE  /\ log[s][i] \in Recordings /\ log[s][i].by \in Requests
         /\ stage[log[s][i].by] = "served" /\ ask[log[s][i].by] \in Asks
         /\ Ttl[ask[log[s][i].by].route] \in Nat
  <1>1. log[s] \in Seq(Recordings) /\ stage[log[s][i].by] = "served"
    BY DEF IInv, StateOK, LoggedOK
  <1>2. log[s][i] \in Recordings
    BY <1>1
  <1>3. log[s][i].by \in Requests
    BY <1>2 DEF Recordings
  <1>4. ask[log[s][i].by] \in Asks
    BY <1>1, <1>3 DEF IInv, AdmittedOK
  <1>5. QED
    BY <1>1, <1>2, <1>3, <1>4, RecordedResultsAssumption

LEMMA RecordedType ==
  ASSUME IInv, LoggedOK, NEW s \in Stores
  PROVE  /\ Recorded(s) \in Seq(Past) /\ Len(Recorded(s)) = Len(log[s]) /\ Len(log[s]) \in Nat
         /\ \A i \in 1..Len(log[s]) :
               /\ Recorded(s)[i].key = log[s][i].key
               /\ Recorded(s)[i].until = log[s][i].at + Ttl[ask[log[s][i].by].route]
  <1>1. log[s] \in Seq(Recordings) /\ Len(log[s]) \in Nat
    BY DEF IInv, StateOK
  <1>2. ASSUME NEW i \in 1..Len(log[s])
        PROVE  [key |-> log[s][i].key, until |-> log[s][i].at + Ttl[ask[log[s][i].by].route]] \in Past
    <2>1. /\ log[s][i] \in Recordings
          /\ Ttl[ask[log[s][i].by].route] \in Nat
      BY RecorderOf
    <2>2. log[s][i].key \in {Key(a) : a \in Asks} /\ log[s][i].at \in Nat
      BY <2>1 DEF Recordings
    <2>3. QED
      BY <2>1, <2>2 DEF Past
  <1>3. QED
    BY <1>1, <1>2 DEF Recorded

\* A step that lets who was served be, and records nothing, leaves the recordings.
LEMMA RecordedStays ==
  ASSUME IInv, LoggedOK, NEW s \in Stores, log' = log,
         \A q \in Requests : stage[q] = "served" => ask'[q] = ask[q]
  PROVE  Recorded(s)' = Recorded(s)
  <1>1. \A i \in 1..Len(log[s]) : ask'[log[s][i].by] = ask[log[s][i].by]
    BY RecorderOf
  <1>2. QED
    BY <1>1 DEF Recorded

\* A step that only asks.
LEMMA AskRemembers ==
  ASSUME MInv, NEW r \in Requests, NEW a \in Asks, Ask(r, a)
  PROVE  LoggedOK' /\ MemoryOK'
  <1> DEFINE store == StoreOf[a.route]
  <1>1. IInv /\ LoggedOK /\ MemoryOK /\ StateOK /\ store \in Stores
    BY RecordedResultsAssumption DEF MInv, IInv
  <1>2. /\ stage[r] = "idle" /\ clock' = clock /\ log' = log
        /\ ask' = [ask EXCEPT ![r] = a] /\ clock \in Nat
    BY <1>1 DEF Ask, StateOK
  <1>3. \E to : stage' = [stage EXCEPT ![r] = to]
    BY DEF Ask
  <1>4. \A q \in Requests : stage[q] = "served" => stage'[q] = "served" /\ ask'[q] = ask[q]
    BY <1>1, <1>2, <1>3 DEF StateOK
  <1>5. LoggedOK'
    BY <1>1, <1>2, <1>4, RecorderOf DEF LoggedOK
  <1>6. \A s \in Stores : entries'[s] = entries[s] \/ entries'[s] = Forgetting(entries[s], Key(a))
    <2>1. entries \in [Stores -> Seq(Entries)]
      BY <1>1 DEF StateOK
    <2>2. entries' = entries \/ entries' = [entries EXCEPT ![store] = entries[store]]
          \/ entries' = [entries EXCEPT ![store] = Forgetting(entries[store], Key(a))]
      BY DEF Ask
    <2> HIDE DEF store
    <2>3. QED
      BY <2>1, <2>2
  <1>7. ASSUME NEW s \in Stores
        PROVE  Ordered(entries'[s], Recorded(s)') /\ Remembered(entries'[s], Recorded(s)', clock')
    <2>1. Recorded(s)' = Recorded(s) /\ Recorded(s) \in Seq(Past)
      BY <1>1, <1>2, <1>4, RecordedStays, RecordedType
    <2>2. Ordered(entries[s], Recorded(s)) /\ Remembered(entries[s], Recorded(s), clock)
      BY <1>1 DEF MemoryOK
    <2>3. entries[s] \in Seq(Entries)
      BY <1>1 DEF StateOK
    <2>4. PICK past \in Seq(Past) : past = Recorded(s)
      BY <2>1
    <2>5. /\ Ordered(Forgetting(entries[s], Key(a)), past)
          /\ Remembered(Forgetting(entries[s], Key(a)), past, clock)
      BY <1>2, <2>2, <2>3, <2>4, ForgettingKeeps
    <2>6. QED
      BY <1>2, <1>6, <2>1, <2>2, <2>4, <2>5
  <1>8. MemoryOK'
    BY <1>7 DEF MemoryOK
  <1>9. QED
    BY <1>5, <1>8

\* A step that records.
LEMMA HandlerReturnsRemembers ==
  ASSUME MInv, NEW r \in Requests, HandlerReturns(r)
  PROVE  LoggedOK' /\ MemoryOK'
  <1> DEFINE a == ask[r]
             store == StoreOf[a.route]
             ttl == Ttl[a.route]
             e == [key |-> Key(a), by |-> r, expires |-> clock + ttl]
             x == [key |-> Key(a), by |-> r, at |-> clock]
             y == [key |-> Key(a), until |-> clock + ttl]
  <1>1. /\ IInv /\ LoggedOK /\ MemoryOK /\ StateOK
        /\ stage[r] = "running" /\ a \in Asks
        /\ clock' = clock /\ ask' = ask
        /\ stage' = [stage EXCEPT ![r] = "served"]
    BY DEF MInv, IInv, HandlerReturns, AdmittedOK
  <1>2. store \in Stores /\ ttl \in Nat /\ clock \in Nat
    BY <1>1, RecordedResultsAssumption DEF StateOK
  <1>3. e \in Entries /\ x \in Recordings /\ y \in Past
    BY <1>1, <1>2 DEF Entries, Recordings, Past
  <1>4. \A q \in Requests : stage[q] = "served" => stage'[q] = "served" /\ ask'[q] = ask[q]
    BY <1>1 DEF StateOK
  <1>5. CASE UNCHANGED <<entries, log>>
    <2>1. LoggedOK'
      BY <1>1, <1>4, <1>5, RecorderOf DEF LoggedOK
    <2>2. \A s \in Stores : Recorded(s)' = Recorded(s)
      BY <1>1, <1>4, <1>5, RecordedStays
    <2>3. MemoryOK'
      BY <1>1, <1>5, <2>2 DEF MemoryOK
    <2>4. QED
      BY <2>1, <2>3
  <1>6. CASE /\ entries' = [entries EXCEPT ![store] = Record(entries[store], Key(a), r, ttl)]
             /\ log' = [log EXCEPT ![store] = Append(log[store], x)]
    <2>1. /\ entries \in [Stores -> Seq(Entries)] /\ entries[store] \in Seq(Entries)
          /\ log \in [Stores -> Seq(Recordings)] /\ log[store] \in Seq(Recordings)
      BY <1>1, <1>2 DEF StateOK
    <2>2. /\ e.key = Key(a) /\ e.by = r /\ e.expires = clock + ttl
          /\ y.key = Key(a) /\ y.until = clock + ttl
          /\ x.key = Key(a) /\ x.by = r /\ x.at = clock
          /\ Ttl[ask'[r].route] = ttl /\ stage'[r] = "served"
      BY <1>1 DEF StateOK
    <2> HIDE DEF e, x, y, a, store, ttl
    <2>0. PICK at \in Stores : at = store
      BY <1>2
    <2>3. /\ entries'[at] = Record(entries[at], e.key, e.by, ttl)
          /\ log'[at] = Append(log[at], x)
          /\ \A s \in Stores : s # at => entries'[s] = entries[s] /\ log'[s] = log[s]
      BY <1>2, <1>6, <2>0, <2>1, <2>2
    <2>4. /\ Len(log'[at]) = Len(log[at]) + 1 /\ Len(log[at]) \in Nat
          /\ log'[at][Len(log[at]) + 1] = x
          /\ \A i \in 1..Len(log[at]) : log'[at][i] = log[at][i]
      BY <1>3, <2>0, <2>1, <2>3
    <2>5. LoggedOK'
      <3>1. ASSUME NEW s \in Stores, NEW i \in 1..Len(log'[s])
            PROVE  stage'[log'[s][i].by] = "served"
        <4>1. CASE i \in 1..Len(log[s]) /\ log'[s][i] = log[s][i]
          BY <1>1, <1>4, <4>1, RecorderOf
        <4>2. CASE s = at /\ i = Len(log[at]) + 1
          BY <2>2, <2>4, <4>2
        <4>3. QED
          BY <2>3, <2>4, <4>1, <4>2
      <3>2. QED
        BY <3>1 DEF LoggedOK
    <2>6. ASSUME NEW s \in Stores, s # at
          PROVE  Recorded(s)' = Recorded(s)
      <3>1. \A i \in 1..Len(log[s]) : ask'[log[s][i].by] = ask[log[s][i].by]
        BY <1>1
      <3>2. QED
        BY <2>3, <2>6, <3>1 DEF Recorded
    <2>7. Recorded(at)' = Append(Recorded(at), y)
      <3>1. /\ Recorded(at) \in Seq(Past) /\ Len(Recorded(at)) = Len(log[at])
        BY <1>1, RecordedType
      <3>2. \A i \in 1..Len(log[at]) :
               Recorded(at)[i] =
                 [key |-> log[at][i].key, until |-> log[at][i].at + Ttl[ask[log[at][i].by].route]]
        BY DEF Recorded
      <3>3. \A i \in 1..(Len(log[at]) + 1) :
               (Recorded(at)')[i] =
                 [key |-> log'[at][i].key,
                  until |-> log'[at][i].at + Ttl[ask'[log'[at][i].by].route]]
        BY <2>4 DEF Recorded
      <3>4. y = [key |-> x.key, until |-> x.at + Ttl[ask'[x.by].route]]
        BY <2>2 DEF y
      <3>5. Recorded(at)' = [i \in 1..(Len(log[at]) + 1) |-> (Recorded(at)')[i]]
        BY <2>4 DEF Recorded
      <3>6. \A i \in 1..Len(log[at]) : (Recorded(at)')[i] = Recorded(at)[i]
        <4>1. ASSUME NEW i \in 1..Len(log[at])
              PROVE  (Recorded(at)')[i] = Recorded(at)[i]
          <5>1. i \in 1..(Len(log[at]) + 1) /\ log'[at][i] = log[at][i] /\ ask' = ask
            BY <1>1, <2>4
          <5>2. (Recorded(at)')[i] =
                  [key |-> log[at][i].key, until |-> log[at][i].at + Ttl[ask[log[at][i].by].route]]
            BY <3>3, <5>1
          <5>3. QED
            BY <3>2, <5>2
        <4>2. QED
          BY <4>1
      <3>7. (Recorded(at)')[Len(log[at]) + 1] = y
        BY <2>4, <3>3, <3>4
      <3>8. PICK p \in Seq(Past) : p = Recorded(at)
        BY <3>1
      <3>9. PICK n \in Nat : n = Len(log[at])
        BY <2>4
      <3>10. PICK q : q = Recorded(at)'
        OBVIOUS
      <3>11. /\ q = [i \in 1..(n + 1) |-> q[i]] /\ Len(p) = n
             /\ (\A i \in 1..n : q[i] = p[i]) /\ q[n + 1] = y
        BY <3>1, <3>5, <3>6, <3>7, <3>8, <3>9, <3>10
      <3>12. q = Append(p, y)
        <4>1. \A i \in 1..(n + 1) : q[i] \in Past
          <5>1. (\A i \in 1..n : q[i] = p[i]) /\ q[n + 1] = y /\ Len(p) = n
            BY <3>11
          <5>2. \A i \in 1..n : p[i] \in Past
            BY <3>8, <5>1
          <5>3. \A i \in 1..(n + 1) : i \in 1..n \/ i = n + 1
            BY <3>9
          <5>4. QED
            BY <1>3, <5>1, <5>2, <5>3
        <4>2. q \in Seq(Past) /\ Len(q) = n + 1
          <5>1. q \in [1..(n + 1) -> Past]
            BY <3>11, <4>1, Zenon
          <5>2. n + 1 \in Nat
            BY <3>9
          <5>3. QED
            BY <5>1, <5>2
        <4>3. /\ Append(p, y) \in Seq(Past) /\ Len(Append(p, y)) = n + 1
              /\ \A i \in 1..n : Append(p, y)[i] = p[i]
              /\ Append(p, y)[n + 1] = y
          BY <1>3, <3>8, <3>9, <3>11
        <4>4. \A i \in 1..(n + 1) : q[i] = Append(p, y)[i]
          BY <3>9, <3>11, <4>3
        <4>5. QED
          BY <4>2, <4>3, <4>4, SeqEqual
      <3>13. QED
        BY <3>8, <3>10, <3>12
    <2>8. ASSUME NEW s \in Stores
          PROVE  Ordered(entries'[s], Recorded(s)') /\ Remembered(entries'[s], Recorded(s)', clock')
      <3>1. Ordered(entries[s], Recorded(s)) /\ Remembered(entries[s], Recorded(s), clock)
        BY <1>1 DEF MemoryOK
      <3>2. CASE s # at
        BY <1>1, <2>3, <2>6, <3>1, <3>2
      <3>3. CASE s = at
        <4>1. PICK past \in Seq(Past) : past = Recorded(at)
          BY <1>1, RecordedType
        <4>2. PICK held \in Seq(Entries) : held = entries[at]
          BY <2>0, <2>1
        <4>3. Ordered(held, past) /\ Remembered(held, past, clock)
          BY <3>1, <3>3, <4>1, <4>2
        <4>4. e.key = y.key /\ e.expires = y.until
          BY <2>2
        <4>5. /\ Ordered(Record(held, e.key, e.by, ttl), Append(past, y))
              /\ Remembered(Record(held, e.key, e.by, ttl), Append(past, y), clock)
          BY <1>2, <1>3, <2>2, <4>3, <4>4, RecordKeeps
        <4>6. QED
          BY <1>1, <2>3, <2>7, <3>3, <4>1, <4>2, <4>5
      <3>4. QED
        BY <3>2, <3>3
    <2>9. MemoryOK'
      BY <2>8 DEF MemoryOK
    <2>10. QED
      BY <2>5, <2>9
  <1>7. QED
    BY <1>5, <1>6 DEF HandlerReturns

\* A step that neither records nor serves anybody, the time passing or not.
LEMMA OthersRemember ==
  ASSUME MInv, UNCHANGED <<entries, log>>, clock' \in Nat, clock <= clock',
         \A q \in Requests : stage[q] = "served" => stage'[q] = "served" /\ ask'[q] = ask[q]
  PROVE  LoggedOK' /\ MemoryOK'
  <1>1. IInv /\ LoggedOK /\ MemoryOK /\ StateOK
    BY DEF MInv, IInv
  <1>2. LoggedOK'
    BY <1>1, RecorderOf DEF LoggedOK
  <1>3. ASSUME NEW s \in Stores
        PROVE  Ordered(entries'[s], Recorded(s)') /\ Remembered(entries'[s], Recorded(s)', clock')
    <2>1. Recorded(s)' = Recorded(s)
      BY <1>1, RecordedStays
    <2>2. PICK past \in Seq(Past) : past = Recorded(s)
      BY <1>1, RecordedType
    <2>3. Ordered(entries[s], past) /\ Remembered(entries[s], past, clock)
      BY <1>1, <2>2 DEF MemoryOK
    <2>4. \A i \in 1..Len(past) : past[i].until \in Int
      <3>1. \A i \in 1..Len(past) : past[i] \in Past
        OBVIOUS
      <3>2. QED
        BY <3>1 DEF Past
    <2>5. \A i \in 1..Len(past) : past[i].until <= clock => past[i].until <= clock'
      BY <1>1, <2>4 DEF StateOK
    <2>6. Remembered(entries[s], past, clock')
      BY <2>3, <2>5 DEF Remembered
    <2>7. QED
      BY <2>1, <2>2, <2>3, <2>6
  <1>4. MemoryOK'
    BY <1>3 DEF MemoryOK
  <1>5. QED
    BY <1>2, <1>4

LEMMA InitRemembers ==
  ASSUME Init
  PROVE  LoggedOK /\ MemoryOK
  <1>1. \A s \in Stores : log[s] = <<>> /\ entries[s] = <<>>
    BY DEF Init
  <1>2. LoggedOK
    BY <1>1 DEF LoggedOK
  <1>3. \A s \in Stores : Recorded(s) = [i \in 1..0 |-> None]
    BY <1>1 DEF Recorded
  <1>4. \A s \in Stores : Len(Recorded(s)) = 0
    BY <1>3
  <1>5. MemoryOK
    BY <1>1, <1>4 DEF MemoryOK, Ordered, Remembered
  <1>6. QED
    BY <1>2, <1>5

LEMMA RemembersAlways == Spec => []MInv
  <1>1. Init => MInv
    BY InitOK, InitRemembers DEF MInv
  <1>2. MInv /\ [Next]_vars /\ IInv' => MInv'
    <2>1. SUFFICES ASSUME MInv, [Next]_vars, IInv'
                   PROVE  LoggedOK' /\ MemoryOK'
      BY DEF MInv
    <2>2. StateOK
      BY <2>1 DEF MInv, IInv
    <2>3. CASE Tick \/ UNCHANGED vars
      <3>1. /\ UNCHANGED <<entries, stage, ask, log>>
            /\ clock' = clock \/ clock' = clock + 1
        BY <2>3 DEF Tick, vars
      <3>2. clock' \in Nat /\ clock <= clock'
        BY <2>2, <3>1 DEF StateOK
      <3>3. QED
        BY <2>1, <3>1, <3>2, OthersRemember
    <2>4. ASSUME NEW r \in Requests, NEW a \in Asks, Ask(r, a)
          PROVE  LoggedOK' /\ MemoryOK'
      BY <2>1, <2>4, AskRemembers
    <2>5. ASSUME NEW r \in Requests, HandlerReturns(r)
          PROVE  LoggedOK' /\ MemoryOK'
      BY <2>1, <2>5, HandlerReturnsRemembers
    <2>6. ASSUME NEW r \in Requests, HandlerFails(r)
          PROVE  LoggedOK' /\ MemoryOK'
      <3>1. /\ UNCHANGED <<clock, entries, ask, log>>
            /\ stage[r] = "running" /\ stage' = [stage EXCEPT ![r] = "failed"]
        BY <2>6 DEF HandlerFails
      <3>2. clock' \in Nat /\ clock <= clock'
        BY <2>2, <3>1 DEF StateOK
      <3>3. \A q \in Requests : stage[q] = "served" => stage'[q] = "served" /\ ask'[q] = ask[q]
        BY <2>2, <3>1 DEF StateOK
      <3>4. QED
        BY <2>1, <3>1, <3>2, <3>3, OthersRemember
    <2>7. QED
      BY <2>1, <2>3, <2>4, <2>5, <2>6 DEF Next
  <1>3. QED
    BY <1>1, <1>2, Invariance, PTL DEF Spec

\* A handler runs again only when there is nothing left to replay: whatever the requests
\* in between recorded, what was recorded last under a key is found until it expires or
\* as many other keys as the store holds were recorded since (_RecordedResults.answer and
\* record, _drop_stale).
THEOREM RecordedIsNotRepeated == Spec => NotRunTwice
  <1>1. ASSUME MInv, [Next]_vars, NEW r \in Requests,
               stage[r] = "idle", stage'[r] = "running", Key(ask'[r]) # None,
               Replayable(ask'[r])
        PROVE  FALSE
    <2>1. IInv /\ LoggedOK /\ MemoryOK /\ StateOK
      BY <1>1 DEF MInv, IInv
    <2>2. PICK a \in Asks : Ask(r, a)
      <3>1. CASE Tick \/ UNCHANGED vars
        BY <3>1, <1>1 DEF Tick, vars
      <3>2. CASE \E q \in Requests : HandlerReturns(q)
        BY <3>2, <1>1, <2>1 DEF HandlerReturns, StateOK
      <3>3. CASE \E q \in Requests : HandlerFails(q)
        BY <3>3, <1>1, <2>1 DEF HandlerFails, StateOK
      <3>4. CASE \E q \in Requests : \E a \in Asks : Ask(q, a)
        <4>1. PICK q \in Requests : \E a \in Asks : Ask(q, a)
          BY <3>4
        <4>2. \E to : stage' = [stage EXCEPT ![q] = to]
          BY <4>1 DEF Ask
        <4>3. q = r
          BY <4>2, <1>1, <2>1 DEF StateOK
        <4>4. QED
          BY <4>1, <4>3
      <3>5. QED
        BY <1>1, <3>1, <3>2, <3>3, <3>4 DEF Next
    <2>3. ask'[r] = a /\ stage' # [stage EXCEPT ![r] = "refused"]
          /\ stage' # [stage EXCEPT ![r] = "served"]
      BY <1>1, <2>1, <2>2 DEF Ask, StateOK
    <2> DEFINE store == StoreOf[a.route]
    <2>4. Key(a) # None /\ Replayable(a)
      BY <1>1, <2>3
    <2>5. Answer(entries[store], Key(a)) = {}
      BY <2>2, <2>3, <2>4 DEF Ask
    <2>6. store \in Stores
      BY RecordedResultsAssumption
    <2>7. PICK i \in 1..Len(log[store]) :
            /\ log[store][i].key = Key(a)
            /\ \A j \in (i + 1)..Len(log[store]) : log[store][j].key # Key(a)
            /\ clock < log[store][i].at + Ttl[ask[log[store][i].by].route]
            /\ Cardinality({log[store][j].key : j \in (i + 1)..Len(log[store])}) < Limit
      BY <2>4 DEF Replayable
    <2> HIDE DEF store
    <2>8. PICK past \in Seq(Past) :
            /\ past = Recorded(store) /\ Len(past) = Len(log[store]) /\ Len(past) \in Nat
            /\ \A k \in 1..Len(past) : past[k].key = log[store][k].key
            /\ past[i].until = log[store][i].at + Ttl[ask[log[store][i].by].route]
      BY <2>1, <2>6, <2>7, RecordedType
    <2>9. PICK held \in Seq(Entries) : held = entries[store]
      BY <2>1, <2>6 DEF StateOK
    <2>10. Ordered(held, past) /\ Remembered(held, past, clock)
      BY <2>1, <2>6, <2>8, <2>9 DEF MemoryOK
    <2>11. i \in 1..Len(past) /\ past[i].key = Key(a) /\ clock < past[i].until
      BY <2>7, <2>8
    <2>12. \A j \in (i + 1)..Len(past) : j \in 1..Len(past)
      BY <2>8, <2>11
    <2>13. Latest(past, i)
      BY <2>7, <2>8, <2>11, <2>12 DEF Latest
    <2>14. KeysAfter(past, i) = {log[store][j].key : j \in (i + 1)..Len(log[store])}
      BY <2>8, <2>12 DEF KeysAfter
    <2>15. clock \in Nat /\ past[i].until \in Int
      <3>1. past[i] \in Past
        BY <2>11
      <3>2. QED
        BY <2>1, <3>1 DEF StateOK, Past
    <2>16. ~(past[i].until <= clock)
      BY <2>11, <2>15
    <2>17. ~(Cardinality(KeysAfter(past, i)) >= Limit)
      <3>1. Cardinality(KeysAfter(past, i)) \in Nat
        BY <2>11, KeysAfterFinite
      <3>2. Cardinality(KeysAfter(past, i)) < Limit
        BY <2>7, <2>14
      <3>3. QED
        BY <3>1, <3>2, RecordedResultsAssumption
    <2>18. PICK n \in 1..Len(held) : held[n].key = past[i].key
      BY <2>10, <2>11, <2>13, <2>16, <2>17 DEF Remembered
    <2>19. held[n].expires = past[i].until
      BY <2>10, <2>11, <2>13, <2>18, ExpiresWith
    <2>20. held[n].by \in Answer(held, Key(a))
      BY <2>11, <2>15, <2>18, <2>19 DEF Answer, Held
    <2>21. QED
      BY <2>5, <2>9, <2>20 DEF store
  <1>2. MInv /\ [Next]_vars =>
          [\A r \in Requests :
              (stage[r] = "idle" /\ stage'[r] = "running" /\ Key(ask'[r]) # None)
              => ~Replayable(ask'[r])]_vars
    BY <1>1
  <1>3. QED
    BY <1>2, RemembersAlways, PTL DEF Spec, NotRunTwice
=================================================================================
