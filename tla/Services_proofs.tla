----------------------------- MODULE Services_proofs -----------------------------
(***************************************************************************)
(* Theorems about two services an application may be built with.           *)
(*                                                                         *)
(* About Throttler, for any clients, proxies, routes, budgets and number of *)
(* keys.  They are for routes whose budgets are of their own: where one    *)
(* function serves several of them, their requests are counted under one key.*)
(*                                                                         *)
(* About HealthProbes, for any readers, participants, indicators, time     *)
(* limits and number of generations.                                       *)
(***************************************************************************)
EXTENDS Throttler, HealthProbes, FiniteSetTheorems, WellFoundedInduction, TLAPS

-----------------------------------------------------------------------------
(* The first position at which a condition holds, and division by a length.  *)

\* A set of numbers that is not empty has a least one.
LEMMA LeastNumber ==
  ASSUME NEW T \in SUBSET Nat, T # {}
  PROVE  \E m \in T : \A k \in T : m <= k
  <1> DEFINE R == OpToRel(<, Nat)
  <1>1. IsWellFoundedOn(R, Nat)
    BY NatLessThanWellFounded
  <1>2. R = {ss \in Nat \X Nat : ss[1] < ss[2]}
    BY DEF OpToRel
  <1> HIDE DEF R
  <1>3. PICK m \in T : \A k \in T : ~(<<k, m>> \in R)
    BY <1>1, WFMin
  <1>4. \A k \in T : ~(k < m)
    BY <1>2, <1>3
  <1>5. QED
    BY <1>4

\* A length measured in whole units, rounded up, is not shorter.
LEMMA RoundedUp ==
  ASSUME NEW x \in Int, NEW unit \in Nat \ {0}
  PROVE  /\ (x + unit - 1) \div unit \in Int
         /\ ((x + unit - 1) \div unit) * unit >= x
  <1> DEFINE y == x + unit - 1
             q == y \div unit
  <1>1. y \in Int /\ unit > 0
    OBVIOUS
  <1> HIDE DEF y
  <1>2. q \in Int /\ y = unit * q + (y % unit) /\ y % unit \in 0..(unit - 1)
    BY <1>1
  <1> HIDE DEF q
  <1>3. unit * q = q * unit /\ q * unit \in Int
    BY <1>2
  <1>4. q * unit >= y - (unit - 1)
    BY <1>1, <1>2, <1>3
  <1>5. QED
    BY <1>2, <1>4 DEF y, q

-----------------------------------------------------------------------------
(* Whom a request is charged to.                                             *)

\* Whatever a client claims and whichever proxies its request passes, it is charged to
\* the client (_forwarded_client).
LEMMA ChargedToItself ==
  ASSUME NEW client \in Clients
  PROVE  Charged[client] \subseteq {client}
  <1>1. SUFFICES ASSUME NEW claim \in Claims, NEW path \in Paths
                 PROVE  Caller(Peer(client, path), Header(client, claim, path)) = client
    BY DEF Charged
  <1>2. CASE path = <<>>
    <2>1. Peer(client, path) = client /\ client \notin Proxies
      BY <1>2, ThrottlerAssumption DEF Peer
    <2>2. QED
      BY <2>1 DEF Caller
  <1>3. CASE path # <<>>
    <2>1. claim \in Seq(Clients \union Proxies \union {Garbage}) /\ path \in Seq(Proxies)
      BY ThrottlerAssumption
    <2>2. Len(path) \in Nat \ {0} /\ Last(path) \in Proxies
      BY <1>3, <2>1 DEF Last
    <2> DEFINE h == Header(client, claim, path)
               p == Len(claim) + 1
               untrusted == {i \in 1..Len(h) : h[i] \notin Proxies}
    <2>3. Front(path) \in Seq(Proxies)
      BY <2>1, <2>2 DEF Front
    <2>4. h = claim \o <<client>> \o Front(path)
      BY <1>3 DEF Header
    <2>5. /\ p \in 1..Len(h) /\ h[p] = client
          /\ \A i \in 1..Len(h) : i > p => h[i] \in Proxies
      <3> DEFINE tail == Front(path)
      <3>1. tail \in Seq(Proxies) /\ h = claim \o <<client>> \o tail
        BY <2>3, <2>4
      <3> HIDE DEF h, tail
      <3>2. /\ Len(h) = Len(claim) + 1 + Len(tail)
            /\ h[p] = client
            /\ \A i \in 1..Len(h) : i > p => h[i] = tail[i - p]
        BY <2>1, <3>1
      <3>3. ASSUME NEW i \in 1..Len(h), i > p
            PROVE  h[i] \in Proxies
        BY <2>1, <3>1, <3>2, <3>3
      <3>4. QED
        BY <2>1, <3>1, <3>2, <3>3
    <2> HIDE DEF h, p
    <2>6. client \notin Proxies /\ client # Garbage /\ client # None
      BY ThrottlerAssumption DEF Callers
    <2>7. p \in untrusted /\ \A j \in untrusted : p >= j
      BY <2>5, <2>6
    <2>8. (CHOOSE i \in untrusted : \A j \in untrusted : i >= j) = p
      BY <2>7
    <2>9. Forwarded(h) = client
      BY <2>5, <2>6, <2>7, <2>8 DEF Forwarded
    <2>10. Peer(client, path) \in Proxies
      BY <1>3, <2>2 DEF Peer
    <2>11. QED
      BY <2>6, <2>9, <2>10 DEF Caller, h
  <1>4. QED
    BY <1>2, <1>3

-----------------------------------------------------------------------------
(* A window beside all it ever admitted.                                     *)

\* A window holds the last of what was admitted, no more of it than the limit, and all
\* else has left it; nothing admitted was a limit of requests less than a span before.
Sound(w, l, limit, span, now) ==
    /\ Len(w) <= limit /\ Len(w) <= Len(l)
    /\ \A i \in 1..Len(w) : w[i] = l[Len(l) - Len(w) + i]
    /\ \A i \in 1..Len(l) : i <= Len(l) - Len(w) => l[i] + span <= now
    /\ \A i \in 1..Len(l) : l[i] <= now
    /\ \A i, j \in 1..Len(l) : i < j => l[i] <= l[j]
    /\ \A i, j \in 1..Len(l) : j = i + limit => l[j] - l[i] >= span

LEMMA ElementOf ==
  ASSUME NEW S, NEW s \in Seq(S), NEW i \in 1..Len(s)
  PROVE  s[i] \in S
  OBVIOUS

LEMMA NothingYet ==
  ASSUME NEW limit \in Nat, NEW span \in Nat, NEW now \in Nat
  PROVE  Sound(<<>>, <<>>, limit, span, now)
  BY DEF Sound

LEMMA LaterSound ==
  ASSUME NEW w \in Seq(Nat), NEW l \in Seq(Nat), NEW limit \in Nat, NEW span \in Nat,
         NEW now \in Nat, NEW later \in Nat, now <= later, Sound(w, l, limit, span, now)
  PROVE  Sound(w, l, limit, span, later)
  BY DEF Sound

\* What Fresh leaves of a window: it stops somewhere, and what it leaves begins inside.
LEMMA FreshCuts ==
  ASSUME NEW w \in Seq(Nat), NEW cutoff \in Int
  PROVE  \E n \in 0..Len(w) :
            /\ Fresh(w, cutoff) = SubSeq(w, n + 1, Len(w))
            /\ \A j \in 1..n : w[j] <= cutoff
            /\ n < Len(w) => w[n + 1] > cutoff
  <1> DEFINE Stops(n) ==
                 /\ \A j \in 1..n : w[j] <= cutoff
                 /\ n < Len(w) => w[n + 1] > cutoff
             T == {i \in 0..Len(w) : i < Len(w) => w[i + 1] > cutoff}
  <1>1. T \subseteq Nat /\ Len(w) \in T
    OBVIOUS
  <1>2. PICK n \in T : \A k \in T : n <= k
    BY <1>1, LeastNumber
  <1>3. n \in 0..Len(w) /\ (n < Len(w) => w[n + 1] > cutoff)
    BY <1>2
  <1>4. ASSUME NEW j \in 1..n
        PROVE  w[j] <= cutoff
    <2>0. j - 1 \notin T
      <3> HIDE DEF T
      <3>1. n \in Nat /\ j - 1 \in Int /\ ~(n <= j - 1)
        BY <1>3
      <3>2. QED
        BY <1>2, <3>1
    <2>1. j - 1 \in 0..Len(w) /\ j - 1 < Len(w) /\ (j - 1) + 1 = j /\ j \in 1..Len(w)
      BY <1>3
    <2>2. ~(w[j] > cutoff) /\ w[j] \in Nat
      BY <2>0, <2>1
    <2>3. QED
      BY <2>2
  <1>5. Stops(n)
    BY <1>3, <1>4
  <1> DEFINE m == CHOOSE i \in 0..Len(w) : Stops(i)
  <1>6. m \in 0..Len(w) /\ Stops(m)
    BY <1>3, <1>5
  <1>7. Fresh(w, cutoff) = SubSeq(w, m + 1, Len(w))
    BY DEF Fresh
  <1> HIDE DEF m
  <1>8. QED
    BY <1>6, <1>7

LEMMA WithoutFront ==
  ASSUME NEW w \in Seq(Nat), NEW n \in 0..Len(w)
  PROVE  LET kept == SubSeq(w, n + 1, Len(w))
         IN  /\ kept \in Seq(Nat) /\ Len(kept) = Len(w) - n /\ Len(w) \in Nat
             /\ \A i \in 1..Len(kept) : kept[i] = w[n + i]
  OBVIOUS

\* An entry a span old, whichever side of the comparison the span is on.
LEMMA Aged ==
  ASSUME NEW t \in Nat, NEW span \in Nat, NEW now \in Nat, t <= now - span
  PROVE  t + span <= now
  OBVIOUS

\* Counting a request keeps a window sound, admitted or refused.
LEMMA CutSound ==
  ASSUME NEW w \in Seq(Nat), NEW l \in Seq(Nat), NEW limit \in Nat, NEW span \in Nat,
         NEW now \in Nat, Sound(w, l, limit, span, now),
         NEW n \in 0..Len(w), \A j \in 1..n : w[j] <= now - span,
         NEW kept \in Seq(Nat), Len(kept) = Len(w) - n,
         \A i \in 1..Len(kept) : kept[i] = w[n + i]
  PROVE  Sound(kept, l, limit, span, now)
  <1>1. /\ Len(kept) = Len(w) - n
        /\ \A i \in 1..Len(kept) : kept[i] = w[n + i]
    OBVIOUS
  <1>2. PICK d \in Nat : Len(l) = d + Len(w)
    <2>1. Len(l) \in Nat /\ Len(w) \in Nat /\ Len(w) <= Len(l)
      BY DEF Sound
    <2>2. Len(l) - Len(w) \in Nat /\ Len(l) = (Len(l) - Len(w)) + Len(w)
      BY <2>1
    <2>3. QED
      BY <2>2
  <1>3. /\ Len(l) - Len(w) = d /\ Len(l) - Len(kept) = d + n
        /\ Len(w) \in Nat /\ n \in Nat /\ Len(kept) \in Nat /\ Len(kept) <= Len(w)
        /\ n <= Len(w)
    <2>1. Len(w) \in Nat /\ n \in Nat /\ n <= Len(w)
      OBVIOUS
    <2>2. Len(kept) = Len(w) - n
      BY <1>1
    <2>3. QED
      BY <1>2, <2>1, <2>2
  <1>4. \A i \in 1..Len(w) : w[i] = l[d + i]
    BY <1>3 DEF Sound
  <1>5. \A i \in 1..Len(kept) : kept[i] = l[(d + n) + i]
    <2>1. ASSUME NEW i \in 1..Len(kept)
          PROVE  kept[i] = l[(d + n) + i]
      <3>1. n + i \in 1..Len(w) /\ d + (n + i) = (d + n) + i
        BY <1>1, <1>3
      <3>2. QED
        BY <1>1, <1>4, <3>1
    <2>2. QED
      BY <2>1
  <1>6. ASSUME NEW i \in 1..Len(l), i <= d + n
        PROVE  l[i] + span <= now
    <2>1. CASE i <= d
      BY <2>1, <1>3 DEF Sound
    <2>2. CASE i > d
      <3>1. PICK j \in 1..n : i = d + j
        <4>1. i - d \in 1..n /\ i = d + (i - d)
          BY <1>3, <1>6, <2>2
        <4>2. QED
          BY <4>1
      <3>2. j \in 1..Len(w)
        BY <1>3, <3>1
      <3>3. w[j] \in Nat /\ w[j] = l[i]
        <4>1. w[j] \in Nat
          BY <3>2, ElementOf, Zenon
        <4>2. w[j] = l[d + j]
          BY <1>4, <3>2
        <4>3. QED
          BY <3>1, <4>1, <4>2, Zenon
      <3>4. w[j] <= now - span
        BY <3>1, Zenon
      <3>5. l[i] \in Nat /\ l[i] <= now - span
        BY <3>3, <3>4, Zenon
      <3>6. QED
        BY <3>5, Aged
    <2>3. QED
      BY <2>1, <2>2, <1>3
  <1>7. Len(kept) <= limit /\ Len(kept) <= Len(l)
    <2>1. Len(w) <= limit /\ Len(l) \in Nat
      BY DEF Sound
    <2>2. QED
      BY <1>2, <1>3, <2>1
  <1>8. /\ \A i \in 1..Len(l) : l[i] <= now
        /\ \A i, j \in 1..Len(l) : i < j => l[i] <= l[j]
        /\ \A i, j \in 1..Len(l) : j = i + limit => l[j] - l[i] >= span
    BY DEF Sound
  <1>9. QED
    BY <1>1, <1>3, <1>5, <1>6, <1>7, <1>8 DEF Sound

LEMMA AdmittedSound ==
  ASSUME NEW w \in Seq(Nat), NEW l \in Seq(Nat), NEW limit \in Nat, NEW span \in Nat,
         NEW now \in Nat, Sound(w, l, limit, span, now), Len(w) + 1 <= limit
  PROVE  Sound(Append(w, now), Append(l, now), limit, span, now)
  <1> DEFINE w1 == Append(w, now)
             l1 == Append(l, now)
  <1>1. /\ w1 \in Seq(Nat) /\ Len(w1) = Len(w) + 1 /\ w1[Len(w) + 1] = now
        /\ \A i \in 1..Len(w) : w1[i] = w[i]
    OBVIOUS
  <1>2. /\ l1 \in Seq(Nat) /\ Len(l1) = Len(l) + 1 /\ l1[Len(l) + 1] = now
        /\ \A i \in 1..Len(l) : l1[i] = l[i] /\ l[i] \in Nat
    OBVIOUS
  <1>3. Len(w) \in Nat /\ Len(l) \in Nat
    OBVIOUS
  <1> HIDE DEF w1, l1
  <1>4. PICK d \in Nat : Len(l) = d + Len(w)
    <2>1. Len(w) <= Len(l)
      BY DEF Sound
    <2>2. Len(l) - Len(w) \in Nat /\ Len(l) = (Len(l) - Len(w)) + Len(w)
      BY <1>3, <2>1
    <2>3. QED
      BY <2>2
  <1>5. Len(l) - Len(w) = d /\ Len(l1) - Len(w1) = d
    BY <1>1, <1>2, <1>3, <1>4
  <1>6. /\ \A i \in 1..Len(w) : w[i] = l[d + i]
        /\ \A i \in 1..Len(l) : i <= d => l[i] + span <= now
        /\ \A i \in 1..Len(l) : l[i] <= now
        /\ \A i, j \in 1..Len(l) : i < j => l[i] <= l[j]
        /\ \A i, j \in 1..Len(l) : j = i + limit => l[j] - l[i] >= span
    BY <1>5 DEF Sound
  <1>7. Len(w1) <= limit /\ Len(w1) <= Len(l1)
    BY <1>1, <1>2, <1>3, <1>4
  <1>8. ASSUME NEW i \in 1..Len(w1)
        PROVE  w1[i] = l1[d + i]
    <2>1. CASE i <= Len(w)
      <3>1. i \in 1..Len(w) /\ d + i \in 1..Len(l)
        BY <1>1, <1>3, <1>4, <2>1
      <3>2. QED
        BY <1>1, <1>2, <1>6, <3>1
    <2>2. CASE i = Len(w) + 1
      <3>1. d + i = Len(l) + 1
        BY <1>3, <1>4, <2>2
      <3>2. QED
        BY <1>1, <1>2, <2>2, <3>1
    <2>3. QED
      BY <1>1, <1>3, <2>1, <2>2
  <1>9. ASSUME NEW i \in 1..Len(l1), i <= d
        PROVE  l1[i] + span <= now
    <2>1. i \in 1..Len(l)
      BY <1>2, <1>3, <1>4, <1>9
    <2>2. QED
      BY <1>2, <1>6, <1>9, <2>1
  <1>10. ASSUME NEW i \in 1..Len(l1)
         PROVE  l1[i] <= now /\ (i \in 1..Len(l) \/ i = Len(l) + 1)
    <2>1. CASE i \in 1..Len(l)
      BY <1>2, <1>6, <2>1
    <2>2. CASE i = Len(l) + 1
      BY <1>2, <2>2
    <2>3. QED
      BY <1>2, <1>3, <2>1, <2>2
  <1>11. ASSUME NEW i \in 1..Len(l1), NEW j \in 1..Len(l1), i < j
         PROVE  l1[i] <= l1[j]
    <2>1. CASE j \in 1..Len(l)
      <3>1. i \in 1..Len(l)
        BY <1>3, <1>11, <2>1
      <3>2. QED
        BY <1>2, <1>6, <1>11, <2>1, <3>1
    <2>2. CASE j = Len(l) + 1
      BY <1>2, <1>10, <2>2
    <2>3. QED
      BY <1>10, <2>1, <2>2
  <1>12. ASSUME NEW i \in 1..Len(l1), NEW j \in 1..Len(l1), j = i + limit
         PROVE  l1[j] - l1[i] >= span
    <2>1. CASE j \in 1..Len(l)
      <3>1. i \in 1..Len(l)
        BY <1>3, <1>12, <2>1
      <3>2. QED
        BY <1>2, <1>6, <1>12, <2>1, <3>1
    <2>2. CASE j = Len(l) + 1
      <3>1. i \in 1..Len(l) /\ i <= d
        BY <1>3, <1>4, <1>12, <2>2
      <3>2. l[i] + span <= now /\ l[i] \in Nat /\ l1[i] = l[i] /\ l1[j] = now
        BY <1>2, <1>6, <2>2, <3>1
      <3>3. QED
        BY <3>2
    <2>3. QED
      BY <1>10, <2>1, <2>2
  <1>13. QED
    <2>1. Sound(w1, l1, limit, span, now)
      BY <1>5, <1>7, <1>8, <1>9, <1>10, <1>11, <1>12 DEF Sound
    <2>2. QED
      BY <2>1 DEF w1, l1

LEMMA CountedSound ==
  ASSUME NEW w \in Seq(Nat), NEW l \in Seq(Nat), NEW limit \in Nat, NEW span \in Nat,
         clock \in Nat, Sound(w, l, limit, span, clock), NEW kept, kept = Fresh(w, clock - span)
  PROVE  /\ kept \in Seq(Nat)
         /\ Counted(kept, limit) \in Seq(Nat)
         /\ Sound(Counted(kept, limit),
                  IF Len(kept) + 1 <= limit THEN Append(l, clock) ELSE l, limit, span, clock)
         /\ ~(Len(kept) + 1 <= limit) =>
               /\ Counted(kept, limit) = w /\ Len(w) = limit
               /\ limit > 0 => w[1] > clock - span
  <1>0. clock - span \in Int
    OBVIOUS
  <1>1. PICK n \in 0..Len(w) :
          /\ kept = SubSeq(w, n + 1, Len(w))
          /\ \A j \in 1..n : w[j] <= clock - span
          /\ n < Len(w) => w[n + 1] > clock - span
    BY <1>0, FreshCuts
  <1>2. /\ kept \in Seq(Nat) /\ Len(kept) = Len(w) - n /\ Len(w) \in Nat
        /\ \A i \in 1..Len(kept) : kept[i] = w[n + i]
    BY <1>1, WithoutFront
  <1>3. Sound(kept, l, limit, span, clock)
    BY <1>1, <1>2, CutSound
  <1>4. CASE Len(kept) + 1 <= limit
    <2>1. Counted(kept, limit) = Append(kept, clock)
      BY <1>2, <1>4 DEF Counted
    <2>2. Append(kept, clock) \in Seq(Nat)
      BY <1>2
    <2>3. Sound(Append(kept, clock), Append(l, clock), limit, span, clock)
      BY <1>2, <1>3, <1>4, AdmittedSound
    <2>4. QED
      BY <1>2, <1>4, <2>1, <2>2, <2>3
  <1>5. CASE ~(Len(kept) + 1 <= limit)
    <2>1. Counted(kept, limit) = kept
      BY <1>2, <1>5 DEF Counted
    <2>2. Len(w) <= limit
      BY DEF Sound
    <2>3. n = 0 /\ Len(w) = limit
      BY <1>2, <1>5, <2>2
    <2>4. kept = w
      BY <1>1, <2>3
    <2>5. limit > 0 => w[1] > clock - span
      BY <1>1, <2>3
    <2>6. QED
      BY <1>2, <1>3, <1>5, <2>1, <2>3, <2>4, <2>5
  <1>6. QED
    BY <1>4, <1>5


-----------------------------------------------------------------------------
(* The invariant.                                                            *)

\* Every route with a budget of its own is served by a function of its own.
BudgetsOfTheirOwn ==
    \A route, other \in OwnBudget : HandlerOf[route] = HandlerOf[other] => route = other

\* The key an allowance is counted under.
KeyOf(a) == Key(a[1], a[2])

StateOK ==
    /\ clock \in Nat
    /\ window \in [Keys -> Seq(Nat)]
    /\ log \in [Allowances -> Seq(Nat)]
    /\ told \in [Allowances -> Int]

WindowsOK ==
    \A a \in Allowances : Sound(window[KeyOf(a)], log[a], Limit(a[2]), Span(a[2]), clock)

\* A client that was told to come back was refused for what is still in its window then,
\* unless its key was evicted since.
ToldOK ==
    \A a \in Allowances :
        told[a] >= 0 => /\ Limit(a[2]) > 0
                        /\ \/ window[KeyOf(a)] = <<>>
                           \/ window[KeyOf(a)][1] + Span(a[2]) <= told[a]

IInv == StateOK /\ WindowsOK /\ ToldOK

LEMMA BudgetOK ==
  ASSUME NEW a \in Allowances
  PROVE  Limit(a[2]) \in Nat /\ Span(a[2]) \in Nat \ {0} /\ KeyOf(a) \in Keys
  <1>1. /\ a[1] \in Clients /\ a[2] \in OwnBudget \union {None}
        /\ None \notin OwnBudget
    BY ThrottlerAssumption DEF Allowances
  <1>2. Budget[a[2]] \in [limit : Nat, ttl : Nat \ {0}]
    BY <1>1, ThrottlerAssumption
  <1>3. Budget[a[2]].limit \in Nat /\ Budget[a[2]].ttl \in Nat \ {0}
    BY <1>2
  <1>4. TicksPerSecond \in Nat \ {0}
    BY ThrottlerAssumption
  <1>5. Budget[a[2]].ttl * TicksPerSecond \in Nat \ {0}
    BY <1>3, <1>4
  <1>6. KeyOf(a) \in Keys
    BY <1>1 DEF KeyOf, Key, Keys, Callers, Handlers
  <1>7. QED
    BY <1>3, <1>5, <1>6 DEF Limit, Span

\* No two allowances are counted under one key.
LEMMA OneKeyEach ==
  ASSUME BudgetsOfTheirOwn, NEW a \in Allowances, NEW b \in Allowances, KeyOf(a) = KeyOf(b)
  PROVE  a = b
  <1>1. /\ a = <<a[1], a[2]>> /\ b = <<b[1], b[2]>>
        /\ a[2] \in OwnBudget \union {None} /\ b[2] \in OwnBudget \union {None}
    BY DEF Allowances
  <1>2. /\ a[1] = b[1]
        /\ (IF a[2] \in OwnBudget THEN HandlerOf[a[2]] ELSE None)
           = (IF b[2] \in OwnBudget THEN HandlerOf[b[2]] ELSE None)
    BY DEF KeyOf, Key
  <1>3. \A route \in OwnBudget : HandlerOf[route] # None
    BY ThrottlerAssumption DEF Handlers
  <1>4. a[2] = b[2]
    BY <1>1, <1>2, <1>3 DEF BudgetsOfTheirOwn
  <1>5. QED
    BY <1>1, <1>2, <1>4

LEMMA InitOK ==
  ASSUME Init
  PROVE  IInv
  <1>1. StateOK
    BY DEF Init, StateOK
  <1>2. WindowsOK
    <2>1. SUFFICES ASSUME NEW a \in Allowances
                   PROVE  Sound(window[KeyOf(a)], log[a], Limit(a[2]), Span(a[2]), clock)
      BY DEF WindowsOK
    <2>2. window[KeyOf(a)] = <<>> /\ log[a] = <<>> /\ clock = 0
      BY BudgetOK DEF Init
    <2>3. QED
      BY <2>2, BudgetOK, NothingYet
  <1>3. ToldOK
    BY DEF Init, ToldOK
  <1>4. QED
    BY <1>1, <1>2, <1>3 DEF IInv

LEMMA TickOK ==
  ASSUME IInv, Tick
  PROVE  IInv'
  <1>1. /\ clock \in Nat /\ clock' = clock + 1 /\ clock' \in Nat /\ clock <= clock'
        /\ window' = window /\ log' = log /\ told' = told
    BY DEF IInv, StateOK, Tick
  <1>2. StateOK' /\ ToldOK'
    BY <1>1 DEF IInv, StateOK, ToldOK
  <1>3. WindowsOK'
    <2>1. SUFFICES ASSUME NEW a \in Allowances
                   PROVE  Sound(window[KeyOf(a)], log[a], Limit(a[2]), Span(a[2]), clock')
      BY <1>1 DEF WindowsOK
    <2>2. window[KeyOf(a)] \in Seq(Nat) /\ log[a] \in Seq(Nat)
      BY BudgetOK DEF IInv, StateOK
    <2>3. Limit(a[2]) \in Nat /\ Span(a[2]) \in Nat
      BY BudgetOK
    <2>4. Sound(window[KeyOf(a)], log[a], Limit(a[2]), Span(a[2]), clock)
      BY DEF IInv, WindowsOK
    <2>5. QED
      BY <1>1, <2>2, <2>3, <2>4, LaterSound
  <1>4. QED
    BY <1>2, <1>3 DEF IInv

\* What an arrival does: it counts against one allowance of the client that sent it, and
\* may evict the keys of others.
Arrives(a, evicted) ==
    LET key == KeyOf(a)
        kept == Fresh(window[key], clock - Span(a[2]))
        counted == Counted(kept, Limit(a[2]))
        admitted == Len(kept) + 1 <= Limit(a[2])
        wait == Reset(counted, Span(a[2]))
    IN  /\ key \notin evicted
        /\ window' = [k \in Keys |-> IF k = key THEN counted
                                     ELSE IF k \in evicted THEN <<>> ELSE window[k]]
        /\ log' = [b \in Allowances |->
                     IF KeyOf(b) \in evicted THEN <<>>
                     ELSE IF b = a /\ admitted THEN Append(log[b], clock) ELSE log[b]]
        /\ told' = [told EXCEPT ![a] =
                      IF admitted \/ Limit(a[2]) = 0 THEN -1
                      ELSE clock + (IF wait < 1 THEN 1 ELSE wait) * TicksPerSecond]
        /\ clock' = clock

LEMMA ArriveArrives ==
  ASSUME NEW client \in Clients, NEW caller \in Charged[client], NEW route \in Routes,
         Arrive(client, caller, route)
  PROVE  \E a \in Allowances : \E evicted : Arrives(a, evicted)
  <1> DEFINE a == <<client, Allowance(route)>>
             key == Key(caller, route)
             kept == Fresh(window[key], clock - Span(a[2]))
             counted == Counted(kept, Limit(a[2]))
             evicted == ToSet(order) \ (ToSet(Recency(key, counted # <<>>)) \union {key})
  <1>1. a \in Allowances /\ a[1] = client /\ a[2] = Allowance(route)
    BY DEF Allowance, Allowances
  <1>2. caller = client
    BY ChargedToItself
  <1>3. KeyOf(a) = key
    BY <1>1, <1>2, ThrottlerAssumption DEF KeyOf, Key, Allowance
  <1>4. key \notin evicted
    OBVIOUS
  <1>5. \A b \in Allowances : b \in SpentUnder(evicted) <=> KeyOf(b) \in evicted
    BY DEF SpentUnder, KeyOf
  <1>6. /\ window' = [k \in Keys |-> IF k = key THEN counted
                                     ELSE IF k \in evicted THEN <<>> ELSE window[k]]
        /\ log' = [b \in Allowances |->
                     IF b \in SpentUnder(evicted) THEN <<>>
                     ELSE IF b = a /\ Len(kept) + 1 <= Limit(a[2])
                          THEN Append(log[b], clock) ELSE log[b]]
        /\ told' = [told EXCEPT ![a] =
                      IF Len(kept) + 1 <= Limit(a[2]) \/ Limit(a[2]) = 0 THEN -1
                      ELSE clock + (IF Reset(counted, Span(a[2])) < 1 THEN 1
                                    ELSE Reset(counted, Span(a[2]))) * TicksPerSecond]
        /\ clock' = clock
    BY DEF Arrive
  <1> HIDE DEF evicted, a, key
  <1>7. log' = [b \in Allowances |->
                     IF KeyOf(b) \in evicted THEN <<>>
                     ELSE IF b = a /\ Len(kept) + 1 <= Limit(a[2])
                          THEN Append(log[b], clock) ELSE log[b]]
    BY <1>5, <1>6
  <1>8. Arrives(a, evicted)
    BY <1>3, <1>4, <1>6, <1>7 DEF Arrives
  <1>9. QED
    BY <1>1, <1>8

\* How long a refused client is told to wait is at least what is left of its oldest request.
LEMMA WaitsLongEnough ==
  ASSUME clock \in Nat, NEW first \in Nat, NEW span \in Nat, NEW w \in Seq(Nat),
         w # <<>>, w[1] = first, clock - span < first
  PROVE  LET wait == Reset(w, span)
             told1 == clock + (IF wait < 1 THEN 1 ELSE wait) * TicksPerSecond
         IN  told1 \in Int /\ first + span <= told1
  <1> DEFINE x == span - (clock - first)
             wait == Reset(w, span)
  <1>1. TicksPerSecond \in Nat \ {0} /\ x \in Int /\ x > 0
    BY ThrottlerAssumption
  <1>2. wait = (x + TicksPerSecond - 1) \div TicksPerSecond
    BY DEF Reset
  <1>3. wait \in Int /\ wait * TicksPerSecond >= x
    BY <1>1, <1>2, RoundedUp
  <1> HIDE DEF wait
  <1>4. wait >= 1
    <2>1. SUFFICES ASSUME wait <= 0
                   PROVE  FALSE
      BY <1>3
    <2>2. wait * TicksPerSecond <= 0
      BY <1>1, <1>3, <2>1
    <2>3. QED
      BY <1>1, <1>3, <2>2
  <1>5. (IF wait < 1 THEN 1 ELSE wait) = wait
    BY <1>3, <1>4
  <1>6. wait * TicksPerSecond \in Int
    BY <1>1, <1>3
  <1>7. first + span <= clock + wait * TicksPerSecond /\ clock + wait * TicksPerSecond \in Int
    BY <1>1, <1>3, <1>6
  <1>8. QED
    BY <1>5, <1>7 DEF wait

\* What an arrival leaves of an allowance it does not count against.
LEMMA OtherOK ==
  ASSUME BudgetsOfTheirOwn, IInv, NEW a \in Allowances, NEW evicted, Arrives(a, evicted),
         NEW b \in Allowances, b # a
  PROVE  \/ window'[KeyOf(b)] = <<>> /\ log'[b] = <<>> /\ told'[b] = told[b]
         \/ window'[KeyOf(b)] = window[KeyOf(b)] /\ log'[b] = log[b] /\ told'[b] = told[b]
  <1>1. KeyOf(b) # KeyOf(a) /\ KeyOf(b) \in Keys
    BY OneKeyEach, BudgetOK
  <1>2. told'[b] = told[b]
    BY DEF Arrives, IInv, StateOK
  <1>3. window'[KeyOf(b)] = IF KeyOf(b) \in evicted THEN <<>> ELSE window[KeyOf(b)]
    BY <1>1 DEF Arrives
  <1>4. log'[b] = IF KeyOf(b) \in evicted THEN <<>> ELSE log[b]
    BY DEF Arrives
  <1>5. QED
    BY <1>2, <1>3, <1>4

\* What an arrival leaves of the allowance it counts against.
LEMMA ArrivedOK ==
  ASSUME IInv, NEW a \in Allowances, NEW evicted, Arrives(a, evicted)
  PROVE  /\ window'[KeyOf(a)] \in Seq(Nat) /\ log'[a] \in Seq(Nat) /\ told'[a] \in Int
         /\ Sound(window'[KeyOf(a)], log'[a], Limit(a[2]), Span(a[2]), clock)
         /\ told'[a] >= 0 =>
               /\ Limit(a[2]) > 0 /\ window'[KeyOf(a)] = window[KeyOf(a)]
               /\ Len(window[KeyOf(a)]) = Limit(a[2])
               /\ window[KeyOf(a)][1] > clock - Span(a[2])
               /\ window[KeyOf(a)][1] + Span(a[2]) <= told'[a]
  <1> DEFINE w == window[KeyOf(a)]
             l == log[a]
             limit == Limit(a[2])
             span == Span(a[2])
             kept == Fresh(w, clock - span)
             counted == Counted(kept, limit)
  <1>1. /\ limit \in Nat /\ span \in Nat /\ span > 0 /\ KeyOf(a) \in Keys
        /\ clock \in Nat /\ w \in Seq(Nat) /\ l \in Seq(Nat)
        /\ Sound(w, l, limit, span, clock)
    BY BudgetOK DEF IInv, StateOK, WindowsOK
  <1>2. /\ window'[KeyOf(a)] = counted
        /\ log'[a] = IF Len(kept) + 1 <= limit THEN Append(l, clock) ELSE l
        /\ told'[a] = IF Len(kept) + 1 <= limit \/ limit = 0 THEN -1
                      ELSE clock + (IF Reset(counted, span) < 1 THEN 1
                                    ELSE Reset(counted, span)) * TicksPerSecond
    BY <1>1 DEF Arrives, IInv, StateOK
  <1> HIDE DEF w, l, limit, span, kept
  <1>3. /\ kept \in Seq(Nat)
        /\ counted \in Seq(Nat)
        /\ Sound(counted, IF Len(kept) + 1 <= limit THEN Append(l, clock) ELSE l,
                 limit, span, clock)
        /\ ~(Len(kept) + 1 <= limit) => /\ counted = w /\ Len(w) = limit
                                        /\ limit > 0 => w[1] > clock - span
    <2>1. kept = Fresh(w, clock - span)
      BY DEF kept
    <2>2. QED
      BY <1>1, <2>1, CountedSound
  <1> HIDE DEF counted
  <1>4. log'[a] \in Seq(Nat)
    BY <1>1, <1>2
  <1>5. CASE Len(kept) + 1 <= limit \/ limit = 0
    <2>1. told'[a] = -1
      BY <1>2, <1>5
    <2>2. QED
      BY <1>2, <1>3, <1>4, <2>1 DEF w, l, limit, span
  <1>6. CASE ~(Len(kept) + 1 <= limit) /\ limit # 0
    <2>1. /\ limit > 0 /\ counted = w /\ Len(w) = limit
          /\ w[1] > clock - span
      BY <1>1, <1>3, <1>6
    <2>2. w # <<>> /\ w[1] \in Nat
      BY <1>1, <2>1
    <2>3. /\ told'[a] = clock + (IF Reset(w, span) < 1 THEN 1
                                 ELSE Reset(w, span)) * TicksPerSecond
      BY <1>2, <1>6, <2>1
    <2>4. clock - span < w[1]
      BY <1>1, <2>1, <2>2
    <2>5. told'[a] \in Int /\ w[1] + span <= told'[a]
      BY <1>1, <2>2, <2>3, <2>4, WaitsLongEnough
    <2>6. QED
      BY <1>2, <1>3, <1>4, <2>1, <2>5 DEF w, l, limit, span
  <1>7. QED
    BY <1>5, <1>6

LEMMA ArriveOK ==
  ASSUME BudgetsOfTheirOwn, IInv, NEW a \in Allowances, NEW evicted, Arrives(a, evicted)
  PROVE  IInv'
  <1>1. StateOK /\ WindowsOK /\ ToldOK
    BY DEF IInv
  <1>2. clock' = clock /\ clock \in Nat
    BY <1>1 DEF Arrives, StateOK
  <1>3. /\ DOMAIN window' = Keys /\ window' = [k \in Keys |-> window'[k]]
        /\ log' = [b \in Allowances |-> log'[b]]
        /\ told' = [b \in Allowances |-> told'[b]]
    BY <1>1 DEF Arrives, StateOK
  <1>4. \A k \in Keys : window'[k] \in Seq(Nat)
    <2>1. ASSUME NEW k \in Keys, k # KeyOf(a)
          PROVE  window'[k] \in Seq(Nat)
      <3>1. window'[k] = IF k \in evicted THEN <<>> ELSE window[k]
        BY <2>1 DEF Arrives
      <3>2. window[k] \in Seq(Nat) /\ <<>> \in Seq(Nat)
        BY <1>1 DEF StateOK
      <3>3. QED
        BY <3>1, <3>2
    <2>2. QED
      BY <2>1, ArrivedOK
  <1>5. \A b \in Allowances : log'[b] \in Seq(Nat) /\ told'[b] \in Int
    <2>1. ASSUME NEW b \in Allowances, b # a
          PROVE  log'[b] \in Seq(Nat) /\ told'[b] \in Int
      <3>1. /\ log'[b] = <<>> \/ log'[b] = log[b]
            /\ told'[b] = told[b]
        BY <2>1, OtherOK
      <3>2. log[b] \in Seq(Nat) /\ <<>> \in Seq(Nat) /\ told[b] \in Int
        BY <1>1 DEF StateOK
      <3>3. QED
        BY <3>1, <3>2
    <2>2. QED
      BY <2>1, ArrivedOK
  <1>6. StateOK'
    BY <1>2, <1>3, <1>4, <1>5 DEF StateOK
  <1>7. WindowsOK'
    <2>1. SUFFICES ASSUME NEW b \in Allowances
                   PROVE  Sound(window'[KeyOf(b)], log'[b], Limit(b[2]), Span(b[2]), clock)
      BY <1>2 DEF WindowsOK
    <2>2. CASE b = a
      BY <2>2, ArrivedOK
    <2>3. CASE b # a
      <3>1. Sound(window[KeyOf(b)], log[b], Limit(b[2]), Span(b[2]), clock)
        BY <1>1 DEF WindowsOK
      <3>2. Sound(<<>>, <<>>, Limit(b[2]), Span(b[2]), clock)
        BY <1>2, BudgetOK, NothingYet
      <3>3. QED
        BY <2>3, <3>1, <3>2, OtherOK
    <2>4. QED
      BY <2>2, <2>3
  <1>8. ToldOK'
    <2>1. SUFFICES ASSUME NEW b \in Allowances, told'[b] >= 0
                   PROVE  /\ Limit(b[2]) > 0
                          /\ \/ window'[KeyOf(b)] = <<>>
                             \/ window'[KeyOf(b)][1] + Span(b[2]) <= told'[b]
      BY DEF ToldOK
    <2>2. CASE b = a
      BY <2>1, <2>2, ArrivedOK
    <2>3. CASE b # a
      BY <1>1, <2>1, <2>3, OtherOK DEF ToldOK
    <2>4. QED
      BY <2>2, <2>3
  <1>9. QED
    BY <1>6, <1>7, <1>8 DEF IInv

LEMMA NextOK ==
  ASSUME BudgetsOfTheirOwn, IInv, [Next]_vars
  PROVE  IInv'
  <1>1. CASE Tick
    BY <1>1, TickOK
  <1>2. CASE \E client \in Clients : \E caller \in Charged[client], route \in Routes :
                Arrive(client, caller, route)
    BY <1>2, ArriveArrives, ArriveOK
  <1>3. CASE UNCHANGED vars
    BY <1>3 DEF vars, IInv, StateOK, WindowsOK, ToldOK
  <1>4. QED
    BY <1>1, <1>2, <1>3 DEF Next

-----------------------------------------------------------------------------
(* The theorems.                                                             *)

\* Every window holds the last of what its allowance was admitted for, and all that left
\* it is a span old (InMemoryThrottlerStorage.count_request).
THEOREM Invariance == BudgetsOfTheirOwn => (Spec => []IInv)
  <1> SUFFICES ASSUME BudgetsOfTheirOwn
               PROVE  Spec => []IInv
    OBVIOUS
  <1>1. Init => IInv
    BY InitOK
  <1>2. IInv /\ [Next]_vars => IInv'
    BY NextOK
  <1>3. QED
    BY <1>1, <1>2, PTL DEF Spec

\* Nobody is admitted more often than the limit in any span of the declared length,
\* wherever it begins: whatever forwarding headers a client makes up, it spends its own
\* allowance, and a window cut at its front forgets nothing that still counts
\* (_forwarded_client, InMemoryThrottlerStorage.count_request).
THEOREM NeverOverTheLimit == BudgetsOfTheirOwn => (Spec => []LimitHolds)
  <1> SUFFICES ASSUME BudgetsOfTheirOwn
               PROVE  Spec => []LimitHolds
    OBVIOUS
  <1>1. IInv => LimitHolds
    <2>1. SUFFICES ASSUME IInv, NEW a \in Allowances,
                          NEW i \in DOMAIN log[a], NEW j \in DOMAIN log[a],
                          j = i + Limit(a[2])
                   PROVE  log[a][j] - log[a][i] >= Span(a[2])
      BY DEF LimitHolds
    <2>2. Sound(window[KeyOf(a)], log[a], Limit(a[2]), Span(a[2]), clock)
      BY <2>1 DEF IInv, WindowsOK
    <2>3. DOMAIN log[a] = 1..Len(log[a])
      BY <2>1 DEF IInv, StateOK
    <2>4. QED
      BY <2>1, <2>2, <2>3 DEF Sound
  <1>2. QED
    BY <1>1, Invariance, PTL

\* A window that is full of requests no older than a span: so many were spent.
LEMMA FullIsSpent ==
  ASSUME IInv, NEW a \in Allowances,
         Len(window[KeyOf(a)]) = Limit(a[2]), Limit(a[2]) > 0,
         window[KeyOf(a)][1] > clock - Span(a[2])
  PROVE  Spent(a) >= Limit(a[2])
  <1> DEFINE l == log[a]
             limit == Limit(a[2])
             cutoff == clock - Span(a[2])
             w == window[KeyOf(a)]
             inside == {i \in DOMAIN l : l[i] > cutoff}
             last == (Len(l) - limit + 1)..Len(l)
  <1>1. /\ limit \in Nat /\ limit > 0 /\ Span(a[2]) \in Nat /\ clock \in Nat
        /\ l \in Seq(Nat) /\ w \in Seq(Nat) /\ Len(w) = limit
        /\ Sound(w, l, limit, Span(a[2]), clock)
    BY BudgetOK DEF IInv, StateOK, WindowsOK
  <1>2. cutoff \in Int /\ w[1] > cutoff
    BY <1>1
  <1> HIDE DEF l, w, limit, cutoff
  <1>3. limit <= Len(l) /\ Len(l) \in Nat /\ DOMAIN l = 1..Len(l)
    BY <1>1 DEF Sound
  <1> DEFINE first == Len(l) - limit + 1
  <1>4. first \in 1..Len(l) /\ l[first] > cutoff
    <2>1. first \in 1..Len(l) /\ 1 \in 1..Len(w)
      <3>1. limit \in Nat /\ limit > 0 /\ limit <= Len(l) /\ Len(l) \in Nat /\ Len(w) = limit
        BY <1>1, <1>3
      <3>2. QED
        BY <3>1
    <2>2. w[1] = l[Len(l) - Len(w) + 1]
      BY <1>1, <2>1 DEF Sound
    <2>3. QED
      BY <1>1, <1>2, <2>1, <2>2
  <1>5. last \subseteq inside
    <2>1. SUFFICES ASSUME NEW i \in last
                   PROVE  i \in 1..Len(l) /\ l[i] > cutoff
      BY <1>3
    <2>6. limit \in Nat /\ limit > 0 /\ limit <= Len(l) /\ Len(l) \in Nat
      BY <1>1, <1>3
    <2>2. i \in 1..Len(l) /\ (i = first \/ first < i)
      BY <2>6
    <2>3. l[first] <= l[i] \/ i = first
      BY <1>1, <1>4, <2>2 DEF Sound
    <2>4. l[first] \in Nat /\ l[i] \in Nat
      BY <1>1, <1>4, <2>2, ElementOf, Zenon
    <2>5. QED
      BY <1>2, <1>4, <2>2, <2>3, <2>4
  <1>6. IsFiniteSet(inside)
    <2>1. IsFiniteSet(1..Len(l)) /\ inside \in SUBSET (1..Len(l))
      BY <1>3, FS_Interval
    <2>2. QED
      BY <2>1, FS_Subset
  <1>7. Cardinality(last) = limit
    <2>1. Len(l) - limit + 1 \in Int /\ Len(l) \in Int /\ ~(Len(l) - limit + 1 > Len(l))
      BY <1>1, <1>3
    <2>2. Cardinality(last) = Len(l) - (Len(l) - limit + 1) + 1
      BY <2>1, FS_Interval
    <2>3. QED
      BY <1>1, <1>3, <2>2
  <1>8. Cardinality(last) <= Cardinality(inside)
    BY <1>5, <1>6, FS_Subset
  <1>9. Cardinality(inside) \in Nat
    BY <1>6, FS_CardinalityType
  <1>10. Spent(a) = Cardinality(inside)
    BY DEF Spent, l, cutoff
  <1>11. Spent(a) >= limit
    BY <1>1, <1>7, <1>8, <1>9, <1>10
  <1>12. QED
    BY <1>11 DEF limit

\* Nobody is refused before the whole limit is spent in the span that ends now, nor when
\* coming back at the time Retry-After named (count_request, ThrottlerGuard.can_activate).
THEOREM RefusedWhenSpent == BudgetsOfTheirOwn => (Spec => RefusedOnlyWhenSpent)
  <1> SUFFICES ASSUME BudgetsOfTheirOwn
               PROVE  Spec => RefusedOnlyWhenSpent
    OBVIOUS
  <1> DEFINE Refused(a) == told'[a] # told[a] /\ told'[a] >= 0
             Justly(a) == /\ Spent(a) >= Limit(a[2])
                          /\ told[a] >= 0 => clock < told[a]
  <1>1. ASSUME IInv, [Next]_vars, NEW a \in Allowances, Refused(a)
        PROVE  Justly(a)
    <2>1. PICK b \in Allowances : \E evicted : Arrives(b, evicted)
      <3>1. CASE Tick \/ UNCHANGED vars
        BY <3>1, <1>1 DEF Tick, vars
      <3>2. CASE \E client \in Clients : \E caller \in Charged[client], route \in Routes :
                    Arrive(client, caller, route)
        BY <3>2, ArriveArrives
      <3>3. QED
        BY <1>1, <3>1, <3>2 DEF Next
    <2>2. b = a
      BY <1>1, <2>1, OtherOK
    <2> DEFINE w == window[KeyOf(a)]
    <2>3. /\ Limit(a[2]) > 0 /\ Len(w) = Limit(a[2])
          /\ w[1] > clock - Span(a[2])
      BY <1>1, <2>1, <2>2, ArrivedOK
    <2>4. Spent(a) >= Limit(a[2])
      BY <1>1, <2>3, FullIsSpent
    <2>5. ASSUME told[a] >= 0
          PROVE  clock < told[a]
      <3>1. /\ Limit(a[2]) \in Nat /\ Span(a[2]) \in Nat /\ KeyOf(a) \in Keys
        BY BudgetOK
      <3>2. clock \in Nat /\ w \in Seq(Nat) /\ told[a] \in Int
        BY <1>1, <3>1 DEF IInv, StateOK
      <3>3. w = <<>> \/ w[1] + Span(a[2]) <= told[a]
        BY <1>1, <2>5 DEF IInv, ToldOK
      <3> HIDE DEF w
      <3>4. w # <<>> /\ w[1] \in Nat
        BY <2>3, <3>1, <3>2
      <3>5. QED
        BY <2>3, <3>1, <3>2, <3>3, <3>4
    <2>6. QED
      BY <2>4, <2>5
  <1>2. IInv /\ [Next]_vars => [\A a \in Allowances : Refused(a) => Justly(a)]_vars
    BY <1>1
  <1>3. QED
    BY <1>2, Invariance, PTL DEF Spec, RefusedOnlyWhenSpent

-----------------------------------------------------------------------------
(* The probes: the inductive invariant.                                      *)

Phases == {"new", "initializing", "bootstrapping", "running", "tearing_down", "down"}

Statuses == {"queued", "asked", "up", "down"}

Records ==
    [probe : Probes, of : 1..Generations, report : {"pending", "up", "down", "none"},
     age : Nat, checks : UNION {[N -> Statuses] : N \in SUBSET Indicators},
     left : UNION {[N -> Int] : N \in SUBSET Indicators},
     begun : [started : BOOLEAN, draining : BOOLEAN]]

\* The state is what its variables' comments say it is.
ProbesTypeOK ==
    /\ phase \in Phases
    /\ at \in Position
    /\ generation \in 1..Generations
    /\ started \in [1..Generations -> BOOLEAN]
    /\ draining \in [1..Generations -> BOOLEAN]
    /\ indicators \in [1..Generations -> [Probes -> SUBSET Indicators]]
    /\ wired \in [1..Generations -> SUBSET Indicators]
    /\ read \in [Readers -> Records \union {Absent}]

\* The edge of the start lies behind initialization, in every generation.
StartsLate ==
    /\ \A g \in 1..Generations : g > generation => ~started[g]
    /\ phase \in {"new", "initializing"} => ~started[generation]

\* What hooks register is registered, and the lifecycle check always is.
Registers ==
    \A g \in 1..Generations :
        /\ wired[g] \subseteq indicators[g]["ready"]
        /\ Lifecycle \in indicators[g]["ready"]

\* What a read began with, and what the lifecycle check has told it.
SoundRead(x) ==
    /\ x.begun.started => started[x.of]
    /\ x.begun.draining => draining[x.of]
    /\ x.probe = "ready" =>
          /\ Lifecycle \in DOMAIN x.checks
          /\ x.begun.started => wired[x.of] \subseteq DOMAIN x.checks
          /\ x.checks[Lifecycle] # "asked"
          /\ x.checks[Lifecycle] = "up" => started[x.of] /\ ~x.begun.draining
          /\ x.report = "up" => x.checks[Lifecycle] = "up"

ReadsAreSound == \A r \in Readers : read[r] # Absent => SoundRead(read[r])

ProbesInv == ProbesTypeOK /\ StartsLate /\ Registers /\ ReadsAreSound

-----------------------------------------------------------------------------
(* The lifecycle moves under the reads.                                      *)

\* A read stays sound while both edges only rise, and what was registered before it
\* began is not added to.
LEMMA Undisturbed ==
  ASSUME ProbesInv, UNCHANGED read,
         \A g \in 1..Generations : started[g] => started'[g] /\ wired'[g] = wired[g],
         \A g \in 1..Generations : draining[g] => draining'[g]
  PROVE  ReadsAreSound'
  <1> SUFFICES ASSUME NEW r \in Readers, read[r] # Absent
               PROVE  SoundRead(read[r])'
    BY DEF ReadsAreSound
  <1>1. read[r] \in Records /\ SoundRead(read[r]) /\ read[r].of \in 1..Generations
    BY DEF ProbesInv, ProbesTypeOK, ReadsAreSound, Records
  <1>2. QED
    BY <1>1 DEF SoundRead

LEMMA Places ==
  /\ Len(Participants) \in Nat \ {0}
  /\ \A i \in Position : Wiring[Participants[i]] \in Indicators \union {Absent}
  <1>1. Len(Participants) \in Nat
    BY HealthAssumption
  <1>2. PICK i \in Position : State = Participants[i]
    BY HealthAssumption
  <1>3. Len(Participants) # 0
    BY <1>1, <1>2 DEF Position
  <1>4. \A j \in Position : Wiring[Participants[j]] \in Indicators \union {Absent}
    BY HealthAssumption
  <1>5. QED
    BY <1>1, <1>3, <1>4

\* A name more on a probe.
LEMMA RegisteredKeeps ==
  ASSUME ProbesTypeOK, NEW g \in 1..Generations, NEW probe \in Probes, NEW name \in Indicators,
         Registered(probe, name, g)
  PROVE  /\ indicators' \in [1..Generations -> [Probes -> SUBSET Indicators]]
         /\ \A h \in 1..Generations : \A p \in Probes : indicators[h][p] \subseteq indicators'[h][p]
         /\ name \in indicators'[g][probe]
  BY DEF ProbesTypeOK, Registered

LEMMA LifecycleKeeps ==
  ASSUME ProbesInv, Living
  PROVE  ProbesInv'
  <1> USE Places DEF Position
  <1>t. ProbesTypeOK /\ StartsLate /\ Registers /\ generation \in 1..Generations
    BY DEF ProbesInv, ProbesTypeOK
  <1>1. CASE Startup
    <2>1. /\ generation' \in 1..Generations /\ phase' = "initializing" /\ at' \in Position
          /\ UNCHANGED <<started, draining, indicators, wired, read>>
      BY <1>1, <1>t, HealthAssumption DEF Startup, edges
    <2>2. ProbesTypeOK' /\ Registers'
      BY <1>t, <2>1 DEF ProbesTypeOK, Registers, Phases
    <2>3. StartsLate'
      BY <1>1, <1>t, <2>1 DEF Startup, ProbesTypeOK, StartsLate
    <2>4. ReadsAreSound'
      BY <2>1, Undisturbed
    <2>5. QED
      BY <2>2, <2>3, <2>4 DEF ProbesInv
  <1>2. CASE HookRaises \/ InitRefused \/ Shutdown
    <2>1. /\ phase' = "tearing_down" /\ at' \in Position
          /\ UNCHANGED <<generation, started, draining, indicators, wired, read>>
      BY <1>2 DEF HookRaises, InitRefused, Shutdown, edges
    <2>2. ProbesTypeOK' /\ Registers' /\ StartsLate'
      BY <1>t, <2>1 DEF ProbesTypeOK, Registers, StartsLate, Phases
    <2>3. ReadsAreSound'
      BY <2>1, Undisturbed
    <2>4. QED
      BY <2>2, <2>3 DEF ProbesInv
  <1>3. CASE OnModuleInit
    <2>1. /\ phase = "initializing" /\ phase' \in Phases /\ at' \in Position
          /\ UNCHANGED <<generation, started, draining, read>>
      BY <1>3, <1>t DEF OnModuleInit, Onwards, edges, Phases, ProbesTypeOK
    <2>2. StartsLate' /\ ~started[generation]
      BY <1>t, <2>1 DEF StartsLate
    <2> DEFINE name == Wiring[Participants[at]]
    <2>3. CASE UNCHANGED <<indicators, wired>>
      <3>1. ProbesTypeOK' /\ Registers'
        BY <1>t, <2>1, <2>3 DEF ProbesTypeOK, Registers
      <3>2. QED
        BY <2>1, <2>2, <2>3, <3>1, Undisturbed DEF ProbesInv
    <2>4. CASE /\ name # Absent
               /\ Registered("ready", name, generation)
               /\ wired' = [wired EXCEPT ![generation] = @ \union {name}]
      <3>1. name \in Indicators
        BY <1>t, <2>4 DEF ProbesTypeOK
      <3> HIDE DEF name
      <3>2. /\ indicators' \in [1..Generations -> [Probes -> SUBSET Indicators]]
            /\ \A h \in 1..Generations : indicators[h]["ready"] \subseteq indicators'[h]["ready"]
            /\ name \in indicators'[generation]["ready"]
        BY <1>t, <2>4, <3>1, RegisteredKeeps DEF Probes
      <3>3. wired' \in [1..Generations -> SUBSET Indicators]
        BY <1>t, <2>4, <3>1 DEF ProbesTypeOK
      <3>4. ProbesTypeOK'
        BY <1>t, <2>1, <3>2, <3>3 DEF ProbesTypeOK
      <3>5. Registers'
        BY <1>t, <2>1, <2>4, <3>2, <3>3 DEF ProbesTypeOK, Registers
      <3>6. \A g \in 1..Generations : started[g] => started'[g] /\ wired'[g] = wired[g]
        BY <1>t, <2>1, <2>2, <2>4 DEF ProbesTypeOK
      <3>7. ReadsAreSound'
        BY <2>1, <3>6, Undisturbed
      <3>8. QED
        BY <2>2, <3>4, <3>5, <3>7 DEF ProbesInv
    <2>5. QED
      BY <1>3, <2>3, <2>4 DEF OnModuleInit
  <1>4. CASE OnApplicationBootstrap
    <2>1. /\ phase = "bootstrapping" /\ phase' \in {"bootstrapping", "running"}
          /\ at' \in Position
          /\ UNCHANGED <<generation, draining, indicators, wired, read>>
      BY <1>4, <1>t DEF OnApplicationBootstrap, Onwards, ProbesTypeOK
    <2>2. started' = started \/ started' = [started EXCEPT ![generation] = TRUE]
      BY <1>4 DEF OnApplicationBootstrap
    <2>3. started' \in [1..Generations -> BOOLEAN]
          /\ \A g \in 1..Generations : /\ started[g] => started'[g]
                                       /\ g # generation => started'[g] = started[g]
      BY <1>t, <2>2 DEF ProbesTypeOK
    <2>4. ProbesTypeOK' /\ Registers'
      BY <1>t, <2>1, <2>3 DEF ProbesTypeOK, Registers, Phases
    <2>5. StartsLate'
      BY <1>t, <2>1, <2>3 DEF StartsLate
    <2>6. ReadsAreSound'
      BY <2>1, <2>3, Undisturbed
    <2>7. QED
      BY <2>4, <2>5, <2>6 DEF ProbesInv
  <1>5. CASE BeforeApplicationShutdown \/ \E g \in Built : BeginDrain(g)
    <2>1. /\ phase' \in Phases /\ at' \in Position
          /\ phase' \in {"new", "initializing"} => phase \in {"new", "initializing"}
          /\ UNCHANGED <<generation, started, indicators, wired, read>>
      <3>1. CASE BeforeApplicationShutdown
        <4>1. /\ phase = "tearing_down" /\ at \in Position
              /\ \/ at = 1 /\ phase' = "down" /\ at' = 1
                 \/ at # 1 /\ phase' = phase /\ at' = at - 1
              /\ UNCHANGED <<generation, started, indicators, wired, read>>
          BY <1>t, <3>1 DEF BeforeApplicationShutdown, ProbesTypeOK
        <4>2. QED
          BY <4>1 DEF Phases
      <3>2. CASE \E g \in Built : BeginDrain(g)
        BY <1>t, <3>2 DEF BeginDrain, ProbesTypeOK, lifeVars
      <3>3. QED
        BY <1>5, <3>1, <3>2
    <2>2. \/ draining' = draining
          \/ \E g \in 1..Generations : draining' = [draining EXCEPT ![g] = TRUE]
      <3>1. CASE BeforeApplicationShutdown
        <4>1. \/ draining' = draining
              \/ draining' = [draining EXCEPT ![generation] = TRUE]
          BY <3>1 DEF BeforeApplicationShutdown
        <4>2. QED
          BY <4>1, <1>t DEF ProbesTypeOK
      <3>2. CASE \E g \in Built : BeginDrain(g)
        <4>1. PICK g \in Built : draining' = [draining EXCEPT ![g] = TRUE]
          BY <3>2 DEF BeginDrain
        <4>2. g \in 1..Generations
          BY <1>t, HealthAssumption DEF ProbesTypeOK, Built
        <4>3. QED
          BY <4>1, <4>2
      <3>3. QED
        BY <1>5, <3>1, <3>2
    <2>3. draining' \in [1..Generations -> BOOLEAN]
          /\ \A g \in 1..Generations : draining[g] => draining'[g]
      BY <1>t, <2>2 DEF ProbesTypeOK
    <2>4. ProbesTypeOK' /\ Registers' /\ StartsLate'
      BY <1>t, <2>1, <2>3 DEF ProbesTypeOK, Registers, StartsLate
    <2>5. ReadsAreSound'
      BY <2>1, <2>3, Undisturbed
    <2>6. QED
      BY <2>4, <2>5 DEF ProbesInv
  <1>6. ASSUME NEW g \in Built, NEW probe \in Probes, NEW name \in Indicators,
               Register(probe, name, g)
        PROVE  ProbesInv'
    <2>1. UNCHANGED <<phase, at, generation, started, draining, wired, read>>
      BY <1>6 DEF Register, lifeVars, edges
    <2>0. g \in 1..Generations /\ Registered(probe, name, g)
      BY <1>t, <1>6, HealthAssumption DEF Register, Built
    <2>2. /\ indicators' \in [1..Generations -> [Probes -> SUBSET Indicators]]
          /\ \A h \in 1..Generations : \A p \in Probes : indicators[h][p] \subseteq indicators'[h][p]
      BY <1>t, <2>0, RegisteredKeeps
    <2>3. ProbesTypeOK' /\ StartsLate' /\ Registers'
      BY <1>t, <2>1, <2>2 DEF ProbesTypeOK, StartsLate, Registers, Probes
    <2>4. ReadsAreSound'
      BY <2>1, Undisturbed
    <2>5. QED
      BY <2>3, <2>4 DEF ProbesInv
  <1>7. QED
    BY <1>1, <1>2, <1>3, <1>4, <1>5, <1>6 DEF Living

-----------------------------------------------------------------------------
(* The reads move.                                                           *)

\* Nothing but one read changes, and what it becomes is sound.
LEMMA OneRead ==
  ASSUME ProbesInv, UNCHANGED <<phase, at, generation, started, draining, indicators, wired>>,
         NEW r \in Readers, NEW x \in Records \union {Absent},
         read' = [read EXCEPT ![r] = x], x # Absent => SoundRead(x)
  PROVE  ProbesInv'
  <1>1. /\ read' \in [Readers -> Records \union {Absent}]
        /\ read'[r] = x /\ \A q \in Readers \ {r} : read'[q] = read[q]
    BY DEF ProbesInv, ProbesTypeOK
  <1>2. ProbesTypeOK' /\ StartsLate' /\ Registers'
    BY <1>1 DEF ProbesInv, ProbesTypeOK, StartsLate, Registers
  <1>3. ASSUME NEW q \in Readers, read'[q] # Absent
        PROVE  SoundRead(read[q])'
    <2>1. SoundRead(read'[q])
      BY <1>1, <1>3 DEF ProbesInv, ReadsAreSound
    <2>2. QED
      BY <2>1 DEF SoundRead
  <1>4. QED
    BY <1>2, <1>3 DEF ProbesInv, ReadsAreSound

LEMMA BeginKeeps ==
  ASSUME ProbesInv, NEW r \in Readers, NEW probe \in Probes, NEW g \in Built, Begin(r, probe, g)
  PROVE  ProbesInv'
  <1> DEFINE names == indicators[g][probe]
             x == [probe |-> probe, of |-> g, report |-> "pending", age |-> 0,
                   checks |-> [n \in names |-> "queued"],
                   left |-> [n \in names |-> CheckTimeout],
                   begun |-> [started |-> started[g], draining |-> draining[g]]]
  <1>1. g \in 1..Generations /\ names \in SUBSET Indicators
    BY HealthAssumption DEF ProbesInv, ProbesTypeOK, Built
  <1>2. read' = [read EXCEPT ![r] = x]
        /\ UNCHANGED <<phase, at, generation, started, draining, indicators, wired>>
    BY DEF Begin, lifeVars, edges
  <1>3. started[g] \in BOOLEAN /\ draining[g] \in BOOLEAN
    BY <1>1 DEF ProbesInv, ProbesTypeOK
  <1>4. probe = "ready" => Lifecycle \in names /\ wired[g] \subseteq names
    BY <1>1 DEF ProbesInv, Registers
  <1> HIDE DEF names
  <1>5. x \in Records
    <2>1. [n \in names |-> "queued"] \in UNION {[N -> Statuses] : N \in SUBSET Indicators}
      BY <1>1 DEF Statuses
    <2>2. [n \in names |-> CheckTimeout] \in UNION {[N -> Int] : N \in SUBSET Indicators}
      BY <1>1, HealthAssumption
    <2>3. QED
      BY <1>1, <1>3, <2>1, <2>2 DEF Records
  <1>6. SoundRead(x)
    BY <1>1, <1>4 DEF SoundRead
  <1> HIDE DEF x
  <1>7. QED
    BY <1>2, <1>5, <1>6, OneRead

\* One check of a read moves on; only the lifecycle check of a readiness probe says
\* anything about the edges.
LEMMA CheckKeeps ==
  ASSUME ProbesInv, UNCHANGED <<phase, at, generation, started, draining, indicators, wired>>,
         NEW r \in Readers, Pending(r), NEW n \in DOMAIN read[r].checks,
         NEW status \in Statuses,
         read' = [read EXCEPT ![r].checks[n] = status],
         read[r].probe = "ready" /\ n = Lifecycle =>
             status # "asked" /\ (status = "up" => InRotation(read[r].of))
  PROVE  ProbesInv'
  <1> DEFINE x == [read[r] EXCEPT !.checks[n] = status]
  <1>1. read[r] \in Records /\ SoundRead(read[r]) /\ read[r].report = "pending"
    BY DEF Pending, ProbesInv, ProbesTypeOK, ReadsAreSound
  <1>2. read' = [read EXCEPT ![r] = x]
    OBVIOUS
  <1>3. PICK N \in SUBSET Indicators : read[r].checks \in [N -> Statuses]
    BY <1>1 DEF Records
  <1>4. [read[r].checks EXCEPT ![n] = status] \in [N -> Statuses]
    BY <1>3
  <1>5. x = [read[r] EXCEPT !.checks = [read[r].checks EXCEPT ![n] = status]]
    OBVIOUS
  <1>6. x \in Records
    BY <1>1, <1>4, <1>5 DEF Records
  <1>7. /\ x.begun = read[r].begun /\ x.of = read[r].of /\ x.probe = read[r].probe
        /\ x.report = "pending" /\ DOMAIN x.checks = DOMAIN read[r].checks
        /\ \A m \in DOMAIN x.checks :
              x.checks[m] = IF m = n THEN status ELSE read[r].checks[m]
    BY <1>1, <1>3, <1>4, <1>5 DEF Records
  <1>8. SoundRead(x)
    BY <1>1, <1>7 DEF SoundRead, InRotation
  <1> HIDE DEF x
  <1>9. QED
    BY <1>2, <1>6, <1>8, OneRead

LEMMA ChecksKeep ==
  ASSUME ProbesInv, NEW r \in Readers, NEW n \in Indicators,
         \/ Ask(r, n) \/ TimesOut(r, n)
         \/ \E answer \in {"up", "down", "raises", "unusable"} : Answer(r, n, answer)
  PROVE  ProbesInv'
  <1>1. CASE Ask(r, n)
    <2> DEFINE status == IF n = Lifecycle /\ read[r].probe = "ready"
                         THEN LifecycleCheck(read[r].of) ELSE "asked"
    <2>1. status \in Statuses
      BY DEF LifecycleCheck, Statuses
    <2>2. /\ read' = [read EXCEPT ![r].checks[n] = status] /\ n \in DOMAIN read[r].checks
          /\ Pending(r)
          /\ UNCHANGED <<phase, at, generation, started, draining, indicators, wired>>
      BY <1>1 DEF Ask, lifeVars, edges
    <2>3. read[r].probe = "ready" /\ n = Lifecycle =>
             status # "asked" /\ (status = "up" => InRotation(read[r].of))
      BY DEF LifecycleCheck
    <2> HIDE DEF status
    <2>4. QED
      BY <2>1, <2>2, <2>3, CheckKeeps
  <1>2. CASE TimesOut(r, n) \/ \E answer \in {"up", "down", "raises", "unusable"} : Answer(r, n, answer)
    <2>1. PICK status \in {"up", "down"} : read' = [read EXCEPT ![r].checks[n] = status]
      BY <1>2 DEF TimesOut, Answer
    <2>2. /\ n \in DOMAIN read[r].checks /\ Pending(r) /\ read[r].checks[n] = "asked"
          /\ UNCHANGED <<phase, at, generation, started, draining, indicators, wired>>
      BY <1>2 DEF TimesOut, Answer, lifeVars, edges
    <2>3. ~(read[r].probe = "ready" /\ n = Lifecycle)
      BY <2>2 DEF ProbesInv, ReadsAreSound, SoundRead, Pending
    <2>4. status \in Statuses
      BY DEF Statuses
    <2>5. QED
      BY <2>1, <2>2, <2>3, <2>4, CheckKeeps
  <1>3. QED
    BY <1>1, <1>2

\* A read ends, with a report or without.
LEMMA ReportsKeep ==
  ASSUME ProbesInv, NEW r \in Readers, Report(r) \/ Cancelled(r) \/ Forget(r)
  PROVE  ProbesInv'
  <1>1. UNCHANGED <<phase, at, generation, started, draining, indicators, wired>>
    BY DEF Report, Cancelled, Forget, lifeVars, edges
  <1>2. CASE Forget(r)
    BY <1>1, <1>2, OneRead DEF Forget
  <1>3. CASE Report(r) \/ Cancelled(r)
    <2>1. read[r] \in Records /\ SoundRead(read[r])
      BY <1>3 DEF Report, Cancelled, Pending, ProbesInv, ProbesTypeOK, ReadsAreSound
    <2>2. PICK report \in {"up", "down", "none"} :
              /\ read' = [read EXCEPT ![r] = [read[r] EXCEPT !.report = report]]
              /\ report = "up" => \A n \in DOMAIN read[r].checks : read[r].checks[n] = "up"
      <3>1. CASE Cancelled(r)
        BY <3>1 DEF Cancelled
      <3>2. CASE Report(r)
        BY <3>2 DEF Report
      <3>3. QED
        BY <1>3, <3>1, <3>2
    <2> DEFINE x == [read[r] EXCEPT !.report = report]
    <2>3. x \in Records
      BY <2>1 DEF Records
    <2>4. /\ x.begun = read[r].begun /\ x.of = read[r].of /\ x.probe = read[r].probe
          /\ x.checks = read[r].checks /\ x.report = report
      BY <2>1 DEF Records
    <2>5. SoundRead(x)
      BY <2>1, <2>2, <2>4 DEF SoundRead
    <2> HIDE DEF x
    <2>6. QED
      BY <1>1, <2>2, <2>3, <2>5, OneRead DEF x
  <1>4. QED
    BY <1>2, <1>3

LEMMA TickKeeps ==
  ASSUME ProbesInv, TimePasses
  PROVE  ProbesInv'
  <1>1. UNCHANGED <<phase, at, generation, started, draining, indicators, wired>>
    BY DEF TimePasses, lifeVars, edges
  <1>2. ASSUME NEW r \in Readers
        PROVE  /\ read'[r] \in Records \union {Absent}
               /\ read'[r] # Absent => SoundRead(read'[r])
    <2>1. CASE ~Pending(r)
      BY <2>1 DEF TimePasses, ProbesInv, ProbesTypeOK, ReadsAreSound
    <2>2. CASE Pending(r)
      <3> DEFINE left == [n \in DOMAIN read[r].left |->
                             IF n \in Waiting(r) THEN read[r].left[n] - 1 ELSE read[r].left[n]]
                 x == [read[r] EXCEPT !.age = @ + 1, !.left = left]
      <3>1. read[r] \in Records /\ SoundRead(read[r])
        BY <2>2 DEF Pending, ProbesInv, ProbesTypeOK, ReadsAreSound
      <3>2. read'[r] = x
        BY <2>2 DEF TimePasses
      <3>3. PICK N \in SUBSET Indicators : read[r].left \in [N -> Int]
        BY <3>1 DEF Records
      <3>4. left \in [N -> Int]
        BY <3>3
      <3> HIDE DEF left
      <3>5. x \in Records
        <4>1. /\ left \in UNION {[M -> Int] : M \in SUBSET Indicators}
              /\ read[r].age \in Nat /\ read[r].age + 1 \in Nat
          BY <3>1, <3>4 DEF Records
        <4>2. x = [read[r] EXCEPT !.age = read[r].age + 1, !.left = left]
          OBVIOUS
        <4>3. QED
          BY <3>1, <4>1, <4>2 DEF Records
      <3>6. /\ x.begun = read[r].begun /\ x.of = read[r].of /\ x.probe = read[r].probe
            /\ x.checks = read[r].checks /\ x.report = read[r].report
        BY <3>1 DEF Records
      <3>7. SoundRead(x)
        BY <3>1, <3>6 DEF SoundRead
      <3>8. QED
        BY <3>2, <3>5, <3>7
    <2>3. QED
      BY <2>1, <2>2
  <1>3. read' \in [Readers -> Records \union {Absent}]
    BY <1>2 DEF TimePasses
  <1>4. ProbesTypeOK' /\ StartsLate' /\ Registers'
    BY <1>1, <1>3 DEF ProbesInv, ProbesTypeOK, StartsLate, Registers
  <1>5. ReadsAreSound'
    BY <1>1, <1>2 DEF ReadsAreSound, SoundRead
  <1>6. QED
    BY <1>4, <1>5 DEF ProbesInv

-----------------------------------------------------------------------------
(* The theorems.                                                             *)

\* ProbesInv holds in every state: what HealthService and ReadinessState keep, and what the
\* checks of a read (HealthService._check) have answered so far.
THEOREM ProbesInvariance == ProbesSpec => []ProbesInv
  <1>1. ProbesInit => ProbesInv
    <2> SUFFICES ASSUME ProbesInit PROVE ProbesInv
      OBVIOUS
    <2>1. /\ 1 \in Position /\ 1 \in 1..Generations
      BY Places, HealthAssumption DEF Position
    <2>2. ProbesTypeOK
      BY <2>1, HealthAssumption DEF ProbesInit, ProbesTypeOK, Phases, Probes
    <2>3. StartsLate /\ Registers
      BY <2>1 DEF ProbesInit, StartsLate, Registers
    <2>4. ReadsAreSound
      BY DEF ProbesInit, ReadsAreSound
    <2>5. QED
      BY <2>2, <2>3, <2>4 DEF ProbesInv
  <1>2. ProbesInv /\ [ProbesNext]_probesVars => ProbesInv'
    <2> SUFFICES ASSUME ProbesInv, [ProbesNext]_probesVars PROVE ProbesInv'
      OBVIOUS
    <2>1. CASE Living
      BY <2>1, LifecycleKeeps
    <2>2. ASSUME NEW r \in Readers, NEW probe \in Probes, NEW g \in Built, Begin(r, probe, g)
          PROVE  ProbesInv'
      BY <2>2, BeginKeeps
    <2>3. ASSUME NEW r \in Readers, Advance(r)
          PROVE  ProbesInv'
      BY <2>3, ChecksKeep, ReportsKeep DEF Advance
    <2>4. ASSUME NEW r \in Readers, NEW n \in Indicators,
                 NEW answer \in {"up", "down", "raises", "unusable"}, Answer(r, n, answer)
          PROVE  ProbesInv'
      BY <2>4, ChecksKeep
    <2>5. ASSUME NEW r \in Readers, Cancelled(r) \/ Forget(r)
          PROVE  ProbesInv'
      BY <2>5, ReportsKeep
    <2>6. CASE TimePasses
      BY <2>6, TickKeeps
    <2>7. CASE UNCHANGED probesVars
      BY <2>7 DEF probesVars, lifeVars, edges, ProbesInv, ProbesTypeOK, StartsLate, Registers,
                  ReadsAreSound, SoundRead
    <2>8. QED
      BY <2>1, <2>2, <2>3, <2>4, <2>5, <2>6, <2>7 DEF ProbesNext
  <1>3. QED
    BY <1>1, <1>2, PTL DEF ProbesSpec

\* A readiness report is up only of a process that had started and was not withdrawn when
\* the read began, with every wired indicator checked that a read of a started process
\* has to check (HealthService.readiness).
THEOREM ReadyIsEarned == ProbesSpec => []UpIsEarned
  <1>1. ProbesInv => UpIsEarned
    BY DEF ProbesInv, ReadsAreSound, SoundRead, UpIsEarned, Reads
  <1>2. QED
    BY <1>1, ProbesInvariance, PTL
=============================================================================
