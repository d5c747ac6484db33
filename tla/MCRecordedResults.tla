--------------------------- MODULE MCRecordedResults ---------------------------
(* A small instance of RecordedResults for TLC: a controller that requires an     *)
(* identity and caches its reads, and another that records attempts.              *)
EXTENDS RecordedResults, TLC

CONSTANTS r1, r2, r3, r4, alice, bob, cached, mine, open, attempt, cache, attempts

Silent == [public |-> FALSE, auth |-> FALSE, roles |-> {}]
Identified == [public |-> FALSE, auth |-> TRUE, roles |-> {}]
ToAnybody == [public |-> TRUE, auth |-> FALSE, roles |-> {}]
ToAdmins == [public |-> FALSE, auth |-> FALSE, roles |-> {"admin"}]
ToNamedAdmins == [ToAdmins EXCEPT !.auth = TRUE]

StoreOfRoute == cached :> cache @@ mine :> cache @@ open :> cache @@ attempt :> attempts
OneEach == [route \in Routes |-> route]
OfController == cached :> Identified @@ mine :> Identified @@ open :> Identified
                @@ attempt :> ToAnybody
OfHandler == cached :> Silent @@ mine :> ToAdmins @@ open :> ToAnybody @@ attempt :> ToNamedAdmins
Ttls == cached :> 1 @@ mine :> 2 @@ open :> 2 @@ attempt :> 2
Holds == alice :> {"admin"} @@ bob :> {}

Request(route, method, path, query, caller, presented) ==
    [route |-> route, method |-> method, path |-> path, query |-> query,
     caller |-> caller, presented |-> presented]

\* A read of three callers, a read only admins may make, an open one under a method that
\* is not replayed, and two attempts of one key by two callers.
Various == {Request(cached, "GET", "/", "", c, None) : c \in {alice, bob, Nameless}}
    \cup {Request(mine, "GET", "/", "", bob, None), Request(open, "POST", "/", "", None, None),
          Request(open, "GET", "/", "", None, None)}
    \cup {Request(attempt, "POST", "/", "", c, "key") : c \in {alice, bob}}

Alike == Permutations(Requests)
==============================================================================
