---------------------------- MODULE InstanceSlots ----------------------------
(***************************************************************************)
(* What resolving a cached provider promises its callers, whatever driver  *)
(* resolves it and whatever lock it takes on the way.                      *)
(*                                                                         *)
(* One slot per cache key.  A slot that is empty may be filled, once, by   *)
(* the caller that built the instance; from then on every caller of that   *)
(* key is answered with the instance the slot holds, until the slot is     *)
(* dropped (eviction, override, shutdown).  An instance is named after the *)
(* caller that built it, so an answer different from the slot's content    *)
(* would be a second live instance of something promised to exist once.    *)
(***************************************************************************)

CONSTANTS Callers,   \* resolutions, each made once
          Keys,      \* cache keys
          KeyOf,     \* the key each resolution asks for
          None       \* an empty slot, or no answer

VARIABLES slot,      \* the instance kept under each key, or None
          answer     \* what each caller was answered with, or None

slotVars == <<slot, answer>>

Init ==
    /\ slot = [k \in Keys |-> None]
    /\ answer = [c \in Callers |-> None]

\* The caller that built an instance fills the empty slot and is answered with it.
Publish(c) ==
    /\ slot[KeyOf[c]] = None
    /\ answer[c] = None
    /\ slot' = [slot EXCEPT ![KeyOf[c]] = c]
    /\ answer' = [answer EXCEPT ![c] = c]

\* Every other caller is answered with what the slot holds.
Serve(c) ==
    /\ slot[KeyOf[c]] # None
    /\ answer[c] = None
    /\ answer' = [answer EXCEPT ![c] = slot[KeyOf[c]]]
    /\ UNCHANGED slot

\* A slot is emptied for a reason of the cache's own.
Drop(k) ==
    /\ slot[k] # None
    /\ slot' = [slot EXCEPT ![k] = None]
    /\ UNCHANGED answer

Next ==
    \/ \E c \in Callers : Publish(c) \/ Serve(c)
    \/ \E k \in Keys : Drop(k)

Spec == Init /\ [][Next]_slotVars
==============================================================================
