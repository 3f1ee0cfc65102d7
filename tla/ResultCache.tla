---------------------------- MODULE ResultCache ----------------------------
(***************************************************************************)
(* What the query result cache promises to the code that calls it,         *)
(* whatever it is stored in: a key holds nothing or one complete result;   *)
(* a lookup answers with exactly what the key holds at that instant; an    *)
(* entry may be dropped at any time, because the caller can always run the *)
(* query again.  DuckCache is checked, and proved, to implement this.      *)
(***************************************************************************)
EXTENDS Naturals

CONSTANTS
    Key,     \* cache keys
    Value,   \* complete results
    Client,  \* the requests that use the cache
    None     \* "nothing stored", "nothing answered"

VARIABLES
    store,   \* what each key holds
    reply    \* the hit each client was last given

vars == <<store, reply>>

Init ==
    /\ store = [k \in Key |-> None]
    /\ reply = [c \in Client |-> None]

\* A client is given what is stored under the key it asks for.
Lookup(c, k) ==
    /\ store[k] # None
    /\ reply' = [reply EXCEPT ![c] = store[k]]
    /\ UNCHANGED store

\* A client lets go of its answer: it ends, or asks again.
Forget(c) ==
    /\ reply' = [reply EXCEPT ![c] = None]
    /\ UNCHANGED store

Store(k, v) ==
    /\ store' = [store EXCEPT ![k] = v]
    /\ UNCHANGED reply

\* One entry, or all of them at once, is dropped.
Evict(ks) ==
    /\ store' = [k \in Key |-> IF k \in ks THEN None ELSE store[k]]
    /\ UNCHANGED reply

Next ==
    \/ \E c \in Client, k \in Key : Lookup(c, k)
    \/ \E c \in Client : Forget(c)
    \/ \E k \in Key, v \in Value : Store(k, v)
    \/ \E ks \in SUBSET Key : Evict(ks)

Spec == Init /\ [][Next]_vars
=============================================================================
