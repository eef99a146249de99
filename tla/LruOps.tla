------------------------------- MODULE LruOps -------------------------------
(***************************************************************************)
(* The operations of an LRU cache, as the users of nlru.h see it.          *)
(*                                                                         *)
(* A cache is a function from entry ids to entries [label, item].  Ids are *)
(* handed out by a counter and an entry is pushed on the front of the list *)
(* when it gets its id, so the list order of nlru.h is the order of the    *)
(* ids and its back, the entry evicted next, is the entry with the least   *)
(* id.  Module Nlru models the list and the three indexes of the code and  *)
(* is shown to implement these operators.                                  *)
(***************************************************************************)
EXTENDS Integers, Functions

LruEmpty == [i \in {} |-> {}]

\* The entry `entry' stored under the new id `id'.
LruWith(cache, id, entry) ==
  [i \in DOMAIN cache \union {id} |-> IF i = id THEN entry ELSE cache[i]]

\* Removing an unknown id changes nothing.
LruWithout(cache, id) == Restrict(cache, DOMAIN cache \ {id})

\* Set of the id at the back of the list (empty for an empty cache).
LruBack(cache) == {i \in DOMAIN cache : \A j \in DOMAIN cache : i <= j}

\* Ids filed under a label: get() may return the entry of any of them.
LruIdsOf(cache, label) == {i \in DOMAIN cache : cache[i].label = label}

=============================================================================
