------------------------------ MODULE LruSpec -------------------------------
(***************************************************************************)
(* What the class nlru promises: a bounded cache of labelled items that    *)
(* hands out an item of a given label, forgets an item by its id and, when *)
(* an insertion makes it too large, evicts the item inserted longest ago   *)
(* and reports exactly that item to the delete callback.                   *)
(***************************************************************************)
EXTENDS LruOps, FiniteSets

CONSTANTS
  Labels,      \* the labels an item is filed under
  Items,       \* the items (pointers) that can be cached
  MaxEntries,  \* capacity of the cache
  MaxId,       \* bound of the model: ids issued are below MaxId
  NoItem       \* "no item was handed out / evicted by this step"

VARIABLES
  cache,       \* id -> [label, item]
  next,        \* the next id
  taken,       \* the item returned by the last operation, or NoItem
  evicted      \* the item the last operation passed to the callback, or NoItem

vars == <<cache, next, taken, evicted>>

Init ==
  /\ cache = LruEmpty
  /\ next = 0
  /\ taken = NoItem
  /\ evicted = NoItem

\* Removal of the oldest entry of c, which becomes the new cache.
EvictOldest(c) ==
  \E id \in LruBack(c) :
    /\ cache' = LruWithout(c, id)
    /\ evicted' = c[id].item

Insert(label, item) ==
  /\ next < MaxId
  /\ next' = next + 1
  /\ taken' = NoItem
  /\ LET grown == LruWith(cache, next, [label |-> label, item |-> item])
     IN  \/ /\ Cardinality(DOMAIN grown) <= MaxEntries
            /\ cache' = grown
            /\ evicted' = NoItem
         \/ /\ Cardinality(DOMAIN grown) > MaxEntries
            /\ EvictOldest(grown)

Evict ==
  /\ cache # LruEmpty
  /\ EvictOldest(cache)
  /\ taken' = NoItem
  /\ UNCHANGED next

Get(label) ==
  /\ \E id \in LruIdsOf(cache, label) :
       /\ cache' = LruWithout(cache, id)
       /\ taken' = cache[id].item
  /\ evicted' = NoItem
  /\ UNCHANGED next

Remove(id) ==
  /\ cache' = LruWithout(cache, id)
  /\ taken' = NoItem
  /\ evicted' = NoItem
  /\ UNCHANGED next

Next ==
  \/ \E l \in Labels, x \in Items : Insert(l, x)
  \/ Evict
  \/ \E l \in Labels : Get(l)
  \/ \E id \in 0 .. MaxId - 1 : Remove(id)

Spec == Init /\ [][Next]_vars

=============================================================================
