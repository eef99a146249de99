-------------------------------- MODULE Nlru --------------------------------
(***************************************************************************)
(* The class template nlru of src/src/core/support/nlru.h, the cache of    *)
(* idle connections: a list in order of insertion with a separate size     *)
(* counter, and three indexes that must stay in step with it.              *)
(*                                                                         *)
(* The members are gathered in the record `lru':                           *)
(*   list    m_item_list          sequence of [id, item], newest first     *)
(*   size    m_item_list_size     the counter kept next to the list        *)
(*   node    m_item_list_map      id -> the list node of that id           *)
(*   idsOf   m_label_id_set_map   label -> ids, no entry for an empty set  *)
(*   labelOf m_id_label_map       id -> label                              *)
(***************************************************************************)
EXTENDS Integers, Sequences, FiniteSets, SequencesExt

CONSTANTS
  Labels,      \* the labels an item is filed under
  Items,       \* the items (pointers) that can be cached
  MaxEntries,  \* m_max_entries
  MaxId,       \* bound of the model: ids issued are below MaxId
  NoItem       \* a NULL item

ASSUME MaxEntriesAssumption == MaxEntries \in Nat \ {0}
ASSUME MaxIdAssumption == MaxId \in Nat

VARIABLES
  lru,         \* the list and its indexes
  next,        \* m_next_id
  taken,       \* item returned to the caller of the last operation
  evicted      \* item passed to m_delete_cb by the last operation

vars == <<lru, next, taken, evicted>>

Ids == 0 .. MaxId - 1
Node == [id : Ids, item : Items]

EmptyFn == [x \in {} |-> {}]

Init ==
  /\ lru = [list |-> <<>>, size |-> 0, node |-> EmptyFn,
            idsOf |-> EmptyFn, labelOf |-> EmptyFn]
  /\ next = 0
  /\ taken = NoItem
  /\ evicted = NoItem

-----------------------------------------------------------------------------
(* Member functions on the record of members.                              *)

\* Mutant of Unfiled: the emptied set of the label stays in the map.
UnfiledKeepsEmptySet(idsOf, label, id) == [idsOf EXCEPT ![label] = @ \ {id}]

\* m_label_id_set_map after erasing id from the set of label, and the set
\* itself when it becomes empty.
Unfiled(idsOf, label, id) ==
  LET rest == idsOf[label] \ {id}
  IN  IF rest = {} THEN Restrict(idsOf, DOMAIN idsOf \ {label})
                   ELSE [idsOf EXCEPT ![label] = rest]

\* m_label_id_set_map after adding id to the set of label, made if missing.
Filed(idsOf, label, id) ==
  [l \in DOMAIN idsOf \union {label} |->
     (IF l \in DOMAIN idsOf THEN idsOf[l] ELSE {})
       \union (IF l = label THEN {id} ELSE {})]

\* The four look-ups of remove() that return early when they find nothing.
Removable(s, id) ==
  /\ id \in DOMAIN s.labelOf
  /\ s.labelOf[id] \in DOMAIN s.idsOf
  /\ id \in s.idsOf[s.labelOf[id]]
  /\ id \in DOMAIN s.node

\* m_item_list.erase() takes the one node that the iterator points to.
Erased(list, node) == RemoveAt(list, CHOOSE k \in DOMAIN list : list[k] = node)

Removed(s, id) ==
  IF ~Removable(s, id) THEN s
  ELSE [list    |-> Erased(s.list, s.node[id]),
        size    |-> s.size - 1,
        node    |-> Restrict(s.node, DOMAIN s.node \ {id}),
        idsOf   |-> Unfiled(s.idsOf, s.labelOf[id], id),
        labelOf |-> Restrict(s.labelOf, DOMAIN s.labelOf \ {id})]

Inserted(s, id, label, item) ==
  LET new == [id |-> id, item |-> item]
  IN  [list    |-> <<new>> \o s.list,
       size    |-> s.size + 1,
       node    |-> [i \in DOMAIN s.node \union {id} |->
                      IF i = id THEN new ELSE s.node[i]],
       idsOf   |-> Filed(s.idsOf, label, id),
       labelOf |-> [i \in DOMAIN s.labelOf \union {id} |->
                      IF i = id THEN label ELSE s.labelOf[i]]]

\* Mutant of EvictFrom: the victim is the item at the front.
EvictFront(s) ==
  IF s.list = <<>>
  THEN /\ lru' = s
       /\ evicted' = NoItem
  ELSE /\ evicted' = Head(s.list).item
       /\ lru' = Removed(s, Head(s.list).id)

\* evict(): the callback gets the item at the back, then its id is removed.
EvictFrom(s) ==
  IF s.list = <<>>
  THEN /\ lru' = s
       /\ evicted' = NoItem
  ELSE /\ evicted' = Last(s.list).item
       /\ lru' = Removed(s, Last(s.list).id)

-----------------------------------------------------------------------------
(* The public operations.                                                  *)

Insert(label, item) ==
  /\ next < MaxId
  /\ next' = next + 1
  /\ taken' = NoItem
  /\ LET grown == Inserted(lru, next, label, item)
     IN  IF grown.size > MaxEntries
         THEN EvictFrom(grown)
         ELSE /\ lru' = grown
              /\ evicted' = NoItem

Evict ==
  /\ EvictFrom(lru)
  /\ taken' = NoItem
  /\ UNCHANGED next

\* get(): the first id of the label in the order of an unordered_set, that
\* is, any of them; the guards are the code's three "return NULL".
Get(label) ==
  /\ label \in DOMAIN lru.idsOf
  /\ \E id \in lru.idsOf[label] :
       /\ id \in DOMAIN lru.node
       /\ taken' = lru.node[id].item
       /\ lru' = Removed(lru, id)
  /\ evicted' = NoItem
  /\ UNCHANGED next

\* remove(): callers may pass an id that is no longer cached.
RemoveId(id) ==
  /\ lru' = Removed(lru, id)
  /\ taken' = NoItem
  /\ evicted' = NoItem
  /\ UNCHANGED next

Next ==
  \/ \E l \in Labels, x \in Items : Insert(l, x)
  \/ Evict
  \/ \E l \in Labels : Get(l)
  \/ \E id \in Ids : RemoveId(id)

Spec == Init /\ [][Next]_vars

-----------------------------------------------------------------------------
(* Properties.                                                             *)

\* The members have the types of their declarations.
TypeOK ==
  /\ lru.list \in Seq(Node)
  /\ lru.size \in Nat
  /\ lru.node \in [DOMAIN lru.node -> Node]
  /\ DOMAIN lru.node \subseteq Ids
  /\ lru.idsOf \in [DOMAIN lru.idsOf -> SUBSET Ids]
  /\ DOMAIN lru.idsOf \subseteq Labels
  /\ lru.labelOf \in [DOMAIN lru.labelOf -> Labels]
  /\ DOMAIN lru.labelOf \subseteq Ids
  /\ next \in 0 .. MaxId
  /\ taken \in Items \union {NoItem}
  /\ evicted \in Items \union {NoItem}

\* Besides the types: the list and the three indexes hold the same ids, an id
\* is filed under its own label and no other, a label without ids has no set,
\* and the counter is the length of the list.  remove() relies on this when it
\* gives up silently because one of its look-ups fails.
IndexesAgree ==
  /\ TypeOK
  /\ ToSet(lru.list) = {lru.node[i] : i \in DOMAIN lru.node}
  /\ \A i \in DOMAIN lru.node : lru.node[i].id = i
  /\ DOMAIN lru.labelOf = DOMAIN lru.node
  /\ UNION {lru.idsOf[l] : l \in DOMAIN lru.idsOf} = DOMAIN lru.labelOf
  /\ \A l \in DOMAIN lru.idsOf :
       /\ lru.idsOf[l] # {}
       /\ \A i \in lru.idsOf[l] : lru.labelOf[i] = l
  /\ lru.size = Len(lru.list)

\* nlru implements the bounded cache it is meant to be, evictions included.
Abstract == INSTANCE LruSpec WITH
  cache <- [i \in DOMAIN lru.labelOf |->
              [label |-> lru.labelOf[i], item |-> lru.node[i].item]]
ImplementsLru == Abstract!Spec

=============================================================================
