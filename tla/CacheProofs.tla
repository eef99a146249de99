---------------------------- MODULE CacheProofs -----------------------------
(***************************************************************************)
(* Proofs about the two caches: that of idle connections (module Nlru),    *)
(* and that of addresses with the look-ups that share it (Resolver).       *)
(*                                                                         *)
(* The list and the three indexes of the first agree in every reachable    *)
(* state, and it implements the bounded cache of module LruSpec.  What     *)
(* makes it work is the order of the list: ids are handed out by a counter *)
(* and pushed on the front, so ids descend along the list.  Hence no two   *)
(* nodes share an id, the iterator kept for an id stands for exactly one   *)
(* node, and the back of the list is the least id, which is how the        *)
(* abstract cache names its oldest entry.                                  *)
(*                                                                         *)
(* The safety invariants of the second hold for any number of threads,     *)
(* names and objects.                                                      *)
(***************************************************************************)
EXTENDS Nlru, Resolver, FunctionTheorems, FiniteSetTheorems, SequenceTheorems, TLAPS

(***************************************************************************)
(* The inductive invariant.                                                *)
(***************************************************************************)

\* The list of the record s: ids below n, descending.
ListOK(s, n) ==
  /\ s.list \in Seq(Node)
  /\ \A k \in 1 .. Len(s.list) : s.list[k].id < n
  /\ \A j, k \in 1 .. Len(s.list) : j < k => s.list[j].id > s.list[k].id
  /\ s.size = Len(s.list)

\* The iterators: one for the id of each node, pointing to that node.
NodesOK(s) ==
  /\ s.node = [i \in DOMAIN s.node |-> s.node[i]]
  /\ \A k \in 1 .. Len(s.list) :
       /\ s.list[k].id \in DOMAIN s.node
       /\ s.node[s.list[k].id] = s.list[k]
  /\ \A i \in DOMAIN s.node :
       \E k \in 1 .. Len(s.list) : s.list[k].id = i

\* The labels: an id is filed under its own label and no other, and no label
\* has an empty set.
LabelsOK(s) ==
  /\ s.labelOf \in [DOMAIN s.node -> Labels]
  /\ s.idsOf = [l \in DOMAIN s.idsOf |-> s.idsOf[l]]
  /\ DOMAIN s.idsOf \subseteq Labels
  /\ \A i \in DOMAIN s.node :
       /\ s.labelOf[i] \in DOMAIN s.idsOf
       /\ i \in s.idsOf[s.labelOf[i]]
  /\ \A l \in DOMAIN s.idsOf :
       /\ s.idsOf[l] # {}
       /\ s.idsOf[l] \subseteq DOMAIN s.node
       /\ \A i \in s.idsOf[l] : s.labelOf[i] = l

Sound(s, n) == ListOK(s, n) /\ NodesOK(s) /\ LabelsOK(s)

\* The record of members is sound, the list is within its bound, and before
\* the first insertion no item has come out.
IInv ==
  /\ Sound(lru, next)
  /\ lru.size <= MaxEntries
  /\ next \in 0 .. MaxId
  /\ taken \in Items \union {NoItem}
  /\ evicted \in Items \union {NoItem}
  /\ next = 0 => taken = NoItem /\ evicted = NoItem

-----------------------------------------------------------------------------
(* The list without one of its nodes.                                      *)

LEMMA RemoveAtProperties ==
  ASSUME NEW S, NEW s \in Seq(S), NEW k \in 1 .. Len(s)
  PROVE  /\ RemoveAt(s, k) \in Seq(S)
         /\ Len(RemoveAt(s, k)) = Len(s) - 1
         /\ \A i \in 1 .. Len(s) - 1 :
              RemoveAt(s, k)[i] = IF i < k THEN s[i] ELSE s[i + 1]
<1> DEFINE front == SubSeq(s, 1, k - 1)
           back == SubSeq(s, k + 1, Len(s))
<1>1. Len(s) \in Nat /\ \A i \in 1 .. Len(s) : s[i] \in S
  BY LenProperties, ElementOfSeq
<1>2. /\ front \in Seq(S)
      /\ Len(front) = k - 1
      /\ \A i \in 1 .. k - 1 : front[i] = s[i]
  <2>1. \A i \in 1 .. k - 1 : s[i] \in S
    BY <1>1
  <2>2. 1 \in Int /\ k - 1 \in Int
    BY <1>1
  <2>3. /\ front \in Seq(S)
        /\ Len(front) = IF 1 <= k - 1 THEN (k - 1) - 1 + 1 ELSE 0
        /\ \A i \in 1 .. (k - 1) - 1 + 1 : front[i] = s[1 + i - 1]
    BY ONLY <2>1, <2>2, SubSeqProperties
  <2> QED
    BY ONLY <1>1, <2>3, k \in 1 .. Len(s)
<1>3. /\ back \in Seq(S)
      /\ Len(back) = Len(s) - k
      /\ \A i \in 1 .. Len(s) - k : back[i] = s[k + i]
  <2>1. \A i \in k + 1 .. Len(s) : s[i] \in S
    BY <1>1
  <2>2. k + 1 \in Int /\ Len(s) \in Int
    BY <1>1
  <2>3. /\ back \in Seq(S)
        /\ Len(back) = IF k + 1 <= Len(s) THEN Len(s) - (k + 1) + 1 ELSE 0
        /\ \A i \in 1 .. Len(s) - (k + 1) + 1 : back[i] = s[(k + 1) + i - 1]
    BY ONLY <2>1, <2>2, SubSeqProperties
  <2> QED
    BY ONLY <1>1, <2>3, k \in 1 .. Len(s)
<1> HIDE DEF front, back
<1>4. /\ front \o back \in Seq(S)
      /\ Len(front \o back) = Len(front) + Len(back)
      /\ \A i \in 1 .. Len(front) + Len(back) :
           (front \o back)[i] =
             IF i <= Len(front) THEN front[i] ELSE back[i - Len(front)]
  BY <1>2, <1>3, ConcatProperties
<1>5. RemoveAt(s, k) = front \o back
  BY DEF RemoveAt, front, back
<1>6. ASSUME NEW i \in 1 .. Len(s) - 1
      PROVE  (front \o back)[i] = IF i < k THEN s[i] ELSE s[i + 1]
  <2>1. i \in 1 .. Len(front) + Len(back)
    BY <1>1, <1>2, <1>3
  <2>2. CASE i < k
    BY <1>1, <1>2, <1>4, <2>1, <2>2
  <2>3. CASE ~(i < k)
    <3>1. i - (k - 1) \in 1 .. Len(s) - k
      BY <1>1, <2>3
    <3>2. (front \o back)[i] = back[i - (k - 1)]
      BY <1>1, <1>2, <1>4, <2>1, <2>3
    <3>3. k + (i - (k - 1)) = i + 1
      BY <1>1
    <3> QED
      BY <1>3, <2>3, <3>1, <3>2, <3>3
  <2> QED
    BY <2>2, <2>3
<1>7. Len(front \o back) = Len(s) - 1
  BY <1>1, <1>2, <1>3, <1>4
<1> QED
  BY ONLY <1>4, <1>5, <1>6, <1>7

\* The iterator of an id points to one node of the list, the one erased.
LEMMA ErasedIsRemoved ==
  ASSUME NEW s, NEW n \in Nat, Sound(s, n), NEW id \in DOMAIN s.node
  PROVE  \E k \in 1 .. Len(s.list) :
           /\ s.list[k].id = id
           /\ s.list[k] = s.node[id]
           /\ Erased(s.list, s.node[id]) = RemoveAt(s.list, k)
<1>1. PICK k \in 1 .. Len(s.list) : s.list[k].id = id
  BY DEF Sound, NodesOK
<1>2. s.list[k] = s.node[id]
  BY <1>1 DEF Sound, NodesOK
<1>3. /\ DOMAIN s.list = 1 .. Len(s.list)
      /\ \A j \in 1 .. Len(s.list) : s.list[j] \in Node
      /\ Len(s.list) \in Nat
  BY LenProperties, ElementOfSeq DEF Sound, ListOK
<1>4. ASSUME NEW j \in DOMAIN s.list, s.list[j] = s.node[id]
      PROVE  j = k
  <2>1. s.list[j].id = s.list[k].id /\ s.list[k].id \in Ids
    BY <1>2, <1>3, <1>4 DEF Node
  <2>2. ~(j < k) /\ ~(k < j)
    BY <1>3, <2>1 DEF Sound, ListOK, Ids
  <2> QED
    BY <1>3, <2>2
<1>5. (CHOOSE j \in DOMAIN s.list : s.list[j] = s.node[id]) = k
  BY <1>2, <1>3, <1>4
<1> QED
  BY <1>1, <1>2, <1>5 DEF Erased

-----------------------------------------------------------------------------
(* remove() and insert() keep the record of members sound.                 *)

\* In a sound record the look-ups of remove() fail for unknown ids only.
LEMMA RemovableIsKnown ==
  ASSUME NEW s, NEW n, Sound(s, n), NEW id
  PROVE  Removable(s, id) <=> id \in DOMAIN s.node
<1>1. DOMAIN s.labelOf = DOMAIN s.node
  BY DEF Sound, LabelsOK
<1> QED
  BY <1>1 DEF Removable, Sound, LabelsOK

LEMMA RemovedList ==
  ASSUME NEW s, NEW n \in Nat, Sound(s, n), NEW id \in DOMAIN s.node
  PROVE  /\ ListOK(Removed(s, id), n)
         /\ NodesOK(Removed(s, id))
         /\ Removed(s, id).size = s.size - 1
         /\ DOMAIN Removed(s, id).node = DOMAIN s.node \ {id}
<1> DEFINE r == Removed(s, id)
<1>1. PICK k \in 1 .. Len(s.list) :
        /\ s.list[k].id = id
        /\ Erased(s.list, s.node[id]) = RemoveAt(s.list, k)
  BY ErasedIsRemoved
<1>2. /\ r.list = RemoveAt(s.list, k)
      /\ r.size = s.size - 1
      /\ r.node = Restrict(s.node, DOMAIN s.node \ {id})
  BY <1>1, RemovableIsKnown DEF Removed
<1>3. /\ s.list \in Seq(Node) /\ Len(s.list) \in Nat
      /\ \A j \in 1 .. Len(s.list) : s.list[j] \in Node
  BY LenProperties, ElementOfSeq DEF Sound, ListOK
<1>4. \A j \in 1 .. Len(s.list) : s.list[j].id \in Int
  BY <1>3 DEF Node, Ids
<1>5. /\ r.list \in Seq(Node)
      /\ Len(r.list) = Len(s.list) - 1
      /\ \A i \in 1 .. Len(s.list) - 1 :
           r.list[i] = IF i < k THEN s.list[i] ELSE s.list[i + 1]
  BY <1>2, <1>3, RemoveAtProperties
<1>6. r.node = [i \in DOMAIN s.node \ {id} |-> s.node[i]]
  BY <1>2 DEF Restrict
<1> HIDE DEF r
<1>7. ASSUME NEW i \in 1 .. Len(r.list)
       PROVE  \E ii \in 1 .. Len(s.list) :
                /\ r.list[i] = s.list[ii]
                /\ ii = IF i < k THEN i ELSE i + 1
  <2>1. (IF i < k THEN i ELSE i + 1) \in 1 .. Len(s.list)
    BY <1>3, <1>5
  <2>2. i \in 1 .. Len(s.list) - 1
    BY <1>5
  <2>3. r.list[i] = s.list[IF i < k THEN i ELSE i + 1]
    BY <1>5, <2>2
  <2> QED
    BY <2>1, <2>3
<1>8. ListOK(r, n)
  <2>1. \A j \in 1 .. Len(r.list) : r.list[j].id < n
    BY <1>7 DEF Sound, ListOK
  <2>2. \A i, j \in 1 .. Len(r.list) : i < j => r.list[i].id > r.list[j].id
    <3> SUFFICES ASSUME NEW i \in 1 .. Len(r.list), NEW j \in 1 .. Len(r.list), i < j
                 PROVE  r.list[i].id > r.list[j].id
      OBVIOUS
    <3>1. PICK ii \in 1 .. Len(s.list) :
            r.list[i] = s.list[ii] /\ ii = IF i < k THEN i ELSE i + 1
      BY <1>7
    <3>2. PICK jj \in 1 .. Len(s.list) :
            r.list[j] = s.list[jj] /\ jj = IF j < k THEN j ELSE j + 1
      BY <1>7
    <3>3. ii < jj
      BY <1>3, <1>5, <3>1, <3>2
    <3> QED
      BY <3>1, <3>2, <3>3 DEF Sound, ListOK
  <2>3. r.size = Len(r.list)
    BY <1>2, <1>5 DEF r, Sound, ListOK
  <2> QED
    BY <1>5, <2>1, <2>2, <2>3 DEF ListOK
<1>9. NodesOK(r)
  <2>1. ASSUME NEW j \in 1 .. Len(r.list)
        PROVE  /\ r.list[j].id \in DOMAIN r.node
               /\ r.node[r.list[j].id] = r.list[j]
    <3>1. PICK jj \in 1 .. Len(s.list) :
            r.list[j] = s.list[jj] /\ jj = IF j < k THEN j ELSE j + 1
      BY <1>7
    <3>2. jj # k
      BY <1>3, <1>5, <3>1
    <3>3. s.list[jj].id # id
      <4>1. jj < k \/ k < jj
        BY <1>3, <3>2
      <4>2. s.list[jj].id > s.list[k].id \/ s.list[k].id > s.list[jj].id
        BY <4>1 DEF Sound, ListOK
      <4> QED
        BY <1>1, <1>4, <4>2
    <3>4. /\ s.list[jj].id \in DOMAIN s.node
          /\ s.node[s.list[jj].id] = s.list[jj]
      BY DEF Sound, NodesOK
    <3> QED
      BY <1>6, <3>1, <3>3, <3>4
  <2>2. ASSUME NEW i \in DOMAIN r.node
        PROVE  \E j \in 1 .. Len(r.list) : r.list[j].id = i
    <3>1. PICK ii \in 1 .. Len(s.list) : s.list[ii].id = i
      BY <1>6 DEF Sound, NodesOK
    <3>2. ii # k
      BY <1>1, <1>6, <3>1
    <3>3. PICK j \in 1 .. Len(r.list) : j = IF ii < k THEN ii ELSE ii - 1
      BY <1>3, <1>5, <3>2
    <3>4. r.list[j] = s.list[ii]
      BY <1>3, <1>5, <3>2, <3>3
    <3> QED
      BY <3>1, <3>4
  <2> QED
    BY <1>6, <2>1, <2>2 DEF NodesOK
<1> QED
  BY <1>2, <1>6, <1>8, <1>9 DEF r

LEMMA RemovedLabels ==
  ASSUME NEW s, NEW n \in Nat, Sound(s, n), NEW id \in DOMAIN s.node
  PROVE  LabelsOK(Removed(s, id))
<1> DEFINE r == Removed(s, id)
           label == s.labelOf[id]
           rest == s.idsOf[label] \ {id}
<1>1. /\ r.node = [i \in DOMAIN s.node \ {id} |-> s.node[i]]
      /\ r.idsOf = Unfiled(s.idsOf, label, id)
      /\ r.labelOf = [i \in DOMAIN s.labelOf \ {id} |-> s.labelOf[i]]
  BY RemovableIsKnown DEF Removed, Restrict
<1>2. /\ s.labelOf \in [DOMAIN s.node -> Labels]
      /\ DOMAIN s.labelOf = DOMAIN s.node
      /\ label \in DOMAIN s.idsOf
      /\ DOMAIN s.idsOf \subseteq Labels
  BY DEF Sound, LabelsOK
<1>3. \A l \in DOMAIN s.idsOf :
        /\ s.idsOf[l] # {}
        /\ s.idsOf[l] \subseteq DOMAIN s.node
        /\ \A i \in s.idsOf[l] : s.labelOf[i] = l
  BY DEF Sound, LabelsOK
<1>4. \A i \in DOMAIN s.node : i \in s.idsOf[s.labelOf[i]] /\ s.labelOf[i] \in DOMAIN s.idsOf
  BY DEF Sound, LabelsOK
<1>5. DOMAIN r.node = DOMAIN s.node \ {id}
  BY <1>1
<1>6. CASE rest = {}
  <2>1. r.idsOf = [l \in DOMAIN s.idsOf \ {label} |-> s.idsOf[l]]
    BY <1>1, <1>6 DEF Unfiled, Restrict
  <2>2. \A i \in DOMAIN r.node : s.labelOf[i] # label
    BY <1>4, <1>5, <1>6
  <2> HIDE DEF r, label
  <2>3. \A l \in DOMAIN r.idsOf : id \notin r.idsOf[l]
    BY <1>3, <2>1 DEF label
  <2> QED
    BY <1>1, <1>2, <1>3, <1>4, <1>5, <2>1, <2>2, <2>3 DEF LabelsOK, r
<1>7. CASE rest # {}
  <2>1. r.idsOf = [s.idsOf EXCEPT ![label] = rest]
    BY <1>1, <1>7 DEF Unfiled
  <2> HIDE DEF r, label, rest
  <2>2. r.idsOf = [l \in DOMAIN s.idsOf |-> IF l = label THEN rest ELSE s.idsOf[l]]
    BY <2>1
  <2>4. /\ DOMAIN r.idsOf = DOMAIN s.idsOf
        /\ r.idsOf[label] = rest
        /\ \A l \in DOMAIN s.idsOf \ {label} : r.idsOf[l] = s.idsOf[l]
    BY <1>2, <2>2
  <2>5. \A i \in DOMAIN r.node :
          r.labelOf[i] \in DOMAIN r.idsOf /\ i \in r.idsOf[r.labelOf[i]]
    <3> SUFFICES ASSUME NEW i \in DOMAIN r.node
                 PROVE  r.labelOf[i] \in DOMAIN r.idsOf /\ i \in r.idsOf[r.labelOf[i]]
      OBVIOUS
    <3>1. i \in DOMAIN s.node /\ i # id /\ r.labelOf[i] = s.labelOf[i]
      BY <1>1, <1>2, <1>5
    <3> QED
      BY <1>4, <2>4, <3>1 DEF rest
  <2>3. \A l \in DOMAIN r.idsOf : id \notin r.idsOf[l]
    BY <1>3, <2>4 DEF label, rest
  <2>6. \A l \in DOMAIN r.idsOf :
          /\ r.idsOf[l] # {}
          /\ r.idsOf[l] \subseteq DOMAIN r.node
          /\ \A i \in r.idsOf[l] : r.labelOf[i] = l
    BY <1>1, <1>2, <1>3, <1>5, <1>7, <2>3, <2>4 DEF rest
  <2>7. r.labelOf \in [DOMAIN r.node -> Labels]
    BY <1>1, <1>2, <1>5
  <2> QED
    BY <1>2, <2>2, <2>4, <2>5, <2>6, <2>7 DEF LabelsOK, r
<1> QED
  BY <1>6, <1>7

LEMMA RemovedSound ==
  ASSUME NEW s, NEW n \in Nat, Sound(s, n), NEW id
  PROVE  /\ Sound(Removed(s, id), n)
         /\ Removed(s, id).size <= s.size
         /\ id \in DOMAIN s.node => Removed(s, id).size = s.size - 1
         /\ id \notin DOMAIN s.node => Removed(s, id) = s
<1>1. s.size \in Nat
  BY LenProperties DEF Sound, ListOK
<1>2. CASE id \in DOMAIN s.node
  BY <1>1, <1>2, RemovedList, RemovedLabels DEF Sound
<1>3. CASE id \notin DOMAIN s.node
  <2>1. Removed(s, id) = s
    BY <1>3, RemovableIsKnown DEF Removed
  <2> QED
    BY <1>1, <1>3, <2>1
<1> QED
  BY <1>2, <1>3

\* insert() pushes the node of a new, greater id.
LEMMA InsertedList ==
  ASSUME NEW s, NEW n \in Ids, Sound(s, n), NEW label \in Labels, NEW item \in Items
  PROVE  /\ ListOK(Inserted(s, n, label, item), n + 1)
         /\ NodesOK(Inserted(s, n, label, item))
         /\ Inserted(s, n, label, item).size = s.size + 1
         /\ Inserted(s, n, label, item).list # <<>>
<1> DEFINE r == Inserted(s, n, label, item)
           new == [id |-> n, item |-> item]
<1>1. /\ s.list \in Seq(Node) /\ Len(s.list) \in Nat
      /\ \A j \in 1 .. Len(s.list) : s.list[j] \in Node
  BY LenProperties, ElementOfSeq DEF Sound, ListOK
<1>2. new \in Node /\ n \in Nat
  BY DEF Node, Ids
<1>3. /\ r.list = <<new>> \o s.list
      /\ r.size = s.size + 1
      /\ r.node = [i \in DOMAIN s.node \union {n} |-> IF i = n THEN new ELSE s.node[i]]
  BY DEF Inserted
<1> HIDE DEF r
<1>4. /\ <<new>> \in Seq(Node)
      /\ Len(<<new>>) = 1
      /\ <<new>>[1] = new
  BY <1>2
<1> HIDE DEF new
<1>5. /\ r.list \in Seq(Node)
      /\ Len(r.list) = Len(s.list) + 1
      /\ r.list[1] = new
      /\ \A i \in 2 .. Len(s.list) + 1 : r.list[i] = s.list[i - 1]
  <2>1. /\ r.list \in Seq(Node)
        /\ Len(r.list) = 1 + Len(s.list)
        /\ \A i \in 1 .. 1 + Len(s.list) :
             r.list[i] = IF i <= 1 THEN <<new>>[i] ELSE s.list[i - 1]
    BY <1>1, <1>3, <1>4, ConcatProperties
  <2> QED
    BY <1>1, <1>4, <2>1
<1>6. new.id = n
  BY DEF new
<1>7. ListOK(r, n + 1)
  <2>1. \A j \in 1 .. Len(r.list) : r.list[j].id < n + 1
    <3> SUFFICES ASSUME NEW j \in 1 .. Len(r.list) PROVE r.list[j].id < n + 1
      OBVIOUS
    <3>1. CASE j = 1
      BY <1>2, <1>5, <1>6, <3>1
    <3>2. CASE j # 1
      <4>1. j - 1 \in 1 .. Len(s.list) /\ r.list[j] = s.list[j - 1]
        BY <1>1, <1>5, <3>2
      <4>2. s.list[j - 1].id < n /\ s.list[j - 1].id \in Int
        BY <1>1, <4>1 DEF Sound, ListOK, Node, Ids
      <4> QED
        BY <1>2, <4>1, <4>2
    <3> QED
      BY <3>1, <3>2
  <2>2. \A i, j \in 1 .. Len(r.list) : i < j => r.list[i].id > r.list[j].id
    <3> SUFFICES ASSUME NEW i \in 1 .. Len(r.list), NEW j \in 1 .. Len(r.list), i < j
                 PROVE  r.list[i].id > r.list[j].id
      OBVIOUS
    <3>1. j - 1 \in 1 .. Len(s.list) /\ r.list[j] = s.list[j - 1]
      BY <1>1, <1>5
    <3>2. CASE i = 1
      <4>1. s.list[j - 1].id < n /\ s.list[j - 1].id \in Int
        BY <1>1, <3>1 DEF Sound, ListOK, Node, Ids
      <4> QED
        BY <1>2, <1>5, <1>6, <3>1, <3>2, <4>1
    <3>3. CASE i # 1
      <4>1. i - 1 \in 1 .. Len(s.list) /\ r.list[i] = s.list[i - 1] /\ i - 1 < j - 1
        BY <1>1, <1>5, <3>3
      <4> QED
        BY <3>1, <4>1 DEF Sound, ListOK
    <3> QED
      BY <3>2, <3>3
  <2>3. r.size = Len(r.list)
    BY <1>3, <1>5 DEF Sound, ListOK
  <2> QED
    BY <1>5, <2>1, <2>2, <2>3 DEF ListOK
<1>8. NodesOK(r)
  <2>1. ASSUME NEW j \in 1 .. Len(r.list)
        PROVE  /\ r.list[j].id \in DOMAIN r.node
               /\ r.node[r.list[j].id] = r.list[j]
    <3>1. CASE j = 1
      BY <1>3, <1>5, <1>6, <3>1
    <3>2. CASE j # 1
      <4>1. j - 1 \in 1 .. Len(s.list) /\ r.list[j] = s.list[j - 1]
        BY <1>1, <1>5, <3>2
      <4>2. s.list[j - 1].id # n
        BY <1>1, <1>2, <4>1 DEF Sound, ListOK, Node, Ids
      <4>3. /\ s.list[j - 1].id \in DOMAIN s.node
            /\ s.node[s.list[j - 1].id] = s.list[j - 1]
        BY <4>1 DEF Sound, NodesOK
      <4> QED
        BY <1>3, <4>1, <4>2, <4>3
    <3> QED
      BY <3>1, <3>2
  <2>2. ASSUME NEW i \in DOMAIN r.node
        PROVE  \E j \in 1 .. Len(r.list) : r.list[j].id = i
    <3>1. CASE i = n
      <4>1. 1 \in 1 .. Len(r.list)
        BY <1>1, <1>5
      <4> QED
        BY <1>5, <1>6, <3>1, <4>1
    <3>2. CASE i # n
      <4>1. PICK k \in 1 .. Len(s.list) : s.list[k].id = i
        BY <1>3, <3>2 DEF Sound, NodesOK
      <4>2. k + 1 \in 2 .. Len(s.list) + 1 /\ (k + 1) - 1 = k
        BY <1>1
      <4> QED
        BY <1>1, <1>5, <4>1, <4>2
    <3> QED
      BY <3>1, <3>2
  <2> QED
    BY <1>3, <2>1, <2>2 DEF NodesOK
<1>9. r.list # <<>>
  BY <1>1, <1>5, EmptySeq
<1> QED
  BY <1>3, <1>7, <1>8, <1>9 DEF r

LEMMA InsertedLabels ==
  ASSUME NEW s, NEW n \in Ids, Sound(s, n), NEW label \in Labels, NEW item \in Items
  PROVE  LabelsOK(Inserted(s, n, label, item))
<1> DEFINE r == Inserted(s, n, label, item)
<1>1. /\ DOMAIN r.node = DOMAIN s.node \union {n}
      /\ r.labelOf = [i \in DOMAIN s.labelOf \union {n} |->
                        IF i = n THEN label ELSE s.labelOf[i]]
      /\ r.idsOf = [l \in DOMAIN s.idsOf \union {label} |->
                      (IF l \in DOMAIN s.idsOf THEN s.idsOf[l] ELSE {})
                        \union (IF l = label THEN {n} ELSE {})]
  BY DEF Inserted, Filed
<1> HIDE DEF r
<1>2. /\ s.labelOf \in [DOMAIN s.node -> Labels]
      /\ DOMAIN s.labelOf = DOMAIN s.node
      /\ DOMAIN s.idsOf \subseteq Labels
  BY DEF Sound, LabelsOK
<1>3. /\ \A i \in DOMAIN s.node :
           s.labelOf[i] \in DOMAIN s.idsOf /\ i \in s.idsOf[s.labelOf[i]]
      /\ \A l \in DOMAIN s.idsOf :
           /\ s.idsOf[l] # {}
           /\ s.idsOf[l] \subseteq DOMAIN s.node
           /\ \A i \in s.idsOf[l] : s.labelOf[i] = l
  BY DEF Sound, LabelsOK
<1>4. n \notin DOMAIN s.node
  <2> SUFFICES ASSUME n \in DOMAIN s.node PROVE FALSE
    OBVIOUS
  <2>1. PICK k \in 1 .. Len(s.list) : s.list[k].id = n
    BY DEF Sound, NodesOK
  <2> QED
    BY <2>1 DEF Sound, ListOK, Ids
<1>5. \A i \in DOMAIN r.node :
        r.labelOf[i] \in DOMAIN r.idsOf /\ i \in r.idsOf[r.labelOf[i]]
  <2> SUFFICES ASSUME NEW i \in DOMAIN r.node
               PROVE  r.labelOf[i] \in DOMAIN r.idsOf /\ i \in r.idsOf[r.labelOf[i]]
    OBVIOUS
  <2>1. CASE i = n
    BY <1>1, <1>2, <2>1
  <2>2. CASE i # n
    BY <1>1, <1>2, <1>3, <2>2
  <2> QED
    BY <2>1, <2>2
<1>6. \A l \in DOMAIN r.idsOf :
        /\ r.idsOf[l] # {}
        /\ r.idsOf[l] \subseteq DOMAIN r.node
        /\ \A i \in r.idsOf[l] : r.labelOf[i] = l
  <2> SUFFICES ASSUME NEW l \in DOMAIN r.idsOf
               PROVE  /\ r.idsOf[l] # {}
                      /\ r.idsOf[l] \subseteq DOMAIN r.node
                      /\ \A i \in r.idsOf[l] : r.labelOf[i] = l
    OBVIOUS
  <2>1. CASE l = label
    BY <1>1, <1>2, <1>3, <1>4, <2>1
  <2>2. CASE l # label
    BY <1>1, <1>2, <1>3, <1>4, <2>2
  <2> QED
    BY <2>1, <2>2
<1>7. r.labelOf \in [DOMAIN r.node -> Labels]
  BY <1>1, <1>2
<1>8. r.idsOf = [l \in DOMAIN r.idsOf |-> r.idsOf[l]] /\ DOMAIN r.idsOf \subseteq Labels
  BY <1>1, <1>2
<1> QED
  BY <1>5, <1>6, <1>7, <1>8 DEF LabelsOK, r

LEMMA InsertedSound ==
  ASSUME NEW s, NEW n \in Ids, Sound(s, n), NEW label \in Labels, NEW item \in Items
  PROVE  /\ Sound(Inserted(s, n, label, item), n + 1)
         /\ Inserted(s, n, label, item).size = s.size + 1
         /\ Inserted(s, n, label, item).list # <<>>
BY InsertedList, InsertedLabels DEF Sound

\* The back of the list is a known id, and its node the one evict() reports.
LEMMA BackIsKnown ==
  ASSUME NEW s, NEW n, Sound(s, n), s.list # <<>>
  PROVE  /\ Last(s.list).id \in DOMAIN s.node
         /\ s.node[Last(s.list).id] = Last(s.list)
         /\ Last(s.list) \in Node
<1>1. Len(s.list) \in Nat \ {0}
  BY EmptySeq DEF Sound, ListOK
<1>2. Len(s.list) \in 1 .. Len(s.list)
  BY <1>1
<1> QED
  BY <1>2, ElementOfSeq DEF Last, Sound, NodesOK, ListOK

-----------------------------------------------------------------------------
(* The invariant is inductive.                                             *)

LEMMA InitIInv == Init => IInv
<1> SUFFICES ASSUME Init PROVE IInv
  OBVIOUS
<1>1. /\ lru.list = <<>> /\ lru.size = 0
      /\ lru.node = [x \in {} |-> {}]
      /\ lru.idsOf = [x \in {} |-> {}]
      /\ lru.labelOf = [x \in {} |-> {}]
      /\ next = 0 /\ taken = NoItem /\ evicted = NoItem
  BY DEF Init, EmptyFn
<1>2. lru.list \in Seq(Node) /\ Len(lru.list) = 0
  BY <1>1, EmptySeq
<1>3. ListOK(lru, next)
  BY <1>1, <1>2 DEF ListOK
<1>4. NodesOK(lru)
  BY <1>1, <1>2 DEF NodesOK
<1>5. LabelsOK(lru)
  BY <1>1 DEF LabelsOK
<1> QED
  BY <1>1, <1>3, <1>4, <1>5, MaxEntriesAssumption, MaxIdAssumption DEF IInv, Sound

\* The eviction after an insertion that made the list too long.
LEMMA InsertStep ==
  ASSUME IInv, NEW label \in Labels, NEW item \in Items, Insert(label, item)
  PROVE  IInv'
<1> DEFINE grown == Inserted(lru, next, label, item)
<1>1. next \in Ids /\ next + 1 \in 0 .. MaxId /\ next + 1 \in Nat /\ next' = next + 1
      /\ taken' = NoItem
  BY MaxIdAssumption DEF IInv, Insert, Ids
<1>2. /\ Sound(grown, next + 1)
      /\ grown.size = lru.size + 1
      /\ grown.list # <<>>
  BY <1>1, InsertedSound DEF IInv
<1>3. lru.size \in Nat /\ lru.size <= MaxEntries
  BY LenProperties DEF IInv, Sound, ListOK
<1>4. \/ grown.size > MaxEntries /\ EvictFrom(grown)
      \/ grown.size <= MaxEntries /\ lru' = grown /\ evicted' = NoItem
  BY <1>2, <1>3, MaxEntriesAssumption DEF Insert
<1>5. next' # 0
  BY <1>1, MaxIdAssumption DEF Ids
<1> HIDE DEF grown
<1>6. CASE grown.size > MaxEntries /\ EvictFrom(grown)
  <2>1. evicted' = Last(grown.list).item /\ lru' = Removed(grown, Last(grown.list).id)
    BY <1>2, <1>6 DEF EvictFrom
  <2>2. Last(grown.list).id \in DOMAIN grown.node /\ Last(grown.list) \in Node
    BY <1>1, <1>2, BackIsKnown
  <2>3. Sound(Removed(grown, Last(grown.list).id), next + 1)
        /\ Removed(grown, Last(grown.list).id).size = grown.size - 1
    BY <1>1, <1>2, <2>2, RemovedSound
  <2>4. evicted' \in Items
    BY <2>1, <2>2 DEF Node
  <2>5. Sound(lru', next')
    BY <1>1, <2>1, <2>3
  <2>6. lru'.size <= MaxEntries
    BY <1>2, <1>3, <2>1, <2>3, MaxEntriesAssumption
  <2> QED
    BY <1>1, <1>5, <2>4, <2>5, <2>6 DEF IInv
<1>7. CASE grown.size <= MaxEntries /\ lru' = grown /\ evicted' = NoItem
  <2>1. Sound(lru', next')
    BY <1>1, <1>2, <1>7
  <2> QED
    BY <1>1, <1>5, <1>7, <2>1 DEF IInv
<1> QED
  BY <1>4, <1>6, <1>7

LEMMA EvictStep == IInv /\ Evict => IInv'
<1> SUFFICES ASSUME IInv, Evict PROVE IInv'
  OBVIOUS
<1>1. /\ Sound(lru, next) /\ next \in Nat /\ next' = next /\ taken' = NoItem
      /\ lru.size \in Nat /\ lru.size <= MaxEntries
  BY LenProperties DEF IInv, Sound, ListOK, Evict
<1>2. CASE lru.list = <<>>
  BY <1>1, <1>2 DEF IInv, Evict, EvictFrom
<1>3. CASE lru.list # <<>>
  <2>1. evicted' = Last(lru.list).item /\ lru' = Removed(lru, Last(lru.list).id)
    BY <1>3 DEF Evict, EvictFrom
  <2>2. Last(lru.list).id \in DOMAIN lru.node /\ Last(lru.list) \in Node
    BY <1>1, <1>3, BackIsKnown
  <2>3. Sound(Removed(lru, Last(lru.list).id), next)
        /\ Removed(lru, Last(lru.list).id).size = lru.size - 1
    BY <1>1, <2>2, RemovedSound
  <2>4. evicted' \in Items
    BY <2>1, <2>2 DEF Node
  <2>5. Sound(lru', next')
    BY <1>1, <2>1, <2>3
  <2>6. lru'.size <= MaxEntries
    BY <1>1, <2>1, <2>3, MaxEntriesAssumption
  <2>7. next # 0
    <3>1. Last(lru.list).id \in Ids /\ Last(lru.list).id < next
      <4>1. Len(lru.list) \in 1 .. Len(lru.list)
        BY <1>1, <1>3, EmptySeq DEF Sound, ListOK
      <4> QED
        BY <1>1, <2>2, <4>1 DEF Last, Sound, ListOK, Node
    <3> QED
      BY <3>1 DEF Ids
  <2> QED
    BY <1>1, <2>4, <2>5, <2>6, <2>7 DEF IInv
<1> QED
  BY <1>2, <1>3

LEMMA GetStep ==
  ASSUME IInv, NEW label \in Labels, Get(label)
  PROVE  IInv'
<1>1. /\ Sound(lru, next) /\ next \in Nat /\ next' = next /\ evicted' = NoItem
      /\ lru.size \in Nat /\ lru.size <= MaxEntries
  BY LenProperties DEF IInv, Sound, ListOK, Get
<1>2. PICK id \in DOMAIN lru.node : taken' = lru.node[id].item /\ lru' = Removed(lru, id)
  BY DEF Get
<1>3. PICK k \in 1 .. Len(lru.list) : lru.list[k] = lru.node[id]
  BY <1>1, ErasedIsRemoved
<1>4. lru.list[k] \in Node /\ lru.list[k].id < next
  BY <1>1, ElementOfSeq DEF Sound, ListOK
<1>5. taken' \in Items /\ next # 0
  BY <1>2, <1>3, <1>4 DEF Node, Ids
<1>6. Sound(Removed(lru, id), next) /\ Removed(lru, id).size <= lru.size
  BY <1>1, RemovedSound
<1>7. Removed(lru, id).size = lru.size - 1
  BY <1>1, RemovedSound
<1>8. Sound(lru', next') /\ lru'.size <= MaxEntries
  BY <1>1, <1>2, <1>6, <1>7, MaxEntriesAssumption
<1> QED
  BY <1>1, <1>5, <1>8 DEF IInv

LEMMA RemoveIdStep ==
  ASSUME IInv, NEW id \in Ids, RemoveId(id)
  PROVE  IInv'
<1>1. /\ Sound(lru, next) /\ next \in Nat /\ next' = next
      /\ taken' = NoItem /\ evicted' = NoItem /\ lru' = Removed(lru, id)
      /\ lru.size \in Nat /\ lru.size <= MaxEntries
  BY LenProperties DEF IInv, Sound, ListOK, RemoveId
<1>2. CASE id \in DOMAIN lru.node
  <2>1. Sound(Removed(lru, id), next) /\ Removed(lru, id).size = lru.size - 1
    BY <1>1, <1>2, RemovedSound
  <2>2. Sound(lru', next') /\ lru'.size <= MaxEntries
    BY <1>1, <2>1, MaxEntriesAssumption
  <2> QED
    BY <1>1, <2>2 DEF IInv
<1>3. CASE id \notin DOMAIN lru.node
  <2>1. lru' = lru
    BY <1>1, <1>3, RemovedSound
  <2> QED
    BY <1>1, <2>1 DEF IInv
<1> QED
  BY <1>2, <1>3

LEMMA NextIInv == IInv /\ [Next]_vars => IInv'
<1> SUFFICES ASSUME IInv, [Next]_vars PROVE IInv'
  OBVIOUS
<1>1. CASE UNCHANGED vars
  BY <1>1 DEF vars, IInv
<1>2. CASE Next
  BY <1>2, InsertStep, EvictStep, GetStep, RemoveIdStep DEF Next
<1> QED
  BY <1>1, <1>2

\* Every reachable state has sound members: the list in order and its
\* indexes in step.
THEOREM Invariance == Spec => []IInv
BY InitIInv, NextIInv, PTL DEF Spec

LEMMA SoundAgrees == IInv => IndexesAgree
<1> SUFFICES ASSUME IInv PROVE IndexesAgree
  OBVIOUS
<1>1. /\ lru.list \in Seq(Node) /\ Len(lru.list) \in Nat
      /\ DOMAIN lru.list = 1 .. Len(lru.list)
      /\ \A k \in 1 .. Len(lru.list) : lru.list[k] \in Node
      /\ lru.size = Len(lru.list)
  BY LenProperties, ElementOfSeq DEF IInv, Sound, ListOK
<1>2. /\ lru.node = [i \in DOMAIN lru.node |-> lru.node[i]]
      /\ \A k \in DOMAIN lru.list :
           /\ lru.list[k].id \in DOMAIN lru.node
           /\ lru.node[lru.list[k].id] = lru.list[k]
      /\ \A i \in DOMAIN lru.node : \E k \in DOMAIN lru.list : lru.list[k].id = i
  BY <1>1 DEF IInv, Sound, NodesOK
<1>3. \A i \in DOMAIN lru.node :
        /\ lru.node[i] \in Node
        /\ lru.node[i].id = i
        /\ \E k \in DOMAIN lru.list : lru.list[k] = lru.node[i]
        /\ i \in Ids
  BY <1>1, <1>2 DEF Node
<1>4. ToSet(lru.list) = {lru.node[i] : i \in DOMAIN lru.node}
  <2>1. ToSet(lru.list) \subseteq {lru.node[i] : i \in DOMAIN lru.node}
    <3> SUFFICES ASSUME NEW k \in DOMAIN lru.list
                 PROVE  lru.list[k] \in {lru.node[i] : i \in DOMAIN lru.node}
      BY DEF ToSet
    <3> QED
      BY <1>2
  <2>2. {lru.node[i] : i \in DOMAIN lru.node} \subseteq ToSet(lru.list)
    <3> SUFFICES ASSUME NEW i \in DOMAIN lru.node
                 PROVE  lru.node[i] \in ToSet(lru.list)
      OBVIOUS
    <3> QED
      BY <1>3 DEF ToSet
  <2> QED
    BY <2>1, <2>2
<1>5. /\ lru.labelOf \in [DOMAIN lru.node -> Labels]
      /\ lru.idsOf = [l \in DOMAIN lru.idsOf |-> lru.idsOf[l]]
      /\ DOMAIN lru.idsOf \subseteq Labels
      /\ \A i \in DOMAIN lru.node :
           lru.labelOf[i] \in DOMAIN lru.idsOf /\ i \in lru.idsOf[lru.labelOf[i]]
      /\ \A l \in DOMAIN lru.idsOf :
           /\ lru.idsOf[l] # {}
           /\ lru.idsOf[l] \subseteq DOMAIN lru.node
           /\ \A i \in lru.idsOf[l] : lru.labelOf[i] = l
  BY DEF IInv, Sound, LabelsOK
<1>6. DOMAIN lru.labelOf = DOMAIN lru.node
  BY <1>5
<1>7. UNION {lru.idsOf[l] : l \in DOMAIN lru.idsOf} = DOMAIN lru.labelOf
  <2>1. UNION {lru.idsOf[l] : l \in DOMAIN lru.idsOf} \subseteq DOMAIN lru.node
    BY <1>5
  <2>2. DOMAIN lru.node \subseteq UNION {lru.idsOf[l] : l \in DOMAIN lru.idsOf}
    <3> SUFFICES ASSUME NEW i \in DOMAIN lru.node
                 PROVE  \E l \in DOMAIN lru.idsOf : i \in lru.idsOf[l]
      OBVIOUS
    <3> QED
      BY <1>5
  <2> QED
    BY <1>6, <2>1, <2>2
<1>8. DOMAIN lru.node \subseteq Ids
  BY <1>3
<1>9. lru.idsOf \in [DOMAIN lru.idsOf -> SUBSET Ids]
  BY <1>5, <1>8
<1>10. lru.node \in [DOMAIN lru.node -> Node]
  BY <1>2, <1>3
<1>11. TypeOK
  BY <1>1, <1>5, <1>6, <1>8, <1>9, <1>10 DEF TypeOK, IInv
<1> QED
  BY <1>1, <1>3, <1>4, <1>5, <1>6, <1>7, <1>11 DEF IndexesAgree

\* nlru.h keeps its list and its three maps in step, for every number of
\* entries, so no look-up of remove() ever fails for an id that is cached.
THEOREM NlruIndexesAgree == Spec => []IndexesAgree
BY Invariance, SoundAgrees, PTL

-----------------------------------------------------------------------------
(* nlru implements the bounded cache of LruSpec.                           *)

\* The cache that a record of members stands for.
View(s) ==
  [i \in DOMAIN s.labelOf |-> [label |-> s.labelOf[i], item |-> s.node[i].item]]

LEMMA ViewDomain ==
  ASSUME NEW s, NEW n, Sound(s, n)
  PROVE  /\ DOMAIN View(s) = DOMAIN s.node
         /\ DOMAIN s.labelOf = DOMAIN s.node
         /\ \A i \in DOMAIN s.node :
              View(s)[i] = [label |-> s.labelOf[i], item |-> s.node[i].item]
BY DEF View, Sound, LabelsOK

LEMMA ViewRemoved ==
  ASSUME NEW s, NEW n \in Nat, Sound(s, n), NEW id
  PROVE  View(Removed(s, id)) = Abstract!LruWithout(View(s), id)
<1>1. CASE id \in DOMAIN s.node
  <2>1. /\ Removed(s, id).node = [i \in DOMAIN s.node \ {id} |-> s.node[i]]
        /\ Removed(s, id).labelOf = [i \in DOMAIN s.labelOf \ {id} |-> s.labelOf[i]]
    BY <1>1, RemovableIsKnown DEF Removed, Restrict
  <2> QED
    BY <2>1, ViewDomain DEF View, Abstract!LruWithout, Abstract!Restrict
<1>2. CASE id \notin DOMAIN s.node
  <2>1. Removed(s, id) = s
    BY <1>2, RemovedSound
  <2>2. DOMAIN View(s) \ {id} = DOMAIN View(s)
    BY <1>2, ViewDomain
  <2>3. View(s) = [i \in DOMAIN View(s) |-> View(s)[i]]
    BY DEF View
  <2> QED
    BY <2>1, <2>2, <2>3 DEF Abstract!LruWithout, Abstract!Restrict
<1> QED
  BY <1>1, <1>2

LEMMA ViewInserted ==
  ASSUME NEW s, NEW n \in Ids, Sound(s, n), NEW label \in Labels, NEW item \in Items
  PROVE  View(Inserted(s, n, label, item)) =
           Abstract!LruWith(View(s), n, [label |-> label, item |-> item])
<1> DEFINE r == Inserted(s, n, label, item)
<1>1. /\ r.node = [i \in DOMAIN s.node \union {n} |->
                     IF i = n THEN [id |-> n, item |-> item] ELSE s.node[i]]
      /\ r.labelOf = [i \in DOMAIN s.node \union {n} |->
                        IF i = n THEN label ELSE s.labelOf[i]]
  BY ViewDomain DEF Inserted
<1> HIDE DEF r
<1>2. \A i \in DOMAIN s.node \union {n} :
        [label |-> r.labelOf[i], item |-> r.node[i].item] =
          IF i = n THEN [label |-> label, item |-> item] ELSE View(s)[i]
  BY <1>1, ViewDomain
<1>3. DOMAIN r.labelOf = DOMAIN s.node \union {n}
  BY <1>1
<1>4. View(r) = [i \in DOMAIN s.node \union {n} |->
                   IF i = n THEN [label |-> label, item |-> item] ELSE View(s)[i]]
  BY <1>2, <1>3 DEF View
<1> QED
  BY <1>4, ViewDomain DEF r, Abstract!LruWith

\* The back of the list is the least id, the oldest entry of the cache.
LEMMA ViewBack ==
  ASSUME NEW s, NEW n, Sound(s, n), s.list # <<>>
  PROVE  /\ Last(s.list).id \in Abstract!LruBack(View(s))
         /\ View(s)[Last(s.list).id].item = Last(s.list).item
<1>1. Len(s.list) \in Nat \ {0} /\ \A k \in 1 .. Len(s.list) : s.list[k] \in Node
  BY EmptySeq, ElementOfSeq DEF Sound, ListOK
<1>2. /\ Last(s.list).id \in DOMAIN s.node
      /\ s.node[Last(s.list).id] = Last(s.list)
  BY BackIsKnown
<1>3. ASSUME NEW i \in DOMAIN s.node
      PROVE  Last(s.list).id <= i
  <2>1. PICK k \in 1 .. Len(s.list) : s.list[k].id = i
    BY DEF Sound, NodesOK
  <2>2. CASE k = Len(s.list)
    BY <1>1, <2>1, <2>2 DEF Last, Node, Ids
  <2>3. CASE k # Len(s.list)
    <3>1. k < Len(s.list) /\ Len(s.list) \in 1 .. Len(s.list)
      BY <1>1, <2>3
    <3>2. s.list[k].id > s.list[Len(s.list)].id
      BY <3>1 DEF Sound, ListOK
    <3>3. s.list[k].id \in Int /\ s.list[Len(s.list)].id \in Int
      BY <1>1, <3>1 DEF Node, Ids
    <3> QED
      BY <2>1, <3>2, <3>3 DEF Last
  <2> QED
    BY <2>2, <2>3
<1> DEFINE back == Last(s.list).id
<1>4. /\ DOMAIN View(s) = DOMAIN s.node
      /\ View(s)[back] = [label |-> s.labelOf[back], item |-> s.node[back].item]
  BY <1>2, ViewDomain
<1>5. back \in Abstract!LruBack(View(s))
  BY <1>2, <1>3, <1>4 DEF Abstract!LruBack
<1>6. View(s)[back].item = s.node[back].item
  BY <1>4
<1> QED
  BY <1>2, <1>5, <1>6

\* The list has one node per entry of the cache.
LEMMA ViewSize ==
  ASSUME NEW s, NEW n, Sound(s, n)
  PROVE  Abstract!Cardinality(DOMAIN View(s)) = s.size
<1>1. /\ Len(s.list) \in Nat /\ s.size = Len(s.list)
      /\ \A k \in 1 .. Len(s.list) : s.list[k] \in Node
  BY LenProperties, ElementOfSeq DEF Sound, ListOK
<1> DEFINE f == [k \in 1 .. Len(s.list) |-> s.list[k].id]
<1>2. f \in Bijection(1 .. Len(s.list), DOMAIN s.node)
  <2>1. f \in [1 .. Len(s.list) -> DOMAIN s.node]
    BY DEF Sound, NodesOK
  <2>2. ASSUME NEW j \in 1 .. Len(s.list), NEW k \in 1 .. Len(s.list), f[j] = f[k]
        PROVE  j = k
    <3>1. s.list[j].id = s.list[k].id /\ s.list[k].id \in Int
      BY <1>1, <2>2 DEF Node, Ids
    <3>2. ~(j < k) /\ ~(k < j)
      BY <3>1 DEF Sound, ListOK
    <3> QED
      BY <1>1, <3>2
  <2>3. \A i \in DOMAIN s.node : \E k \in 1 .. Len(s.list) : f[k] = i
    BY DEF Sound, NodesOK
  <2> QED
    BY <2>1, <2>2, <2>3, Zenon DEF Bijection, Injection, Surjection, IsInjective
<1> HIDE DEF f
<1>3. /\ IsFiniteSet(DOMAIN s.node)
      /\ Cardinality(DOMAIN s.node) = Cardinality(1 .. Len(s.list))
  <2>1. ExistsBijection(1 .. Len(s.list), DOMAIN s.node)
    BY <1>2 DEF ExistsBijection
  <2>2. IsFiniteSet(1 .. Len(s.list))
    BY <1>1, FS_Interval
  <2> QED
    BY <2>1, <2>2, FS_Bijection
<1>4. Cardinality(1 .. Len(s.list)) = Len(s.list)
  BY <1>1, FS_Interval
<1>5. Abstract!Cardinality(DOMAIN s.node) = Cardinality(DOMAIN s.node)
  BY Zenon DEF Abstract!Cardinality, Cardinality
<1> QED
  BY <1>1, <1>3, <1>4, <1>5, ViewDomain

\* A step of nlru is a step of the cache, or leaves it as it is.
LEMMA InsertImplements ==
  ASSUME IInv, NEW label \in Labels, NEW item \in Items, Insert(label, item)
  PROVE  Abstract!Insert(label, item)
<1> DEFINE grown == Inserted(lru, next, label, item)
           larger == Abstract!LruWith(View(lru), next, [label |-> label, item |-> item])
<1>1. /\ next \in Ids /\ next + 1 \in Nat /\ Sound(lru, next)
      /\ next < MaxId /\ next' = next + 1 /\ taken' = NoItem
  BY MaxIdAssumption DEF IInv, Insert, Ids
<1>2. Sound(grown, next + 1) /\ grown.list # <<>>
  BY <1>1, InsertedSound
<1>3. View(grown) = larger
  BY <1>1, ViewInserted
<1>4. Abstract!Cardinality(DOMAIN larger) = grown.size /\ grown.size \in Nat
  <2>1. grown.size \in Nat
    BY <1>2, LenProperties DEF Sound, ListOK
  <2> QED
    BY <1>1, <1>2, <1>3, <2>1, ViewSize
<1>5. \/ grown.size > MaxEntries /\ EvictFrom(grown)
      \/ grown.size <= MaxEntries /\ lru' = grown /\ evicted' = NoItem
  BY <1>4, MaxEntriesAssumption DEF Insert
<1> HIDE DEF grown, larger
<1>6. CASE grown.size > MaxEntries /\ EvictFrom(grown)
  <2> DEFINE back == Last(grown.list).id
  <2>1. evicted' = Last(grown.list).item /\ lru' = Removed(grown, back)
    BY <1>2, <1>6 DEF EvictFrom
  <2>2. View(Removed(grown, back)) = Abstract!LruWithout(larger, back)
    BY <1>1, <1>2, <1>3, ViewRemoved
  <2>3. back \in Abstract!LruBack(larger) /\ larger[back].item = evicted'
    BY <1>1, <1>2, <1>3, <2>1, ViewBack
  <2>4. View(lru') = Abstract!LruWithout(larger, back)
    BY <2>1, <2>2
  <2> HIDE DEF back
  <2>5. Abstract!EvictOldest(larger)
    BY <2>3, <2>4 DEF Abstract!EvictOldest, View
  <2> QED
    BY <1>1, <1>4, <1>6, <2>5 DEF Abstract!Insert, View, larger
<1>7. CASE grown.size <= MaxEntries /\ lru' = grown /\ evicted' = NoItem
  <2>1. View(lru') = larger
    BY <1>3, <1>7
  <2> QED
    BY <1>1, <1>4, <1>7, <2>1 DEF Abstract!Insert, View, larger
<1> QED
  BY <1>5, <1>6, <1>7

LEMMA EvictImplements ==
  ASSUME IInv, Evict
  PROVE  Abstract!Next \/ UNCHANGED Abstract!vars
<1>1. /\ Sound(lru, next) /\ next \in Nat /\ next' = next /\ taken' = NoItem
  BY DEF IInv, Evict
<1>2. CASE lru.list = <<>> /\ next = 0
  BY <1>1, <1>2 DEF IInv, Evict, EvictFrom, Abstract!vars
<1>3. CASE lru.list = <<>> /\ next # 0
  <2>1. lru' = lru /\ evicted' = NoItem
    BY <1>3 DEF Evict, EvictFrom
  <2>2. 0 \in 0 .. MaxId - 1
    BY <1>3, MaxIdAssumption DEF IInv
  <2>3. 0 \notin DOMAIN lru.node
    <3>1. Len(lru.list) = 0
      BY <1>3, EmptySeq
    <3> QED
      BY <1>1, <3>1 DEF Sound, NodesOK
  <2>4. View(lru') = Abstract!LruWithout(View(lru), 0)
    BY <1>1, <2>1, <2>3, ViewRemoved, RemovedSound
  <2>5. Abstract!Remove(0)
    BY <1>1, <2>1, <2>4 DEF Abstract!Remove, View
  <2> QED
    BY <2>2, <2>5 DEF Abstract!Next
<1>4. CASE lru.list # <<>>
  <2> DEFINE back == Last(lru.list).id
  <2>1. evicted' = Last(lru.list).item /\ lru' = Removed(lru, back)
    BY <1>4 DEF Evict, EvictFrom
  <2>2. View(lru') = Abstract!LruWithout(View(lru), back)
    BY <1>1, <2>1, ViewRemoved
  <2>3. back \in Abstract!LruBack(View(lru)) /\ View(lru)[back].item = evicted'
    BY <1>1, <1>4, <2>1, ViewBack
  <2>4. View(lru) # Abstract!LruEmpty
    <3>1. back \in DOMAIN View(lru)
      BY <2>3 DEF Abstract!LruBack
    <3> QED
      BY <3>1 DEF Abstract!LruEmpty
  <2> HIDE DEF back
  <2>5. Abstract!EvictOldest(View(lru))
    BY <2>2, <2>3 DEF Abstract!EvictOldest, View
  <2>6. Abstract!Evict
    BY <1>1, <2>4, <2>5 DEF Abstract!Evict, View
  <2> QED
    BY <2>6 DEF Abstract!Next
<1> QED
  BY <1>2, <1>3, <1>4

LEMMA GetImplements ==
  ASSUME IInv, NEW label \in Labels, Get(label)
  PROVE  Abstract!Get(label)
<1>1. /\ Sound(lru, next) /\ next \in Nat /\ next' = next /\ evicted' = NoItem
  BY DEF IInv, Get
<1>2. PICK id \in lru.idsOf[label] :
        /\ label \in DOMAIN lru.idsOf
        /\ id \in DOMAIN lru.node
        /\ taken' = lru.node[id].item
        /\ lru' = Removed(lru, id)
  BY DEF Get
<1>3. View(lru') = Abstract!LruWithout(View(lru), id)
  BY <1>1, <1>2, ViewRemoved
<1>4. lru.labelOf[id] = label
  BY <1>1, <1>2 DEF Sound, LabelsOK
<1>5. /\ id \in DOMAIN View(lru)
      /\ View(lru)[id] = [label |-> label, item |-> lru.node[id].item]
  BY <1>1, <1>2, <1>4, ViewDomain
<1>6. id \in Abstract!LruIdsOf(View(lru), label) /\ View(lru)[id].item = taken'
  BY <1>2, <1>5 DEF Abstract!LruIdsOf
<1> QED
  BY <1>1, <1>3, <1>6 DEF Abstract!Get, View

LEMMA RemoveIdImplements ==
  ASSUME IInv, NEW id \in Ids, RemoveId(id)
  PROVE  Abstract!Remove(id)
<1>1. Sound(lru, next) /\ next \in Nat
  BY DEF IInv
<1>2. View(lru') = Abstract!LruWithout(View(lru), id)
  BY <1>1, ViewRemoved DEF RemoveId
<1> QED
  BY <1>2 DEF RemoveId, Abstract!Remove, View

LEMMA CacheStep == IInv /\ [Next]_vars => [Abstract!Next]_(Abstract!vars)
<1> SUFFICES ASSUME IInv, [Next]_vars PROVE Abstract!Next \/ UNCHANGED Abstract!vars
  OBVIOUS
<1>1. CASE UNCHANGED vars
  BY <1>1 DEF vars, Abstract!vars
<1>2. ASSUME NEW l \in Labels, NEW x \in Items, Insert(l, x)
      PROVE  Abstract!Next
  BY <1>2, InsertImplements DEF Abstract!Next
<1>3. ASSUME NEW l \in Labels, Get(l)
      PROVE  Abstract!Next
  BY <1>3, GetImplements DEF Abstract!Next
<1>4. ASSUME NEW id \in Ids, RemoveId(id)
      PROVE  Abstract!Next
  BY <1>4, RemoveIdImplements DEF Abstract!Next, Ids
<1> QED
  BY <1>1, <1>2, <1>3, <1>4, EvictImplements DEF Next

LEMMA CacheInit == Init => Abstract!Init
<1> SUFFICES ASSUME Init PROVE Abstract!Init
  OBVIOUS
<1>1. DOMAIN lru.labelOf = {}
  BY DEF Init, EmptyFn
<1> QED
  BY <1>1 DEF Init, Abstract!Init, Abstract!LruEmpty

\* nlru.h is the bounded cache it is meant to be: get() hands out an item of
\* the label asked for, an insertion above the capacity evicts the item that
\* was inserted longest ago, and the delete callback gets exactly that item.
THEOREM NlruImplementsLru == Spec => ImplementsLru
<1>1. Init /\ [][Next]_vars => Abstract!Init /\ [][Abstract!Next]_(Abstract!vars)
  BY InitIInv, NextIInv, CacheInit, CacheStep, PTL
<1> QED
  BY <1>1, PTL DEF Spec, ImplementsLru, Abstract!Spec

(***************************************************************************)
(* The resolver.                                                           *)
(***************************************************************************)
\* A thread enters the map under the lock, unless it resolves in place.
LockDiscipline ==
  \A t \in Threads :
    at[t] \in {"enter", "inmap", "unlock"} =>
      \/ lock = t /\ (at[t] = "unlock" => via[t] # "inline")
      \/ via[t] = "inline" /\ at[t] # "unlock"

\* Two threads are not in the map together until there was a clash.
Exclusion == ~clash => \A t, u \in InMap : t = u

\* What a thread has in its hands, by where it is.
HandsFit ==
  \A t \in Threads :
    /\ fresh[t] # None => /\ useCache
                          /\ at[t] \in {"lock", "enter", "inmap"}
                          /\ via[t] # "fast"
    /\ at[t] \in {"lock", "enter", "inmap"} /\ via[t] # "fast" => fresh[t] # None
    /\ ptr[t] # None => at[t] \in {"unlock", "copy"}
    /\ at[t] = "copy" => ptr[t] # None

\* An object that is not cached yet has one owner, and the right name.
FreshIsOwn ==
  /\ \A t \in Threads : fresh[t] # None =>
       /\ fresh[t] \in Used
       /\ heap[fresh[t]].host = host[t]
       /\ \A u \in Threads : fresh[u] = fresh[t] => u = t
  /\ \A t \in Threads, h \in Hosts : fresh[t] # None => map[h] # fresh[t]

\* The map leads to objects that exist, under their own names; without a cache
\* it is empty.
MapIsSound ==
  \A h \in Hosts : map[h] # None =>
    useCache /\ map[h] \in Used /\ heap[map[h]].host = h

\* The entry a thread was given is still in the map, unless its time was over
\* by then; without a cache it is the thread's own.
PtrIsGood ==
  \A t \in Threads : ptr[t] # None =>
    IF useCache
    THEN ~late[t] => map[host[t]] = ptr[t] /\ ~heap[ptr[t]].over
    ELSE /\ ptr[t] \in Used /\ heap[ptr[t]].host = host[t]
         /\ \A u \in Threads : ptr[u] = ptr[t] => u = t

\* With a cache, an object is cached or not yet cached; without, a thread that
\* resolves in place has it.
Accounted ==
  /\ useCache => \A p \in Used : p \in Cached \/ \E t \in Threads : fresh[t] = p
  /\ ~useCache /\ sync => \A p \in Used : \E t \in Threads : ptr[t] = p
  /\ \A t \in Threads :
       /\ sync => at[t] # "wait" /\ via[t] # "answer"
       /\ ~useCache /\ ptr[t] # None => via[t] # "fast"
       /\ at[t] \in {"lock", "enter", "inmap", "unlock"} => useCache

ResolverInv ==
  /\ ResolverTypeOK /\ LockDiscipline /\ Exclusion /\ HandsFit /\ FreshIsOwn /\ MapIsSound
  /\ PtrIsGood /\ Accounted /\ ClashIsInline

-----------------------------------------------------------------------------
(* What the invariant is for.                                              *)

LEMMA InvIsSafe == ResolverInv => CopyIsOwn /\ CacheIsSound
<1> SUFFICES ASSUME ResolverInv PROVE CopyIsOwn /\ CacheIsSound
  OBVIOUS
<1> USE NamesAssumption DEF ResolverInv
<1>1. CopyIsOwn
  <2> SUFFICES ASSUME NEW t \in Threads, at[t] = "copy", ~late[t]
               PROVE  heap[ptr[t]].host = host[t]
    BY DEF CopyIsOwn
  <2>1. ptr[t] # None
    BY DEF HandsFit
  <2>2. CASE useCache
    BY <2>1, <2>2 DEF PtrIsGood, MapIsSound, ResolverTypeOK
  <2>3. CASE ~useCache
    BY <2>1, <2>3 DEF PtrIsGood
  <2> QED BY <2>2, <2>3
<1>2. CacheIsSound
  <2>1. ResolverTypeOK
    OBVIOUS
  <2>2. \A h \in Hosts : map[h] # None =>
          /\ map[h] \in Used /\ heap[map[h]].host = h
          /\ \A t \in Threads : fresh[t] # map[h]
    BY DEF MapIsSound, FreshIsOwn
  <2>3. ASSUME useCache \/ sync, NEW p \in Used
        PROVE  p \in Cached \/ \E t \in Threads : p \in Held(t)
    BY <2>3 DEF Accounted, Held, Used
  <2> QED BY <2>1, <2>2, <2>3 DEF CacheIsSound
<1> QED BY <1>1, <1>2

LEMMA InvInit == ResolverInit => ResolverInv
<1> SUFFICES ASSUME ResolverInit PROVE ResolverInv
  OBVIOUS
<1> USE NamesAssumption DEF ResolverInit
<1>1. ResolverTypeOK BY DEF ResolverTypeOK, NoObject, None, Nobody
<1>2. LockDiscipline /\ Exclusion /\ HandsFit
  BY DEF LockDiscipline, Exclusion, HandsFit, InMap
<1>3. FreshIsOwn /\ MapIsSound /\ PtrIsGood
  BY DEF FreshIsOwn, MapIsSound, PtrIsGood
<1>4. Used = {} BY DEF Used
<1>5. Accounted /\ ClashIsInline BY <1>4 DEF Accounted, ClashIsInline
<1> QED BY <1>1, <1>2, <1>3, <1>5 DEF ResolverInv

-----------------------------------------------------------------------------
(* The steps that leave the map and the heap alone.                        *)

LEMMA InvQuiet ==
  ASSUME NEW t \in Threads, ResolverInv,
         Ask(t) \/ Lock(t) \/ Enter(t) \/ Unlock(t) \/ Missed(t) \/ Fails(t)
  PROVE  ResolverInv'
<1> USE NamesAssumption DEF ResolverInv
<1>0. Used' = Used /\ Cached' = Cached
  BY DEF Ask, Lock, Enter, Unlock, Missed, Fails, Used, Cached
<1>1. CASE Ask(t)
  <2> USE <1>1 DEF Ask, conf
  <2>1. ResolverTypeOK' BY DEF ResolverTypeOK
  <2>2. LockDiscipline' BY DEF ResolverTypeOK, LockDiscipline
  <2>3. Exclusion' /\ ClashIsInline' BY DEF ResolverTypeOK, Exclusion, InMap, ClashIsInline
  <2>4. HandsFit' BY DEF ResolverTypeOK, HandsFit
  <2>5. FreshIsOwn' /\ MapIsSound' /\ PtrIsGood'
    BY <1>0 DEF ResolverTypeOK, FreshIsOwn, MapIsSound, PtrIsGood, HandsFit
  <2>6. Accounted' BY <1>0 DEF ResolverTypeOK, Accounted, HandsFit
  <2> QED BY <2>1, <2>2, <2>3, <2>4, <2>5, <2>6
<1>2. CASE Lock(t)
  <2> USE <1>2 DEF Lock, conf
  <2>1. ResolverTypeOK' BY DEF ResolverTypeOK
  <2>2. LockDiscipline' BY DEF ResolverTypeOK, LockDiscipline, Nobody
  <2>3. Exclusion' /\ ClashIsInline' BY DEF ResolverTypeOK, Exclusion, InMap, ClashIsInline
  <2>4. HandsFit' BY DEF ResolverTypeOK, HandsFit
  <2>5. FreshIsOwn' /\ MapIsSound' /\ PtrIsGood'
    BY <1>0 DEF ResolverTypeOK, FreshIsOwn, MapIsSound, PtrIsGood, HandsFit
  <2>6. Accounted' BY <1>0 DEF ResolverTypeOK, Accounted, HandsFit
  <2> QED BY <2>1, <2>2, <2>3, <2>4, <2>5, <2>6
<1>3. CASE Enter(t)
  <2> USE <1>3 DEF Enter, conf
  <2>1. ResolverTypeOK' BY DEF ResolverTypeOK
  <2>2. LockDiscipline' BY DEF ResolverTypeOK, LockDiscipline
  <2>3. Exclusion' BY DEF ResolverTypeOK, InMap, Exclusion
  <2>4. ASSUME clash' PROVE \E u \in InMap' : via'[u] = "inline"
    <3>1. PICK u \in Threads : at[u] = "inmap"
      BY <2>4 DEF InMap
    <3>2. u # t /\ u \in InMap' /\ t \in InMap'
      BY <3>1 DEF ResolverTypeOK, InMap
    <3>3. via[u] = "inline" \/ via[t] = "inline"
      BY <3>1, <3>2 DEF LockDiscipline
    <3> QED BY <3>2, <3>3
  <2>5. ClashIsInline' BY <2>4 DEF ClashIsInline
  <2>6. HandsFit' BY DEF ResolverTypeOK, HandsFit
  <2>7. FreshIsOwn' /\ MapIsSound' /\ PtrIsGood'
    BY <1>0 DEF ResolverTypeOK, FreshIsOwn, MapIsSound, PtrIsGood, HandsFit
  <2>8. Accounted' BY <1>0 DEF ResolverTypeOK, Accounted, HandsFit
  <2> QED BY <2>1, <2>2, <2>3, <2>5, <2>6, <2>7, <2>8
<1>4. CASE Unlock(t)
  <2> USE <1>4 DEF Unlock, conf
  <2>1. ResolverTypeOK' BY DEF ResolverTypeOK
  <2>2. LockDiscipline' BY DEF ResolverTypeOK, LockDiscipline
  <2>3. Exclusion' /\ ClashIsInline' BY DEF ResolverTypeOK, Exclusion, InMap, ClashIsInline
  <2>4. HandsFit' BY DEF ResolverTypeOK, HandsFit
  <2>5. FreshIsOwn' /\ MapIsSound' /\ PtrIsGood'
    BY <1>0 DEF ResolverTypeOK, FreshIsOwn, MapIsSound, PtrIsGood, HandsFit
  <2>6. Accounted' BY <1>0 DEF ResolverTypeOK, Accounted, HandsFit
  <2> QED BY <2>1, <2>2, <2>3, <2>4, <2>5, <2>6
<1>5. CASE Missed(t)
  <2> USE <1>5 DEF Missed, conf
  <2>1. ResolverTypeOK' BY DEF ResolverTypeOK
  <2>2. LockDiscipline' BY DEF ResolverTypeOK, LockDiscipline
  <2>3. Exclusion' /\ ClashIsInline' BY DEF ResolverTypeOK, Exclusion, InMap, ClashIsInline
  <2>4. HandsFit' BY DEF ResolverTypeOK, HandsFit
  <2>5. FreshIsOwn' /\ MapIsSound' /\ PtrIsGood'
    BY <1>0 DEF ResolverTypeOK, FreshIsOwn, MapIsSound, PtrIsGood, HandsFit
  <2>6. Accounted' BY <1>0 DEF ResolverTypeOK, Accounted, HandsFit
  <2> QED BY <2>1, <2>2, <2>3, <2>4, <2>5, <2>6
<1>6. CASE Fails(t)
  <2> USE <1>6 DEF Fails, conf
  <2>1. ResolverTypeOK' BY DEF ResolverTypeOK
  <2>2. LockDiscipline' BY DEF ResolverTypeOK, LockDiscipline
  <2>3. Exclusion' /\ ClashIsInline' BY DEF ResolverTypeOK, Exclusion, InMap, ClashIsInline
  <2>4. HandsFit' BY DEF ResolverTypeOK, HandsFit
  <2>5. FreshIsOwn' /\ MapIsSound' /\ PtrIsGood'
    BY <1>0 DEF ResolverTypeOK, FreshIsOwn, MapIsSound, PtrIsGood, HandsFit
  <2>6. Accounted' BY <1>0 DEF ResolverTypeOK, Accounted, HandsFit
  <2> QED BY <2>1, <2>2, <2>3, <2>4, <2>5, <2>6
<1> QED BY <1>1, <1>2, <1>3, <1>4, <1>5, <1>6

-----------------------------------------------------------------------------
(* The steps that make, enter and delete objects.                          *)

LEMMA InvMade ==
  ASSUME NEW t \in Threads, ResolverInv, Resolve(t) \/ Answer(t)
  PROVE  ResolverInv'
<1> USE NamesAssumption DEF ResolverInv
<1>1. PICK p \in Places, ttl \in BOOLEAN, for \in {"answer", "inline"} :
        /\ Made(t, p, ttl, for, IF for = "answer" THEN "lock" ELSE "enter")
        /\ for = "answer" => at[t] = "wait"
  <2>1. CASE Resolve(t)
    <3>1. PICK p \in Places : Made(t, p, FALSE, "inline", "enter")
      BY <2>1 DEF Resolve
    <3> QED BY <3>1
  <2>2. CASE Answer(t)
    <3>1. PICK p \in Places : Made(t, p, TRUE, "answer", "lock")
      BY <2>2 DEF Answer
    <3>2. at[t] = "wait"
      BY <2>2 DEF Answer
    <3> QED BY <3>1, <3>2
  <2> QED BY <2>1, <2>2
<1>2. /\ at[t] \in {"resolve", "wait"} /\ clash = FALSE
      /\ UNCHANGED <<sync, useCache, lock, map, host, clash>>
  BY DEF Resolve, Answer, ResolverTypeOK, conf
<1> DEFINE o == [host |-> host[t], ttl |-> ttl, over |-> FALSE]
<1>3. /\ p \notin Used /\ heap' = [heap EXCEPT ![p] = o]
      /\ fresh' = [fresh EXCEPT ![t] = IF useCache THEN p ELSE None]
      /\ ptr' = [ptr EXCEPT ![t] = IF useCache THEN None ELSE p]
      /\ late' = [late EXCEPT ![t] = FALSE]
      /\ via' = [via EXCEPT ![t] = for]
      /\ at' = [at EXCEPT ![t] = IF ~useCache THEN "copy"
                                 ELSE IF for = "answer" THEN "lock" ELSE "enter"]
      /\ for = "answer" => at[t] = "wait"
  BY <1>1 DEF Made
<1>4. /\ o.host = host[t] /\ o.over = FALSE /\ o # NoObject
      /\ o \in [host : Hosts, ttl : {TRUE}, over : BOOLEAN]
               \union [host : Hosts \union {None}, ttl : {FALSE}, over : {FALSE}]
  <2>1. host[t] \in Hosts /\ host[t] # None
    BY DEF ResolverTypeOK
  <2> QED BY <2>1 DEF NoObject
<1> HIDE DEF o
<1>5. Used' = Used \union {p} /\ Cached' = Cached
  BY <1>4, <1>2, <1>3 DEF Used, Cached, ResolverTypeOK
<1>6. fresh[t] = None /\ ptr[t] = None
  BY <1>2 DEF HandsFit
<1>7. ResolverTypeOK'
  BY <1>4, <1>2, <1>3 DEF ResolverTypeOK
<1>8. LockDiscipline'
  BY <1>2, <1>3 DEF ResolverTypeOK, LockDiscipline
<1>9. Exclusion' /\ ClashIsInline'
  BY <1>2, <1>3 DEF ResolverTypeOK, Exclusion, InMap, ClashIsInline
<1>10. HandsFit'
  BY <1>2, <1>3, <1>6 DEF ResolverTypeOK, HandsFit
<1>11. FreshIsOwn'
  <2>1. p # None /\ \A u \in Threads : fresh[u] # p
    BY <1>3 DEF FreshIsOwn, ResolverTypeOK
  <2>2. \A h \in Hosts : map[h] # p
    BY <1>3, <2>1 DEF MapIsSound
  <2> QED BY <1>4, <1>2, <1>3, <1>5, <2>1, <2>2 DEF FreshIsOwn, ResolverTypeOK
<1>12. MapIsSound'
  BY <1>4, <1>2, <1>3, <1>5 DEF MapIsSound, ResolverTypeOK
<1>13. PtrIsGood'
  <2>1. CASE useCache
    <3>1. \A h \in Hosts : map[h] # None => map[h] # p
      BY <1>3 DEF MapIsSound
    <3> QED BY <1>2, <1>3, <2>1, <3>1 DEF PtrIsGood, ResolverTypeOK
  <2>2. CASE ~useCache
    <3>1. \A u \in Threads : ptr[u] # None => ptr[u] # p
      BY <1>3, <2>2 DEF PtrIsGood
    <3>2. p # None
      OBVIOUS
    <3> QED BY <1>4, <1>2, <1>3, <1>5, <2>2, <3>1, <3>2 DEF PtrIsGood, ResolverTypeOK
  <2> QED BY <2>1, <2>2
<1>14. Accounted'
  <2>1. ASSUME useCache, NEW q \in Used'
        PROVE  q \in Cached' \/ \E u \in Threads : fresh'[u] = q
    <3>1. CASE q = p
      BY <1>3, <2>1, <3>1 DEF ResolverTypeOK
    <3>2. CASE q # p /\ \E u \in Threads : fresh[u] = q
      <4>1. PICK u \in Threads : fresh[u] = q
        BY <3>2
      <4>2. u # t
        BY <1>5, <1>6, <3>2, <4>1 DEF Used
      <4> QED BY <1>3, <4>1, <4>2 DEF ResolverTypeOK
    <3>3. CASE q # p /\ ~\E u \in Threads : fresh[u] = q
      BY <1>5, <2>1, <3>3 DEF Accounted
    <3> QED BY <3>1, <3>2, <3>3
  <2>2. ASSUME ~useCache, sync, NEW q \in Used'
        PROVE  \E u \in Threads : ptr'[u] = q
    <3>1. CASE q = p
      BY <1>3, <2>2, <3>1 DEF ResolverTypeOK
    <3>2. CASE q # p
      <4>1. PICK u \in Threads : ptr[u] = q
        BY <1>5, <2>2, <3>2 DEF Accounted
      <4>2. u # t
        BY <1>5, <1>6, <3>2, <4>1 DEF Used
      <4> QED BY <1>3, <4>1, <4>2 DEF ResolverTypeOK
    <3> QED BY <3>1, <3>2
  <2>3. ASSUME NEW u \in Threads
        PROVE  /\ sync' => at'[u] # "wait" /\ via'[u] # "answer"
               /\ ~useCache' /\ ptr'[u] # None => via'[u] # "fast"
               /\ at'[u] \in {"lock", "enter", "inmap", "unlock"} => useCache'
    BY <1>2, <1>3 DEF Accounted, ResolverTypeOK
  <2> QED BY <1>2, <2>1, <2>2, <2>3 DEF Accounted
<1> QED BY <1>7, <1>8, <1>9, <1>10, <1>11, <1>12, <1>13, <1>14

LEMMA InvLeave ==
  ASSUME NEW t \in Threads, ResolverInv, Leave(t)
  PROVE  ResolverInv'
<1> USE NamesAssumption DEF ResolverInv
<1> DEFINE h == host[t]
           gone == Swept(h) \union Loser(h, fresh[t])
           got == Entry(h, fresh[t])
<1>1. /\ clash = FALSE /\ at[t] = "inmap" /\ h \in Hosts
      /\ map' = [map EXCEPT ![h] = got]
      /\ heap' = [q \in Places |-> IF q \in gone THEN NoObject ELSE heap[q]]
      /\ ptr' = [ptr EXCEPT ![t] = got]
      /\ fresh' = [fresh EXCEPT ![t] = None]
      /\ late' = [late EXCEPT ![t] = got # None /\ heap[got].over]
      /\ at' = [at EXCEPT ![t] = IF via[t] = "inline" THEN "copy" ELSE "unlock"]
      /\ UNCHANGED <<sync, useCache, lock, host, via, clash>>
  BY DEF Leave, ResolverTypeOK, conf
<1>2. useCache
  BY <1>1 DEF Accounted
\* The look-up gives the entry there is, or enters what the thread has made,
\* and deletes the other one and the entry whose time is over.
<1>3. /\ got \in Places \union {None}
      /\ got \in {map[h], fresh[t]} \union {None}
      /\ got # None => got \in Used /\ got \notin gone /\ heap[got].host = h
      /\ gone \subseteq {map[h], fresh[t]} \ {None}
      /\ map[h] \in gone => heap[map[h]].over
      /\ map[h] # None /\ got # map[h] => map[h] \in gone
      /\ fresh[t] # None => fresh[t] = got \/ fresh[t] \in gone
      /\ got = None => fresh[t] = None
  <2>1. map[h] # None => map[h] \in Used /\ heap[map[h]].host = h
    BY <1>1 DEF MapIsSound
  <2>2. fresh[t] # None =>
          fresh[t] \in Used /\ heap[fresh[t]].host = h /\ map[h] # fresh[t]
    BY <1>1 DEF FreshIsOwn
  <2>3. map[h] \in Places \union {None} /\ fresh[t] \in Places \union {None}
    BY <1>1 DEF ResolverTypeOK
  <2> QED BY <2>1, <2>2, <2>3 DEF Entry, Found, Swept, Loser, Over
<1> HIDE DEF gone, got
<1>4. Used' = Used \ gone
  BY <1>1 DEF Used, NoObject, ResolverTypeOK
<1>5. ResolverTypeOK'
  BY <1>1, <1>3 DEF ResolverTypeOK, NoObject
<1>6. LockDiscipline'
  BY <1>1 DEF ResolverTypeOK, LockDiscipline
<1>7. Exclusion' /\ ClashIsInline'
  BY <1>1 DEF ResolverTypeOK, Exclusion, InMap, ClashIsInline
<1>8. HandsFit'
  <2>1. via[t] = "inline" => got # None
    BY <1>1, <1>3 DEF HandsFit
  <2> QED BY <1>1, <2>1 DEF ResolverTypeOK, HandsFit
<1>9. \A u \in Threads \ {t} : fresh[u] # None => fresh[u] \notin gone
  BY <1>1, <1>3 DEF FreshIsOwn
<1>10. \A k \in Hosts \ {h} : map[k] # None => map[k] \notin gone /\ map[k] # got
  <2>1. \A k \in Hosts \ {h} : map[k] # None => map[k] # map[h] /\ map[k] # fresh[t]
    BY <1>1 DEF MapIsSound, FreshIsOwn
  <2> QED BY <1>3, <2>1
<1>11. FreshIsOwn'
  <2>1. \A u \in Threads \ {t} : fresh[u] # None => fresh[u] # got
    BY <1>1, <1>3 DEF FreshIsOwn
  <2> QED BY <1>1, <1>4, <1>9, <2>1 DEF FreshIsOwn, ResolverTypeOK, Used
<1>12. MapIsSound'
  BY <1>1, <1>2, <1>3, <1>4, <1>10 DEF MapIsSound, ResolverTypeOK, Used
<1>13. PtrIsGood'
  <2> SUFFICES ASSUME NEW u \in Threads, ptr'[u] # None, ~late'[u]
               PROVE  map'[host[u]] = ptr'[u] /\ ~heap'[ptr'[u]].over
    BY <1>1, <1>2 DEF PtrIsGood
  <2>1. CASE u = t
    BY <1>1, <1>3, <2>1 DEF ResolverTypeOK, Used
  <2>2. CASE u # t
    <3>1. /\ ptr'[u] = ptr[u] /\ late'[u] = late[u] /\ host[u] \in Hosts
          /\ map[host[u]] = ptr[u] /\ ~heap[ptr[u]].over /\ ptr[u] # None
      BY <1>1, <1>2, <2>2 DEF PtrIsGood, ResolverTypeOK
    <3>2. ptr[u] \notin gone
      <4>1. CASE host[u] = h
        BY <1>3, <3>1, <4>1, <1>1 DEF FreshIsOwn
      <4>2. CASE host[u] # h
        BY <1>10, <3>1, <4>2
      <4> QED BY <4>1, <4>2
    <3>3. host[u] = h => got = map[h]
      BY <1>3, <3>1, <3>2
    <3>4. ptr[u] \in Places
      BY <3>1 DEF ResolverTypeOK
    <3> QED BY <1>1, <3>1, <3>2, <3>3, <3>4 DEF ResolverTypeOK
  <2> QED BY <2>1, <2>2
<1>14. Accounted'
  <2>1. ASSUME NEW q \in Used'
        PROVE  q \in Cached' \/ \E u \in Threads : fresh'[u] = q
    <3>1. q \in Used /\ q \notin gone /\ q # None
      BY <1>4, <2>1 DEF Used
    <3>2. CASE \E k \in Hosts : map[k] = q
      <4>1. PICK k \in Hosts : map[k] = q
        BY <3>2
      <4>2. map'[k] = q
        BY <1>1, <1>3, <3>1, <4>1 DEF ResolverTypeOK
      <4> QED BY <3>1, <4>2 DEF Cached
    <3>3. CASE \E u \in Threads \ {t} : fresh[u] = q
      BY <1>1, <3>3 DEF ResolverTypeOK
    <3>4. CASE fresh[t] = q
      <4>1. got = q /\ map'[h] = q
        BY <1>1, <1>3, <3>1, <3>4 DEF ResolverTypeOK
      <4> QED BY <1>1, <3>1, <4>1 DEF Cached
    <3> QED BY <1>2, <3>1, <3>2, <3>3, <3>4 DEF Accounted, Cached
  <2>2. ASSUME NEW u \in Threads
        PROVE  /\ sync' => at'[u] # "wait" /\ via'[u] # "answer"
               /\ ~useCache' /\ ptr'[u] # None => via'[u] # "fast"
               /\ at'[u] \in {"lock", "enter", "inmap", "unlock"} => useCache'
    BY <1>1, <1>2 DEF Accounted, ResolverTypeOK
  <2> QED BY <1>1, <1>2, <2>1, <2>2 DEF Accounted
<1> QED BY <1>5, <1>6, <1>7, <1>8, <1>11, <1>12, <1>13, <1>14

LEMMA InvCopy ==
  ASSUME NEW t \in Threads, ResolverInv, Copy(t)
  PROVE  ResolverInv'
<1> USE NamesAssumption DEF ResolverInv
<1>1. /\ clash = FALSE /\ at[t] = "copy" /\ ptr[t] # None /\ fresh[t] = None
      /\ at' = [at EXCEPT ![t] = "idle"] /\ ptr' = [ptr EXCEPT ![t] = None]
      /\ UNCHANGED <<sync, useCache, lock, map, host, via, fresh, late, clash>>
  BY DEF Copy, HandsFit, ResolverTypeOK, conf
<1> DEFINE deletes == ~useCache /\ via[t] = "inline"
<1>2. heap' = IF deletes THEN [heap EXCEPT ![ptr[t]] = NoObject] ELSE heap
  BY DEF Copy
<1>3. /\ Cached' = Cached
      /\ Used' = IF deletes THEN Used \ {ptr[t]} ELSE Used
  BY <1>1, <1>2 DEF Used, Cached, ResolverTypeOK, NoObject
<1>4. ResolverTypeOK'
  BY <1>1, <1>2 DEF ResolverTypeOK, NoObject
<1>5. LockDiscipline' /\ HandsFit'
  BY <1>1 DEF ResolverTypeOK, LockDiscipline, HandsFit
<1>6. Exclusion' /\ ClashIsInline'
  BY <1>1 DEF ResolverTypeOK, Exclusion, InMap, ClashIsInline
<1>7. FreshIsOwn' /\ MapIsSound'
  BY <1>1, <1>2, <1>3 DEF FreshIsOwn, MapIsSound, HandsFit, ResolverTypeOK
<1>8. PtrIsGood'
  <2>1. CASE useCache
    BY <1>1, <1>2, <2>1 DEF PtrIsGood, ResolverTypeOK
  <2>2. CASE ~useCache
    <3>1. \A u \in Threads \ {t} : ptr[u] # None => ptr[u] # ptr[t]
      BY <1>1, <2>2 DEF PtrIsGood
    <3> QED BY <1>1, <1>2, <1>3, <2>2, <3>1 DEF PtrIsGood, ResolverTypeOK, Used
  <2> QED BY <2>1, <2>2
<1>9. Accounted'
  <2>1. ASSUME useCache, NEW q \in Used'
        PROVE  q \in Cached' \/ \E u \in Threads : fresh'[u] = q
    BY <1>1, <1>3, <2>1 DEF Accounted
  <2>2. ASSUME ~useCache, sync, NEW q \in Used'
        PROVE  \E u \in Threads : ptr'[u] = q
    <3>1. deletes
      BY <1>1, <2>2 DEF Accounted, ResolverTypeOK
    <3>2. PICK u \in Threads : ptr[u] = q
      BY <1>3, <2>2 DEF Accounted
    <3>3. u # t
      BY <1>3, <3>1, <3>2, <2>2
    <3> QED BY <1>1, <3>2, <3>3 DEF ResolverTypeOK
  <2> QED BY <1>1, <2>1, <2>2 DEF Accounted, ResolverTypeOK
<1> QED BY <1>4, <1>5, <1>6, <1>7, <1>8, <1>9

LEMMA InvExpire ==
  ASSUME NEW p \in Places, ResolverInv, Expire(p)
  PROVE  ResolverInv'
<1> USE NamesAssumption DEF ResolverInv
<1>1. /\ clash = FALSE /\ heap[p].ttl = TRUE /\ heap[p] # NoObject
      /\ heap' = [heap EXCEPT ![p] = [heap[p] EXCEPT !.over = TRUE]]
      /\ late' = [t \in Threads |-> late[t] \/ ptr[t] = p]
      /\ UNCHANGED <<sync, useCache, lock, map, at, host, via, fresh, ptr, clash>>
  <2>1. heap[p] \in [host : Hosts, ttl : {TRUE}, over : BOOLEAN]
                    \union [host : Hosts \union {None}, ttl : {FALSE}, over : {FALSE}]
    BY DEF ResolverTypeOK
  <2> QED BY <2>1 DEF Expire, ResolverTypeOK, NoObject, conf
<1> DEFINE o == [heap[p] EXCEPT !.over = TRUE]
<1>2. /\ o \in [host : Hosts, ttl : {TRUE}, over : BOOLEAN]
      /\ o.host = heap[p].host /\ o # NoObject
  BY <1>1 DEF ResolverTypeOK, NoObject
<1> DEFINE Objects ==
      [host : Hosts, ttl : {TRUE}, over : BOOLEAN]
        \union [host : Hosts \union {None}, ttl : {FALSE}, over : {FALSE}]
<1>3. heap' = [heap EXCEPT ![p] = o] /\ o \in Objects /\ heap \in [Places -> Objects]
  BY <1>1, <1>2 DEF ResolverTypeOK
<1> HIDE DEF o, Objects
<1>4. Used' = Used /\ Cached' = Cached
  <2>1. heap[p] # NoObject /\ o # NoObject /\ map' = map
    BY <1>1, <1>2
  <2>2. \A q \in Places : heap'[q] # NoObject <=> heap[q] # NoObject
    BY <1>3, <2>1
  <2> QED BY <2>1, <2>2 DEF Used, Cached
<1>5. \A q \in Places : heap'[q].host = heap[q].host /\ (q # p => heap'[q] = heap[q])
  BY <1>2, <1>3
<1>6. ResolverTypeOK'
  <2>1. heap' \in [Places -> Objects]
    BY <1>3
  <2> QED BY <1>1, <2>1 DEF ResolverTypeOK, Objects
<1>7. LockDiscipline' /\ HandsFit' /\ Exclusion' /\ ClashIsInline'
  BY <1>1 DEF LockDiscipline, HandsFit, Exclusion, InMap, ClashIsInline
<1>8. FreshIsOwn' /\ MapIsSound' /\ Accounted'
  BY <1>1, <1>4, <1>5 DEF FreshIsOwn, MapIsSound, Accounted, Used
<1>9. PtrIsGood'
  <2> SUFFICES ASSUME NEW t \in Threads, ptr[t] # None
               PROVE  IF useCache
                      THEN ~late'[t] => map[host[t]] = ptr[t] /\ ~heap'[ptr[t]].over
                      ELSE /\ ptr[t] \in Used /\ heap'[ptr[t]].host = host[t]
                           /\ \A u \in Threads : ptr[u] = ptr[t] => u = t
    BY <1>1, <1>4 DEF PtrIsGood
  <2>1. ptr[t] \in Places
    BY DEF ResolverTypeOK
  <2> QED BY <1>1, <1>5, <2>1 DEF PtrIsGood
<1> QED BY <1>6, <1>7, <1>8, <1>9

-----------------------------------------------------------------------------
(* The theorems.                                                           *)

LEMMA InvNext == ResolverInv /\ [ResolverNext]_resolverVars => ResolverInv'
<1> SUFFICES ASSUME ResolverInv, [ResolverNext]_resolverVars PROVE ResolverInv'
  OBVIOUS
<1>1. ASSUME NEW t \in Threads, Ask(t) \/ Lock(t) \/ Step(t) \/ Fails(t) \/ Answer(t)
      PROVE  ResolverInv'
  BY <1>1, InvQuiet, InvMade, InvLeave, InvCopy DEF Step
<1>2. ASSUME NEW p \in Places, Expire(p) PROVE ResolverInv'
  BY <1>2, InvExpire
<1>3. CASE UNCHANGED resolverVars
  <2> USE <1>3 DEF ResolverInv, resolverVars
  <2>1. ResolverTypeOK' BY DEF ResolverTypeOK
  <2>2. LockDiscipline' /\ Exclusion' /\ HandsFit' /\ ClashIsInline'
    BY DEF LockDiscipline, Exclusion, HandsFit, ClashIsInline, InMap
  <2>3. FreshIsOwn' /\ MapIsSound' /\ PtrIsGood' /\ Accounted'
    BY DEF FreshIsOwn, MapIsSound, PtrIsGood, Accounted, Used, Cached
  <2> QED BY <2>1, <2>2, <2>3
<1>4. CASE Undefined
  BY <1>3, <1>4 DEF Undefined
<1> QED BY <1>1, <1>2, <1>3, <1>4 DEF ResolverNext

LEMMA InvAlways == ResolverSpec => []ResolverInv
<1> QED BY InvInit, InvNext, PTL DEF ResolverSpec

\* Only a look-up in place, which enters the map without the lock
\* (nresolver.cc, lookup_inline), can meet another thread there.
THEOREM ResolverClashIsInline == ResolverSpec => []ClashIsInline
<1>1. ResolverInv => ClashIsInline BY DEF ResolverInv
<1> QED BY <1>1, InvAlways, PTL

\* A thread copies the address of its own name, after the unlock, as long as
\* the time of the entry was not over.
THEOREM ResolverCopyIsOwn == ResolverSpec => []CopyIsOwn
<1>1. ResolverInv => CopyIsOwn BY InvIsSafe
<1> QED BY <1>1, InvAlways, PTL

\* The cache leads to objects that exist, under their own names, and no object
\* is forgotten.
THEOREM ResolverCacheIsSound == ResolverSpec => []CacheIsSound
<1>1. ResolverInv => CacheIsSound BY InvIsSafe
<1> QED BY <1>1, InvAlways, PTL
=============================================================================
