-------------------------- MODULE SubrQueueProofs --------------------------
(***************************************************************************)
(* Proofs about subrequests (module SubrQueue): for any number of          *)
(* subrequests, connections and look-ups, the iterator kept in a           *)
(* subrequest is the node that holds it, the state by which subr::cancel   *)
(* decides is the truth, no request is lost, and the subrequest of hurl    *)
(* stays in the queue.                                                     *)
(*                                                                         *)
(* All of it assumes that udns refuses no look-up, SubmitFails = FALSE:    *)
(* otherwise a look-up may call back a subrequest that is gone (see the    *)
(* comment of CancelRemoves).                                              *)
(*                                                                         *)
(* The operators of the model map threads to threads, and while one runs,  *)
(* the subrequest that is being started is in no definite state yet.  So   *)
(* the parts of the invariant are predicates on the members they relate,   *)
(* and what the state and the job of a subrequest are going to be may be   *)
(* given to them instead of what they are.                                 *)
(***************************************************************************)
EXTENDS SubrQueue, FiniteSetTheorems, SequenceTheorems, TLAPS

-----------------------------------------------------------------------------
(* The inductive invariant.                                                *)

\* The members have the types of their declarations.
Thread ==
  [queue : Seq(Nodes), entry : [Nodes -> Subrs \union {Null}],
   state : [Subrs -> States], iq : [Subrs -> Nodes \union {Null}],
   requested : [Subrs -> Nat], completed : [Subrs -> Nat], num : [Subrs -> Nat],
   job : [Subrs -> Jobs \union {Null}], ups : [Subrs -> Conns \union {Null}],
   alive : SUBSET Subrs, done : SUBSET Subrs,
   jobQ : Seq(Jobs), submitted : SUBSET Jobs, jobCb : [Jobs -> BOOLEAN],
   jobData : [Jobs -> Subrs \union {Null}], timer : BOOLEAN,
   cached : SUBSET {LabelOf[s] : s \in Subrs \union {Null}},
   conn : [Conns -> {"free", "idle", "busy", "stuck"}],
   subr : [Conns -> Subrs \union {Null}],
   connLabel : [Conns -> Labels \union {Null}],
   asked : Nat, told : Nat, finished : BOOLEAN, requests : Nat, expiries : Nat]

\* The nodes of the queue are distinct objects; a queued subrequest points to
\* the node that holds it, and a node that is not empty holds a subrequest that
\* exists and is queued there.
Listed(queue, entry, state, iq, alive) ==
  /\ \A i, j \in 1 .. Len(queue) : queue[i] = queue[j] => i = j
  /\ \A s \in alive : state[s] = "queued" =>
       iq[s] \in RangeOf(queue) /\ entry[iq[s]] = s
  /\ \A n \in RangeOf(queue) : entry[n] # Null =>
       /\ entry[n] \in alive
       /\ state[entry[n]] = "queued" /\ iq[entry[n]] = n

\* There is a node for each subrequest that may still be queued.
Room(queue, state, alive) ==
  /\ IsFiniteSet(alive)
  /\ Len(queue) + Cardinality({s \in alive : state[s] # "queued"}) <= NumNodes

\* The look-ups that will call back and the subrequests that wait for one are
\* in pairs.
Paired(live, jobData, alive, state, job) ==
  /\ \A j \in live :
       /\ jobData[j] \in Onces \intersect alive
       /\ state[jobData[j]] = "dns" /\ job[jobData[j]] = j
  /\ \A s \in alive : state[s] = "dns" => job[s] \in live /\ jobData[job[s]] = s

\* The sessions in flight and the active subrequests of clients are in pairs,
\* but for those subrequests that are done.
Flying(conn, subr, ups, alive, done, state) ==
  /\ done \subseteq Onces \intersect alive
  /\ \A s \in done : state[s] = "active"
  /\ \A c \in Conns : conn[c] \in {"busy", "stuck"} =>
       /\ subr[c] \in alive \ done
       /\ subr[c] \in Onces => state[subr[c]] = "active" /\ ups[subr[c]] = c
  /\ \A s \in (Onces \intersect alive) \ done : state[s] = "active" =>
       /\ ups[s] \in Conns
       /\ conn[ups[s]] \in {"busy", "stuck"}
       /\ subr[ups[s]] = s

\* A subrequest is in no state as long as it does not exist; w, which is being
\* started, may be too.
Known(alive, state, w) ==
  /\ \A s \in Subrs \ alive : state[s] = "none"
  /\ \A s \in Onces \intersect alive : s # w => state[s] # "none"

\* The subrequest of hurl is queued, or has made its requests, or its name was
\* not found and it has made more requests than hurl knows of.
Repeated(alive, state, requested, num, asked, w) ==
  /\ \A s \in Onces : num[s] = 1
  /\ alive \intersect Dupes \subseteq conf.dupes
  /\ \A s \in alive \intersect Dupes :
       /\ requested[s] >= asked
       /\ s # w => \/ state[s] = "queued"
                   \/ requested[s] >= num[s]
                   \/ requested[s] > asked

\* The look-ups on the wire are within the bound of the resolver.
OnWire(submitted) ==
  IsFiniteSet(submitted) /\ Cardinality(submitted) <= MaxParallel

\* The thread u while w is being started, with the states and jobs that the
\* subrequests are going to have.
OK(u, state, job, w) ==
  /\ u \in Thread
  /\ Listed(u.queue, u.entry, state, u.iq, u.alive)
  /\ Room(u.queue, state, u.alive)
  /\ Paired(LiveJobs(u), u.jobData, u.alive, state, job)
  /\ Flying(u.conn, u.subr, u.ups, u.alive, u.done, state)
  /\ Known(u.alive, state, w)
  /\ Repeated(u.alive, state, u.requested, u.num, u.asked, w)
  /\ OnWire(u.submitted)

Sound(u) == OK(u, u.state, u.job, Null)

IInv ==
  /\ conf \in Settings
  /\ pc \in {"deq", "events"}
  /\ Sound(t)
  /\ t.submitted # {} => t.timer

LEMMA Kinds ==
  /\ Null \notin Subrs /\ Null \notin Conns /\ Null \notin Jobs /\ Null \notin Nodes
  /\ Onces \subseteq Subrs /\ Dupes \subseteq Subrs /\ Onces \intersect Dupes = {}
BY KindsAssumption DEF Subrs, Null, Conns, Jobs, Nodes

-----------------------------------------------------------------------------
(* The queue.                                                              *)

\* A queue with room has an unused node.
LEMMA FreeNode ==
  ASSUME NEW q \in Seq(Nodes), Len(q) < NumNodes
  PROVE  Unused(Nodes \ RangeOf(q)) \in Nodes \ RangeOf(q)
<1>1. /\ Len(q) \in Nat /\ DOMAIN q = 1 .. Len(q)
      /\ \A i \in 1 .. Len(q) : q[i] \in Nodes
  BY LenProperties, ElementOfSeq
<1>2. NumNodes \in Nat
  BY SizesAssumption
<1>3. IsFiniteSet(Nodes) /\ Cardinality(Nodes) = NumNodes
  BY <1>2, FS_Interval DEF Nodes
<1>4. IsFiniteSet(RangeOf(q)) /\ Cardinality(RangeOf(q)) <= Len(q)
  <2>1. IsFiniteSet(1 .. Len(q)) /\ Cardinality(1 .. Len(q)) = Len(q)
    <3>1. 1 \in Int /\ Len(q) \in Int
      BY <1>1
    <3>2. /\ IsFiniteSet(1 .. Len(q))
          /\ Cardinality(1 .. Len(q)) = IF 1 > Len(q) THEN 0 ELSE Len(q) - 1 + 1
      BY ONLY <3>1, FS_Interval
    <3> QED
      BY <1>1, <3>2
  <2> DEFINE f == [i \in 1 .. Len(q) |-> q[i]]
  <2>2. f \in Surjection(1 .. Len(q), RangeOf(q))
    <3>1. f \in [1 .. Len(q) -> RangeOf(q)]
      BY <1>1 DEF RangeOf
    <3>2. \A x \in RangeOf(q) : \E i \in 1 .. Len(q) : f[i] = x
      BY <1>1 DEF RangeOf
    <3> QED
      BY <3>1, <3>2, Zenon DEF Surjection
  <2> HIDE DEF f
  <2> QED
    BY <2>1, <2>2, FS_Surjection
<1>5. RangeOf(q) # Nodes
  BY <1>1, <1>2, <1>3, <1>4, FS_CardinalityType
<1>6. RangeOf(q) \subseteq Nodes
  BY <1>1 DEF RangeOf
<1>7. \E n : n \in Nodes \ RangeOf(q)
  BY <1>5, <1>6
<1> QED
  BY <1>7 DEF Unused

LEMMA ListedEnqueued ==
  ASSUME NEW q \in Seq(Nodes), NEW e \in [Nodes -> Subrs \union {Null}],
         NEW st \in [Subrs -> States], NEW iq \in [Subrs -> Nodes \union {Null}],
         NEW al \in SUBSET Subrs, Listed(q, e, st, iq, al),
         NEW s \in al, st[s] # "queued", NEW n \in Nodes \ RangeOf(q)
  PROVE  Listed(Append(q, n), [e EXCEPT ![n] = s], [st EXCEPT ![s] = "queued"],
                [iq EXCEPT ![s] = n], al)
<1> DEFINE q2 == Append(q, n)
           e2 == [e EXCEPT ![n] = s]
           st2 == [st EXCEPT ![s] = "queued"]
           iq2 == [iq EXCEPT ![s] = n]
<1>1. /\ Len(q) \in Nat /\ DOMAIN q = 1 .. Len(q)
      /\ \A i \in 1 .. Len(q) : q[i] \in Nodes
  BY LenProperties, ElementOfSeq
<1>2. /\ Len(q2) = Len(q) + 1 /\ DOMAIN q2 = 1 .. Len(q) + 1
      /\ \A i \in 1 .. Len(q) : q2[i] = q[i]
      /\ q2[Len(q) + 1] = n
  BY <1>1, AppendProperties, LenProperties
<1>3. /\ e2[n] = s /\ \A m \in Nodes : m # n => e2[m] = e[m]
      /\ st2[s] = "queued" /\ \A x \in Subrs : x # s => st2[x] = st[x]
      /\ iq2[s] = n /\ \A x \in Subrs : x # s => iq2[x] = iq[x]
  OBVIOUS
<1>4. RangeOf(q2) = RangeOf(q) \union {n}
  <2>1. ASSUME NEW i \in DOMAIN q2 PROVE q2[i] \in RangeOf(q) \union {n}
    BY <1>1, <1>2 DEF RangeOf
  <2>2. ASSUME NEW i \in DOMAIN q PROVE q[i] \in RangeOf(q2)
    <3>1. i \in DOMAIN q2 /\ q2[i] = q[i]
      BY <1>1, <1>2
    <3> QED
      BY <3>1 DEF RangeOf
  <2>3. n \in RangeOf(q2)
    <3>1. Len(q) + 1 \in DOMAIN q2
      BY <1>1, <1>2
    <3> QED
      BY <1>2, <3>1 DEF RangeOf
  <2> QED
    BY <2>1, <2>2, <2>3 DEF RangeOf
<1> HIDE DEF q2, e2, st2, iq2
<1>5. RangeOf(q) \subseteq Nodes
  BY <1>1 DEF RangeOf
<1>6. \A i, j \in 1 .. Len(q2) : q2[i] = q2[j] => i = j
  <2> SUFFICES ASSUME NEW i \in 1 .. Len(q2), NEW j \in 1 .. Len(q2), q2[i] = q2[j]
               PROVE  i = j
    OBVIOUS
  <2>1. \A k \in 1 .. Len(q) : q2[k] # n
    BY <1>1, <1>2 DEF RangeOf
  <2>2. i = Len(q) + 1 \/ i \in 1 .. Len(q)
    BY <1>1, <1>2
  <2>3. j = Len(q) + 1 \/ j \in 1 .. Len(q)
    BY <1>1, <1>2
  <2>4. CASE i \in 1 .. Len(q) /\ j \in 1 .. Len(q)
    BY <1>2, <2>4 DEF Listed
  <2> QED
    BY <1>2, <2>1, <2>2, <2>3, <2>4
<1>7. \A x \in al : st2[x] = "queued" => iq2[x] \in RangeOf(q2) /\ e2[iq2[x]] = x
  <2> SUFFICES ASSUME NEW x \in al, st2[x] = "queued"
               PROVE  iq2[x] \in RangeOf(q2) /\ e2[iq2[x]] = x
    OBVIOUS
  <2>1. CASE x = s
    BY <1>3, <1>4, <2>1
  <2>2. CASE x # s
    <3>1. iq[x] \in RangeOf(q) /\ e[iq[x]] = x
      BY <1>3, <2>2 DEF Listed
    <3> QED
      BY <1>3, <1>4, <1>5, <2>2, <3>1
  <2> QED
    BY <2>1, <2>2
<1>8. \A m \in RangeOf(q2) : e2[m] # Null =>
        e2[m] \in al /\ st2[e2[m]] = "queued" /\ iq2[e2[m]] = m
  <2> SUFFICES ASSUME NEW m \in RangeOf(q2), e2[m] # Null
               PROVE  e2[m] \in al /\ st2[e2[m]] = "queued" /\ iq2[e2[m]] = m
    OBVIOUS
  <2>1. CASE m = n
    BY <1>3, <2>1
  <2>2. CASE m # n
    <3>1. m \in RangeOf(q) /\ m \in Nodes /\ e2[m] = e[m]
      BY <1>3, <1>4, <1>5, <2>2
    <3>2. e[m] \in al /\ st[e[m]] = "queued" /\ iq[e[m]] = m
      BY <3>1 DEF Listed
    <3> QED
      BY <1>3, <3>1, <3>2
  <2> QED
    BY <2>1, <2>2
<1> QED
  BY <1>6, <1>7, <1>8 DEF Listed, q2, e2, st2, iq2

\* A subrequest that is not queued finds a node.
LEMMA RoomLeft ==
  ASSUME NEW q \in Seq(Nodes), NEW st, NEW al, Room(q, st, al),
         NEW s \in al, st[s] # "queued"
  PROVE  Len(q) < NumNodes
<1> DEFINE A == {x \in al : st[x] # "queued"}
<1>1. IsFiniteSet(A) /\ A # {}
  BY FS_Subset DEF Room
<1>2. Len(q) + Cardinality(A) <= NumNodes
  BY DEF Room
<1> HIDE DEF A
<1>3. Cardinality(A) \in Nat /\ Cardinality(A) # 0
  BY <1>1, FS_CardinalityType, FS_EmptySet
<1> QED
  BY <1>2, <1>3, LenProperties, SizesAssumption

\* The subrequest that is queued leaves the set of those that need room.
LEMMA RoomEnqueued ==
  ASSUME NEW q \in Seq(Nodes), NEW st \in [Subrs -> States],
         NEW al \in SUBSET Subrs, Room(q, st, al),
         NEW s \in al, st[s] # "queued", NEW n \in Nodes
  PROVE  Room(Append(q, n), [st EXCEPT ![s] = "queued"], al)
<1> DEFINE A == {x \in al : st[x] # "queued"}
           st2 == [st EXCEPT ![s] = "queued"]
           B == {x \in al : st2[x] # "queued"}
<1>1. B = A \ {s} /\ s \in A
  OBVIOUS
<1>2. IsFiniteSet(A) /\ IsFiniteSet(al)
  BY FS_Subset DEF Room
<1> HIDE DEF A, B, st2
<1>3. Cardinality(A) \in Nat /\ Cardinality(B) = Cardinality(A) - 1 /\ Cardinality(B) \in Nat
  BY <1>1, <1>2, FS_RemoveElement, FS_CardinalityType
<1>4. Len(q) \in Nat /\ Len(Append(q, n)) = Len(q) + 1 /\ NumNodes \in Nat
  BY LenProperties, AppendProperties, SizesAssumption
<1>5. Len(q) + Cardinality(A) <= NumNodes
  BY DEF Room, A
<1>6. Len(q) + 1 + Cardinality(B) <= NumNodes
  BY <1>3, <1>4, <1>5
<1> QED
  BY <1>2, <1>4, <1>6 DEF Room, B, st2

\* The front node leaves the queue; s, which it held, is in no state.
LEMMA ListedDequeued ==
  ASSUME NEW q \in Seq(Nodes), q # <<>>, NEW e \in [Nodes -> Subrs \union {Null}],
         NEW st \in [Subrs -> States], NEW iq \in [Subrs -> Nodes \union {Null}],
         NEW al \in SUBSET Subrs, Listed(q, e, st, iq, al)
  PROVE  /\ e[Head(q)] # Null => e[Head(q)] \in al /\ st[e[Head(q)]] = "queued"
         /\ Listed(Tail(q), [e EXCEPT ![Head(q)] = Null],
                   With(st, e[Head(q)], "none"), With(iq, e[Head(q)], Null), al)
<1> DEFINE n == Head(q)
           s == e[n]
           e2 == [e EXCEPT ![n] = Null]
           st2 == With(st, s, "none")
           iq2 == With(iq, s, Null)
           q2 == Tail(q)
<1>1. /\ Len(q) \in Nat \ {0} /\ DOMAIN q = 1 .. Len(q)
      /\ \A i \in 1 .. Len(q) : q[i] \in Nodes
      /\ n = q[1]
  BY LenProperties, ElementOfSeq, EmptySeq
<1>2. /\ q2 \in Seq(Nodes) /\ Len(q2) = Len(q) - 1
      /\ \A i \in 1 .. Len(q2) : q2[i] = q[i + 1]
  BY HeadTailProperties
<1>3. DOMAIN q2 = 1 .. Len(q) - 1
  BY <1>2, LenProperties
<1> HIDE DEF q2
<1>4. RangeOf(q2) = RangeOf(q) \ {n}
  <2>1. ASSUME NEW i \in DOMAIN q2 PROVE q2[i] \in RangeOf(q) \ {n}
    <3>1. i + 1 \in DOMAIN q /\ q2[i] = q[i + 1] /\ i + 1 # 1 /\ 1 \in DOMAIN q
      BY <1>1, <1>2, <1>3
    <3>2. q[i + 1] # q[1]
      BY <1>1, <3>1 DEF Listed
    <3> QED
      BY <1>1, <3>1, <3>2 DEF RangeOf
  <2>2. ASSUME NEW i \in DOMAIN q, q[i] # n PROVE q[i] \in RangeOf(q2)
    <3>1. i - 1 \in DOMAIN q2 /\ q2[i - 1] = q[i]
      BY <1>1, <1>2, <1>3, <2>2
    <3> QED
      BY <3>1 DEF RangeOf
  <2> QED
    BY <2>1, <2>2 DEF RangeOf
<1>5. n \in RangeOf(q) /\ RangeOf(q) \subseteq Nodes /\ n \in Nodes
  BY <1>1 DEF RangeOf
<1>6. s # Null => s \in al /\ st[s] = "queued" /\ iq[s] = n
  BY <1>5 DEF Listed
<1>7. /\ e2[n] = Null
      /\ \A m \in Nodes : m # n => e2[m] = e[m]
      /\ s # Null => st2[s] = "none"
      /\ \A x \in Subrs : x # s => st2[x] = st[x] /\ iq2[x] = iq[x]
  BY <1>5, <1>6 DEF With
<1> HIDE DEF n, s, e2, st2, iq2
<1>8. \A i, j \in 1 .. Len(q2) : q2[i] = q2[j] => i = j
  <2> SUFFICES ASSUME NEW i \in 1 .. Len(q2), NEW j \in 1 .. Len(q2), q2[i] = q2[j]
               PROVE  i = j
    OBVIOUS
  <2>1. i + 1 \in 1 .. Len(q) /\ j + 1 \in 1 .. Len(q) /\ q[i + 1] = q[j + 1]
    BY <1>1, <1>2
  <2>2. i + 1 = j + 1
    BY <2>1 DEF Listed
  <2> QED
    BY <1>1, <1>2, <2>2
<1>9. \A x \in al : st2[x] = "queued" => iq2[x] \in RangeOf(q2) /\ e2[iq2[x]] = x
  <2> SUFFICES ASSUME NEW x \in al, st2[x] = "queued"
               PROVE  iq2[x] \in RangeOf(q2) /\ e2[iq2[x]] = x
    OBVIOUS
  <2>1. x # s /\ x # Null
    BY <1>6, <1>7, KindsAssumption DEF Subrs, Null
  <2>2. iq[x] \in RangeOf(q) /\ e[iq[x]] = x
    BY <1>7, <2>1 DEF Listed
  <2>3. iq[x] # n
    BY <2>1, <2>2 DEF s
  <2> QED
    BY <1>4, <1>5, <1>7, <2>1, <2>2, <2>3
<1>10. \A m \in RangeOf(q2) : e2[m] # Null =>
        e2[m] \in al /\ st2[e2[m]] = "queued" /\ iq2[e2[m]] = m
  <2> SUFFICES ASSUME NEW m \in RangeOf(q2), e2[m] # Null
               PROVE  e2[m] \in al /\ st2[e2[m]] = "queued" /\ iq2[e2[m]] = m
    OBVIOUS
  <2>1. m \in RangeOf(q) /\ m \in Nodes /\ m # n /\ e2[m] = e[m]
    BY <1>4, <1>5, <1>7
  <2>2. e[m] \in al /\ st[e[m]] = "queued" /\ iq[e[m]] = m
    BY <2>1 DEF Listed
  <2>3. e[m] # s
    BY <1>6, <2>1, <2>2
  <2> QED
    BY <1>7, <2>1, <2>2, <2>3
<1> QED
  BY <1>6, <1>8, <1>9, <1>10 DEF Listed, n, s, e2, st2, iq2, q2

LEMMA RoomDequeued ==
  ASSUME NEW q \in Seq(Nodes), q # <<>>, NEW st \in [Subrs -> States],
         NEW al \in SUBSET Subrs, Room(q, st, al), NEW s \in Subrs \union {Null}
  PROVE  Room(Tail(q), With(st, s, "none"), al)
<1> DEFINE A == {x \in al : st[x] # "queued"}
           st2 == With(st, s, "none")
           B == {x \in al : st2[x] # "queued"}
<1>1. B \subseteq A \union {s}
  BY DEF With
<1>2. IsFiniteSet(A) /\ IsFiniteSet(al)
  BY FS_Subset DEF Room
<1> HIDE DEF A, B, st2
<1>3. IsFiniteSet(A \union {s}) /\ Cardinality(A \union {s}) <= Cardinality(A) + 1
      /\ Cardinality(A) \in Nat
  <2>1. /\ IsFiniteSet(A \union {s}) /\ Cardinality(A) \in Nat
        /\ Cardinality(A \union {s}) = IF s \in A THEN Cardinality(A) ELSE Cardinality(A) + 1
    BY ONLY <1>2, FS_AddElement, FS_CardinalityType
  <2> QED
    BY <2>1
<1>4. Cardinality(B) <= Cardinality(A) + 1 /\ Cardinality(B) \in Nat
  <2>1. IsFiniteSet(B) /\ Cardinality(B) <= Cardinality(A \union {s})
    BY <1>1, <1>3, FS_Subset
  <2> QED
    BY <1>3, <2>1, FS_CardinalityType
<1>5. Len(q) \in Nat /\ Len(Tail(q)) = Len(q) - 1 /\ NumNodes \in Nat
  BY LenProperties, HeadTailProperties, SizesAssumption
<1>6. Len(q) + Cardinality(A) <= NumNodes
  BY DEF Room, A
<1>7. Len(Tail(q)) + Cardinality(B) <= NumNodes
  BY <1>3, <1>4, <1>5, <1>6
<1> QED
  BY <1>2, <1>7 DEF Room, B, st2

\* Subrequests that are not queued need not be in the queue to be deleted.
LEMMA ListedDeleted ==
  ASSUME NEW q, NEW e, NEW st \in [Subrs -> States],
         NEW iq \in [Subrs -> Nodes \union {Null}],
         NEW al \in SUBSET Subrs, Listed(q, e, st, iq, al),
         NEW S, \A s \in S \intersect al : st[s] # "queued"
  PROVE  Listed(q, e, Reset(st, S, "none"), Reset(iq, S, Null), al \ S)
<1>1. \A s \in Subrs \ S : Reset(st, S, "none")[s] = st[s] /\ Reset(iq, S, Null)[s] = iq[s]
  BY DEF Reset
<1> QED
  BY <1>1 DEF Listed

\* The set of those that need room only shrinks.
LEMMA RoomShrinks ==
  ASSUME NEW q \in Seq(Nodes), NEW st \in [Subrs -> States],
         NEW st2 \in [Subrs -> States], NEW al \in SUBSET Subrs,
         NEW al2 \in SUBSET al, Room(q, st, al),
         \A s \in al2 : st2[s] # "queued" => st[s] # "queued"
  PROVE  Room(q, st2, al2)
<1> DEFINE A == {x \in al : st[x] # "queued"}
           B == {x \in al2 : st2[x] # "queued"}
<1>1. B \subseteq A
  OBVIOUS
<1>2. IsFiniteSet(A) /\ IsFiniteSet(al2)
  BY FS_Subset DEF Room
<1>3. Cardinality(B) <= Cardinality(A) /\ Cardinality(A) \in Nat /\ Cardinality(B) \in Nat
  BY <1>1, <1>2, FS_Subset, FS_CardinalityType
<1>4. Len(q) + Cardinality(A) <= NumNodes
  BY DEF Room
<1> HIDE DEF A, B
<1>5. Len(q) + Cardinality(B) <= NumNodes
  BY <1>3, <1>4, LenProperties, SizesAssumption
<1> QED
  BY <1>2, <1>5 DEF Room, B

-----------------------------------------------------------------------------
(* Look-ups and sessions, each paired with its subrequest.                 *)

\* When subrequests are deleted, their look-ups go with them.
LEMMA PairedDeleted ==
  ASSUME NEW live, NEW live2 \in SUBSET live, NEW jd, NEW jd2,
         NEW al \in SUBSET Subrs, NEW st \in [Subrs -> States], NEW jb \in [Subrs -> Jobs \union {Null}],
         Paired(live, jd, al, st, jb), NEW S,
         \A j \in live : jd[j] \in S <=> j \notin live2,
         \A j \in live2 : jd2[j] = jd[j]
  PROVE  Paired(live2, jd2, al \ S, Reset(st, S, "none"), Reset(jb, S, Null))
<1>1. \A s \in Subrs \ S : Reset(st, S, "none")[s] = st[s] /\ Reset(jb, S, Null)[s] = jb[s]
  BY DEF Reset
<1>2. ASSUME NEW j \in live2
      PROVE  /\ jd2[j] \in Onces \intersect (al \ S)
             /\ Reset(st, S, "none")[jd2[j]] = "dns" /\ Reset(jb, S, Null)[jd2[j]] = j
  <2>1. jd2[j] = jd[j] /\ jd[j] \notin S
    OBVIOUS
  <2>2. jd[j] \in Onces \intersect al /\ st[jd[j]] = "dns" /\ jb[jd[j]] = j
    BY DEF Paired
  <2> QED
    BY <1>1, <2>1, <2>2
<1>3. ASSUME NEW s \in al \ S, Reset(st, S, "none")[s] = "dns"
      PROVE  Reset(jb, S, Null)[s] \in live2 /\ jd2[Reset(jb, S, Null)[s]] = s
  <2>1. st[s] = "dns" /\ Reset(jb, S, Null)[s] = jb[s]
    BY <1>1, <1>3
  <2>2. jb[s] \in live /\ jd[jb[s]] = s
    BY <2>1 DEF Paired
  <2> QED
    BY <2>1, <2>2
<1> QED
  BY <1>2, <1>3 DEF Paired

\* Other subrequests may come, and change between states other than "dns".
LEMMA PairedKept ==
  ASSUME NEW live, NEW jd, NEW al, NEW al2, NEW st, NEW st2, NEW jb,
         Paired(live, jd, al, st, jb),
         al \subseteq al2,
         \A s \in al2 : st2[s] = "dns" <=> s \in al /\ st[s] = "dns"
  PROVE  Paired(live, jd, al2, st2, jb)
BY DEF Paired

LEMMA FlyingDeleted ==
  ASSUME NEW conn, NEW subr, NEW ups \in [Subrs -> Conns \union {Null}],
         NEW al \in SUBSET Subrs, NEW done, NEW st \in [Subrs -> States],
         Flying(conn, subr, ups, al, done, st), NEW S,
         \A c \in Conns : conn[c] \in {"busy", "stuck"} => subr[c] \notin S
  PROVE  Flying(conn, subr, Reset(ups, S, Null), al \ S, done \ S, Reset(st, S, "none"))
<1>1. \A s \in Subrs \ S : Reset(st, S, "none")[s] = st[s] /\ Reset(ups, S, Null)[s] = ups[s]
  BY DEF Reset
<1>2. done \ S \subseteq Onces \intersect (al \ S)
  BY DEF Flying
<1>3. \A s \in done \ S : Reset(st, S, "none")[s] = "active"
  BY <1>1, <1>2 DEF Flying
<1>4. ASSUME NEW c \in Conns, conn[c] \in {"busy", "stuck"}
      PROVE  /\ subr[c] \in (al \ S) \ (done \ S)
             /\ subr[c] \in Onces => /\ Reset(st, S, "none")[subr[c]] = "active"
                                     /\ Reset(ups, S, Null)[subr[c]] = c
  BY <1>1, <1>4 DEF Flying
<1>5. ASSUME NEW s \in (Onces \intersect (al \ S)) \ (done \ S),
             Reset(st, S, "none")[s] = "active"
      PROVE  /\ Reset(ups, S, Null)[s] \in Conns
             /\ conn[Reset(ups, S, Null)[s]] \in {"busy", "stuck"}
             /\ subr[Reset(ups, S, Null)[s]] = s
  <2>1. st[s] = "active" /\ Reset(ups, S, Null)[s] = ups[s]
    BY <1>1, <1>5
  <2>2. ups[s] \in Conns /\ conn[ups[s]] \in {"busy", "stuck"} /\ subr[ups[s]] = s
    BY <2>1 DEF Flying
  <2> QED
    BY <2>1, <2>2
<1> QED
  BY <1>2, <1>3, <1>4, <1>5 DEF Flying

\* A session ends: its subrequest, if it is of a client, is done.
LEMMA FlyingLanded ==
  ASSUME NEW conn, NEW subr, NEW ups, NEW al, NEW done, NEW st,
         Flying(conn, subr, ups, al, done, st),
         NEW c \in Conns, conn[c] \in {"busy", "stuck"},
         NEW conn2, NEW subr2, conn2[c] \notin {"busy", "stuck"},
         \A d \in Conns \ {c} :
           conn2[d] \in {"busy", "stuck"} <=> conn[d] \in {"busy", "stuck"},
         \A d \in Conns \ {c} : conn[d] \in {"busy", "stuck"} => subr2[d] = subr[d]
  PROVE  Flying(conn2, subr2, ups, al, done \union ({subr[c]} \intersect Onces), st)
<1> DEFINE done2 == done \union ({subr[c]} \intersect Onces)
<1>1. done2 \subseteq Onces \intersect al /\ \A s \in done2 : st[s] = "active"
  BY DEF Flying
<1>2. ASSUME NEW d \in Conns, conn2[d] \in {"busy", "stuck"}
      PROVE  /\ subr2[d] \in al \ done2
             /\ subr2[d] \in Onces => st[subr2[d]] = "active" /\ ups[subr2[d]] = d
  <2>1. d # c /\ conn[d] \in {"busy", "stuck"} /\ subr2[d] = subr[d]
    BY <1>2
  <2>2. /\ subr[d] \in al \ done
        /\ subr[d] \in Onces => st[subr[d]] = "active" /\ ups[subr[d]] = d
    BY <2>1 DEF Flying
  <2>3. subr[c] \in Onces => ups[subr[c]] = c
    BY DEF Flying
  <2> QED
    BY <2>1, <2>2, <2>3
<1>3. ASSUME NEW s \in (Onces \intersect al) \ done2, st[s] = "active"
      PROVE  ups[s] \in Conns /\ conn2[ups[s]] \in {"busy", "stuck"} /\ subr2[ups[s]] = s
  <2>1. ups[s] \in Conns /\ conn[ups[s]] \in {"busy", "stuck"} /\ subr[ups[s]] = s
    BY <1>3 DEF Flying
  <2>2. ups[s] # c
    BY <2>1
  <2> QED
    BY <2>1, <2>2
<1> QED
  BY <1>1, <1>2, <1>3 DEF Flying

\* Idle and free connections do not count, nor do states other than "active".
LEMMA FlyingKept ==
  ASSUME NEW conn, NEW subr, NEW ups, NEW al, NEW done, NEW st,
         Flying(conn, subr, ups, al, done, st),
         NEW conn2, NEW subr2, NEW al2, NEW st2,
         al \subseteq al2,
         \A d \in Conns :
           conn2[d] \in {"busy", "stuck"} <=> conn[d] \in {"busy", "stuck"},
         \A d \in Conns : conn[d] \in {"busy", "stuck"} => subr2[d] = subr[d],
         \A s \in Onces \intersect al2 :
            st2[s] = "active" <=> s \in al /\ st[s] = "active"
  PROVE  Flying(conn2, subr2, ups, al2, done, st2)
<1>1. done \subseteq Onces \intersect al2 /\ \A s \in done : st2[s] = "active"
  BY DEF Flying
<1>2. ASSUME NEW d \in Conns, conn2[d] \in {"busy", "stuck"}
      PROVE  /\ subr2[d] \in al2 \ done
             /\ subr2[d] \in Onces => st2[subr2[d]] = "active" /\ ups[subr2[d]] = d
  BY <1>2 DEF Flying
<1>3. ASSUME NEW s \in (Onces \intersect al2) \ done, st2[s] = "active"
      PROVE  ups[s] \in Conns /\ conn2[ups[s]] \in {"busy", "stuck"} /\ subr2[ups[s]] = s
  BY <1>3 DEF Flying
<1> QED
  BY <1>1, <1>2, <1>3 DEF Flying

\* A session starts for s, on the connection c.
LEMMA FlyingLaunched ==
  ASSUME NEW conn \in [Conns -> {"free", "idle", "busy", "stuck"}], NEW subr \in [Conns -> Subrs \union {Null}],
         NEW ups \in [Subrs -> Conns \union {Null}],
         NEW al \in SUBSET Subrs, NEW done, NEW st \in [Subrs -> States],
         Flying(conn, subr, ups, al, done, st),
         NEW s \in al, st[s] = "none",
         NEW c \in Conns, conn[c] \notin {"busy", "stuck"}
  PROVE  Flying([conn EXCEPT ![c] = "busy"], [subr EXCEPT ![c] = s],
                [ups EXCEPT ![s] = c], al, done, [st EXCEPT ![s] = "active"])
<1> DEFINE conn2 == [conn EXCEPT ![c] = "busy"]
           subr2 == [subr EXCEPT ![c] = s]
           ups2 == [ups EXCEPT ![s] = c]
           st2 == [st EXCEPT ![s] = "active"]
<1>1. /\ conn2[c] = "busy" /\ subr2[c] = s /\ ups2[s] = c /\ st2[s] = "active"
      /\ \A d \in Conns \ {c} : conn2[d] = conn[d] /\ subr2[d] = subr[d]
      /\ \A x \in Subrs \ {s} : ups2[x] = ups[x] /\ st2[x] = st[x]
  OBVIOUS
<1> HIDE DEF conn2, subr2, ups2, st2
<1>2. s \notin done /\ done \subseteq Onces \intersect al /\ \A x \in done : st[x] = "active"
  BY DEF Flying
<1>3. \A x \in done : st2[x] = "active"
  BY <1>1, <1>2
<1>4. ASSUME NEW d \in Conns, conn2[d] \in {"busy", "stuck"}
      PROVE  /\ subr2[d] \in al \ done
             /\ subr2[d] \in Onces => st2[subr2[d]] = "active" /\ ups2[subr2[d]] = d
  <2>1. CASE d = c
    BY <1>1, <1>2, <2>1
  <2>2. CASE d # c
    <3>1. /\ subr[d] \in al \ done
          /\ subr[d] \in Onces => st[subr[d]] = "active" /\ ups[subr[d]] = d
      BY <1>1, <1>4, <2>2 DEF Flying
    <3> QED
      BY <1>1, <2>2, <3>1
  <2> QED
    BY <2>1, <2>2
<1>5. ASSUME NEW x \in (Onces \intersect al) \ done, st2[x] = "active"
      PROVE  ups2[x] \in Conns /\ conn2[ups2[x]] \in {"busy", "stuck"} /\ subr2[ups2[x]] = x
  <2>1. CASE x = s
    BY <1>1, <2>1
  <2>2. CASE x # s
    <3>1. ups[x] \in Conns /\ conn[ups[x]] \in {"busy", "stuck"} /\ subr[ups[x]] = x
      BY <1>1, <1>5, <2>2 DEF Flying
    <3> QED
      BY <1>1, <2>2, <3>1
  <2> QED
    BY <2>1, <2>2
<1> QED
  BY <1>2, <1>3, <1>4, <1>5 DEF Flying, conn2, subr2, ups2, st2

LEMMA KnownDeleted ==
  ASSUME NEW al \in SUBSET Subrs, NEW st \in [Subrs -> States], NEW w,
         Known(al, st, w), NEW S
  PROVE  Known(al \ S, Reset(st, S, "none"), w)
BY DEF Known, Reset

LEMMA RepeatedDeleted ==
  ASSUME NEW al \in SUBSET Subrs, NEW st \in [Subrs -> States], NEW rq \in [Subrs -> Nat],
         NEW num, NEW asked, NEW w, Repeated(al, st, rq, num, asked, w),
         NEW S \in SUBSET Onces
  PROVE  Repeated(al \ S, Reset(st, S, "none"), Reset(rq, S, 0), num, asked, w)
<1>1. \A s \in Dupes : s \notin S /\ s \in Subrs
  BY KindsAssumption DEF Subrs
<1>2. \A s \in Dupes : Reset(st, S, "none")[s] = st[s] /\ Reset(rq, S, 0)[s] = rq[s]
  BY <1>1 DEF Reset
<1> QED
  BY <1>1, <1>2 DEF Repeated

LEMMA ResetTypes ==
  ASSUME NEW D, NEW T, NEW f \in [D -> T], NEW S, NEW v \in T
  PROVE  Reset(f, S, v) \in [D -> T]
BY DEF Reset

-----------------------------------------------------------------------------
(* The operators on threads: the queue.                                    *)

\* subr_enqueue() of a subrequest that is in no state, or that of hurl, which
\* may be active.
LEMMA EnqueuedOK ==
  ASSUME NEW u, NEW st \in [Subrs -> States], NEW jb, NEW s \in Subrs,
         OK(u, st, jb, s), s \in u.alive, st[s] \in {"none", "active"},
         s \in Onces => st[s] = "none",
         [u.state EXCEPT ![s] = "queued"] = [st EXCEPT ![s] = "queued"]
  PROVE  /\ OK(Enqueued(u, s), Enqueued(u, s).state, jb, Null)
         /\ Enqueued(u, s).job = u.job
         /\ Enqueued(u, s).submitted = u.submitted
         /\ Enqueued(u, s).timer = u.timer
<1> DEFINE n == Unused(Nodes \ RangeOf(u.queue))
           r == Enqueued(u, s)
           st2 == [st EXCEPT ![s] = "queued"]
<1>1. u \in Thread
  BY DEF OK
<1>2. /\ u.queue \in Seq(Nodes) /\ u.entry \in [Nodes -> Subrs \union {Null}]
      /\ u.iq \in [Subrs -> Nodes \union {Null}] /\ u.alive \in SUBSET Subrs
  BY <1>1 DEF Thread
<1>3. Listed(u.queue, u.entry, st, u.iq, u.alive) /\ Room(u.queue, st, u.alive)
  BY DEF OK
<1>4. n \in Nodes \ RangeOf(u.queue)
  <2>1. Len(u.queue) < NumNodes
    BY <1>2, <1>3, RoomLeft
  <2> QED
    BY <1>2, <2>1, FreeNode
<1>5. r = [u EXCEPT !.queue = Append(@, n), !.entry[n] = s,
                    !.state[s] = "queued", !.iq[s] = n]
  BY DEF Enqueued
<1> HIDE DEF n, r
<1>6. /\ r.queue = Append(u.queue, n) /\ r.entry = [u.entry EXCEPT ![n] = s]
      /\ r.state = [u.state EXCEPT ![s] = "queued"] /\ r.iq = [u.iq EXCEPT ![s] = n]
  BY <1>1, <1>5 DEF Thread
<1>7. /\ r.requested = u.requested /\ r.completed = u.completed /\ r.num = u.num
      /\ r.job = u.job /\ r.ups = u.ups /\ r.alive = u.alive /\ r.done = u.done
      /\ r.jobQ = u.jobQ /\ r.submitted = u.submitted /\ r.jobCb = u.jobCb
      /\ r.jobData = u.jobData /\ r.timer = u.timer /\ r.cached = u.cached
      /\ r.conn = u.conn /\ r.subr = u.subr /\ r.connLabel = u.connLabel
      /\ r.asked = u.asked /\ r.told = u.told /\ r.finished = u.finished
      /\ r.requests = u.requests /\ r.expiries = u.expiries
  BY <1>1, <1>5 DEF Thread
<1>8. r \in Thread
  <2>1. /\ Append(u.queue, n) \in Seq(Nodes) /\ [u.entry EXCEPT ![n] = s] \in [Nodes -> Subrs \union {Null}]
        /\ [u.state EXCEPT ![s] = "queued"] \in [Subrs -> States]
        /\ [u.iq EXCEPT ![s] = n] \in [Subrs -> Nodes \union {Null}]
    BY <1>2, <1>4, AppendProperties DEF States
  <2> QED
    BY <1>1, <1>5, <2>1 DEF Thread
<1>9. LiveJobs(r) = LiveJobs(u)
  BY <1>7 DEF LiveJobs
<1> HIDE DEF st2
<1>10. r.state = st2 /\ st2 \in [Subrs -> States]
  BY <1>6 DEF st2, States
<1>11. st2[s] = "queued" /\ \A x \in Subrs : x # s => st2[x] = st[x]
  BY DEF st2
<1>12. Listed(r.queue, r.entry, st2, r.iq, r.alive)
  <2>1. s \in u.alive /\ st[s] # "queued" /\ st \in [Subrs -> States]
    OBVIOUS
  <2>2. Listed(Append(u.queue, n), [u.entry EXCEPT ![n] = s], [st EXCEPT ![s] = "queued"],
               [u.iq EXCEPT ![s] = n], u.alive)
    BY ONLY <1>2, <1>3, <1>4, <2>1, ListedEnqueued
  <2> QED
    BY <1>6, <1>7, <2>2 DEF st2
<1>13. Room(r.queue, st2, r.alive)
  <2>1. s \in u.alive /\ st[s] # "queued" /\ st \in [Subrs -> States] /\ n \in Nodes
    BY <1>4
  <2>2. Room(Append(u.queue, n), [st EXCEPT ![s] = "queued"], u.alive)
    BY ONLY <1>2, <1>3, <2>1, RoomEnqueued
  <2> QED
    BY <1>6, <1>7, <2>2 DEF st2
<1>14. Paired(LiveJobs(r), r.jobData, r.alive, st2, jb)
  <2>1. \A x \in u.alive : st2[x] = "dns" <=> x \in u.alive /\ st[x] = "dns"
    BY <1>2, <1>11
  <2> QED
    BY <1>7, <1>9, <2>1, PairedKept DEF OK
<1>15. Flying(r.conn, r.subr, r.ups, r.alive, r.done, st2)
  <2>1. \A x \in Onces \intersect u.alive : st2[x] = "active" <=> x \in u.alive /\ st[x] = "active"
    BY <1>2, <1>11
  <2> QED
    BY <1>7, <2>1, FlyingKept DEF OK
<1>16. Known(r.alive, st2, Null)
  BY <1>2, <1>7, <1>11 DEF OK, Known
<1>17. Repeated(r.alive, st2, r.requested, r.num, r.asked, Null)
  BY <1>2, <1>7, <1>11 DEF OK, Repeated
<1>18. OnWire(r.submitted)
  BY <1>7 DEF OK
<1> QED
  BY <1>7, <1>8, <1>10, <1>12, <1>13, <1>14, <1>15, <1>16, <1>17, <1>18 DEF OK, r

\* subr_dequeue(), of an entry that may be empty.
LEMMA DequeuedOK ==
  ASSUME NEW u, Sound(u), u.queue # <<>>
  PROVE  LET r == Dequeued(u)
             s == u.entry[Head(u.queue)]
         IN  /\ r.submitted = u.submitted /\ r.timer = u.timer
             /\ s = Null => Sound(r)
             /\ s # Null => /\ OK(r, r.state, r.job, s)
                            /\ s \in r.alive /\ s \in Subrs
                            /\ r.state[s] = "none"
<1> DEFINE r == Dequeued(u)
           s == u.entry[Head(u.queue)]
           n == Head(u.queue)
<1>1. u \in Thread
  BY DEF Sound, OK
<1>2. /\ u.queue \in Seq(Nodes) /\ u.entry \in [Nodes -> Subrs \union {Null}]
      /\ u.state \in [Subrs -> States]
      /\ u.iq \in [Subrs -> Nodes \union {Null}] /\ u.alive \in SUBSET Subrs
  BY <1>1 DEF Thread
<1>3. /\ Listed(u.queue, u.entry, u.state, u.iq, u.alive)
      /\ Room(u.queue, u.state, u.alive)
  BY DEF Sound, OK
<1>4. n \in Nodes /\ s \in Subrs \union {Null} /\ Tail(u.queue) \in Seq(Nodes)
  BY <1>2, HeadTailProperties
<1>5. r = [u EXCEPT !.queue = Tail(@), !.entry[n] = Null,
                    !.state = With(@, s, "none"), !.iq = With(@, s, Null)]
  BY DEF Dequeued
<1> HIDE DEF n, r
<1>6. /\ r.queue = Tail(u.queue) /\ r.entry = [u.entry EXCEPT ![n] = Null]
      /\ r.state = With(u.state, s, "none") /\ r.iq = With(u.iq, s, Null)
  BY <1>1, <1>5 DEF Thread
<1>7. /\ r.requested = u.requested /\ r.completed = u.completed /\ r.num = u.num
      /\ r.job = u.job /\ r.ups = u.ups /\ r.alive = u.alive /\ r.done = u.done
      /\ r.jobQ = u.jobQ /\ r.submitted = u.submitted /\ r.jobCb = u.jobCb
      /\ r.jobData = u.jobData /\ r.timer = u.timer /\ r.cached = u.cached
      /\ r.conn = u.conn /\ r.subr = u.subr /\ r.connLabel = u.connLabel
      /\ r.asked = u.asked /\ r.told = u.told /\ r.finished = u.finished
      /\ r.requests = u.requests /\ r.expiries = u.expiries
  BY <1>1, <1>5 DEF Thread
<1>8. r \in Thread
  <2>1. /\ [u.entry EXCEPT ![n] = Null] \in [Nodes -> Subrs \union {Null}]
        /\ With(u.state, s, "none") \in [Subrs -> States]
        /\ With(u.iq, s, Null) \in [Subrs -> Nodes \union {Null}]
    BY <1>2, <1>4 DEF States, With
  <2> QED
    BY <1>1, <1>4, <1>5, <2>1 DEF Thread
<1>9. LiveJobs(r) = LiveJobs(u)
  BY <1>7 DEF LiveJobs
<1>10. /\ Listed(r.queue, r.entry, r.state, r.iq, r.alive)
       /\ s # Null => s \in u.alive /\ u.state[s] = "queued"
  <2>1. u.queue # <<>>
    OBVIOUS
  <2>2. /\ s # Null => s \in u.alive /\ u.state[s] = "queued"
        /\ Listed(Tail(u.queue), [u.entry EXCEPT ![n] = Null],
                  With(u.state, s, "none"), With(u.iq, s, Null), u.alive)
    BY ONLY <1>2, <1>3, <2>1, ListedDequeued DEF n
  <2> QED
    BY <1>6, <1>7, <2>2
<1>11. Room(r.queue, r.state, r.alive)
  BY <1>2, <1>3, <1>4, <1>6, <1>7, RoomDequeued
<1> HIDE DEF s
<1>12. \A x \in Subrs : x # s => r.state[x] = u.state[x]
  BY <1>2, <1>4, <1>6 DEF With
<1>13. s # Null => s \in Subrs /\ r.state[s] = "none"
  BY <1>2, <1>4, <1>6 DEF With
<1>14. Paired(LiveJobs(r), r.jobData, r.alive, r.state, r.job)
  <2>1. \A x \in u.alive : r.state[x] = "dns" <=> x \in u.alive /\ u.state[x] = "dns"
    BY <1>2, <1>4, <1>10, <1>12, <1>13, Kinds
  <2> QED
    BY <1>7, <1>9, <2>1, PairedKept DEF Sound, OK
<1>15. Flying(r.conn, r.subr, r.ups, r.alive, r.done, r.state)
  <2>1. \A x \in Onces \intersect u.alive :
          r.state[x] = "active" <=> x \in u.alive /\ u.state[x] = "active"
    BY <1>2, <1>4, <1>10, <1>12, <1>13, Kinds
  <2> QED
    BY <1>7, <2>1, FlyingKept DEF Sound, OK
<1>16. Known(r.alive, r.state, s)
  BY <1>2, <1>4, <1>7, <1>10, <1>12, Kinds DEF Sound, OK, Known
<1>17. Repeated(r.alive, r.state, r.requested, r.num, r.asked, s)
  BY <1>2, <1>7, <1>12, Kinds DEF Sound, OK, Repeated
<1>18. OnWire(r.submitted)
  BY <1>7 DEF Sound, OK
<1>19. OK(r, r.state, r.job, s)
  BY <1>8, <1>10, <1>11, <1>14, <1>15, <1>16, <1>17, <1>18 DEF OK
<1> QED
  BY <1>7, <1>10, <1>13, <1>19 DEF Sound, r, s

-----------------------------------------------------------------------------
(* The operators on threads: looking up names.                             *)

LEMMA Resets ==
  ASSUME NEW f, NEW S, NEW v
  PROVE  /\ Reset(Reset(f, S, v), S, v) = Reset(f, S, v)
         /\ Reset(Bumped(f, S), S, v) = Reset(f, S, v)
BY DEF Reset, Bumped

LEMMA BumpedTypes ==
  ASSUME NEW D, NEW f \in [D -> Nat], NEW S
  PROVE  Bumped(f, S) \in [D -> Nat]
BY DEF Bumped

\* The subrequests that the look-ups of F would call back.
HitBy(u, F) == {u.jobData[j] : j \in F \intersect LiveJobs(u)} \intersect u.alive

\* The look-ups of F fail: those that wait for them are deleted.
LEMMA LookupsFailedOK ==
  ASSUME NEW u, NEW st \in [Subrs -> States], NEW jb \in [Subrs -> Jobs \union {Null}],
         NEW w, OK(u, st, jb, w), NEW F \in SUBSET u.submitted
  PROVE  LET r == LookupsFailed(u, F)
             hit == HitBy(u, F)
         IN  /\ OK(r, Reset(st, hit, "none"), Reset(jb, hit, Null), w)
             /\ hit \subseteq Onces
             /\ r.state = Reset(u.state, hit, "none")
             /\ r.job = Reset(u.job, hit, Null)
             /\ r.alive = u.alive \ hit
             /\ r.submitted = u.submitted \ F
             /\ r.timer = u.timer
<1> DEFINE r == LookupsFailed(u, F)
           hit == HitBy(u, F)
           v == Forgotten(u, F)
           x == [v EXCEPT !.job = Reset(@, hit, Null),
                          !.requested = Bumped(@, hit),
                          !.completed = Bumped(@, hit)]
<1>1. /\ u \in Thread
      /\ st \in [Subrs -> States] /\ jb \in [Subrs -> Jobs \union {Null}]
  BY DEF OK
<1>2. /\ u.queue \in Seq(Nodes) /\ u.state \in [Subrs -> States]
      /\ u.iq \in [Subrs -> Nodes \union {Null}] /\ u.alive \in SUBSET Subrs
      /\ u.requested \in [Subrs -> Nat] /\ u.completed \in [Subrs -> Nat]
      /\ u.job \in [Subrs -> Jobs \union {Null}] /\ u.ups \in [Subrs -> Conns \union {Null}]
      /\ u.done \in SUBSET Subrs /\ u.submitted \in SUBSET Jobs
      /\ u.jobCb \in [Jobs -> BOOLEAN] /\ u.jobData \in [Jobs -> Subrs \union {Null}]
      /\ u.jobQ \in Seq(Jobs)
  BY <1>1 DEF Thread
<1>3. RangeOf(u.jobQ) \subseteq Jobs /\ LiveJobs(u) \subseteq Jobs
  <2>1. RangeOf(u.jobQ) \subseteq Jobs
    BY <1>2, LenProperties, ElementOfSeq DEF RangeOf
  <2> QED
    BY <1>2, <2>1 DEF LiveJobs
<1>4. \A j \in LiveJobs(u) :
        u.jobData[j] \in Onces \intersect u.alive /\ st[u.jobData[j]] = "dns" /\ jb[u.jobData[j]] = j
  BY DEF OK, Paired
<1>5. hit \subseteq Onces \intersect u.alive /\ \A s \in hit : st[s] = "dns"
  BY <1>4 DEF HitBy
<1>6. r = Deleted(x, hit)
  BY <1>5 DEF LookupsFailed, ErrorCalled, HitBy
<1>7. v = [u EXCEPT !.submitted = @ \ F, !.jobCb = Reset(@, F, FALSE),
                    !.jobData = Reset(@, F, Null)]
  BY DEF Forgotten
<1>8. v \in Thread
  <2>1. /\ u.submitted \ F \in SUBSET Jobs /\ Reset(u.jobCb, F, FALSE) \in [Jobs -> BOOLEAN]
        /\ Reset(u.jobData, F, Null) \in [Jobs -> Subrs \union {Null}]
    BY <1>2 DEF Reset
  <2> QED
    BY <1>1, <1>7, <2>1, ZenonT(40) DEF Thread
<1>9. /\ v.submitted = u.submitted \ F /\ v.jobCb = Reset(u.jobCb, F, FALSE)
      /\ v.jobData = Reset(u.jobData, F, Null)
      /\ v.queue = u.queue /\ v.entry = u.entry /\ v.state = u.state /\ v.iq = u.iq
      /\ v.requested = u.requested /\ v.completed = u.completed /\ v.num = u.num
      /\ v.job = u.job /\ v.ups = u.ups /\ v.alive = u.alive /\ v.done = u.done
      /\ v.jobQ = u.jobQ /\ v.timer = u.timer /\ v.asked = u.asked
      /\ v.conn = u.conn /\ v.subr = u.subr
  BY <1>1, <1>7 DEF Thread
<1> HIDE DEF v, hit
<1>10. /\ Reset(u.job, hit, Null) \in [Subrs -> Jobs \union {Null}]
       /\ Bumped(u.requested, hit) \in [Subrs -> Nat]
       /\ Bumped(u.completed, hit) \in [Subrs -> Nat]
  BY <1>2, BumpedTypes DEF Reset
<1>11. x \in Thread
  BY <1>8, <1>9, <1>10 DEF Thread
<1>12. /\ x.job = Reset(u.job, hit, Null) /\ x.requested = Bumped(u.requested, hit)
       /\ x.completed = Bumped(u.completed, hit)
       /\ x.submitted = u.submitted \ F /\ x.jobCb = Reset(u.jobCb, F, FALSE)
       /\ x.jobData = Reset(u.jobData, F, Null)
       /\ x.queue = u.queue /\ x.entry = u.entry /\ x.state = u.state /\ x.iq = u.iq
       /\ x.num = u.num
       /\ x.ups = u.ups /\ x.alive = u.alive /\ x.done = u.done
       /\ x.jobQ = u.jobQ /\ x.timer = u.timer /\ x.asked = u.asked
       /\ x.conn = u.conn /\ x.subr = u.subr
  BY <1>8, <1>9 DEF Thread
<1> HIDE DEF x, r
<1>13. r = [x EXCEPT !.alive = @ \ hit,
              !.state = Reset(@, hit, "none"), !.iq = Reset(@, hit, Null),
              !.requested = Reset(@, hit, 0), !.completed = Reset(@, hit, 0),
              !.job = Reset(@, hit, Null), !.ups = Reset(@, hit, Null),
              !.done = @ \ hit]
  BY <1>6 DEF Deleted
<1>14. /\ Reset(x.state, hit, "none") \in [Subrs -> States]
       /\ Reset(x.iq, hit, Null) \in [Subrs -> Nodes \union {Null}]
       /\ Reset(x.requested, hit, 0) \in [Subrs -> Nat]
       /\ Reset(x.completed, hit, 0) \in [Subrs -> Nat]
       /\ Reset(x.job, hit, Null) \in [Subrs -> Jobs \union {Null}]
       /\ Reset(x.ups, hit, Null) \in [Subrs -> Conns \union {Null}]
  BY <1>2, <1>10, <1>12, ResetTypes DEF States
<1>15. r \in Thread
  BY <1>11, <1>13, <1>14, ZenonT(40) DEF Thread
<1>16. /\ r.alive = u.alive \ hit /\ r.state = Reset(u.state, hit, "none")
       /\ r.iq = Reset(u.iq, hit, Null)
       /\ r.requested = Reset(Bumped(u.requested, hit), hit, 0)
       /\ r.job = Reset(Reset(u.job, hit, Null), hit, Null)
       /\ r.ups = Reset(u.ups, hit, Null) /\ r.done = u.done \ hit
       /\ r.submitted = u.submitted \ F /\ r.jobCb = Reset(u.jobCb, F, FALSE)
       /\ r.jobData = Reset(u.jobData, F, Null)
       /\ r.queue = u.queue /\ r.entry = u.entry /\ r.num = u.num
       /\ r.jobQ = u.jobQ /\ r.timer = u.timer /\ r.asked = u.asked
       /\ r.conn = u.conn /\ r.subr = u.subr
  BY <1>11, <1>12, <1>13 DEF Thread
<1>17. r.requested = Reset(u.requested, hit, 0) /\ r.job = Reset(u.job, hit, Null)
  BY <1>16, Resets
<1>18. LiveJobs(r) = LiveJobs(u) \ F
  <2>1. \A j \in Jobs : r.jobCb[j] = IF j \in F THEN FALSE ELSE u.jobCb[j]
    BY <1>2, <1>16 DEF Reset
  <2> QED
    BY <1>2, <1>3, <1>16, <2>1 DEF LiveJobs
<1>19. Listed(r.queue, r.entry, Reset(st, hit, "none"), r.iq, r.alive)
  <2>1. \A s \in hit \intersect u.alive : st[s] # "queued"
    BY <1>5
  <2>2. Listed(u.queue, u.entry, st, u.iq, u.alive)
    BY DEF OK
  <2>3. Listed(u.queue, u.entry, Reset(st, hit, "none"), Reset(u.iq, hit, Null), u.alive \ hit)
    BY ONLY <1>1, <1>2, <2>1, <2>2, ListedDeleted
  <2> QED
    BY <1>16, <2>3
<1>20. Room(r.queue, Reset(st, hit, "none"), r.alive)
  <2>1. \A s \in r.alive : Reset(st, hit, "none")[s] # "queued" => st[s] # "queued"
    BY <1>1, <1>2, <1>16 DEF Reset
  <2>2. r.alive \subseteq u.alive /\ Room(u.queue, st, u.alive)
    BY <1>16 DEF OK
  <2> DEFINE st2 == Reset(st, hit, "none")
             al2 == r.alive
  <2>3. al2 \in SUBSET u.alive /\ \A s \in al2 : st2[s] # "queued" => st[s] # "queued"
    BY <2>1, <2>2
  <2>4. Room(u.queue, st, u.alive)
    BY <2>2
  <2>5. st2 \in [Subrs -> States]
    BY <1>1, ResetTypes DEF States
  <2> HIDE DEF st2, al2
  <2>6. Room(u.queue, st2, al2)
    BY ONLY <1>1, <1>2, <2>5, <2>3, <2>4, RoomShrinks, ZenonT(40)
  <2> QED
    BY <1>16, <2>6 DEF st2, al2
<1>21. Paired(LiveJobs(r), r.jobData, r.alive, Reset(st, hit, "none"), Reset(jb, hit, Null))
  <2>1. \A j \in LiveJobs(u) : u.jobData[j] \in hit <=> j \notin LiveJobs(u) \ F
    <3> SUFFICES ASSUME NEW j \in LiveJobs(u) PROVE u.jobData[j] \in hit <=> j \in F
      OBVIOUS
    <3>1. ASSUME j \in F PROVE u.jobData[j] \in hit
      BY <1>4, <3>1 DEF hit, HitBy
    <3>2. ASSUME u.jobData[j] \in hit PROVE j \in F
      <4>1. PICK i \in F \intersect LiveJobs(u) : u.jobData[j] = u.jobData[i]
        BY <3>2 DEF hit, HitBy
      <4> QED
        BY <1>4, <4>1
    <3> QED
      BY <3>1, <3>2
  <2>2. \A j \in LiveJobs(u) \ F : r.jobData[j] = u.jobData[j]
    BY <1>2, <1>3, <1>16 DEF Reset
  <2>3. LiveJobs(u) \ F \in SUBSET LiveJobs(u) /\ Paired(LiveJobs(u), u.jobData, u.alive, st, jb)
    BY DEF OK
  <2>4. Paired(LiveJobs(u) \ F, r.jobData, u.alive \ hit, Reset(st, hit, "none"),
               Reset(jb, hit, Null))
    BY ONLY <1>1, <1>2, <2>1, <2>2, <2>3, PairedDeleted
  <2> QED
    BY <1>16, <1>18, <2>4
<1>22. Flying(r.conn, r.subr, r.ups, r.alive, r.done, Reset(st, hit, "none"))
  <2>1. Flying(u.conn, u.subr, u.ups, u.alive, u.done, st)
    BY DEF OK
  <2>2. \A c \in Conns : u.conn[c] \in {"busy", "stuck"} => u.subr[c] \notin hit
    BY <1>5, <2>1 DEF Flying
  <2>3. Flying(u.conn, u.subr, Reset(u.ups, hit, Null), u.alive \ hit, u.done \ hit,
               Reset(st, hit, "none"))
    BY ONLY <1>1, <1>2, <2>1, <2>2, FlyingDeleted
  <2> QED
    BY <1>16, <2>3
<1>23. Known(r.alive, Reset(st, hit, "none"), w)
  <2>1. Known(u.alive, st, w)
    BY DEF OK
  <2>2. Known(u.alive \ hit, Reset(st, hit, "none"), w)
    BY ONLY <1>1, <1>2, <2>1, KnownDeleted
  <2> QED
    BY <1>16, <2>2
<1>24. Repeated(r.alive, Reset(st, hit, "none"), r.requested, r.num, r.asked, w)
  <2>1. Repeated(u.alive, st, u.requested, u.num, u.asked, w) /\ hit \in SUBSET Onces
    BY <1>5 DEF OK
  <2>2. Repeated(u.alive \ hit, Reset(st, hit, "none"), Reset(u.requested, hit, 0),
                 u.num, u.asked, w)
    BY ONLY <1>1, <1>2, <2>1, RepeatedDeleted
  <2> QED
    BY <1>16, <1>17, <2>2
<1>25. OnWire(r.submitted)
  <2>1. IsFiniteSet(u.submitted) /\ Cardinality(u.submitted) <= MaxParallel
    BY DEF OK, OnWire
  <2>2. /\ IsFiniteSet(r.submitted) /\ Cardinality(r.submitted) <= Cardinality(u.submitted)
        /\ Cardinality(r.submitted) \in Nat /\ Cardinality(u.submitted) \in Nat
    BY <1>16, <2>1, FS_Subset, FS_CardinalityType
  <2> QED
    BY <2>1, <2>2, SizesAssumption DEF OnWire
<1>26. OK(r, Reset(st, hit, "none"), Reset(jb, hit, Null), w)
  BY <1>15, <1>19, <1>20, <1>21, <1>22, <1>23, <1>24, <1>25 DEF OK
<1> QED
  BY <1>5, <1>16, <1>17, <1>26 DEF r, hit

\* The first jobs that wait are submitted, as many as the resolver takes.
LEMMA SubmittedOK ==
  ASSUME NEW u, NEW st \in [Subrs -> States], NEW jb \in [Subrs -> Jobs \union {Null}],
         NEW w, OK(u, st, jb, w), ~SubmitFails, NEW x \in Submitted(u)
  PROVE  /\ x.ok
         /\ OK(x.u, st, jb, w)
         /\ x.u.state = u.state /\ x.u.job = u.job /\ x.u.alive = u.alive
<1> DEFINE room == MaxParallel - Cardinality(u.submitted)
           k == IF Len(u.jobQ) < room THEN Len(u.jobQ) ELSE room
           first == {u.jobQ[i] : i \in 1 .. k}
           r == [u EXCEPT !.jobQ = SubSeq(u.jobQ, k + 1, Len(u.jobQ)),
                          !.submitted = @ \union first]
<1>1. /\ u \in Thread
      /\ IsFiniteSet(u.submitted) /\ Cardinality(u.submitted) <= MaxParallel
  BY DEF OK, OnWire
<1>2. u.jobQ \in Seq(Jobs) /\ u.submitted \in SUBSET Jobs
  BY <1>1 DEF Thread
<1>3. x = [ok |-> TRUE, u |-> r]
  BY DEF Submitted
<1>4. /\ Len(u.jobQ) \in Nat /\ DOMAIN u.jobQ = 1 .. Len(u.jobQ)
      /\ \A i \in 1 .. Len(u.jobQ) : u.jobQ[i] \in Jobs
  BY <1>2, LenProperties, ElementOfSeq
<1>5. k \in 0 .. Len(u.jobQ) /\ Cardinality(u.submitted) + k <= MaxParallel
  <2>1. Cardinality(u.submitted) \in Nat /\ MaxParallel \in Nat
    BY <1>1, FS_CardinalityType, SizesAssumption
  <2> QED
    BY <1>1, <1>4, <2>1
<1> HIDE DEF k, r
<1>6. r = [u EXCEPT !.jobQ = SubSeq(u.jobQ, k + 1, Len(u.jobQ)),
                    !.submitted = @ \union first]
  BY DEF r
<1> DEFINE rest == SubSeq(u.jobQ, k + 1, Len(u.jobQ))
<1>7. /\ rest \in Seq(Jobs)
      /\ DOMAIN rest = 1 .. Len(u.jobQ) - k
      /\ \A i \in 1 .. Len(u.jobQ) - k : rest[i] = u.jobQ[k + i]
  <2>1. \A i \in k + 1 .. Len(u.jobQ) : u.jobQ[i] \in Jobs
    BY <1>4, <1>5
  <2>2. k + 1 \in Int /\ Len(u.jobQ) \in Int
    BY <1>4, <1>5
  <2>3. /\ rest \in Seq(Jobs)
        /\ Len(rest) = IF k + 1 <= Len(u.jobQ) THEN Len(u.jobQ) - (k + 1) + 1 ELSE 0
        /\ \A i \in 1 .. Len(u.jobQ) - (k + 1) + 1 : rest[i] = u.jobQ[(k + 1) + i - 1]
    BY ONLY <2>1, <2>2, SubSeqProperties
  <2>4. Len(rest) = Len(u.jobQ) - k
    BY <1>4, <1>5, <2>3
  <2> QED
    BY <1>4, <1>5, <2>3, <2>4, LenProperties
<1> HIDE DEF rest
<1>8. RangeOf(rest) \union first = RangeOf(u.jobQ)
  <2>1. RangeOf(rest) \subseteq RangeOf(u.jobQ)
    <3> SUFFICES ASSUME NEW i \in 1 .. Len(u.jobQ) - k PROVE rest[i] \in RangeOf(u.jobQ)
      BY <1>7 DEF RangeOf
    <3>1. k + i \in DOMAIN u.jobQ
      BY <1>4, <1>5
    <3> QED
      BY <1>7, <3>1 DEF RangeOf
  <2>2. first \subseteq RangeOf(u.jobQ)
    BY <1>4, <1>5 DEF RangeOf
  <2>3. RangeOf(u.jobQ) \subseteq RangeOf(rest) \union first
    <3> SUFFICES ASSUME NEW i \in 1 .. Len(u.jobQ)
                 PROVE  u.jobQ[i] \in RangeOf(rest) \union first
      BY <1>4 DEF RangeOf
    <3>1. CASE i \in 1 .. k
      BY <3>1
    <3>2. CASE i \notin 1 .. k
      <4>1. i - k \in DOMAIN rest /\ rest[i - k] = u.jobQ[i]
        BY <1>4, <1>5, <1>7, <3>2
      <4> QED
        BY <4>1 DEF RangeOf
    <3> QED
      BY <3>1, <3>2
  <2> QED
    BY <2>1, <2>2, <2>3
<1>9. IsFiniteSet(first) /\ Cardinality(first) <= k /\ first \in SUBSET Jobs
  <2>1. IsFiniteSet(1 .. k) /\ Cardinality(1 .. k) = k
    <3>1. 1 \in Int /\ k \in Int
      BY <1>5
    <3>2. IsFiniteSet(1 .. k) /\ Cardinality(1 .. k) = IF 1 > k THEN 0 ELSE k - 1 + 1
      BY ONLY <3>1, FS_Interval
    <3> QED
      BY <1>5, <3>2
  <2> DEFINE f == [i \in 1 .. k |-> u.jobQ[i]]
  <2>2. f \in Surjection(1 .. k, first)
    BY Zenon DEF Surjection
  <2> HIDE DEF f, first
  <2>3. IsFiniteSet(first) /\ Cardinality(first) <= Cardinality(1 .. k)
    BY ONLY <2>1, <2>2, FS_Surjection
  <2>4. first \in SUBSET Jobs
    BY <1>4, <1>5 DEF first
  <2> QED
    BY <2>1, <2>3, <2>4
<1> HIDE DEF first
<1>10. OnWire(u.submitted \union first)
  <2>1. /\ IsFiniteSet(u.submitted \union first)
        /\ Cardinality(u.submitted \union first) =
             Cardinality(u.submitted) + Cardinality(first) - Cardinality(u.submitted \intersect first)
    BY ONLY <1>1, <1>9, FS_Union
  <2>2. IsFiniteSet(u.submitted \intersect first)
    BY <1>1, FS_Subset
  <2>3. /\ Cardinality(u.submitted) \in Nat /\ Cardinality(first) \in Nat
        /\ Cardinality(u.submitted \intersect first) \in Nat
    BY <1>1, <1>9, <2>2, FS_CardinalityType
  <2>4. Cardinality(u.submitted \union first) <= MaxParallel
    BY <1>5, <1>9, <2>1, <2>3, SizesAssumption
  <2> QED
    BY <2>1, <2>4 DEF OnWire
<1>11. r \in Thread
  BY <1>1, <1>2, <1>6, <1>7, <1>9 DEF Thread, rest
<1>12. /\ r.jobQ = rest /\ r.submitted = u.submitted \union first
       /\ r.queue = u.queue /\ r.entry = u.entry /\ r.iq = u.iq /\ r.alive = u.alive
       /\ r.jobCb = u.jobCb /\ r.jobData = u.jobData /\ r.state = u.state /\ r.job = u.job
       /\ r.conn = u.conn /\ r.subr = u.subr /\ r.ups = u.ups /\ r.done = u.done
       /\ r.requested = u.requested /\ r.num = u.num /\ r.asked = u.asked
  BY <1>1, <1>6 DEF Thread, rest
<1>13. LiveJobs(r) = LiveJobs(u)
  BY <1>8, <1>12 DEF LiveJobs
<1>14. OK(r, st, jb, w)
  BY <1>10, <1>11, <1>12, <1>13 DEF OK
<1> QED
  BY <1>3, <1>12, <1>14

LEMMA TimerSetOK ==
  ASSUME NEW u, NEW st, NEW jb, NEW w, OK(u, st, jb, w)
  PROVE  /\ OK(TimerSet(u), st, jb, w)
         /\ TimerSet(u).submitted # {} => TimerSet(u).timer
         /\ TimerSet(u).state = u.state /\ TimerSet(u).job = u.job
         /\ TimerSet(u).alive = u.alive
<1> DEFINE r == TimerSet(u)
<1>1. u \in Thread
  BY DEF OK
<1>2. r = [u EXCEPT !.timer = @ \/ u.submitted # {}]
  BY DEF TimerSet
<1>3. (u.timer \/ u.submitted # {}) \in BOOLEAN
  OBVIOUS
<1> HIDE DEF r
<1>4. r \in Thread
  BY <1>1, <1>2, <1>3 DEF Thread
<1>5. /\ r.timer = (u.timer \/ u.submitted # {})
      /\ r.queue = u.queue /\ r.entry = u.entry /\ r.iq = u.iq /\ r.alive = u.alive
      /\ r.jobQ = u.jobQ /\ r.submitted = u.submitted /\ r.jobCb = u.jobCb
      /\ r.jobData = u.jobData /\ r.state = u.state /\ r.job = u.job
      /\ r.conn = u.conn /\ r.subr = u.subr /\ r.ups = u.ups /\ r.done = u.done
      /\ r.requested = u.requested /\ r.num = u.num /\ r.asked = u.asked
  BY <1>1, <1>2 DEF Thread
<1>6. LiveJobs(r) = LiveJobs(u)
  BY <1>5 DEF LiveJobs
<1>7. OK(r, st, jb, w)
  BY <1>4, <1>5, <1>6 DEF OK
<1> QED
  BY <1>5, <1>7 DEF r

\* lookup_async(): whatever udns gives up, those that are left are sound and
\* have a timer.
LEMMA LookupAsyncOK ==
  ASSUME NEW u, NEW st \in [Subrs -> States], NEW jb \in [Subrs -> Jobs \union {Null}],
         NEW w, OK(u, st, jb, w), ~SubmitFails, NEW x \in LookupAsync(u)
  PROVE  /\ x.ok
         /\ x.u.submitted # {} => x.u.timer
         /\ \E S \in SUBSET Onces :
              /\ OK(x.u, Reset(st, S, "none"), Reset(jb, S, Null), w)
              /\ x.u.state = Reset(u.state, S, "none")
              /\ x.u.job = Reset(u.job, S, Null)
              /\ x.u.alive = u.alive \ S
<1>1. PICK y \in Submitted(u) :
        \E F \in SUBSET y.u.submitted :
          x = [ok |-> TRUE, u |-> TimerSet(LookupsFailed(y.u, F))]
  BY SubmittedOK DEF LookupAsync
<1>0. PICK F \in SUBSET y.u.submitted :
        x = [ok |-> TRUE, u |-> TimerSet(LookupsFailed(y.u, F))]
  BY <1>1
<1>2. /\ OK(y.u, st, jb, w)
      /\ y.u.state = u.state /\ y.u.job = u.job /\ y.u.alive = u.alive
  BY SubmittedOK
<1> DEFINE v == LookupsFailed(y.u, F)
           hit == HitBy(y.u, F)
<1>3. /\ OK(v, Reset(st, hit, "none"), Reset(jb, hit, Null), w)
      /\ hit \subseteq Onces
      /\ v.state = Reset(u.state, hit, "none")
      /\ v.job = Reset(u.job, hit, Null)
      /\ v.alive = u.alive \ hit
  BY <1>2, LookupsFailedOK
<1> HIDE DEF v, hit
<1>4. /\ OK(TimerSet(v), Reset(st, hit, "none"), Reset(jb, hit, Null), w)
      /\ TimerSet(v).submitted # {} => TimerSet(v).timer
      /\ TimerSet(v).state = v.state /\ TimerSet(v).job = v.job
      /\ TimerSet(v).alive = v.alive
  BY <1>3, TimerSetOK
<1>5. x.ok /\ x.u = TimerSet(v)
  BY <1>0 DEF v
<1> QED
  BY <1>3, <1>4, <1>5

-----------------------------------------------------------------------------
(* The operators on threads: subrequests that are deleted.                 *)

\* The subrequest that was started exists no more, so it is not being started.
LEMMA NotStarted ==
  ASSUME NEW u, NEW st, NEW jb, NEW w, OK(u, st, jb, w), w \notin u.alive
  PROVE  OK(u, st, jb, Null)
<1>1. /\ Known(u.alive, st, w)
      /\ Repeated(u.alive, st, u.requested, u.num, u.asked, w)
      /\ u.alive \subseteq Subrs
  BY DEF OK, Thread
<1>2. Known(u.alive, st, Null) /\ Repeated(u.alive, st, u.requested, u.num, u.asked, Null)
  BY <1>1 DEF Known, Repeated
<1> QED
  BY <1>2 DEF OK

\* The nodes, look-ups and sessions of the subrequests of S, which belong to
\* clients, are out of the way.
Removable(x, st, jb, w, S) ==
  /\ x \in Thread /\ S \subseteq Onces
  /\ Room(x.queue, st, x.alive)
  /\ Known(x.alive, st, w)
  /\ Repeated(x.alive, st, x.requested, x.num, x.asked, w)
  /\ OnWire(x.submitted)
  /\ Listed(x.queue, x.entry, Reset(st, S, "none"), Reset(x.iq, S, Null), x.alive \ S)
  /\ Paired(LiveJobs(x), x.jobData, x.alive \ S, Reset(st, S, "none"), Reset(jb, S, Null))
  /\ Flying(x.conn, x.subr, Reset(x.ups, S, Null), x.alive \ S, x.done \ S,
            Reset(st, S, "none"))

\* delete of such subrequests.
LEMMA DeletedOK ==
  ASSUME NEW x, NEW st \in [Subrs -> States],
         NEW jb \in [Subrs -> Jobs \union {Null}], NEW w, NEW S,
         Removable(x, st, jb, w, S)
  PROVE  LET r == Deleted(x, S)
         IN  /\ OK(r, Reset(st, S, "none"), Reset(jb, S, Null), w)
             /\ r.state = Reset(x.state, S, "none")
             /\ r.job = Reset(x.job, S, Null)
             /\ r.alive = x.alive \ S
             /\ r.requested = Reset(x.requested, S, 0)
             /\ r.submitted = x.submitted
             /\ r.timer = x.timer
             /\ r.conn = x.conn /\ r.subr = x.subr
<1> DEFINE r == Deleted(x, S)
           st2 == Reset(st, S, "none")
<1>0. x \in Thread
  BY DEF Removable
<1>1. /\ x.queue \in Seq(Nodes) /\ x.state \in [Subrs -> States]
      /\ x.iq \in [Subrs -> Nodes \union {Null}] /\ x.alive \in SUBSET Subrs
      /\ x.requested \in [Subrs -> Nat] /\ x.completed \in [Subrs -> Nat]
      /\ x.job \in [Subrs -> Jobs \union {Null}] /\ x.ups \in [Subrs -> Conns \union {Null}]
      /\ x.done \in SUBSET Subrs
  BY <1>0 DEF Thread
<1>2. r = [x EXCEPT !.alive = @ \ S,
              !.state = Reset(@, S, "none"), !.iq = Reset(@, S, Null),
              !.requested = Reset(@, S, 0), !.completed = Reset(@, S, 0),
              !.job = Reset(@, S, Null), !.ups = Reset(@, S, Null),
              !.done = @ \ S]
  BY DEF Deleted
<1> HIDE DEF r
<1>3. /\ Reset(x.state, S, "none") \in [Subrs -> States]
      /\ Reset(x.iq, S, Null) \in [Subrs -> Nodes \union {Null}]
      /\ Reset(x.requested, S, 0) \in [Subrs -> Nat]
      /\ Reset(x.completed, S, 0) \in [Subrs -> Nat]
      /\ Reset(x.job, S, Null) \in [Subrs -> Jobs \union {Null}]
      /\ Reset(x.ups, S, Null) \in [Subrs -> Conns \union {Null}]
      /\ st2 \in [Subrs -> States]
  BY <1>1, ResetTypes DEF States
<1>4. r \in Thread
  BY <1>0, <1>2, <1>3, ZenonT(40) DEF Thread
<1>5. /\ r.alive = x.alive \ S /\ r.state = Reset(x.state, S, "none")
      /\ r.iq = Reset(x.iq, S, Null) /\ r.requested = Reset(x.requested, S, 0)
      /\ r.job = Reset(x.job, S, Null)
      /\ r.ups = Reset(x.ups, S, Null) /\ r.done = x.done \ S
      /\ r.queue = x.queue /\ r.entry = x.entry /\ r.num = x.num
      /\ r.jobQ = x.jobQ /\ r.submitted = x.submitted /\ r.jobCb = x.jobCb
      /\ r.jobData = x.jobData /\ r.timer = x.timer /\ r.asked = x.asked
      /\ r.conn = x.conn /\ r.subr = x.subr
  BY <1>0, <1>2 DEF Thread
<1>6. LiveJobs(r) = LiveJobs(x)
  BY <1>5 DEF LiveJobs
<1>7. Room(r.queue, st2, r.alive)
  <2> DEFINE al == x.alive
             al2 == x.alive \ S
  <2>1. \A s \in al2 : st2[s] # "queued" => st[s] # "queued"
    BY <1>1 DEF Reset
  <2>2. /\ al2 \in SUBSET al /\ al \in SUBSET Subrs /\ st \in [Subrs -> States]
        /\ Room(x.queue, st, al)
    BY <1>1 DEF Removable
  <2> HIDE DEF st2, al, al2
  <2>3. st2 \in [Subrs -> States]
    BY <1>3
  <2>4. Room(x.queue, st2, al2)
    BY ONLY <1>1, <2>1, <2>2, <2>3, RoomShrinks
  <2> QED
    BY <1>5, <2>4 DEF al2
<1>8. Known(r.alive, st2, w) /\ Repeated(r.alive, st2, r.requested, r.num, r.asked, w)
  <2>1. /\ Known(x.alive, st, w) /\ Repeated(x.alive, st, x.requested, x.num, x.asked, w)
        /\ st \in [Subrs -> States] /\ S \in SUBSET Onces
    BY DEF Removable
  <2>2. Known(x.alive \ S, Reset(st, S, "none"), w)
    BY ONLY <1>1, <2>1, KnownDeleted
  <2>3. Repeated(x.alive \ S, Reset(st, S, "none"), Reset(x.requested, S, 0),
                 x.num, x.asked, w)
    BY ONLY <1>1, <2>1, RepeatedDeleted
  <2> QED
    BY <1>5, <2>2, <2>3
<1>10. OK(r, st2, Reset(jb, S, Null), w)
  BY <1>4, <1>5, <1>6, <1>7, <1>8 DEF OK, Removable
<1> QED
  BY <1>5, <1>10 DEF r

\* Freeing the connection of a subrequest and deleting it commute.
LEMMA CleanedDeleted ==
  ASSUME NEW y \in Thread, NEW c, NEW S
  PROVE  Cleaned(Deleted(y, S), c) = Deleted(Cleaned(y, c), S)
<1> DEFINE p1 == y.alive \ S
           p2 == Reset(y.state, S, "none")
           p3 == Reset(y.iq, S, Null)
           p4 == Reset(y.requested, S, 0)
           p5 == Reset(y.completed, S, 0)
           p6 == Reset(y.job, S, Null)
           p7 == Reset(y.ups, S, Null)
           p8 == y.done \ S
           q1 == [y.conn EXCEPT ![c] = "free"]
           q2 == [y.subr EXCEPT ![c] = Null]
           q3 == [y.connLabel EXCEPT ![c] = Null]
           d == Deleted(y, S)
           e == Cleaned(y, c)
<1>1. d = [y EXCEPT !.alive = p1, !.state = p2, !.iq = p3, !.requested = p4,
             !.completed = p5, !.job = p6, !.ups = p7, !.done = p8]
  BY DEF Deleted
<1>2. e = [y EXCEPT !.conn = q1, !.subr = q2, !.connLabel = q3]
  BY DEF Cleaned
<1> HIDE DEF p1, p2, p3, p4, p5, p6, p7, p8, q1, q2, q3, d, e
<1>3. d.conn = y.conn /\ d.subr = y.subr /\ d.connLabel = y.connLabel
  BY <1>1 DEF Thread
<1>4. /\ e.alive = y.alive /\ e.state = y.state /\ e.iq = y.iq /\ e.requested = y.requested
      /\ e.completed = y.completed /\ e.job = y.job /\ e.ups = y.ups /\ e.done = y.done
  BY <1>2 DEF Thread
<1>5. Cleaned(d, c) = [d EXCEPT !.conn = q1, !.subr = q2, !.connLabel = q3]
  BY <1>3 DEF Cleaned, q1, q2, q3
<1>6. Deleted(e, S) = [e EXCEPT !.alive = p1, !.state = p2, !.iq = p3, !.requested = p4,
             !.completed = p5, !.job = p6, !.ups = p7, !.done = p8]
  BY <1>4 DEF Deleted, p1, p2, p3, p4, p5, p6, p7, p8
<1>7. [[y EXCEPT !.alive = p1, !.state = p2, !.iq = p3, !.requested = p4, !.completed = p5,
                 !.job = p6, !.ups = p7, !.done = p8]
         EXCEPT !.conn = q1, !.subr = q2, !.connLabel = q3]
      = [[y EXCEPT !.conn = q1, !.subr = q2, !.connLabel = q3]
         EXCEPT !.alive = p1, !.state = p2, !.iq = p3, !.requested = p4, !.completed = p5,
                !.job = p6, !.ups = p7, !.done = p8]
  BY ZenonT(40) DEF Thread
<1>8. Cleaned(d, c) = Deleted(e, S)
  BY ONLY <1>1, <1>2, <1>5, <1>6, <1>7, Zenon
<1> QED
  BY <1>8 DEF d, e

\* teardown() with an error: the session ends and the subrequest of a client
\* is deleted.
LEMMA TornDownOK ==
  ASSUME NEW u, NEW st \in [Subrs -> States], NEW jb \in [Subrs -> Jobs \union {Null}],
         NEW w, OK(u, st, jb, w), NEW c \in Conns, u.conn[c] \in {"busy", "stuck"}
  PROVE  LET r == TornDown(u, c)
             S == {u.subr[c]} \intersect Onces
         IN  /\ OK(r, Reset(st, S, "none"), Reset(jb, S, Null), w)
             /\ r.state = Reset(u.state, S, "none")
             /\ r.job = Reset(u.job, S, Null)
             /\ r.alive = u.alive \ S
             /\ r.requested = Reset(u.requested, S, 0)
             /\ r.submitted = u.submitted
             /\ r.timer = u.timer
<1> DEFINE r == TornDown(u, c)
           s == u.subr[c]
           S == {s} \intersect Onces
           x == Cleaned([u EXCEPT !.completed[s] = @ + 1], c)
<1>1. u \in Thread
  BY DEF OK
<1>2. /\ u.queue \in Seq(Nodes) /\ u.state \in [Subrs -> States]
      /\ u.iq \in [Subrs -> Nodes \union {Null}] /\ u.alive \in SUBSET Subrs
      /\ u.completed \in [Subrs -> Nat] /\ u.done \in SUBSET Subrs
      /\ u.ups \in [Subrs -> Conns \union {Null}]
      /\ u.conn \in [Conns -> {"free", "idle", "busy", "stuck"}]
      /\ u.subr \in [Conns -> Subrs \union {Null}]
      /\ u.connLabel \in [Conns -> Labels \union {Null}]
  BY <1>1 DEF Thread
<1>3. Flying(u.conn, u.subr, u.ups, u.alive, u.done, st)
  BY DEF OK
<1>4. /\ s \in Subrs /\ s \in u.alive /\ s \notin u.done
      /\ s \in Onces => st[s] = "active"
  BY <1>2, <1>3 DEF Flying
<1> HIDE DEF s
<1>5. x = [u EXCEPT !.completed[s] = @ + 1, !.conn[c] = "free", !.subr[c] = Null,
                    !.connLabel[c] = Null]
  BY DEF Cleaned
<1> DEFINE y == [u EXCEPT !.completed[s] = @ + 1]
<1>6. y \in Thread /\ x \in Thread
  <2>1. y \in Thread
    <3>1. [u.completed EXCEPT ![s] = @ + 1] \in [Subrs -> Nat]
      BY <1>2, <1>4
    <3> QED
      BY <1>1, <3>1 DEF Thread
  <2>2. x = [y EXCEPT !.conn[c] = "free", !.subr[c] = Null, !.connLabel[c] = Null]
    BY DEF Cleaned
  <2>3. y.conn = u.conn /\ y.subr = u.subr /\ y.connLabel = u.connLabel
    BY <1>1 DEF Thread
  <2> HIDE DEF x, y
  <2>4. /\ [y.conn EXCEPT ![c] = "free"] \in [Conns -> {"free", "idle", "busy", "stuck"}]
        /\ [y.subr EXCEPT ![c] = Null] \in [Conns -> Subrs \union {Null}]
        /\ [y.connLabel EXCEPT ![c] = Null] \in [Conns -> Labels \union {Null}]
    BY <1>2, <2>3
  <2>5. x \in Thread
    BY <2>1, <2>2, <2>4 DEF Thread
  <2> QED
    BY <2>1, <2>5
<1>7. r = Deleted(x, S)
  <2>1. Cleaned(Deleted(y, S), c) = Deleted(Cleaned(y, c), S)
    BY <1>6, CleanedDeleted
  <2> QED
    BY <2>1 DEF TornDown, ErrorCalled, s
<1>8. /\ x.queue = u.queue /\ x.entry = u.entry /\ x.iq = u.iq /\ x.alive = u.alive
      /\ x.state = u.state /\ x.job = u.job /\ x.ups = u.ups /\ x.done = u.done
      /\ x.requested = u.requested /\ x.num = u.num /\ x.asked = u.asked
      /\ x.jobQ = u.jobQ /\ x.submitted = u.submitted /\ x.jobCb = u.jobCb
      /\ x.jobData = u.jobData /\ x.timer = u.timer
      /\ x.conn = [u.conn EXCEPT ![c] = "free"] /\ x.subr = [u.subr EXCEPT ![c] = Null]
  BY <1>1, <1>5, ZenonT(40) DEF Thread
<1> HIDE DEF x, r
<1>9. LiveJobs(x) = LiveJobs(u)
  BY <1>8 DEF LiveJobs
<1>10. /\ Room(x.queue, st, x.alive) /\ Known(x.alive, st, w)
       /\ Repeated(x.alive, st, x.requested, x.num, x.asked, w)
       /\ OnWire(x.submitted) /\ S \in SUBSET Onces
  BY <1>8 DEF OK
<1>11. Listed(x.queue, x.entry, Reset(st, S, "none"), Reset(x.iq, S, Null), x.alive \ S)
  <2>1. \A z \in S \intersect u.alive : st[z] # "queued"
    BY <1>4
  <2>2. Listed(u.queue, u.entry, st, u.iq, u.alive) /\ st \in [Subrs -> States]
    BY DEF OK
  <2>3. Listed(u.queue, u.entry, Reset(st, S, "none"), Reset(u.iq, S, Null), u.alive \ S)
    BY ONLY <1>2, <2>1, <2>2, ListedDeleted
  <2> QED
    BY <1>8, <2>3
<1>12. Paired(LiveJobs(x), x.jobData, x.alive \ S, Reset(st, S, "none"), Reset(jb, S, Null))
  <2>1. Paired(LiveJobs(u), u.jobData, u.alive, st, jb)
    BY DEF OK
  <2>2. \A j \in LiveJobs(u) : u.jobData[j] \in S <=> j \notin LiveJobs(u)
    BY <1>4, <2>1 DEF Paired
  <2>3. /\ LiveJobs(u) \in SUBSET LiveJobs(u)
        /\ \A j \in LiveJobs(u) : u.jobData[j] = u.jobData[j]
        /\ st \in [Subrs -> States] /\ jb \in [Subrs -> Jobs \union {Null}]
    OBVIOUS
  <2>4. Paired(LiveJobs(u), u.jobData, u.alive \ S, Reset(st, S, "none"), Reset(jb, S, Null))
    BY ONLY <1>2, <2>1, <2>2, <2>3, PairedDeleted
  <2> QED
    BY <1>8, <1>9, <2>4
<1>13. Flying(x.conn, x.subr, Reset(x.ups, S, Null), x.alive \ S, x.done \ S,
              Reset(st, S, "none"))
  <2> DEFINE conn2 == [u.conn EXCEPT ![c] = "free"]
             subr2 == [u.subr EXCEPT ![c] = Null]
             done2 == u.done \union ({u.subr[c]} \intersect Onces)
  <2>1. /\ conn2[c] \notin {"busy", "stuck"}
        /\ \A d \in Conns \ {c} :
             conn2[d] \in {"busy", "stuck"} <=> u.conn[d] \in {"busy", "stuck"}
        /\ \A d \in Conns \ {c} : u.conn[d] \in {"busy", "stuck"} => subr2[d] = u.subr[d]
        /\ c \in Conns /\ u.conn[c] \in {"busy", "stuck"}
    BY <1>2
  <2> HIDE DEF conn2, subr2
  <2>2. Flying(conn2, subr2, u.ups, u.alive, done2, st)
    BY ONLY <1>3, <2>1, FlyingLanded
  <2> HIDE DEF done2
  <2>3. \A d \in Conns : conn2[d] \in {"busy", "stuck"} => subr2[d] \notin S
    BY <2>2 DEF Flying, done2, s
  <2>4. st \in [Subrs -> States]
    OBVIOUS
  <2>5. Flying(conn2, subr2, Reset(u.ups, S, Null), u.alive \ S, done2 \ S, Reset(st, S, "none"))
    BY ONLY <1>2, <2>2, <2>3, <2>4, FlyingDeleted
  <2>6. done2 \ S = u.done \ S
    BY DEF done2, s
  <2> QED
    BY <1>8, <2>5, <2>6 DEF conn2, subr2
<1> HIDE DEF S
<1>14. /\ OK(r, Reset(st, S, "none"), Reset(jb, S, Null), w)
       /\ r.state = Reset(x.state, S, "none") /\ r.job = Reset(x.job, S, Null)
       /\ r.alive = x.alive \ S /\ r.requested = Reset(x.requested, S, 0)
       /\ r.submitted = x.submitted /\ r.timer = x.timer
  <2>1. st \in [Subrs -> States] /\ jb \in [Subrs -> Jobs \union {Null}]
    OBVIOUS
  <2>2. Removable(x, st, jb, w, S)
    BY <1>6, <1>10, <1>11, <1>12, <1>13 DEF Removable
  <2> DEFINE rr == Deleted(x, S)
  <2>3. /\ OK(rr, Reset(st, S, "none"), Reset(jb, S, Null), w)
        /\ rr.state = Reset(x.state, S, "none") /\ rr.job = Reset(x.job, S, Null)
        /\ rr.alive = x.alive \ S /\ rr.requested = Reset(x.requested, S, 0)
        /\ rr.submitted = x.submitted /\ rr.timer = x.timer
    BY ONLY <2>1, <2>2, DeletedOK
  <2> QED
    BY <1>7, <2>3
<1> QED
  BY <1>8, <1>14 DEF r, S, s

-----------------------------------------------------------------------------
(* The steps of the thread: answers of name servers.                       *)

LEMMA OnWireShrinks ==
  ASSUME NEW A, NEW B \in SUBSET A, OnWire(A)
  PROVE  OnWire(B)
<1>1. IsFiniteSet(A) /\ Cardinality(A) <= MaxParallel
  BY DEF OnWire
<1>2. /\ IsFiniteSet(B) /\ Cardinality(B) <= Cardinality(A)
      /\ Cardinality(B) \in Nat /\ Cardinality(A) \in Nat
  BY <1>1, FS_Subset, FS_CardinalityType
<1> QED
  BY <1>1, <1>2, SizesAssumption DEF OnWire

\* The members that the invariant is about, but for state and job.
Alike(r, u) ==
  /\ r.queue = u.queue /\ r.entry = u.entry /\ r.iq = u.iq /\ r.alive = u.alive
  /\ r.jobQ = u.jobQ /\ r.submitted = u.submitted /\ r.jobCb = u.jobCb
  /\ r.jobData = u.jobData
  /\ r.conn = u.conn /\ r.subr = u.subr /\ r.ups = u.ups /\ r.done = u.done
  /\ r.requested = u.requested /\ r.num = u.num /\ r.asked = u.asked

LEMMA AlikeOK ==
  ASSUME NEW u, NEW st, NEW jb, NEW w, OK(u, st, jb, w), NEW r \in Thread, Alike(r, u)
  PROVE  OK(r, st, jb, w)
<1>1. LiveJobs(r) = LiveJobs(u)
  BY DEF LiveJobs, Alike
<1> QED
  BY <1>1 DEF OK, Alike

\* A look-up is answered: its subrequest, if there still is one, is queued again.
LEMMA LookupAnsweredOK ==
  ASSUME NEW u, Sound(u), NEW j \in u.submitted
  PROVE  /\ Sound(LookupAnswered(u, j))
         /\ LookupAnswered(u, j).submitted \subseteq u.submitted
         /\ LookupAnswered(u, j).timer = u.timer
<1> DEFINE s == u.jobData[j]
           v == [Forgotten(u, {j}) EXCEPT !.cached = @ \union {LabelOf[s]}]
           x == [v EXCEPT !.job[s] = Null]
           st == [u.state EXCEPT ![s] = "none"]
<1>1. u \in Thread
  BY DEF Sound, OK
<1>2. /\ u.queue \in Seq(Nodes) /\ u.state \in [Subrs -> States]
      /\ u.alive \in SUBSET Subrs /\ u.job \in [Subrs -> Jobs \union {Null}]
      /\ u.submitted \in SUBSET Jobs /\ u.jobCb \in [Jobs -> BOOLEAN]
      /\ u.jobData \in [Jobs -> Subrs \union {Null}] /\ u.jobQ \in Seq(Jobs)
      /\ u.cached \in SUBSET {LabelOf[y] : y \in Subrs \union {Null}}
  BY <1>1 DEF Thread
<1>3. RangeOf(u.jobQ) \subseteq Jobs /\ LiveJobs(u) \subseteq Jobs /\ j \in Jobs
  <2>1. RangeOf(u.jobQ) \subseteq Jobs
    BY <1>2, LenProperties, ElementOfSeq DEF RangeOf
  <2> QED
    BY <1>2, <2>1 DEF LiveJobs
<1>4. s \in Subrs \union {Null}
  BY <1>2, <1>3
<1>5. Paired(LiveJobs(u), u.jobData, u.alive, u.state, u.job)
  BY DEF Sound, OK
<1>6. v = [u EXCEPT !.submitted = @ \ {j}, !.jobCb = Reset(@, {j}, FALSE),
                    !.jobData = Reset(@, {j}, Null), !.cached = @ \union {LabelOf[s]}]
  BY <1>1 DEF Forgotten, Thread
<1> HIDE DEF v, s
<1>7. v \in Thread
  <2>1. /\ u.submitted \ {j} \in SUBSET Jobs /\ Reset(u.jobCb, {j}, FALSE) \in [Jobs -> BOOLEAN]
        /\ Reset(u.jobData, {j}, Null) \in [Jobs -> Subrs \union {Null}]
    BY <1>2 DEF Reset
  <2>2. u.cached \union {LabelOf[s]} \in SUBSET {LabelOf[y] : y \in Subrs \union {Null}}
    BY <1>2, <1>4
  <2> QED
    BY <1>1, <1>6, <2>1, <2>2 DEF Thread
<1>8. /\ v.submitted = u.submitted \ {j} /\ v.jobCb = Reset(u.jobCb, {j}, FALSE)
      /\ v.jobData = Reset(u.jobData, {j}, Null)
      /\ v.queue = u.queue /\ v.entry = u.entry /\ v.state = u.state /\ v.iq = u.iq
      /\ v.requested = u.requested /\ v.num = u.num
      /\ v.job = u.job /\ v.ups = u.ups /\ v.alive = u.alive /\ v.done = u.done
      /\ v.jobQ = u.jobQ /\ v.timer = u.timer /\ v.asked = u.asked
      /\ v.conn = u.conn /\ v.subr = u.subr
  BY <1>1, <1>6 DEF Thread
<1>9. LiveJobs(v) = LiveJobs(u) \ {j}
  <2>1. \A i \in Jobs : v.jobCb[i] = IF i = j THEN FALSE ELSE u.jobCb[i]
    BY <1>2, <1>8 DEF Reset
  <2> QED
    BY <1>2, <1>3, <1>8, <2>1 DEF LiveJobs
<1>10. \A i \in LiveJobs(v) : v.jobData[i] = u.jobData[i]
  BY <1>2, <1>3, <1>8, <1>9 DEF Reset
<1>11. OnWire(v.submitted)
  BY <1>8, OnWireShrinks DEF Sound, OK
<1>12. CASE j \notin LiveJobs(u)
  <2>1. LookupAnswered(u, j) = v
    BY <1>12 DEF LookupAnswered, v, s
  <2>2. Paired(LiveJobs(v), v.jobData, v.alive, v.state, v.job)
    <3>1. LiveJobs(v) = LiveJobs(u)
      BY <1>9, <1>12
    <3>2. \A i \in LiveJobs(u) : v.jobData[i] = u.jobData[i]
      BY <1>10, <3>1
    <3>3. Paired(LiveJobs(u), v.jobData, u.alive, u.state, u.job)
      BY <1>5, <3>2 DEF Paired
    <3> QED
      BY <1>8, <3>1, <3>3
  <2>3. Sound(v)
    BY <1>7, <1>8, <1>11, <2>2 DEF Sound, OK
  <2> QED
    BY <1>8, <2>1, <2>3
<1>13. CASE j \in LiveJobs(u)
  <2>1. s \in Onces \intersect u.alive /\ u.state[s] = "dns" /\ u.job[s] = j /\ s \in Subrs
        /\ s \notin Dupes
    BY <1>2, <1>5, <1>13, Kinds DEF Paired, s
  <2>2. LookupAnswered(u, j) = Enqueued(x, s)
    BY <1>13, <2>1 DEF LookupAnswered, v, s
  <2>3. [u.job EXCEPT ![s] = Null] \in [Subrs -> Jobs \union {Null}]
    BY <1>2
  <2>4. x \in Thread
    BY <1>7, <1>8, <2>3 DEF Thread
  <2>5. /\ x.job = [u.job EXCEPT ![s] = Null]
        /\ x.submitted = v.submitted /\ x.jobCb = v.jobCb /\ x.jobData = v.jobData
        /\ x.queue = u.queue /\ x.entry = u.entry /\ x.state = u.state /\ x.iq = u.iq
        /\ x.requested = u.requested /\ x.num = u.num
        /\ x.ups = u.ups /\ x.alive = u.alive /\ x.done = u.done
        /\ x.jobQ = v.jobQ /\ x.timer = u.timer /\ x.asked = u.asked
        /\ x.conn = u.conn /\ x.subr = u.subr
    BY <1>7, <1>8 DEF Thread
  <2> HIDE DEF x, st
  <2>6. /\ st[s] = "none" /\ \A y \in Subrs : y # s => st[y] = u.state[y]
        /\ x.job[s] = Null /\ \A y \in Subrs : y # s => x.job[y] = u.job[y]
        /\ st \in [Subrs -> States]
    BY <1>2, <2>1, <2>5 DEF st, States
  <2>7. LiveJobs(x) = LiveJobs(u) \ {j}
    BY <1>9, <2>5 DEF LiveJobs
  <2>8. Listed(x.queue, x.entry, st, x.iq, x.alive)
    <3>1. Listed(u.queue, u.entry, u.state, u.iq, u.alive)
      BY DEF Sound, OK
    <3>2. \A y \in u.alive : st[y] = "queued" <=> u.state[y] = "queued"
      BY <1>2, <2>1, <2>6
    <3> QED
      BY <2>5, <3>1, <3>2 DEF Listed
  <2>9. Room(x.queue, st, x.alive)
    <3>1. /\ u.alive \in SUBSET u.alive /\ Room(u.queue, u.state, u.alive)
          /\ \A y \in u.alive : st[y] # "queued" => u.state[y] # "queued"
      BY <1>2, <2>1, <2>6 DEF Sound, OK
    <3>2. Room(u.queue, st, u.alive)
      BY ONLY <1>2, <2>6, <3>1, RoomShrinks
    <3> QED
      BY <2>5, <3>2
  <2>10. Paired(LiveJobs(x), x.jobData, x.alive, st, x.job)
    <3>1. ASSUME NEW i \in LiveJobs(x)
          PROVE  /\ x.jobData[i] \in Onces \intersect x.alive
                 /\ st[x.jobData[i]] = "dns" /\ x.job[x.jobData[i]] = i
      <4>1. i # j /\ i \in LiveJobs(u) /\ x.jobData[i] = u.jobData[i]
        BY <1>9, <1>10, <2>5, <2>7
      <4>2. /\ u.jobData[i] \in Onces \intersect u.alive
            /\ u.state[u.jobData[i]] = "dns" /\ u.job[u.jobData[i]] = i
        BY <1>5, <4>1 DEF Paired
      <4> QED
        BY <1>2, <2>1, <2>5, <2>6, <4>1, <4>2
    <3>2. ASSUME NEW y \in x.alive, st[y] = "dns"
          PROVE  x.job[y] \in LiveJobs(x) /\ x.jobData[x.job[y]] = y
      <4>1. y # s /\ y \in u.alive /\ u.state[y] = "dns" /\ x.job[y] = u.job[y]
        BY <1>2, <2>5, <2>6, <3>2
      <4>2. u.job[y] \in LiveJobs(u) /\ u.jobData[u.job[y]] = y
        BY <1>5, <4>1 DEF Paired
      <4>3. u.job[y] # j
        BY <4>1, <4>2 DEF s
      <4> QED
        BY <1>9, <1>10, <2>5, <2>7, <4>1, <4>2, <4>3
    <3> QED
      BY <3>1, <3>2 DEF Paired
  <2>11. Flying(x.conn, x.subr, x.ups, x.alive, x.done, st)
    <3>1. \A y \in Onces \intersect u.alive :
            st[y] = "active" <=> y \in u.alive /\ u.state[y] = "active"
      BY <1>2, <2>1, <2>6
    <3> QED
      BY <2>5, <3>1, FlyingKept DEF Sound, OK
  <2>12. Known(x.alive, st, s)
    <3>1. Known(u.alive, u.state, Null)
      BY DEF Sound, OK
    <3> QED
      BY <1>2, <2>1, <2>5, <2>6, <3>1, Kinds DEF Known
  <2>13. Repeated(x.alive, st, x.requested, x.num, x.asked, s)
    <3>1. Repeated(u.alive, u.state, u.requested, u.num, u.asked, Null)
      BY DEF Sound, OK
    <3> QED
      BY <1>2, <2>5, <2>6, <3>1, Kinds DEF Repeated
  <2>14. OK(x, st, x.job, s)
    BY <1>11, <2>4, <2>5, <2>8, <2>9, <2>10, <2>11, <2>12, <2>13 DEF OK
  <2>15. [x.state EXCEPT ![s] = "queued"] = [st EXCEPT ![s] = "queued"]
    BY <1>2, <2>1, <2>5 DEF st
  <2>16. /\ s \in x.alive /\ st[s] \in {"none", "active"} /\ (s \in Onces => st[s] = "none")
         /\ st \in [Subrs -> States] /\ s \in Subrs
    BY <2>1, <2>5, <2>6
  <2> DEFINE r == Enqueued(x, s)
             jb == x.job
  <2>17. OK(x, st, jb, s)
    BY <2>14
  <2> HIDE DEF jb
  <2>18. /\ OK(r, r.state, jb, Null)
         /\ r.job = x.job /\ r.submitted = x.submitted /\ r.timer = x.timer
    BY ONLY <2>15, <2>16, <2>17, EnqueuedOK, ZenonT(40)
  <2> QED
    BY <1>8, <2>2, <2>5, <2>18 DEF Sound, jb
<1> QED
  BY <1>12, <1>13

\* The end of a callback of the resolver.
LEMMA LookupAsyncSound ==
  ASSUME NEW u, Sound(u), ~SubmitFails, NEW x \in LookupAsync(u)
  PROVE  /\ Sound(x.u)
         /\ x.u.submitted # {} => x.u.timer
<1>1. u.state \in [Subrs -> States] /\ u.job \in [Subrs -> Jobs \union {Null}]
  BY DEF Sound, OK, Thread
<1>2. /\ x.u.submitted # {} => x.u.timer
      /\ \E S \in SUBSET Onces :
           /\ OK(x.u, Reset(u.state, S, "none"), Reset(u.job, S, Null), Null)
           /\ x.u.state = Reset(u.state, S, "none")
           /\ x.u.job = Reset(u.job, S, Null)
           /\ x.u.alive = u.alive \ S
  <2>1. OK(u, u.state, u.job, Null) /\ ~SubmitFails /\ x \in LookupAsync(u)
    BY DEF Sound
  <2> QED
    BY ONLY <1>1, <2>1, LookupAsyncOK
<1> QED
  BY <1>2 DEF Sound

LEMMA AnswerKeeps ==
  ASSUME ~SubmitFails, IInv, NEW j \in Jobs, Answer(j)
  PROVE  IInv'
<1>1. PICK v \in {LookupAnswered(t, j), LookupsFailed(t, {j})} :
        \E x \in LookupAsync(v) : t' = x.u
  BY DEF Answer
<1>2. PICK x \in LookupAsync(v) : t' = x.u
  BY <1>1
<1>3. Sound(t) /\ j \in t.submitted
  BY DEF IInv, Answer
<1>4. Sound(LookupsFailed(t, {j}))
  <2>1. t.state \in [Subrs -> States] /\ t.job \in [Subrs -> Jobs \union {Null}]
    BY <1>3 DEF Sound, OK, Thread
  <2>2. OK(t, t.state, t.job, Null) /\ {j} \in SUBSET t.submitted
    BY <1>3 DEF Sound
  <2> DEFINE r == LookupsFailed(t, {j})
             hit == HitBy(t, {j})
  <2>3. /\ OK(r, Reset(t.state, hit, "none"), Reset(t.job, hit, Null), Null)
        /\ r.state = Reset(t.state, hit, "none") /\ r.job = Reset(t.job, hit, Null)
    BY ONLY <2>1, <2>2, LookupsFailedOK
  <2> HIDE DEF r, hit
  <2> QED
    BY <2>3 DEF Sound, r
<1>5. Sound(v)
  BY <1>3, <1>4, LookupAnsweredOK
<1>6. Sound(t') /\ (t'.submitted # {} => t'.timer)
  BY <1>2, <1>5, LookupAsyncSound
<1>7. conf' = conf /\ pc' = pc
  BY DEF Answer
<1> QED
  BY <1>6, <1>7 DEF IInv, Sound, OK, Repeated

LEMMA DnsTimerKeeps ==
  ASSUME ~SubmitFails, IInv, DnsTimer
  PROVE  IInv'
<1> DEFINE u == [t EXCEPT !.timer = FALSE]
<1>1. PICK x \in LookupAsync(u) : t' = x.u
  BY DEF DnsTimer
<1>2. Sound(t) /\ t \in Thread
  BY DEF IInv, Sound, OK
<1>3. u \in Thread /\ Alike(u, t) /\ u.state = t.state /\ u.job = t.job
  BY <1>2 DEF Thread, Alike
<1> HIDE DEF u
<1>4. Sound(u)
  BY <1>2, <1>3, AlikeOK DEF Sound
<1>5. Sound(t') /\ (t'.submitted # {} => t'.timer)
  BY <1>1, <1>4, LookupAsyncSound
<1>6. conf' = conf /\ pc' = pc
  BY DEF DnsTimer
<1> QED
  BY <1>5, <1>6 DEF IInv, Sound, OK, Repeated

-----------------------------------------------------------------------------
(* The steps of the thread: clients.                                       *)

\* The node of a queued subrequest is emptied, and the subrequest deleted.
LEMMA ListedCancelled ==
  ASSUME NEW q \in Seq(Nodes), NEW e \in [Nodes -> Subrs \union {Null}],
         NEW st \in [Subrs -> States], NEW iq \in [Subrs -> Nodes \union {Null}],
         NEW al \in SUBSET Subrs, Listed(q, e, st, iq, al),
         NEW s \in al, st[s] = "queued"
  PROVE  Listed(q, [e EXCEPT ![iq[s]] = Null], Reset(st, {s}, "none"), Reset(iq, {s}, Null),
                al \ {s})
<1> DEFINE n == iq[s]
           e2 == [e EXCEPT ![n] = Null]
           st2 == Reset(st, {s}, "none")
           iq2 == Reset(iq, {s}, Null)
<1>1. RangeOf(q) \subseteq Nodes
  BY LenProperties, ElementOfSeq DEF RangeOf
<1>2. n \in Nodes /\ n \in RangeOf(q) /\ e[n] = s
  BY <1>1 DEF Listed
<1> HIDE DEF n
<1>3. /\ e2[n] = Null /\ \A m \in Nodes : m # n => e2[m] = e[m]
      /\ \A y \in Subrs : y # s => st2[y] = st[y] /\ iq2[y] = iq[y]
  BY <1>2 DEF Reset
<1> HIDE DEF e2, st2, iq2
<1>4. \A y \in al \ {s} : st2[y] = "queued" => iq2[y] \in RangeOf(q) /\ e2[iq2[y]] = y
  <2> SUFFICES ASSUME NEW y \in al, y # s, st2[y] = "queued"
               PROVE  iq2[y] \in RangeOf(q) /\ e2[iq2[y]] = y
    OBVIOUS
  <2>1. iq[y] \in RangeOf(q) /\ e[iq[y]] = y
    BY <1>3 DEF Listed
  <2> QED
    BY <1>1, <1>2, <1>3, <2>1
<1>5. \A m \in RangeOf(q) : e2[m] # Null =>
        e2[m] \in al \ {s} /\ st2[e2[m]] = "queued" /\ iq2[e2[m]] = m
  <2> SUFFICES ASSUME NEW m \in RangeOf(q), e2[m] # Null
               PROVE  e2[m] \in al \ {s} /\ st2[e2[m]] = "queued" /\ iq2[e2[m]] = m
    OBVIOUS
  <2>1. m \in Nodes /\ m # n /\ e2[m] = e[m]
    BY <1>1, <1>3
  <2>2. e[m] \in al /\ st[e[m]] = "queued" /\ iq[e[m]] = m
    BY <2>1 DEF Listed
  <2>3. e[m] # s
    BY <2>1, <2>2 DEF n
  <2> QED
    BY <1>3, <2>1, <2>2, <2>3
<1> QED
  BY <1>4, <1>5 DEF Listed, n, e2, st2, iq2

\* What is left to show when a subrequest of a client is deleted, and what of it
\* its state settles.
LEMMA Removes ==
  ASSUME NEW u, Sound(u), NEW s \in Onces \intersect u.alive,
         NEW x \in Thread, x.state = u.state, x.job = u.job,
         x.queue = u.queue, x.iq = u.iq, x.alive = u.alive, x.ups = u.ups, x.done = u.done,
         x.requested = u.requested, x.num = u.num, x.asked = u.asked,
         x.submitted = u.submitted, x.timer = u.timer,
         Listed(x.queue, x.entry, Reset(u.state, {s}, "none"), Reset(u.iq, {s}, Null),
                u.alive \ {s}),
         Paired(LiveJobs(x), x.jobData, u.alive \ {s}, Reset(u.state, {s}, "none"),
                Reset(u.job, {s}, Null)),
         Flying(x.conn, x.subr, Reset(u.ups, {s}, Null), u.alive \ {s}, u.done \ {s},
                Reset(u.state, {s}, "none"))
  PROVE  LET r == Deleted(x, {s})
         IN  Sound(r) /\ r.submitted = u.submitted /\ r.timer = u.timer
<1>1. u.state \in [Subrs -> States] /\ u.job \in [Subrs -> Jobs \union {Null}]
  BY DEF Sound, OK, Thread
<1>2. Removable(x, u.state, u.job, Null, {s})
  BY DEF Removable, Sound, OK
<1> DEFINE r == Deleted(x, {s})
<1>3. /\ OK(r, Reset(u.state, {s}, "none"), Reset(u.job, {s}, Null), Null)
      /\ r.state = Reset(x.state, {s}, "none") /\ r.job = Reset(x.job, {s}, Null)
      /\ r.submitted = x.submitted /\ r.timer = x.timer
  BY ONLY <1>1, <1>2, DeletedOK
<1> HIDE DEF r
<1> QED
  BY <1>3 DEF Sound, r

LEMMA StateSettles ==
  ASSUME NEW u, Sound(u), NEW s \in Onces \intersect u.alive
  PROVE  /\ u.state[s] # "queued" =>
              Listed(u.queue, u.entry, Reset(u.state, {s}, "none"), Reset(u.iq, {s}, Null),
                     u.alive \ {s})
         /\ u.state[s] # "dns" =>
              Paired(LiveJobs(u), u.jobData, u.alive \ {s}, Reset(u.state, {s}, "none"),
                     Reset(u.job, {s}, Null))
         /\ s \in u.done \/ u.state[s] # "active" =>
              Flying(u.conn, u.subr, Reset(u.ups, {s}, Null), u.alive \ {s}, u.done \ {s},
                     Reset(u.state, {s}, "none"))
<1>1. /\ u.state \in [Subrs -> States] /\ u.iq \in [Subrs -> Nodes \union {Null}]
      /\ u.alive \in SUBSET Subrs /\ u.ups \in [Subrs -> Conns \union {Null}]
      /\ u.job \in [Subrs -> Jobs \union {Null}]
  BY DEF Sound, OK, Thread
<1>2. /\ Listed(u.queue, u.entry, u.state, u.iq, u.alive)
      /\ Paired(LiveJobs(u), u.jobData, u.alive, u.state, u.job)
      /\ Flying(u.conn, u.subr, u.ups, u.alive, u.done, u.state)
  BY DEF Sound, OK
<1>3. ASSUME u.state[s] # "queued"
      PROVE  Listed(u.queue, u.entry, Reset(u.state, {s}, "none"), Reset(u.iq, {s}, Null),
                    u.alive \ {s})
  <2>1. \A y \in {s} \intersect u.alive : u.state[y] # "queued"
    BY <1>3
  <2> QED
    BY ONLY <1>1, <1>2, <2>1, ListedDeleted
<1>4. ASSUME u.state[s] # "dns"
      PROVE  Paired(LiveJobs(u), u.jobData, u.alive \ {s}, Reset(u.state, {s}, "none"),
                    Reset(u.job, {s}, Null))
  <2>1. /\ LiveJobs(u) \in SUBSET LiveJobs(u)
        /\ \A j \in LiveJobs(u) : u.jobData[j] \in {s} <=> j \notin LiveJobs(u)
        /\ \A j \in LiveJobs(u) : u.jobData[j] = u.jobData[j]
    BY <1>2, <1>4 DEF Paired
  <2> QED
    BY ONLY <1>1, <1>2, <2>1, PairedDeleted
<1>5. ASSUME s \in u.done \/ u.state[s] # "active"
      PROVE  Flying(u.conn, u.subr, Reset(u.ups, {s}, Null), u.alive \ {s}, u.done \ {s},
                    Reset(u.state, {s}, "none"))
  <2>1. \A c \in Conns : u.conn[c] \in {"busy", "stuck"} => u.subr[c] \notin {s}
    BY <1>2, <1>5 DEF Flying
  <2> QED
    BY ONLY <1>1, <1>2, <2>1, FlyingDeleted
<1> QED
  BY <1>3, <1>4, <1>5

\* The client goes: its subrequest is cancelled, unless it is done, and deleted.
LEMMA EndedOK ==
  ASSUME NEW u, Sound(u), NEW s \in Onces \intersect u.alive
  PROVE  LET r == Deleted(IF s \in u.done THEN u ELSE Cancelled(u, s), {s})
         IN  Sound(r) /\ r.submitted = u.submitted /\ r.timer = u.timer
<1>1. u \in Thread
  BY DEF Sound, OK
<1>2. /\ u.state \in [Subrs -> States] /\ u.iq \in [Subrs -> Nodes \union {Null}]
      /\ u.alive \in SUBSET Subrs /\ u.ups \in [Subrs -> Conns \union {Null}]
      /\ u.job \in [Subrs -> Jobs \union {Null}] /\ u.queue \in Seq(Nodes)
      /\ u.entry \in [Nodes -> Subrs \union {Null}]
      /\ u.jobQ \in Seq(Jobs) /\ u.submitted \in SUBSET Jobs
      /\ u.jobCb \in [Jobs -> BOOLEAN]
      /\ u.conn \in [Conns -> {"free", "idle", "busy", "stuck"}]
      /\ u.subr \in [Conns -> Subrs \union {Null}]
      /\ u.connLabel \in [Conns -> Labels \union {Null}]
      /\ u.done \in SUBSET Subrs
      /\ s \in Subrs
  BY <1>1, Kinds DEF Thread
<1>3. /\ Listed(u.queue, u.entry, u.state, u.iq, u.alive)
      /\ Paired(LiveJobs(u), u.jobData, u.alive, u.state, u.job)
      /\ Flying(u.conn, u.subr, u.ups, u.alive, u.done, u.state)
      /\ Known(u.alive, u.state, Null)
  BY DEF Sound, OK
<1>4. CASE s \in u.done
  <2>1. u.state[s] = "active"
    BY <1>3, <1>4 DEF Flying
  <2> QED
    BY <1>1, <1>4, <2>1, StateSettles, Removes
<1>5. CASE s \notin u.done /\ u.state[s] = "queued"
  <2> DEFINE x == [u EXCEPT !.entry[u.iq[s]] = Null]
  <2>1. Cancelled(u, s) = x
    BY <1>5 DEF Cancelled
  <2>2. [u.entry EXCEPT ![u.iq[s]] = Null] \in [Nodes -> Subrs \union {Null}]
    BY <1>2
  <2>3. x \in Thread
    BY <1>1, <2>2 DEF Thread
  <2>4. /\ x.state = u.state /\ x.job = u.job
        /\ x.queue = u.queue /\ x.iq = u.iq /\ x.alive = u.alive /\ x.ups = u.ups
        /\ x.done = u.done /\ x.jobQ = u.jobQ /\ x.jobCb = u.jobCb /\ x.jobData = u.jobData
        /\ x.requested = u.requested /\ x.num = u.num /\ x.asked = u.asked
        /\ x.submitted = u.submitted /\ x.timer = u.timer
        /\ x.conn = u.conn /\ x.subr = u.subr
        /\ x.entry = [u.entry EXCEPT ![u.iq[s]] = Null]
    BY <1>1 DEF Thread
  <2> HIDE DEF x
  <2>5. Listed(u.queue, [u.entry EXCEPT ![u.iq[s]] = Null], Reset(u.state, {s}, "none"),
               Reset(u.iq, {s}, Null), u.alive \ {s})
    <3>1. s \in u.alive /\ u.state[s] = "queued"
      BY <1>5
    <3> QED
      BY ONLY <1>2, <1>3, <3>1, ListedCancelled
  <2>6. LiveJobs(x) = LiveJobs(u)
    BY <2>4 DEF LiveJobs
  <2>7. /\ Paired(LiveJobs(u), u.jobData, u.alive \ {s}, Reset(u.state, {s}, "none"),
                  Reset(u.job, {s}, Null))
        /\ Flying(u.conn, u.subr, Reset(u.ups, {s}, Null), u.alive \ {s}, u.done \ {s},
                  Reset(u.state, {s}, "none"))
    BY <1>5, StateSettles
  <2> QED
    BY <1>5, <2>1, <2>3, <2>4, <2>5, <2>6, <2>7, Removes
<1>6. CASE s \notin u.done /\ u.state[s] = "dns"
  <2> DEFINE j == u.job[s]
             x == [u EXCEPT !.jobCb[j] = FALSE]
  <2>1. RangeOf(u.jobQ) \subseteq Jobs /\ LiveJobs(u) \subseteq Jobs
    <3>1. RangeOf(u.jobQ) \subseteq Jobs
      BY <1>2, LenProperties, ElementOfSeq DEF RangeOf
    <3> QED
      BY <1>2, <3>1 DEF LiveJobs
  <2>2. j \in LiveJobs(u) /\ u.jobData[j] = s /\ j \in Jobs /\ j # Null
    BY <1>3, <1>6, <2>1, Kinds DEF Paired
  <2>3. Cancelled(u, s) = x
    BY <1>6, <2>2 DEF Cancelled
  <2>4. [u.jobCb EXCEPT ![j] = FALSE] \in [Jobs -> BOOLEAN]
    BY <1>2
  <2>5. x \in Thread
    BY <1>1, <2>4 DEF Thread
  <2>6. /\ x.state = u.state /\ x.job = u.job /\ x.entry = u.entry
        /\ x.queue = u.queue /\ x.iq = u.iq /\ x.alive = u.alive /\ x.ups = u.ups
        /\ x.done = u.done /\ x.jobQ = u.jobQ /\ x.jobData = u.jobData
        /\ x.requested = u.requested /\ x.num = u.num /\ x.asked = u.asked
        /\ x.submitted = u.submitted /\ x.timer = u.timer
        /\ x.conn = u.conn /\ x.subr = u.subr
        /\ x.jobCb = [u.jobCb EXCEPT ![j] = FALSE]
    BY <1>1 DEF Thread
  <2> HIDE DEF x, j
  <2>7. LiveJobs(x) = LiveJobs(u) \ {j}
    <3>1. \A i \in Jobs : x.jobCb[i] = IF i = j THEN FALSE ELSE u.jobCb[i]
      BY <1>2, <2>6
    <3> QED
      BY <1>2, <2>1, <2>6, <3>1 DEF LiveJobs
  <2>8. Paired(LiveJobs(x), u.jobData, u.alive \ {s}, Reset(u.state, {s}, "none"),
               Reset(u.job, {s}, Null))
    <3>1. /\ LiveJobs(u) \ {j} \in SUBSET LiveJobs(u)
          /\ \A i \in LiveJobs(u) : u.jobData[i] \in {s} <=> i \notin LiveJobs(u) \ {j}
          /\ \A i \in LiveJobs(u) \ {j} : u.jobData[i] = u.jobData[i]
      BY <1>3, <2>2 DEF Paired, j
    <3>2. Paired(LiveJobs(u) \ {j}, u.jobData, u.alive \ {s}, Reset(u.state, {s}, "none"),
                 Reset(u.job, {s}, Null))
      BY ONLY <1>2, <1>3, <3>1, PairedDeleted
    <3> QED
      BY <2>7, <3>2
  <2>9. /\ Listed(u.queue, u.entry, Reset(u.state, {s}, "none"), Reset(u.iq, {s}, Null),
                  u.alive \ {s})
        /\ Flying(u.conn, u.subr, Reset(u.ups, {s}, Null), u.alive \ {s}, u.done \ {s},
                  Reset(u.state, {s}, "none"))
    BY <1>6, StateSettles
  <2> QED
    BY <1>6, <2>3, <2>5, <2>6, <2>8, <2>9, Removes
<1>7. CASE s \notin u.done /\ u.state[s] = "active"
  <2> DEFINE c == u.ups[s]
             x == Cleaned(u, c)
  <2>1. c \in Conns /\ c # Null /\ u.conn[c] \in {"busy", "stuck"} /\ u.subr[c] = s
    BY <1>3, <1>7, Kinds DEF Flying
  <2>2. Cancelled(u, s) = x
    BY <1>7, <2>1 DEF Cancelled
  <2> HIDE DEF c
  <2>3. x = [u EXCEPT !.conn[c] = "free", !.subr[c] = Null, !.connLabel[c] = Null]
    BY DEF Cleaned
  <2>4. /\ [u.conn EXCEPT ![c] = "free"] \in [Conns -> {"free", "idle", "busy", "stuck"}]
        /\ [u.subr EXCEPT ![c] = Null] \in [Conns -> Subrs \union {Null}]
        /\ [u.connLabel EXCEPT ![c] = Null] \in [Conns -> Labels \union {Null}]
    BY <1>2
  <2> HIDE DEF x
  <2>5. x \in Thread
    BY <1>1, <2>3, <2>4 DEF Thread
  <2>6. /\ x.state = u.state /\ x.job = u.job /\ x.entry = u.entry
        /\ x.queue = u.queue /\ x.iq = u.iq /\ x.alive = u.alive /\ x.ups = u.ups
        /\ x.done = u.done /\ x.jobQ = u.jobQ /\ x.jobCb = u.jobCb /\ x.jobData = u.jobData
        /\ x.requested = u.requested /\ x.num = u.num /\ x.asked = u.asked
        /\ x.submitted = u.submitted /\ x.timer = u.timer
        /\ x.conn = [u.conn EXCEPT ![c] = "free"] /\ x.subr = [u.subr EXCEPT ![c] = Null]
    BY <1>1, <2>3 DEF Thread
  <2>7. LiveJobs(x) = LiveJobs(u)
    BY <2>6 DEF LiveJobs
  <2>8. Flying(x.conn, x.subr, Reset(u.ups, {s}, Null), u.alive \ {s}, u.done \ {s},
               Reset(u.state, {s}, "none"))
    <3> DEFINE conn2 == x.conn
               subr2 == x.subr
               done2 == u.done \union ({u.subr[c]} \intersect Onces)
    <3>1. /\ conn2[c] \notin {"busy", "stuck"}
          /\ \A d \in Conns \ {c} :
               conn2[d] \in {"busy", "stuck"} <=> u.conn[d] \in {"busy", "stuck"}
          /\ \A d \in Conns \ {c} : u.conn[d] \in {"busy", "stuck"} => subr2[d] = u.subr[d]
          /\ c \in Conns /\ u.conn[c] \in {"busy", "stuck"}
      BY <1>2, <2>1, <2>6
    <3> HIDE DEF conn2, subr2
    <3>2. Flying(conn2, subr2, u.ups, u.alive, done2, u.state)
      BY ONLY <1>3, <3>1, FlyingLanded
    <3>3. done2 = u.done \union {s}
      BY <2>1
    <3> HIDE DEF done2
    <3>4. \A d \in Conns : conn2[d] \in {"busy", "stuck"} => subr2[d] \notin {s}
      BY <3>2, <3>3 DEF Flying
    <3>5. Flying(conn2, subr2, Reset(u.ups, {s}, Null), u.alive \ {s}, done2 \ {s},
                 Reset(u.state, {s}, "none"))
      BY ONLY <1>2, <3>2, <3>4, FlyingDeleted
    <3>6. done2 \ {s} = u.done \ {s}
      BY <3>3
    <3> QED
      BY <3>5, <3>6 DEF conn2, subr2
  <2>9. /\ Listed(u.queue, u.entry, Reset(u.state, {s}, "none"), Reset(u.iq, {s}, Null),
                  u.alive \ {s})
        /\ Paired(LiveJobs(u), u.jobData, u.alive \ {s}, Reset(u.state, {s}, "none"),
                  Reset(u.job, {s}, Null))
    BY <1>7, StateSettles
  <2> QED
    BY <1>7, <2>2, <2>5, <2>6, <2>7, <2>8, <2>9, Removes
<1>8. u.state[s] # "none"
  BY <1>3, Kinds DEF Known
<1> QED
  BY <1>2, <1>4, <1>5, <1>6, <1>7, <1>8 DEF States

LEMMA ClientEndsKeeps ==
  ASSUME IInv, NEW s \in Onces, ClientEnds(s)
  PROVE  IInv'
<1>1. /\ Sound(t) /\ s \in Onces \intersect t.alive
      /\ t' = Deleted(IF s \in t.done THEN t ELSE Cancelled(t, s), {s})
      /\ conf' = conf /\ pc' = pc
  BY DEF IInv, ClientEnds
<1>2. Sound(t') /\ t'.submitted = t.submitted /\ t'.timer = t.timer
  BY <1>1, EndedOK
<1> QED
  BY <1>1, <1>2 DEF IInv, Sound, OK, Repeated

\* A request of a client, for which there is a node.
LEMMA RequestKeeps ==
  ASSUME IInv, NEW s \in Onces, Request(s)
  PROVE  IInv'
<1> DEFINE u == [t EXCEPT !.alive = @ \union {s}, !.requests = @ + 1]
<1>1. /\ Sound(t) /\ t \in Thread /\ s \notin t.alive
      /\ Len(t.queue) + Cardinality(t.alive) < NumNodes
      /\ t' = Enqueued(u, s)
      /\ conf' = conf /\ pc' = pc
  BY DEF IInv, Request, Sound, OK
<1>2. /\ t.queue \in Seq(Nodes) /\ t.state \in [Subrs -> States]
      /\ t.alive \in SUBSET Subrs /\ t.requests \in Nat /\ s \in Subrs
  BY <1>1, Kinds DEF Thread
<1>3. t.alive \union {s} \in SUBSET Subrs /\ t.requests + 1 \in Nat
  BY <1>2
<1>4. u \in Thread
  BY <1>1, <1>3 DEF Thread
<1>5. /\ u.queue = t.queue /\ u.entry = t.entry /\ u.iq = t.iq
      /\ u.alive = t.alive \union {s}
      /\ u.jobQ = t.jobQ /\ u.submitted = t.submitted /\ u.jobCb = t.jobCb
      /\ u.jobData = t.jobData /\ u.state = t.state /\ u.job = t.job
      /\ u.conn = t.conn /\ u.subr = t.subr /\ u.ups = t.ups /\ u.done = t.done
      /\ u.requested = t.requested /\ u.num = t.num /\ u.asked = t.asked
      /\ u.timer = t.timer
  BY <1>1 DEF Thread
<1> HIDE DEF u
<1>6. t.state[s] = "none"
  BY <1>1, <1>2 DEF Sound, OK, Known
<1>7. Listed(u.queue, u.entry, u.state, u.iq, u.alive)
  <2>1. Listed(t.queue, t.entry, t.state, t.iq, t.alive)
    BY <1>1 DEF Sound, OK
  <2> QED
    BY <1>5, <1>6, <2>1 DEF Listed
<1>8. Room(u.queue, u.state, u.alive)
  <2>1. IsFiniteSet(t.alive)
    BY <1>1 DEF Sound, OK, Room
  <2> DEFINE A == t.alive \union {s}
             B == {y \in A : t.state[y] # "queued"}
  <2>2. IsFiniteSet(A) /\ Cardinality(A) = Cardinality(t.alive) + 1
        /\ Cardinality(t.alive) \in Nat
    BY <1>1, <2>1, FS_AddElement, FS_CardinalityType
  <2>3. B \in SUBSET A
    OBVIOUS
  <2> HIDE DEF A, B
  <2>4. Cardinality(B) <= Cardinality(A) /\ Cardinality(B) \in Nat
    BY <2>2, <2>3, FS_Subset, FS_CardinalityType
  <2>5. Len(t.queue) \in Nat /\ NumNodes \in Nat
    BY <1>2, LenProperties, SizesAssumption
  <2>6. Len(t.queue) + Cardinality(B) <= NumNodes
    BY <1>1, <2>2, <2>4, <2>5
  <2> QED
    BY <1>5, <2>2, <2>6 DEF Room, A, B
<1>9. Paired(LiveJobs(u), u.jobData, u.alive, u.state, u.job)
  <2>1. LiveJobs(u) = LiveJobs(t)
    BY <1>5 DEF LiveJobs
  <2>2. Paired(LiveJobs(t), t.jobData, t.alive, t.state, t.job)
    BY <1>1 DEF Sound, OK
  <2> QED
    BY <1>5, <1>6, <2>1, <2>2 DEF Paired
<1>10. Flying(u.conn, u.subr, u.ups, u.alive, u.done, u.state)
  <2>1. Flying(t.conn, t.subr, t.ups, t.alive, t.done, t.state)
    BY <1>1 DEF Sound, OK
  <2> QED
    BY <1>5, <1>6, <2>1, FlyingKept
<1>11. Known(u.alive, u.state, s) /\ OnWire(u.submitted)
  BY <1>1, <1>5, Kinds DEF Sound, OK, Known
<1>12. Repeated(u.alive, u.state, u.requested, u.num, u.asked, s)
  <2>1. Repeated(t.alive, t.state, t.requested, t.num, t.asked, Null)
    BY <1>1 DEF Sound, OK
  <2>2. u.alive \intersect Dupes = t.alive \intersect Dupes
    BY <1>5, Kinds
  <2> QED
    BY <1>5, <2>1, <2>2, Kinds DEF Repeated
<1>13. OK(u, u.state, u.job, s)
  BY <1>4, <1>7, <1>8, <1>9, <1>10, <1>11, <1>12 DEF OK
<1>14. Sound(t') /\ t'.submitted = t.submitted /\ t'.timer = t.timer
  <2> DEFINE st == u.state
             jb == u.job
             r == Enqueued(u, s)
  <2>1. /\ st \in [Subrs -> States] /\ OK(u, st, jb, s) /\ s \in u.alive
        /\ st[s] \in {"none", "active"} /\ (s \in Onces => st[s] = "none")
        /\ [u.state EXCEPT ![s] = "queued"] = [st EXCEPT ![s] = "queued"]
        /\ s \in Subrs
    BY <1>2, <1>5, <1>6, <1>13
  <2> HIDE DEF st, jb
  <2>2. /\ OK(r, r.state, jb, Null)
        /\ r.job = u.job /\ r.submitted = u.submitted /\ r.timer = u.timer
    BY ONLY <2>1, EnqueuedOK
  <2> QED
    BY <1>1, <1>5, <2>2 DEF Sound, jb
<1> QED
  BY <1>1, <1>14 DEF IInv, Sound, OK, Repeated

-----------------------------------------------------------------------------
(* The steps of the thread: sessions, connections, the cache.              *)

\* The completion callback touches the counters, and the subrequest is done.
LEMMA SubrCompleted ==
  ASSUME NEW u \in Thread, NEW s \in Subrs
  PROVE  LET r == SubrComplete(u, s)
         IN  /\ r \in Thread
             /\ r.queue = u.queue /\ r.entry = u.entry /\ r.iq = u.iq /\ r.alive = u.alive
             /\ r.jobQ = u.jobQ /\ r.submitted = u.submitted /\ r.jobCb = u.jobCb
             /\ r.jobData = u.jobData /\ r.state = u.state /\ r.job = u.job
             /\ r.conn = u.conn /\ r.subr = u.subr /\ r.connLabel = u.connLabel
             /\ r.ups = u.ups
             /\ r.requested = u.requested /\ r.asked = u.asked /\ r.timer = u.timer
             /\ r.done = u.done \union ({s} \intersect Onces)
             /\ \A y \in Onces : r.num[y] = u.num[y]
             /\ \A y \in Dupes : r.num[y] <= u.num[y]
<1> DEFINE x == [u EXCEPT !.completed[s] = @ + 1,
                          !.done = @ \union ({s} \intersect Onces)]
           r == SubrComplete(u, s)
           num2 == [u.num EXCEPT ![s] = IF u.finished THEN 0 ELSE @]
           fin == u.finished \/ u.told + 1 >= NumFetches
<1>1. /\ u.completed \in [Subrs -> Nat] /\ u.num \in [Subrs -> Nat]
      /\ u.done \in SUBSET Subrs /\ u.finished \in BOOLEAN /\ u.told \in Nat
  BY DEF Thread
<1>2. x \in Thread
  <2>1. [u.completed EXCEPT ![s] = @ + 1] \in [Subrs -> Nat]
    BY <1>1
  <2>2. u.done \union ({s} \intersect Onces) \in SUBSET Subrs
    BY <1>1
  <2> QED
    BY <2>1, <2>2 DEF Thread
<1>3. /\ x.queue = u.queue /\ x.entry = u.entry /\ x.iq = u.iq /\ x.alive = u.alive
      /\ x.jobQ = u.jobQ /\ x.submitted = u.submitted /\ x.jobCb = u.jobCb
      /\ x.jobData = u.jobData /\ x.state = u.state /\ x.job = u.job
      /\ x.conn = u.conn /\ x.subr = u.subr /\ x.connLabel = u.connLabel /\ x.ups = u.ups
      /\ x.requested = u.requested /\ x.asked = u.asked /\ x.timer = u.timer
      /\ x.done = u.done \union ({s} \intersect Onces)
      /\ x.num = u.num /\ x.told = u.told /\ x.finished = u.finished
  BY DEF Thread
<1> HIDE DEF x
<1>4. CASE s \notin Dupes
  <2>1. r = x
    BY <1>4 DEF SubrComplete, CompletionCalled, x
  <2>2. \A y \in Dupes : x.num[y] <= u.num[y]
    BY <1>1, <1>3, Kinds
  <2> HIDE DEF r
  <2> QED
    BY <1>2, <1>3, <2>1, <2>2 DEF r
<1>5. CASE s \in Dupes
  <2>1. r = [x EXCEPT !.num = num2, !.told = @ + 1, !.finished = fin]
    BY <1>3, <1>5 DEF SubrComplete, CompletionCalled, x
  <2>2. num2 \in [Subrs -> Nat] /\ u.told + 1 \in Nat /\ fin \in BOOLEAN
    BY <1>1
  <2>3. /\ \A y \in Onces : num2[y] = u.num[y]
        /\ \A y \in Dupes : num2[y] <= u.num[y]
    <3>1. \A y \in Subrs : num2[y] = IF y = s /\ u.finished THEN 0 ELSE u.num[y]
      BY <1>1
    <3>2. \A y \in Subrs : num2[y] <= u.num[y]
      BY <1>1, <3>1
    <3> QED
      BY <1>5, <3>1, <3>2, Kinds
  <2> HIDE DEF r, num2, fin
  <2>4. r \in Thread
    BY <1>2, <1>3, <2>1, <2>2 DEF Thread
  <2>5. /\ r.queue = x.queue /\ r.entry = x.entry /\ r.iq = x.iq /\ r.alive = x.alive
        /\ r.jobQ = x.jobQ /\ r.submitted = x.submitted /\ r.jobCb = x.jobCb
        /\ r.jobData = x.jobData /\ r.state = x.state /\ r.job = x.job
        /\ r.conn = x.conn /\ r.subr = x.subr /\ r.connLabel = x.connLabel /\ r.ups = x.ups
        /\ r.requested = x.requested /\ r.asked = x.asked /\ r.timer = x.timer
        /\ r.done = x.done /\ r.num = num2
    BY <1>2, <2>1 DEF Thread
  <2> QED
    BY <1>3, <2>3, <2>4, <2>5 DEF r
<1> QED
  BY <1>4, <1>5

\* From u to r, the session on the connection c has ended, its subrequest is
\* completed, and idle connections may have been freed.
Landed(r, u, c) ==
  /\ r \in Thread
  /\ r.queue = u.queue /\ r.entry = u.entry /\ r.iq = u.iq /\ r.alive = u.alive
  /\ r.jobQ = u.jobQ /\ r.submitted = u.submitted /\ r.jobCb = u.jobCb
  /\ r.jobData = u.jobData /\ r.state = u.state /\ r.job = u.job /\ r.ups = u.ups
  /\ r.requested = u.requested /\ r.asked = u.asked /\ r.timer = u.timer
  /\ r.done = u.done \union ({u.subr[c]} \intersect Onces)
  /\ \A y \in Onces : r.num[y] = u.num[y]
  /\ \A y \in Dupes : r.num[y] <= u.num[y]
  /\ r.conn[c] \notin {"busy", "stuck"}
  /\ \A d \in Conns \ {c} :
       /\ r.conn[d] \in {"busy", "stuck"} <=> u.conn[d] \in {"busy", "stuck"}
       /\ u.conn[d] \in {"busy", "stuck"} => r.subr[d] = u.subr[d]

LEMMA LandedOK ==
  ASSUME NEW u, Sound(u), NEW c \in Conns, u.conn[c] \in {"busy", "stuck"},
         NEW r, Landed(r, u, c)
  PROVE  Sound(r)
<1>1. LiveJobs(r) = LiveJobs(u)
  BY DEF LiveJobs, Landed
<1>2. Flying(r.conn, r.subr, r.ups, r.alive, r.done, r.state)
  <2> DEFINE conn2 == r.conn
             subr2 == r.subr
             done2 == u.done \union ({u.subr[c]} \intersect Onces)
  <2>1. /\ conn2[c] \notin {"busy", "stuck"}
        /\ \A d \in Conns \ {c} :
             conn2[d] \in {"busy", "stuck"} <=> u.conn[d] \in {"busy", "stuck"}
        /\ \A d \in Conns \ {c} : u.conn[d] \in {"busy", "stuck"} => subr2[d] = u.subr[d]
        /\ c \in Conns /\ u.conn[c] \in {"busy", "stuck"}
    BY DEF Landed
  <2>2. Flying(u.conn, u.subr, u.ups, u.alive, u.done, u.state)
    BY DEF Sound, OK
  <2> HIDE DEF conn2, subr2
  <2>3. Flying(conn2, subr2, u.ups, u.alive, done2, u.state)
    BY ONLY <2>1, <2>2, FlyingLanded
  <2> QED
    BY <2>3 DEF conn2, subr2, Landed
<1>3. Repeated(r.alive, r.state, r.requested, r.num, r.asked, Null)
  <2>1. Repeated(u.alive, u.state, u.requested, u.num, u.asked, Null)
    BY DEF Sound, OK
  <2>2. u.alive \subseteq Subrs /\ u.requested \in [Subrs -> Nat] /\ u.num \in [Subrs -> Nat]
        /\ r.num \in [Subrs -> Nat]
    BY DEF Landed, Sound, OK, Thread
  <2>3. ASSUME NEW y \in u.alive \intersect Dupes, u.requested[y] >= u.num[y]
        PROVE  u.requested[y] >= r.num[y]
    <3>1. r.num[y] <= u.num[y] /\ y \in Subrs
      BY Kinds DEF Landed
    <3>2. u.requested[y] \in Nat /\ u.num[y] \in Nat /\ r.num[y] \in Nat
      BY <2>2, <3>1
    <3> QED
      BY <2>3, <3>1, <3>2
  <2>4. /\ r.alive = u.alive /\ r.state = u.state /\ r.requested = u.requested
        /\ r.asked = u.asked
        /\ \A y \in Onces : r.num[y] = u.num[y]
    BY DEF Landed
  <2> QED
    BY <2>1, <2>3, <2>4 DEF Repeated
<1> QED
  BY <1>1, <1>2, <1>3 DEF Landed, Sound, OK

\* Freeing the connection c of x, which has landed but for that.
LEMMA CleanedLanded ==
  ASSUME NEW u, u \in Thread, NEW c \in Conns, NEW x \in Thread,
         x.queue = u.queue, x.entry = u.entry, x.iq = u.iq, x.alive = u.alive,
         x.jobQ = u.jobQ, x.submitted = u.submitted, x.jobCb = u.jobCb,
         x.jobData = u.jobData, x.state = u.state, x.job = u.job, x.ups = u.ups,
         x.requested = u.requested, x.asked = u.asked, x.timer = u.timer,
         x.done = u.done \union ({u.subr[c]} \intersect Onces),
         \A y \in Onces : x.num[y] = u.num[y],
         \A y \in Dupes : x.num[y] <= u.num[y],
         x.conn = u.conn, x.subr = u.subr
  PROVE  /\ Landed(Cleaned(x, c), u, c)
         /\ \A v \in Parked(x, c) : Landed(v, u, c)
<1>1. /\ x.conn \in [Conns -> {"free", "idle", "busy", "stuck"}]
      /\ x.subr \in [Conns -> Subrs \union {Null}]
      /\ x.connLabel \in [Conns -> Labels \union {Null}]
  BY DEF Thread
<1>2. Landed(Cleaned(x, c), u, c)
  <2> DEFINE r == Cleaned(x, c)
  <2>1. r = [x EXCEPT !.conn[c] = "free", !.subr[c] = Null, !.connLabel[c] = Null]
    BY DEF Cleaned
  <2>2. /\ [x.conn EXCEPT ![c] = "free"] \in [Conns -> {"free", "idle", "busy", "stuck"}]
        /\ [x.subr EXCEPT ![c] = Null] \in [Conns -> Subrs \union {Null}]
        /\ [x.connLabel EXCEPT ![c] = Null] \in [Conns -> Labels \union {Null}]
    BY <1>1
  <2> HIDE DEF r
  <2>3. r \in Thread
    BY <2>1, <2>2 DEF Thread
  <2>4. /\ r.queue = x.queue /\ r.entry = x.entry /\ r.iq = x.iq /\ r.alive = x.alive
        /\ r.jobQ = x.jobQ /\ r.submitted = x.submitted /\ r.jobCb = x.jobCb
        /\ r.jobData = x.jobData /\ r.state = x.state /\ r.job = x.job /\ r.ups = x.ups
        /\ r.requested = x.requested /\ r.asked = x.asked /\ r.timer = x.timer
        /\ r.done = x.done /\ r.num = x.num
        /\ r.conn = [x.conn EXCEPT ![c] = "free"] /\ r.subr = [x.subr EXCEPT ![c] = Null]
    BY <2>1 DEF Thread
  <2>5. /\ r.conn[c] \notin {"busy", "stuck"}
        /\ \A d \in Conns \ {c} : r.conn[d] = u.conn[d] /\ r.subr[d] = u.subr[d]
    BY <1>1, <2>4
  <2> QED
    BY <2>3, <2>4, <2>5 DEF Landed, r
<1>3. ASSUME NEW v \in Parked(x, c) PROVE Landed(v, u, c)
  <2> DEFINE r == [x EXCEPT !.conn[c] = "idle", !.subr[c] = Null]
  <2>1. /\ [x.conn EXCEPT ![c] = "idle"] \in [Conns -> {"free", "idle", "busy", "stuck"}]
        /\ [x.subr EXCEPT ![c] = Null] \in [Conns -> Subrs \union {Null}]
    BY <1>1
  <2>2. r \in Thread
    BY <2>1 DEF Thread
  <2>3. /\ r.queue = x.queue /\ r.entry = x.entry /\ r.iq = x.iq /\ r.alive = x.alive
        /\ r.jobQ = x.jobQ /\ r.submitted = x.submitted /\ r.jobCb = x.jobCb
        /\ r.jobData = x.jobData /\ r.state = x.state /\ r.job = x.job /\ r.ups = x.ups
        /\ r.requested = x.requested /\ r.asked = x.asked /\ r.timer = x.timer
        /\ r.done = x.done /\ r.num = x.num /\ r.connLabel = x.connLabel
        /\ r.conn = [x.conn EXCEPT ![c] = "idle"] /\ r.subr = [x.subr EXCEPT ![c] = Null]
    BY DEF Thread
  <2>4. v = r \/ \E d \in {d \in Conns : r.conn[d] = "idle"} \ {c} : v = Cleaned(r, d)
    BY DEF Parked
  <2> HIDE DEF r
  <2>5. /\ r.conn[c] \notin {"busy", "stuck"}
        /\ \A d \in Conns \ {c} : r.conn[d] = u.conn[d] /\ r.subr[d] = u.subr[d]
    BY <1>1, <2>3
  <2>6. CASE v = r
    BY <2>2, <2>3, <2>5, <2>6, ZenonT(40) DEF Landed
  <2>7. ASSUME NEW d \in Conns, d # c, r.conn[d] = "idle", v = Cleaned(r, d)
        PROVE  Landed(v, u, c)
    <3>1. v = [r EXCEPT !.conn[d] = "free", !.subr[d] = Null, !.connLabel[d] = Null]
      BY <2>7 DEF Cleaned
    <3>2. /\ [r.conn EXCEPT ![d] = "free"] \in [Conns -> {"free", "idle", "busy", "stuck"}]
          /\ [r.subr EXCEPT ![d] = Null] \in [Conns -> Subrs \union {Null}]
          /\ [r.connLabel EXCEPT ![d] = Null] \in [Conns -> Labels \union {Null}]
      BY <2>2 DEF Thread
    <3>3. v \in Thread
      BY <2>2, <3>1, <3>2, ZenonT(40) DEF Thread
    <3>4. /\ v.queue = r.queue /\ v.entry = r.entry /\ v.iq = r.iq /\ v.alive = r.alive
          /\ v.jobQ = r.jobQ /\ v.submitted = r.submitted /\ v.jobCb = r.jobCb
          /\ v.jobData = r.jobData /\ v.state = r.state /\ v.job = r.job /\ v.ups = r.ups
          /\ v.requested = r.requested /\ v.asked = r.asked /\ v.timer = r.timer
          /\ v.done = r.done /\ v.num = r.num
          /\ v.conn = [r.conn EXCEPT ![d] = "free"] /\ v.subr = [r.subr EXCEPT ![d] = Null]
      BY <2>2, <3>1 DEF Thread
    <3>5. /\ r.conn \in [Conns -> {"free", "idle", "busy", "stuck"}]
          /\ r.subr \in [Conns -> Subrs \union {Null}]
      BY <2>2 DEF Thread
    <3>6. /\ v.conn[c] \notin {"busy", "stuck"}
          /\ \A e \in Conns \ {c} :
               /\ v.conn[e] \in {"busy", "stuck"} <=> u.conn[e] \in {"busy", "stuck"}
               /\ u.conn[e] \in {"busy", "stuck"} => v.subr[e] = u.subr[e]
      <4>1. ASSUME NEW e \in Conns
            PROVE  /\ v.conn[e] = IF e = d THEN "free" ELSE r.conn[e]
                   /\ v.subr[e] = IF e = d THEN Null ELSE r.subr[e]
        BY <3>4, <3>5
      <4> QED
        BY <2>5, <2>7, <4>1
    <3> QED
      BY <2>3, <3>3, <3>4, <3>6 DEF Landed
  <2> QED
    BY <2>4, <2>6, <2>7
<1> QED
  BY <1>2, <1>3

LEMMA SessionStepKeeps ==
  ASSUME IInv, NEW c \in Conns, SessionStep(c)
  PROVE  IInv'
<1> DEFINE s == t.subr[c]
           v == SubrComplete(t, s)
           w == SubrComplete(v, s)
           x == [v EXCEPT !.completed[s] = @ + 1]
<1>1. /\ Sound(t) /\ t \in Thread /\ t.conn[c] = "busy"
      /\ conf' = conf /\ pc' = pc
  BY DEF IInv, Sound, OK, SessionStep
<1>2. s \in Subrs
  <2>1. Flying(t.conn, t.subr, t.ups, t.alive, t.done, t.state)
    BY <1>1 DEF Sound, OK
  <2>2. t.alive \in SUBSET Subrs
    BY <1>1 DEF Thread
  <2> QED
    BY <1>1, <2>1, <2>2 DEF Flying
<1> HIDE DEF s, v, w
<1>3. /\ v \in Thread
      /\ v.queue = t.queue /\ v.entry = t.entry /\ v.iq = t.iq /\ v.alive = t.alive
      /\ v.jobQ = t.jobQ /\ v.submitted = t.submitted /\ v.jobCb = t.jobCb
      /\ v.jobData = t.jobData /\ v.state = t.state /\ v.job = t.job
      /\ v.conn = t.conn /\ v.subr = t.subr /\ v.connLabel = t.connLabel
      /\ v.ups = t.ups
      /\ v.requested = t.requested /\ v.asked = t.asked /\ v.timer = t.timer
      /\ v.done = t.done \union ({s} \intersect Onces)
      /\ \A y \in Onces : v.num[y] = t.num[y]
      /\ \A y \in Dupes : v.num[y] <= t.num[y]
  BY <1>1, <1>2, SubrCompleted DEF v
<1>4. /\ w \in Thread
      /\ w.queue = v.queue /\ w.entry = v.entry /\ w.iq = v.iq /\ w.alive = v.alive
      /\ w.jobQ = v.jobQ /\ w.submitted = v.submitted /\ w.jobCb = v.jobCb
      /\ w.jobData = v.jobData /\ w.state = v.state /\ w.job = v.job
      /\ w.conn = v.conn /\ w.subr = v.subr /\ w.connLabel = v.connLabel
      /\ w.ups = v.ups
      /\ w.requested = v.requested /\ w.asked = v.asked /\ w.timer = v.timer
      /\ w.done = v.done \union ({s} \intersect Onces)
      /\ \A y \in Onces : w.num[y] = v.num[y]
      /\ \A y \in Dupes : w.num[y] <= v.num[y]
  BY <1>2, <1>3, SubrCompleted DEF w
<1>5. \A y \in Dupes : w.num[y] <= t.num[y]
  <2> SUFFICES ASSUME NEW y \in Dupes PROVE w.num[y] <= t.num[y]
    OBVIOUS
  <2>1. y \in Subrs
    BY Kinds
  <2>2. w.num[y] \in Nat /\ v.num[y] \in Nat /\ t.num[y] \in Nat
    BY <1>1, <1>3, <1>4, <2>1 DEF Thread
  <2>3. w.num[y] <= v.num[y] /\ v.num[y] <= t.num[y]
    BY <1>3, <1>4
  <2> QED
    BY <2>2, <2>3
<1>6. Landed(Cleaned(w, c), t, c)
  <2>1. w.done = t.done \union ({t.subr[c]} \intersect Onces)
    BY <1>3, <1>4 DEF s
  <2> QED
    BY <1>1, <1>3, <1>4, <1>5, <2>1, CleanedLanded
<1>7. /\ Landed(Cleaned(v, c), t, c)
      /\ \A y \in Parked(v, c) : Landed(y, t, c)
  <2>1. v.done = t.done \union ({t.subr[c]} \intersect Onces)
    BY <1>3 DEF s
  <2> QED
    BY <1>1, <1>3, <2>1, CleanedLanded
<1>8. Landed(Cleaned(x, c), t, c)
  <2>1. [v.completed EXCEPT ![s] = @ + 1] \in [Subrs -> Nat]
    BY <1>2, <1>3 DEF Thread
  <2>2. x \in Thread
    BY <1>3, <2>1 DEF Thread
  <2>3. /\ x.queue = v.queue /\ x.entry = v.entry /\ x.iq = v.iq /\ x.alive = v.alive
        /\ x.jobQ = v.jobQ /\ x.submitted = v.submitted /\ x.jobCb = v.jobCb
        /\ x.jobData = v.jobData /\ x.state = v.state /\ x.job = v.job
        /\ x.conn = v.conn /\ x.subr = v.subr
        /\ x.ups = v.ups
        /\ x.requested = v.requested /\ x.asked = v.asked /\ x.timer = v.timer
        /\ x.done = v.done /\ x.num = v.num
    BY <1>3 DEF Thread
  <2>4. x.done = t.done \union ({t.subr[c]} \intersect Onces)
    BY <1>3, <2>3 DEF s
  <2> HIDE DEF x
  <2> QED
    BY <1>1, <1>3, <2>2, <2>3, <2>4, CleanedLanded
<1> HIDE DEF x
<1>9. CASE Landed(t', t, c)
  <2>1. Sound(t')
    BY <1>1, <1>9, LandedOK
  <2>2. t'.submitted = t.submitted /\ t'.timer = t.timer
    BY <1>9 DEF Landed
  <2> QED
    BY <1>1, <2>1, <2>2 DEF IInv, Sound, OK, Repeated
<1>10. CASE t' = TornDown(t, c)
  <2> DEFINE r == TornDown(t, c)
             S == {t.subr[c]} \intersect Onces
  <2>1. /\ t.state \in [Subrs -> States] /\ t.job \in [Subrs -> Jobs \union {Null}]
        /\ OK(t, t.state, t.job, Null) /\ c \in Conns /\ t.conn[c] \in {"busy", "stuck"}
    BY <1>1 DEF Thread, Sound
  <2>2. /\ OK(r, Reset(t.state, S, "none"), Reset(t.job, S, Null), Null)
        /\ r.state = Reset(t.state, S, "none") /\ r.job = Reset(t.job, S, Null)
        /\ r.submitted = t.submitted /\ r.timer = t.timer
    BY ONLY <2>1, TornDownOK
  <2> HIDE DEF r, S
  <2>3. Sound(r)
    BY <2>2 DEF Sound
  <2>4. Sound(t') /\ t'.submitted = t.submitted /\ t'.timer = t.timer
    BY <1>10, <2>2, <2>3 DEF r
  <2> QED
    BY <1>1, <2>4 DEF IInv, Sound, OK, Repeated
<1>11. t' \in ResponseEnds(t, c) => Landed(t', t, c)
  BY <1>6, <1>7, <1>8 DEF ResponseEnds, s, v, w, x
<1>12. t' = ConnectionEnds(t, c) => Landed(t', t, c)
  BY <1>7 DEF ConnectionEnds, s, v
<1> QED
  BY <1>9, <1>10, <1>11, <1>12 DEF SessionStep

LEMMA IdleEndsKeeps ==
  ASSUME IInv, NEW c \in Conns, IdleEnds(c)
  PROVE  IInv'
<1> DEFINE r == Cleaned(t, c)
<1>1. /\ Sound(t) /\ t \in Thread /\ t.conn[c] = "idle" /\ t' = r
      /\ conf' = conf /\ pc' = pc
  BY DEF IInv, Sound, OK, IdleEnds
<1>2. /\ t.conn \in [Conns -> {"free", "idle", "busy", "stuck"}]
      /\ t.subr \in [Conns -> Subrs \union {Null}]
      /\ t.connLabel \in [Conns -> Labels \union {Null}]
  BY <1>1 DEF Thread
<1>3. r = [t EXCEPT !.conn[c] = "free", !.subr[c] = Null, !.connLabel[c] = Null]
  BY DEF Cleaned
<1>4. /\ [t.conn EXCEPT ![c] = "free"] \in [Conns -> {"free", "idle", "busy", "stuck"}]
      /\ [t.subr EXCEPT ![c] = Null] \in [Conns -> Subrs \union {Null}]
      /\ [t.connLabel EXCEPT ![c] = Null] \in [Conns -> Labels \union {Null}]
  BY <1>2
<1> HIDE DEF r
<1>5. r \in Thread
  BY <1>1, <1>3, <1>4 DEF Thread
<1>6. /\ r.queue = t.queue /\ r.entry = t.entry /\ r.iq = t.iq /\ r.alive = t.alive
      /\ r.jobQ = t.jobQ /\ r.submitted = t.submitted /\ r.jobCb = t.jobCb
      /\ r.jobData = t.jobData /\ r.state = t.state /\ r.job = t.job /\ r.ups = t.ups
      /\ r.requested = t.requested /\ r.asked = t.asked /\ r.timer = t.timer
      /\ r.done = t.done /\ r.num = t.num
      /\ r.conn = [t.conn EXCEPT ![c] = "free"] /\ r.subr = [t.subr EXCEPT ![c] = Null]
  BY <1>1, <1>3 DEF Thread
<1>7. LiveJobs(r) = LiveJobs(t)
  BY <1>6 DEF LiveJobs
<1>8. Flying(r.conn, r.subr, r.ups, r.alive, r.done, r.state)
  <2>1. /\ \A d \in Conns :
             r.conn[d] \in {"busy", "stuck"} <=> t.conn[d] \in {"busy", "stuck"}
        /\ \A d \in Conns : t.conn[d] \in {"busy", "stuck"} => r.subr[d] = t.subr[d]
    BY <1>1, <1>2, <1>6
  <2>2. Flying(t.conn, t.subr, t.ups, t.alive, t.done, t.state)
    BY <1>1 DEF Sound, OK
  <2>3. /\ t.alive \subseteq t.alive
        /\ \A y \in Onces \intersect t.alive :
             t.state[y] = "active" <=> y \in t.alive /\ t.state[y] = "active"
    OBVIOUS
  <2>4. Flying(r.conn, r.subr, t.ups, t.alive, t.done, t.state)
    BY ONLY <2>1, <2>2, <2>3, FlyingKept
  <2> QED
    BY <1>6, <2>4
<1>9. Sound(r)
  BY <1>1, <1>5, <1>6, <1>7, <1>8 DEF Sound, OK
<1>10. Sound(t') /\ t'.submitted = t.submitted /\ t'.timer = t.timer
  BY <1>1, <1>6, <1>9
<1> QED
  BY <1>1, <1>10 DEF IInv, Sound, OK, Repeated

LEMMA ExpiresKeeps ==
  ASSUME IInv, NEW label, Expires(label)
  PROVE  IInv'
<1> DEFINE r == [t EXCEPT !.cached = @ \ {label}, !.expiries = @ + 1]
<1>1. Sound(t) /\ t \in Thread /\ t' = r /\ conf' = conf /\ pc' = pc
  BY DEF IInv, Sound, OK, Expires
<1>2. t.cached \in SUBSET {LabelOf[s] : s \in Subrs \union {Null}} /\ t.expiries \in Nat
  BY <1>1 DEF Thread
<1>3. t.cached \ {label} \in SUBSET {LabelOf[s] : s \in Subrs \union {Null}}
      /\ t.expiries + 1 \in Nat
  BY <1>2
<1>4. r \in Thread
  BY <1>1, <1>3 DEF Thread
<1>5. Alike(r, t) /\ r.state = t.state /\ r.job = t.job /\ r.timer = t.timer
  BY <1>1 DEF Thread, Alike
<1> HIDE DEF r
<1>6. Sound(r)
  BY <1>1, <1>4, <1>5, AlikeOK DEF Sound
<1>7. Sound(t') /\ t'.submitted = t.submitted /\ t'.timer = t.timer
  BY <1>1, <1>5, <1>6 DEF Alike
<1> QED
  BY <1>1, <1>7 DEF IInv, Sound, OK, Repeated

-----------------------------------------------------------------------------
(* The start of the thread, and of a subrequest.                           *)

LEMMA InitOK ==
  ASSUME Init
  PROVE  IInv
<1>1. /\ conf \in Settings /\ pc = "deq"
      /\ conf.dupes \subseteq Dupes
      /\ \A p, q \in conf.dupes : p = q
  BY SettingsAssumption, HurlAssumption DEF Init
<1> DEFINE u == Fresh
<1>2. /\ NumFetches \in Nat /\ NumNodes \in Nat \ {0} /\ MaxParallel \in Nat
  BY SizesAssumption
<1>3. /\ <<>> \in Seq(Nodes) /\ <<>> \in Seq(Jobs) /\ Len(<<>>) = 0 /\ RangeOf(<<>>) = {}
  BY EmptySeq DEF RangeOf
<1>4. /\ [s \in Subrs |-> IF s \in Dupes THEN NumFetches ELSE 1] \in [Subrs -> Nat]
      /\ [s \in Subrs |-> "none"] \in [Subrs -> States]
      /\ conf.dupes \in SUBSET Subrs
  BY <1>1, <1>2, Kinds DEF States
<1>5. u \in Thread
  BY <1>3, <1>4 DEF Fresh, Thread
<1>6. /\ u.queue = <<>> /\ u.state = [s \in Subrs |-> "none"]
      /\ u.alive = conf.dupes /\ u.done = {} /\ u.jobQ = <<>> /\ u.submitted = {}
      /\ u.conn = [c \in Conns |-> "free"] /\ u.timer = FALSE
      /\ u.requested = [s \in Subrs |-> 0] /\ u.asked = 0
      /\ u.num = [s \in Subrs |-> IF s \in Dupes THEN NumFetches ELSE 1]
  BY DEF Fresh
<1> HIDE DEF u
<1>7. LiveJobs(u) = {}
  BY <1>3, <1>6 DEF LiveJobs
<1>8. Listed(u.queue, u.entry, u.state, u.iq, u.alive)
  BY <1>3, <1>4, <1>6 DEF Listed
<1>9. Room(u.queue, u.state, u.alive)
  <2>1. IsFiniteSet(u.alive) /\ Cardinality(u.alive) <= 1 /\ Cardinality(u.alive) \in Nat
    <3>1. CASE u.alive = {}
      BY <3>1, FS_EmptySet
    <3>2. CASE u.alive # {}
      <4>1. PICK s : s \in u.alive
        BY <3>2
      <4>2. u.alive = {s}
        BY <1>1, <1>6, <4>1
      <4>3. IsFiniteSet({s}) /\ Cardinality({s}) = 1
        BY FS_Singleton
      <4> QED
        BY <4>2, <4>3
    <3> QED
      BY <3>1, <3>2
  <2> DEFINE A == {s \in u.alive : u.state[s] # "queued"}
  <2>2. A \subseteq u.alive
    OBVIOUS
  <2> HIDE DEF A
  <2>3. Cardinality(A) <= Cardinality(u.alive) /\ Cardinality(A) \in Nat
    BY <2>1, <2>2, FS_Subset, FS_CardinalityType
  <2>4. Len(u.queue) + Cardinality(A) <= NumNodes
    BY <1>2, <1>3, <1>6, <2>1, <2>3
  <2> QED
    BY <2>1, <2>4 DEF Room, A
<1>10. Paired(LiveJobs(u), u.jobData, u.alive, u.state, u.job)
  BY <1>4, <1>6, <1>7 DEF Paired
<1>11. Flying(u.conn, u.subr, u.ups, u.alive, u.done, u.state)
  BY <1>4, <1>6 DEF Flying
<1>12. OnWire(u.submitted)
  <2>1. IsFiniteSet({}) /\ Cardinality({}) = 0
    BY FS_EmptySet
  <2> QED
    BY <1>2, <1>6, <2>1 DEF OnWire
<1>13. \A s \in u.alive : s \in Dupes /\ s \notin Onces /\ s \in Subrs
  BY <1>1, <1>6, Kinds
<1>14. CASE conf.dupes = {}
  <2>1. t = u
    BY <1>14 DEF Init, u
  <2>2. Known(u.alive, u.state, Null) /\ Repeated(u.alive, u.state, u.requested, u.num, u.asked, Null)
    BY <1>6, <1>14, Kinds DEF Known, Repeated
  <2> QED
    BY <1>1, <1>5, <1>6, <1>8, <1>9, <1>10, <1>11, <1>12, <2>1, <2>2 DEF IInv, Sound, OK
<1>15. CASE conf.dupes # {}
  <2> DEFINE s == CHOOSE s \in conf.dupes : TRUE
             st == u.state
             jb == u.job
             r == Enqueued(u, s)
  <2>1. t = r
    BY <1>15 DEF Init, u
  <2>2. s \in conf.dupes
    BY <1>15
  <2> HIDE DEF s
  <2>3. Known(u.alive, u.state, s) /\ Repeated(u.alive, u.state, u.requested, u.num, u.asked, s)
    BY <1>1, <1>4, <1>6, <1>13, <2>2, Kinds DEF Known, Repeated
  <2>4. OK(u, st, jb, s)
    BY <1>5, <1>8, <1>9, <1>10, <1>11, <1>12, <2>3 DEF OK
  <2>5. /\ st \in [Subrs -> States] /\ s \in u.alive
        /\ st[s] \in {"none", "active"} /\ (s \in Onces => st[s] = "none")
        /\ [u.state EXCEPT ![s] = "queued"] = [st EXCEPT ![s] = "queued"]
        /\ s \in Subrs
    BY <1>4, <1>6, <1>13, <2>2
  <2> HIDE DEF st, jb
  <2>6. /\ OK(r, r.state, jb, Null)
        /\ r.job = u.job /\ r.submitted = u.submitted /\ r.timer = u.timer
    BY ONLY <2>4, <2>5, EnqueuedOK
  <2>7. Sound(t) /\ t.submitted = {}
    BY <1>6, <2>1, <2>6 DEF Sound, jb
  <2> QED
    BY <1>1, <2>7 DEF IInv
<1> QED
  BY <1>14, <1>15

\* What a start of s leaves: if s still exists, it is going to be active, to wait
\* for a connection, or to wait for its name; or it has failed.
Begun(r, s) ==
  /\ r.u.submitted # {} => r.u.timer
  /\ s \notin r.u.alive => Sound(r.u)
  /\ s \in r.u.alive =>
       \/ /\ r.status = "ok"
          /\ OK(r.u, [r.u.state EXCEPT ![s] = "active"], r.u.job, s)
          /\ s \in Onces => r.u.requested[s] >= 1
       \/ /\ r.status = "again"
          /\ OK(r.u, r.u.state, r.u.job, s) /\ r.u.state[s] = "none"
       \/ /\ r.status = "dns" /\ s \in Onces
          /\ OK(r.u, [r.u.state EXCEPT ![s] = "dns"], r.u.job, s)
       \/ r.status = "error" /\ Sound(r.u)

\* A subrequest that may be started.
Startable(u, s) ==
  /\ OK(u, u.state, u.job, s)
  /\ s \in u.alive /\ s \in Subrs /\ u.state[s] = "none"
  /\ u.submitted # {} => u.timer

\* A session starts on a connection that is not in use.
LEMMA LaunchUp ==
  ASSUME conf \in Settings, NEW u, NEW s, Startable(u, s), NEW c \in Conns,
         u.conn[c] \notin {"busy", "stuck"}, NEW how \in {"busy", "stuck"},
         NEW x \in Thread,
         x.queue = u.queue, x.entry = u.entry, x.iq = u.iq, x.alive = u.alive,
         x.jobQ = u.jobQ, x.submitted = u.submitted, x.jobCb = u.jobCb,
         x.jobData = u.jobData, x.job = u.job, x.num = u.num, x.done = u.done,
         x.conn = [u.conn EXCEPT ![c] = how], x.subr = [u.subr EXCEPT ![c] = s],
         x.ups = [u.ups EXCEPT ![s] = c],
         x.requested \in [Subrs -> Nat],
         \A y \in Subrs : y # s => x.requested[y] = u.requested[y],
         s \in Onces => x.asked = u.asked,
         s \in Dupes => x.requested[s] >= x.asked
  PROVE  OK(x, [u.state EXCEPT ![s] = "active"], u.job, s)
<1> DEFINE st == [u.state EXCEPT ![s] = "active"]
<1>1. /\ OK(u, u.state, u.job, s) /\ u \in Thread
      /\ s \in u.alive /\ s \in Subrs /\ u.state[s] = "none"
  BY DEF Startable, OK
<1>2. /\ u.state \in [Subrs -> States] /\ u.alive \in SUBSET Subrs
      /\ u.conn \in [Conns -> {"free", "idle", "busy", "stuck"}]
      /\ u.subr \in [Conns -> Subrs \union {Null}]
      /\ u.ups \in [Subrs -> Conns \union {Null}]
      /\ u.queue \in Seq(Nodes)
  BY <1>1 DEF Thread
<1>3. /\ st[s] = "active" /\ \A y \in Subrs : y # s => st[y] = u.state[y]
      /\ st \in [Subrs -> States]
  BY <1>1, <1>2 DEF States
<1>4. LiveJobs(x) = LiveJobs(u)
  BY DEF LiveJobs
<1>5. Listed(x.queue, x.entry, st, x.iq, x.alive)
  <2>1. \A y \in u.alive : st[y] = "queued" <=> u.state[y] = "queued"
    BY <1>1, <1>2, <1>3
  <2> HIDE DEF st
  <2> QED
    BY <1>1, <2>1 DEF OK, Listed
<1>6. Room(x.queue, st, x.alive)
  <2>1. /\ u.alive \in SUBSET u.alive /\ Room(u.queue, u.state, u.alive)
        /\ \A y \in u.alive : st[y] # "queued" => u.state[y] # "queued"
    BY <1>1, <1>2, <1>3 DEF OK
  <2> HIDE DEF st
  <2>2. Room(u.queue, st, u.alive)
    BY ONLY <1>2, <1>3, <2>1, RoomShrinks
  <2> QED
    BY <2>2
<1>7. Paired(LiveJobs(x), x.jobData, x.alive, st, u.job)
  <2>1. \A y \in u.alive : st[y] = "dns" <=> y \in u.alive /\ u.state[y] = "dns"
    BY <1>1, <1>2, <1>3
  <2>2. Paired(LiveJobs(u), u.jobData, u.alive, u.state, u.job) /\ u.alive \subseteq u.alive
    BY <1>1 DEF OK
  <2> HIDE DEF st
  <2>3. Paired(LiveJobs(u), u.jobData, u.alive, st, u.job)
    BY ONLY <2>1, <2>2, PairedKept
  <2> QED
    BY <1>4, <2>3
<1>8. Flying(x.conn, x.subr, x.ups, x.alive, x.done, st)
  <2> DEFINE conn2 == [u.conn EXCEPT ![c] = "busy"]
  <2>1. /\ Flying(u.conn, u.subr, u.ups, u.alive, u.done, u.state)
        /\ s \in u.alive /\ u.state[s] = "none"
        /\ c \in Conns /\ u.conn[c] \notin {"busy", "stuck"}
    BY <1>1 DEF OK
  <2>2. Flying(conn2, [u.subr EXCEPT ![c] = s], [u.ups EXCEPT ![s] = c], u.alive, u.done, st)
    BY ONLY <1>2, <2>1, FlyingLaunched
  <2>3. /\ \A d \in Conns : x.conn[d] \in {"busy", "stuck"} <=> conn2[d] \in {"busy", "stuck"}
        /\ \A d \in Conns : conn2[d] \in {"busy", "stuck"} => x.subr[d] = x.subr[d]
        /\ u.alive \subseteq u.alive
        /\ \A y \in Onces \intersect u.alive : st[y] = "active" <=> y \in u.alive /\ st[y] = "active"
    BY <1>2
  <2> HIDE DEF conn2, st
  <2>4. Flying(conn2, x.subr, x.ups, u.alive, u.done, st)
    BY <2>2
  <2>5. Flying(x.conn, x.subr, x.ups, u.alive, u.done, st)
    BY ONLY <2>3, <2>4, FlyingKept
  <2> QED
    BY <2>5
<1>9. Known(x.alive, st, s)
  <2>1. Known(u.alive, u.state, s)
    BY <1>1 DEF OK
  <2> HIDE DEF st
  <2> QED
    BY <1>1, <1>2, <1>3, <2>1, Kinds DEF Known
<1>10. Repeated(x.alive, st, x.requested, x.num, x.asked, s)
  <2>1. Repeated(u.alive, u.state, u.requested, u.num, u.asked, s)
    BY <1>1 DEF OK
  <2>2. s \in Onces \/ s \in Dupes
    BY <1>1 DEF Subrs
  <2> HIDE DEF st
  <2>3. CASE s \in Onces
    <3>1. \A y \in u.alive \intersect Dupes : /\ y # s /\ y \in Subrs
                                           /\ st[y] = u.state[y]
                                           /\ x.requested[y] = u.requested[y]
      BY <1>2, <1>3, <2>3, Kinds
    <3> QED
      BY <2>1, <2>3, <3>1 DEF Repeated
  <2>4. CASE s \in Dupes
    <3>1. s \in conf.dupes /\ \A y \in u.alive \intersect Dupes : y \in conf.dupes
      BY <1>1, <2>1, <2>4 DEF Repeated
    <3>2. \A y \in u.alive \intersect Dupes : y = s
      BY <3>1, HurlAssumption
    <3> QED
      BY <2>1, <2>4, <3>2 DEF Repeated
  <2> QED
    BY <2>2, <2>3, <2>4
<1>11. OnWire(x.submitted)
  BY <1>1 DEF OK
<1> HIDE DEF st
<1>12. OK(x, st, u.job, s)
  BY <1>5, <1>6, <1>7, <1>8, <1>9, <1>10, <1>11 DEF OK
<1> QED
  BY <1>12 DEF st

\* The session of s is up: the start is a success.
LEMMA UpBegun ==
  ASSUME NEW u, NEW s, Startable(u, s), NEW x,
         OK(x, [u.state EXCEPT ![s] = "active"], u.job, s),
         x.state = u.state, x.job = u.job, x.alive = u.alive,
         x.submitted = u.submitted, x.timer = u.timer,
         s \in Onces => x.requested[s] >= 1
  PROVE  Begun(Result("ok", x), s)
BY DEF Begun, Result, Startable

\* The session of s has failed at once, and the subrequest, if it is of a client,
\* has gone with it.
LEMMA TornDownBegun ==
  ASSUME NEW u, NEW s, Startable(u, s), NEW x,
         OK(x, [u.state EXCEPT ![s] = "active"], u.job, s),
         x.state = u.state, x.job = u.job, x.alive = u.alive,
         x.submitted = u.submitted, x.timer = u.timer,
         NEW c \in Conns, x.conn[c] = "busy", x.subr[c] = s
  PROVE  Begun(Result("ok", TornDown(x, c)), s)
<1> DEFINE st == [u.state EXCEPT ![s] = "active"]
           jb == u.job
           S == {s} \intersect Onces
           r == TornDown(x, c)
<1>1. /\ u.state \in [Subrs -> States] /\ u.job \in [Subrs -> Jobs \union {Null}]
      /\ s \in Subrs /\ s \in u.alive /\ (u.submitted # {} => u.timer)
  BY DEF Startable, OK, Thread
<1>2. /\ st \in [Subrs -> States] /\ jb \in [Subrs -> Jobs \union {Null}]
      /\ OK(x, st, jb, s) /\ c \in Conns /\ x.conn[c] \in {"busy", "stuck"}
  BY <1>1 DEF States
<1> HIDE DEF st, jb
<1>3. /\ OK(r, Reset(st, S, "none"), Reset(jb, S, Null), s)
      /\ r.state = Reset(x.state, S, "none") /\ r.job = Reset(x.job, S, Null)
      /\ r.alive = x.alive \ S
      /\ r.submitted = x.submitted /\ r.timer = x.timer
  <2> DEFINE S2 == {x.subr[c]} \intersect Onces
  <2>1. /\ OK(r, Reset(st, S2, "none"), Reset(jb, S2, Null), s)
        /\ r.state = Reset(x.state, S2, "none") /\ r.job = Reset(x.job, S2, Null)
        /\ r.alive = x.alive \ S2
        /\ r.submitted = x.submitted /\ r.timer = x.timer
    BY ONLY <1>2, TornDownOK
  <2>2. S2 = S
    OBVIOUS
  <2> HIDE DEF S2, S, r
  <2> QED
    BY <2>1, <2>2
<1> HIDE DEF r
<1>4. CASE s \in Onces
  <2>1. S = {s}
    BY <1>4
  <2>2. Reset(st, S, "none") = Reset(u.state, S, "none")
    BY <1>1, <2>1 DEF st, Reset
  <2>3. OK(r, r.state, r.job, s) /\ s \notin r.alive
    BY <1>3, <2>1, <2>2 DEF jb
  <2>4. Sound(r)
    BY <2>3, NotStarted DEF Sound
  <2> QED
    BY <1>1, <1>3, <2>3, <2>4 DEF Begun, Result, r
<1>5. CASE s \notin Onces
  <2>1. S = {}
    BY <1>5
  <2>2. /\ Reset(st, S, "none") = st /\ Reset(jb, S, Null) = jb
        /\ Reset(u.state, S, "none") = u.state /\ Reset(u.job, S, Null) = u.job
    BY <1>1, <1>2, <2>1 DEF Reset
  <2>3. /\ OK(r, [r.state EXCEPT ![s] = "active"], r.job, s) /\ s \in r.alive
        /\ r.submitted = u.submitted /\ r.timer = u.timer
    BY <1>1, <1>3, <2>1, <2>2 DEF st, jb
  <2> QED
    BY <1>1, <1>5, <2>3 DEF Begun, Result, r
<1> QED
  BY <1>4, <1>5

LEMMA LaunchedOK ==
  ASSUME conf \in Settings, NEW u, NEW s, Startable(u, s), NEW c \in Conns,
         u.conn[c] \notin {"busy", "stuck"}, NEW new, NEW r \in Launched(u, s, c, new)
  PROVE  Begun(r, s)
<1> DEFINE v == [u EXCEPT !.conn[c] = "busy", !.connLabel[c] = LabelOf[s],
                          !.subr[c] = s, !.ups[s] = c]
           y == [v EXCEPT !.requested[s] = @ + 1]
           w == Created(y, s)
           x == [v EXCEPT !.conn[c] = "stuck"]
<1>1. u \in Thread /\ s \in Subrs /\ s \in u.alive
  BY DEF Startable, OK
<1>2. /\ u.conn \in [Conns -> {"free", "idle", "busy", "stuck"}]
      /\ u.subr \in [Conns -> Subrs \union {Null}]
      /\ u.connLabel \in [Conns -> Labels \union {Null}]
      /\ u.ups \in [Subrs -> Conns \union {Null}]
      /\ u.requested \in [Subrs -> Nat] /\ u.asked \in Nat
      /\ LabelOf[s] \in Labels
  BY <1>1 DEF Thread, Labels
<1>3. v \in Thread
  <2>1. /\ [u.conn EXCEPT ![c] = "busy"] \in [Conns -> {"free", "idle", "busy", "stuck"}]
        /\ [u.subr EXCEPT ![c] = s] \in [Conns -> Subrs \union {Null}]
        /\ [u.connLabel EXCEPT ![c] = LabelOf[s]] \in [Conns -> Labels \union {Null}]
        /\ [u.ups EXCEPT ![s] = c] \in [Subrs -> Conns \union {Null}]
    BY <1>1, <1>2
  <2> QED
    BY <1>1, <2>1 DEF Thread
<1>4. /\ v.queue = u.queue /\ v.entry = u.entry /\ v.iq = u.iq /\ v.alive = u.alive
      /\ v.jobQ = u.jobQ /\ v.submitted = u.submitted /\ v.jobCb = u.jobCb
      /\ v.jobData = u.jobData /\ v.job = u.job /\ v.num = u.num /\ v.done = u.done
      /\ v.state = u.state /\ v.timer = u.timer
      /\ v.requested = u.requested /\ v.asked = u.asked
      /\ v.conn = [u.conn EXCEPT ![c] = "busy"] /\ v.subr = [u.subr EXCEPT ![c] = s]
      /\ v.ups = [u.ups EXCEPT ![s] = c]
  BY <1>1 DEF Thread
<1>5. /\ v.conn[c] = "busy" /\ v.subr[c] = s
  BY <1>2, <1>4
<1>6. r \in IF Refuses(u, s)
            THEN {Result("ok", IF new THEN x ELSE TornDown(v, c))}
            ELSE {Result("ok", w), Result("ok", TornDown(w, c))}
  BY DEF Launched
<1> HIDE DEF v
<1>7. s \in Dupes => u.requested[s] >= u.asked
  BY <1>1 DEF Startable, OK, Repeated
<1>8. \A z \in {v, x} : s \in Dupes =>
        /\ OK(z, [u.state EXCEPT ![s] = "active"], u.job, s)
        /\ z.state = u.state /\ z.job = u.job /\ z.alive = u.alive
        /\ z.submitted = u.submitted /\ z.timer = u.timer
  <2> SUFFICES ASSUME s \in Dupes
               PROVE \A z \in {v, x} :
                       /\ OK(z, [u.state EXCEPT ![s] = "active"], u.job, s)
                       /\ z.state = u.state /\ z.job = u.job /\ z.alive = u.alive
                       /\ z.submitted = u.submitted /\ z.timer = u.timer
    OBVIOUS
  <2>1. s \notin Onces
    BY Kinds
  <2>2. OK(v, [u.state EXCEPT ![s] = "active"], u.job, s)
    BY <1>2, <1>3, <1>4, <1>7, <2>1, LaunchUp
  <2>3. [v.conn EXCEPT ![c] = "stuck"] \in [Conns -> {"free", "idle", "busy", "stuck"}]
    BY <1>3 DEF Thread
  <2>4. x \in Thread
    BY <1>3, <2>3 DEF Thread
  <2>5. /\ x.queue = v.queue /\ x.entry = v.entry /\ x.iq = v.iq /\ x.alive = v.alive
        /\ x.jobQ = v.jobQ /\ x.submitted = v.submitted /\ x.jobCb = v.jobCb
        /\ x.jobData = v.jobData /\ x.job = v.job /\ x.num = v.num /\ x.done = v.done
        /\ x.state = v.state /\ x.timer = v.timer
        /\ x.requested = v.requested /\ x.asked = v.asked
        /\ x.conn = [v.conn EXCEPT ![c] = "stuck"] /\ x.subr = v.subr /\ x.ups = v.ups
    BY <1>3 DEF Thread
  <2> HIDE DEF x
  <2>6. x.conn = [u.conn EXCEPT ![c] = "stuck"]
    BY <1>2, <1>4, <2>5
  <2>7. OK(x, [u.state EXCEPT ![s] = "active"], u.job, s)
    BY <1>2, <1>4, <1>7, <2>1, <2>4, <2>5, <2>6, LaunchUp
  <2> QED
    BY <1>4, <2>2, <2>5, <2>7
<1>9. /\ OK(w, [u.state EXCEPT ![s] = "active"], u.job, s)
      /\ w.state = u.state /\ w.job = u.job /\ w.alive = u.alive
      /\ w.submitted = u.submitted /\ w.timer = u.timer
      /\ w.conn[c] = "busy" /\ w.subr[c] = s /\ w.requested[s] >= 1
  <2>1. [v.requested EXCEPT ![s] = @ + 1] \in [Subrs -> Nat]
    BY <1>1, <1>2, <1>4
  <2>2. y \in Thread
    BY <1>3, <2>1 DEF Thread
  <2>3. /\ y.queue = v.queue /\ y.entry = v.entry /\ y.iq = v.iq /\ y.alive = v.alive
        /\ y.jobQ = v.jobQ /\ y.submitted = v.submitted /\ y.jobCb = v.jobCb
        /\ y.jobData = v.jobData /\ y.job = v.job /\ y.num = v.num /\ y.done = v.done
        /\ y.state = v.state /\ y.timer = v.timer
        /\ y.requested = [v.requested EXCEPT ![s] = @ + 1] /\ y.asked = v.asked
        /\ y.conn = v.conn /\ y.subr = v.subr /\ y.ups = v.ups
    BY <1>3 DEF Thread
  <2> HIDE DEF y, x
  <2>4. w = IF s \in Dupes THEN [y EXCEPT !.asked = @ + 1] ELSE y
    BY DEF Created
  <2> HIDE DEF w
  <2>5. y.asked + 1 \in Nat /\ y.asked \in Nat
    BY <2>2 DEF Thread
  <2>6. w \in Thread
    BY <2>2, <2>4, <2>5 DEF Thread
  <2>7. /\ w.queue = y.queue /\ w.entry = y.entry /\ w.iq = y.iq /\ w.alive = y.alive
        /\ w.jobQ = y.jobQ /\ w.submitted = y.submitted /\ w.jobCb = y.jobCb
        /\ w.jobData = y.jobData /\ w.job = y.job /\ w.num = y.num /\ w.done = y.done
        /\ w.state = y.state /\ w.timer = y.timer
        /\ w.requested = y.requested
        /\ w.asked = IF s \in Dupes THEN y.asked + 1 ELSE y.asked
        /\ w.conn = y.conn /\ w.subr = y.subr /\ w.ups = y.ups
    BY <2>2, <2>4 DEF Thread
  <2>8. /\ w.requested[s] = u.requested[s] + 1
        /\ \A z \in Subrs : z # s => w.requested[z] = u.requested[z]
        /\ w.requested \in [Subrs -> Nat]
    BY <1>1, <1>2, <1>4, <2>1, <2>3, <2>7
  <2>9. s \in Dupes => w.requested[s] >= w.asked
    BY <1>1, <1>2, <1>4, <1>7, <2>3, <2>7, <2>8
  <2>10. s \in Onces => w.asked = u.asked
    BY <1>4, <2>3, <2>7, Kinds
  <2>11. /\ w.conn = [u.conn EXCEPT ![c] = "busy"] /\ w.subr = [u.subr EXCEPT ![c] = s]
         /\ w.ups = [u.ups EXCEPT ![s] = c]
         /\ w.queue = u.queue /\ w.entry = u.entry /\ w.iq = u.iq /\ w.alive = u.alive
         /\ w.jobQ = u.jobQ /\ w.submitted = u.submitted /\ w.jobCb = u.jobCb
         /\ w.jobData = u.jobData /\ w.job = u.job /\ w.num = u.num /\ w.done = u.done
         /\ w.state = u.state /\ w.timer = u.timer
    BY <1>4, <2>3, <2>7
  <2>12. OK(w, [u.state EXCEPT ![s] = "active"], u.job, s)
    BY <2>6, <2>8, <2>9, <2>10, <2>11, LaunchUp
  <2>13. w.requested[s] >= 1
    BY <1>1, <1>2, <2>8
  <2> QED
    BY <1>5, <2>3, <2>7, <2>11, <2>12, <2>13
<1> HIDE DEF x, y, w
<1>10. CASE Refuses(u, s)
  <2>1. s \in Dupes /\ s \notin Onces
    BY <1>10, Kinds DEF Refuses
  <2>2. Begun(Result("ok", x), s)
    BY <1>8, <2>1, UpBegun
  <2>3. Begun(Result("ok", TornDown(v, c)), s)
    BY <1>5, <1>8, <2>1, TornDownBegun
  <2> QED
    BY <1>6, <1>10, <2>2, <2>3
<1>11. CASE ~Refuses(u, s)
  <2>1. Begun(Result("ok", w), s)
    BY <1>9, UpBegun
  <2>2. Begun(Result("ok", TornDown(w, c)), s)
    BY <1>9, TornDownBegun
  <2> QED
    BY <1>6, <1>11, <2>1, <2>2
<1> QED
  BY <1>10, <1>11

LEMMA LaunchedNewOK ==
  ASSUME conf \in Settings, NEW u, NEW s, Startable(u, s), NEW r \in LaunchedNew(u, s)
  PROVE  Begun(r, s)
<1>1. CASE Cardinality(Active(u)) >= MaxActive
  <2>1. r = Result("again", u)
    BY <1>1 DEF LaunchedNew
  <2> QED
    BY <2>1 DEF Begun, Result, Startable
<1>2. CASE ~(Cardinality(Active(u)) >= MaxActive)
  <2> DEFINE c == Unused(FreeConns(u))
  <2>1. FreeConns(u) # {} /\ r \in Launched(u, s, c, TRUE)
    BY <1>2 DEF LaunchedNew
  <2>2. c \in FreeConns(u)
    BY <2>1 DEF Unused
  <2>3. c \in Conns /\ u.conn[c] \notin {"busy", "stuck"}
    BY <2>2 DEF FreeConns
  <2> HIDE DEF c
  <2> QED
    BY <2>1, <2>3, LaunchedOK
<1> QED
  BY <1>1, <1>2

\* The name of s is not found: if s is of a client it is deleted, and hurl's has
\* made one more request than hurl knows of.
LEMMA StartFailed ==
  ASSUME conf \in Settings, NEW u, NEW s, Startable(u, s)
  PROVE  Begun(Result("error", ErrorCalled([u EXCEPT !.requested[s] = @ + 1,
                                                     !.completed[s] = @ + 1], {s})), s)
<1> DEFINE x == [u EXCEPT !.requested[s] = @ + 1, !.completed[s] = @ + 1]
           S == {s} \intersect Onces
           r == Deleted(x, S)
<1>1. /\ u \in Thread /\ s \in Subrs /\ s \in u.alive /\ u.state[s] = "none"
      /\ OK(u, u.state, u.job, s) /\ (u.submitted # {} => u.timer)
  BY DEF Startable, OK
<1>2. /\ u.state \in [Subrs -> States] /\ u.iq \in [Subrs -> Nodes \union {Null}]
      /\ u.alive \in SUBSET Subrs /\ u.ups \in [Subrs -> Conns \union {Null}]
      /\ u.job \in [Subrs -> Jobs \union {Null}]
      /\ u.requested \in [Subrs -> Nat] /\ u.completed \in [Subrs -> Nat] /\ u.asked \in Nat
  BY <1>1 DEF Thread
<1>3. /\ Listed(u.queue, u.entry, u.state, u.iq, u.alive)
      /\ Paired(LiveJobs(u), u.jobData, u.alive, u.state, u.job)
      /\ Flying(u.conn, u.subr, u.ups, u.alive, u.done, u.state)
      /\ Repeated(u.alive, u.state, u.requested, u.num, u.asked, s)
  BY <1>1 DEF OK
<1>4. x \in Thread
  <2>1. /\ [u.requested EXCEPT ![s] = @ + 1] \in [Subrs -> Nat]
        /\ [u.completed EXCEPT ![s] = @ + 1] \in [Subrs -> Nat]
    BY <1>1, <1>2
  <2> QED
    BY <1>1, <2>1 DEF Thread
<1>5. /\ x.queue = u.queue /\ x.entry = u.entry /\ x.iq = u.iq /\ x.alive = u.alive
      /\ x.jobQ = u.jobQ /\ x.submitted = u.submitted /\ x.jobCb = u.jobCb
      /\ x.jobData = u.jobData /\ x.job = u.job /\ x.num = u.num /\ x.done = u.done
      /\ x.state = u.state /\ x.timer = u.timer /\ x.asked = u.asked
      /\ x.conn = u.conn /\ x.subr = u.subr /\ x.ups = u.ups
      /\ x.requested = [u.requested EXCEPT ![s] = @ + 1]
  BY <1>1 DEF Thread
<1> HIDE DEF x
<1>6. LiveJobs(x) = LiveJobs(u)
  BY <1>5 DEF LiveJobs
<1>7. /\ x.requested[s] = u.requested[s] + 1
      /\ \A y \in Subrs : y # s => x.requested[y] = u.requested[y]
  BY <1>1, <1>2, <1>5
<1>8. Repeated(x.alive, x.state, x.requested, x.num, x.asked, s)
  <2>1. ASSUME NEW y \in x.alive \intersect Dupes
        PROVE  /\ x.requested[y] >= x.asked
               /\ y # s => x.requested[y] = u.requested[y]
    <3>1. y \in u.alive /\ y \in Subrs /\ u.requested[y] >= u.asked /\ u.requested[y] \in Nat
      BY <1>2, <1>3, <1>5 DEF Repeated
    <3> QED
      BY <1>2, <1>5, <1>7, <3>1
  <2> QED
    BY <1>3, <1>5, <2>1 DEF Repeated
<1>9. Removable(x, u.state, u.job, s, S)
  <2>1. /\ \A y \in S \intersect u.alive : u.state[y] # "queued"
        /\ LiveJobs(u) \in SUBSET LiveJobs(u)
        /\ \A j \in LiveJobs(u) : u.jobData[j] \in S <=> j \notin LiveJobs(u)
        /\ \A j \in LiveJobs(u) : u.jobData[j] = u.jobData[j]
        /\ \A c \in Conns : u.conn[c] \in {"busy", "stuck"} => u.subr[c] \notin S
    BY <1>1, <1>3 DEF Paired, Flying
  <2> HIDE DEF S
  <2>2. Listed(u.queue, u.entry, Reset(u.state, S, "none"), Reset(u.iq, S, Null), u.alive \ S)
    BY ONLY <1>2, <1>3, <2>1, ListedDeleted
  <2>3. Paired(LiveJobs(u), u.jobData, u.alive \ S, Reset(u.state, S, "none"),
               Reset(u.job, S, Null))
    BY ONLY <1>2, <1>3, <2>1, PairedDeleted
  <2>4. Flying(u.conn, u.subr, Reset(u.ups, S, Null), u.alive \ S, u.done \ S,
               Reset(u.state, S, "none"))
    BY ONLY <1>2, <1>3, <2>1, FlyingDeleted
  <2>5. S \subseteq Onces
    BY DEF S
  <2>6. Repeated(x.alive, u.state, x.requested, x.num, x.asked, s)
    BY <1>5, <1>8
  <2> QED
    BY <1>1, <1>4, <1>5, <1>6, <2>2, <2>3, <2>4, <2>5, <2>6 DEF Removable, OK
<1>10. /\ OK(r, Reset(u.state, S, "none"), Reset(u.job, S, Null), s)
       /\ r.state = Reset(x.state, S, "none") /\ r.job = Reset(x.job, S, Null)
       /\ r.alive = x.alive \ S /\ r.requested = Reset(x.requested, S, 0)
       /\ r.submitted = x.submitted /\ r.timer = x.timer
  <2> HIDE DEF S
  <2> QED
    BY ONLY <1>2, <1>9, DeletedOK
<1>11. r = ErrorCalled([u EXCEPT !.requested[s] = @ + 1, !.completed[s] = @ + 1], {s})
  BY DEF ErrorCalled, x
<1>12. r.asked = x.asked
  BY <1>4 DEF Deleted, Thread
<1> HIDE DEF r
<1>13. OK(r, r.state, r.job, s)
  BY <1>5, <1>10
<1>14. CASE s \in Onces
  <2>1. s \notin r.alive
    BY <1>10, <1>14
  <2>2. Sound(r)
    BY <1>13, <2>1, NotStarted DEF Sound
  <2> QED
    BY <1>1, <1>5, <1>10, <1>11, <2>1, <2>2 DEF Begun, Result
<1>15. CASE s \notin Onces
  <2>1. r.requested = x.requested
    <3>1. Reset(x.requested, {}, 0) = x.requested
      BY <1>2, <1>5 DEF Reset
    <3>2. S = {}
      BY <1>15
    <3> QED
      BY <1>10, <3>1, <3>2
  <2>2. s \in Dupes /\ u.requested[s] >= u.asked
    BY <1>1, <1>3, <1>15 DEF Subrs, Repeated
  <2>3. r.requested[s] > r.asked
    BY <1>1, <1>2, <1>5, <1>7, <1>12, <2>1, <2>2
  <2>4. Known(r.alive, r.state, Null)
    BY <1>13, <1>15 DEF OK, Known
  <2>5. Repeated(r.alive, r.state, r.requested, r.num, r.asked, Null)
    BY <1>13, <2>3 DEF OK, Repeated
  <2>6. Sound(r)
    BY <1>13, <2>4, <2>5 DEF Sound, OK
  <2> QED
    BY <1>1, <1>5, <1>10, <1>11, <2>6 DEF Begun, Result
<1> QED
  BY <1>14, <1>15

LEMMA LookupSyncOK ==
  ASSUME conf \in Settings, NEW u, NEW s, Startable(u, s), NEW r \in LookupSync(u, s)
  PROVE  Begun(r, s)
<1> DEFINE x == [u EXCEPT !.cached = @ \union {LabelOf[s]}]
<1>1. u \in Thread /\ s \in Subrs
  BY DEF Startable, OK
<1>2. u.cached \union {LabelOf[s]} \in SUBSET {LabelOf[y] : y \in Subrs \union {Null}}
  BY <1>1 DEF Thread
<1>3. x \in Thread
  BY <1>1, <1>2 DEF Thread
<1>4. Alike(x, u) /\ x.state = u.state /\ x.job = u.job /\ x.timer = u.timer
  BY <1>1 DEF Alike, Thread
<1>5. \/ r \in LaunchedNew(x, s)
      \/ r = Result("error", ErrorCalled([u EXCEPT !.requested[s] = @ + 1,
                                                   !.completed[s] = @ + 1], {s}))
  BY DEF LookupSync
<1> HIDE DEF x
<1>6. Startable(x, s)
  <2>1. OK(u, u.state, u.job, s)
    BY DEF Startable
  <2>2. OK(x, u.state, u.job, s)
    BY <1>3, <1>4, <2>1, AlikeOK
  <2> QED
    BY <1>4, <2>2 DEF Startable, Alike
<1> QED
  BY <1>5, <1>6, LaunchedNewOK, StartFailed

\* A look-up for s waits: it is new, and s is of a client, because hurl's name is
\* looked up while the thread waits.
LEMMA LookupQueuedOK ==
  ASSUME conf \in Settings, ~UseSyncDns, NEW u, NEW s, Startable(u, s),
         NEW j \in UnusedJobs(u)
  PROVE  LET v == [u EXCEPT !.jobQ = Append(@, j), !.jobCb[j] = TRUE, !.jobData[j] = s]
         IN  /\ OK(v, [u.state EXCEPT ![s] = "dns"], [u.job EXCEPT ![s] = j], s)
             /\ v.state = u.state /\ v.job = u.job /\ v.alive = u.alive
             /\ s \in Onces
<1> DEFINE v == [u EXCEPT !.jobQ = Append(@, j), !.jobCb[j] = TRUE, !.jobData[j] = s]
           st == [u.state EXCEPT ![s] = "dns"]
           jb == [u.job EXCEPT ![s] = j]
<1>1. /\ u \in Thread /\ s \in Subrs /\ s \in u.alive /\ u.state[s] = "none"
      /\ OK(u, u.state, u.job, s)
  BY DEF Startable, OK
<1>2. /\ u.state \in [Subrs -> States] /\ u.alive \in SUBSET Subrs
      /\ u.job \in [Subrs -> Jobs \union {Null}] /\ u.queue \in Seq(Nodes)
      /\ u.jobQ \in Seq(Jobs) /\ u.submitted \in SUBSET Jobs
      /\ u.jobCb \in [Jobs -> BOOLEAN] /\ u.jobData \in [Jobs -> Subrs \union {Null}]
  BY <1>1 DEF Thread
<1>3. s \in Onces /\ s \notin Dupes
  <2>1. conf.dupes = {}
    BY HurlAssumption DEF UseSyncDns
  <2>2. u.alive \intersect Dupes \subseteq conf.dupes
    BY <1>1 DEF OK, Repeated
  <2> QED
    BY <1>1, <2>1, <2>2 DEF Subrs
<1>4. /\ j \in Jobs /\ j \notin RangeOf(u.jobQ) /\ j \notin u.submitted
      /\ \A y \in u.alive : u.job[y] # j
  BY DEF UnusedJobs
<1>5. /\ Append(u.jobQ, j) \in Seq(Jobs)
      /\ [u.jobCb EXCEPT ![j] = TRUE] \in [Jobs -> BOOLEAN]
      /\ [u.jobData EXCEPT ![j] = s] \in [Jobs -> Subrs \union {Null}]
  BY <1>1, <1>2, <1>4, AppendProperties
<1>6. v \in Thread
  BY <1>1, <1>5 DEF Thread
<1>7. /\ v.queue = u.queue /\ v.entry = u.entry /\ v.iq = u.iq /\ v.alive = u.alive
      /\ v.submitted = u.submitted /\ v.state = u.state
      /\ v.job = u.job /\ v.num = u.num /\ v.done = u.done
      /\ v.requested = u.requested /\ v.asked = u.asked
      /\ v.conn = u.conn /\ v.subr = u.subr /\ v.ups = u.ups
      /\ v.jobQ = Append(u.jobQ, j) /\ v.jobCb = [u.jobCb EXCEPT ![j] = TRUE]
      /\ v.jobData = [u.jobData EXCEPT ![j] = s]
  BY <1>1 DEF Thread
<1> HIDE DEF v
<1>8. /\ st[s] = "dns" /\ \A y \in Subrs : y # s => st[y] = u.state[y]
      /\ jb[s] = j /\ \A y \in Subrs : y # s => jb[y] = u.job[y]
      /\ st \in [Subrs -> States]
  BY <1>1, <1>2, <1>4 DEF States
<1> HIDE DEF st, jb
<1>9. RangeOf(v.jobQ) = RangeOf(u.jobQ) \union {j} /\ RangeOf(u.jobQ) \subseteq Jobs
  <2>1. /\ Len(u.jobQ) \in Nat /\ DOMAIN u.jobQ = 1 .. Len(u.jobQ)
        /\ \A i \in 1 .. Len(u.jobQ) : u.jobQ[i] \in Jobs
    BY <1>2, LenProperties, ElementOfSeq
  <2>2. /\ DOMAIN v.jobQ = 1 .. Len(u.jobQ) + 1
        /\ \A i \in 1 .. Len(u.jobQ) : v.jobQ[i] = u.jobQ[i]
        /\ v.jobQ[Len(u.jobQ) + 1] = j
    BY <1>2, <1>4, <1>7, <2>1, AppendProperties, LenProperties
  <2>3. ASSUME NEW i \in DOMAIN v.jobQ PROVE v.jobQ[i] \in RangeOf(u.jobQ) \union {j}
    BY <2>1, <2>2 DEF RangeOf
  <2>4. ASSUME NEW i \in DOMAIN u.jobQ PROVE u.jobQ[i] \in RangeOf(v.jobQ)
    <3>1. i \in DOMAIN v.jobQ /\ v.jobQ[i] = u.jobQ[i]
      BY <2>1, <2>2
    <3> QED
      BY <3>1 DEF RangeOf
  <2>5. j \in RangeOf(v.jobQ)
    <3>1. Len(u.jobQ) + 1 \in DOMAIN v.jobQ
      BY <2>1, <2>2
    <3> QED
      BY <2>2, <3>1 DEF RangeOf
  <2>6. RangeOf(u.jobQ) \subseteq Jobs
    BY <2>1 DEF RangeOf
  <2> QED
    BY <2>3, <2>4, <2>5, <2>6 DEF RangeOf
<1>10. /\ LiveJobs(v) = LiveJobs(u) \union {j} /\ j \notin LiveJobs(u)
       /\ LiveJobs(u) \subseteq Jobs
       /\ v.jobData[j] = s /\ \A i \in LiveJobs(u) : v.jobData[i] = u.jobData[i]
  <2>1. /\ \A i \in Jobs : i # j => v.jobCb[i] = u.jobCb[i] /\ v.jobData[i] = u.jobData[i]
        /\ v.jobCb[j] = TRUE /\ v.jobData[j] = s
    BY <1>2, <1>4, <1>7
  <2>2. LiveJobs(u) \subseteq Jobs /\ j \notin LiveJobs(u)
    BY <1>2, <1>4, <1>9 DEF LiveJobs
  <2>3. LiveJobs(v) = LiveJobs(u) \union {j}
    BY <1>2, <1>4, <1>7, <1>9, <2>1 DEF LiveJobs
  <2> QED
    BY <2>1, <2>2, <2>3
<1>11. Listed(v.queue, v.entry, st, v.iq, v.alive)
  <2>1. \A y \in u.alive : st[y] = "queued" <=> u.state[y] = "queued"
    BY <1>1, <1>2, <1>8
  <2> QED
    BY <1>1, <1>7, <2>1 DEF OK, Listed
<1>12. Room(v.queue, st, v.alive)
  <2>1. /\ u.alive \in SUBSET u.alive /\ Room(u.queue, u.state, u.alive)
        /\ \A y \in u.alive : st[y] # "queued" => u.state[y] # "queued"
    BY <1>1, <1>2, <1>8 DEF OK
  <2>2. Room(u.queue, st, u.alive)
    BY ONLY <1>2, <1>8, <2>1, RoomShrinks
  <2> QED
    BY <1>7, <2>2
<1>13. Paired(LiveJobs(v), v.jobData, v.alive, st, jb)
  <2>1. Paired(LiveJobs(u), u.jobData, u.alive, u.state, u.job)
    BY <1>1 DEF OK
  <2>2. ASSUME NEW i \in LiveJobs(v)
        PROVE  /\ v.jobData[i] \in Onces \intersect v.alive
               /\ st[v.jobData[i]] = "dns" /\ jb[v.jobData[i]] = i
    <3>1. CASE i = j
      BY <1>1, <1>3, <1>7, <1>8, <1>10, <3>1
    <3>2. CASE i # j
      <4>1. i \in LiveJobs(u) /\ v.jobData[i] = u.jobData[i]
        BY <1>10, <3>2
      <4>2. /\ u.jobData[i] \in Onces \intersect u.alive
            /\ u.state[u.jobData[i]] = "dns" /\ u.job[u.jobData[i]] = i
        BY <2>1, <4>1 DEF Paired
      <4> QED
        BY <1>1, <1>2, <1>7, <1>8, <4>1, <4>2
    <3> QED
      BY <3>1, <3>2
  <2>3. ASSUME NEW y \in v.alive, st[y] = "dns"
        PROVE  jb[y] \in LiveJobs(v) /\ v.jobData[jb[y]] = y
    <3>1. CASE y = s
      BY <1>8, <1>10, <3>1
    <3>2. CASE y # s
      <4>1. y \in u.alive /\ u.state[y] = "dns" /\ jb[y] = u.job[y]
        BY <1>2, <1>7, <1>8, <2>3, <3>2
      <4>2. u.job[y] \in LiveJobs(u) /\ u.jobData[u.job[y]] = y
        BY <2>1, <4>1 DEF Paired
      <4> QED
        BY <1>10, <4>1, <4>2
    <3> QED
      BY <3>1, <3>2
  <2> QED
    BY <2>2, <2>3 DEF Paired
<1>14. Flying(v.conn, v.subr, v.ups, v.alive, v.done, st)
  <2>1. /\ Flying(u.conn, u.subr, u.ups, u.alive, u.done, u.state)
        /\ \A y \in Onces \intersect u.alive :
             st[y] = "active" <=> y \in u.alive /\ u.state[y] = "active"
    BY <1>1, <1>2, <1>8 DEF OK
  <2>2. /\ u.alive \subseteq u.alive
        /\ \A d \in Conns : u.conn[d] \in {"busy", "stuck"} <=> u.conn[d] \in {"busy", "stuck"}
        /\ \A d \in Conns : u.conn[d] \in {"busy", "stuck"} => u.subr[d] = u.subr[d]
    OBVIOUS
  <2>3. Flying(u.conn, u.subr, u.ups, u.alive, u.done, st)
    BY ONLY <2>1, <2>2, FlyingKept
  <2> QED
    BY <1>7, <2>3
<1>15. Known(v.alive, st, s)
  <2>1. Known(u.alive, u.state, s)
    BY <1>1 DEF OK
  <2> QED
    BY <1>1, <1>2, <1>7, <1>8, <2>1, Kinds DEF Known
<1>16. Repeated(v.alive, st, v.requested, v.num, v.asked, s)
  <2>1. Repeated(u.alive, u.state, u.requested, u.num, u.asked, s)
    BY <1>1 DEF OK
  <2> QED
    BY <1>2, <1>3, <1>7, <1>8, <2>1 DEF Repeated
<1>17. OnWire(v.submitted)
  BY <1>1, <1>7 DEF OK
<1>18. OK(v, st, jb, s)
  BY <1>6, <1>11, <1>12, <1>13, <1>14, <1>15, <1>16, <1>17 DEF OK
<1> QED
  BY <1>3, <1>7, <1>18 DEF v, st, jb

LEMMA LookupLaterOK ==
  ASSUME conf \in Settings, ~SubmitFails, ~UseSyncDns, NEW u, NEW s, Startable(u, s),
         NEW r \in LookupLater(u, s)
  PROVE  Begun(r, s)
<1> DEFINE j == Unused(UnusedJobs(u))
           v == [u EXCEPT !.jobQ = Append(@, j), !.jobCb[j] = TRUE, !.jobData[j] = s]
           st == [u.state EXCEPT ![s] = "dns"]
           jb == [u.job EXCEPT ![s] = j]
<1>1. UnusedJobs(u) # {}
  BY DEF LookupLater
<1>2. j \in UnusedJobs(u)
  BY <1>1 DEF Unused
<1>3. PICK x \in LookupAsync(v) :
        r = IF ~x.ok THEN Result("error", x.u)
            ELSE Result("dns", IF s \in x.u.alive THEN [x.u EXCEPT !.job[s] = j] ELSE x.u)
  BY <1>1 DEF LookupLater
<1> HIDE DEF j
<1>4. /\ OK(v, st, jb, s) /\ v.state = u.state /\ v.job = u.job /\ v.alive = u.alive
      /\ s \in Onces
  BY <1>2, LookupQueuedOK
<1> HIDE DEF v
<1>5. /\ u.state \in [Subrs -> States] /\ u.job \in [Subrs -> Jobs \union {Null}]
      /\ s \in Subrs /\ s \in u.alive
      /\ j \in Jobs
  BY <1>2 DEF Startable, OK, Thread, UnusedJobs
<1>6. st \in [Subrs -> States] /\ jb \in [Subrs -> Jobs \union {Null}]
  BY <1>5 DEF States
<1> HIDE DEF st, jb
<1>7. /\ x.ok
      /\ x.u.submitted # {} => x.u.timer
      /\ \E S \in SUBSET Onces :
           /\ OK(x.u, Reset(st, S, "none"), Reset(jb, S, Null), s)
           /\ x.u.state = Reset(v.state, S, "none")
           /\ x.u.job = Reset(v.job, S, Null)
           /\ x.u.alive = v.alive \ S
  <2>1. OK(v, st, jb, s) /\ ~SubmitFails /\ x \in LookupAsync(v)
    BY <1>4
  <2> QED
    BY ONLY <1>6, <2>1, LookupAsyncOK
<1>8. PICK S \in SUBSET Onces :
        /\ OK(x.u, Reset(st, S, "none"), Reset(jb, S, Null), s)
        /\ x.u.state = Reset(u.state, S, "none")
        /\ x.u.job = Reset(u.job, S, Null)
        /\ x.u.alive = u.alive \ S
  BY <1>4, <1>7
<1>9. x.u \in Thread
  BY <1>8 DEF OK
<1>10. CASE s \in S
  <2>1. r = Result("dns", x.u) /\ s \notin x.u.alive
    BY <1>3, <1>7, <1>8, <1>10
  <2>2. Reset(st, S, "none") = Reset(u.state, S, "none") /\ Reset(jb, S, Null) = Reset(u.job, S, Null)
    BY <1>5, <1>10 DEF Reset, st, jb
  <2>3. OK(x.u, x.u.state, x.u.job, s)
    BY <1>8, <2>2
  <2>4. Sound(x.u)
    BY <2>1, <2>3, NotStarted DEF Sound
  <2> QED
    BY <1>7, <2>1, <2>4 DEF Begun, Result
<1>11. CASE s \notin S
  <2> DEFINE y == [x.u EXCEPT !.job[s] = j]
  <2>1. r = Result("dns", y) /\ s \in x.u.alive
    BY <1>3, <1>5, <1>7, <1>8, <1>11
  <2>2. /\ Reset(st, S, "none") = [Reset(u.state, S, "none") EXCEPT ![s] = "dns"]
        /\ Reset(jb, S, Null) = [Reset(u.job, S, Null) EXCEPT ![s] = j]
    BY <1>5, <1>11 DEF Reset, st, jb
  <2>3. OK(x.u, [x.u.state EXCEPT ![s] = "dns"], [x.u.job EXCEPT ![s] = j], s)
    BY <1>8, <2>2
  <2>4. [x.u.job EXCEPT ![s] = j] \in [Subrs -> Jobs \union {Null}]
    BY <1>5, <1>9 DEF Thread
  <2>5. y \in Thread
    BY <1>9, <2>4 DEF Thread
  <2>6. /\ Alike(y, x.u) /\ y.state = x.u.state /\ y.job = [x.u.job EXCEPT ![s] = j]
        /\ y.timer = x.u.timer
    BY <1>9 DEF Alike, Thread
  <2> HIDE DEF y
  <2>7. OK(y, [y.state EXCEPT ![s] = "dns"], y.job, s)
    BY <2>3, <2>5, <2>6, AlikeOK
  <2>8. y.alive = x.u.alive /\ y.submitted = x.u.submitted
    BY <2>6 DEF Alike
  <2> QED
    BY <1>4, <1>7, <2>1, <2>6, <2>7, <2>8 DEF Begun, Result
<1> QED
  BY <1>10, <1>11

LEMMA TryStartOK ==
  ASSUME conf \in Settings, ~SubmitFails, NEW u, NEW s, Startable(u, s),
         NEW r \in TryStart(u, s)
  PROVE  Begun(r, s)
<1>1. CASE IdleFor(u, LabelOf[s]) # {}
  <2>1. PICK c \in IdleFor(u, LabelOf[s]) : r \in Launched(u, s, c, FALSE)
    BY <1>1 DEF TryStart
  <2>2. c \in Conns /\ u.conn[c] \notin {"busy", "stuck"}
    BY DEF IdleFor
  <2> QED
    BY <2>1, <2>2, LaunchedOK
<1>2. CASE IdleFor(u, LabelOf[s]) = {}
  <2>1. \/ r = Result("again", u)
        \/ r \in LaunchedNew(u, s)
        \/ r \in LookupSync(u, s)
        \/ ~UseSyncDns /\ r \in LookupLater(u, s)
    BY <1>2 DEF TryStart
  <2>2. CASE r = Result("again", u)
    BY <2>2 DEF Begun, Result, Startable
  <2> QED
    BY <2>1, <2>2, LaunchedNewOK, LookupSyncOK, LookupLaterOK
<1> QED
  BY <1>1, <1>2

\* A member of the thread is set: the state of s is what it is going to be.
LEMMA StateSetOK ==
  ASSUME NEW u, NEW s \in Subrs, NEW x \in States, NEW w,
         OK(u, [u.state EXCEPT ![s] = x], u.job, w)
  PROVE  LET v == [u EXCEPT !.state[s] = x]
         IN  /\ OK(v, v.state, v.job, w)
             /\ v.state = [u.state EXCEPT ![s] = x]
             /\ v.alive = u.alive /\ v.submitted = u.submitted /\ v.timer = u.timer
             /\ v.requested = u.requested /\ v.num = u.num /\ v.asked = u.asked
<1> DEFINE st == [u.state EXCEPT ![s] = x]
           v == [u EXCEPT !.state[s] = x]
<1>1. u \in Thread
  BY DEF OK
<1>2. st \in [Subrs -> States]
  BY <1>1 DEF Thread
<1>3. v \in Thread
  BY <1>1, <1>2 DEF Thread
<1>4. Alike(v, u) /\ v.state = st /\ v.job = u.job /\ v.timer = u.timer
  BY <1>1 DEF Alike, Thread
<1> HIDE DEF v, st
<1>5. OK(v, st, u.job, w)
  <2>1. OK(u, st, u.job, w)
    BY DEF st
  <2> QED
    BY <1>3, <1>4, <2>1, AlikeOK
<1> QED
  BY <1>4, <1>5 DEF v, st, Alike

\* The subrequest that was started is active, waits, is queued again or is gone.
LEMMA StartedOK ==
  ASSUME NEW s \in Subrs, NEW r, Begun(r, s)
  PROVE  /\ Sound(Started(r, s))
         /\ Started(r, s).submitted # {} => Started(r, s).timer
<1>1. CASE s \notin r.u.alive
  <2>1. Started(r, s) = r.u
    BY <1>1 DEF Started
  <2> QED
    BY <1>1, <2>1 DEF Begun
<1>2. CASE s \in r.u.alive /\ r.status = "ok"
  <2> DEFINE v == [r.u EXCEPT !.state[s] = "active"]
  <2>1. /\ OK(r.u, [r.u.state EXCEPT ![s] = "active"], r.u.job, s)
        /\ s \in Onces => r.u.requested[s] >= 1
        /\ r.u.submitted # {} => r.u.timer
        /\ r.u \in Thread
    BY <1>2 DEF Begun, OK
  <2>2. "active" \in States
    BY DEF States
  <2>3. /\ OK(v, v.state, v.job, s)
        /\ v.state = [r.u.state EXCEPT ![s] = "active"]
        /\ v.alive = r.u.alive /\ v.submitted = r.u.submitted /\ v.timer = r.u.timer
        /\ v.requested = r.u.requested /\ v.num = r.u.num /\ v.asked = r.u.asked
    BY <2>1, <2>2, StateSetOK
  <2>4. Started(r, s) = IF PendingDone(v, s) THEN v ELSE Enqueued(v, s)
    BY <1>2 DEF Started
  <2> HIDE DEF v
  <2>5. v.state[s] = "active" /\ v.state \in [Subrs -> States] /\ s \in v.alive
    BY <1>2, <2>1, <2>2, <2>3 DEF Thread
  <2>6. CASE PendingDone(v, s)
    <3>1. v.requested[s] >= v.num[s]
      BY <2>6 DEF PendingDone
    <3>2. Known(v.alive, v.state, Null)
      BY <2>3, <2>5 DEF OK, Known
    <3>3. Repeated(v.alive, v.state, v.requested, v.num, v.asked, Null)
      BY <2>3, <3>1 DEF OK, Repeated
    <3>4. Sound(v)
      BY <2>3, <3>2, <3>3 DEF Sound, OK
    <3> QED
      BY <2>1, <2>3, <2>4, <2>6, <3>4
  <2>7. CASE ~PendingDone(v, s)
    <3>1. s \notin Onces
      <4>1. s \in Onces => v.num[s] = 1
        BY <2>3 DEF OK, Repeated
      <4> QED
        BY <2>1, <2>3, <2>7, <4>1 DEF PendingDone
    <3> DEFINE st == v.state
               jb == v.job
               z == Enqueued(v, s)
    <3>2. /\ OK(v, st, jb, s) /\ st \in [Subrs -> States] /\ s \in v.alive
          /\ st[s] \in {"none", "active"} /\ (s \in Onces => st[s] = "none")
          /\ [v.state EXCEPT ![s] = "queued"] = [st EXCEPT ![s] = "queued"]
          /\ s \in Subrs
      BY <2>3, <2>5, <3>1
    <3> HIDE DEF st, jb
    <3>3. /\ OK(z, z.state, jb, Null)
          /\ z.job = v.job /\ z.submitted = v.submitted /\ z.timer = v.timer
      BY ONLY <3>2, EnqueuedOK
    <3>4. Sound(z)
      BY <3>3 DEF Sound, jb
    <3> QED
      BY <2>1, <2>3, <2>4, <2>7, <3>3, <3>4
  <2> QED
    BY <2>6, <2>7
<1>3. CASE s \in r.u.alive /\ r.status = "again"
  <2> DEFINE u == r.u
             st == u.state
             jb == u.job
             z == Enqueued(u, s)
  <2>1. /\ OK(u, u.state, u.job, s) /\ u.state[s] = "none"
        /\ u.submitted # {} => u.timer
        /\ u.state \in [Subrs -> States]
    BY <1>3 DEF Begun, OK, Thread
  <2>2. Started(r, s) = z
    BY <1>3 DEF Started
  <2> HIDE DEF u
  <2>3. /\ OK(u, st, jb, s) /\ st \in [Subrs -> States] /\ s \in u.alive
        /\ st[s] \in {"none", "active"} /\ (s \in Onces => st[s] = "none")
        /\ [u.state EXCEPT ![s] = "queued"] = [st EXCEPT ![s] = "queued"]
        /\ s \in Subrs
    BY <1>3, <2>1 DEF u
  <2> HIDE DEF st, jb
  <2>4. /\ OK(z, z.state, jb, Null)
        /\ z.job = u.job /\ z.submitted = u.submitted /\ z.timer = u.timer
    BY ONLY <2>3, EnqueuedOK
  <2> QED
    BY <2>1, <2>2, <2>4 DEF Sound, jb
<1>4. CASE s \in r.u.alive /\ r.status = "dns"
  <2> DEFINE v == [r.u EXCEPT !.state[s] = "dns"]
  <2>1. /\ OK(r.u, [r.u.state EXCEPT ![s] = "dns"], r.u.job, s)
        /\ s \in Onces
        /\ r.u.submitted # {} => r.u.timer
        /\ r.u \in Thread
    BY <1>4 DEF Begun, OK
  <2>2. "dns" \in States
    BY DEF States
  <2>3. /\ OK(v, v.state, v.job, s)
        /\ v.state = [r.u.state EXCEPT ![s] = "dns"]
        /\ v.alive = r.u.alive /\ v.submitted = r.u.submitted /\ v.timer = r.u.timer
    <3> DEFINE u == r.u
    <3>1. /\ OK(u, [u.state EXCEPT ![s] = "dns"], u.job, s) /\ "dns" \in States
          /\ s \in Subrs
      BY <2>1, <2>2
    <3> HIDE DEF u
    <3>2. LET z == [u EXCEPT !.state[s] = "dns"]
          IN  /\ OK(z, z.state, z.job, s)
              /\ z.state = [u.state EXCEPT ![s] = "dns"]
              /\ z.alive = u.alive /\ z.submitted = u.submitted /\ z.timer = u.timer
      BY ONLY <3>1, StateSetOK
    <3> QED
      BY <3>2 DEF u
  <2>4. Started(r, s) = v
    BY <1>4 DEF Started
  <2> HIDE DEF v
  <2>5. v.state[s] = "dns"
    BY <2>1, <2>2, <2>3 DEF Thread
  <2>6. Known(v.alive, v.state, Null)
    BY <2>3, <2>5 DEF OK, Known
  <2>7. Repeated(v.alive, v.state, v.requested, v.num, v.asked, Null)
    <3>1. s \notin Dupes
      BY <2>1, Kinds
    <3> QED
      BY <2>3, <3>1 DEF OK, Repeated
  <2>8. Sound(v)
    BY <2>3, <2>6, <2>7 DEF Sound, OK
  <2> QED
    BY <2>1, <2>3, <2>4, <2>8
<1>5. CASE s \in r.u.alive /\ r.status = "error"
  <2>1. Started(r, s) = r.u
    BY <1>5 DEF Started
  <2> QED
    BY <1>5, <2>1 DEF Begun
<1> QED
  BY <1>1, <1>2, <1>3, <1>4, <1>5 DEF Begun

LEMMA DeqTurnKeeps ==
  ASSUME ~SubmitFails, IInv, DeqTurn
  PROVE  IInv'
<1> DEFINE s == t.entry[Head(t.queue)]
           u == Dequeued(t)
<1>1. /\ Sound(t) /\ t.queue # <<>> /\ conf \in Settings
      /\ conf' = conf /\ pc' \in {"deq", "events"}
      /\ t.submitted # {} => t.timer
  BY DEF IInv, DeqTurn
<1>2. /\ u.submitted = t.submitted /\ u.timer = t.timer
      /\ s = Null => Sound(u)
      /\ s # Null => /\ OK(u, u.state, u.job, s)
                     /\ s \in u.alive /\ s \in Subrs
                     /\ u.state[s] = "none"
  BY <1>1, DequeuedOK
<1>3. \/ s = Null /\ t' = u
      \/ s # Null /\ \E r \in TryStart(u, s) : t' = Started(r, s)
  BY DEF DeqTurn
<1> HIDE DEF s, u
<1>4. Sound(t') /\ (t'.submitted # {} => t'.timer)
  <2>1. CASE s = Null /\ t' = u
    BY <1>1, <1>2, <2>1
  <2>2. ASSUME s # Null, NEW r \in TryStart(u, s), t' = Started(r, s)
        PROVE  Sound(t') /\ (t'.submitted # {} => t'.timer)
    <3>1. Startable(u, s) /\ s \in Subrs
      BY <1>1, <1>2, <2>2 DEF Startable
    <3>2. Begun(r, s)
      BY <1>1, <2>2, <3>1, TryStartOK
    <3> QED
      BY <2>2, <3>1, <3>2, StartedOK
  <2> QED
    BY <1>3, <2>1, <2>2
<1> QED
  BY <1>1, <1>4 DEF IInv, Sound, OK, Repeated

-----------------------------------------------------------------------------
(* The theorems.                                                           *)

LEMMA NextKeeps ==
  ASSUME ~SubmitFails, IInv, [Next]_vars
  PROVE  IInv'
<1>1. ASSUME GoDeq PROVE IInv'
  BY <1>1 DEF IInv, GoDeq, Sound, OK, Repeated
<1>2. ASSUME DeqEnds PROVE IInv'
  BY <1>2 DEF IInv, DeqEnds, Sound, OK, Repeated
<1>3. ASSUME UNCHANGED vars PROVE IInv'
  BY <1>3 DEF IInv, vars, Sound, OK, Repeated
<1>4. ASSUME DeqTurn PROVE IInv'
  BY <1>4, DeqTurnKeeps
<1>5. ASSUME DnsTimer PROVE IInv'
  BY <1>5, DnsTimerKeeps
<1>6. ASSUME NEW s \in Onces, Request(s) \/ ClientEnds(s) PROVE IInv'
  BY <1>6, RequestKeeps, ClientEndsKeeps
<1>7. ASSUME NEW c \in Conns, SessionStep(c) \/ IdleEnds(c) PROVE IInv'
  BY <1>7, SessionStepKeeps, IdleEndsKeeps
<1>8. ASSUME NEW j \in Jobs, Answer(j) PROVE IInv'
  BY <1>8, AnswerKeeps
<1>9. ASSUME NEW l \in Labels, Expires(l) PROVE IInv'
  BY <1>9, ExpiresKeeps
<1> QED
  BY <1>1, <1>2, <1>3, <1>4, <1>5, <1>6, <1>7, <1>8, <1>9 DEF Next

\* The parts of the invariant hold in every state of the thread, unless udns may
\* refuse a look-up.
THEOREM Invariance ==
  ASSUME ~SubmitFails
  PROVE  Spec => []IInv
<1>1. Init => IInv
  BY InitOK
<1>2. IInv /\ [Next]_vars => IInv'
  BY NextKeeps
<1> QED
  BY <1>1, <1>2, PTL DEF Spec

\* The invariant implies the properties.
LEMMA ListedIsEnough ==
  ASSUME IInv
  PROVE  QueuedIsListed
<1>1. t \in Thread /\ pc \in {"deq", "events"}
  BY DEF IInv, Sound, OK
<1>2. /\ Listed(t.queue, t.entry, t.state, t.iq, t.alive)
      /\ Flying(t.conn, t.subr, t.ups, t.alive, t.done, t.state)
      /\ OnWire(t.submitted)
  BY DEF IInv, Sound, OK
<1>3. /\ t.queue \in Seq(Nodes) /\ t.entry \in [Nodes -> Subrs \union {Null}]
      /\ t.state \in [Subrs -> States] /\ t.iq \in [Subrs -> Nodes \union {Null}]
      /\ t.requested \in [Subrs -> Nat] /\ t.completed \in [Subrs -> Nat]
      /\ t.alive \subseteq Subrs
      /\ t.jobQ \in Seq(Jobs) /\ t.submitted \subseteq Jobs
      /\ t.conn \in [Conns -> {"free", "idle", "busy", "stuck"}]
      /\ t.subr \in [Conns -> Subrs \union {Null}]
  BY <1>1 DEF Thread
<1>4. TypeOK
  BY <1>1, <1>2, <1>3 DEF TypeOK, Flying, OnWire
<1> QED
  BY <1>2, <1>4 DEF QueuedIsListed, Listed

LEMMA PairsAreEnough ==
  ASSUME IInv
  PROVE  CancelFindsIt
<1>1. t \in Thread
  BY DEF IInv, Sound, OK
<1>2. /\ Paired(LiveJobs(t), t.jobData, t.alive, t.state, t.job)
      /\ Flying(t.conn, t.subr, t.ups, t.alive, t.done, t.state)
  BY DEF IInv, Sound, OK
<1>3. SessionHasSubr
  BY <1>2 DEF SessionHasSubr, Active, Flying
<1>4. CancelRemoves
  BY <1>2 DEF CancelRemoves, Paired
<1>5. ASSUME NEW s \in (Onces \intersect t.alive) \ t.done
      PROVE  InFlight(t, s) = IF t.state[s] = "active" THEN {t.ups[s]} ELSE {}
  <2>1. ASSUME NEW c \in InFlight(t, s) PROVE t.state[s] = "active" /\ t.ups[s] = c
    BY <1>2 DEF InFlight, Flying
  <2>2. ASSUME t.state[s] = "active" PROVE t.ups[s] \in InFlight(t, s)
    BY <1>2, <2>2 DEF InFlight, Flying
  <2> QED
    BY <2>1, <2>2
<1>6. ASSUME NEW s \in (Onces \intersect t.alive) \ t.done, t.state[s] = "dns"
      PROVE  t.job[s] # Null /\ t.jobData[t.job[s]] = s /\ t.jobCb[t.job[s]]
  <2>1. t.job[s] \in LiveJobs(t) /\ t.jobData[t.job[s]] = s
    BY <1>2, <1>6 DEF Paired
  <2>2. LiveJobs(t) \subseteq Jobs
    <3>1. t.jobQ \in Seq(Jobs) /\ t.submitted \in SUBSET Jobs
      BY <1>1 DEF Thread
    <3>2. RangeOf(t.jobQ) \subseteq Jobs
      BY <3>1, LenProperties, ElementOfSeq DEF RangeOf
    <3> QED
      BY <3>1, <3>2 DEF LiveJobs
  <2>3. t.job[s] # Null
    BY <2>1, <2>2, Kinds
  <2> QED
    BY <2>1, <2>3 DEF LiveJobs
<1> QED
  BY <1>3, <1>4, <1>5, <1>6 DEF CancelFindsIt

LEMMA KnownIsEnough ==
  ASSUME IInv
  PROVE  NothingIsLost
<1>1. /\ Paired(LiveJobs(t), t.jobData, t.alive, t.state, t.job)
      /\ Known(t.alive, t.state, Null)
      /\ t.submitted # {} => t.timer
  BY DEF IInv, Sound, OK
<1> QED
  BY <1>1, Kinds DEF NothingIsLost, Paired, Known

LEMMA RepeatedIsEnough ==
  ASSUME IInv
  PROVE  DupeStaysQueued
<1>1. /\ Listed(t.queue, t.entry, t.state, t.iq, t.alive)
      /\ Repeated(t.alive, t.state, t.requested, t.num, t.asked, Null)
      /\ t.alive \subseteq Subrs
  BY DEF IInv, Sound, OK, Thread
<1>2. ASSUME NEW s \in t.alive \intersect Dupes
      PROVE  LET nodes == {n \in RangeOf(t.queue) : t.entry[n] = s}
             IN  /\ Cardinality(nodes) <= 1
                 /\ nodes = {} => PendingDone(t, s) \/ t.requested[s] > t.asked
  <2> DEFINE nodes == {n \in RangeOf(t.queue) : t.entry[n] = s}
  <2>1. \A n \in nodes : n = t.iq[s]
    BY <1>1, Kinds DEF Listed
  <2>2. Cardinality(nodes) <= 1
    <3> HIDE DEF nodes
    <3>1. nodes = {} \/ nodes = {t.iq[s]}
      BY <2>1
    <3>2. Cardinality({}) = 0 /\ Cardinality({t.iq[s]}) = 1
      BY FS_EmptySet, FS_Singleton
    <3> QED
      BY <3>1, <3>2
  <2>3. ASSUME nodes = {} PROVE PendingDone(t, s) \/ t.requested[s] > t.asked
    <3>1. t.state[s] # "queued"
      BY <1>1, <2>3 DEF Listed
    <3>2. s # Null
      BY <1>1, Kinds
    <3> QED
      BY <1>1, <3>1, <3>2 DEF Repeated, PendingDone
  <2> QED
    BY <2>2, <2>3
<1> QED
  BY <1>2 DEF DupeStaysQueued

\* The iterator kept in a queued subrequest is the node that holds it, and no
\* node holds a subrequest that is not queued, or deleted.
THEOREM IteratorIsItsNode ==
  ASSUME ~SubmitFails
  PROVE  Spec => []QueuedIsListed
BY Invariance, ListedIsEnough, PTL

\* The state by which subr::cancel decides is the truth: what it ends is the
\* node, the look-up or the session of this subrequest, and it leaves nothing
\* that would call a subrequest back that is gone.
THEOREM CancelIsRight ==
  ASSUME ~SubmitFails
  PROVE  Spec => []CancelFindsIt
BY Invariance, PairsAreEnough, PTL

\* A request that has not ended is queued, being looked up or in flight, and as
\* long as there is a look-up on the wire there is a timer.
THEOREM RequestsAreKept ==
  ASSUME ~SubmitFails
  PROVE  Spec => []NothingIsLost
BY Invariance, KnownIsEnough, PTL

\* The subrequest of hurl is in the queue, once, as long as it has requests to
\* make, unless its name was not found.
THEOREM HurlKeepsAsking ==
  ASSUME ~SubmitFails
  PROVE  Spec => []DupeStaysQueued
BY Invariance, RepeatedIsEnough, PTL

=============================================================================
